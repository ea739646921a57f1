------------------------ MODULE MCManuscriptJournal ------------------------
(* Instance of ManuscriptJournal for TLC: two documents that share the     *)
(* journal, so that the damage of one save can hide another document's.    *)
EXTENDS ManuscriptJournal
=============================================================================
