-------------------------- MODULE MCCloseHandshake --------------------------
(* Instance of CloseHandshake for TLC: two documents, so that one can fail *)
(* or compose while the other is flushed.                                  *)
EXTENDS CloseHandshake
=============================================================================
