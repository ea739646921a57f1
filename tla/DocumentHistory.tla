--------------------------- MODULE DocumentHistory ---------------------------
(***************************************************************************)
(* What the workspace promises of every document, whatever its saves, its  *)
(* structure commands and its restarts do inside: an append-only history   *)
(* of revisions in which every edit is stored once, on top of the latest   *)
(* revision, before it is acknowledged.                                    *)
(*                                                                         *)
(* An edit is a number; the text of a revision is the set of edits in it.  *)
(***************************************************************************)
EXTENDS Naturals, Sequences

CONSTANTS Docs, Edits

VARIABLES
    history,   \* the revisions of each document, oldest first
    acked      \* the edits that were acknowledged

vars == <<history, acked>>

Latest(d) == history[d][Len(history[d])]

Stored(d, e) == \E i \in DOMAIN history[d] : e \in history[d][i].text

Init ==
    /\ \A d \in Docs : history[d] = <<>> \/ (Len(history[d]) = 1 /\ Latest(d).text = {})
    /\ acked = {}

(* The editor state stored with a text was made for that text, when the    *)
(* editor had started from the latest one.                                 *)
Extend(d, kinds, text, batches) ==
    \E r \in [kind : kinds, parent : {Len(history[d])}, batch : batches,
              text : {text}, editorText : SUBSET Edits, fitted : BOOLEAN] :
        /\ r.fitted => r.editorText = text
        /\ history' = [history EXCEPT ![d] = Append(@, r)]

Open(d) ==
    /\ history[d] = <<>>
    /\ \E r \in [kind : {"create"}, parent : {0}, batch : {0},
                 text : {{}}, editorText : {{}}, fitted : {TRUE}] :
           history' = [history EXCEPT ![d] = <<r>>]
    /\ UNCHANGED acked

Save(d, e) ==
    /\ history[d] # <<>>
    /\ \A c \in Docs : ~Stored(c, e)
    /\ Extend(d, {"text"}, Latest(d).text \cup {e}, {e})
    /\ acked' \in {acked, acked \cup {e}}

Format(d) ==
    /\ history[d] # <<>>
    /\ Extend(d, {"formatting"}, Latest(d).text, {0})
    /\ UNCHANGED acked

(* A restored revision comes back with the editor state it had.            *)
Restore(d, i) ==
    /\ history' = [history EXCEPT ![d] =
           Append(history[d],
                  [history[d][i] EXCEPT
                      !.kind = "restore", !.parent = Len(history[d]), !.batch = 0])]
    /\ UNCHANGED acked

Acknowledge(e) ==
    /\ \E d \in Docs : Stored(d, e)
    /\ acked' = acked \cup {e}
    /\ UNCHANGED history

Next ==
    \/ \E d \in Docs :
           \/ Open(d)
           \/ Format(d)
           \/ \E e \in Edits : Save(d, e)
           \/ \E i \in DOMAIN history[d] : Restore(d, i)
    \/ \E e \in Edits : Acknowledge(e)

Spec == Init /\ [][Next]_vars
=============================================================================
