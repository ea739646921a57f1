------------------------ MODULE WorkspaceRuntimeProofs ------------------------
(***************************************************************************)
(* Proofs about WorkspaceRuntime for any documents, edits, lengths of      *)
(* edits, and any number of structure commands and restarts: its type,     *)
(* what it says of targets and receipts, and that it implements            *)
(* DocumentHistory.                                                        *)
(*                                                                         *)
(* What makes this hard is that the checks of a save compare a base, a     *)
(* sequence and two lengths, and never a text, and a length tells little.  *)
(* A revision is OnLine with a base and a sequence when only saves lie     *)
(* between the base and it, as many of them text saves as the sequence     *)
(* says; all revisions on one line have one text (OnLineText).  A queue is *)
(* InTune when its text is the one on its line.  A queue made with the     *)
(* base and the text of the target is in tune and stays so (fitted); about *)
(* the editor state of any other nothing is claimed, for its edits may     *)
(* well be admitted on another text of the same length.                    *)
(***************************************************************************)
EXTENDS WorkspaceRuntime, SequenceTheorems, FiniteSetTheorems, TLAPS

(* Revision j follows i by saves only.                                     *)
SavesBetween(s, i, j) == \A k \in (i + 1)..j : s[k].kind \in {"text", "formatting"}

(* The text saves after revision i, up to j.                               *)
TextSaves(s, i, j) == {k \in (i + 1)..j : s[k].kind = "text"}

(* The history s of a document when the saves of m have been numbered.     *)
HistoryOK(s, m) ==
    /\ s \in Seq(Revision)
    /\ \A i \in 1..Len(s) : s[i].text \subseteq m /\ s[i].batch \in {0} \cup m
    /\ \A i, j \in 1..Len(s) :
           i <= j /\ SavesBetween(s, i, j) /\ TextSaves(s, i, j) = {}
               => s[i].text = s[j].text

OnLine(s, base, next, i) ==
    /\ base \in 1..Len(s) /\ i \in 1..Len(s) /\ base <= i
    /\ SavesBetween(s, base, i)
    /\ Cardinality(TextSaves(s, base, i)) = next

InTune(s, base, next, text) ==
    \E i \in 1..Len(s) : OnLine(s, base, next, i) /\ s[i].text = text

(* The history u goes on from s.                                           *)
Continues(s, u) ==
    /\ Len(s) \in Nat /\ Len(u) \in Nat /\ Len(s) <= Len(u)
    /\ \A i \in 1..Len(s) : u[i] = s[i]

-----------------------------------------------------------------------------
(* Histories.                                                              *)

(* The text saves between two revisions are finitely many.                 *)
LEMMA FiniteSaves ==
    ASSUME NEW s, NEW i \in Nat, NEW j \in Nat
    PROVE  /\ IsFiniteSet(TextSaves(s, i, j))
           /\ Cardinality(TextSaves(s, i, j)) \in Nat
<1>1. IsFiniteSet((i + 1)..j)
  <2>1. i + 1 \in Int /\ j \in Int
    OBVIOUS
  <2> QED
    BY <2>1, FS_Interval
<1>2. TextSaves(s, i, j) \subseteq (i + 1)..j
  BY DEF TextSaves
<1>3. IsFiniteSet(TextSaves(s, i, j))
  BY <1>1, <1>2, FS_Subset
<1> QED
  BY <1>3, FS_CardinalityType

(* The revisions of a history have their types.                            *)
LEMMA HistoryTexts ==
    ASSUME NEW m, NEW s, HistoryOK(s, m), NEW i \in 1..Len(s)
    PROVE  /\ s[i] \in Revision /\ s[i].text \subseteq m /\ s[i].text \in Text
           /\ s[i].batch \in {0} \cup m /\ Len(s) \in Nat
<1>1. s[i] \in Revision /\ Len(s) \in Nat
  BY ElementOfSeq, LenProperties DEF HistoryOK
<1>2. s[i].text \subseteq m /\ s[i].batch \in {0} \cup m
  BY DEF HistoryOK
<1> QED
  BY <1>1, <1>2 DEF Revision

(* Of two revisions on one line, the later has the text of the earlier.    *)
LEMMA LaterOnLine ==
    ASSUME NEW m, NEW s, HistoryOK(s, m), NEW base, NEW next,
           NEW i, NEW j, OnLine(s, base, next, i), OnLine(s, base, next, j), i <= j
    PROVE  s[i].text = s[j].text
<1>1. /\ base \in 1..Len(s) /\ i \in 1..Len(s) /\ j \in 1..Len(s) /\ base <= i /\ base <= j
      /\ SavesBetween(s, base, i) /\ SavesBetween(s, base, j)
      /\ Cardinality(TextSaves(s, base, i)) = Cardinality(TextSaves(s, base, j))
  BY DEF OnLine
<1>2. Len(s) \in Nat
  BY LenProperties DEF HistoryOK
<1>3. base \in Nat /\ i \in Nat /\ j \in Nat
  BY <1>1, <1>2
<1>4. TextSaves(s, base, i) \subseteq TextSaves(s, base, j)
  BY <1>3 DEF TextSaves
<1>5. IsFiniteSet(TextSaves(s, base, j))
  BY <1>3, FiniteSaves
<1>6. TextSaves(s, base, i) = TextSaves(s, base, j)
  <2> DEFINE A == TextSaves(s, base, i)
             B == TextSaves(s, base, j)
  <2>1. IsFiniteSet(B) /\ A \in SUBSET B /\ Cardinality(A) = Cardinality(B)
    BY <1>1, <1>4, <1>5
  <2> HIDE DEF A, B
  <2>2. A = B
    BY <2>1, FS_Subset
  <2> QED
    BY <2>2 DEF A, B
<1>7. TextSaves(s, i, j) = {}
  <2> SUFFICES ASSUME NEW k \in TextSaves(s, i, j) PROVE FALSE
    OBVIOUS
  <2>1. k \in (i + 1)..j /\ s[k].kind = "text"
    BY DEF TextSaves
  <2>2. k \in TextSaves(s, base, j)
    BY <1>1, <1>3, <2>1 DEF TextSaves
  <2>3. k \in TextSaves(s, base, i)
    BY <1>6, <2>2
  <2> QED
    BY <1>3, <2>1, <2>3 DEF TextSaves
<1>8. SavesBetween(s, i, j)
  BY <1>1, <1>3 DEF SavesBetween
<1> QED
  BY <1>1, <1>7, <1>8 DEF HistoryOK

(* All revisions on one line have one text.                                *)
LEMMA OnLineText ==
    ASSUME NEW m, NEW s, HistoryOK(s, m), NEW base, NEW next,
           NEW i, NEW j, OnLine(s, base, next, i), OnLine(s, base, next, j)
    PROVE  s[i].text = s[j].text
<1>1. i \in 1..Len(s) /\ j \in 1..Len(s)
  BY DEF OnLine
<1>2. Len(s) \in Nat
  BY LenProperties DEF HistoryOK
<1>3. i <= j \/ j <= i
  BY <1>1, <1>2
<1>4. CASE i <= j
  BY <1>4, LaterOnLine
<1>5. CASE j <= i
  BY <1>5, LaterOnLine
<1> QED
  BY <1>3, <1>4, <1>5

(* Every revision is on its own line.                                      *)
LEMMA OnLineHere ==
    ASSUME NEW m, NEW s, HistoryOK(s, m), NEW i \in 1..Len(s)
    PROVE  OnLine(s, i, 0, i)
<1>1. Len(s) \in Nat
  BY LenProperties DEF HistoryOK
<1>2. TextSaves(s, i, i) = {} /\ SavesBetween(s, i, i)
  BY <1>1 DEF TextSaves, SavesBetween
<1>3. Cardinality({}) = 0
  BY FS_EmptySet
<1> QED
  BY <1>1, <1>2, <1>3 DEF OnLine

(* What is on a line stays on it when the history continues.               *)
LEMMA Kept_OnLine ==
    ASSUME NEW s, NEW u, Continues(s, u), NEW b, NEW n, NEW i, OnLine(s, b, n, i)
    PROVE  OnLine(u, b, n, i)
<1>1. /\ b \in 1..Len(s) /\ i \in 1..Len(s) /\ b <= i /\ SavesBetween(s, b, i)
      /\ Cardinality(TextSaves(s, b, i)) = n
  BY DEF OnLine
<1>2. b \in 1..Len(u) /\ i \in 1..Len(u) /\ \A k \in (b + 1)..i : u[k] = s[k]
  BY <1>1 DEF Continues
<1>3. TextSaves(u, b, i) = TextSaves(s, b, i)
  BY <1>2 DEF TextSaves
<1>4. SavesBetween(u, b, i)
  BY <1>1, <1>2 DEF SavesBetween
<1> QED
  BY <1>1, <1>2, <1>3, <1>4 DEF OnLine

(* Who is in tune with a history is so with its continuation.              *)
LEMMA Kept_InTune ==
    ASSUME NEW s, NEW u, Continues(s, u), NEW b, NEW n, NEW t, InTune(s, b, n, t)
    PROVE  InTune(u, b, n, t)
<1>1. PICK i \in 1..Len(s) : OnLine(s, b, n, i) /\ s[i].text = t
  BY DEF InTune
<1>2. OnLine(u, b, n, i)
  BY <1>1, Kept_OnLine
<1> QED
  BY <1>1, <1>2 DEF InTune, Continues

(* A history stays good when further saves are numbered.                   *)
LEMMA HistoryLater ==
    ASSUME NEW m, NEW n, m \subseteq n, NEW s, HistoryOK(s, m)
    PROVE  HistoryOK(s, n)
BY DEF HistoryOK

(* Appending a revision continues a history.                               *)
LEMMA AppendContinues ==
    ASSUME NEW s \in Seq(Revision), NEW r \in Revision
    PROVE  /\ Continues(s, Append(s, r)) /\ Append(s, r) \in Seq(Revision)
           /\ Len(Append(s, r)) = Len(s) + 1 /\ Append(s, r)[Len(s) + 1] = r
           /\ \A i \in 1..Len(s) : Append(s, r)[i] = s[i]
           /\ Len(s) \in Nat
BY AppendProperties, LenProperties DEF Continues

(* Appending a revision keeps a history good, if one that saves formatting *)
(* keeps the latest text.                                                  *)
LEMMA AppendHistory ==
    ASSUME NEW m, NEW s, HistoryOK(s, m), NEW r \in Revision,
           r.text \subseteq m, r.batch \in {0} \cup m,
           r.kind = "formatting" /\ Len(s) > 0 => s[Len(s)].text = r.text
    PROVE  HistoryOK(Append(s, r), m)
<1> DEFINE u == Append(s, r)
<1>1. /\ s \in Seq(Revision) /\ u \in Seq(Revision) /\ Len(s) \in Nat
      /\ Len(u) = Len(s) + 1 /\ u[Len(s) + 1] = r /\ \A i \in 1..Len(s) : u[i] = s[i]
  BY AppendContinues DEF HistoryOK
<1> HIDE DEF u
<1>2. \A i \in 1..Len(u) : u[i].text \subseteq m /\ u[i].batch \in {0} \cup m
  BY <1>1 DEF HistoryOK
<1>3. ASSUME NEW i \in 1..Len(u), NEW j \in 1..Len(u), i <= j, SavesBetween(u, i, j),
             TextSaves(u, i, j) = {}
      PROVE  u[i].text = u[j].text
  <2>1. CASE j <= Len(s)
    <3>1. i \in 1..Len(s) /\ j \in 1..Len(s) /\ SavesBetween(s, i, j)
      BY <1>1, <1>3, <2>1 DEF SavesBetween
    <3>2. TextSaves(s, i, j) = {}
      BY <1>1, <1>3, <2>1 DEF TextSaves
    <3> QED
      BY <1>1, <1>3, <3>1, <3>2 DEF HistoryOK
  <2>2. CASE i = j
    BY <2>2
  <2>3. CASE j = Len(s) + 1 /\ i <= Len(s)
    <3>1. /\ i \in 1..Len(s) /\ Len(s) \in 1..Len(s) /\ SavesBetween(s, i, Len(s))
          /\ u[j].kind \in {"text", "formatting"}
      BY <1>1, <1>3, <2>3 DEF SavesBetween
    <3>2. TextSaves(s, i, Len(s)) = {} /\ u[j].kind # "text"
      BY <1>1, <1>3, <2>3 DEF TextSaves
    <3>3. s[i].text = s[Len(s)].text
      BY <1>1, <2>3, <3>1, <3>2 DEF HistoryOK
    <3> QED
      BY <1>1, <2>3, <3>1, <3>2, <3>3
  <2> QED
    BY <1>1, <1>3, <2>1, <2>2, <2>3
<1> QED
  BY <1>1, <1>2, <1>3 DEF u, HistoryOK

(* A save continues the line of the revision it expects.                   *)
LEMMA SaveOnLine ==
    ASSUME NEW s \in Seq(Revision), NEW r \in Revision, NEW base, NEW next,
           OnLine(s, base, next, Len(s))
    PROVE  /\ r.kind = "formatting" => OnLine(Append(s, r), base, next, Len(s) + 1)
           /\ r.kind = "text" => OnLine(Append(s, r), base, next + 1, Len(s) + 1)
<1> DEFINE u == Append(s, r)
           n == Len(s) + 1
<1>1. /\ u \in Seq(Revision) /\ Len(s) \in Nat
      /\ Len(u) = n /\ u[n] = r /\ \A i \in 1..Len(s) : u[i] = s[i]
  BY AppendContinues
<1>2. /\ base \in 1..Len(s) /\ SavesBetween(s, base, Len(s))
      /\ Cardinality(TextSaves(s, base, Len(s))) = next
  BY DEF OnLine
<1> HIDE DEF u
<1>3. IsFiniteSet(TextSaves(s, base, Len(s)))
  BY <1>1, <1>2, FiniteSaves
<1>4. base \in 1..Len(u) /\ n \in 1..Len(u) /\ base <= n
  BY <1>1, <1>2
<1>5. ASSUME r.kind \in {"text", "formatting"} PROVE SavesBetween(u, base, n)
  BY <1>1, <1>2, <1>5 DEF SavesBetween
<1>6. ASSUME r.kind = "formatting" PROVE OnLine(u, base, next, n)
  <2>1. TextSaves(u, base, n) = TextSaves(s, base, Len(s))
    BY <1>1, <1>2, <1>6 DEF TextSaves
  <2> QED
    BY <1>2, <1>4, <1>5, <1>6, <2>1 DEF OnLine
<1>7. ASSUME r.kind = "text" PROVE OnLine(u, base, next + 1, n)
  <2>1. TextSaves(u, base, n) = TextSaves(s, base, Len(s)) \cup {n}
    BY <1>1, <1>2, <1>7 DEF TextSaves
  <2>2. n \notin TextSaves(s, base, Len(s))
    BY <1>1 DEF TextSaves
  <2>3. Cardinality(TextSaves(u, base, n)) = next + 1
    BY <1>2, <1>3, <2>1, <2>2, FS_AddElement
  <2> QED
    BY <1>4, <1>5, <1>7, <2>3 DEF OnLine
<1> QED
  BY <1>6, <1>7 DEF u

-----------------------------------------------------------------------------
(* The invariant.                                                          *)

(* A text command knows where its batch was stored, if it was.             *)
StoredOK(c, l, a) ==
    /\ \A d \in Docs : \A i \in 1..Len(l[d]) :
           /\ l[d][i].batch = c.batch => a[c.batch] = i
           /\ c.batch \in l[d][i].text => a[c.batch] # 0
    /\ a[c.batch] # 0 =>
           /\ a[c.batch] \in 1..Len(l[c.doc])
           /\ c.batch \in l[c.doc][a[c.batch]].text
           /\ c.fitted => l[c.doc][a[c.batch]].text = c.text
           /\ OnLine(l[c.doc], c.base, c.sequence + 1, a[c.batch])

(* The text a fitted command was made for is the one on its line.          *)
Tuned(c, s) ==
    \E i \in 1..Len(s) : /\ OnLine(s, c.base, c.sequence, i)
                         /\ c.text = s[i].text \cup {c.batch}

CommandOK(c, l, a, m) ==
    /\ c \in Command /\ c.batch \in m
    /\ c.kind = "text" => StoredOK(c, l, a) /\ (c.fitted => Tuned(c, l[c.doc]))
    /\ c.kind = "formatting" =>
           /\ c.base \in 1..Len(l[c.doc])
           /\ c.fitted /\ c.base = Len(l[c.doc]) => c.text = l[c.doc][c.base].text

TargetOK(t, s) ==
    /\ t \in Target /\ t.current \in 1..Len(s) /\ t.text = s[t.current].text
    /\ OnLine(s, t.base, t.next, t.current)

(* The queue k of a document with history s.                               *)
QueueOK(k, s) ==
    /\ k.installed => k.revision \in 1..Len(s)
    /\ k.installed /\ k.fitted =>
           /\ k.revision = Len(s) => k.text = s[k.revision].text
           /\ InTune(s, k.base, k.next, k.text)

FlightOK(k) ==
    /\ k.unsent # 0 => k.installed
    /\ k.flight # NoFlight =>
           /\ k.installed /\ k.flight.doc = k.doc /\ k.flight.fitted = k.fitted
           /\ k.flight.kind = "text" =>
                  k.flight.base = k.base /\ k.flight.sequence = k.next
           /\ k.flight.kind = "formatting" => k.flight.text = k.text

GoodQueue(k, l) == k \in Client /\ QueueOK(k, l[k.doc]) /\ FlightOK(k)

(* Batch b has not been sent to the runtime.                               *)
Unused(b, l, a, m, commands) ==
    /\ b \in m /\ a[b] = 0
    /\ \A d \in Docs : \A i \in 1..Len(l[d]) : l[d][i].batch # b /\ b \notin l[d][i].text
    /\ \A c \in commands : c.batch # b

(* The running save v of command c, when its target is t.                  *)
SavingOK(v, c, s, t, a) ==
    /\ v.expected \in 1..Len(s)
    /\ c.kind = "text" =>
           /\ a[c.batch] = 0 /\ v.text = s[v.expected].text \cup {c.batch}
           /\ c.fitted => v.text = c.text
           /\ OnLine(s, c.base, c.sequence, v.expected)
    /\ c.kind = "formatting" => v.text = s[v.expected].text /\ v.expected = c.base
    /\ v.attached =>
           /\ t # NoTarget
           /\ Len(s) = v.expected =>
                  /\ t.current = v.expected
                  /\ c.kind = "text" => t.base = c.base /\ t.next = c.sequence

RowsOK(rows, l) == rows \in [Docs -> Nat] /\ \A d \in Docs : rows[d] \in 0..Len(l[d])

LedgerOK ==
    /\ issued \subseteq Batches
    /\ ledger \in [Docs -> Seq(Revision)]
    /\ \A d \in Docs : HistoryOK(ledger[d], issued)
    /\ live \in [Docs -> {"absent", "live", "retired"}]
    /\ \A d \in Docs : (live[d] = "absent") <=> (Len(ledger[d]) = 0)

TargetsOK ==
    /\ targets \in [Docs -> Target \cup {NoTarget}]
    /\ \A d \in Docs : targets[d] # NoTarget => TargetOK(targets[d], ledger[d])

AcceptedOK ==
    /\ accepted \in [Batches -> Nat]
    /\ \A b \in Batches : accepted[b] # 0 => b \in issued

(* The replaced queues all hold an edit, and no edit is held twice.        *)
ClientsOK ==
    /\ client \in [Docs -> Client]
    /\ \A d \in Docs : client[d].doc = d /\ GoodQueue(client[d], ledger)
    /\ \A q \in left : GoodQueue(q, ledger) /\ q.unsent # 0
    /\ \A q \in left : \A d \in Docs : q.unsent # client[d].unsent
    /\ \A q, r \in left : q.unsent = r.unsent => q = r
    /\ \A d, e \in Docs : client[d].unsent # 0 /\ client[d].unsent = client[e].unsent => d = e

(* The commands the renderer has sent or will send again.                  *)
Pending == {saves[i] : i \in 1..Len(saves)}
           \cup ({client[d].flight : d \in Docs} \ {NoFlight})

CommandsOK ==
    /\ saves \in Seq(Command)
    /\ \A c \in Pending : CommandOK(c, ledger, accepted, issued)
    /\ \A c, e \in Pending : c.batch = e.batch => c = e

(* The edits that wait in queues.                                          *)
Held == ({client[d].unsent : d \in Docs} \cup {q.unsent : q \in left}) \ {0}

HeldOK == \A b \in Held : Unused(b, ledger, accepted, issued, Pending)

SavingsOK ==
    /\ saving \in Saving \cup {NoSave}
    /\ saving # NoSave =>
           /\ saves # <<>>
           /\ SavingOK(saving, saves[1], ledger[saves[1].doc],
                       targets[saves[1].doc], accepted)

Asked == [kind : {"activate", "retire", "create", "restore"},
             doc : Docs, revision : Nat]

OpOK(o, l, v) ==
    /\ o \in Op /\ RowsOK(o.rows, l)
    /\ o.kind # "none" => o.doc \in Docs
    /\ o.kind = "create" /\ o.phase \in {"waiting", "publishing"} => v[o.doc] = "absent"
    /\ o.kind = "restore" => o.revision \in 1..Len(l[o.doc])

OpsOK(q, o, l, v) ==
    /\ q \in Seq(Asked)
    /\ \A i \in 1..Len(q) :
           /\ q[i].kind = "create" =>
                  v[q[i].doc] = "absent" /\ (o.kind = "create" => o.doc # q[i].doc)
           /\ q[i].kind = "restore" => q[i].revision \in 1..Len(l[q[i].doc])
    /\ \A i, j \in 1..Len(q) :
           q[i].kind = "create" /\ q[j].kind = "create" /\ q[i].doc = q[j].doc => i = j

StructureOK ==
    /\ OpOK(op, ledger, live) /\ OpsOK(ops, op, ledger, live)
    /\ op.kind = "restore" /\ op.phase = "materializing" => targets[op.doc] # NoTarget

ProjectionOK ==
    /\ RowsOK(profile, ledger)
    /\ query \in Query /\ RowsOK(query.rows, ledger)

CountsOK == requested \in Nat /\ crashes \in Nat /\ acked \in SUBSET Batches

Inv == /\ LedgerOK /\ TargetsOK /\ AcceptedOK /\ ClientsOK /\ CommandsOK /\ HeldOK
       /\ SavingsOK /\ StructureOK /\ ProjectionOK /\ CountsOK

-----------------------------------------------------------------------------
(* What keeps the parts of the invariant.                                  *)

(* Histories that go on without storing a batch: created and restored      *)
(* revisions.                                                              *)
Unsaved(l, u) ==
    \A d \in Docs :
        /\ Continues(l[d], u[d])
        /\ \A i \in 1..Len(u[d]) :
               \/ i <= Len(l[d])
               \/ u[d][i].batch = 0 /\ u[d][i].text = {}
               \/ u[d][i].batch = 0 /\ \E j \in 1..Len(l[d]) : u[d][i].text = l[d][j].text

(* A command that is in tune with a history is so with its continuation.   *)
LEMMA Kept_Tuned ==
    ASSUME NEW s, NEW u, Continues(s, u), NEW c, Tuned(c, s)
    PROVE  Tuned(c, u)
<1>1. PICK i \in 1..Len(s) : /\ OnLine(s, c.base, c.sequence, i)
                             /\ c.text = s[i].text \cup {c.batch}
  BY DEF Tuned
<1>2. OnLine(u, c.base, c.sequence, i)
  BY <1>1, Kept_OnLine
<1>3. i \in 1..Len(u) /\ u[i] = s[i]
  BY DEF Continues
<1> QED
  BY <1>1, <1>2, <1>3 DEF Tuned

(* A save under way stays good when histories it has no part in continue.  *)
LEMMA CommandKept ==
    ASSUME NEW c, NEW l, NEW u, NEW a, NEW m, m \subseteq Batches,
           CommandOK(c, l, a, m), Unsaved(l, u)
    PROVE  CommandOK(c, u, a, m)
<1>1. c \in Command /\ c.batch \in m /\ c.doc \in Docs /\ c.batch # 0
  BY ConstantsAssumption DEF CommandOK, Command
<1>2. Continues(l[c.doc], u[c.doc])
  BY <1>1 DEF Unsaved
<1>3. ASSUME c.kind = "text" PROVE StoredOK(c, u, a) /\ (c.fitted => Tuned(c, u[c.doc]))
  <2>1. StoredOK(c, l, a) /\ (c.fitted => Tuned(c, l[c.doc]))
    BY <1>3 DEF CommandOK
  <2>2. c.fitted => Tuned(c, u[c.doc])
    BY <1>2, <2>1, Kept_Tuned
  <2>3. ASSUME NEW d \in Docs, NEW i \in 1..Len(u[d])
        PROVE  /\ u[d][i].batch = c.batch => a[c.batch] = i
               /\ c.batch \in u[d][i].text => a[c.batch] # 0
    <3>1. Continues(l[d], u[d])
      BY DEF Unsaved
    <3>2. CASE i <= Len(l[d])
      <4>1. i \in 1..Len(l[d]) /\ u[d][i] = l[d][i]
        BY <3>1, <3>2 DEF Continues
      <4> QED
        BY <2>1, <4>1 DEF StoredOK
    <3>3. CASE u[d][i].batch = 0 /\ u[d][i].text = {}
      BY <1>1, <3>3
    <3>4. CASE u[d][i].batch = 0 /\ \E j \in 1..Len(l[d]) : u[d][i].text = l[d][j].text
      BY <1>1, <2>1, <3>4 DEF StoredOK
    <3> QED
      BY <3>2, <3>3, <3>4 DEF Unsaved
  <2>4. ASSUME a[c.batch] # 0
        PROVE  /\ a[c.batch] \in 1..Len(u[c.doc])
               /\ c.batch \in u[c.doc][a[c.batch]].text
               /\ c.fitted => u[c.doc][a[c.batch]].text = c.text
               /\ OnLine(u[c.doc], c.base, c.sequence + 1, a[c.batch])
    <3>1. /\ a[c.batch] \in 1..Len(l[c.doc])
          /\ c.batch \in l[c.doc][a[c.batch]].text
          /\ c.fitted => l[c.doc][a[c.batch]].text = c.text
          /\ OnLine(l[c.doc], c.base, c.sequence + 1, a[c.batch])
      BY <2>1, <2>4 DEF StoredOK
    <3>2. OnLine(u[c.doc], c.base, c.sequence + 1, a[c.batch])
      BY <1>2, <3>1, Kept_OnLine
    <3> QED
      BY <1>2, <3>1, <3>2 DEF Continues
  <2> QED
    BY <2>2, <2>3, <2>4 DEF StoredOK
<1>4. ASSUME c.kind = "formatting"
      PROVE  /\ c.base \in 1..Len(u[c.doc])
             /\ c.fitted /\ c.base = Len(u[c.doc]) => c.text = u[c.doc][c.base].text
  BY <1>2, <1>4 DEF CommandOK, Continues
<1> QED
  BY <1>1, <1>3, <1>4 DEF CommandOK

(* A target stays good when its history continues.                         *)
LEMMA TargetKept ==
    ASSUME NEW s, NEW u, Continues(s, u), NEW t, TargetOK(t, s)
    PROVE  TargetOK(t, u)
BY Kept_OnLine DEF TargetOK, Continues

(* A queue stays good when its history continues.                          *)
LEMMA QueueKept ==
    ASSUME NEW s, NEW u, Continues(s, u), NEW k, QueueOK(k, s)
    PROVE  QueueOK(k, u)
BY Kept_InTune DEF QueueOK, Continues

(* Rows that were read stay rows of histories that continue.               *)
LEMMA RowsKept ==
    ASSUME NEW l, NEW u, \A d \in Docs : Continues(l[d], u[d]), NEW rows, RowsOK(rows, l)
    PROVE  RowsOK(rows, u)
BY DEF RowsOK, Continues

(* A history continues itself.                                             *)
LEMMA UnchangedContinues ==
    ASSUME NEW m, NEW s, HistoryOK(s, m)
    PROVE  Continues(s, s)
BY LenProperties DEF Continues, HistoryOK

(* The chain of saves is a sequence of pending commands.                   *)
LEMMA FirstSave ==
    ASSUME CommandsOK, saves # <<>>
    PROVE  /\ saves[1] \in Pending /\ saves[1] \in Command /\ saves[1].doc \in Docs
           /\ CommandOK(saves[1], ledger, accepted, issued)
           /\ saves[1].batch \in Batches /\ saves[1].batch # 0
           /\ Len(saves) \in Nat /\ Len(saves) > 0
           /\ Tail(saves) \in Seq(Command)
           /\ \A i \in 1..Len(Tail(saves)) : Tail(saves)[i] = saves[i + 1]
           /\ Len(Tail(saves)) = Len(saves) - 1
<1>1. saves \in Seq(Command) /\ Len(saves) \in Nat /\ Len(saves) > 0
  BY EmptySeq, LenProperties DEF CommandsOK
<1>2. saves[1] \in Pending
  BY <1>1 DEF Pending
<1>3. saves[1] \in Command
  BY <1>1, ElementOfSeq
<1>4. saves[1].doc \in Docs /\ saves[1].batch \in Batches /\ saves[1].batch # 0
  BY <1>3, ConstantsAssumption DEF Command
<1>5. /\ Tail(saves) \in Seq(Command) /\ Len(Tail(saves)) = Len(saves) - 1
      /\ \A i \in 1..Len(Tail(saves)) : Tail(saves)[i] = saves[i + 1]
  BY <1>1, HeadTailProperties
<1> QED
  BY <1>1, <1>2, <1>3, <1>4, <1>5 DEF CommandsOK

-----------------------------------------------------------------------------
(* The renderer.                                                           *)

(* The fields of a queue, whatever else is known of it.                    *)
LEMMA QueueFields ==
    ASSUME NEW k \in Client
    PROVE  /\ k.doc \in Docs /\ k.installed \in BOOLEAN /\ k.base \in Nat
           /\ k.next \in Nat /\ k.revision \in Nat /\ k.text \in Text
           /\ k.unsent \in {0} \cup Batches
           /\ k.flight \in Command \cup {NoFlight} /\ k.fitted \in BOOLEAN
BY DEF Client

(* What a queue sends of what was typed is a good command.                 *)
LEMMA TextSaveOK ==
    ASSUME NEW k, GoodQueue(k, ledger), k.unsent # 0, issued \subseteq Batches,
           Unused(k.unsent, ledger, accepted, issued, Pending)
    PROVE  /\ TextSave(k) \in Command /\ TextSave(k).batch = k.unsent
           /\ CommandOK(TextSave(k), ledger, accepted, issued)
           /\ TextSave(k).kind = "text" /\ TextSave(k).doc = k.doc
           /\ TextSave(k).base = k.base /\ TextSave(k).sequence = k.next
           /\ TextSave(k).fitted = k.fitted
<1> DEFINE c == TextSave(k)
<1>1. /\ k \in Client /\ k.doc \in Docs /\ k.base \in Nat /\ k.next \in Nat
      /\ k.text \in Text /\ k.unsent \in Batches /\ k.fitted \in BOOLEAN
  BY QueueFields DEF GoodQueue
<1>2. k.text \cup {k.unsent} \in Text
  BY <1>1 DEF Text
<1>3. c \in Command
  BY <1>1, <1>2, Zenon DEF TextSave, Command
<1>4. /\ c.kind = "text" /\ c.doc = k.doc /\ c.batch = k.unsent /\ c.base = k.base
      /\ c.sequence = k.next /\ c.text = k.text \cup {k.unsent}
  BY DEF TextSave
<1>5. c.fitted = k.fitted
  BY Zenon DEF TextSave
<1> HIDE DEF c
<1>6. StoredOK(c, ledger, accepted) /\ c.batch \in issued
  BY <1>4 DEF Unused, StoredOK
<1>7. c.fitted => Tuned(c, ledger[c.doc])
  <2> SUFFICES ASSUME k.fitted PROVE Tuned(c, ledger[c.doc])
    BY <1>5
  <2>1. InTune(ledger[k.doc], k.base, k.next, k.text)
    BY DEF GoodQueue, QueueOK, FlightOK
  <2> QED
    BY <1>4, <2>1 DEF InTune, Tuned
<1>8. CommandOK(c, ledger, accepted, issued)
  BY <1>3, <1>4, <1>6, <1>7 DEF CommandOK
<1> QED
  BY <1>3, <1>4, <1>5, <1>8 DEF c

(* What a queue sends of its editor state is a good command.               *)
LEMMA FormattingSaveOK ==
    ASSUME NEW k, GoodQueue(k, ledger), k.installed, NEW m, m \subseteq Batches, NEW b \in m
    PROVE  /\ FormattingSave(k, b) \in Command /\ FormattingSave(k, b).batch = b
           /\ CommandOK(FormattingSave(k, b), ledger, accepted, m)
           /\ FormattingSave(k, b).kind = "formatting" /\ FormattingSave(k, b).doc = k.doc
           /\ FormattingSave(k, b).text = k.text /\ FormattingSave(k, b).fitted = k.fitted
<1> DEFINE c == FormattingSave(k, b)
<1>1. /\ k \in Client /\ k.doc \in Docs /\ k.revision \in Nat /\ k.text \in Text
      /\ k.fitted \in BOOLEAN /\ b \in Batches /\ 0 \in Nat
  BY QueueFields DEF GoodQueue
<1>2. c \in Command
  BY <1>1, Zenon DEF FormattingSave, Command
<1>3. /\ c.kind = "formatting" /\ c.doc = k.doc /\ c.batch = b /\ c.base = k.revision
      /\ c.text = k.text
  BY DEF FormattingSave
<1>4. c.fitted = k.fitted
  BY Zenon DEF FormattingSave
<1> HIDE DEF c
<1>5. /\ c.base \in 1..Len(ledger[c.doc])
      /\ c.fitted /\ c.base = Len(ledger[c.doc]) => c.text = ledger[c.doc][c.base].text
  BY <1>3, <1>4 DEF GoodQueue, QueueOK
<1>6. CommandOK(c, ledger, accepted, m)
  BY <1>2, <1>3, <1>5 DEF CommandOK
<1> QED
  BY <1>2, <1>3, <1>4, <1>6 DEF c

(* A command more on the chain of saves.                                   *)
LEMMA Appended ==
    ASSUME Inv, NEW c \in Command, saves' = Append(saves, c)
    PROVE  /\ saves' \in Seq(Command) /\ Len(saves') = Len(saves) + 1 /\ Len(saves) \in Nat
           /\ saves'[Len(saves) + 1] = c /\ \A i \in 1..Len(saves) : saves'[i] = saves[i]
           /\ saving' = saving /\ UNCHANGED <<ledger, targets, accepted>> => SavingsOK'
<1>1. saves \in Seq(Command)
  BY DEF Inv, CommandsOK
<1>2. /\ saves' \in Seq(Command) /\ Len(saves') = Len(saves) + 1 /\ Len(saves) \in Nat
      /\ saves'[Len(saves) + 1] = c /\ \A i \in 1..Len(saves) : saves'[i] = saves[i]
  BY <1>1, AppendProperties, LenProperties
<1>3. saves # <<>> => Len(saves) > 0 /\ saves' # <<>> /\ saves'[1] = saves[1]
  BY <1>1, <1>2, EmptySeq
<1> QED
  BY <1>2, <1>3 DEF Inv, SavingsOK

(* The author types.                                                       *)
LEMMA EditStep ==
    ASSUME Inv, NEW d \in Docs, Edit(d)
    PROVE  Inv'
<1>1. PICK b \in Batches \ issued :
          /\ client' = [client EXCEPT ![d] = [client[d] EXCEPT !.unsent = b]]
          /\ issued' = issued \cup {b}
  BY DEF Edit
<1>2. /\ client[d].installed /\ client[d].unsent = 0
      /\ UNCHANGED <<ledger, live, targets, profile, accepted, saves, saving, ops, op,
                     left, query, requested, crashes, acked>>
  BY DEF Edit, mainVars
<1>3. /\ ClientsOK /\ client \in [Docs -> Client] /\ client[d] \in Client
      /\ GoodQueue(client[d], ledger) /\ client[d].doc = d /\ LedgerOK
      /\ issued \subseteq issued' /\ b # 0 /\ b \in {0} \cup Batches
  BY <1>1, ConstantsAssumption DEF Inv, ClientsOK
<1>4. \A k \in Client : \A x \in {0} \cup Batches : [k EXCEPT !.unsent = x] \in Client
  BY Zenon DEF Client
<1>5. /\ client' \in [Docs -> Client] /\ client'[d] = [client[d] EXCEPT !.unsent = b]
      /\ \A e \in Docs : e # d => client'[e] = client[e]
  BY <1>1, <1>3, <1>4
<1>6. /\ client'[d].flight = client[d].flight /\ client'[d].text = client[d].text
      /\ client'[d].base = client[d].base /\ client'[d].next = client[d].next
      /\ client'[d].revision = client[d].revision /\ client'[d].doc = client[d].doc
      /\ client'[d].unsent = b
  BY <1>3, <1>5 DEF Client
<1>7. client'[d].installed = client[d].installed /\ client'[d].fitted = client[d].fitted
  BY <1>3, <1>5, Zenon DEF Client
<1>8. GoodQueue(client'[d], ledger)
  <2>1. QueueOK(client'[d], ledger[d])
    BY <1>3, <1>6, <1>7 DEF GoodQueue, QueueOK
  <2>2. FlightOK(client'[d])
    BY <1>2, <1>3, <1>6, <1>7 DEF GoodQueue, FlightOK
  <2> QED
    BY <1>3, <1>5, <1>6, <2>1, <2>2 DEF GoodQueue
<1>9. \A x \in Held : x \in issued
  BY DEF Inv, HeldOK, Unused
<1>10. /\ \A q \in left : q.unsent \in issued
       /\ \A e \in Docs : client[e].unsent = 0 \/ client[e].unsent \in issued
  BY <1>9, ConstantsAssumption DEF Held, Inv, ClientsOK
<1>11. ClientsOK'
  <2>1. \A e \in Docs : client'[e].doc = e /\ GoodQueue(client'[e], ledger)
    BY <1>3, <1>5, <1>6, <1>8 DEF ClientsOK
  <2>2. \A q \in left : \A e \in Docs : q.unsent # client'[e].unsent
    BY <1>1, <1>3, <1>5, <1>6, <1>10 DEF ClientsOK
  <2>3. \A e, f \in Docs : client'[e].unsent # 0 /\ client'[e].unsent = client'[f].unsent
                               => e = f
    BY <1>1, <1>3, <1>5, <1>6, <1>10 DEF ClientsOK
  <2> QED
    BY <1>2, <1>3, <1>5, <2>1, <2>2, <2>3 DEF ClientsOK
<1>12. Pending' = Pending
  <2>1. \A e \in Docs : client'[e].flight = client[e].flight
    BY <1>5, <1>6
  <2> QED
    BY <1>2, <2>1 DEF Pending
<1>13. CommandsOK'
  <2>1. \A c \in Pending : CommandOK(c, ledger, accepted, issued')
    BY <1>3 DEF Inv, CommandsOK, CommandOK
  <2> QED
    BY <1>2, <1>12, <2>1 DEF Inv, CommandsOK
<1>14. HeldOK'
  <2>1. ASSUME NEW x \in Held' PROVE x \in Held \/ x = b
    <3>1. CASE \E q \in left : x = q.unsent /\ x # 0
      BY <3>1 DEF Held
    <3>2. CASE \E e \in Docs : x = client'[e].unsent /\ x # 0
      <4>1. PICK e \in Docs : x = client'[e].unsent /\ x # 0
        BY <3>2
      <4>2. x = b \/ x = client[e].unsent
        BY <1>5, <1>6, <4>1
      <4> QED
        BY <4>1, <4>2 DEF Held
    <3> QED
      BY <1>2, <3>1, <3>2 DEF Held
  <2>2. \A x \in Held : Unused(x, ledger, accepted, issued', Pending)
    BY <1>3 DEF Inv, HeldOK, Unused
  <2>3. Unused(b, ledger, accepted, issued', Pending)
    <3>1. b \in issued' /\ accepted[b] = 0
      BY <1>1 DEF Inv, AcceptedOK
    <3>2. ASSUME NEW e \in Docs, NEW i \in 1..Len(ledger[e])
          PROVE  ledger[e][i].batch # b /\ b \notin ledger[e][i].text
      BY <1>1, <1>3 DEF LedgerOK, HistoryOK
    <3>3. \A c \in Pending : c.batch # b
      BY <1>1 DEF Inv, CommandsOK, CommandOK
    <3> QED
      BY <3>1, <3>2, <3>3 DEF Unused
  <2> QED
    BY <1>2, <1>12, <2>1, <2>2, <2>3 DEF HeldOK
<1>15. LedgerOK'
  BY <1>1, <1>2, <1>3, HistoryLater DEF LedgerOK
<1>16. AcceptedOK'
  BY <1>2, <1>3 DEF Inv, AcceptedOK
<1> QED
  BY <1>2, <1>11, <1>13, <1>14, <1>15, <1>16 DEF Inv, TargetsOK, SavingsOK, StructureOK,
      ProjectionOK, CountsOK

(* A queue sends a new command.                                            *)
LEMMA SendStep ==
    ASSUME Inv, NEW d \in Docs, NEW c, Send(d, c), client[d].installed,
           issued \subseteq issued', issued' \subseteq Batches,
           c \in Command, CommandOK(c, ledger, accepted, issued'),
           c.doc = d, c.fitted = client[d].fitted,
           c.kind = "text" => c.base = client[d].base /\ c.sequence = client[d].next,
           c.kind = "formatting" => c.text = client[d].text,
           \A e \in Pending : e.batch # c.batch,
           \A x \in Held : x # client[d].unsent => x # c.batch
    PROVE  Inv'
<1>1. /\ client[d].flight = NoFlight /\ saves' = Append(saves, c)
      /\ client' = [client EXCEPT ![d] =
                        [client[d] EXCEPT !.flight = c, !.sent = TRUE, !.unsent = 0]]
      /\ UNCHANGED <<ledger, live, targets, profile, accepted, saving, ops, op, left,
                     query, requested, crashes, acked>>
  BY DEF Send
<1>2. /\ ClientsOK /\ client \in [Docs -> Client] /\ client[d] \in Client
      /\ GoodQueue(client[d], ledger) /\ client[d].doc = d /\ LedgerOK
      /\ c # NoFlight
  BY ConstantsAssumption DEF Inv, ClientsOK
<1>3. /\ saves' \in Seq(Command) /\ Len(saves') = Len(saves) + 1 /\ Len(saves) \in Nat
      /\ saves'[Len(saves) + 1] = c /\ \A i \in 1..Len(saves) : saves'[i] = saves[i]
      /\ SavingsOK'
  BY <1>1, Appended
<1>4. \A k \in Client : [k EXCEPT !.flight = c, !.sent = TRUE, !.unsent = 0] \in Client
  BY Zenon DEF Client
<1>5. /\ client' \in [Docs -> Client]
      /\ client'[d] = [client[d] EXCEPT !.flight = c, !.sent = TRUE, !.unsent = 0]
      /\ \A e \in Docs : e # d => client'[e] = client[e]
  BY <1>1, <1>2, <1>4
<1>6. /\ client'[d].flight = c /\ client'[d].text = client[d].text
      /\ client'[d].base = client[d].base /\ client'[d].next = client[d].next
      /\ client'[d].revision = client[d].revision /\ client'[d].doc = client[d].doc
      /\ client'[d].unsent = 0
  BY <1>2, <1>5 DEF Client
<1>7. client'[d].installed = client[d].installed /\ client'[d].fitted = client[d].fitted
  BY <1>2, <1>5, Zenon DEF Client
<1>8. GoodQueue(client'[d], ledger)
  <2>1. QueueOK(client'[d], ledger[d])
    BY <1>2, <1>6, <1>7 DEF GoodQueue, QueueOK
  <2>2. FlightOK(client'[d])
    BY <1>2, <1>6, <1>7 DEF FlightOK
  <2> QED
    BY <1>2, <1>5, <1>6, <2>1, <2>2 DEF GoodQueue
<1>9. ClientsOK'
  <2> DEFINE z == client'
  <2>1. /\ \A e \in Docs : client[e].doc = e /\ GoodQueue(client[e], ledger)
        /\ \A q \in left : GoodQueue(q, ledger) /\ q.unsent # 0
        /\ \A q, r \in left : q.unsent = r.unsent => q = r
        /\ \A q \in left : \A e \in Docs : q.unsent # client[e].unsent
        /\ \A e, f \in Docs : client[e].unsent # 0 /\ client[e].unsent = client[f].unsent
                                => e = f
    BY <1>2 DEF ClientsOK
  <2>2. z \in [Docs -> Client] /\ z[d].doc = d /\ GoodQueue(z[d], ledger) /\ z[d].unsent = 0
    BY <1>2, <1>5, <1>6, <1>8
  <2>3. \A e \in Docs : e # d => z[e] = client[e]
    BY <1>5
  <2> HIDE DEF z
  <2>4. \A e \in Docs : z[e].doc = e /\ GoodQueue(z[e], ledger)
    BY <2>1, <2>2, <2>3
  <2>5. \A q \in left : \A e \in Docs : q.unsent # z[e].unsent
    BY <2>1, <2>2, <2>3
  <2>6. \A e, f \in Docs : z[e].unsent # 0 /\ z[e].unsent = z[f].unsent => e = f
    BY <2>1, <2>2, <2>3
  <2> QED
    BY <1>1, <2>1, <2>2, <2>4, <2>5, <2>6 DEF ClientsOK, z
<1>10. Pending' \subseteq Pending \cup {c}
  <2> SUFFICES ASSUME NEW x \in Pending' PROVE x \in Pending \cup {c}
    OBVIOUS
  <2>1. ASSUME NEW i \in 1..Len(saves'), x = saves'[i] PROVE x \in Pending \cup {c}
    BY <1>3, <2>1 DEF Pending
  <2>2. ASSUME NEW e \in Docs, x = client'[e].flight, x # NoFlight
        PROVE  x \in Pending \cup {c}
    BY <1>5, <1>6, <2>2 DEF Pending
  <2> QED
    BY <2>1, <2>2 DEF Pending
<1>11. CommandsOK'
  <2>1. \A e \in Pending : CommandOK(e, ledger, accepted, issued')
    BY DEF Inv, CommandsOK, CommandOK
  <2>2. \A e, f \in Pending' : e.batch = f.batch => e = f
    BY <1>10 DEF Inv, CommandsOK
  <2> QED
    BY <1>1, <1>3, <1>10, <2>1, <2>2 DEF CommandsOK
<1>12. HeldOK'
  <2>1. Held' \subseteq Held
    BY <1>1, <1>5, <1>6 DEF Held
  <2>2. ASSUME NEW x \in Held' PROVE x # client[d].unsent
    <3>1. CASE \E q \in left : x = q.unsent
      BY <1>2, <3>1 DEF ClientsOK
    <3>2. CASE \E e \in Docs : x = client'[e].unsent /\ x # 0
      <4>1. PICK e \in Docs : x = client'[e].unsent /\ x # 0
        BY <3>2
      <4>2. e # d /\ x = client[e].unsent
        BY <1>5, <1>6, <4>1
      <4> QED
        BY <1>2, <4>1, <4>2 DEF ClientsOK
    <3> QED
      BY <1>1, <3>1, <3>2 DEF Held
  <2>3. ASSUME NEW x \in Held' PROVE Unused(x, ledger, accepted, issued', Pending')
    <3>1. Unused(x, ledger, accepted, issued, Pending) /\ x # c.batch
      BY <2>1, <2>2 DEF Inv, HeldOK
    <3> QED
      BY <1>10, <3>1 DEF Unused
  <2> QED
    BY <1>1, <2>3 DEF HeldOK
<1>13. LedgerOK'
  BY <1>1, <1>2, HistoryLater DEF LedgerOK
<1>14. AcceptedOK'
  BY <1>1 DEF Inv, AcceptedOK
<1> QED
  BY <1>1, <1>3, <1>9, <1>11, <1>12, <1>13, <1>14 DEF Inv, TargetsOK, StructureOK,
      ProjectionOK, CountsOK

(* A queue sends what was typed, or its editor state.                      *)
LEMMA SendsStep ==
    ASSUME Inv, NEW d \in Docs, SendText(d) \/ SendFormatting(d)
    PROVE  Inv'
<1>1. /\ GoodQueue(client[d], ledger) /\ client[d].doc = d /\ issued \subseteq Batches
      /\ client[d].unsent # 0 => client[d].installed
  BY DEF Inv, ClientsOK, LedgerOK, GoodQueue, FlightOK
<1>2. CASE SendText(d)
  <2> DEFINE c == TextSave(client[d])
  <2>1. client[d].unsent # 0 /\ Send(d, c) /\ issued' = issued
    BY <1>2 DEF SendText
  <2>2. client[d].unsent \in Held
    BY <2>1 DEF Held
  <2>3. Unused(client[d].unsent, ledger, accepted, issued, Pending)
    BY <2>2 DEF Inv, HeldOK
  <2>4. /\ c \in Command /\ c.batch = client[d].unsent
        /\ CommandOK(c, ledger, accepted, issued) /\ c.kind = "text" /\ c.doc = d
        /\ c.base = client[d].base /\ c.sequence = client[d].next
        /\ c.fitted = client[d].fitted
    BY <1>1, <2>1, <2>3, TextSaveOK
  <2> HIDE DEF c
  <2>5. \A e \in Pending : e.batch # c.batch
    BY <2>3, <2>4 DEF Unused
  <2> QED
    BY <1>1, <2>1, <2>4, <2>5, SendStep
<1>3. CASE SendFormatting(d)
  <2>1. PICK b \in Batches \ issued : /\ Send(d, FormattingSave(client[d], b))
                                      /\ issued' = issued \cup {b}
    BY <1>3 DEF SendFormatting
  <2> DEFINE c == FormattingSave(client[d], b)
  <2>2. client[d].installed /\ issued' \subseteq Batches /\ b \in issued'
    BY <1>1, <1>3, <2>1 DEF SendFormatting
  <2>3. /\ c \in Command /\ c.batch = b /\ CommandOK(c, ledger, accepted, issued')
        /\ c.kind = "formatting" /\ c.doc = d
        /\ c.text = client[d].text /\ c.fitted = client[d].fitted
    BY <1>1, <2>2, FormattingSaveOK
  <2>4. Send(d, c) /\ issued \subseteq issued'
    BY <2>1
  <2> HIDE DEF c
  <2>5. \A e \in Pending : e.batch # c.batch
    BY <2>1, <2>3 DEF Inv, CommandsOK, CommandOK
  <2>6. \A x \in Held : x # c.batch
    BY <2>1, <2>3 DEF Inv, HeldOK, Unused
  <2> QED
    BY <2>2, <2>3, <2>4, <2>5, <2>6, SendStep
<1> QED
  BY <1>2, <1>3

(* A replaced queue sends what was typed before.                           *)
LEMMA SendLeftStep ==
    ASSUME Inv, SendLeft
    PROVE  Inv'
<1>1. PICK q \in left : saves' = Append(saves, TextSave(q)) /\ left' = left \ {q}
  BY DEF SendLeft
<1>2. UNCHANGED <<ledger, live, targets, profile, accepted, saving, ops, op, client, query,
                  issued, requested, crashes, acked>>
  BY DEF SendLeft, bounds
<1> DEFINE c == TextSave(q)
<1>3. /\ GoodQueue(q, ledger) /\ q.unsent # 0 /\ issued \subseteq Batches /\ ClientsOK
  BY DEF Inv, ClientsOK, LedgerOK
<1>4. q.unsent \in Held
  BY <1>3 DEF Held
<1>5. Unused(q.unsent, ledger, accepted, issued, Pending)
  BY <1>4 DEF Inv, HeldOK
<1>6. c \in Command /\ c.batch = q.unsent /\ CommandOK(c, ledger, accepted, issued)
  BY <1>3, <1>5, TextSaveOK
<1> HIDE DEF c
<1>7. /\ saves' \in Seq(Command) /\ Len(saves') = Len(saves) + 1 /\ Len(saves) \in Nat
      /\ saves'[Len(saves) + 1] = c /\ \A i \in 1..Len(saves) : saves'[i] = saves[i]
      /\ SavingsOK'
  BY <1>1, <1>2, <1>6, Appended DEF c
<1>8. Pending' \subseteq Pending \cup {c}
  <2> SUFFICES ASSUME NEW x \in Pending' PROVE x \in Pending \cup {c}
    OBVIOUS
  <2>1. ASSUME NEW i \in 1..Len(saves'), x = saves'[i] PROVE x \in Pending \cup {c}
    BY <1>7, <2>1 DEF Pending
  <2> QED
    BY <1>2, <2>1 DEF Pending
<1>9. \A e \in Pending : e.batch # c.batch
  BY <1>5, <1>6 DEF Unused
<1>10. CommandsOK'
  <2>1. \A e, f \in Pending' : e.batch = f.batch => e = f
    BY <1>8, <1>9 DEF Inv, CommandsOK
  <2> QED
    BY <1>2, <1>6, <1>7, <1>8, <2>1 DEF Inv, CommandsOK
<1>11. HeldOK'
  <2>1. Held' \subseteq Held
    BY <1>1, <1>2 DEF Held
  <2>2. ASSUME NEW x \in Held' PROVE x # q.unsent
    <3>1. CASE \E r \in left : r # q /\ x = r.unsent
      BY <1>3, <3>1 DEF ClientsOK
    <3>2. CASE \E e \in Docs : x = client[e].unsent
      BY <1>3, <3>2 DEF ClientsOK
    <3> QED
      BY <1>1, <1>2, <3>1, <3>2 DEF Held
  <2>3. ASSUME NEW x \in Held' PROVE Unused(x, ledger, accepted, issued, Pending')
    <3>1. Unused(x, ledger, accepted, issued, Pending) /\ x # c.batch
      BY <1>6, <2>1, <2>2 DEF Inv, HeldOK
    <3> QED
      BY <1>8, <3>1 DEF Unused
  <2> QED
    BY <1>2, <2>3 DEF HeldOK
<1>12. ClientsOK'
  BY <1>1, <1>2, <1>3 DEF ClientsOK
<1> QED
  BY <1>2, <1>7, <1>10, <1>11, <1>12 DEF Inv, LedgerOK, AcceptedOK, TargetsOK, StructureOK,
      ProjectionOK, CountsOK

(* Sending a batch again keeps the invariant.                              *)
LEMMA ResendStep ==
    ASSUME Inv, NEW d \in Docs, Resend(d)
    PROVE  Inv'
<1> DEFINE c == client[d].flight
<1>1. /\ c # NoFlight /\ saves' = Append(saves, c)
      /\ client' = [client EXCEPT ![d] = [client[d] EXCEPT !.sent = TRUE]]
      /\ UNCHANGED <<ledger, live, targets, profile, accepted, saving, ops, op, left,
                     query, issued, requested, crashes, acked>>
  BY DEF Resend, bounds
<1>2. /\ ClientsOK /\ client \in [Docs -> Client] /\ client[d] \in Client
      /\ GoodQueue(client[d], ledger) /\ client[d].doc = d
      /\ CommandsOK /\ saves \in Seq(Command)
  BY DEF Inv, ClientsOK, CommandsOK
<1>3. c \in Command /\ c \in Pending
  BY <1>1, <1>2 DEF Client, Pending
<1>4. /\ saves' \in Seq(Command) /\ Len(saves') = Len(saves) + 1 /\ Len(saves) \in Nat
      /\ saves'[Len(saves) + 1] = c /\ \A i \in 1..Len(saves) : saves'[i] = saves[i]
      /\ SavingsOK'
  BY <1>1, <1>3, Appended
<1>5. /\ client' \in [Docs -> Client]
      /\ \A e \in Docs : e # d => client'[e] = client[e]
      /\ client'[d] = [client[d] EXCEPT !.sent = TRUE]
  <2>1. \A k \in Client : [k EXCEPT !.sent = TRUE] \in Client
    BY Zenon DEF Client
  <2> QED
    BY <1>1, <1>2, <2>1
<1>6. /\ client'[d].flight = client[d].flight /\ client'[d].text = client[d].text
      /\ client'[d].base = client[d].base /\ client'[d].next = client[d].next
      /\ client'[d].revision = client[d].revision /\ client'[d].doc = client[d].doc
      /\ client'[d].unsent = client[d].unsent
  BY <1>2, <1>5 DEF Client
<1>7. client'[d].installed = client[d].installed /\ client'[d].fitted = client[d].fitted
  BY <1>2, <1>5, Zenon DEF Client
<1>8. GoodQueue(client'[d], ledger)
  <2>1. QueueOK(client'[d], ledger[d])
    BY <1>2, <1>6, <1>7 DEF GoodQueue, QueueOK
  <2>2. FlightOK(client'[d])
    BY <1>2, <1>6, <1>7 DEF GoodQueue, FlightOK
  <2> QED
    BY <1>2, <1>5, <1>6, <2>1, <2>2 DEF GoodQueue
<1>9. \A e \in Docs : /\ client'[e].doc = client[e].doc /\ client'[e].unsent = client[e].unsent
                      /\ client'[e].flight = client[e].flight
  BY <1>5, <1>6
<1>10. ClientsOK'
  <2> DEFINE z == client'
  <2>1. /\ \A e \in Docs : client[e].doc = e /\ GoodQueue(client[e], ledger)
        /\ \A q \in left : GoodQueue(q, ledger) /\ q.unsent # 0
        /\ \A q, r \in left : q.unsent = r.unsent => q = r
        /\ \A q \in left : \A e \in Docs : q.unsent # client[e].unsent
        /\ \A e, f \in Docs : client[e].unsent # 0 /\ client[e].unsent = client[f].unsent
                                => e = f
    BY <1>2 DEF ClientsOK
  <2>2. /\ z \in [Docs -> Client] /\ GoodQueue(z[d], ledger)
        /\ \A e \in Docs : z[e].doc = client[e].doc /\ z[e].unsent = client[e].unsent
    BY <1>5, <1>8, <1>9
  <2>3. \A e \in Docs : e # d => z[e] = client[e]
    BY <1>5
  <2> HIDE DEF z
  <2>4. \A e \in Docs : z[e].doc = e /\ GoodQueue(z[e], ledger)
    BY <2>1, <2>2, <2>3
  <2>5. \A q \in left : \A e \in Docs : q.unsent # z[e].unsent
    BY <2>1, <2>2
  <2>6. \A e, f \in Docs : z[e].unsent # 0 /\ z[e].unsent = z[f].unsent => e = f
    BY <2>1, <2>2
  <2> QED
    BY <1>1, <2>1, <2>2, <2>4, <2>5, <2>6 DEF ClientsOK, z
<1>11. Pending' \subseteq Pending
  <2> SUFFICES ASSUME NEW x \in Pending' PROVE x \in Pending
    OBVIOUS
  <2>1. ASSUME NEW i \in 1..Len(saves'), x = saves'[i] PROVE x \in Pending
    BY <1>3, <1>4, <2>1 DEF Pending
  <2>2. ASSUME NEW e \in Docs, x = client'[e].flight, x # NoFlight PROVE x \in Pending
    BY <1>9, <2>2 DEF Pending
  <2> QED
    BY <2>1, <2>2 DEF Pending
<1>12. CommandsOK'
  BY <1>1, <1>2, <1>4, <1>11 DEF CommandsOK
<1>13. HeldOK'
  <2>1. Held' = Held
    BY <1>1, <1>9 DEF Held
  <2> QED
    BY <1>1, <1>11, <2>1 DEF Inv, HeldOK, Unused
<1> QED
  BY <1>1, <1>4, <1>10, <1>12, <1>13 DEF Inv, LedgerOK, AcceptedOK, TargetsOK, StructureOK,
      ProjectionOK, CountsOK


(* A step that leaves the saves and the renderer's queues alone.           *)
LEMMA RequestStep ==
    ASSUME Inv, NEW d \in Docs, RequestSome(d)
    PROVE  Inv'
<1>1. PICK kind \in {"activate", "retire", "create", "restore"}, r \in Nat :
          /\ Request(kind, d, r)
          /\ kind = "create" => live[d] = "absent" /\ op.doc # d
                                /\ \A i \in DOMAIN ops : ops[i].doc # d
          /\ kind = "restore" => r \in 1..Current(d)
  <2>1. CASE \E kind \in {"activate", "retire"} : Request(kind, d, 0)
    BY <2>1
  <2>2. CASE \E revision \in 1..Current(d) : Request("restore", d, revision)
    <3>1. PICK revision \in 1..Current(d) : Request("restore", d, revision)
      BY <2>2
    <3>2. revision \in Nat
      OBVIOUS
    <3> QED
      BY <3>1, <3>2
  <2>3. CASE /\ live[d] = "absent" /\ op.doc # d /\ \A i \in DOMAIN ops : ops[i].doc # d
             /\ Request("create", d, 0)
    BY <2>3
  <2> QED
    BY <2>1, <2>2, <2>3 DEF RequestSome
<1> DEFINE q == [kind |-> kind, doc |-> d, revision |-> r]
<1>2. /\ ops' = Append(ops, q) /\ requested' = requested + 1
      /\ UNCHANGED <<ledger, live, targets, profile, accepted, saves, saving, op,
                     client, left, query, issued, crashes, acked>>
  BY <1>1 DEF Request
<1>3. q \in Asked /\ ops \in Seq(Asked)
  BY DEF Asked, Inv, StructureOK, OpsOK
<1>4. /\ ops' \in Seq(Asked) /\ Len(ops') = Len(ops) + 1 /\ Len(ops) \in Nat
      /\ DOMAIN ops = 1..Len(ops)
      /\ ops'[Len(ops) + 1] = q /\ \A i \in 1..Len(ops) : ops'[i] = ops[i]
  BY <1>2, <1>3, AppendProperties, LenProperties
<1>5. /\ \A i \in 1..Len(ops) :
            /\ ops[i].kind = "create" =>
                   live[ops[i].doc] = "absent" /\ (op.kind = "create" => op.doc # ops[i].doc)
            /\ ops[i].kind = "restore" => ops[i].revision \in 1..Len(ledger[ops[i].doc])
      /\ \A i, j \in 1..Len(ops) :
            ops[i].kind = "create" /\ ops[j].kind = "create" /\ ops[i].doc = ops[j].doc
                => i = j
  BY DEF Inv, StructureOK, OpsOK
<1>6. \A i \in 1..Len(ops') : i \in 1..Len(ops) \/ i = Len(ops) + 1
  BY <1>4
<1>7. OpsOK(ops', op, ledger, live)
  <2>1. ASSUME NEW i \in 1..Len(ops')
        PROVE  /\ ops'[i].kind = "create" => live[ops'[i].doc] = "absent"
                       /\ (op.kind = "create" => op.doc # ops'[i].doc)
               /\ ops'[i].kind = "restore" => ops'[i].revision \in 1..Len(ledger[ops'[i].doc])
    BY <1>1, <1>4, <1>5, <1>6 DEF Current
  <2>2. ASSUME NEW i \in 1..Len(ops'), NEW j \in 1..Len(ops'), ops'[i].kind = "create",
               ops'[j].kind = "create", ops'[i].doc = ops'[j].doc
        PROVE  i = j
    BY <1>1, <1>4, <1>5, <1>6, <2>2
  <2> QED
    BY <1>4, <2>1, <2>2 DEF OpsOK
<1>8. Pending' = Pending
  BY <1>2 DEF Pending
<1>9. requested' \in Nat
  BY <1>2 DEF Inv, CountsOK
<1>10. HeldOK'
  BY <1>2, <1>8 DEF Inv, HeldOK, Held
<1> QED
  BY <1>2, <1>7, <1>8, <1>9, <1>10 DEF Inv, LedgerOK, AcceptedOK, TargetsOK, ClientsOK,
      CommandsOK, SavingsOK, StructureOK, ProjectionOK, CountsOK

-----------------------------------------------------------------------------
(* Saves.                                                                  *)

(* A queue whose save failed stays good.                                   *)
LEMMA FailedQueue ==
    ASSUME NEW u, NEW k, GoodQueue(k, u)
    PROVE  /\ GoodQueue([k EXCEPT !.sent = FALSE], u)
           /\ [k EXCEPT !.sent = FALSE].doc = k.doc
           /\ [k EXCEPT !.sent = FALSE].unsent = k.unsent
           /\ [k EXCEPT !.sent = FALSE].flight = k.flight
<1> DEFINE q == [k EXCEPT !.sent = FALSE]
<1>1. k \in Client /\ QueueOK(k, u[k.doc]) /\ FlightOK(k)
  BY DEF GoodQueue
<1>2. q \in Client
  <2>1. \A x \in Client : [x EXCEPT !.sent = FALSE] \in Client
    BY Zenon DEF Client
  <2> QED
    BY <1>1, <2>1
<1>3. /\ q.flight = k.flight /\ q.text = k.text /\ q.base = k.base /\ q.next = k.next
      /\ q.revision = k.revision /\ q.doc = k.doc /\ q.unsent = k.unsent
  BY <1>1 DEF Client
<1>4. q.installed = k.installed /\ q.fitted = k.fitted
  BY <1>1, Zenon DEF Client
<1> HIDE DEF q
<1>5. QueueOK(q, u[q.doc]) /\ FlightOK(q)
  BY <1>1, <1>3, <1>4 DEF QueueOK, FlightOK
<1> QED
  BY <1>2, <1>3, <1>5 DEF GoodQueue, q

(* A queue that is told of the revision its save was stored as stays good. *)
LEMMA ReceiptQueue ==
    ASSUME NEW u, NEW k, GoodQueue(k, u), NEW c \in Command, NEW revision,
           revision \in 1..Len(u[c.doc]), Len(u[c.doc]) \in Nat,
           c.fitted => u[c.doc][revision].text = c.text,
           c.kind = "text" => OnLine(u[c.doc], c.base, c.sequence + 1, revision)
    PROVE  /\ GoodQueue(AfterReceipt(k, c, revision), u)
           /\ AfterReceipt(k, c, revision).doc = k.doc
           /\ AfterReceipt(k, c, revision).unsent = k.unsent
           /\ AfterReceipt(k, c, revision).flight \in {k.flight, NoFlight}
<1>1. CASE ~Awaits(k, c)
  BY <1>1 DEF AfterReceipt
<1>2. CASE Awaits(k, c)
  <2> DEFINE n == IF c.kind = "text" THEN c.sequence + 1 ELSE k.next
             q == [k EXCEPT !.next = n, !.revision = revision, !.text = c.text,
                            !.flight = NoFlight, !.sent = FALSE]
  <2>1. AfterReceipt(k, c, revision) = q
    BY <1>2 DEF AfterReceipt
  <2>2. /\ k \in Client /\ QueueOK(k, u[k.doc]) /\ FlightOK(k)
        /\ k.flight = c /\ c # NoFlight
    BY <1>2, ConstantsAssumption DEF GoodQueue, Awaits
  <2>3. c.sequence \in Nat /\ c.text \in Text /\ c.kind \in {"text", "formatting"}
    BY DEF Command
  <2>4. n \in Nat /\ revision \in Nat
    BY <2>2, <2>3 DEF Client
  <2>5. c.kind = "text" => c.base = k.base /\ n = c.sequence + 1
    BY <2>2 DEF FlightOK
  <2>6. c.kind = "formatting" => c.text = k.text /\ n = k.next
    BY <2>2 DEF FlightOK
  <2> HIDE DEF n
  <2>7. q \in Client
    <3>1. \A x \in Client : \A i, j \in Nat : \A t \in Text :
              [x EXCEPT !.next = i, !.revision = j, !.text = t, !.flight = NoFlight,
                        !.sent = FALSE] \in Client
      BY Zenon DEF Client
    <3> QED
      BY <2>2, <2>3, <2>4, <3>1
  <2>8. /\ q.flight = NoFlight /\ q.text = c.text /\ q.base = k.base /\ q.next = n
        /\ q.revision = revision /\ q.doc = k.doc /\ q.unsent = k.unsent
    BY <2>2 DEF Client
  <2>9. q.installed = k.installed /\ q.fitted = k.fitted
    BY <2>2, Zenon DEF Client
  <2> HIDE DEF q
  <2>10. k.installed /\ c.doc = k.doc /\ c.fitted = k.fitted
    BY <2>2 DEF FlightOK
  <2>11. k.fitted => InTune(u[k.doc], q.base, q.next, q.text)
    <3>1. CASE c.kind = "text"
      BY <2>5, <2>8, <2>10, <3>1 DEF InTune
    <3>2. CASE c.kind = "formatting"
      BY <2>2, <2>6, <2>8, <2>10, <3>2 DEF QueueOK
    <3> QED
      BY <2>3, <3>1, <3>2
  <2>12. QueueOK(q, u[q.doc]) /\ FlightOK(q)
    BY <2>8, <2>9, <2>10, <2>11 DEF QueueOK, FlightOK
  <2> QED
    BY <2>1, <2>7, <2>8, <2>12 DEF GoodQueue
<1> QED
  BY <1>1, <1>2

(* The queues once the running save is answered.                           *)
LEMMA AnswerOK ==
    ASSUME Inv, saves # <<>>, \A d \in Docs : Continues(ledger[d], ledger'[d]),
           NEW revision,
           \/ Failed(saves[1])
           \/ /\ Received(saves[1], revision)
              /\ revision \in 1..Len(ledger'[saves[1].doc])
              /\ saves[1].fitted => ledger'[saves[1].doc][revision].text = saves[1].text
              /\ saves[1].kind = "text" =>
                     OnLine(ledger'[saves[1].doc], saves[1].base, saves[1].sequence + 1,
                            revision)
    PROVE  /\ ClientsOK' /\ acked' \in SUBSET Batches /\ Held' \subseteq Held
           /\ \A d \in Docs : client'[d].flight \in {client[d].flight, NoFlight}
<1> DEFINE c == saves[1]
           After(k) == IF Failed(c) THEN [k EXCEPT !.sent = FALSE]
                                    ELSE AfterReceipt(k, c, revision)
           Moved(k) == IF Failed(c) THEN k ELSE After(k)
<1>1. c \in Command /\ c.doc \in Docs /\ c.batch \in Batches
  BY FirstSave DEF Inv
<1>2. /\ client \in [Docs -> Client] /\ acked \in SUBSET Batches
      /\ \A d \in Docs : client[d].doc = d /\ GoodQueue(client[d], ledger)
      /\ \A q \in left : GoodQueue(q, ledger) /\ q.unsent # 0
      /\ \A q \in left : \A d \in Docs : q.unsent # client[d].unsent
      /\ \A q, r \in left : q.unsent = r.unsent => q = r
      /\ \A d, e \in Docs : client[d].unsent # 0 /\ client[d].unsent = client[e].unsent
                                => d = e
  BY DEF Inv, ClientsOK, CountsOK
<1>3. ASSUME NEW k, GoodQueue(k, ledger) PROVE GoodQueue(k, ledger')
  <2>1. k.doc \in Docs
    BY <1>3, QueueFields DEF GoodQueue
  <2> QED
    BY <1>3, <2>1, QueueKept DEF GoodQueue
<1> HIDE DEF c
<1>4. ASSUME NEW k, GoodQueue(k, ledger)
      PROVE  /\ GoodQueue(After(k), ledger') /\ After(k).doc = k.doc
             /\ After(k).unsent = k.unsent /\ After(k).flight \in {k.flight, NoFlight}
  <2>1. GoodQueue(k, ledger')
    BY <1>3, <1>4
  <2>2. CASE Failed(c)
    BY <2>1, <2>2, FailedQueue
  <2>3. CASE ~Failed(c)
    <3>1. /\ revision \in 1..Len(ledger'[c.doc])
          /\ c.fitted => ledger'[c.doc][revision].text = c.text
          /\ c.kind = "text" => OnLine(ledger'[c.doc], c.base, c.sequence + 1, revision)
          /\ Len(ledger'[c.doc]) \in Nat
      BY <1>1, <2>3 DEF c, Continues
    <3> QED
      BY <1>1, <2>1, <2>3, <3>1, ReceiptQueue
  <2> QED
    BY <2>2, <2>3
<1>5. /\ client' = [d \in Docs |-> client'[d]]
      /\ \A d \in Docs : client'[d] \in {client[d], After(client[d])}
      /\ \A q \in left' : \E k \in left : q = Moved(k)
      /\ acked' \in {acked, acked \cup {c.batch}}
  <2>1. CASE Failed(c)
    BY <2>1 DEF Failed
  <2>2. CASE ~Failed(c)
    <3>1. Received(c, revision)
      BY <2>2 DEF c
    <3> QED
      BY <2>2, <3>1 DEF Received, AfterReceipt
  <2> QED
    BY <2>1, <2>2
<1>moved. \A k : Moved(k) \in {k, After(k)}
  OBVIOUS
<1> HIDE DEF After, Moved
<1>6. \A d \in Docs : /\ client'[d] \in Client /\ client'[d].doc = d
                      /\ GoodQueue(client'[d], ledger')
                      /\ client'[d].unsent = client[d].unsent
                      /\ client'[d].flight \in {client[d].flight, NoFlight}
  BY <1>2, <1>3, <1>4, <1>5 DEF GoodQueue
<1>7. \A q \in left' : \E k \in left : /\ q = Moved(k) /\ q.unsent = k.unsent
                                       /\ GoodQueue(q, ledger')
  BY <1>2, <1>3, <1>4, <1>5, <1>moved
<1>8. client' \in [Docs -> Client]
  BY <1>5, <1>6
<1>9. \A q \in left' : GoodQueue(q, ledger') /\ q.unsent # 0
  BY <1>2, <1>7
<1>10. \A q \in left' : \A d \in Docs : q.unsent # client'[d].unsent
  BY <1>2, <1>6, <1>7
<1>11. \A q, r \in left' : q.unsent = r.unsent => q = r
  <2> SUFFICES ASSUME NEW q \in left', NEW r \in left', q.unsent = r.unsent PROVE q = r
    OBVIOUS
  <2>1. PICK k \in left : q = Moved(k) /\ q.unsent = k.unsent
    BY <1>7
  <2>2. PICK j \in left : r = Moved(j) /\ r.unsent = j.unsent
    BY <1>7
  <2>3. k = j
    BY <1>2, <2>1, <2>2
  <2> QED
    BY <2>1, <2>2, <2>3
<1>12. \A d, e \in Docs : client'[d].unsent # 0 /\ client'[d].unsent = client'[e].unsent
                             => d = e
  BY <1>2, <1>6
<1>13. ClientsOK'
  BY <1>6, <1>8, <1>9, <1>10, <1>11, <1>12 DEF ClientsOK
<1>14. Held' \subseteq Held
  <2> SUFFICES ASSUME NEW x \in Held' PROVE x \in Held
    OBVIOUS
  <2>1. CASE \E q \in left' : x = q.unsent /\ x # 0
    BY <1>7, <2>1 DEF Held
  <2>2. CASE \E d \in Docs : x = client'[d].unsent /\ x # 0
    BY <1>6, <2>2 DEF Held
  <2> QED
    BY <2>1, <2>2 DEF Held
<1> QED
  BY <1>1, <1>2, <1>5, <1>6, <1>13, <1>14

(* A structure command that is told of a settled save.                     *)
LEMMA SettledStructure ==
    ASSUME Inv, SaveSettles, \A d \in Docs : Continues(ledger[d], ledger'[d]),
           \A d \in Docs : targets[d] # NoTarget => targets'[d] # NoTarget
    PROVE  StructureOK'
<1>1. /\ op \in Op /\ RowsOK(op.rows, ledger) /\ live' = live /\ ops' = ops
      /\ op' = IF op.ahead > 0 THEN [op EXCEPT !.ahead = op.ahead - 1] ELSE op
      /\ OpOK(op, ledger, live) /\ OpsOK(ops, op, ledger, live)
  BY DEF Inv, StructureOK, OpOK, SaveSettles
<1>2. op' \in Op
  <2>1. CASE op.ahead > 0
    <3>1. op.ahead - 1 \in Nat
      BY <1>1, <2>1 DEF Op
    <3>2. \A n \in Nat : \A o \in Op : [o EXCEPT !.ahead = n] \in Op
      BY Zenon DEF Op
    <3> QED
      BY <1>1, <2>1, <3>1, <3>2
  <2> QED
    BY <1>1, <2>1
<1>3. /\ op'.kind = op.kind /\ op'.doc = op.doc /\ op'.phase = op.phase
      /\ op'.rows = op.rows /\ op'.revision = op.revision
  BY <1>1 DEF Op
<1>4. RowsOK(op'.rows, ledger')
  BY <1>1, <1>3, RowsKept
<1>5. \A d \in Docs : \A i \in 1..Len(ledger[d]) : i \in 1..Len(ledger'[d])
  BY DEF Continues
<1>6. OpOK(op', ledger', live')
  <2>1. op.kind # "none" => op.doc \in Docs
    BY <1>1 DEF OpOK
  <2>2. op.kind = "restore" => op.revision \in 1..Len(ledger'[op.doc])
    BY <1>1, <1>5, <2>1 DEF OpOK
  <2>3. /\ op'.kind = "create" /\ op'.phase \in {"waiting", "publishing"}
              => live'[op'.doc] = "absent"
    BY <1>1, <1>3 DEF OpOK
  <2> QED
    BY <1>2, <1>3, <1>4, <2>1, <2>2, <2>3 DEF OpOK
<1>7. OpsOK(ops', op', ledger', live')
  <2>1. ASSUME NEW i \in 1..Len(ops) PROVE ops[i].doc \in Docs
    <3>1. ops \in Seq(Asked)
      BY <1>1 DEF OpsOK
    <3>2. ops[i] \in Asked
      BY <3>1, ElementOfSeq
    <3> QED
      BY <3>2 DEF Asked
  <2>2. ASSUME NEW i \in 1..Len(ops)
        PROVE  /\ ops[i].kind = "create" => live[ops[i].doc] = "absent"
                       /\ (op'.kind = "create" => op'.doc # ops[i].doc)
               /\ ops[i].kind = "restore" => ops[i].revision \in 1..Len(ledger'[ops[i].doc])
    BY <1>1, <1>3, <1>5, <2>1 DEF OpsOK
  <2> QED
    BY <1>1, <2>2 DEF OpsOK
<1>8. op'.kind = "restore" /\ op'.phase = "materializing" => targets'[op'.doc] # NoTarget
  <2>1. op.kind = "restore" => op.doc \in Docs
    BY <1>1 DEF OpOK
  <2> QED
    BY <1>3, <2>1 DEF Inv, StructureOK
<1> QED
  BY <1>6, <1>7, <1>8 DEF StructureOK

(* A save that settles.                                                    *)
LEMMA SettleStep ==
    ASSUME Inv, saves # <<>>, SaveSettles,
           \A d \in Docs : Continues(ledger[d], ledger'[d]),
           \A d \in Docs : targets[d] # NoTarget => targets'[d] # NoTarget,
           NEW revision,
           \/ Failed(saves[1])
           \/ /\ Received(saves[1], revision)
              /\ revision \in 1..Len(ledger'[saves[1].doc])
              /\ saves[1].fitted => ledger'[saves[1].doc][revision].text = saves[1].text
              /\ saves[1].kind = "text" =>
                     OnLine(ledger'[saves[1].doc], saves[1].base, saves[1].sequence + 1,
                            revision),
           \A c \in Pending : CommandOK(c, ledger', accepted', issued),
           \A b \in Held : Unused(b, ledger', accepted', issued, Pending),
           LedgerOK', TargetsOK', AcceptedOK', RowsOK(profile', ledger')
    PROVE  Inv'
<1>1. /\ ClientsOK' /\ acked' \in SUBSET Batches /\ Held' \subseteq Held
      /\ \A d \in Docs : client'[d].flight \in {client[d].flight, NoFlight}
  BY AnswerOK, Zenon
<1>2. /\ saves' = Tail(saves) /\ saving' = NoSave
      /\ UNCHANGED <<live, ops, query, issued, requested, crashes>>
  BY DEF SaveSettles, bounds
<1>3. CommandsOK
  BY DEF Inv
<1>4. /\ saves' \in Seq(Command) /\ Len(saves) \in Nat /\ Len(saves') = Len(saves) - 1
      /\ \A i \in 1..Len(saves') : saves'[i] = saves[i + 1]
  BY <1>2, <1>3, FirstSave
<1>5. Pending' \subseteq Pending
  <2> SUFFICES ASSUME NEW x \in Pending' PROVE x \in Pending
    OBVIOUS
  <2>1. ASSUME NEW i \in 1..Len(saves'), x = saves'[i] PROVE x \in Pending
    <3>1. i + 1 \in 1..Len(saves) /\ x = saves[i + 1]
      BY <1>4, <2>1
    <3> QED
      BY <3>1 DEF Pending
  <2>2. ASSUME NEW e \in Docs, x = client'[e].flight, x # NoFlight PROVE x \in Pending
    BY <1>1, <2>2 DEF Pending
  <2> QED
    BY <2>1, <2>2 DEF Pending
<1>6. CommandsOK'
  BY <1>2, <1>3, <1>4, <1>5 DEF CommandsOK
<1>7. HeldOK'
  BY <1>1, <1>2, <1>5 DEF HeldOK, Unused
<1>8. SavingsOK'
  BY <1>2 DEF SavingsOK
<1>9. StructureOK'
  BY SettledStructure
<1>10. ProjectionOK'
  <2>1. RowsOK(query.rows, ledger) /\ query \in Query
    BY DEF Inv, ProjectionOK
  <2> QED
    BY <1>2, <2>1, RowsKept DEF ProjectionOK
<1>11. CountsOK'
  BY <1>1, <1>2 DEF Inv, CountsOK
<1> QED
  BY <1>1, <1>6, <1>7, <1>8, <1>9, <1>10, <1>11 DEF Inv

(* A save that is answered without a commit keeps the invariant.           *)
LEMMA UnstoredStep ==
    ASSUME Inv, SaveRepeated \/ SaveRefused \/ SaveFails
    PROVE  Inv'
<1>1. /\ SaveSettles /\ UNCHANGED <<ledger, targets, profile, accepted, live, issued>>
      /\ saves # <<>>
  BY DEF SaveRepeated, SaveRefused, SaveFails, SaveSettles, bounds, Inv, SavingsOK
<1>2. /\ \A d \in Docs : Continues(ledger[d], ledger'[d])
      /\ \A d \in Docs : targets[d] # NoTarget => targets'[d] # NoTarget
  BY <1>1, UnchangedContinues DEF Inv, LedgerOK
<1>3. /\ \A c \in Pending : CommandOK(c, ledger', accepted', issued)
      /\ \A b \in Held : Unused(b, ledger', accepted', issued, Pending)
  BY <1>1 DEF Inv, CommandsOK, HeldOK
<1>4. LedgerOK' /\ TargetsOK' /\ AcceptedOK' /\ RowsOK(profile', ledger')
  BY <1>1 DEF Inv, LedgerOK, TargetsOK, AcceptedOK, ProjectionOK
<1>5. CASE Failed(saves[1])
  BY <1>1, <1>2, <1>3, <1>4, <1>5, SettleStep, Zenon
<1>6. CASE SaveRepeated
  <2> DEFINE c == saves[1]
             r == accepted[c.batch]
  <2>1. c \in Pending /\ c.kind = "text" /\ r # 0 /\ Received(c, r)
    BY <1>1, <1>6, FirstSave DEF SaveRepeated, Repeated, Inv
  <2>2. StoredOK(c, ledger, accepted)
    BY <2>1 DEF Inv, CommandsOK, CommandOK
  <2>3. /\ r \in 1..Len(ledger'[c.doc]) /\ (c.fitted => ledger'[c.doc][r].text = c.text)
        /\ OnLine(ledger'[c.doc], c.base, c.sequence + 1, r)
    BY <1>1, <2>1, <2>2 DEF StoredOK
  <2> HIDE DEF r
  <2> QED
    BY <1>1, <1>2, <1>3, <1>4, <2>1, <2>3, SettleStep, Zenon
<1> QED
  BY <1>5, <1>6 DEF SaveRefused, SaveFails

(* What the checks of a save tell of the target: its line, and for a save  *)
(* of a queue that is in tune with it also its text.                       *)
LEMMA AdmissibleText ==
    ASSUME Inv, NEW c \in Pending, Admissible(c), NEW t, t = targets[c.doc]
    PROVE  /\ t \in Target /\ TargetOK(t, ledger[c.doc]) /\ t # NoTarget
           /\ c.kind = "text" =>
                  /\ t.base = c.base /\ t.next = c.sequence
                  /\ c.fitted => c.text = t.text \cup {c.batch}
           /\ c.kind = "formatting" => t.current = c.base
<1> DEFINE s == ledger[c.doc]
<1>1. /\ CommandOK(c, ledger, accepted, issued) /\ c.doc \in Docs
  BY DEF Inv, CommandsOK, CommandOK, Command
<1>2. TargetOK(t, s) /\ HistoryOK(s, issued) /\ t # NoTarget
  BY <1>1 DEF Inv, TargetsOK, LedgerOK, Admissible
<1>3. /\ t \in Target /\ t.text = s[t.current].text
      /\ OnLine(s, t.base, t.next, t.current)
  BY <1>2 DEF TargetOK
<1>4. /\ c.kind = "text" => t.base = c.base /\ t.next = c.sequence
      /\ c.kind = "formatting" => t.current = c.base
  BY DEF Admissible
<1>5. ASSUME c.kind = "text", c.fitted PROVE c.text = t.text \cup {c.batch}
  <2>1. Tuned(c, s)
    BY <1>1, <1>5 DEF CommandOK
  <2>2. PICK i \in 1..Len(s) : /\ OnLine(s, c.base, c.sequence, i)
                               /\ c.text = s[i].text \cup {c.batch}
    BY <2>1 DEF Tuned
  <2>3. OnLine(s, c.base, c.sequence, t.current)
    BY <1>3, <1>4, <1>5
  <2>4. s[i].text = s[t.current].text
    BY <1>2, <2>2, <2>3, OnLineText
  <2> QED
    BY <1>3, <2>2, <2>4
<1> QED
  BY <1>2, <1>3, <1>4, <1>5

(* A save whose checks pass keeps the invariant.                           *)
LEMMA SaveBeginsStep ==
    ASSUME Inv, SaveBegins
    PROVE  Inv'
<1> DEFINE c == saves[1]
           t == targets[c.doc]
           text == IF c.kind = "text" THEN t.text \cup {c.batch} ELSE t.text
<1>1. /\ saves # <<>> /\ ~Repeated(c) /\ Admissible(c)
      /\ saving' = [expected |-> t.current, text |-> text, attached |-> TRUE]
      /\ UNCHANGED <<ledger, live, targets, profile, accepted, saves, ops, op,
                     client, left, query, issued, requested, crashes, acked>>
  BY DEF SaveBegins, bounds
<1>2. /\ c \in Pending /\ c \in Command /\ CommandOK(c, ledger, accepted, issued)
      /\ c.batch \in Batches
  BY <1>1, FirstSave DEF Inv
<1>3. /\ t \in Target /\ TargetOK(t, ledger[c.doc]) /\ t # NoTarget
      /\ c.kind = "text" =>
             /\ t.base = c.base /\ t.next = c.sequence
             /\ c.fitted => c.text = t.text \cup {c.batch}
      /\ c.kind = "formatting" => t.current = c.base
  BY <1>1, <1>2, AdmissibleText
<1>4. c.kind \in {"text", "formatting"} /\ t.text \in Text /\ t.current \in Nat
  BY <1>2, <1>3 DEF Command, Target
<1>5. /\ c.kind = "text" => text = t.text \cup {c.batch}
      /\ c.kind = "formatting" => text = t.text
      /\ text \in Text
  BY <1>2, <1>4 DEF Text
<1> HIDE DEF text
<1>6. saving' \in Saving
  BY <1>1, <1>4, <1>5 DEF Saving
<1>7. SavingOK(saving', c, ledger[c.doc], t, accepted)
  <2>1. /\ saving'.expected = t.current /\ saving'.text = text
    BY <1>1
  <2>2. c.kind = "text" => accepted[c.batch] = 0
    BY <1>1 DEF Repeated
  <2>3. /\ t.current \in 1..Len(ledger[c.doc]) /\ t.text = ledger[c.doc][t.current].text
        /\ OnLine(ledger[c.doc], t.base, t.next, t.current)
    BY <1>3 DEF TargetOK
  <2> HIDE DEF c, t
  <2> QED
    BY <1>3, <1>5, <2>1, <2>2, <2>3 DEF SavingOK
<1>8. SavingsOK'
  BY <1>1, <1>6, <1>7 DEF SavingsOK
<1>9. Pending' = Pending
  BY <1>1 DEF Pending
<1>10. HeldOK'
  BY <1>1, <1>9 DEF Inv, HeldOK, Held
<1> QED
  BY <1>1, <1>8, <1>9, <1>10 DEF Inv, LedgerOK, AcceptedOK, TargetsOK, ClientsOK, CommandsOK,
      StructureOK, ProjectionOK, CountsOK

(* The commit of a save and what follows it at once keep the invariant.    *)
LEMMA SaveCommitsStep ==
    ASSUME Inv, SaveCommits
    PROVE  Inv'
<1> DEFINE c == saves[1]
           d == c.doc
           s == ledger[d]
           t == targets[d]
           n == Len(s) + 1
           b == IF c.kind = "text" THEN c.batch ELSE 0
           r == [kind |-> c.kind, parent |-> saving.expected, batch |-> b,
                 text |-> saving.text, editorText |-> c.text, fitted |-> c.fitted]
<1>1. /\ saving # NoSave /\ Len(s) = saving.expected
      /\ ledger' = [ledger EXCEPT ![d] = Append(s, r)]
      /\ targets' = IF saving.attached
                    THEN [targets EXCEPT
                             ![d].current = n,
                             ![d].next = IF c.kind = "text" THEN @ + 1 ELSE @,
                             ![d].text = saving.text]
                    ELSE targets
      /\ profile' = IF profile[d] # 0 THEN [profile EXCEPT ![d] = n] ELSE profile
      /\ accepted' = IF c.kind = "text" THEN [accepted EXCEPT ![c.batch] = n] ELSE accepted
      /\ Received(c, n) \/ Failed(c)
      /\ SaveSettles
      /\ UNCHANGED <<live, issued>>
  BY DEF SaveCommits, Expected, Current, AppendRevision, Accept, SaveSettles, bounds
<1>2. /\ saves # <<>> /\ c \in Pending /\ c \in Command /\ d \in Docs
      /\ CommandOK(c, ledger, accepted, issued)
  BY <1>1, FirstSave DEF Inv, SavingsOK
<1>3. /\ ledger \in [Docs -> Seq(Revision)] /\ HistoryOK(s, issued)
      /\ s \in Seq(Revision) /\ Len(s) \in Nat /\ LedgerOK /\ TargetsOK /\ AcceptedOK
      /\ SavingOK(saving, c, s, t, accepted) /\ saving \in Saving
      /\ RowsOK(profile, ledger)
  BY <1>1, <1>2, LenProperties DEF Inv, LedgerOK, SavingsOK, ProjectionOK
<1>4. /\ Len(s) \in 1..Len(s) /\ c.kind \in {"text", "formatting"}
      /\ c.kind = "text" => /\ accepted[c.batch] = 0
                            /\ saving.text = s[Len(s)].text \cup {c.batch}
                            /\ OnLine(s, c.base, c.sequence, Len(s))
      /\ c.kind = "formatting" => saving.text = s[Len(s)].text
      /\ saving.attached => /\ t # NoTarget /\ t.current = Len(s)
                            /\ c.kind = "text" => t.base = c.base /\ t.next = c.sequence
  BY <1>1, <1>2, <1>3 DEF SavingOK, Command
<1>5. c.fitted => saving.text = c.text
  <2>1. CASE c.kind = "text"
    BY <1>3, <2>1 DEF SavingOK
  <2>2. CASE c.kind = "formatting"
    BY <1>1, <1>2, <1>3, <1>4, <2>2 DEF SavingOK, CommandOK
  <2> QED
    BY <1>4, <2>1, <2>2
<1>6. /\ c.text \in Text /\ c.batch \in Batches /\ c.batch # 0 /\ c.batch \in issued
      /\ c.sequence \in Nat
  BY <1>2, ConstantsAssumption DEF Command, CommandOK
<1>7. /\ c.kind = "text" => b = c.batch
      /\ c.kind = "formatting" => b = 0
  BY <1>4
<1> HIDE DEF b
<1>8. c.fitted \in BOOLEAN
  BY <1>2, Zenon DEF Command
<1>9. r \in Revision
  <2>1. saving.expected \in Nat /\ saving.text \in Text /\ b \in {0} \cup Batches
    BY <1>3, <1>4, <1>6, <1>7 DEF Saving
  <2> QED
    BY <1>4, <1>6, <1>8, <2>1, Zenon DEF Revision
<1>10. /\ r.kind = c.kind /\ r.batch = b /\ r.text = saving.text /\ r.parent = Len(s)
  BY <1>1
<1> HIDE DEF r, c
<1>10a. HistoryOK(Append(s, r), issued)
  <2>1. s[Len(s)].text \subseteq issued
    BY <1>3, <1>4, HistoryTexts
  <2>2. r.text \subseteq issued /\ r.batch \in {0} \cup issued
    BY <1>4, <1>6, <1>7, <1>10, <2>1
  <2>3. r.kind = "formatting" /\ Len(s) > 0 => s[Len(s)].text = r.text
    BY <1>4, <1>10
  <2> QED
    BY <1>3, <1>9, <2>2, <2>3, AppendHistory
<1>11. /\ ledger' \in [Docs -> Seq(Revision)] /\ ledger'[d] = Append(s, r)
       /\ \A e \in Docs : e # d => ledger'[e] = ledger[e]
       /\ Continues(s, ledger'[d]) /\ Len(ledger'[d]) = n /\ ledger'[d][n] = r
       /\ \A i \in 1..Len(s) : ledger'[d][i] = s[i]
       /\ n \in 1..Len(ledger'[d]) /\ n \in Nat
  BY <1>1, <1>2, <1>3, <1>9, AppendContinues
<1>12. ASSUME NEW f \in Docs, NEW i \in 1..Len(ledger'[f])
       PROVE  \/ i \in 1..Len(ledger[f]) /\ ledger'[f][i] = ledger[f][i]
              \/ f = d /\ i = n
  <2>1. CASE f # d
    BY <1>11, <2>1
  <2>2. CASE f = d
    BY <1>3, <1>11, <2>2
  <2> QED
    BY <2>1, <2>2
<1>13. \A e \in Docs : Continues(ledger[e], ledger'[e])
  BY <1>3, <1>11, UnchangedContinues DEF LedgerOK
<1>14. LedgerOK'
  <2>1. \A e \in Docs : HistoryOK(ledger'[e], issued)
    BY <1>3, <1>10a, <1>11 DEF LedgerOK
  <2>2. live[d] # "absent"
    BY <1>2, <1>3, <1>4 DEF LedgerOK
  <2>3. \A e \in Docs : (live[e] = "absent") <=> (Len(ledger'[e]) = 0)
    BY <1>3, <1>11, <2>2 DEF LedgerOK
  <2> QED
    BY <1>1, <1>3, <1>11, <2>1, <2>3 DEF LedgerOK
<1>15. c.kind = "text" => /\ c.batch \notin s[Len(s)].text
                          /\ \A e \in Docs : \A i \in 1..Len(ledger[e]) :
                                 ledger[e][i].batch # c.batch
  <2>1. c.kind = "text" => StoredOK(c, ledger, accepted) /\ accepted[c.batch] = 0
    BY <1>2, <1>4 DEF CommandOK
  <2> QED
    BY <1>2, <1>4, <2>1 DEF StoredOK
<1>16. ASSUME c.kind = "text" PROVE OnLine(ledger'[d], c.base, c.sequence + 1, n)
  <2>1. OnLine(s, c.base, c.sequence, Len(s)) /\ r.kind = "text"
    BY <1>4, <1>10, <1>16
  <2>2. OnLine(Append(s, r), c.base, c.sequence + 1, Len(s) + 1)
    BY <1>3, <1>9, <2>1, SaveOnLine
  <2> QED
    BY <1>11, <2>2
<1>17. TargetsOK' /\ \A e \in Docs : targets[e] # NoTarget => targets'[e] # NoTarget
  <2>1. CASE ~saving.attached
    BY <1>1, <1>3, <1>13, <2>1, TargetKept DEF TargetsOK
  <2>2. CASE saving.attached
    <3> DEFINE next == IF c.kind = "text" THEN t.next + 1 ELSE t.next
               u == [t EXCEPT !.current = n, !.next = next, !.text = saving.text]
    <3>1. t \in Target /\ TargetOK(t, s) /\ t.current = Len(s)
      BY <1>2, <1>3, <1>4, <2>2 DEF TargetsOK
    <3>2. targets' = [targets EXCEPT ![d] = u]
      BY <1>1, <1>4, <2>2
    <3>3. t.next \in Nat /\ (c.kind = "text" => next = t.next + 1)
           /\ (c.kind = "formatting" => next = t.next)
      BY <3>1 DEF Target
    <3> HIDE DEF next
    <3>4. t.base \in Nat /\ t.next \in Nat /\ next \in Nat
      BY <1>4, <3>1, <3>3 DEF Target
    <3>5. \A x \in Target : \A i, j \in Nat : \A text \in Text :
               [x EXCEPT !.current = i, !.next = j, !.text = text] \in Target
      BY Zenon DEF Target
    <3>6. u \in Target
      BY <1>3, <1>11, <3>1, <3>4, <3>5 DEF Saving
    <3>7. u.base = t.base /\ u.current = n /\ u.next = next /\ u.text = saving.text
      BY <3>1 DEF Target
    <3> HIDE DEF u
    <3>8. OnLine(s, t.base, t.next, Len(s))
      BY <3>1 DEF TargetOK
    <3>9. OnLine(ledger'[d], t.base, next, n)
      <4>1. CASE c.kind = "text"
        BY <1>4, <1>16, <2>2, <3>3, <4>1
      <4>2. CASE c.kind = "formatting"
        <5>1. r.kind = "formatting"
          BY <1>10, <4>2
        <5>2. OnLine(Append(s, r), t.base, t.next, Len(s) + 1)
          BY <1>3, <1>9, <3>8, <5>1, SaveOnLine
        <5> QED
          BY <1>11, <3>3, <4>2, <5>2
      <4> QED
        BY <1>4, <4>1, <4>2
    <3>10. TargetOK(u, ledger'[d])
      BY <1>10, <1>11, <3>7, <3>6, <3>9 DEF TargetOK
    <3>11. \A e \in Docs : e # d => targets'[e] = targets[e]
      BY <1>3, <3>2 DEF TargetsOK
    <3>12. targets'[d] = u /\ targets' \in [Docs -> Target \cup {NoTarget}]
      BY <1>2, <1>3, <3>2, <3>6 DEF TargetsOK
    <3>13. u # NoTarget
      BY <3>6, ConstantsAssumption
    <3>14. TargetsOK'
      BY <1>3, <1>11, <3>10, <3>11, <3>12 DEF TargetsOK
    <3> QED
      BY <3>11, <3>12, <3>13, <3>14
  <2> QED
    BY <2>1, <2>2
<1>18. AcceptedOK'
  <2>1. accepted' \in [Batches -> Nat]
    BY <1>1, <1>3, <1>6, <1>11 DEF AcceptedOK
  <2>2. \A x \in Batches : accepted'[x] # 0 => x \in issued
    BY <1>1, <1>3, <1>6 DEF AcceptedOK
  <2> QED
    BY <1>1, <2>1, <2>2 DEF AcceptedOK
<1>19. RowsOK(profile', ledger')
  <2>1. RowsOK(profile, ledger')
    BY <1>3, <1>13, RowsKept
  <2> QED
    BY <1>1, <1>2, <1>11, <2>1 DEF RowsOK
<1>20. ASSUME NEW x \in Batches, x # c.batch, x # 0, NEW f \in Docs,
              NEW i \in 1..Len(ledger'[f])
       PROVE  \/ i \in 1..Len(ledger[f]) /\ ledger'[f][i] = ledger[f][i]
              \/ /\ ledger'[f][i].batch # x
                 /\ x \in ledger'[f][i].text => x \in s[Len(s)].text
  <2>1. CASE f = d /\ i = n
    <3>1. r.batch \in {c.batch, 0} /\ r.text \subseteq s[Len(s)].text \cup {c.batch}
      BY <1>4, <1>7, <1>10
    <3> QED
      BY <1>11, <1>20, <2>1, <3>1
  <2> QED
    BY <1>12, <2>1
<1>21. \A x \in Batches : x # c.batch => accepted'[x] = accepted[x]
  BY <1>1, <1>3 DEF AcceptedOK
<1>22. ASSUME NEW e \in Pending PROVE CommandOK(e, ledger', accepted', issued)
  <2>1. /\ CommandOK(e, ledger, accepted, issued) /\ e.doc \in Docs /\ e.batch \in Batches
        /\ e.batch # 0
    BY ConstantsAssumption DEF Inv, CommandsOK, CommandOK, Command
  <2>2. Continues(ledger[e.doc], ledger'[e.doc])
    BY <1>13, <2>1
  <2>3. ASSUME e.kind = "text" PROVE StoredOK(e, ledger', accepted')
    <3>1. StoredOK(e, ledger, accepted)
      BY <2>1, <2>3 DEF CommandOK
    <3>2. CASE e.batch = c.batch
      <4>1. e = c /\ c.kind = "text"
        BY <1>2, <2>3, <3>2 DEF Inv, CommandsOK
      <4>2. accepted'[e.batch] = n
        BY <1>1, <1>3, <2>1, <4>1 DEF AcceptedOK
      <4>3. ASSUME NEW f \in Docs, NEW i \in 1..Len(ledger'[f]),
                   ledger'[f][i].batch = e.batch
            PROVE  i = n
        BY <1>15, <1>12, <4>1, <4>3
      <4>4. /\ n # 0 /\ n \in 1..Len(ledger'[e.doc])
            /\ e.batch \in ledger'[e.doc][n].text
            /\ e.fitted => ledger'[e.doc][n].text = e.text
        BY <1>3, <1>4, <1>5, <1>10, <1>11, <4>1
      <4>5. OnLine(ledger'[e.doc], e.base, e.sequence + 1, n)
        BY <1>16, <4>1
      <4> QED
        BY <4>2, <4>3, <4>4, <4>5 DEF StoredOK
    <3>3. CASE e.batch # c.batch
      <4>1. accepted'[e.batch] = accepted[e.batch]
        BY <1>21, <2>1, <3>3
      <4>2. ASSUME NEW f \in Docs, NEW i \in 1..Len(ledger'[f])
            PROVE  /\ ledger'[f][i].batch = e.batch => accepted[e.batch] = i
                   /\ e.batch \in ledger'[f][i].text => accepted[e.batch] # 0
        <5>1. CASE i \in 1..Len(ledger[f]) /\ ledger'[f][i] = ledger[f][i]
          BY <3>1, <5>1 DEF StoredOK
        <5>2. CASE /\ ledger'[f][i].batch # e.batch
                   /\ e.batch \in ledger'[f][i].text => e.batch \in s[Len(s)].text
          BY <1>2, <1>4, <3>1, <5>2 DEF StoredOK
        <5> QED
          BY <1>20, <2>1, <3>3, <5>1, <5>2
      <4>3. ASSUME accepted[e.batch] # 0
            PROVE  /\ accepted[e.batch] \in 1..Len(ledger'[e.doc])
                   /\ e.batch \in ledger'[e.doc][accepted[e.batch]].text
                   /\ e.fitted => ledger'[e.doc][accepted[e.batch]].text = e.text
                   /\ OnLine(ledger'[e.doc], e.base, e.sequence + 1, accepted[e.batch])
        <5>1. /\ accepted[e.batch] \in 1..Len(ledger[e.doc])
              /\ e.batch \in ledger[e.doc][accepted[e.batch]].text
              /\ e.fitted => ledger[e.doc][accepted[e.batch]].text = e.text
              /\ OnLine(ledger[e.doc], e.base, e.sequence + 1, accepted[e.batch])
          BY <3>1, <4>3 DEF StoredOK
        <5>2. OnLine(ledger'[e.doc], e.base, e.sequence + 1, accepted[e.batch])
          BY <2>2, <5>1, Kept_OnLine
        <5> QED
          BY <2>2, <5>1, <5>2 DEF Continues
      <4> QED
        BY <4>1, <4>2, <4>3 DEF StoredOK
    <3> QED
      BY <3>2, <3>3
  <2>4. ASSUME e.kind = "text", e.fitted PROVE Tuned(e, ledger'[e.doc])
    BY <2>1, <2>2, <2>4, Kept_Tuned DEF CommandOK
  <2>5. ASSUME e.kind = "formatting"
        PROVE  /\ e.base \in 1..Len(ledger'[e.doc])
               /\ e.fitted /\ e.base = Len(ledger'[e.doc])
                      => e.text = ledger'[e.doc][e.base].text
    BY <2>1, <2>2, <2>5 DEF CommandOK, Continues
  <2> QED
    BY <2>1, <2>3, <2>4, <2>5 DEF CommandOK
<1>23. ASSUME NEW x \in Held PROVE Unused(x, ledger', accepted', issued, Pending)
  <2>1. /\ Unused(x, ledger, accepted, issued, Pending) /\ x # 0
    BY DEF Inv, HeldOK, Held
  <2>2. x # c.batch /\ x \in Batches
    BY <1>2, <1>3, <2>1 DEF Unused, LedgerOK
  <2>3. ASSUME NEW f \in Docs, NEW i \in 1..Len(ledger'[f])
        PROVE  ledger'[f][i].batch # x /\ x \notin ledger'[f][i].text
    <3>1. x \notin s[Len(s)].text
      BY <1>2, <1>4, <2>1 DEF Unused
    <3>2. CASE i \in 1..Len(ledger[f]) /\ ledger'[f][i] = ledger[f][i]
      BY <2>1, <3>2 DEF Unused
    <3> QED
      BY <1>20, <2>1, <2>2, <3>1, <3>2
  <2>4. accepted'[x] = 0
    BY <1>21, <2>1, <2>2 DEF Unused
  <2> QED
    BY <2>1, <2>3, <2>4 DEF Unused
<1>24. /\ n \in 1..Len(ledger'[d]) /\ (c.fitted => ledger'[d][n].text = c.text)
  BY <1>5, <1>10, <1>11
<1> HIDE DEF n
<1> QED
  BY <1>1, <1>2, <1>13, <1>14, <1>16, <1>17, <1>18, <1>19, <1>22, <1>23, <1>24,
     SettleStep, Zenon
     DEF c

-----------------------------------------------------------------------------
(* The structure commands.                                                 *)

(* A ledger that does not change stores no batch.                          *)
LEMMA UnchangedUnsaved ==
    ASSUME LedgerOK, ledger' = ledger
    PROVE  Unsaved(ledger, ledger')
<1>1. \A d \in Docs : Continues(ledger[d], ledger[d])
  BY UnchangedContinues DEF LedgerOK
<1> QED
  BY <1>1 DEF Unsaved

(* The current rows are rows of their histories.                           *)
LEMMA RowsOfLedger ==
    ASSUME LedgerOK
    PROVE  /\ RowsOK(Rows, ledger)
           /\ \A d \in Docs : RowsOK([Rows EXCEPT ![d] = 0], ledger)
<1>1. \A d \in Docs : Len(ledger[d]) \in Nat
  BY LenProperties DEF LedgerOK
<1> QED
  BY <1>1 DEF RowsOK, Rows, Current

(* A target made from a current row is good.                               *)
LEMMA FreshTargetOK ==
    ASSUME LedgerOK, NEW d \in Docs, NEW row \in 1..Len(ledger[d])
    PROVE  /\ FreshTarget(d, row) \in Target /\ FreshTarget(d, row) # NoTarget
           /\ TargetOK(FreshTarget(d, row), ledger[d])
<1> DEFINE t == FreshTarget(d, row)
<1>1. HistoryOK(ledger[d], issued)
  BY DEF LedgerOK
<1>2. /\ ledger[d][row].text \in Text /\ OnLine(ledger[d], row, 0, row)
  BY <1>1, HistoryTexts, OnLineHere
<1>3. /\ t.base = row /\ t.current = row /\ t.next = 0 /\ t.text = ledger[d][row].text
  BY DEF FreshTarget, TextOf
<1>4. t \in Target
  BY <1>2 DEF FreshTarget, TextOf, Target
<1>5. t # NoTarget
  BY <1>4, ConstantsAssumption
<1> HIDE DEF t
<1> QED
  BY <1>2, <1>3, <1>4, <1>5 DEF TargetOK, t

(* A queue made from a row of the history is good, if it calls itself      *)
(* fitted only when it is in tune.                                         *)
LEMMA RegisteredOK ==
    ASSUME LedgerOK, NEW d \in Docs, NEW row \in 0..Len(ledger[d]), NEW next \in Nat,
           NEW text \in Text, NEW fitted \in BOOLEAN,
           fitted /\ row # 0 =>
               /\ row = Len(ledger[d]) => text = ledger[d][row].text
               /\ InTune(ledger[d], row, next, text),
           NEW k, k = RegisterDocument(d, row, next, text, fitted)
    PROVE  GoodQueue(k, ledger) /\ k.flight = NoFlight /\ k.unsent = 0 /\ k.doc = d
<1>1. Len(ledger[d]) \in Nat
  BY LenProperties DEF LedgerOK
<1> DEFINE z == [doc |-> d, installed |-> row # 0, base |-> row, next |-> next,
                 revision |-> row, text |-> text, unsent |-> 0,
                 flight |-> NoFlight, sent |-> FALSE, fitted |-> fitted]
<1>2. row \in Nat /\ 0 \in {0} \cup Batches
  BY <1>1
<1>3. z \in Client
  BY <1>2, Zenon DEF Client
<1>4. /\ z.base = row /\ z.next = next /\ z.revision = row /\ z.text = text
      /\ z.flight = NoFlight /\ z.unsent = 0 /\ z.doc = d
  OBVIOUS
<1>5. (z.installed <=> row # 0) /\ z.fitted = fitted
  BY Zenon
<1>6. k = z
  BY DEF RegisterDocument
<1> HIDE DEF z
<1>7. QueueOK(z, ledger[d])
  BY <1>1, <1>2, <1>4, <1>5 DEF QueueOK
<1> QED
  BY <1>3, <1>4, <1>6, <1>7 DEF GoodQueue, FlightOK

(* The first queue of a document is good.                                  *)
LEMMA FirstQueueOK ==
    ASSUME LedgerOK, NEW d \in Docs, NEW row \in 0..Len(ledger[d])
    PROVE  /\ GoodQueue(FirstQueue(d, row), ledger)
           /\ FirstQueue(d, row).flight = NoFlight /\ FirstQueue(d, row).unsent = 0
           /\ FirstQueue(d, row).doc = d
<1> DEFINE text == IF row = 0 THEN {} ELSE TextOf(d, row)
<1>1. HistoryOK(ledger[d], issued) /\ Len(ledger[d]) \in Nat
  BY LenProperties DEF LedgerOK
<1>2. ASSUME row # 0
      PROVE  /\ row \in 1..Len(ledger[d]) /\ ledger[d][row].text \in Text
             /\ InTune(ledger[d], row, 0, ledger[d][row].text)
  <2>1. row \in 1..Len(ledger[d])
    BY <1>1, <1>2
  <2>2. OnLine(ledger[d], row, 0, row)
    BY <1>1, <2>1, OnLineHere
  <2>3. ledger[d][row].text \in Text
    BY <1>1, <2>1, HistoryTexts
  <2> QED
    BY <2>1, <2>2, <2>3 DEF InTune
<1>3. text \in Text /\ (row # 0 => text = ledger[d][row].text) /\ 0 \in Nat
  BY <1>2 DEF Text, TextOf
<1> DEFINE k == FirstQueue(d, row)
<1>fit. PICK fitted \in BOOLEAN : fitted = TRUE
  OBVIOUS
<1>4. k = RegisterDocument(d, row, 0, text, fitted)
  BY <1>fit DEF FirstQueue
<1> HIDE DEF text, k
<1>5. fitted /\ row # 0 => /\ row = Len(ledger[d]) => text = ledger[d][row].text
                 /\ InTune(ledger[d], row, 0, text)
  BY <1>2, <1>3
<1>6. GoodQueue(k, ledger) /\ k.flight = NoFlight /\ k.unsent = 0 /\ k.doc = d
  BY <1>3, <1>4, <1>5, RegisteredOK
<1> QED
  BY <1>6 DEF k

(* A step that neither begins nor settles a save.                          *)
LEMMA QuietStep ==
    ASSUME Inv, UNCHANGED <<saves, client, left, accepted, issued, requested, crashes, acked>>,
           Unsaved(ledger, ledger'),
           LedgerOK', TargetsOK', SavingsOK', StructureOK', RowsOK(profile', ledger'),
           query' \in Query, RowsOK(query'.rows, ledger')
    PROVE  Inv'
<1>1. \A d \in Docs : Continues(ledger[d], ledger'[d])
  BY DEF Unsaved
<1>2. Pending' = Pending
  BY DEF Pending
<1>3. ClientsOK'
  <2>1. ASSUME NEW k, GoodQueue(k, ledger) PROVE GoodQueue(k, ledger')
    <3>1. k.doc \in Docs
      BY <2>1, QueueFields DEF GoodQueue
    <3> QED
      BY <1>1, <2>1, <3>1, QueueKept DEF GoodQueue
  <2> QED
    BY <2>1 DEF Inv, ClientsOK
<1>4. issued \subseteq Batches
  BY DEF Inv, LedgerOK
<1>5. \A c \in Pending : CommandOK(c, ledger', accepted, issued)
  BY <1>4, CommandKept DEF Inv, CommandsOK
<1>6. CommandsOK'
  BY <1>2, <1>5 DEF Inv, CommandsOK
<1>7. HeldOK'
  <2>1. ASSUME NEW b \in Held PROVE Unused(b, ledger', accepted, issued, Pending)
    <3>1. Unused(b, ledger, accepted, issued, Pending) /\ b # 0
      BY DEF Inv, HeldOK, Held
    <3>2. ASSUME NEW d \in Docs, NEW i \in 1..Len(ledger'[d])
          PROVE  ledger'[d][i].batch # b /\ b \notin ledger'[d][i].text
      <4>1. CASE i <= Len(ledger[d])
        <5>1. i \in 1..Len(ledger[d]) /\ ledger'[d][i] = ledger[d][i]
          BY <1>1, <4>1 DEF Continues
        <5> QED
          BY <3>1, <5>1 DEF Unused
      <4>2. CASE ledger'[d][i].batch = 0 /\ ledger'[d][i].text = {}
        BY <3>1, <4>2
      <4>3. CASE /\ ledger'[d][i].batch = 0
                 /\ \E j \in 1..Len(ledger[d]) : ledger'[d][i].text = ledger[d][j].text
        BY <3>1, <4>3 DEF Unused
      <4> QED
        BY <4>1, <4>2, <4>3 DEF Unsaved
    <3> QED
      BY <3>1, <3>2 DEF Unused
  <2>2. Held' = Held
    BY DEF Held
  <2> QED
    BY <1>2, <2>1, <2>2 DEF HeldOK
<1> QED
  BY <1>3, <1>6, <1>7 DEF Inv, AcceptedOK, ProjectionOK, CountsOK

(* A command that only moves on.                                           *)
LEMMA OpStepQuiet ==
    ASSUME Inv, UNCHANGED <<ledger, live, targets, profile, accepted, saves, saving, ops,
                            client, left, query, issued, requested, crashes, acked>>,
           OpOK(op', ledger, live),
           op'.kind = "create" => op.kind = "create" /\ op'.doc = op.doc,
           op'.kind = "restore" /\ op'.phase = "materializing" => targets[op'.doc] # NoTarget
    PROVE  Inv'
<1>1. StructureOK'
  BY DEF Inv, StructureOK, OpsOK
<1>2. Unsaved(ledger, ledger')
  BY UnchangedUnsaved DEF Inv
<1>3. LedgerOK' /\ TargetsOK' /\ SavingsOK'
  BY DEF Inv, LedgerOK, TargetsOK, SavingsOK
<1>4. RowsOK(profile', ledger') /\ query' \in Query /\ RowsOK(query'.rows, ledger')
  BY DEF Inv, ProjectionOK
<1> QED
  BY <1>1, <1>2, <1>3, <1>4, QuietStep

(* No structure command is a good one.                                     *)
LEMMA IdleOK ==
    ASSUME NEW l, NEW v, \A d \in Docs : Len(l[d]) \in Nat
    PROVE  OpOK(Idle, l, v) /\ Idle.kind = "none"
<1>1. Idle.rows \in [Docs -> Nat] /\ \A d \in Docs : Idle.rows[d] = 0
  BY DEF Idle
<1>2. Idle \in Op
  BY <1>1 DEF Idle, Op
<1>3. Idle.kind = "none"
  BY DEF Idle
<1>4. RowsOK(Idle.rows, l)
  BY <1>1 DEF RowsOK
<1> QED
  BY <1>2, <1>3, <1>4 DEF OpOK

(* A command that goes to another phase, with rows just read.              *)
LEMMA OpMoves ==
    ASSUME NEW o \in Op, NEW phase \in {"materializing", "publishing", "loading"},
           NEW p, p = [o EXCEPT !.phase = phase]
    PROVE  /\ p \in Op /\ p.kind = o.kind /\ p.doc = o.doc /\ p.revision = o.revision
           /\ p.rows = o.rows /\ p.phase = phase
<1>1. phase \in {"idle", "waiting", "materializing", "publishing", "loading"}
  OBVIOUS
<1>2. p \in Op
  BY <1>1, Zenon DEF Op
<1> QED
  BY <1>2 DEF Op

(* A structure command that begins to load rows keeps its other fields.    *)
LEMMA OpLoads ==
    ASSUME NEW o \in Op, NEW rows \in [Docs -> Nat]
    PROVE  /\ [o EXCEPT !.phase = "loading", !.rows = rows] \in Op
           /\ [o EXCEPT !.phase = "loading", !.rows = rows].kind = o.kind
           /\ [o EXCEPT !.phase = "loading", !.rows = rows].doc = o.doc
           /\ [o EXCEPT !.phase = "loading", !.rows = rows].revision = o.revision
           /\ [o EXCEPT !.phase = "loading", !.rows = rows].rows = rows
           /\ [o EXCEPT !.phase = "loading", !.rows = rows].phase = "loading"
<1>1. [o EXCEPT !.phase = "loading", !.rows = rows] \in Op
  BY Zenon DEF Op
<1> QED
  BY <1>1 DEF Op

(* A structure command that read what it expects keeps its other fields.   *)
LEMMA OpExpects ==
    ASSUME NEW o \in Op, NEW e \in Nat
    PROVE  /\ [o EXCEPT !.phase = "publishing", !.expected = e] \in Op
           /\ [o EXCEPT !.phase = "publishing", !.expected = e].kind = o.kind
           /\ [o EXCEPT !.phase = "publishing", !.expected = e].doc = o.doc
           /\ [o EXCEPT !.phase = "publishing", !.expected = e].revision = o.revision
           /\ [o EXCEPT !.phase = "publishing", !.expected = e].rows = o.rows
           /\ [o EXCEPT !.phase = "publishing", !.expected = e].phase = "publishing"
<1>1. [o EXCEPT !.phase = "publishing", !.expected = e] \in Op
  BY Zenon DEF Op
<1> QED
  BY <1>1 DEF Op

(* The steps of structure commands that change no history keep the         *)
(* invariant.                                                              *)
LEMMA MovesOn ==
    ASSUME Inv, Activate \/ CreatePublishes \/ RestoreBegins \/ RestorePublishes \/ OpFails
    PROVE  Inv'
<1>1. UNCHANGED <<ledger, live, targets, profile, accepted, saves, saving, ops,
                  client, left, query, issued, requested, crashes, acked>>
  BY DEF Activate, CreatePublishes, RestoreBegins, RestorePublishes, OpFails, bounds
<1>2. OpOK(op, ledger, live) /\ op \in Op /\ LedgerOK /\ op.rows \in [Docs -> Nat]
  BY DEF Inv, StructureOK, OpOK, RowsOK
<1>3. RowsOK(Rows, ledger) /\ Rows \in [Docs -> Nat]
  BY <1>2, RowsOfLedger DEF RowsOK
<1>4. CASE Activate
  <2>1. /\ op' = [op EXCEPT !.phase = "loading", !.rows = Rows] /\ op.kind = "activate"
    BY <1>4 DEF Activate, Ready, ReloadBegins
  <2>2. /\ op' \in Op /\ op'.kind = op.kind /\ op'.doc = op.doc /\ op'.rows = Rows
    BY <1>2, <1>3, <2>1, OpLoads, Zenon
  <2>3. OpOK(op', ledger, live)
    BY <1>2, <1>3, <2>1, <2>2 DEF OpOK
  <2> QED
    BY <1>1, <2>1, <2>2, <2>3, OpStepQuiet
<1>5. CASE CreatePublishes \/ RestoreBegins
  <2>1. PICK phase \in {"materializing", "publishing"} :
            /\ op' = [op EXCEPT !.phase = phase] /\ op.phase = "waiting"
            /\ phase = "materializing" => targets[op.doc] # NoTarget
    BY <1>5 DEF CreatePublishes, RestoreBegins, Ready, OpAt
  <2>2. /\ op' \in Op /\ op'.kind = op.kind /\ op'.doc = op.doc /\ op'.rows = op.rows
        /\ op'.revision = op.revision /\ op'.phase = phase
    BY <1>2, <2>1, OpMoves
  <2>3. OpOK(op', ledger, live)
    BY <1>2, <2>1, <2>2 DEF OpOK
  <2> QED
    BY <1>1, <2>1, <2>2, <2>3, OpStepQuiet
<1>6. CASE RestorePublishes
  <2>1. op.kind = "restore" /\ op.doc \in Docs
    BY <1>2, <1>6 DEF RestorePublishes, OpOK
  <2>2. targets[op.doc].current \in Nat
    <3>1. targets[op.doc] \in Target
      BY <1>6, <2>1 DEF RestorePublishes, Inv, StructureOK, TargetsOK
    <3> QED
      BY <3>1 DEF Target
  <2>3. op' = [op EXCEPT !.phase = "publishing", !.expected = targets[op.doc].current]
    BY <1>6 DEF RestorePublishes
  <2>4. /\ op' \in Op /\ op'.kind = op.kind /\ op'.doc = op.doc /\ op'.rows = op.rows
        /\ op'.revision = op.revision /\ op'.phase = "publishing"
    BY <1>2, <2>2, <2>3, OpExpects, Zenon
  <2>5. OpOK(op', ledger, live)
    BY <1>2, <2>1, <2>4 DEF OpOK
  <2> QED
    BY <1>1, <2>1, <2>4, <2>5, OpStepQuiet
<1>7. CASE OpFails
  <2>1. \A d \in Docs : Len(ledger[d]) \in Nat
    BY <1>2, LenProperties DEF LedgerOK
  <2>2. op' = Idle
    BY <1>7 DEF OpFails
  <2> QED
    BY <1>1, <2>1, <2>2, IdleOK, OpStepQuiet
<1> QED
  BY <1>4, <1>5, <1>6, <1>7

(* The command's turn comes.                                               *)
LEMMA OpBeginsStep ==
    ASSUME Inv, OpBegins
    PROVE  Inv'
<1>1. /\ ops # <<>> /\ ops' = Tail(ops)
      /\ op' = [kind |-> ops[1].kind, doc |-> ops[1].doc,
                revision |-> ops[1].revision, phase |-> "waiting",
                ahead |-> IF ops[1].kind = "create" THEN 0 ELSE Len(saves),
                expected |-> 0, rows |-> Idle.rows]
      /\ UNCHANGED <<ledger, live, targets, profile, accepted, saves, saving,
                     client, left, query, issued, requested, crashes, acked>>
  BY DEF OpBegins, bounds
<1>2. ops \in Seq(Asked) /\ OpsOK(ops, op, ledger, live) /\ LedgerOK /\ saves \in Seq(Command)
  BY DEF Inv, StructureOK, OpsOK, CommandsOK
<1>3. /\ Len(ops) \in Nat /\ Len(ops) > 0 /\ ops' \in Seq(Asked) /\ Len(ops') = Len(ops) - 1
      /\ \A i \in 1..Len(ops') : ops'[i] = ops[i + 1]
  BY <1>1, <1>2, EmptySeq, LenProperties, HeadTailProperties
<1>4. ops[1] \in Asked /\ Len(saves) \in Nat
  BY <1>2, <1>3, ElementOfSeq, LenProperties
<1>5. Idle.rows \in [Docs -> Nat] /\ RowsOK(Idle.rows, ledger)
  <2>1. \A d \in Docs : Len(ledger[d]) \in Nat
    BY <1>2, LenProperties DEF LedgerOK
  <2> QED
    BY <2>1 DEF Idle, RowsOK
<1>6. /\ op'.kind = ops[1].kind /\ op'.doc = ops[1].doc /\ op'.revision = ops[1].revision
      /\ op'.phase = "waiting" /\ op'.rows = Idle.rows
  BY <1>1
<1>7. op' \in Op
  <2>1. /\ ops[1].kind \in {"none", "activate", "retire", "create", "restore"}
        /\ ops[1].doc \in Docs \cup {0} /\ ops[1].revision \in Nat
    BY <1>4 DEF Asked
  <2>2. (IF ops[1].kind = "create" THEN 0 ELSE Len(saves)) \in Nat
    BY <1>4
  <2> QED
    BY <1>1, <1>5, <2>1, <2>2 DEF Op
<1>8. ops[1].doc \in Docs
  BY <1>4 DEF Asked
<1>9. OpOK(op', ledger, live)
  <2>1. /\ ops[1].kind = "create" => live[ops[1].doc] = "absent"
        /\ ops[1].kind = "restore" => ops[1].revision \in 1..Len(ledger[ops[1].doc])
    BY <1>2, <1>3 DEF OpsOK
  <2> QED
    BY <1>5, <1>6, <1>7, <1>8, <2>1 DEF OpOK
<1>10. OpsOK(ops', op', ledger, live)
  <2>1. ASSUME NEW i \in 1..Len(ops')
        PROVE  /\ ops'[i].kind = "create" => live[ops'[i].doc] = "absent"
                       /\ (op'.kind = "create" => op'.doc # ops'[i].doc)
               /\ ops'[i].kind = "restore" => ops'[i].revision \in 1..Len(ledger[ops'[i].doc])
    <3>1. i + 1 \in 1..Len(ops) /\ ops'[i] = ops[i + 1] /\ i + 1 # 1 /\ 1 \in 1..Len(ops)
      BY <1>3
    <3> QED
      BY <1>2, <1>6, <3>1 DEF OpsOK
  <2>2. ASSUME NEW i \in 1..Len(ops'), NEW j \in 1..Len(ops'), ops'[i].kind = "create",
               ops'[j].kind = "create", ops'[i].doc = ops'[j].doc
        PROVE  i = j
    <3>1. /\ i + 1 \in 1..Len(ops) /\ ops'[i] = ops[i + 1]
          /\ j + 1 \in 1..Len(ops) /\ ops'[j] = ops[j + 1]
      BY <1>3
    <3>2. i + 1 = j + 1
      BY <1>2, <2>2, <3>1 DEF OpsOK
    <3> QED
      BY <3>2
  <2> QED
    BY <1>3, <2>1, <2>2 DEF OpsOK
<1>11. StructureOK'
  BY <1>1, <1>6, <1>9, <1>10 DEF StructureOK
<1>12. Unsaved(ledger, ledger')
  BY <1>1, <1>2, UnchangedUnsaved
<1>13. LedgerOK' /\ TargetsOK' /\ SavingsOK'
  BY <1>1 DEF Inv, LedgerOK, TargetsOK, SavingsOK
<1>14. RowsOK(profile', ledger') /\ query' \in Query /\ RowsOK(query'.rows, ledger')
  BY <1>1 DEF Inv, ProjectionOK
<1> QED
  BY <1>1, <1>11, <1>12, <1>13, <1>14, QuietStep

(* Retiring a document keeps the invariant.                                *)
LEMMA RetireStep ==
    ASSUME Inv, RetireDocument
    PROVE  Inv'
<1> DEFINE d == op.doc
           rows == [Rows EXCEPT ![d] = 0]
<1>1. /\ op.kind = "retire" /\ live[d] = "live"
      /\ live' = [live EXCEPT ![d] = "retired"]
      /\ op' = [op EXCEPT !.phase = "loading", !.rows = rows]
      /\ UNCHANGED <<ledger, targets, profile, accepted, saves, saving, ops,
                     client, left, query, issued, requested, crashes, acked>>
  BY DEF RetireDocument, Ready, ReloadBegins, bounds
<1>2. /\ op \in Op /\ OpOK(op, ledger, live) /\ d \in Docs /\ LedgerOK
      /\ OpsOK(ops, op, ledger, live) /\ live \in [Docs -> {"absent", "live", "retired"}]
  BY <1>1 DEF Inv, StructureOK, OpOK, LedgerOK
<1>3. RowsOK(rows, ledger) /\ rows \in [Docs -> Nat]
  BY <1>2, RowsOfLedger DEF RowsOK
<1> HIDE DEF rows
<1>4. /\ op' \in Op /\ op'.kind = "retire" /\ op'.doc = d /\ op'.rows = rows
  BY <1>1, <1>2, <1>3, OpLoads, Zenon
<1>5. OpOK(op', ledger, live')
  BY <1>2, <1>3, <1>4 DEF OpOK
<1>6. OpsOK(ops, op', ledger, live')
  <2>1. ASSUME NEW i \in 1..Len(ops), ops[i].kind = "create"
        PROVE  live'[ops[i].doc] = "absent"
    <3>1. live[ops[i].doc] = "absent"
      BY <1>2, <2>1 DEF OpsOK
    <3>2. ops[i].doc # d
      BY <1>1, <3>1
    <3> QED
      BY <1>1, <1>2, <3>1, <3>2
  <2>2. op'.kind # "create"
    BY <1>4
  <2> QED
    BY <1>2, <2>1, <2>2 DEF OpsOK
<1>7. StructureOK'
  BY <1>1, <1>4, <1>5, <1>6 DEF StructureOK
<1>8. LedgerOK'
  BY <1>1, <1>2 DEF LedgerOK
<1>9. TargetsOK' /\ SavingsOK'
  BY <1>1 DEF Inv, TargetsOK, SavingsOK
<1>10. RowsOK(profile', ledger') /\ query' \in Query /\ RowsOK(query'.rows, ledger')
  BY <1>1 DEF Inv, ProjectionOK
<1>11. Unsaved(ledger, ledger')
  BY <1>1, <1>2, UnchangedUnsaved
<1> QED
  BY <1>1, <1>7, <1>8, <1>9, <1>10, <1>11, QuietStep

(* A running save whose document gets another revision is left behind.     *)
LEMMA SavingKept ==
    ASSUME NEW v, NEW c, NEW s, NEW u, NEW t, NEW w, NEW a, SavingOK(v, c, s, t, a),
           Continues(s, u), t # NoTarget => w # NoTarget,
           t = w \/ Len(u) > Len(s)
    PROVE  SavingOK(v, c, u, w, a)
<1>1. v.expected \in 1..Len(u) /\ u[v.expected] = s[v.expected]
  BY DEF SavingOK, Continues
<1>2. c.kind = "text" => OnLine(u, c.base, c.sequence, v.expected)
  BY Kept_OnLine DEF SavingOK
<1>3. Len(u) = v.expected => Len(s) = v.expected /\ t = w
  BY DEF SavingOK, Continues
<1> QED
  BY <1>1, <1>2, <1>3 DEF SavingOK

(* A document that has just been created.                                  *)
LEMMA FirstHistory ==
    ASSUME NEW m
    PROVE  HistoryOK(<<InitialRevision>>, m)
<1> DEFINE s == <<InitialRevision>>
<1>1. InitialRevision \in Revision /\ InitialRevision.batch = 0 /\ InitialRevision.text = {}
  BY DEF InitialRevision, Revision, Text
<1>2. s \in Seq(Revision) /\ Len(s) = 1 /\ s[1] = InitialRevision
  BY <1>1
<1> HIDE DEF s
<1>3. \A i \in 1..Len(s) : s[i] = InitialRevision
  BY <1>2
<1> QED
  BY <1>1, <1>2, <1>3 DEF HistoryOK, s

(* Creating a document keeps the invariant.                                *)
LEMMA CreateCommitsStep ==
    ASSUME Inv, CreateCommits
    PROVE  Inv'
<1> DEFINE d == op.doc
           rows == [Rows EXCEPT ![d] = 1]
<1>1. /\ op.kind = "create" /\ op.phase = "publishing"
      /\ live' = [live EXCEPT ![d] = "live"]
      /\ ledger' = [ledger EXCEPT ![d] = <<InitialRevision>>]
      /\ op' = [op EXCEPT !.phase = "loading", !.rows = rows]
      /\ UNCHANGED <<targets, profile, accepted, saves, saving, ops, client, left,
                     query, issued, requested, crashes, acked>>
  BY DEF CreateCommits, ReloadBegins, bounds
<1>2. /\ op \in Op /\ OpOK(op, ledger, live) /\ d \in Docs /\ LedgerOK
      /\ OpsOK(ops, op, ledger, live) /\ live \in [Docs -> {"absent", "live", "retired"}]
      /\ live[d] = "absent" /\ Len(ledger[d]) = 0
      /\ ledger \in [Docs -> Seq(Revision)]
  BY <1>1 DEF Inv, StructureOK, OpOK, LedgerOK
<1>3. /\ InitialRevision \in Revision /\ InitialRevision.batch = 0
      /\ InitialRevision.text = {}
  BY DEF InitialRevision, Revision, Text
<1>4. /\ ledger' \in [Docs -> Seq(Revision)] /\ ledger'[d] = <<InitialRevision>>
      /\ Len(ledger'[d]) = 1 /\ ledger'[d][1] = InitialRevision
      /\ \A e \in Docs : e # d => ledger'[e] = ledger[e]
  BY <1>1, <1>2, <1>3
<1>5. Unsaved(ledger, ledger')
  <2>1. ASSUME NEW e \in Docs, e # d
        PROVE  Continues(ledger[e], ledger'[e]) /\ Len(ledger'[e]) = Len(ledger[e])
    BY <1>2, <1>4, <2>1, UnchangedContinues DEF LedgerOK
  <2>2. Continues(ledger[d], ledger'[d])
    BY <1>2, <1>4 DEF Continues
  <2>3. \A i \in 1..Len(ledger'[d]) : ledger'[d][i].batch = 0 /\ ledger'[d][i].text = {}
    BY <1>3, <1>4
  <2> QED
    BY <2>1, <2>2, <2>3 DEF Unsaved
<1>6. LedgerOK'
  <2>1. HistoryOK(ledger'[d], issued)
    BY <1>2, <1>4, FirstHistory
  <2> QED
    BY <1>1, <1>2, <1>4, <2>1 DEF LedgerOK
<1>7. rows \in [Docs -> Nat] /\ RowsOK(rows, ledger')
  <2>1. RowsOK(Rows, ledger)
    BY <1>2, RowsOfLedger
  <2>2. /\ \A e \in Docs : Rows[e] \in Nat /\ Rows[e] \in 0..Len(ledger[e])
        /\ Rows \in [Docs -> Nat]
    BY <2>1 DEF RowsOK
  <2>3. rows \in [Docs -> Nat] /\ rows[d] = 1 /\ \A e \in Docs : e # d => rows[e] = Rows[e]
    BY <1>2, <2>2
  <2> HIDE DEF rows
  <2>4. ASSUME NEW e \in Docs PROVE rows[e] \in 0..Len(ledger'[e])
    <3>1. rows[d] = 1 /\ Len(ledger'[d]) = 1
      BY <1>4, <2>3
    <3>2. rows[d] \in 0..Len(ledger'[d])
      BY <3>1
    <3>3. CASE e # d
      BY <1>4, <2>2, <2>3, <3>3
    <3> QED
      BY <3>2, <3>3
  <2> QED
    BY <2>3, <2>4 DEF RowsOK
<1> HIDE DEF rows
<1>8. /\ op' \in Op /\ op'.kind = "create" /\ op'.doc = d /\ op'.rows = rows
      /\ op'.phase = "loading"
  <2>1. op \in Op /\ op' = [op EXCEPT !.phase = "loading", !.rows = rows] /\ op.kind = "create"
    BY <1>1, <1>2
  <2> QED
    BY <1>7, <2>1, OpLoads, Zenon
<1>9. OpOK(op', ledger', live')
  BY <1>2, <1>7, <1>8 DEF OpOK
<1>10. OpsOK(ops, op', ledger', live')
  <2>1. ASSUME NEW i \in 1..Len(ops)
        PROVE  /\ ops[i].kind = "create" => live'[ops[i].doc] = "absent" /\ ops[i].doc # d
               /\ ops[i].kind = "restore" => ops[i].revision \in 1..Len(ledger'[ops[i].doc])
    <3>1. ops \in Seq(Asked)
      BY <1>2 DEF OpsOK
    <3>2. ops[i] \in Asked
      BY <3>1, ElementOfSeq
    <3>3. ops[i].doc \in Docs
      BY <3>2 DEF Asked
    <3>4. /\ ops[i].kind = "create" => live[ops[i].doc] = "absent" /\ ops[i].doc # d
          /\ ops[i].kind = "restore" => ops[i].revision \in 1..Len(ledger[ops[i].doc])
      BY <1>1, <1>2 DEF OpsOK
    <3> QED
      BY <1>1, <1>2, <1>4, <3>3, <3>4
  <2> QED
    BY <1>2, <1>8, <2>1 DEF OpsOK
<1>11. StructureOK'
  BY <1>1, <1>8, <1>9, <1>10 DEF StructureOK
<1>12. TargetsOK'
  BY <1>1, <1>5, TargetKept DEF Inv, TargetsOK, Unsaved
<1>13. SavingsOK'
  <2>1. ASSUME saving # NoSave
        PROVE  SavingOK(saving, saves[1], ledger'[saves[1].doc], targets[saves[1].doc], accepted)
    <3>1. /\ SavingOK(saving, saves[1], ledger[saves[1].doc], targets[saves[1].doc], accepted)
          /\ saves # <<>> /\ saves[1].doc \in Docs
      BY <2>1, FirstSave DEF Inv, SavingsOK
    <3>2. saves[1].doc # d
      BY <1>2, <3>1 DEF SavingOK
    <3> QED
      BY <1>4, <3>1, <3>2
  <2> QED
    BY <1>1, <2>1 DEF Inv, SavingsOK
<1>14. RowsOK(profile', ledger') /\ query' \in Query /\ RowsOK(query'.rows, ledger')
  <2>1. \A e \in Docs : Continues(ledger[e], ledger'[e])
    BY <1>5 DEF Unsaved
  <2> QED
    BY <1>1, <2>1, RowsKept DEF Inv, ProjectionOK
<1> QED
  BY <1>1, <1>5, <1>6, <1>11, <1>12, <1>13, <1>14, QuietStep

(* Restoring an old revision keeps the invariant.                          *)
LEMMA RestoreCommitsStep ==
    ASSUME Inv, RestoreCommits
    PROVE  Inv'
<1> DEFINE d == op.doc
           s == ledger[d]
           old == s[op.revision]
           n == Len(s) + 1
           r == [old EXCEPT !.kind = "restore", !.parent = op.expected, !.batch = 0]
           t == [base |-> n, current |-> n, next |-> 0, text |-> old.text]
           rows == [Rows EXCEPT ![d] = IF Rows[d] = 0 THEN 0 ELSE n]
<1>1. /\ op.kind = "restore" /\ op.phase = "publishing"
      /\ ledger' = [ledger EXCEPT ![d] = Append(s, r)]
      /\ targets' = [targets EXCEPT ![d] = t]
      /\ op' = [op EXCEPT !.phase = "loading", !.rows = rows]
      /\ UNCHANGED <<live, profile, accepted, saves, saving, ops, client, left,
                     query, issued, requested, crashes, acked>>
  BY DEF RestoreCommits, ReloadBegins, AppendRevision, Current, TextOf, bounds
<1>2. /\ op \in Op /\ OpOK(op, ledger, live) /\ d \in Docs /\ LedgerOK
      /\ OpsOK(ops, op, ledger, live) /\ HistoryOK(s, issued)
      /\ ledger \in [Docs -> Seq(Revision)] /\ s \in Seq(Revision)
      /\ op.revision \in 1..Len(s) /\ op.expected \in Nat /\ TargetsOK
  BY <1>1 DEF Inv, StructureOK, OpOK, LedgerOK, Op
<1>3. /\ old \in Revision /\ old.text \subseteq issued /\ old.text \in Text
      /\ Len(s) \in Nat
  BY <1>2, HistoryTexts
<1>4. /\ r \in Revision /\ r.batch = 0 /\ r.text = old.text /\ r.kind = "restore"
  <2>1. \A x \in Revision : \A p \in Nat :
            [x EXCEPT !.kind = "restore", !.parent = p, !.batch = 0] \in Revision
    BY Zenon DEF Revision
  <2>2. r \in Revision
    BY <1>2, <1>3, <2>1
  <2> QED
    BY <1>3, <2>2 DEF Revision
<1> HIDE DEF r
<1>5. /\ ledger' \in [Docs -> Seq(Revision)] /\ ledger'[d] = Append(s, r)
      /\ Continues(s, ledger'[d]) /\ Len(ledger'[d]) = n /\ ledger'[d][n] = r
      /\ \A i \in 1..Len(s) : ledger'[d][i] = s[i]
      /\ \A e \in Docs : e # d => ledger'[e] = ledger[e]
      /\ n \in 1..Len(ledger'[d]) /\ n \in Nat
  BY <1>1, <1>2, <1>4, AppendContinues
<1>6. Unsaved(ledger, ledger')
  <2>1. ASSUME NEW e \in Docs, e # d
        PROVE  Continues(ledger[e], ledger'[e]) /\ Len(ledger'[e]) = Len(ledger[e])
    BY <1>2, <1>5, <2>1, UnchangedContinues DEF LedgerOK
  <2>2. ASSUME NEW i \in 1..Len(ledger'[d])
        PROVE  \/ i <= Len(s)
               \/ /\ ledger'[d][i].batch = 0
                  /\ \E j \in 1..Len(s) : ledger'[d][i].text = s[j].text
    <3>1. i <= Len(s) \/ i = n
      BY <1>3, <1>5
    <3> QED
      BY <1>2, <1>4, <1>5, <3>1
  <2>3. ASSUME NEW e \in Docs, e # d, NEW i \in 1..Len(ledger'[e])
        PROVE  i <= Len(ledger[e])
    BY <2>1, <2>3
  <2>4. ASSUME NEW e \in Docs
        PROVE  /\ Continues(ledger[e], ledger'[e])
               /\ \A i \in 1..Len(ledger'[e]) :
                      \/ i <= Len(ledger[e])
                      \/ /\ ledger'[e][i].batch = 0
                         /\ \E j \in 1..Len(ledger[e]) : ledger'[e][i].text = ledger[e][j].text
    <3>1. CASE e = d
      BY <1>5, <2>2, <3>1
    <3>2. CASE e # d
      BY <2>1, <2>3, <3>2
    <3> QED
      BY <3>1, <3>2
  <2> QED
    BY <2>4 DEF Unsaved
<1>7. LedgerOK'
  <2>1. HistoryOK(ledger'[d], issued)
    BY <1>2, <1>3, <1>4, <1>5, AppendHistory
  <2>2. live[d] # "absent"
    BY <1>2, <1>3 DEF LedgerOK
  <2>3. \A e \in Docs : HistoryOK(ledger'[e], issued)
    BY <1>2, <1>5, <2>1 DEF LedgerOK
  <2>4. \A e \in Docs : (live[e] = "absent") <=> (Len(ledger'[e]) = 0)
    BY <1>2, <1>3, <1>5, <2>2 DEF LedgerOK
  <2> QED
    BY <1>1, <1>2, <1>5, <2>3, <2>4 DEF LedgerOK
<1>8. rows \in [Docs -> Nat] /\ RowsOK(rows, ledger')
  <2>1. RowsOK(Rows, ledger)
    BY <1>2, RowsOfLedger
  <2> QED
    BY <1>2, <1>3, <1>5, <2>1 DEF RowsOK
<1> HIDE DEF rows
<1>9. /\ op' \in Op /\ op'.kind = "restore" /\ op'.doc = d /\ op'.rows = rows
      /\ op'.phase = "loading" /\ op'.revision = op.revision
  BY <1>1, <1>2, <1>8, OpLoads, Zenon
<1>10. OpOK(op', ledger', live')
  BY <1>2, <1>3, <1>5, <1>8, <1>9 DEF OpOK
<1>11. OpsOK(ops, op', ledger', live')
  <2>1. ASSUME NEW i \in 1..Len(ops)
        PROVE  /\ ops[i].kind = "create" => live[ops[i].doc] = "absent"
               /\ ops[i].kind = "restore" => ops[i].revision \in 1..Len(ledger'[ops[i].doc])
    <3>1. ops \in Seq(Asked)
      BY <1>2 DEF OpsOK
    <3>2. ops[i] \in Asked
      BY <3>1, ElementOfSeq
    <3>3. ops[i].doc \in Docs
      BY <3>2 DEF Asked
    <3>4. /\ ops[i].kind = "create" => live[ops[i].doc] = "absent"
          /\ ops[i].kind = "restore" => ops[i].revision \in 1..Len(ledger[ops[i].doc])
      BY <1>2 DEF OpsOK
    <3>5. Continues(ledger[ops[i].doc], ledger'[ops[i].doc])
      BY <1>6, <3>3 DEF Unsaved
    <3> QED
      BY <3>4, <3>5 DEF Continues
  <2> QED
    BY <1>1, <1>2, <1>9, <2>1 DEF OpsOK
<1>12. StructureOK'
  BY <1>1, <1>9, <1>10, <1>11 DEF StructureOK
<1>13. t \in Target /\ t # NoTarget
  BY <1>3, <1>5, ConstantsAssumption DEF Target
<1>14. TargetOK(t, ledger'[d])
  <2>1. HistoryOK(ledger'[d], issued)
    BY <1>1, <1>2, <1>7 DEF LedgerOK
  <2>2. OnLine(ledger'[d], n, 0, n)
    BY <1>2, <1>5, <2>1, OnLineHere
  <2>3. t.base = n /\ t.current = n /\ t.next = 0 /\ t.text = old.text
    OBVIOUS
  <2> QED
    BY <1>4, <1>5, <1>13, <2>2, <2>3 DEF TargetOK
<1>15. /\ targets'[d] = t /\ targets' \in [Docs -> Target \cup {NoTarget}]
       /\ \A e \in Docs : e # d => targets'[e] = targets[e]
  BY <1>1, <1>2, <1>13 DEF TargetsOK
<1> HIDE DEF t
<1>16. TargetsOK'
  BY <1>2, <1>5, <1>14, <1>15 DEF TargetsOK
<1>17. SavingsOK'
  <2>1. ASSUME saving # NoSave
        PROVE  SavingOK(saving, saves[1], ledger'[saves[1].doc], targets'[saves[1].doc], accepted)
    <3>1. /\ SavingOK(saving, saves[1], ledger[saves[1].doc], targets[saves[1].doc], accepted)
          /\ saves # <<>> /\ saves[1].doc \in Docs
      BY <2>1, FirstSave DEF Inv, SavingsOK
    <3>2. CASE saves[1].doc # d
      BY <1>5, <1>15, <3>1, <3>2
    <3>3. CASE saves[1].doc = d
      <4>1. Len(ledger'[d]) > Len(s)
        BY <1>3, <1>5
      <4> QED
        <5>1. SavingOK(saving, saves[1], s, targets[d], accepted)
          BY <3>1, <3>3
        <5>2. SavingOK(saving, saves[1], ledger'[d], targets'[d], accepted)
          BY <1>5, <1>13, <1>15, <4>1, <5>1, SavingKept
        <5> QED
          BY <3>3, <5>2
    <3> QED
      BY <3>2, <3>3
  <2> QED
    BY <1>1, <2>1 DEF Inv, SavingsOK
<1>18. RowsOK(profile', ledger') /\ query' \in Query /\ RowsOK(query'.rows, ledger')
  <2>1. \A e \in Docs : Continues(ledger[e], ledger'[e])
    BY <1>6 DEF Unsaved
  <2> QED
    BY <1>1, <2>1, RowsKept DEF Inv, ProjectionOK
<1> QED
  BY <1>1, <1>6, <1>7, <1>12, <1>16, <1>17, <1>18, QuietStep

(* A reload that replaces all targets by what it read keeps the invariant. *)
LEMMA ReloadEndsStep ==
    ASSUME Inv, ReloadEnds
    PROVE  Inv'
<1>1. /\ profile' = op.rows
      /\ targets' = [d \in Docs |-> IF op.rows[d] # 0 /\ Reached(d)
                                    THEN Kept(d) ELSE NoTarget]
      /\ saving' = IF saving = NoSave THEN NoSave
                   ELSE [saving EXCEPT !.attached =
                            saving.attached /\ targets'[saves[1].doc] # NoTarget]
      /\ op' = Idle
      /\ UNCHANGED <<ledger, live, accepted, saves, ops, client, left, issued, requested,
                     crashes, acked>>
  BY DEF ReloadEnds, bounds
<1>2. /\ LedgerOK /\ TargetsOK /\ RowsOK(op.rows, ledger) /\ op \in Op
      /\ OpsOK(ops, op, ledger, live) /\ \A d \in Docs : Len(ledger[d]) \in Nat
  BY LenProperties DEF Inv, LedgerOK, StructureOK, OpOK
<1>3. ASSUME NEW d \in Docs
      PROVE  /\ targets'[d] \in Target \cup {NoTarget}
             /\ targets'[d] # NoTarget =>
                    /\ TargetOK(targets'[d], ledger[d])
                    /\ targets[d] # NoTarget => targets'[d] = targets[d]
  <2>1. CASE ~(op.rows[d] # 0 /\ Reached(d))
    BY <1>1, <2>1
  <2>2. CASE op.rows[d] # 0 /\ targets'[d] = Kept(d)
    <3>1. op.rows[d] \in 1..Len(ledger[d])
      BY <1>2, <2>2 DEF RowsOK
    <3>2. CASE targets[d] = NoTarget
      <4>1. targets'[d] = FreshTarget(d, op.rows[d])
        BY <2>2, <3>2 DEF Kept
      <4> QED
        BY <1>2, <3>1, <3>2, <4>1, FreshTargetOK
    <3>3. CASE targets[d] # NoTarget
      <4>1. targets'[d] = targets[d]
        BY <2>2, <3>3 DEF Kept
      <4> QED
        BY <1>2, <3>3, <4>1 DEF TargetsOK
    <3> QED
      BY <3>2, <3>3
  <2> QED
    BY <1>1, <2>1, <2>2
<1>4. TargetsOK'
  <2>1. targets' \in [Docs -> Target \cup {NoTarget}]
    BY <1>1, <1>3
  <2> QED
    BY <1>1, <1>3, <2>1 DEF TargetsOK
<1>5. SavingsOK'
  <2>1. ASSUME saving # NoSave
        PROVE  /\ saving' \in Saving
               /\ SavingOK(saving', saves[1], ledger[saves[1].doc], targets'[saves[1].doc],
                           accepted)
               /\ saves # <<>>
    <3>1. /\ SavingOK(saving, saves[1], ledger[saves[1].doc], targets[saves[1].doc], accepted)
          /\ saves # <<>> /\ saves[1].doc \in Docs /\ saving \in Saving
      BY <2>1, FirstSave DEF Inv, SavingsOK
    <3> DEFINE b == saving.attached /\ targets'[saves[1].doc] # NoTarget
    <3>2. saving' = [saving EXCEPT !.attached = b] /\ b \in BOOLEAN
      BY <1>1, <2>1
    <3>3. \A v \in Saving : \A x \in BOOLEAN : [v EXCEPT !.attached = x] \in Saving
      BY Zenon DEF Saving
    <3>4. saving' \in Saving
      BY <3>1, <3>2, <3>3, Zenon
    <3>5. saving'.expected = saving.expected /\ saving'.text = saving.text
      BY <3>1, <3>2 DEF Saving
    <3>6. saving'.attached => saving.attached /\ targets'[saves[1].doc] # NoTarget
      <4>1. saving'.attached = b
        BY <3>1, <3>2, Zenon DEF Saving
      <4> QED
        BY <4>1
    <3> HIDE DEF b
    <3>7. saving'.attached => targets'[saves[1].doc] = targets[saves[1].doc]
      BY <1>3, <3>1, <3>6 DEF SavingOK
    <3> QED
      BY <3>1, <3>4, <3>5, <3>6, <3>7 DEF SavingOK
  <2> QED
    BY <1>1, <2>1 DEF SavingsOK
<1>6. StructureOK'
  <2>1. OpOK(Idle, ledger, live) /\ Idle.kind = "none"
    BY <1>2, IdleOK
  <2> QED
    BY <1>1, <1>2, <2>1 DEF StructureOK, OpsOK
<1>7. query' \in Query /\ RowsOK(query'.rows, ledger)
  <2>1. CASE query' = query
    BY <2>1 DEF Inv, ProjectionOK
  <2>2. CASE query' # query
    <3> DEFINE docs == IF op.kind = "create" THEN query.docs \cup {op.doc} ELSE Docs
    <3>1. query' = [Quiet EXCEPT !.stage = "due", !.docs = docs]
      BY <2>2 DEF ReloadEnds
    <3>2. docs \in SUBSET Docs
      <4>1. query.docs \in SUBSET Docs /\ (op.kind = "create" => op.doc \in Docs)
        BY DEF Inv, ProjectionOK, Query, StructureOK, OpOK
      <4> QED
        BY <4>1
    <3> HIDE DEF docs
    <3>3. /\ query' = [stage |-> "due", rows |-> [d \in Docs |-> 0], docs |-> docs]
      BY <3>1 DEF Quiet
    <3>4. query' \in Query
      BY <3>2, <3>3 DEF Query
    <3>5. query'.rows = [d \in Docs |-> 0]
      BY <3>3
    <3> QED
      BY <1>2, <3>4, <3>5 DEF RowsOK
  <2> QED
    BY <2>1, <2>2
<1>8. LedgerOK' /\ Unsaved(ledger, ledger')
  BY <1>1, <1>2, UnchangedUnsaved DEF LedgerOK
<1>9. RowsOK(profile', ledger') /\ query' \in Query /\ RowsOK(query'.rows, ledger')
  BY <1>1, <1>2, <1>7
<1> QED
  BY <1>1, <1>4, <1>5, <1>6, <1>8, <1>9, QuietStep

-----------------------------------------------------------------------------
(* The projection of the renderer, and restarts.                           *)

(* Reading the profile for a projection keeps the invariant.               *)
LEMMA QueryProfileStep ==
    ASSUME Inv, QueryProfile
    PROVE  Inv'
<1>1. /\ query' = [query EXCEPT !.stage = "read", !.rows = profile]
      /\ UNCHANGED <<ledger, live, targets, profile, accepted, saves, saving, ops, op,
                     client, left, issued, requested, crashes, acked>>
  BY DEF QueryProfile, mainVars, bounds
<1>2. /\ query \in Query /\ RowsOK(profile, ledger) /\ profile \in [Docs -> Nat] /\ LedgerOK
  BY DEF Inv, ProjectionOK, RowsOK
<1>3. \A q \in Query : \A rows \in [Docs -> Nat] :
          [q EXCEPT !.stage = "read", !.rows = rows] \in Query
  BY Zenon DEF Query
<1>4. query' \in Query
  BY <1>1, <1>2, <1>3
<1>5. query'.rows = profile
  BY <1>1, <1>2 DEF Query
<1>6. Unsaved(ledger, ledger')
  BY <1>1, <1>2, UnchangedUnsaved
<1>7. LedgerOK' /\ TargetsOK' /\ SavingsOK' /\ StructureOK'
  BY <1>1 DEF Inv, LedgerOK, TargetsOK, SavingsOK, StructureOK
<1> QED
  BY <1>1, <1>2, <1>4, <1>5, <1>6, <1>7, QuietStep

(* Installing a projection keeps the invariant: a queue that is replaced   *)
(* takes its unsent edits with it.                                         *)
LEMMA InstallStep ==
    ASSUME Inv, InstallProjection
    PROVE  Inv'
<1>1. /\ query' = Quiet
      /\ UNCHANGED <<ledger, live, targets, profile, accepted, saves, saving, ops, op,
                     issued, requested, crashes, acked>>
  BY DEF InstallProjection, mainVars, bounds
<1>2. /\ query \in Query /\ RowsOK(query.rows, ledger) /\ LedgerOK /\ TargetsOK
      /\ \A d \in Docs : Len(ledger[d]) \in Nat
  BY LenProperties DEF Inv, ProjectionOK, LedgerOK
<1>3. /\ client \in [Docs -> Client]
      /\ \A d \in Docs : client[d].doc = d /\ GoodQueue(client[d], ledger)
      /\ \A q \in left : GoodQueue(q, ledger) /\ q.unsent # 0
      /\ \A q \in left : \A d \in Docs : q.unsent # client[d].unsent
      /\ \A q, r \in left : q.unsent = r.unsent => q = r
      /\ \A d, e \in Docs : client[d].unsent # 0 /\ client[d].unsent = client[e].unsent
                                => d = e
  BY DEF Inv, ClientsOK
<1> DEFINE known == {d \in Docs : targets[d] # NoTarget}
           New(d) == IF d \in known THEN Replace(d, query.rows[d]) ELSE FirstQueue(d, 0)
<1>4. PICK R \in SUBSET Docs :
          /\ client' = [d \in Docs |-> IF d \notin R THEN client[d] ELSE New(d)]
          /\ left' = left \cup {q \in {client[d] : d \in R} : GoesOn(q)}
          /\ \A d \in R : d \in known => query.rows[d] # 0
  <2> DEFINE listed == {d \in Docs : query.rows[d] # 0}
             usable == IF query.docs = Docs
                       THEN known = listed \/ known = {}
                       ELSE query.docs \subseteq known \cap listed
             R == IF usable THEN query.docs ELSE {}
  <2>1. R \in SUBSET Docs
    BY <1>2 DEF Query
  <2>2. /\ client' = [d \in Docs |-> IF d \notin R THEN client[d] ELSE New(d)]
        /\ left' = left \cup {q \in {client[d] : d \in R} : GoesOn(q)}
    BY DEF InstallProjection
  <2>3. \A d \in R : d \in known => query.rows[d] # 0
    OBVIOUS
  <2> HIDE DEF R, New, known
  <2> QED
    BY <2>1, <2>2, <2>3
<1>5. ASSUME NEW d \in R
      PROVE  /\ GoodQueue(New(d), ledger) /\ New(d).flight = NoFlight /\ New(d).unsent = 0
             /\ New(d).doc = d
  <2>1. CASE d \in known
    <3> DEFINE row == query.rows[d]
               t == targets[d]
               s == ledger[d]
               text == ShownText(d, row)
    <3>1. /\ d \in Docs /\ row \in 1..Len(s) /\ row \in 0..Len(s) /\ Len(s) \in Nat
          /\ TargetOK(t, s) /\ HistoryOK(s, issued)
      BY <1>2, <1>4, <2>1 DEF RowsOK, TargetsOK, LedgerOK
    <3>2. /\ t \in Target /\ t.current \in 1..Len(s) /\ t.text = s[t.current].text
          /\ OnLine(s, t.base, t.next, t.current)
      BY <3>1 DEF TargetOK
    <3>3. t.next \in Nat /\ t.base \in Nat
      BY <3>2 DEF Target
    <3>4. text \in Text
      <4>1. s[row].text \in Text
        BY <3>1, HistoryTexts
      <4>2. /\ client[d].text \in Text /\ client[d].unsent \in {0} \cup Batches
            /\ client[d].flight \in Command \cup {NoFlight}
        BY <1>3, <3>1, QueueFields DEF GoodQueue
      <4>3. client[d].flight # NoFlight => client[d].flight.text \in Text
        BY <4>2 DEF Command
      <4>4. EditorText(client[d]) \in Text
        BY <4>2, <4>3 DEF EditorText, Text
      <4> QED
        BY <4>1, <4>4 DEF ShownText, TextOf
    <3>5. PICK fitted \in BOOLEAN : fitted = (t.base = row /\ t.text = text)
      OBVIOUS
    <3>6. New(d) = RegisterDocument(d, row, t.next, text, fitted)
      BY <2>1, <3>5 DEF Replace
    <3> HIDE DEF row, text, t, New
    <3>7. fitted /\ row # 0 => /\ row = Len(s) => text = s[row].text
                               /\ InTune(s, row, t.next, text)
      <4> SUFFICES ASSUME t.base = row, t.text = text
                   PROVE  /\ row = Len(s) => text = s[row].text
                          /\ InTune(s, row, t.next, text)
        BY <3>5
      <4>1. row = Len(s) => t.current = row
        BY <3>1, <3>2 DEF OnLine
      <4> QED
        BY <3>2, <4>1 DEF InTune
    <3> QED
      BY <1>2, <3>1, <3>3, <3>4, <3>6, <3>7, RegisteredOK
  <2>2. CASE d \notin known
    <3>1. New(d) = FirstQueue(d, 0) /\ d \in Docs /\ 0 \in 0..Len(ledger[d])
      BY <1>2, <1>4, <2>2
    <3> HIDE DEF New
    <3> QED
      BY <1>2, <3>1, FirstQueueOK
  <2> QED
    BY <2>1, <2>2
<1> HIDE DEF New
<1>6. ASSUME NEW d \in Docs
      PROVE  /\ client'[d] \in Client /\ client'[d].doc = d /\ GoodQueue(client'[d], ledger)
             /\ client'[d].flight \in {client[d].flight, NoFlight}
             /\ client'[d].unsent \in {client[d].unsent, 0}
             /\ d \in R => client'[d].unsent = 0
  <2>1. CASE d \in R
    BY <1>4, <1>5, <2>1 DEF GoodQueue
  <2>2. CASE d \notin R
    BY <1>3, <1>4, <2>2
  <2> QED
    BY <2>1, <2>2
<1>7. client' \in [Docs -> Client]
  BY <1>4, <1>6
<1>8. \A q \in left' : q \in left \/ \E d \in R : q = client[d] /\ q.unsent # 0
  BY <1>4 DEF GoesOn
<1>9. \A q \in left' : GoodQueue(q, ledger) /\ q.unsent # 0
  BY <1>3, <1>8
<1>10. \A q \in left' : \A d \in Docs : q.unsent # client'[d].unsent
  <2> SUFFICES ASSUME NEW q \in left', NEW d \in Docs PROVE q.unsent # client'[d].unsent
    OBVIOUS
  <2>1. CASE q \in left
    BY <1>3, <1>6, <2>1
  <2>2. CASE \E e \in R : q = client[e] /\ q.unsent # 0
    BY <1>3, <1>6, <2>2
  <2> QED
    BY <1>8, <2>1, <2>2
<1>11. \A q, r \in left' : q.unsent = r.unsent => q = r
  BY <1>3, <1>8
<1>12. \A d, e \in Docs : client'[d].unsent # 0 /\ client'[d].unsent = client'[e].unsent
                             => d = e
  BY <1>3, <1>6
<1>13. ClientsOK'
  BY <1>1, <1>6, <1>7, <1>9, <1>10, <1>11, <1>12 DEF ClientsOK
<1>14. Pending' \subseteq Pending
  BY <1>1, <1>6 DEF Pending
<1>15. CommandsOK'
  BY <1>1, <1>14 DEF Inv, CommandsOK
<1>16. HeldOK'
  <2>1. Held' \subseteq Held
    <3> SUFFICES ASSUME NEW x \in Held' PROVE x \in Held
      OBVIOUS
    <3>1. CASE \E q \in left' : x = q.unsent /\ x # 0
      BY <1>8, <3>1 DEF Held
    <3>2. CASE \E d \in Docs : x = client'[d].unsent /\ x # 0
      BY <1>6, <3>2 DEF Held
    <3> QED
      BY <3>1, <3>2 DEF Held
  <2> QED
    BY <1>1, <1>14, <2>1 DEF Inv, HeldOK, Unused
<1>17. Quiet \in Query /\ RowsOK(Quiet.rows, ledger)
  <2>1. Quiet.rows = [d \in Docs |-> 0]
    BY DEF Quiet
  <2>2. Quiet \in Query
    BY DEF Quiet, Query
  <2> QED
    BY <1>2, <2>1, <2>2 DEF RowsOK
<1> QED
  BY <1>1, <1>13, <1>15, <1>16, <1>17 DEF Inv, LedgerOK, TargetsOK, AcceptedOK, SavingsOK,
      StructureOK, ProjectionOK, CountsOK

(* The targets of a runtime that has just opened.                          *)
LEMMA OpenedTargets ==
    ASSUME LedgerOK, NEW t,
           t = [d \in Docs |-> IF Rows[d] # 0 THEN FreshTarget(d, Rows[d]) ELSE NoTarget]
    PROVE  /\ t \in [Docs -> Target \cup {NoTarget}]
           /\ \A d \in Docs : t[d] # NoTarget => TargetOK(t[d], ledger[d])
<1>1. \A d \in Docs : Rows[d] \in 0..Len(ledger[d]) /\ Len(ledger[d]) \in Nat
  BY RowsOfLedger, LenProperties DEF RowsOK, LedgerOK
<1>2. ASSUME NEW d \in Docs
      PROVE  /\ t[d] \in Target \cup {NoTarget}
             /\ t[d] # NoTarget => TargetOK(t[d], ledger[d])
  <2>1. CASE Rows[d] = 0
    BY <2>1
  <2>2. CASE Rows[d] # 0
    <3>1. Rows[d] \in 1..Len(ledger[d]) /\ t[d] = FreshTarget(d, Rows[d])
      BY <1>1, <2>2
    <3> QED
      BY <3>1, FreshTargetOK
  <2> QED
    BY <2>1, <2>2
<1> QED
  BY <1>2

(* The queue k of a document that waits for nothing.                       *)
Fresh(k, d, l) == /\ k \in Client /\ k.doc = d /\ GoodQueue(k, l)
                  /\ k.flight = NoFlight /\ k.unsent = 0

(* The queues of a window that has just opened.                            *)
LEMMA OpenedQueues ==
    ASSUME LedgerOK, NEW k, k = [d \in Docs |-> FirstQueue(d, Rows[d])]
    PROVE  /\ k \in [Docs -> Client]
           /\ \A d \in Docs : Fresh(k[d], d, ledger)
<1>1. \A d \in Docs : Rows[d] \in 0..Len(ledger[d])
  BY RowsOfLedger DEF RowsOK
<1>2. ASSUME NEW d \in Docs PROVE Fresh(k[d], d, ledger)
  <2>1. k[d] = FirstQueue(d, Rows[d])
    OBVIOUS
  <2> QED
    BY <1>1, <2>1, FirstQueueOK DEF GoodQueue, Fresh
<1>3. \A d \in Docs : k[d] \in Client
  BY <1>2 DEF Fresh
<1> QED
  BY <1>2, <1>3

(* A start from any good ledger establishes the invariant.                 *)
LEMMA StartedOK ==
    ASSUME LedgerOK, \A d \in Docs : Len(ledger[d]) \in Nat,
           targets = [d \in Docs |-> IF Rows[d] # 0 THEN FreshTarget(d, Rows[d]) ELSE NoTarget],
           client = [d \in Docs |-> FirstQueue(d, Rows[d])],
           profile = Rows, accepted = [b \in Batches |-> 0], saves = <<>>, saving = NoSave,
           ops = <<>>, op = Idle, query = Quiet, left = {},
           requested \in Nat, crashes \in Nat, acked \in SUBSET Batches
    PROVE  Inv
<1>1. /\ TargetsOK /\ client \in [Docs -> Client]
      /\ \A d \in Docs : /\ client[d].doc = d /\ GoodQueue(client[d], ledger)
                         /\ client[d].flight = NoFlight /\ client[d].unsent = 0
  <2>1. /\ targets \in [Docs -> Target \cup {NoTarget}]
        /\ \A d \in Docs : targets[d] # NoTarget => TargetOK(targets[d], ledger[d])
    BY OpenedTargets, Zenon
  <2>2. client \in [Docs -> Client] /\ \A d \in Docs : Fresh(client[d], d, ledger)
    BY OpenedQueues, Zenon
  <2> QED
    BY <2>1, <2>2 DEF TargetsOK, Fresh
<1>held. ClientsOK /\ Held = {}
  BY <1>1 DEF ClientsOK, Held
<1>2. AcceptedOK
  BY DEF AcceptedOK
<1>3. Pending = {}
  BY <1>1 DEF Pending
<1>4. CommandsOK
  BY <1>3 DEF CommandsOK
<1>5. SavingsOK
  BY DEF SavingsOK
<1>6. StructureOK
  <2>1. OpOK(Idle, ledger, live) /\ Idle.kind = "none"
    BY IdleOK
  <2>2. OpsOK(ops, op, ledger, live)
    BY DEF OpsOK
  <2> QED
    BY <2>1, <2>2 DEF StructureOK
<1>7. ProjectionOK
  <2>1. Quiet.rows = [d \in Docs |-> 0]
    BY DEF Quiet
  <2>2. Quiet \in Query
    BY DEF Quiet, Query
  <2>3. RowsOK(Quiet.rows, ledger)
    BY <2>1 DEF RowsOK
  <2> QED
    BY <2>2, <2>3, RowsOfLedger DEF ProjectionOK
<1> QED
  BY <1>1, <1>held, <1>2, <1>4, <1>5, <1>6, <1>7 DEF Inv, HeldOK, CountsOK

(* The first start establishes the invariant.                              *)
LEMMA InitialInv ==
    ASSUME Init
    PROVE  Inv
<1>1. /\ ledger = [d \in Docs |-> IF d \in InitialDocs THEN <<InitialRevision>> ELSE <<>>]
      /\ live = [d \in Docs |-> IF d \in InitialDocs THEN "live" ELSE "absent"]
      /\ issued = {}
  BY DEF Init
<1>2. /\ InitialRevision \in Revision /\ InitialRevision.batch = 0
      /\ InitialRevision.text = {}
  BY DEF InitialRevision, Revision, Text
<1>3. ASSUME NEW d \in Docs
      PROVE  /\ ledger[d] \in Seq(Revision) /\ HistoryOK(ledger[d], issued)
             /\ (live[d] = "absent") <=> (Len(ledger[d]) = 0)
             /\ Len(ledger[d]) \in Nat
             /\ Rows[d] = IF d \in InitialDocs THEN 1 ELSE 0
  <2>1. CASE d \in InitialDocs
    <3>1. ledger[d] = <<InitialRevision>> /\ live[d] = "live"
      BY <1>1, <2>1
    <3>2. ledger[d] \in Seq(Revision) /\ Len(ledger[d]) = 1 /\ ledger[d][1] = InitialRevision
      BY <1>2, <3>1
    <3>3. HistoryOK(ledger[d], issued)
      BY <1>1, <3>1, FirstHistory
    <3> QED
      BY <2>1, <3>1, <3>2, <3>3 DEF Rows, Current
  <2>2. CASE d \notin InitialDocs
    <3>1. ledger[d] = <<>> /\ live[d] = "absent"
      BY <1>1, <2>2
    <3>2. ledger[d] \in Seq(Revision) /\ Len(ledger[d]) = 0
      BY <3>1
    <3> QED
      BY <2>2, <3>1, <3>2 DEF Rows, HistoryOK
  <2> QED
    BY <2>1, <2>2
<1>4. LedgerOK
  <2>1. /\ ledger \in [Docs -> Seq(Revision)]
        /\ live \in [Docs -> {"absent", "live", "retired"}]
    <3>1. ledger = [d \in Docs |-> ledger[d]]
      BY <1>1
    <3> QED
      BY <1>1, <1>3, <3>1
  <2> QED
    BY <1>1, <1>3, <2>1 DEF LedgerOK
<1>5. targets = [d \in Docs |-> IF Rows[d] # 0 THEN FreshTarget(d, Rows[d]) ELSE NoTarget]
  <2>1. targets = [d \in Docs |-> IF d \in InitialDocs THEN FreshTarget(d, 1) ELSE NoTarget]
    BY DEF Init
  <2> QED
    BY <1>3, <2>1
<1>6. /\ client = [d \in Docs |-> FirstQueue(d, Rows[d])]
      /\ profile = Rows /\ accepted = [b \in Batches |-> 0] /\ saves = <<>>
      /\ saving = NoSave /\ ops = <<>> /\ op = Idle /\ query = Quiet /\ left = {}
      /\ requested \in Nat /\ crashes \in Nat /\ acked \in SUBSET Batches
  BY DEF Init
<1> QED
  BY <1>3, <1>4, <1>5, <1>6, StartedOK

(* A crash loses everything but the ledger, which is enough to start from. *)
LEMMA CrashStep ==
    ASSUME Inv, Crash
    PROVE  Inv'
<1>1. /\ UNCHANGED <<ledger, live, issued, requested, acked>> /\ crashes' = crashes + 1
      /\ targets' = [d \in Docs |-> IF Rows[d] # 0 THEN FreshTarget(d, Rows[d]) ELSE NoTarget]
      /\ client' = [d \in Docs |-> FirstQueue(d, Rows[d])]
      /\ profile' = Rows /\ accepted' = [b \in Batches |-> 0] /\ saves' = <<>>
      /\ saving' = NoSave /\ ops' = <<>> /\ op' = Idle /\ query' = Quiet
      /\ left' = {}
  BY DEF Crash, Opened
<1>2. /\ LedgerOK /\ \A d \in Docs : Len(ledger[d]) \in Nat
      /\ requested \in Nat /\ crashes \in Nat /\ acked \in SUBSET Batches
  BY LenProperties DEF Inv, LedgerOK, CountsOK
<1>3. /\ targets' \in [Docs -> Target \cup {NoTarget}]
      /\ \A d \in Docs : targets'[d] # NoTarget => TargetOK(targets'[d], ledger[d])
  BY <1>1, <1>2, OpenedTargets, Zenon
<1>3a. client' \in [Docs -> Client] /\ \A d \in Docs : Fresh(client'[d], d, ledger)
  BY <1>1, <1>2, OpenedQueues, Zenon
<1>4. LedgerOK' /\ TargetsOK' /\ ClientsOK' /\ Held' = {}
  BY <1>1, <1>2, <1>3, <1>3a DEF LedgerOK, TargetsOK, ClientsOK, Held, Fresh
<1>5. AcceptedOK' /\ SavingsOK'
  BY <1>1 DEF AcceptedOK, SavingsOK
<1>6. Pending' = {}
  BY <1>1, <1>3a DEF Pending, Fresh
<1>7. CommandsOK'
  BY <1>1, <1>6 DEF CommandsOK
<1>8. StructureOK'
  <2>1. OpOK(Idle, ledger, live) /\ Idle.kind = "none"
    BY <1>2, IdleOK
  <2>2. OpsOK(<<>>, Idle, ledger, live)
    BY DEF OpsOK
  <2> QED
    BY <1>1, <2>1, <2>2 DEF StructureOK
<1>9. ProjectionOK'
  <2>1. Quiet.rows = [d \in Docs |-> 0]
    BY DEF Quiet
  <2>2. Quiet \in Query
    BY DEF Quiet, Query
  <2>3. RowsOK(Quiet.rows, ledger)
    BY <1>2, <2>1 DEF RowsOK
  <2> QED
    BY <1>1, <1>2, <2>2, <2>3, RowsOfLedger DEF ProjectionOK
<1> QED
  BY <1>1, <1>2, <1>4, <1>5, <1>7, <1>8, <1>9 DEF Inv, HeldOK, CountsOK

-----------------------------------------------------------------------------
(* Theorems.                                                               *)

(* Every step keeps the invariant.                                         *)
LEMMA NextInv ==
    ASSUME Inv, [Next]_vars
    PROVE  Inv'
<1>1. CASE UNCHANGED vars
  <2>1. UNCHANGED <<ledger, live, targets, profile, accepted, saves, saving, ops, op,
                    client, left, query, issued, requested, crashes, acked>>
    BY <1>1 DEF vars, mainVars, bounds
  <2>2. Pending' = Pending /\ Held' = Held
    BY <2>1 DEF Pending, Held
  <2> QED
    BY <2>1, <2>2 DEF Inv, HeldOK, LedgerOK, TargetsOK, AcceptedOK, ClientsOK, CommandsOK, SavingsOK,
        StructureOK, ProjectionOK, CountsOK
<1>2. CASE Renderer
  BY <1>2, EditStep, SendsStep, ResendStep, RequestStep DEF Renderer
<1>3. CASE SaveStep
  BY <1>3, UnstoredStep, SaveBeginsStep, SaveCommitsStep DEF SaveStep
<1>4. CASE OpBegins
  BY <1>4, OpBeginsStep
<1>5. CASE OpStep
  BY <1>5, MovesOn, RetireStep, CreateCommitsStep, RestoreCommitsStep, ReloadEndsStep
     DEF OpStep
<1>6. CASE SendLeft \/ QueryProfile \/ InstallProjection \/ Crash
  BY <1>6, SendLeftStep, QueryProfileStep, InstallStep, CrashStep
<1> QED
  BY <1>1, <1>2, <1>3, <1>4, <1>5, <1>6 DEF Next

(* The invariant holds always.                                             *)
THEOREM Invariance == Spec => []Inv
<1>1. Init => Inv
  BY InitialInv
<1>2. Inv /\ [Next]_vars => Inv'
  BY NextInv
<1> QED
  BY <1>1, <1>2, PTL DEF Spec

(* Every variable of the runtime keeps the shape the code gives it, for    *)
(* any number of documents, saves, commands and restarts.                  *)
THEOREM TypeCorrect == Spec => []TypeOK
<1>1. Inv => TypeOK
  <2> SUFFICES ASSUME Inv PROVE TypeOK
    OBVIOUS
  <2>1. /\ ledger \in [Docs -> Seq(Revision)] /\ issued \subseteq Batches
        /\ live \in [Docs -> {"absent", "live", "retired"}]
        /\ targets \in [Docs -> Target \cup {NoTarget}]
        /\ accepted \in [Batches -> Nat] /\ saves \in Seq(Command)
        /\ saving \in Saving \cup {NoSave} /\ client \in [Docs -> Client]
        /\ left \subseteq Client
    BY DEF Inv, LedgerOK, TargetsOK, AcceptedOK, CommandsOK, SavingsOK, ClientsOK,
        GoodQueue
  <2>2. /\ ops \in Seq(Asked) /\ op \in Op /\ query \in Query /\ profile \in [Docs -> Nat]
        /\ requested \in Nat /\ crashes \in Nat /\ acked \in SUBSET Batches
    BY DEF Inv, StructureOK, OpOK, OpsOK, ProjectionOK, RowsOK, CountsOK
  <2> QED
    BY <2>1, <2>2 DEF TypeOK, Asked
<1> QED
  BY <1>1, Invariance, PTL

(* The target a save is checked against holds the text of the revision it  *)
(* calls current, through every reload, restore and restart.               *)
THEOREM TargetsAreRevisions == Spec => []TargetIsItsRevision
<1>1. Inv => TargetIsItsRevision
  <2> SUFFICES ASSUME Inv, NEW d \in Docs, targets[d] # NoTarget
               PROVE  /\ targets[d].current \in DOMAIN ledger[d]
                      /\ targets[d].text = TextOf(d, targets[d].current)
                      /\ targets[d].base <= targets[d].current
    BY DEF TargetIsItsRevision
  <2>1. TargetOK(targets[d], ledger[d]) /\ ledger[d] \in Seq(Revision)
    BY DEF Inv, TargetsOK, LedgerOK
  <2>2. DOMAIN ledger[d] = 1..Len(ledger[d])
    BY <2>1, LenProperties
  <2> QED
    BY <2>1, <2>2 DEF TargetOK, OnLine, TextOf
<1> QED
  BY <1>1, Invariance, PTL

(* What a settling save does when the ledger already has its batch.        *)
LEMMA ReceiptStep ==
    ASSUME Inv, Next, saves # <<>>, saves[1].kind = "text", SaveSettles,
           NEW i \in DOMAIN ledger[saves[1].doc],
           ledger[saves[1].doc][i].batch = saves[1].batch
    PROVE  UNCHANGED ledger /\ (SameEditorState(saves[1]) => Received(saves[1], i))
<1> DEFINE c == saves[1]
<1>1. /\ c \in Pending /\ c.doc \in Docs /\ CommandOK(c, ledger, accepted, issued)
      /\ Len(saves) \in Nat /\ Len(saves) > 0 /\ Len(Tail(saves)) = Len(saves) - 1
      /\ saves \in Seq(Command)
  BY FirstSave DEF Inv, CommandsOK
<1>2. i \in 1..Len(ledger[c.doc]) /\ i # 0
  BY <1>1, LenProperties DEF Inv, LedgerOK
<1>3. accepted[c.batch] = i
  BY <1>1, <1>2 DEF CommandOK, StoredOK
<1>4. saving # NoSave => FALSE
  BY <1>2, <1>3 DEF Inv, SavingsOK, SavingOK
<1>5. /\ Len(saves') = Len(saves) - 1 /\ crashes' = crashes
  BY <1>1 DEF SaveSettles, bounds
<1>6. CASE SaveRepeated
  BY <1>3, <1>6 DEF SaveRepeated
<1>7. CASE SaveRefused
  BY <1>2, <1>3, <1>7 DEF SaveRefused, Repeated
<1>8. CASE SaveCommits \/ SaveFails
  BY <1>4, <1>8 DEF SaveCommits, SaveFails
<1>9. ASSUME saves' = saves PROVE FALSE
  BY <1>1, <1>5, <1>9
<1>10. ASSUME NEW e \in Command, saves' = Append(saves, e) PROVE FALSE
  <2>1. Len(saves') = Len(saves) + 1
    BY <1>1, <1>10, AppendProperties
  <2> QED
    BY <1>1, <1>5, <2>1
<1>11. CASE Renderer
  <2>1. PICK d \in Docs : Edit(d) \/ SendText(d) \/ SendFormatting(d) \/ Resend(d)
                          \/ RequestSome(d)
    BY <1>11 DEF Renderer
  <2>2. CASE Edit(d) \/ RequestSome(d)
    BY <1>9, <2>2 DEF Edit, RequestSome, Request, mainVars
  <2>3. CASE SendText(d) \/ SendFormatting(d) \/ Resend(d)
    <3>1. \E e : saves' = Append(saves, e)
      BY <2>3 DEF SendText, SendFormatting, Send, Resend
    <3>2. PICK e : saves' = Append(saves, e)
      BY <3>1
    <3>3. saves' \in Seq(Command)
      BY NextInv DEF Inv, CommandsOK
    <3>4. Len(Append(saves, e)) = Len(saves) + 1
      OBVIOUS
    <3> QED
      BY <1>1, <1>5, <3>2, <3>4
  <2> QED
    BY <2>1, <2>2, <2>3
<1>12. CASE SendLeft
  <2>1. PICK q \in left : saves' = Append(saves, TextSave(q))
    BY <1>12 DEF SendLeft
  <2>2. Len(Append(saves, TextSave(q))) = Len(saves) + 1
    OBVIOUS
  <2> QED
    BY <1>1, <1>5, <2>1, <2>2
<1>13. CASE SaveBegins \/ OpBegins \/ QueryProfile \/ InstallProjection
  BY <1>9, <1>13 DEF SaveBegins, OpBegins, QueryProfile, InstallProjection, mainVars
<1>14. CASE OpStep
  BY <1>9, <1>14 DEF OpStep, Activate, RetireDocument, CreatePublishes, CreateCommits,
      RestoreBegins, RestorePublishes, RestoreCommits, OpFails, ReloadEnds
<1>15. CASE Crash
  <2>1. crashes' = crashes + 1 /\ crashes \in Nat
    BY <1>15 DEF Crash, Inv, CountsOK
  <2> QED
    BY <1>5, <2>1
<1> QED
  BY <1>6, <1>7, <1>8, <1>11, <1>12, <1>13, <1>14, <1>15 DEF Next, SaveStep

(* A stored text save whose receipt was lost, sent again, is answered with *)
(* the revision it was stored as, and is stored no second time; with an    *)
(* editor state in another order of keys it is refused (18975-18987).      *)
THEOREM LostReceiptsAreRepeated == Spec => LostReceiptIsRepeated
<1>1. Inv /\ [Next]_vars =>
          [saves # <<>> /\ saves[1].kind = "text" /\ SaveSettles =>
               \A i \in DOMAIN ledger[saves[1].doc] :
                   ledger[saves[1].doc][i].batch = saves[1].batch =>
                       /\ UNCHANGED ledger
                       /\ SameEditorState(saves[1]) => Received(saves[1], i)]_vars
  BY ReceiptStep
<1> QED
  BY <1>1, Invariance, PTL DEF Spec, LostReceiptIsRepeated

-----------------------------------------------------------------------------
(* The histories.                                                          *)

(* Appending a saved revision extends one abstract history.                *)
LEMMA Extended ==
    ASSUME NEW d \in Docs, ledger \in [Docs -> Seq(Revision)], NEW r \in Revision,
           NEW kinds, r.kind \in kinds, NEW batches, r.batch \in batches,
           r.parent = Len(ledger[d]), r.fitted => r.editorText = r.text,
           ledger' = [ledger EXCEPT ![d] = Append(ledger[d], r)]
    PROVE  History!Extend(d, kinds, r.text, batches)
<1> DEFINE e == [kind |-> r.kind, parent |-> r.parent, batch |-> r.batch, text |-> r.text,
                 editorText |-> r.editorText, fitted |-> r.fitted]
<1>1. r = e
  BY Zenon DEF Revision
<1>2. r.editorText \in SUBSET Batches
  BY DEF Revision, Text
<1>3. r.fitted \in BOOLEAN
  BY Zenon DEF Revision
<1>4. e \in [kind : kinds, parent : {Len(ledger[d])}, batch : batches,
             text : {r.text}, editorText : SUBSET Batches, fitted : BOOLEAN]
  <2>1. r.parent \in {Len(ledger[d])} /\ r.text \in {r.text}
    OBVIOUS
  <2> QED
    BY <1>2, <1>3, <2>1, Zenon
<1> HIDE DEF e
<1>5. r \in [kind : kinds, parent : {Len(ledger[d])}, batch : batches,
             text : {r.text}, editorText : SUBSET Batches, fitted : BOOLEAN]
  BY <1>1, <1>4, Zenon
<1> QED
  BY <1>5, Zenon DEF History!Extend

(* The commit of a save is one step of DocumentHistory.                    *)
LEMMA SaveIsOne ==
    ASSUME Inv, SaveCommits
    PROVE  History!Next
<1> DEFINE c == saves[1]
           d == c.doc
           s == ledger[d]
           b == IF c.kind = "text" THEN c.batch ELSE 0
           r == [kind |-> c.kind, parent |-> saving.expected, batch |-> b,
                 text |-> saving.text, editorText |-> c.text, fitted |-> c.fitted]
<1>1. /\ saving # NoSave /\ Len(s) = saving.expected
      /\ ledger' = [ledger EXCEPT ![d] = Append(s, r)]
      /\ Received(c, Len(s) + 1) \/ Failed(c)
  BY DEF SaveCommits, Expected, Current, AppendRevision
<1>2. /\ saves # <<>> /\ c \in Pending /\ c \in Command /\ d \in Docs
      /\ CommandOK(c, ledger, accepted, issued)
  BY <1>1, FirstSave DEF Inv, SavingsOK
<1>3. /\ ledger \in [Docs -> Seq(Revision)] /\ s \in Seq(Revision) /\ Len(s) \in Nat
      /\ SavingOK(saving, c, s, targets[d], accepted) /\ saving \in Saving
  BY <1>1, <1>2, LenProperties DEF Inv, LedgerOK, SavingsOK
<1>4. /\ Len(s) \in 1..Len(s) /\ c.kind \in {"text", "formatting"}
      /\ c.kind = "text" => /\ accepted[c.batch] = 0
                            /\ saving.text = s[Len(s)].text \cup {c.batch}
      /\ c.kind = "formatting" => saving.text = s[Len(s)].text
  BY <1>1, <1>2, <1>3 DEF SavingOK, Command
<1>5. c.fitted => saving.text = c.text
  <2>1. CASE c.kind = "text"
    BY <1>3, <2>1 DEF SavingOK
  <2>2. CASE c.kind = "formatting"
    BY <1>1, <1>2, <1>3, <1>4, <2>2 DEF SavingOK, CommandOK
  <2> QED
    BY <1>4, <2>1, <2>2
<1>6. /\ c.text \in Text /\ c.batch \in Batches
      /\ c.kind = "text" => b = c.batch
      /\ c.kind = "formatting" => b = 0
  BY <1>2 DEF Command
<1> HIDE DEF b
<1>7. c.fitted \in BOOLEAN
  BY <1>2, Zenon DEF Command
<1>8. r \in Revision
  <2>1. saving.expected \in Nat /\ saving.text \in Text /\ b \in {0} \cup Batches
    BY <1>3, <1>4, <1>6 DEF Saving
  <2> QED
    BY <1>4, <1>6, <1>7, <2>1, Zenon DEF Revision
<1>9. /\ r.kind = c.kind /\ r.text = saving.text /\ r.parent = Len(s) /\ r.batch = b
      /\ r.editorText = c.text
  BY <1>1
<1>10. r.fitted = c.fitted
  BY Zenon
<1> HIDE DEF r
<1>11. r.fitted => r.editorText = r.text
  BY <1>5, <1>9, <1>10
<1>12. History!Extend(d, {c.kind}, saving.text, {b})
  <2>1. r.kind \in {c.kind} /\ r.batch \in {b}
    BY <1>9
  <2>2. History!Extend(d, {c.kind}, r.text, {b})
    BY <1>1, <1>2, <1>3, <1>8, <1>9, <1>11, <2>1, Extended
  <2> QED
    BY <1>9, <2>2
<1>13. /\ acked' \in {acked, acked \cup {c.batch}}
       /\ c.kind = "formatting" => acked' = acked
  BY <1>1 DEF Received, Failed
<1>14. s # <<>> /\ History!Latest(d) = s[Len(s)]
  BY <1>3, <1>4, EmptySeq DEF History!Latest
<1>15. CASE c.kind = "text"
  <2>1. StoredOK(c, ledger, accepted)
    BY <1>2, <1>15 DEF CommandOK
  <2>2. ASSUME NEW f \in Docs, History!Stored(f, c.batch) PROVE FALSE
    <3>1. PICK i \in DOMAIN ledger[f] : c.batch \in ledger[f][i].text
      BY <2>2 DEF History!Stored
    <3>2. i \in 1..Len(ledger[f])
      BY <1>3, LenProperties
    <3> QED
      BY <1>4, <1>15, <2>1, <3>1, <3>2 DEF StoredOK
  <2>3. History!Extend(d, {"text"}, History!Latest(d).text \cup {c.batch}, {c.batch})
    BY <1>4, <1>6, <1>12, <1>14, <1>15
  <2>4. History!Save(d, c.batch)
    BY <1>13, <1>14, <2>2, <2>3 DEF History!Save
  <2> QED
    BY <1>2, <1>6, <2>4 DEF History!Next
<1>16. CASE c.kind = "formatting"
  <2>1. History!Extend(d, {"formatting"}, History!Latest(d).text, {0})
    BY <1>4, <1>6, <1>12, <1>14, <1>16
  <2>2. History!Format(d)
    BY <1>13, <1>14, <1>16, <2>1 DEF History!Format
  <2> QED
    BY <1>2, <2>2 DEF History!Next
<1> QED
  BY <1>4, <1>15, <1>16

(* A repeated receipt is an acknowledgement of DocumentHistory, or         *)
(* nothing.                                                                *)
LEMMA RepeatIsOne ==
    ASSUME Inv, SaveRepeated
    PROVE  [History!Next]_(History!vars)
<1> DEFINE c == saves[1]
           r == accepted[c.batch]
<1>1. /\ saves # <<>> /\ c.kind = "text" /\ r # 0 /\ Received(c, r) /\ ledger' = ledger
  BY DEF SaveRepeated, Repeated
<1>2. /\ c \in Pending /\ c.doc \in Docs /\ CommandOK(c, ledger, accepted, issued)
      /\ c.batch \in Batches
  BY <1>1, FirstSave DEF Inv
<1>3. StoredOK(c, ledger, accepted)
  BY <1>1, <1>2 DEF CommandOK
<1>4. r \in 1..Len(ledger[c.doc]) /\ c.batch \in ledger[c.doc][r].text
  BY <1>1, <1>3 DEF StoredOK
<1>5. DOMAIN ledger[c.doc] = 1..Len(ledger[c.doc])
  BY <1>2, LenProperties DEF Inv, LedgerOK
<1>6. History!Stored(c.doc, c.batch)
  BY <1>4, <1>5 DEF History!Stored
<1>7. CASE acked' = acked
  BY <1>1, <1>7 DEF History!vars
<1>8. CASE acked' = acked \cup {c.batch}
  <2>1. History!Acknowledge(c.batch)
    BY <1>1, <1>2, <1>6, <1>8 DEF History!Acknowledge
  <2> QED
    BY <1>2, <2>1 DEF History!Next
<1> QED
  BY <1>1, <1>7, <1>8 DEF Received

(* The creation of a document is one step of DocumentHistory.              *)
LEMMA CreateIsOne ==
    ASSUME Inv, CreateCommits
    PROVE  History!Next
<1> DEFINE d == op.doc
<1>1. /\ op.kind = "create" /\ op.phase = "publishing" /\ acked' = acked
      /\ ledger' = [ledger EXCEPT ![d] = <<InitialRevision>>]
  BY DEF CreateCommits
<1>2. d \in Docs /\ live[d] = "absent"
  BY <1>1 DEF Inv, StructureOK, OpOK
<1>3. ledger[d] = <<>>
  BY <1>2, EmptySeq DEF Inv, LedgerOK
<1>4. InitialRevision \in [kind : {"create"}, parent : {0}, batch : {0},
                           text : {{}}, editorText : {{}}, fitted : {TRUE}]
  BY Zenon DEF InitialRevision
<1>5. History!Open(d)
  BY <1>1, <1>3, <1>4 DEF History!Open
<1> QED
  BY <1>2, <1>5 DEF History!Next

(* A restore is one step of DocumentHistory.                               *)
LEMMA RestoreIsOne ==
    ASSUME Inv, RestoreCommits
    PROVE  History!Next
<1> DEFINE d == op.doc
           s == ledger[d]
           old == s[op.revision]
           r == [old EXCEPT !.kind = "restore", !.parent = Len(s), !.batch = 0]
<1>1. /\ op.kind = "restore" /\ Len(s) = op.expected /\ acked' = acked
      /\ ledger' = [ledger EXCEPT ![d] = Append(s, r)]
  BY DEF RestoreCommits, Expected, AppendRevision, Current
<1>2. /\ d \in Docs /\ op.revision \in 1..Len(s) /\ HistoryOK(s, issued)
  BY <1>1 DEF Inv, StructureOK, OpOK, LedgerOK
<1>3. op.revision \in DOMAIN s
  BY <1>2, LenProperties DEF HistoryOK
<1>4. History!Restore(d, op.revision)
  BY <1>1 DEF History!Restore
<1> QED
  BY <1>2, <1>3, <1>4 DEF History!Next

(* No other step changes what DocumentHistory sees.                        *)
LEMMA OtherStepsAreNone ==
    ASSUME Next, ~SaveRepeated, ~SaveCommits, ~CreateCommits, ~RestoreCommits
    PROVE  UNCHANGED <<ledger, acked>>
<1>1. CASE Renderer
  <2>1. PICK d \in Docs : Edit(d) \/ SendText(d) \/ SendFormatting(d) \/ Resend(d)
                          \/ RequestSome(d)
    BY <1>1 DEF Renderer
  <2> QED
    BY <2>1 DEF Edit, SendText, SendFormatting, Send, Resend, RequestSome, Request
<1>2. CASE SaveStep
  BY <1>2 DEF SaveStep, SaveRefused, SaveBegins, SaveFails, Failed
<1>3. CASE OpBegins
  BY <1>3 DEF OpBegins
<1>4. CASE OpStep
  BY <1>4 DEF OpStep, Activate, RetireDocument, CreatePublishes, RestoreBegins,
      RestorePublishes, OpFails, ReloadEnds
<1>5. CASE SendLeft \/ QueryProfile \/ InstallProjection \/ Crash
  BY <1>5 DEF SendLeft, QueryProfile, InstallProjection, Crash
<1> QED
  BY <1>1, <1>2, <1>3, <1>4, <1>5 DEF Next

(* The workspace keeps the histories of its documents: every edit is       *)
(* stored once, on top of the latest revision, before it is acknowledged,  *)
(* and nothing that was stored is ever changed.                            *)
THEOREM HistoriesAreKept == Spec => HistoryIsKept
<1>1. Init => History!Init
  <2> SUFFICES ASSUME Init PROVE History!Init
    OBVIOUS
  <2>1. ASSUME NEW d \in Docs
        PROVE  ledger[d] = <<>> \/ (Len(ledger[d]) = 1 /\ History!Latest(d).text = {})
    <3>1. ledger[d] = <<>> \/ ledger[d] = <<InitialRevision>>
      BY DEF Init
    <3>2. InitialRevision.text = {}
      BY DEF InitialRevision
    <3>3. Len(<<InitialRevision>>) = 1 /\ <<InitialRevision>>[1] = InitialRevision
      OBVIOUS
    <3>4. ASSUME ledger[d] = <<InitialRevision>>
          PROVE  Len(ledger[d]) = 1 /\ History!Latest(d) = InitialRevision
      BY <3>3, <3>4 DEF History!Latest
    <3> QED
      BY <3>1, <3>2, <3>4
  <2>2. acked = {}
    BY DEF Init
  <2> QED
    BY <2>1, <2>2 DEF History!Init
<1>2. Inv /\ [Next]_vars => [History!Next]_(History!vars)
  <2> SUFFICES ASSUME Inv, [Next]_vars PROVE [History!Next]_(History!vars)
    OBVIOUS
  <2>1. CASE SaveRepeated
    BY <2>1, RepeatIsOne
  <2>2. CASE SaveCommits \/ CreateCommits \/ RestoreCommits
    BY <2>2, SaveIsOne, CreateIsOne, RestoreIsOne
  <2>3. CASE UNCHANGED <<ledger, acked>>
    BY <2>3 DEF History!vars
  <2>4. CASE UNCHANGED vars
    BY <2>4 DEF vars, History!vars
  <2> QED
    BY <2>1, <2>2, <2>3, <2>4, OtherStepsAreNone
<1> QED
  BY <1>1, <1>2, Invariance, PTL DEF Spec, HistoryIsKept, History!Spec
=============================================================================
