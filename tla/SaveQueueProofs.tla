--------------------------- MODULE SaveQueueProofs ---------------------------
(***************************************************************************)
(* Proofs about SaveQueue for every set of characters and every policy.    *)
(*                                                                         *)
(* The inductive invariant has three parts: QueueOK, what the fields of    *)
(* the queue say of one another; Settled, what no operation of the queue   *)
(* may leave behind; and Accounts, what the queue owes to the editor's     *)
(* text and to the store.  Each operator of the queue gets one lemma that  *)
(* says it keeps them, so that an action's proof only cites the lemma of   *)
(* the operator it calls.                                                  *)
(***************************************************************************)
EXTENDS SaveQueue, TLAPS

FlightOK(f) ==
    /\ f.attempt = "answered" => f.stored
    /\ f.kind = "formatting" => f.change = NoChange
    /\ f.editorState # NoState

QueueOK(q) ==
    /\ q \in Queue
    /\ q.txns = 0 => q.composed = NoChange
    /\ q.txns > 0 => q.pendingState # NoState /\ q.pendingFormatting = NoState
    /\ q.composing => q.txns > 0
    /\ q.state = "saved" => /\ q.txns = 0
                            /\ q.inFlight = NoFlight
                            /\ q.pendingFormatting = NoState
    /\ q.inFlight # NoFlight => FlightOK(q.inFlight)

Settled(q) ==
    ~q.composing /\ q.inFlight = NoFlight =>
        /\ q.txns > 0 => q.timer \/ SequenceExhausted(q)
        /\ q.pendingFormatting = NoState

(* The text is the stored text, the unstored batch in flight and the       *)
(* accumulated changes, composed; inserted characters are fresh.           *)
TextOK(q, s, t, u) ==
    /\ t = ApplyChange(q.composed, Base(q, s))
    /\ Base(q, s) \subseteq u
    /\ q.composed.added \subseteq u
    /\ q.composed.added \cap Base(q, s) = {}

(* What is pending belongs to the text in the editor.                      *)
PendingFits(q, t) ==
    /\ q.txns > 0 => q.pendingState.text = t
    /\ q.pendingFormatting # NoState => q.pendingFormatting.text = t

(* What is sent, or would be sent now, fits the store.                     *)
FlightFits(q, s) ==
    /\ q.inFlight = NoFlight =>
           q.nextSequence = s.nextSequence /\ q.revision = s.revision
    /\ q.inFlight # NoFlight /\ ~q.inFlight.stored =>
           /\ q.nextSequence = s.nextSequence
           /\ q.revision = s.revision
           /\ q.inFlight.kind = "text" =>
                  q.inFlight.sequence = s.nextSequence
           /\ q.inFlight.kind = "formatting" =>
                  q.inFlight.expectedRevision = s.revision
           /\ q.inFlight.editorState.text = Base(q, s)
    /\ q.inFlight # NoFlight /\ q.inFlight.stored =>
           IF q.inFlight.kind = "text"
           THEN q.inFlight.sequence + 1 = s.nextSequence
           ELSE q.nextSequence = s.nextSequence

Accounts(q, s, t, u) ==
    TextOK(q, s, t, u) /\ PendingFits(q, t) /\ FlightFits(q, s)

Kept(q, s, t, u) == QueueOK(q) /\ Settled(q) /\ Accounts(q, s, t, u)

IInv ==
    /\ TypeOK
    /\ Kept(queue, store, text, used)
    /\ queue.composing => ime

(* Two queue states with the same work to send.                            *)
SameWork(q, r) ==
    /\ r.txns = q.txns
    /\ r.composed = q.composed
    /\ r.pendingState = q.pendingState
    /\ r.pendingFormatting = q.pendingFormatting
    /\ r.inFlight = q.inFlight
    /\ r.nextSequence = q.nextSequence
    /\ r.revision = q.revision

-----------------------------------------------------------------------------
(* Sending keeps a flight's batch and everything around it.                *)
LEMMA SendInFlightKeeps ==
    ASSUME NEW q, NEW s \in Store, NEW t, NEW u,
           QueueOK(q), Accounts(q, s, t, u), q.inFlight # NoFlight
    PROVE  /\ Kept(SendInFlight(q), s, t, u)
           /\ SendInFlight(q).composing = q.composing
<1> DEFINE r == SendInFlight(q)
<1>1. /\ r.inFlight = [q.inFlight EXCEPT !.attempt = "sent"]
      /\ r.state \in {"saving", "editing"}
      /\ r = [q EXCEPT !.inFlight = r.inFlight, !.state = r.state]
  BY DEF SendInFlight, QueueOK, Queue, Flight
<1>2. r.inFlight \in Flight /\ r.inFlight # NoFlight
  BY <1>1, ConstantsAssumption DEF QueueOK, Queue, Flight
<1>3. QueueOK(r)
  BY <1>1, <1>2 DEF QueueOK, Queue, FlightOK, Flight
<1>4. Base(r, s) = Base(q, s)
  BY <1>1, <1>2 DEF Base, QueueOK, Queue, Flight
<1>5. Accounts(r, s, t, u)
  BY <1>1, <1>2, <1>4 DEF Accounts, TextOK, PendingFits, FlightFits, QueueOK, Queue, Flight
<1>6. Settled(r)
  BY <1>2 DEF Settled
<1>7. r.composing = q.composing
  BY <1>1 DEF QueueOK, Queue
<1> QED BY <1>3, <1>5, <1>6, <1>7 DEF Kept

(* Draining the accumulated changes into a text batch (dispatch of a text  *)
(* batch in flush, 353-385) keeps the invariant: the batch now in flight   *)
(* owes the store exactly what the accumulator owed it.                    *)
LEMMA DispatchTextKeeps ==
    ASSUME NEW q, NEW s \in Store, NEW t \in SUBSET Chars, NEW u,
           QueueOK(q), Accounts(q, s, t, u),
           ~q.composing, q.inFlight = NoFlight, q.composed # NoChange
    PROVE  /\ Kept(DispatchText(q), s, t, u)
           /\ ~DispatchText(q).composing
<1> DEFINE f == [kind |-> "text",
                 change |-> q.composed,
                 editorState |-> q.pendingState,
                 sequence |-> q.nextSequence,
                 expectedRevision |-> 0,
                 attempt |-> "none",
                 stored |-> FALSE]
           r == [Drain(q) EXCEPT !.pendingState = NoState, !.inFlight = f]
<1>1. q.txns > 0 /\ q.pendingState \in EditorState /\ q.pendingFormatting = NoState
  BY DEF QueueOK, Queue
<1>2. f \in Flight /\ f # NoFlight
  <2>1. q.composed \in Change /\ q.nextSequence \in Nat
    BY DEF QueueOK, Queue
  <2>2. f \in Flight
    BY <1>1, <2>1 DEF Flight
  <2> QED BY <2>2, ConstantsAssumption
<1>3. /\ r \in Queue
      /\ r.txns = 0
      /\ r.composed = NoChange
      /\ r.inFlight = f
      /\ r.pendingFormatting = NoState
      /\ r.state = q.state
      /\ r.nextSequence = q.nextSequence
      /\ r.revision = q.revision
      /\ ~r.composing
  BY <1>1, <1>2 DEF QueueOK, Queue, Drain, NoChange, Change
<1>4. QueueOK(r)
  <2>1. FlightOK(f)
    BY <1>1, ConstantsAssumption DEF FlightOK
  <2>2. r.state # "saved"
    BY <1>1, <1>3 DEF QueueOK, Queue
  <2> QED BY <1>3, <2>1, <2>2 DEF QueueOK
<1>5. Accounts(r, s, t, u)
  <2>1. Base(r, s) = t
    BY <1>2, <1>3 DEF Accounts, TextOK, Base
  <2>2. TextOK(r, s, t, u)
    BY <1>3, <2>1 DEF Accounts, TextOK, ApplyChange, NoChange
  <2>3. PendingFits(r, t) /\ FlightFits(r, s)
    BY <1>1, <1>2, <1>3, <2>1 DEF Accounts, PendingFits, FlightFits
  <2> QED BY <2>2, <2>3 DEF Accounts
<1>6. DispatchText(q) = SendInFlight(r)
  BY DEF DispatchText
<1> HIDE DEF r, f
<1> QED BY <1>2, <1>3, <1>4, <1>5, <1>6, SendInFlightKeeps

(* Draining the pending formatting into a formatting command (flush,       *)
(* 386-396) keeps the invariant and names the current revision.            *)
LEMMA DispatchFormattingKeeps ==
    ASSUME NEW q, NEW s \in Store, NEW t \in SUBSET Chars, NEW u,
           QueueOK(q), Accounts(q, s, t, u),
           ~q.composing, q.inFlight = NoFlight,
           q.composed = NoChange, q.pendingFormatting # NoState
    PROVE  /\ Kept(DispatchFormatting(q), s, t, u)
           /\ ~DispatchFormatting(q).composing
<1> DEFINE f == [kind |-> "formatting",
                 change |-> NoChange,
                 editorState |-> q.pendingFormatting,
                 sequence |-> 0,
                 expectedRevision |-> q.revision,
                 attempt |-> "none",
                 stored |-> FALSE]
           r == [Drain(q) EXCEPT !.pendingFormatting = NoState, !.inFlight = f]
<1>1. q.txns = 0 /\ q.pendingFormatting \in EditorState
  BY DEF QueueOK, Queue
<1>2. f \in Flight /\ f # NoFlight
  <2>1. NoChange \in Change /\ q.revision \in Nat
    BY DEF QueueOK, Queue, NoChange, Change
  <2>2. f \in Flight
    BY <1>1, <2>1 DEF Flight
  <2> QED BY <2>2, ConstantsAssumption
<1>3. /\ r \in Queue
      /\ r.txns = 0
      /\ r.composed = NoChange
      /\ r.inFlight = f
      /\ r.pendingFormatting = NoState
      /\ r.state = q.state
      /\ r.nextSequence = q.nextSequence
      /\ r.revision = q.revision
      /\ ~r.composing
  BY <1>1, <1>2 DEF QueueOK, Queue, Drain, NoChange, Change
<1>4. QueueOK(r)
  <2>1. FlightOK(f)
    BY <1>1, ConstantsAssumption DEF FlightOK
  <2>2. r.state # "saved"
    BY <1>1, <1>3 DEF QueueOK, Queue
  <2> QED BY <1>3, <2>1, <2>2 DEF QueueOK
<1>5. Accounts(r, s, t, u)
  <2>1. s.text \in SUBSET Chars
    BY DEF Store
  <2>2. Base(r, s) = t /\ Base(q, s) = s.text /\ t = s.text
    BY <1>2, <1>3, <2>1
    DEF Accounts, TextOK, Base, ApplyChange, NoChange
  <2>3. TextOK(r, s, t, u)
    BY <1>3, <2>2 DEF Accounts, TextOK, ApplyChange, NoChange
  <2>4. PendingFits(r, t) /\ FlightFits(r, s)
    BY <1>1, <1>2, <1>3, <2>2 DEF Accounts, PendingFits, FlightFits
  <2> QED BY <2>3, <2>4 DEF Accounts
<1>6. DispatchFormatting(q) = SendInFlight(r)
  BY DEF DispatchFormatting
<1> HIDE DEF r, f
<1> QED BY <1>2, <1>3, <1>4, <1>5, <1>6, SendInFlightKeeps

(* Whatever the editor's timer, label and flags: the same work is owed.    *)
LEMMA SameWorkAccounts ==
    ASSUME NEW q, NEW r, NEW s, NEW t, NEW u,
           SameWork(q, r), Accounts(q, s, t, u)
    PROVE  Accounts(r, s, t, u)
BY DEF SameWork, Accounts, TextOK, PendingFits, FlightFits, Base

(* Cancelling the delayed flush (#cancelTimer) leaves the work untouched.  *)
LEMMA CancelTimerKeeps ==
    ASSUME NEW q, NEW s, NEW t, NEW u, QueueOK(q), Accounts(q, s, t, u)
    PROVE  /\ QueueOK(CancelTimer(q))
           /\ Accounts(CancelTimer(q), s, t, u)
           /\ SameWork(q, CancelTimer(q))
           /\ CancelTimer(q).composing = q.composing
<1> DEFINE r == CancelTimer(q)
<1>1. /\ SameWork(q, r)
      /\ r \in Queue
      /\ r.composing = q.composing
      /\ r.state = q.state
  BY DEF CancelTimer, SameWork, QueueOK, Queue
<1>2. QueueOK(r)
  BY <1>1 DEF SameWork, QueueOK
<1> QED BY <1>1, <1>2, SameWorkAccounts

(* Arming the delayed flush (#armTimer) settles a queue whose formatting is*)
(* not left behind.                                                        *)
LEMMA ArmTimerKeeps ==
    ASSUME NEW q, NEW s, NEW t, NEW u, QueueOK(q), Accounts(q, s, t, u),
           ~q.composing /\ q.inFlight = NoFlight =>
               q.pendingFormatting = NoState
    PROVE  /\ Kept(ArmTimer(q), s, t, u)
           /\ ArmTimer(q).composing = q.composing
<1> DEFINE r == ArmTimer(q)
<1>1. /\ SameWork(q, r)
      /\ r \in Queue
      /\ r.composing = q.composing
      /\ r.state = q.state
      /\ r.timer = (\/ q.timer
                    \/ ~q.composing /\ q.inFlight = NoFlight /\ q.txns > 0)
  BY DEF ArmTimer, SameWork, QueueOK, Queue
<1>2. QueueOK(r)
  BY <1>1 DEF SameWork, QueueOK
<1>3. Settled(r)
  BY <1>1 DEF SameWork, Settled
<1> QED BY <1>1, <1>2, <1>3, SameWorkAccounts DEF Kept

-----------------------------------------------------------------------------
(* flush                                                                   *)

(* A flush with a save in flight (326-341) keeps the invariant: it sends   *)
(* the same batch again or waits.                                          *)
LEMMA FlushInFlightKeeps ==
    ASSUME NEW q, NEW s \in Store, NEW t, NEW u,
           QueueOK(q), Accounts(q, s, t, u),
           ~q.composing, q.inFlight # NoFlight
    PROVE  /\ Kept(FlushInFlight(q), s, t, u)
           /\ ~FlushInFlight(q).composing
<1> DEFINE wanted == \/ q.flushRequested
                     \/ q.txns > 0
                     \/ q.pendingFormatting # NoState
           marked == [q EXCEPT !.flushRequested = wanted]
<1>1. /\ SameWork(q, marked)
      /\ marked \in Queue
      /\ marked.composing = q.composing
      /\ marked.state = q.state
  BY DEF SameWork, QueueOK, Queue
<1>2. QueueOK(marked)
  BY <1>1 DEF SameWork, QueueOK
<1>3. Accounts(marked, s, t, u)
  BY <1>1, SameWorkAccounts
<1>4. Settled(marked) /\ marked.inFlight # NoFlight
  BY <1>1 DEF Settled, SameWork
<1>5. FlushInFlight(q) \in {SendInFlight(marked), marked}
  BY DEF FlushInFlight
<1> HIDE DEF marked
<1> QED BY <1>1, <1>2, <1>3, <1>4, <1>5, SendInFlightKeeps DEF Kept

(* A flush with nothing in flight (342-401) keeps the invariant: it sends  *)
(* what is pending, refuses an exhausted sequence, or finds nothing to     *)
(* send.                                                                   *)
LEMMA FlushIdleKeeps ==
    ASSUME NEW q, NEW s \in Store, NEW t \in SUBSET Chars, NEW u,
           QueueOK(q), Accounts(q, s, t, u),
           ~q.composing, q.inFlight = NoFlight
    PROVE  /\ Kept(FlushIdle(q), s, t, u)
           /\ ~FlushIdle(q).composing
<1> DEFINE full == q.txns > 0 /\ SequenceExhausted(q)
<1>1. CASE full
  <2> DEFINE r == [q EXCEPT !.state = "failed"]
  <2>1. FlushIdle(q) = r
    BY <1>1 DEF FlushIdle
  <2>2. /\ SameWork(q, r)
        /\ r \in Queue
        /\ r.composing = q.composing
        /\ r.state = "failed"
    BY DEF SameWork, QueueOK, Queue
  <2>3. QueueOK(r) /\ Settled(r)
    BY <1>1, <2>2 DEF SameWork, QueueOK, Settled, SequenceExhausted
  <2> HIDE DEF r
  <2> QED BY <2>1, <2>2, <2>3, SameWorkAccounts DEF Kept
<1>2. CASE ~full /\ q.composed # NoChange
  BY <1>2, DispatchTextKeeps DEF FlushIdle
<1>3. CASE ~full /\ q.composed = NoChange /\ q.pendingFormatting # NoState
  BY <1>3, DispatchFormattingKeeps DEF FlushIdle
<1>4. CASE ~full /\ q.composed = NoChange /\ q.pendingFormatting = NoState
  <2> DEFINE r == [Drain(q) EXCEPT !.pendingFormatting = NoState,
                                   !.flushRequested = FALSE,
                                   !.state = "saved"]
  <2>1. FlushIdle(q) = r
    BY <1>4 DEF FlushIdle
  <2>2. /\ r \in Queue
        /\ r.txns = 0
        /\ r.composed = q.composed
        /\ r.pendingFormatting = NoState
        /\ r.inFlight = NoFlight
        /\ r.nextSequence = q.nextSequence
        /\ r.revision = q.revision
        /\ ~r.composing
    BY <1>4 DEF QueueOK, Queue, Drain, NoChange, Change
  <2>3. QueueOK(r) /\ Settled(r)
    BY <1>4, <2>2 DEF QueueOK, Settled
  <2>4. Accounts(r, s, t, u)
    BY <2>2 DEF Accounts, TextOK, PendingFits, FlightFits, Base
  <2> HIDE DEF r
  <2> QED BY <2>1, <2>2, <2>3, <2>4 DEF Kept
<1> QED BY <1>1, <1>2, <1>3, <1>4

(* Whatever the state of the queue, flush (319-401) keeps the invariant and*)
(* does not change whether a composition holds text.                       *)
LEMMA FlushKeeps ==
    ASSUME NEW q, NEW s \in Store, NEW t \in SUBSET Chars, NEW u,
           QueueOK(q), Accounts(q, s, t, u)
    PROVE  /\ Kept(Flush(q), s, t, u)
           /\ Flush(q).composing = q.composing
<1> DEFINE idle == CancelTimer(q)
<1>1. /\ QueueOK(idle)
      /\ Accounts(idle, s, t, u)
      /\ idle.composing = q.composing
      /\ idle.inFlight = q.inFlight
  BY CancelTimerKeeps DEF SameWork
<1>2. CASE q.composing
  <2> DEFINE r == [idle EXCEPT !.flushRequested = TRUE]
  <2>1. Flush(q) = r
    BY <1>2 DEF Flush
  <2>2. /\ SameWork(idle, r)
        /\ r \in Queue
        /\ r.composing = idle.composing
        /\ r.state = idle.state
    BY <1>1 DEF SameWork, QueueOK, Queue
  <2>3. QueueOK(r) /\ Settled(r)
    BY <1>1, <1>2, <2>2 DEF SameWork, QueueOK, Settled
  <2> HIDE DEF r
  <2> QED BY <1>1, <2>1, <2>2, <2>3, SameWorkAccounts DEF Kept
<1>3. CASE ~q.composing /\ q.inFlight # NoFlight
  <2>1. Flush(q) = FlushInFlight(idle)
    BY <1>3 DEF Flush
  <2> HIDE DEF idle
  <2>2. idle.composing \in BOOLEAN /\ q.composing \in BOOLEAN
    BY <1>1 DEF QueueOK, Queue
  <2>3. Kept(FlushInFlight(idle), s, t, u) /\ ~FlushInFlight(idle).composing
    BY <1>1, <1>3, FlushInFlightKeeps
  <2>4. FlushInFlight(idle).composing \in BOOLEAN
    BY <2>3 DEF Kept, QueueOK, Queue
  <2> QED BY <1>3, <2>1, <2>2, <2>3, <2>4
<1>4. CASE ~q.composing /\ q.inFlight = NoFlight
  <2>1. Flush(q) = FlushIdle(idle)
    BY <1>4 DEF Flush
  <2> HIDE DEF idle
  <2>2. idle.composing \in BOOLEAN /\ q.composing \in BOOLEAN
    BY <1>1 DEF QueueOK, Queue
  <2>3. Kept(FlushIdle(idle), s, t, u) /\ ~FlushIdle(idle).composing
    BY <1>1, <1>4, FlushIdleKeeps
  <2>4. FlushIdle(idle).composing \in BOOLEAN
    BY <2>3 DEF Kept, QueueOK, Queue
  <2> QED BY <1>4, <2>1, <2>2, <2>3, <2>4
<1> QED BY <1>2, <1>3, <1>4

-----------------------------------------------------------------------------
(* The text a transaction leaves: inserted characters are fresh, deleted   *)
(* ones are in the text.                                                   *)
LEMMA AppendInsertText ==
    ASSUME NEW q, NEW s \in Store, NEW t \in SUBSET Chars,
           NEW u \in SUBSET Chars, NEW c \in Chars \ u,
           QueueOK(q), Accounts(q, s, t, u)
    PROVE  /\ TextOK(AppendInsert(q, c), s, t \cup {c}, u \cup {c})
           /\ FlightFits(AppendInsert(q, c), s)
           /\ AppendInsert(q, c) \in Queue
           /\ AppendInsert(q, c).txns > 0
           /\ AppendInsert(q, c).inFlight = q.inFlight
<1> DEFINE r == AppendInsert(q, c)
<1>1. q.txns \in Nat /\ q.composed \in Change
  BY DEF QueueOK, Queue
<1>2. /\ r.txns = q.txns + 1
      /\ r.composed.added = q.composed.added \cup {c}
      /\ r.composed.removed = q.composed.removed
      /\ r.inFlight = q.inFlight
      /\ r.nextSequence = q.nextSequence
      /\ r.revision = q.revision
      /\ r \in Queue
  <2> DEFINE d == [removed |-> q.composed.removed,
                   added |-> q.composed.added \cup {c}]
  <2>1. d \in Change /\ q.txns + 1 \in Nat
    BY <1>1 DEF Change
  <2>2. [q.composed EXCEPT !.added = @ \cup {c}] = d
    BY <1>1 DEF Change
  <2>3. r = [q EXCEPT !.txns = q.txns + 1, !.composed = d]
    BY <2>2 DEF AppendInsert, QueueOK, Queue
  <2>4. d.removed = q.composed.removed /\ d.added = q.composed.added \cup {c}
    OBVIOUS
  <2> HIDE DEF d
  <2>5. /\ r.txns = q.txns + 1
        /\ r.composed = d
        /\ r.inFlight = q.inFlight
        /\ r.nextSequence = q.nextSequence
        /\ r.revision = q.revision
        /\ r \in Queue
    BY <2>1, <2>3 DEF QueueOK, Queue
  <2> QED BY <2>4, <2>5
<1>3. Base(r, s) = Base(q, s)
  BY <1>2 DEF Base
<1>4. c \notin Base(q, s)
  BY DEF Accounts, TextOK
<1> HIDE DEF r
<1>5. TextOK(r, s, t \cup {c}, u \cup {c})
  BY <1>2, <1>3, <1>4 DEF Accounts, TextOK, ApplyChange
<1>6. FlightFits(r, s)
  BY <1>2, <1>3 DEF Accounts, FlightFits
<1>7. r.txns > 0
  BY <1>1, <1>2
<1> QED BY <1>2, <1>5, <1>6, <1>7 DEF r

(* A deletion composed into the accumulated changes takes the character    *)
(* from the text they produce.                                             *)
LEMMA AppendDeleteText ==
    ASSUME NEW q, NEW s \in Store, NEW t \in SUBSET Chars,
           NEW u \in SUBSET Chars, NEW c \in t,
           QueueOK(q), Accounts(q, s, t, u)
    PROVE  /\ TextOK(AppendDelete(q, c), s, t \ {c}, u)
           /\ FlightFits(AppendDelete(q, c), s)
           /\ AppendDelete(q, c) \in Queue
           /\ AppendDelete(q, c).txns > 0
           /\ AppendDelete(q, c).inFlight = q.inFlight
<1> DEFINE r == AppendDelete(q, c)
<1>1. q.txns \in Nat /\ q.composed \in Change
  BY DEF QueueOK, Queue
<1>2. /\ r.txns = q.txns + 1
      /\ r.composed.added = q.composed.added \ {c}
      /\ r.composed.removed = IF c \in q.composed.added
                              THEN q.composed.removed
                              ELSE q.composed.removed \cup {c}
      /\ r.inFlight = q.inFlight
      /\ r.nextSequence = q.nextSequence
      /\ r.revision = q.revision
      /\ r \in Queue
  <2> DEFINE d == [removed |-> IF c \in q.composed.added
                               THEN q.composed.removed
                               ELSE q.composed.removed \cup {c},
                   added |-> q.composed.added \ {c}]
  <2>1. d \in Change /\ q.txns + 1 \in Nat
    BY <1>1 DEF Change
  <2>2. r = [q EXCEPT !.txns = q.txns + 1, !.composed = d]
    <3>1. CASE c \in q.composed.added
      <4>1. [q.composed EXCEPT !.added = @ \ {c}] = d
        BY <1>1, <3>1 DEF Change
      <4> QED BY <3>1, <4>1 DEF AppendDelete, QueueOK, Queue
    <3>2. CASE c \notin q.composed.added
      <4>1. [q.composed EXCEPT !.removed = @ \cup {c}] = d
        BY <1>1, <3>2 DEF Change
      <4> QED BY <3>2, <4>1 DEF AppendDelete, QueueOK, Queue
    <3> QED BY <3>1, <3>2
  <2>3. /\ d.removed = IF c \in q.composed.added
                       THEN q.composed.removed
                       ELSE q.composed.removed \cup {c}
        /\ d.added = q.composed.added \ {c}
    OBVIOUS
  <2> HIDE DEF d
  <2>4. /\ r.txns = q.txns + 1
        /\ r.composed = d
        /\ r.inFlight = q.inFlight
        /\ r.nextSequence = q.nextSequence
        /\ r.revision = q.revision
        /\ r \in Queue
    BY <2>1, <2>2 DEF QueueOK, Queue
  <2> QED BY <2>3, <2>4
<1>3. Base(r, s) = Base(q, s)
  BY <1>2 DEF Base
<1> HIDE DEF r
<1>4. TextOK(r, s, t \ {c}, u)
  <2>1. /\ t = ApplyChange(q.composed, Base(q, s))
        /\ Base(q, s) \subseteq u
        /\ q.composed.added \subseteq u
        /\ q.composed.added \cap Base(q, s) = {}
    BY DEF Accounts, TextOK
  <2>2. t \ {c} = ApplyChange(r.composed, Base(r, s))
    <3>1. CASE c \in q.composed.added
      BY <1>2, <1>3, <2>1, <3>1 DEF ApplyChange
    <3>2. CASE c \notin q.composed.added
      BY <1>2, <1>3, <2>1, <3>2 DEF ApplyChange
    <3> QED BY <3>1, <3>2
  <2> QED BY <1>2, <1>3, <2>1, <2>2 DEF TextOK
<1>5. FlightFits(r, s)
  BY <1>2, <1>3 DEF Accounts, FlightFits
<1>6. r.txns > 0
  BY <1>1, <1>2
<1> QED BY <1>2, <1>4, <1>5, <1>6 DEF r

(* Recording a transaction (record, 204-248) keeps the invariant when its  *)
(* editor state is the one of the text it leaves.                          *)
LEMMA RecordKeeps ==
    ASSUME NEW edited \in Queue, NEW e \in EditorState, NEW b \in BOOLEAN,
           NEW s \in Store, NEW t \in SUBSET Chars, NEW u,
           edited.txns > 0, e.text = t,
           edited.inFlight # NoFlight => FlightOK(edited.inFlight),
           TextOK(edited, s, t, u), FlightFits(edited, s)
    PROVE  /\ Kept(Record(edited, e, b), s, t, u)
           /\ Record(edited, e, b).composing = b
<1> DEFINE q == [edited EXCEPT !.pendingState = e,
                               !.pendingFormatting = NoState,
                               !.composing = b,
                               !.state = "editing"]
           full == q.txns >= MaxTxns
<1>1. /\ q \in Queue
      /\ q.txns = edited.txns
      /\ q.composed = edited.composed
      /\ q.pendingState = e
      /\ q.pendingFormatting = NoState
      /\ q.composing = b
      /\ q.state = "editing"
      /\ q.inFlight = edited.inFlight
      /\ q.nextSequence = edited.nextSequence
      /\ q.revision = edited.revision
  BY DEF Queue
<1>2. e # NoState
  BY ConstantsAssumption
<1>3. QueueOK(q)
  <2>1. edited.txns \in Nat
    BY DEF Queue
  <2> QED BY <1>1, <1>2, <2>1 DEF QueueOK
<1>4. Accounts(q, s, t, u)
  BY <1>1, <1>2 DEF Accounts, TextOK, PendingFits, FlightFits, Base
<1>5. Record(edited, e, b) =
          CASE b -> CancelTimer(q)
            [] ~b /\ q.inFlight # NoFlight ->
                   [q EXCEPT !.flushRequested = @ \/ full]
            [] ~b /\ q.inFlight = NoFlight /\ (q.flushRequested \/ full) ->
                   Flush([q EXCEPT !.flushRequested = FALSE])
            [] OTHER -> ArmTimer(q)
  BY DEF Record
<1> HIDE DEF q
<1>6. CASE b
  <2>1. Record(edited, e, b) = CancelTimer(q)
    BY <1>5, <1>6
  <2>2. Settled(CancelTimer(q))
    BY <1>1, <1>3, <1>4, <1>6, CancelTimerKeeps DEF Settled
  <2> QED BY <1>1, <1>3, <1>4, <2>1, <2>2, CancelTimerKeeps DEF Kept
<1>7. CASE ~b /\ q.inFlight # NoFlight
  <2> DEFINE r == [q EXCEPT !.flushRequested = @ \/ full]
  <2>1. Record(edited, e, b) = r
    BY <1>5, <1>7
  <2>2. /\ SameWork(q, r)
        /\ r \in Queue
        /\ r.composing = q.composing
        /\ r.state = q.state
    BY <1>1 DEF SameWork, Queue
  <2>3. QueueOK(r) /\ Settled(r)
    BY <1>3, <1>7, <2>2 DEF SameWork, QueueOK, Settled
  <2> HIDE DEF r
  <2> QED BY <1>1, <1>4, <2>1, <2>2, <2>3, SameWorkAccounts DEF Kept
<1>8. CASE ~b /\ q.inFlight = NoFlight /\ (q.flushRequested \/ full)
  <2> DEFINE r == [q EXCEPT !.flushRequested = FALSE]
  <2>1. Record(edited, e, b) = Flush(r)
    BY <1>5, <1>8
  <2>2. /\ SameWork(q, r)
        /\ r \in Queue
        /\ r.composing = q.composing
        /\ r.state = q.state
    BY <1>1 DEF SameWork, Queue
  <2>3. QueueOK(r)
    BY <1>3, <2>2 DEF SameWork, QueueOK
  <2> HIDE DEF r
  <2>4. Accounts(r, s, t, u)
    BY <1>4, <2>2, SameWorkAccounts
  <2> QED BY <1>1, <2>1, <2>2, <2>3, <2>4, FlushKeeps
<1>9. CASE ~b /\ q.inFlight = NoFlight /\ ~(q.flushRequested \/ full)
  <2>1. Record(edited, e, b) = ArmTimer(q)
    BY <1>5, <1>9
  <2> QED BY <1>1, <1>3, <1>4, <2>1, ArmTimerKeeps
<1> QED BY <1>6, <1>7, <1>8, <1>9

(* Recording a formatting change (recordFormatting, 250-271) keeps the     *)
(* invariant.                                                              *)
LEMMA RecordFormattingKeeps ==
    ASSUME NEW q, NEW e \in EditorState,
           NEW s \in Store, NEW t \in SUBSET Chars, NEW u,
           QueueOK(q), Accounts(q, s, t, u), e.text = t
    PROVE  /\ Kept(RecordFormatting(q, e), s, t, u)
           /\ RecordFormatting(q, e).composing = q.composing
<1> DEFINE onText == [q EXCEPT !.pendingState = e,
                               !.pendingFormatting = NoState,
                               !.state = "editing"]
           alone == [q EXCEPT !.pendingFormatting = e, !.state = "editing"]
           recorded == IF q.txns > 0 THEN onText ELSE alone
<1>1. e # NoState
  BY ConstantsAssumption
<1>2. /\ recorded \in Queue
      /\ recorded.txns = q.txns
      /\ recorded.composed = q.composed
      /\ recorded.composing = q.composing
      /\ recorded.state = "editing"
      /\ recorded.inFlight = q.inFlight
      /\ recorded.nextSequence = q.nextSequence
      /\ recorded.revision = q.revision
      /\ q.txns > 0 => /\ recorded.pendingState = e
                       /\ recorded.pendingFormatting = NoState
      /\ ~(q.txns > 0) => /\ recorded.pendingState = q.pendingState
                          /\ recorded.pendingFormatting = e
  <2>1. CASE q.txns > 0
    BY <2>1 DEF QueueOK, Queue
  <2>2. CASE ~(q.txns > 0)
    BY <2>2 DEF QueueOK, Queue
  <2> QED BY <2>1, <2>2
<1>3. RecordFormatting(q, e) = IF q.composing \/ q.inFlight # NoFlight
                               THEN recorded
                               ELSE Flush(recorded)
  BY DEF RecordFormatting
<1> HIDE DEF recorded
<1>4. QueueOK(recorded)
  BY <1>1, <1>2 DEF QueueOK
<1>5. Accounts(recorded, s, t, u)
  BY <1>2 DEF Accounts, TextOK, PendingFits, FlightFits, Base
<1>6. CASE q.composing \/ q.inFlight # NoFlight
  <2>1. Settled(recorded)
    BY <1>2, <1>6 DEF Settled
  <2> QED BY <1>2, <1>3, <1>4, <1>5, <1>6, <2>1 DEF Kept
<1>7. CASE ~(q.composing \/ q.inFlight # NoFlight)
  BY <1>2, <1>3, <1>4, <1>5, <1>7, FlushKeeps
<1> QED BY <1>6, <1>7

(* The end of a composition (compositionEnd, 273-298) keeps the invariant: *)
(* the text it held is sent or has a timer, and nothing is held any more.  *)
LEMMA CompositionEndKeeps ==
    ASSUME NEW q, NEW s \in Store, NEW t \in SUBSET Chars, NEW u,
           QueueOK(q), Accounts(q, s, t, u)
    PROVE  /\ Kept(CompositionEnd(q), s, t, u)
           /\ ~CompositionEnd(q).composing
<1> DEFINE ended == [q EXCEPT !.composing = FALSE]
           idle == \/ q.txns = 0 /\ q.pendingFormatting = NoState
                   \/ q.inFlight # NoFlight
           due == \/ q.flushRequested
                  \/ q.pendingFormatting # NoState
                  \/ q.txns >= MaxTxns
<1>1. /\ SameWork(q, ended)
      /\ ended \in Queue
      /\ ~ended.composing
      /\ ended.state = q.state
      /\ q.txns \in Nat
  BY DEF SameWork, QueueOK, Queue
<1>2. QueueOK(ended)
  BY <1>1 DEF SameWork, QueueOK
<1>3. Accounts(ended, s, t, u)
  BY <1>1, SameWorkAccounts
<1>4. CASE idle
  <2>1. CompositionEnd(q) = ended
    BY <1>4 DEF CompositionEnd
  <2>2. Settled(ended)
    BY <1>1, <1>4 DEF SameWork, Settled
  <2> QED BY <1>1, <1>2, <1>3, <2>1, <2>2 DEF Kept
<1>5. CASE ~idle /\ due
  <2> DEFINE r == [ended EXCEPT !.flushRequested = FALSE]
  <2>1. CompositionEnd(q) = Flush(r)
    BY <1>1, <1>5 DEF CompositionEnd
  <2>2. /\ SameWork(q, r)
        /\ r \in Queue
        /\ r.composing = FALSE
        /\ r.state = q.state
    BY DEF SameWork, QueueOK, Queue
  <2>3. QueueOK(r)
    BY <2>2 DEF SameWork, QueueOK
  <2> HIDE DEF r
  <2>4. Accounts(r, s, t, u)
    BY <2>2, SameWorkAccounts
  <2> QED BY <2>1, <2>2, <2>3, <2>4, FlushKeeps
<1>6. CASE ~idle /\ ~due
  <2>1. CompositionEnd(q) = ArmTimer(ended)
    BY <1>1, <1>6 DEF CompositionEnd
  <2>2. ended.pendingFormatting = NoState
    BY <1>1, <1>6 DEF SameWork
  <2> HIDE DEF ended
  <2> QED BY <1>1, <1>2, <1>3, <2>1, <2>2, ArmTimerKeeps
<1> QED BY <1>4, <1>5, <1>6

-----------------------------------------------------------------------------
(* receipts and failures                                                   *)

(* What follows a receipt (#continueAfterReceipt, 502-527) keeps the       *)
(* invariant: edits made meanwhile are sent or have a timer.               *)
LEMMA ContinueAfterReceiptKeeps ==
    ASSUME NEW q, NEW s \in Store, NEW t \in SUBSET Chars, NEW u,
           QueueOK(q), Accounts(q, s, t, u), q.inFlight = NoFlight
    PROVE  /\ Kept(ContinueAfterReceipt(q), s, t, u)
           /\ ContinueAfterReceipt(q).composing = q.composing
<1> DEFINE done == q.txns = 0 /\ q.pendingFormatting = NoState
           due == /\ ~q.composing
                  /\ \/ q.flushRequested
                     \/ q.pendingFormatting # NoState
                     \/ q.txns >= MaxTxns
<1>1. q.txns \in Nat
  BY DEF QueueOK, Queue
<1>2. CASE done
  <2> DEFINE r == [q EXCEPT !.flushRequested = FALSE, !.state = "saved"]
  <2>1. ContinueAfterReceipt(q) = r
    BY <1>2 DEF ContinueAfterReceipt
  <2>2. /\ SameWork(q, r)
        /\ r \in Queue
        /\ r.composing = q.composing
        /\ r.state = "saved"
    BY DEF SameWork, QueueOK, Queue
  <2>3. QueueOK(r) /\ Settled(r)
    BY <1>2, <2>2 DEF SameWork, QueueOK, Settled
  <2> HIDE DEF r
  <2> QED BY <2>1, <2>2, <2>3, SameWorkAccounts DEF Kept
<1>3. CASE ~done /\ due
  <2> DEFINE r == [q EXCEPT !.flushRequested = FALSE, !.state = "editing"]
  <2>1. ContinueAfterReceipt(q) = Flush(r)
    BY <1>1, <1>3 DEF ContinueAfterReceipt
  <2>2. /\ SameWork(q, r)
        /\ r \in Queue
        /\ r.composing = q.composing
        /\ r.state = "editing"
    BY DEF SameWork, QueueOK, Queue
  <2>3. QueueOK(r)
    BY <2>2 DEF SameWork, QueueOK
  <2> HIDE DEF r
  <2>4. Accounts(r, s, t, u)
    BY <2>2, SameWorkAccounts
  <2> QED BY <2>1, <2>2, <2>3, <2>4, FlushKeeps
<1>4. CASE ~done /\ ~due
  <2> DEFINE r == [q EXCEPT !.state = "editing"]
  <2>1. ContinueAfterReceipt(q) = ArmTimer(r)
    BY <1>1, <1>4 DEF ContinueAfterReceipt
  <2>2. /\ SameWork(q, r)
        /\ r \in Queue
        /\ r.composing = q.composing
        /\ r.state = "editing"
    BY DEF SameWork, QueueOK, Queue
  <2>3. QueueOK(r)
    BY <2>2 DEF SameWork, QueueOK
  <2>4. ~r.composing => r.pendingFormatting = NoState
    BY <1>4, <2>2 DEF SameWork
  <2> HIDE DEF r
  <2>5. Accounts(r, s, t, u)
    BY <2>2, SameWorkAccounts
  <2> QED BY <2>1, <2>2, <2>3, <2>4, <2>5, ArmTimerKeeps
<1> QED BY <1>2, <1>3, <1>4

(* A receipt (#acceptTextReceipt, #acceptFormattingReceipt) keeps the      *)
(* invariant: sequence and revision of the queue become those of the store.*)
LEMMA AcceptReceiptKeeps ==
    ASSUME NEW q, NEW s \in Store, NEW t \in SUBSET Chars, NEW u,
           QueueOK(q), Accounts(q, s, t, u),
           q.inFlight # NoFlight, q.inFlight.attempt = "answered"
    PROVE  /\ Kept(AcceptReceipt(q, s.revision), s, t, u)
           /\ AcceptReceipt(q, s.revision).composing = q.composing
<1> DEFINE n == IF q.inFlight.kind = "text"
                THEN q.inFlight.sequence + 1
                ELSE q.nextSequence
           r == [q EXCEPT !.nextSequence = n,
                          !.revision = s.revision,
                          !.inFlight = NoFlight]
<1>1. AcceptReceipt(q, s.revision) = ContinueAfterReceipt(r)
  BY DEF AcceptReceipt
<1>2. /\ n = s.nextSequence
      /\ q.inFlight.stored
      /\ s.nextSequence \in Nat
      /\ s.revision \in Nat
      /\ Base(q, s) = s.text
  BY DEF QueueOK, FlightOK, Accounts, FlightFits, Base, Store
<1> HIDE DEF n
<1>3. /\ r \in Queue
      /\ r.txns = q.txns
      /\ r.composed = q.composed
      /\ r.pendingState = q.pendingState
      /\ r.pendingFormatting = q.pendingFormatting
      /\ r.composing = q.composing
      /\ r.state = q.state
      /\ r.inFlight = NoFlight
      /\ r.nextSequence = s.nextSequence
      /\ r.revision = s.revision
  BY <1>2 DEF QueueOK, Queue
<1> HIDE DEF r
<1>4. QueueOK(r)
  BY <1>3 DEF QueueOK
<1>5. Base(r, s) = Base(q, s)
  BY <1>2, <1>3 DEF Base
<1>6. Accounts(r, s, t, u)
  BY <1>3, <1>5 DEF Accounts, TextOK, PendingFits, FlightFits
<1> QED BY <1>1, <1>3, <1>4, <1>6, ContinueAfterReceiptKeeps

(* A failed attempt (#sendInFlight, 430-449) keeps the invariant: its batch*)
(* stays in flight.                                                        *)
LEMMA AttemptFailedKeeps ==
    ASSUME NEW q, NEW s \in Store, NEW t, NEW u,
           QueueOK(q), Accounts(q, s, t, u), q.inFlight # NoFlight
    PROVE  /\ Kept(AttemptFailed(q), s, t, u)
           /\ AttemptFailed(q).composing = q.composing
<1> DEFINE r == AttemptFailed(q)
<1>1. /\ r.inFlight = [q.inFlight EXCEPT !.attempt = "none"]
      /\ r.state = "failed"
      /\ r = [q EXCEPT !.inFlight = r.inFlight, !.state = "failed"]
  BY DEF AttemptFailed, QueueOK, Queue, Flight
<1>2. r.inFlight \in Flight /\ r.inFlight # NoFlight
  BY <1>1, ConstantsAssumption DEF QueueOK, Queue, Flight
<1>3. QueueOK(r)
  BY <1>1, <1>2 DEF QueueOK, Queue, FlightOK, Flight
<1>4. Base(r, s) = Base(q, s)
  BY <1>1, <1>2 DEF Base, QueueOK, Queue, Flight
<1>5. Accounts(r, s, t, u)
  BY <1>1, <1>2, <1>4
  DEF Accounts, TextOK, PendingFits, FlightFits, QueueOK, Queue, Flight
<1>6. Settled(r)
  BY <1>2 DEF Settled
<1>7. r.composing = q.composing
  BY <1>1 DEF QueueOK, Queue
<1> QED BY <1>3, <1>5, <1>6, <1>7 DEF Kept

Answered(q) == [q EXCEPT !.inFlight.attempt = "answered",
                         !.inFlight.stored = TRUE]

(* The service stores the batch: the store takes over what the flight      *)
(* carried.                                                                *)
LEMMA StoringKeeps ==
    ASSUME NEW q, NEW s \in Store, NEW t \in SUBSET Chars, NEW u,
           NEW n \in Store,
           QueueOK(q), Accounts(q, s, t, u),
           q.inFlight # NoFlight, ~q.inFlight.stored,
           n.text = ApplyChange(q.inFlight.change, s.text),
           n.nextSequence = IF q.inFlight.kind = "text"
                            THEN s.nextSequence + 1
                            ELSE s.nextSequence
    PROVE  Kept(Answered(q), n, t, u) /\ Answered(q).composing = q.composing
<1> DEFINE r == Answered(q)
           f == [q.inFlight EXCEPT !.attempt = "answered", !.stored = TRUE]
<1>1. f \in Flight /\ f # NoFlight
  BY ConstantsAssumption DEF QueueOK, Queue, Flight
<1>2. /\ f.kind = q.inFlight.kind
      /\ f.change = q.inFlight.change
      /\ f.sequence = q.inFlight.sequence
      /\ f.editorState = q.inFlight.editorState
      /\ f.stored
  BY DEF QueueOK, Queue, Flight
<1>3. r = [q EXCEPT !.inFlight = f]
  BY DEF Answered, QueueOK, Queue, Flight
<1> HIDE DEF f
<1>4. /\ r \in Queue
      /\ r.inFlight = f
      /\ r.txns = q.txns
      /\ r.composed = q.composed
      /\ r.pendingState = q.pendingState
      /\ r.pendingFormatting = q.pendingFormatting
      /\ r.composing = q.composing
      /\ r.state = q.state
      /\ r.nextSequence = q.nextSequence
  BY <1>1, <1>3 DEF QueueOK, Queue
<1>5. QueueOK(r)
  BY <1>1, <1>2, <1>4 DEF QueueOK, FlightOK
<1>6. Base(r, n) = Base(q, s)
  BY <1>1, <1>2, <1>4 DEF Base
<1>7. Accounts(r, n, t, u)
  <2>1. TextOK(r, n, t, u) /\ PendingFits(r, t)
    BY <1>4, <1>6 DEF Accounts, TextOK, PendingFits
  <2>2. FlightFits(r, n)
    BY <1>1, <1>2, <1>4 DEF Accounts, FlightFits
  <2> QED BY <2>1, <2>2 DEF Accounts
<1>8. Settled(r)
  BY <1>1, <1>4 DEF Settled
<1> QED BY <1>4, <1>5, <1>7, <1>8 DEF Kept

-----------------------------------------------------------------------------
(* The invariant holds at the start and every action keeps it.             *)
LEMMA InitIInv == Init => IInv
<1> SUFFICES ASSUME Init PROVE IInv
  OBVIOUS
<1> DEFINE q == RegisterDocument
           s == [text |-> {}, format |-> 0, nextSequence |-> 0, revision |-> 0]
<1>1. /\ q \in Queue
      /\ q.txns = 0
      /\ q.composed = NoChange
      /\ ~q.composing
      /\ q.pendingState = NoState
      /\ q.pendingFormatting = NoState
      /\ q.inFlight = NoFlight
      /\ q.nextSequence = 0
      /\ q.revision = 0
  BY DEF RegisterDocument, Queue, NoChange, Change
<1>2. TypeOK /\ queue = q /\ store = s /\ text = {} /\ used = {}
  BY <1>1 DEF Init, TypeOK, Store
<1> HIDE DEF q
<1>3. QueueOK(q) /\ Settled(q)
  BY <1>1 DEF QueueOK, Settled
<1>4. Accounts(q, s, {}, {})
  BY <1>1 DEF Accounts, TextOK, PendingFits, FlightFits, Base, ApplyChange, NoChange
<1> QED BY <1>1, <1>2, <1>3, <1>4 DEF IInv, Kept

(* Every action of the specification keeps the invariant.                  *)
LEMMA NextIInv == IInv /\ [Next]_vars => IInv'
<1> SUFFICES ASSUME IInv, [Next]_vars PROVE IInv'
  OBVIOUS
<1>1. /\ TypeOK
      /\ QueueOK(queue)
      /\ Accounts(queue, store, text, used)
      /\ text \in SUBSET Chars
      /\ used \in SUBSET Chars
      /\ format \in Nat
      /\ ime \in BOOLEAN
      /\ store \in Store
      /\ queue.composing => ime
  BY DEF IInv, Kept, TypeOK
<1>2. ASSUME NEW c \in Chars, Insert(c) PROVE IInv'
  <2> DEFINE r == AppendInsert(queue, c)
             e == [text |-> text \cup {c}, format |-> format]
  <2>1. /\ c \notin used
        /\ text' = text \cup {c}
        /\ used' = used \cup {c}
        /\ format' = format /\ ime' = ime /\ store' = store
        /\ queue' = Record(r, e, ime)
    BY <1>2 DEF Insert
  <2>2. /\ text' \in SUBSET Chars
        /\ used' \in SUBSET Chars
        /\ e \in EditorState
        /\ e.text = text'
    BY <1>1, <2>1 DEF EditorState
  <2>3. /\ TextOK(r, store, text', used')
        /\ FlightFits(r, store)
        /\ r \in Queue
        /\ r.txns > 0
        /\ r.inFlight # NoFlight => FlightOK(r.inFlight)
    <3>1. c \in Chars \ used
      BY <2>1
    <3> QED BY <1>1, <2>1, <3>1, AppendInsertText DEF QueueOK
  <2> HIDE DEF r, e
  <2>4. Kept(queue', store, text', used') /\ queue'.composing = ime
    BY <1>1, <2>1, <2>2, <2>3, RecordKeeps
  <2> QED BY <1>1, <2>1, <2>2, <2>4 DEF IInv, Kept, QueueOK, TypeOK
<1>3. ASSUME NEW c \in Chars, Delete(c) PROVE IInv'
  <2> DEFINE r == AppendDelete(queue, c)
             e == [text |-> text \ {c}, format |-> format]
  <2>1. /\ c \in text
        /\ text' = text \ {c}
        /\ used' = used
        /\ format' = format /\ ime' = ime /\ store' = store
        /\ queue' = Record(r, e, ime)
    BY <1>3 DEF Delete
  <2>2. /\ text' \in SUBSET Chars
        /\ e \in EditorState
        /\ e.text = text'
    BY <1>1, <2>1 DEF EditorState
  <2>3. /\ TextOK(r, store, text', used')
        /\ FlightFits(r, store)
        /\ r \in Queue
        /\ r.txns > 0
        /\ r.inFlight # NoFlight => FlightOK(r.inFlight)
    BY <1>1, <2>1, AppendDeleteText DEF QueueOK
  <2> HIDE DEF r, e
  <2>4. Kept(queue', store, text', used') /\ queue'.composing = ime
    BY <1>1, <2>1, <2>2, <2>3, RecordKeeps
  <2> QED BY <1>1, <2>1, <2>2, <2>4 DEF IInv, Kept, QueueOK, TypeOK
<1>4. CASE ChangeFormatting
  <2> DEFINE e == [text |-> text, format |-> format + 1]
  <2>1. /\ queue' = RecordFormatting(queue, e)
        /\ format' = format + 1
        /\ text' = text /\ used' = used /\ ime' = ime /\ store' = store
    BY <1>4 DEF ChangeFormatting
  <2>2. e \in EditorState /\ e.text = text
    BY <1>1 DEF EditorState
  <2> HIDE DEF e
  <2>3. Kept(queue', store, text, used) /\ queue'.composing = queue.composing
    BY <1>1, <2>1, <2>2, RecordFormattingKeeps
  <2> QED BY <1>1, <2>1, <2>3 DEF IInv, Kept, QueueOK, TypeOK
<1>5. CASE StartComposition
  BY <1>1, <1>5 DEF StartComposition, IInv, Kept, TypeOK
<1>6. CASE EndComposition
  <2>1. Kept(CompositionEnd(queue), store, text, used)
        /\ ~CompositionEnd(queue).composing
    BY <1>1, CompositionEndKeeps
  <2> QED BY <1>1, <1>6, <2>1 DEF EndComposition, IInv, Kept, QueueOK, TypeOK
<1>7. CASE ExplicitFlush
  <2>1. Kept(Flush(queue), store, text, used)
        /\ Flush(queue).composing = queue.composing
    BY <1>1, FlushKeeps
  <2> QED BY <1>1, <1>7, <2>1 DEF ExplicitFlush, IInv, Kept, QueueOK, TypeOK
<1>8. CASE TimerFires
  <2> DEFINE r == CancelTimer(queue)
  <2>1. /\ QueueOK(r)
        /\ Accounts(r, store, text, used)
        /\ r.composing = queue.composing
    BY <1>1, CancelTimerKeeps
  <2>2. queue' = Flush(r)
    BY <1>8 DEF TimerFires
  <2> HIDE DEF r
  <2>3. Kept(queue', store, text, used) /\ queue'.composing = queue.composing
    BY <1>1, <2>1, <2>2, FlushKeeps
  <2> QED BY <1>1, <1>8, <2>3 DEF TimerFires, IInv, Kept, QueueOK, TypeOK
<1>9. CASE ServiceStores
  <2> DEFINE f == queue.inFlight
  <2>1. /\ f # NoFlight
        /\ ~f.stored
        /\ store'.text = ApplyChange(f.change, store.text)
        /\ store'.nextSequence = IF f.kind = "text"
                                 THEN store.nextSequence + 1
                                 ELSE store.nextSequence
        /\ queue' = Answered(queue)
        /\ text' = text /\ used' = used /\ format' = format /\ ime' = ime
    BY <1>9 DEF ServiceStores, Answered
  <2>2. f \in Flight /\ FlightOK(f)
    BY <1>1, <2>1 DEF QueueOK, Queue
  <2>3. f.change \in Change /\ f.editorState \in EditorState
    BY <2>2 DEF Flight
  <2>4. store' \in Store
    <3>1. ApplyChange(f.change, store.text) \in SUBSET Chars
      BY <1>1, <2>3 DEF ApplyChange, Change, Store
    <3>2. f.editorState.format \in Nat
      BY <2>3 DEF EditorState
    <3> QED BY <1>1, <1>9, <3>1, <3>2 DEF ServiceStores, Store
  <2>5. Kept(queue', store', text, used) /\ queue'.composing = queue.composing
    BY <1>1, <2>1, <2>4, StoringKeeps
  <2> QED BY <1>1, <2>1, <2>4, <2>5 DEF IInv, Kept, QueueOK, TypeOK
<1>10. CASE ServiceRepeatsReceipt
  <2> DEFINE r == [queue EXCEPT !.inFlight.attempt = "answered"]
             f == [queue.inFlight EXCEPT !.attempt = "answered"]
  <2>1. /\ queue.inFlight # NoFlight
        /\ queue.inFlight.stored
        /\ queue' = r
        /\ text' = text /\ used' = used /\ format' = format /\ ime' = ime
        /\ store' = store
    BY <1>10 DEF ServiceRepeatsReceipt
  <2>2. f \in Flight /\ f # NoFlight
    BY <1>1, <2>1, ConstantsAssumption DEF QueueOK, Queue, Flight
  <2>3. /\ f.kind = queue.inFlight.kind
        /\ f.change = queue.inFlight.change
        /\ f.sequence = queue.inFlight.sequence
        /\ f.editorState = queue.inFlight.editorState
        /\ f.stored
    BY <1>1, <2>1 DEF QueueOK, Queue, Flight
  <2>4. r = [queue EXCEPT !.inFlight = f]
    BY <1>1, <2>1 DEF QueueOK, Queue, Flight
  <2> HIDE DEF f
  <2>5. /\ r \in Queue
        /\ r.inFlight = f
        /\ r.txns = queue.txns
        /\ r.composed = queue.composed
        /\ r.pendingState = queue.pendingState
        /\ r.pendingFormatting = queue.pendingFormatting
        /\ r.composing = queue.composing
        /\ r.state = queue.state
        /\ r.nextSequence = queue.nextSequence
        /\ r.revision = queue.revision
    BY <1>1, <2>2, <2>4 DEF QueueOK, Queue
  <2> HIDE DEF r
  <2>6. QueueOK(r) /\ Settled(r)
    BY <1>1, <2>1, <2>2, <2>3, <2>5 DEF QueueOK, FlightOK, Settled
  <2>7. Base(r, store) = Base(queue, store)
    BY <2>1, <2>2, <2>3, <2>5 DEF Base
  <2>8. Accounts(r, store, text, used)
    BY <1>1, <2>1, <2>2, <2>3, <2>5, <2>7
    DEF Accounts, TextOK, PendingFits, FlightFits
  <2> QED BY <1>1, <2>1, <2>5, <2>6, <2>8 DEF IInv, Kept, TypeOK
<1>11. CASE ReceiptArrives
  <2>1. /\ Kept(AcceptReceipt(queue, store.revision), store, text, used)
        /\ AcceptReceipt(queue, store.revision).composing = queue.composing
    BY <1>1, <1>11, AcceptReceiptKeeps DEF ReceiptArrives
  <2> QED BY <1>1, <1>11, <2>1 DEF ReceiptArrives, IInv, Kept, QueueOK, TypeOK
<1>12. CASE AttemptFails
  <2>1. /\ Kept(AttemptFailed(queue), store, text, used)
        /\ AttemptFailed(queue).composing = queue.composing
    BY <1>1, <1>12, AttemptFailedKeeps DEF AttemptFails
  <2> QED BY <1>1, <1>12, <2>1 DEF AttemptFails, IInv, Kept, QueueOK, TypeOK
<1>13. CASE UNCHANGED vars
  BY <1>13 DEF vars, IInv, Kept, TypeOK
<1> QED
  BY <1>2, <1>3, <1>4, <1>5, <1>6, <1>7, <1>8, <1>9, <1>10, <1>11, <1>12, <1>13
  DEF Next, Edit

(* The invariant the other theorems follow from holds in every state.      *)
THEOREM Invariance == Spec => []IInv
BY InitIInv, NextIInv, PTL DEF Spec

-----------------------------------------------------------------------------
(* Every variable always has the shape the code gives it.                  *)
THEOREM TypeCorrect == Spec => []TypeOK
<1>1. IInv => TypeOK
  BY DEF IInv
<1> QED BY <1>1, Invariance, PTL

(* No edit is lost or applied twice between the editor and the store,      *)
(* whatever fails, is retried, or is typed while a save is in flight.      *)
THEOREM TextIsAccountedFor == Spec => []TextAccounted
<1>1. IInv => TextAccounted
  BY DEF IInv, Kept, Accounts, TextOK, TextAccounted
<1> QED BY <1>1, Invariance, PTL

(* "Saved" is shown only over text the service holds.                      *)
THEOREM SavedMeansDurableText == Spec => []SavedTextIsDurable
<1>1. IInv => SavedTextIsDurable
  BY DEF IInv, Kept, QueueOK, Accounts, TextOK, TypeOK, Store,
         SavedTextIsDurable, Base, ApplyChange, NoChange
<1> QED BY <1>1, Invariance, PTL

(* Whatever the queue sends, the service can accept.                       *)
THEOREM EverySentSaveIsAcceptable == Spec => []SentSavesAreAcceptable
<1>1. ASSUME IInv, queue.inFlight # NoFlight, ~queue.inFlight.stored
      PROVE  Acceptable(queue.inFlight) /\ queue.inFlight.editorState # NoState
  <2>1. /\ queue.inFlight \in Flight
        /\ FlightOK(queue.inFlight)
        /\ FlightFits(queue, store)
    BY <1>1 DEF IInv, Kept, QueueOK, Queue, Accounts
  <2>2. queue.inFlight.kind \in {"text", "formatting"}
    BY <2>1 DEF Flight
  <2> QED BY <1>1, <2>1, <2>2 DEF FlightOK, FlightFits, Acceptable, Base
<1>2. IInv => SentSavesAreAcceptable
  BY <1>1 DEF SentSavesAreAcceptable
<1> QED BY <1>2, Invariance, PTL

(* Recorded work always has something that will send it.                   *)
THEOREM NoWorkIsOrphaned == Spec => []NoOrphanedWork
<1>1. IInv => NoOrphanedWork
  BY DEF IInv, Kept, Settled, NoOrphanedWork
<1> QED BY <1>1, Invariance, PTL

(* Text is held back only for a composition that is going on.              *)
THEOREM OnlyCompositionsHoldText == Spec => []HeldTextIsComposed
<1>1. IInv => HeldTextIsComposed
  BY DEF IInv, Kept, QueueOK, HeldTextIsComposed
<1> QED BY <1>1, Invariance, PTL

-----------------------------------------------------------------------------
(* What is in flight stays in flight                                       *)

Busy(q) == q \in Queue /\ q.inFlight # NoFlight

Carries(q, r) == r.inFlight # NoFlight /\ Batch(r.inFlight) = Batch(q.inFlight)

(* Another attempt, whether it begins, ends or is answered, is one at the  *)
(* same batch.                                                             *)
LEMMA AttemptCarries ==
    ASSUME NEW q, NEW r, Busy(q), NEW a \in {"none", "sent", "answered"},
           NEW b \in BOOLEAN,
           r.inFlight = [q.inFlight EXCEPT !.attempt = a, !.stored = b]
    PROVE  Carries(q, r)
<1>1. r.inFlight \in Flight
  BY DEF Busy, Queue, Flight
<1>2. Batch(r.inFlight) = Batch(q.inFlight)
  BY DEF Busy, Queue, Flight, Batch
<1> QED BY <1>1, <1>2, ConstantsAssumption DEF Carries

(* flush (319-401) never drops or rebuilds what is in flight: it waits for *)
(* the attempt, or repeats one that failed.                                *)
LEMMA FlushCarries ==
    ASSUME NEW q, Busy(q)
    PROVE  Carries(q, Flush(q))
<1> DEFINE idle == CancelTimer(q)
           marked == [idle EXCEPT !.flushRequested =
                        @ \/ idle.txns > 0 \/ idle.pendingFormatting # NoState]
<1>1. q.inFlight \in Flight
  BY DEF Busy, Queue
<1>2. marked.inFlight = q.inFlight /\ idle.inFlight = q.inFlight
  BY DEF CancelTimer, Busy, Queue
<1>3. CASE q.composing
  <2>1. Flush(q).inFlight = q.inFlight
    BY <1>3 DEF Flush, CancelTimer, Busy, Queue
  <2> QED BY <2>1 DEF Carries, Busy
<1>4. CASE ~q.composing
  <2>1. Flush(q) = IF q.inFlight.attempt = "none"
                   THEN SendInFlight(marked)
                   ELSE marked
    BY <1>2, <1>4 DEF Flush, FlushInFlight, Busy
  <2>2. CASE q.inFlight.attempt = "none"
    <3>1. SendInFlight(marked).inFlight =
              [q.inFlight EXCEPT !.attempt = "sent"]
      BY <1>1, <1>2 DEF SendInFlight, CancelTimer, Busy, Queue, Flight
    <3>2. SendInFlight(marked).inFlight =
              [q.inFlight EXCEPT !.attempt = "sent",
                                 !.stored = q.inFlight.stored]
      BY <1>1, <3>1 DEF Flight
    <3>3. q.inFlight.stored \in BOOLEAN
      BY <1>1 DEF Flight
    <3>4. Flush(q) = SendInFlight(marked)
      BY <2>1, <2>2
    <3> HIDE DEF marked, idle
    <3>5. Carries(q, SendInFlight(marked))
      BY <3>2, <3>3, AttemptCarries
    <3> QED BY <3>4, <3>5
  <2>3. CASE q.inFlight.attempt # "none"
    BY <1>2, <2>1, <2>3 DEF Carries, Busy
  <2> QED BY <2>2, <2>3
<1> QED BY <1>3, <1>4

(* An edit, a formatting change or the end of a composition during a save  *)
(* changes what is pending and not what is in flight.                      *)
LEMMA RecordCarries ==
    ASSUME NEW q, Busy(q), NEW e \in EditorState, NEW b \in BOOLEAN,
           NEW c \in Chars
    PROVE  /\ Carries(q, Record(AppendInsert(q, c), e, b))
           /\ Carries(q, Record(AppendDelete(q, c), e, b))
<1>1. ASSUME NEW p, Busy(p), p.inFlight = q.inFlight
      PROVE  Carries(q, Record(p, e, b))
  <2> DEFINE r == [p EXCEPT !.pendingState = e,
                            !.pendingFormatting = NoState,
                            !.composing = b,
                            !.state = "editing"]
  <2>1. r.inFlight = q.inFlight /\ r.inFlight # NoFlight
    BY <1>1 DEF Busy, Queue
  <2>2. Record(p, e, b).inFlight = q.inFlight
    BY <1>1, <2>1 DEF Record, CancelTimer, Busy, Queue
  <2> QED BY <2>1, <2>2 DEF Carries
<1>2. Busy(AppendInsert(q, c)) /\ AppendInsert(q, c).inFlight = q.inFlight
  <2> DEFINE d == [removed |-> q.composed.removed,
                   added |-> q.composed.added \cup {c}]
  <2>1. q.txns \in Nat /\ q.composed \in Change
    BY DEF Busy, Queue
  <2>2. d \in Change /\ q.txns + 1 \in Nat
    BY <2>1 DEF Change
  <2>3. [q.composed EXCEPT !.added = @ \cup {c}] = d
    BY <2>1 DEF Change
  <2>4. AppendInsert(q, c) = [q EXCEPT !.txns = q.txns + 1, !.composed = d]
    BY <2>3 DEF AppendInsert, Busy, Queue
  <2> HIDE DEF d
  <2> QED BY <2>2, <2>4 DEF Busy, Queue
<1>3. Busy(AppendDelete(q, c)) /\ AppendDelete(q, c).inFlight = q.inFlight
  <2> DEFINE d == IF c \in q.composed.added
                  THEN [removed |-> q.composed.removed,
                        added |-> q.composed.added \ {c}]
                  ELSE [removed |-> q.composed.removed \cup {c},
                        added |-> q.composed.added]
  <2>1. q.txns \in Nat /\ q.composed \in Change
    BY DEF Busy, Queue
  <2>2. d \in Change /\ q.txns + 1 \in Nat
    BY <2>1 DEF Change
  <2>3. IF c \in q.composed.added
        THEN [q.composed EXCEPT !.added = @ \ {c}] = d
        ELSE [q.composed EXCEPT !.removed = @ \cup {c}] = d
    BY <2>1 DEF Change
  <2> HIDE DEF d
  <2>4. AppendDelete(q, c) = [q EXCEPT !.txns = q.txns + 1, !.composed = d]
    BY <2>3 DEF AppendDelete, Busy, Queue
  <2> QED BY <2>2, <2>4 DEF Busy, Queue
<1> QED BY <1>1, <1>2, <1>3

(* So does a formatting change (recordFormatting, 250-271) ...             *)
LEMMA RecordFormattingCarries ==
    ASSUME NEW q, Busy(q), NEW e
    PROVE  Carries(q, RecordFormatting(q, e))
<1>1. RecordFormatting(q, e).inFlight = q.inFlight
  BY DEF RecordFormatting, Busy, Queue
<1> QED BY <1>1 DEF Carries, Busy

(* ... and the end of a composition (compositionEnd, 273-298).             *)
LEMMA CompositionEndCarries ==
    ASSUME NEW q, Busy(q)
    PROVE  Carries(q, CompositionEnd(q))
<1>1. CompositionEnd(q).inFlight = q.inFlight
  BY DEF CompositionEnd, Busy, Queue
<1> QED BY <1>1 DEF Carries, Busy

(* Until its receipt arrives, a save in flight is neither dropped nor      *)
(* replaced: every retry sends the same batch (319-341, 403-450).          *)
THEOREM RetriesSendTheSame == Spec => RetryIsIdentical
<1> DEFINE Waits == queue.inFlight # NoFlight /\ queue.inFlight.attempt # "answered"
<1>1. ASSUME IInv, [Next]_vars, Waits PROVE Carries(queue, queue')
  <2> USE <1>1
  <2>1. Busy(queue)
    BY DEF Busy, IInv, Kept, QueueOK
  <2>2. queue.inFlight \in Flight
    BY <2>1 DEF Busy, Queue
  <2>3. text \in SUBSET Chars /\ format \in Nat /\ ime \in BOOLEAN
    BY DEF IInv, TypeOK
  <2>4. CASE Edit
    <3>1. PICK c \in Chars : Insert(c) \/ Delete(c)
      BY <2>4 DEF Edit
    <3>2. [text |-> text', format |-> format] \in EditorState
      BY <2>3, <3>1 DEF Insert, Delete, EditorState
    <3> QED BY <2>1, <2>3, <3>1, <3>2, RecordCarries DEF Insert, Delete
  <2>5. CASE ChangeFormatting
    BY <2>1, <2>5, RecordFormattingCarries DEF ChangeFormatting
  <2>6. CASE StartComposition
    BY <2>6 DEF StartComposition, Carries
  <2>7. CASE EndComposition
    BY <2>1, <2>7, CompositionEndCarries DEF EndComposition
  <2>8. CASE ExplicitFlush
    BY <2>1, <2>8, FlushCarries DEF ExplicitFlush
  <2>9. CASE TimerFires
    <3>1. Busy(CancelTimer(queue)) /\ CancelTimer(queue).inFlight = queue.inFlight
      BY <2>1 DEF CancelTimer, Busy, Queue
    <3>2. Carries(CancelTimer(queue), Flush(CancelTimer(queue)))
      BY <3>1, FlushCarries
    <3> QED BY <2>9, <3>1, <3>2 DEF TimerFires, Carries
  <2>10. CASE ServiceStores
    <3>1. queue'.inFlight = [queue.inFlight EXCEPT !.attempt = "answered",
                                                   !.stored = TRUE]
      BY <2>1, <2>2, <2>10 DEF ServiceStores, Busy, Queue, Flight
    <3> QED BY <2>1, <3>1, AttemptCarries
  <2>11. CASE ServiceRepeatsReceipt
    <3>1. queue'.inFlight = [queue.inFlight EXCEPT !.attempt = "answered",
                                                   !.stored = TRUE]
      BY <2>1, <2>2, <2>11 DEF ServiceRepeatsReceipt, Busy, Queue, Flight
    <3> QED BY <2>1, <3>1, AttemptCarries
  <2>12. CASE ReceiptArrives
    BY <2>12 DEF ReceiptArrives
  <2>13. CASE AttemptFails
    <3>1. queue.inFlight.stored \in BOOLEAN
      BY <2>2 DEF Flight
    <3>2. queue'.inFlight = [queue.inFlight EXCEPT !.attempt = "none",
                                 !.stored = queue.inFlight.stored]
      BY <2>1, <2>2, <2>13 DEF AttemptFails, AttemptFailed, Busy, Queue, Flight
    <3> QED BY <2>1, <3>1, <3>2, AttemptCarries
  <2>14. CASE UNCHANGED vars
    BY <2>14 DEF vars, Carries
  <2> QED BY <1>1, <2>4, <2>5, <2>6, <2>7, <2>8, <2>9, <2>10, <2>11, <2>12,
             <2>13, <2>14 DEF Next
<1>2. IInv /\ [Next]_vars =>
          (Waits => /\ queue'.inFlight # NoFlight
                    /\ Batch(queue'.inFlight) = Batch(queue.inFlight))
  BY <1>1 DEF Carries
<1>3. IInv /\ [Next]_vars =>
          [Waits => /\ queue'.inFlight # NoFlight
                    /\ Batch(queue'.inFlight) = Batch(queue.inFlight)]_vars
  BY <1>2
<1> QED BY <1>3, Invariance, PTL DEF Spec, RetryIsIdentical
=============================================================================
