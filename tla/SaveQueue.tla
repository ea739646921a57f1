------------------------------ MODULE SaveQueue ------------------------------
(***************************************************************************)
(* The renderer's durable save queue for one manuscript document           *)
(* (manuscript-durable-save-queue.ts and manuscript-change-accumulator.ts) *)
(* between the editor that records transactions and the save service of    *)
(* the main process.                                                       *)
(*                                                                         *)
(* Text is abstracted to the set of characters it holds.  A character is   *)
(* inserted at most once and deleted at most once, so a composed change    *)
(* set is the pair of the characters it removes from its base text and     *)
(* those it adds.  The formatting of the document is a version number.     *)
(***************************************************************************)
EXTENDS Naturals

CONSTANTS
    Chars,        \* the characters the author may insert (bounds the edits)
    MaxFormats,   \* bound on the formatting changes of a behaviour
    MaxTxns,      \* policy.maxTransactionsPerBatch
    MaxSequence,  \* the largest representable sequence
    NoState,      \* null for pendingEditorStateJson and pendingFormattingJson
    NoFlight      \* null for inFlight

VARIABLES
    text,     \* characters of the document in the editor
    used,     \* characters ever inserted: an inserted character is fresh
    format,   \* version of the formatting in the editor
    ime,      \* the editor view is composing
    queue,    \* QueueDocumentState of the document
    store     \* what the save service holds for the document

vars == <<text, used, format, ime, queue, store>>

Change == [removed: SUBSET Chars, added: SUBSET Chars]

EditorState == [text: SUBSET Chars, format: Nat]

NoChange == [removed |-> {}, added |-> {}]

ApplyChange(change, base) == (base \ change.removed) \cup change.added

Flight == [kind: {"text", "formatting"},
           change: Change,
           editorState: EditorState,
           sequence: Nat,
           expectedRevision: Nat,
           attempt: {"none", "sent", "answered"},
           stored: BOOLEAN]

Queue == [txns: Nat,                 \* accumulator.transactionCount
          composed: Change,          \* the composed ChangeSet
          state: {"editing", "saving", "saved", "failed"},
          composing: BOOLEAN,
          flushRequested: BOOLEAN,
          timer: BOOLEAN,            \* a delayed flush is scheduled
          pendingState: EditorState \cup {NoState},
          pendingFormatting: EditorState \cup {NoState},
          inFlight: Flight \cup {NoFlight},
          nextSequence: Nat,
          revision: Nat]

Store == [text: SUBSET Chars, format: Nat, nextSequence: Nat, revision: Nat]

ASSUME ConstantsAssumption ==
    /\ MaxFormats \in Nat
    /\ MaxTxns \in Nat \ {0}
    /\ MaxSequence \in Nat
    /\ NoState \notin EditorState
    /\ NoFlight \notin Flight

-----------------------------------------------------------------------------
(* The queue's own procedures, as operators on its state.                  *)

HasPendingChanges(q) ==
    \/ q.txns > 0
    \/ q.pendingFormatting # NoState
    \/ q.inFlight # NoFlight

CancelTimer(q) == [q EXCEPT !.timer = FALSE]

ArmTimer(q) ==
    [q EXCEPT !.timer = \/ q.timer
                        \/ /\ ~q.composing
                           /\ q.inFlight = NoFlight
                           /\ q.txns > 0]

SendInFlight(q) ==
    [q EXCEPT !.inFlight.attempt = "sent",
              !.state = IF q.txns = 0 THEN "saving" ELSE "editing"]

(* ManuscriptChangeAccumulator.append: compose one insertion or deletion.  *)
AppendInsert(q, c) ==
    [q EXCEPT !.txns = @ + 1, !.composed.added = @ \cup {c}]

AppendDelete(q, c) ==
    IF c \in q.composed.added
    THEN [q EXCEPT !.txns = @ + 1, !.composed.added = @ \ {c}]
    ELSE [q EXCEPT !.txns = @ + 1, !.composed.removed = @ \cup {c}]

Drain(q) == [q EXCEPT !.txns = 0, !.composed = NoChange]

SequenceExhausted(q) == q.nextSequence + 1 > MaxSequence

DispatchText(q) ==
    SendInFlight(
        [Drain(q) EXCEPT !.pendingState = NoState,
                         !.inFlight = [kind |-> "text",
                                       change |-> q.composed,
                                       editorState |-> q.pendingState,
                                       sequence |-> q.nextSequence,
                                       expectedRevision |-> 0,
                                       attempt |-> "none",
                                       stored |-> FALSE]])

(* Mutant: the formatting command takes the editor state kept for text.    *)
DispatchFormattingWrongState(q) ==
    SendInFlight(
        [Drain(q) EXCEPT !.pendingFormatting = NoState,
                         !.inFlight = [kind |-> "formatting",
                                       change |-> NoChange,
                                       editorState |-> q.pendingState,
                                       sequence |-> 0,
                                       expectedRevision |-> q.revision,
                                       attempt |-> "none",
                                       stored |-> FALSE]])

DispatchFormatting(q) ==
    SendInFlight(
        [Drain(q) EXCEPT !.pendingFormatting = NoState,
                         !.inFlight = [kind |-> "formatting",
                                       change |-> NoChange,
                                       editorState |-> q.pendingFormatting,
                                       sequence |-> 0,
                                       expectedRevision |-> q.revision,
                                       attempt |-> "none",
                                       stored |-> FALSE]])

(* Mutant: a retry is built from what is pending now.                      *)
FlushInFlightRebuilt(q) ==
    IF q.inFlight.attempt = "none" /\ q.txns > 0
    THEN DispatchText(q)
    ELSE [q EXCEPT !.flushRequested = TRUE]

(* flush with something in flight: the attempt is awaited or sent again.   *)
(* The flush chained behind the attempt (337-339) finds what this one      *)
(* asked for by flushRequested already done and changes nothing.           *)
FlushInFlight(q) ==
    LET marked == [q EXCEPT !.flushRequested =
                       @ \/ q.txns > 0 \/ q.pendingFormatting # NoState]
    IN  IF q.inFlight.attempt = "none" THEN SendInFlight(marked) ELSE marked

FlushIdle(q) ==
    CASE q.txns > 0 /\ SequenceExhausted(q) -> [q EXCEPT !.state = "failed"]
      [] ~(q.txns > 0 /\ SequenceExhausted(q)) /\ q.composed # NoChange ->
             DispatchText(q)
      [] /\ ~(q.txns > 0 /\ SequenceExhausted(q))
         /\ q.composed = NoChange
         /\ q.pendingFormatting # NoState -> DispatchFormatting(q)
      [] OTHER -> [Drain(q) EXCEPT !.pendingFormatting = NoState,
                                   !.flushRequested = FALSE,
                                   !.state = "saved"]

Flush(q) ==
    LET idle == CancelTimer(q)
    IN  CASE q.composing -> [idle EXCEPT !.flushRequested = TRUE]
          [] ~q.composing /\ q.inFlight # NoFlight -> FlushInFlight(idle)
          [] OTHER -> FlushIdle(idle)

(* record, after the accumulator has composed the transaction: "edited" is *)
(* the queue then, "isComposing" the editor's composing flag.              *)
Record(edited, editorState, isComposing) ==
    LET q == [edited EXCEPT !.pendingState = editorState,
                            !.pendingFormatting = NoState,
                            !.composing = isComposing,
                            !.state = "editing"]
        full == q.txns >= MaxTxns
    IN  CASE isComposing -> CancelTimer(q)
          [] ~isComposing /\ q.inFlight # NoFlight ->
                 [q EXCEPT !.flushRequested = @ \/ full]
          [] /\ ~isComposing
             /\ q.inFlight = NoFlight
             /\ (q.flushRequested \/ full) ->
                 Flush([q EXCEPT !.flushRequested = FALSE])
          [] OTHER -> ArmTimer(q)

RecordFormatting(q, editorState) ==
    LET recorded ==
            IF q.txns > 0
            THEN [q EXCEPT !.pendingState = editorState,
                           !.pendingFormatting = NoState,
                           !.state = "editing"]
            ELSE [q EXCEPT !.pendingFormatting = editorState,
                           !.state = "editing"]
    IN  IF q.composing \/ q.inFlight # NoFlight
        THEN recorded
        ELSE Flush(recorded)

(* Mutant: a composition that ends during a save keeps its hold.           *)
CompositionEndKeepsHold(q) ==
    IF q.inFlight # NoFlight
    THEN q
    ELSE ArmTimer([q EXCEPT !.composing = FALSE])

(* Mutant: the end of a composition leaves the text to the next edit.      *)
CompositionEndUnarmed(q) == [q EXCEPT !.composing = FALSE]

CompositionEnd(q) ==
    LET ended == [q EXCEPT !.composing = FALSE]
    IN  CASE \/ q.txns = 0 /\ q.pendingFormatting = NoState
             \/ q.inFlight # NoFlight -> ended
          [] /\ q.inFlight = NoFlight
             /\ q.txns > 0 \/ q.pendingFormatting # NoState
             /\ \/ q.flushRequested
                \/ q.pendingFormatting # NoState
                \/ q.txns >= MaxTxns ->
                 Flush([ended EXCEPT !.flushRequested = FALSE])
          [] OTHER -> ArmTimer(ended)

(* Mutant: a receipt always shows "saved".                                 *)
ContinueAfterReceiptAlwaysSaved(q) ==
    ArmTimer([q EXCEPT !.flushRequested = FALSE, !.state = "saved"])

(* Mutant: edits made during the save wait for another edit.               *)
ContinueAfterReceiptUnarmed(q) ==
    IF q.txns = 0 /\ q.pendingFormatting = NoState
    THEN [q EXCEPT !.flushRequested = FALSE, !.state = "saved"]
    ELSE [q EXCEPT !.state = "editing"]

ContinueAfterReceipt(q) ==
    CASE q.txns = 0 /\ q.pendingFormatting = NoState ->
             [q EXCEPT !.flushRequested = FALSE, !.state = "saved"]
      [] /\ q.txns > 0 \/ q.pendingFormatting # NoState
         /\ ~q.composing
         /\ \/ q.flushRequested
            \/ q.pendingFormatting # NoState
            \/ q.txns >= MaxTxns ->
             Flush([q EXCEPT !.flushRequested = FALSE, !.state = "editing"])
      [] OTHER -> ArmTimer([q EXCEPT !.state = "editing"])

(* Mutant: the receipt does not advance the sequence.                      *)
AcceptReceiptSameSequence(q, revisionId) ==
    ContinueAfterReceipt([q EXCEPT !.revision = revisionId,
                                   !.inFlight = NoFlight])

AcceptReceipt(q, revisionId) ==
    ContinueAfterReceipt(
        [q EXCEPT !.nextSequence = IF q.inFlight.kind = "text"
                                   THEN q.inFlight.sequence + 1
                                   ELSE @,
                  !.revision = revisionId,
                  !.inFlight = NoFlight])

(* Mutant: a failed save is forgotten.                                     *)
AttemptFailedForgotten(q) ==
    [q EXCEPT !.inFlight = NoFlight, !.state = "failed"]

AttemptFailed(q) ==
    [q EXCEPT !.inFlight.attempt = "none", !.state = "failed"]

-----------------------------------------------------------------------------
RegisterDocument ==
    [txns |-> 0,
     composed |-> NoChange,
     state |-> "saved",
     composing |-> FALSE,
     flushRequested |-> FALSE,
     timer |-> FALSE,
     pendingState |-> NoState,
     pendingFormatting |-> NoState,
     inFlight |-> NoFlight,
     nextSequence |-> 0,
     revision |-> 0]

Init ==
    /\ text = {}
    /\ used = {}
    /\ format = 0
    /\ ime = FALSE
    /\ queue = RegisterDocument
    /\ store = [text |-> {}, format |-> 0, nextSequence |-> 0, revision |-> 0]

(* The author: a transaction reaches the queue with the editor's composing *)
(* flag and the editor state after it.                                     *)
Insert(c) ==
    /\ c \notin used
    /\ text' = text \cup {c}
    /\ used' = used \cup {c}
    /\ queue' = Record(AppendInsert(queue, c),
                       [text |-> text', format |-> format], ime)
    /\ UNCHANGED <<format, ime, store>>

Delete(c) ==
    /\ c \in text
    /\ text' = text \ {c}
    /\ queue' = Record(AppendDelete(queue, c),
                       [text |-> text', format |-> format], ime)
    /\ UNCHANGED <<used, format, ime, store>>

ChangeFormatting ==
    /\ format < MaxFormats
    /\ format' = format + 1
    /\ queue' = RecordFormatting(queue, [text |-> text, format |-> format'])
    /\ UNCHANGED <<text, used, ime, store>>

StartComposition ==
    /\ ~ime
    /\ ime' = TRUE
    /\ UNCHANGED <<text, used, format, queue, store>>

EndComposition ==
    /\ ime
    /\ ime' = FALSE
    /\ queue' = CompositionEnd(queue)
    /\ UNCHANGED <<text, used, format, store>>

ExplicitFlush ==
    /\ queue' = Flush(queue)
    /\ UNCHANGED <<text, used, format, ime, store>>

TimerFires ==
    /\ queue.timer
    /\ queue' = Flush(CancelTimer(queue))
    /\ UNCHANGED <<text, used, format, ime, store>>

(* The save service.  A text batch it already accepted is answered with    *)
(* the receipt it gave, any other must continue the sequence; a formatting *)
(* command must name the current revision.  The editor state must fit the  *)
(* text it is stored with.                                                 *)
Acceptable(f) ==
    /\ IF f.kind = "text" THEN f.sequence = store.nextSequence
                          ELSE f.expectedRevision = store.revision
    /\ f.editorState.text = ApplyChange(f.change, store.text)

ServiceStores ==
    LET f == queue.inFlight
    IN  /\ f # NoFlight
        /\ f.attempt = "sent"
        /\ ~f.stored
        /\ Acceptable(f)
        /\ store' = [text |-> ApplyChange(f.change, store.text),
                     format |-> f.editorState.format,
                     nextSequence |-> IF f.kind = "text"
                                      THEN store.nextSequence + 1
                                      ELSE store.nextSequence,
                     revision |-> store.revision + 1]
        /\ queue' = [queue EXCEPT !.inFlight.attempt = "answered",
                                  !.inFlight.stored = TRUE]
        /\ UNCHANGED <<text, used, format, ime>>

ServiceRepeatsReceipt ==
    /\ queue.inFlight # NoFlight
    /\ queue.inFlight.attempt = "sent"
    /\ queue.inFlight.stored
    /\ queue.inFlight.kind = "text"
    /\ queue' = [queue EXCEPT !.inFlight.attempt = "answered"]
    /\ UNCHANGED <<text, used, format, ime, store>>

ReceiptArrives ==
    /\ queue.inFlight # NoFlight
    /\ queue.inFlight.attempt = "answered"
    /\ queue' = AcceptReceipt(queue, store.revision)
    /\ UNCHANGED <<text, used, format, ime, store>>

(* The service refuses or fails, or the answer is lost on its way.         *)
AttemptFails ==
    /\ queue.inFlight # NoFlight
    /\ queue.inFlight.attempt # "none"
    /\ queue' = AttemptFailed(queue)
    /\ UNCHANGED <<text, used, format, ime, store>>

Edit == \E c \in Chars : Insert(c) \/ Delete(c)

Next ==
    \/ Edit
    \/ ChangeFormatting
    \/ StartComposition
    \/ EndComposition
    \/ ExplicitFlush
    \/ TimerFires
    \/ ServiceStores
    \/ ServiceRepeatsReceipt
    \/ ReceiptArrives
    \/ AttemptFails

Spec == Init /\ [][Next]_vars

(* The browser runs an armed timer, an IME composition ends, and the       *)
(* service answers what was sent to it, with a receipt or a failure.       *)
Fairness ==
    /\ WF_vars(TimerFires)
    /\ WF_vars(EndComposition)
    /\ WF_vars(ServiceStores \/ ServiceRepeatsReceipt \/ AttemptFails)
    /\ WF_vars(ReceiptArrives)

FairSpec == Spec /\ Fairness

-----------------------------------------------------------------------------
(* Properties.                                                             *)

(* Every variable has the shape the code gives it.                         *)
TypeOK ==
    /\ text \in SUBSET Chars
    /\ used \in SUBSET Chars
    /\ format \in Nat
    /\ ime \in BOOLEAN
    /\ queue \in Queue
    /\ store \in Store

(* What the service holds once the save in flight is stored.               *)
Base(q, s) == IF q.inFlight # NoFlight /\ ~q.inFlight.stored
              THEN ApplyChange(q.inFlight.change, s.text)
              ELSE s.text

(* No edit is lost or applied twice on the way from the editor to the      *)
(* store: the stored text, the batch in flight and the accumulated changes *)
(* compose to the text in the editor, through failures, lost receipts and  *)
(* retries (record 204-248, flush 319-401, #acceptTextReceipt 452-481).    *)
TextAccounted == text = ApplyChange(queue.composed, Base(queue, store))

(* The label "saved" is never shown over text the service does not hold,   *)
(* nor while a save is still in flight (flush 397-400, 502-510).           *)
SavedTextIsDurable ==
    queue.state = "saved" =>
        /\ store.text = text
        /\ queue.inFlight = NoFlight
        /\ queue.pendingFormatting = NoState

(* A save the queue sends is one the service can accept: the sequence or   *)
(* the revision it names is current and its editor state belongs to the    *)
(* text it produces, whatever was typed, formatted, retried or composed    *)
(* meanwhile.  Only a formatting save whose receipt was lost is not: it    *)
(* names the revision before its own.                                      *)
SentSavesAreAcceptable ==
    LET f == queue.inFlight
    IN  f # NoFlight /\ ~f.stored => Acceptable(f) /\ f.editorState # NoState

(* Recorded work is never left without anything that will send it: while   *)
(* no save is in flight and no composition holds it, accumulated edits     *)
(* have an armed timer, unless the sequence cannot advance, and a pending  *)
(* formatting change never rests (#armTimer 552-569, compositionEnd,       *)
(* #continueAfterReceipt).                                                 *)
NoOrphanedWork ==
    ~queue.composing /\ queue.inFlight = NoFlight =>
        /\ queue.txns > 0 => queue.timer \/ SequenceExhausted(queue)
        /\ queue.pendingFormatting = NoState

(* The queue holds text back for a composition only while the editor is    *)
(* composing and there is text to hold: flushForClose, which looks for     *)
(* both (306-308), refuses every composing document.                       *)
HeldTextIsComposed ==
    queue.composing => ime /\ queue.txns > 0

Batch(f) == [kind |-> f.kind, change |-> f.change, sequence |-> f.sequence,
             editorState |-> f.editorState,
             expectedRevision |-> f.expectedRevision]

(* Until its receipt arrives, a save in flight is neither dropped nor      *)
(* replaced: every retry sends the same batch (319-341, 403-450).          *)
RetryIsIdentical ==
    [][queue.inFlight # NoFlight /\ queue.inFlight.attempt # "answered" =>
           /\ queue'.inFlight # NoFlight
           /\ Batch(queue'.inFlight) = Batch(queue.inFlight)]_vars

Stalled == queue.inFlight # NoFlight /\ queue.inFlight.attempt = "none"

(* Recorded work does not linger: it reaches the store, or a failed save   *)
(* is waiting for an explicit retry, or the sequence cannot advance.       *)
WorkSettles ==
    HasPendingChanges(queue) ~>
        \/ ~HasPendingChanges(queue) /\ store.text = text
        \/ Stalled
        \/ SequenceExhausted(queue)

(* plan.md:283 says bold, italic and underline are edited and stored in    *)
(* the same revision flow as text.  "Saved" therefore means that the       *)
(* formatting in the editor is the stored one.                             *)
SavedFormattingIsDurable ==
    queue.state = "saved" => store.format = format
=============================================================================
