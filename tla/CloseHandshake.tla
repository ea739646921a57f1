---------------------------- MODULE CloseHandshake ----------------------------
(***************************************************************************)
(* Closing the main window: the close handler of the main process          *)
(* (desktop/main.ts), the preload script that keeps a request no one       *)
(* listens for yet (preload/index.ts), and the renderer, which flushes the *)
(* save queue of every document before it answers (renderer/App.tsx and    *)
(* manuscript-durable-save-queue.ts).                                      *)
(*                                                                         *)
(* Of a queue only what a flush depends on is kept: how many edits of the  *)
(* document were recorded, how many were drained into a save, and how many *)
(* are durable.  SaveQueue models the queue itself.                        *)
(***************************************************************************)
EXTENDS Naturals

CONSTANTS
    Docs,
    MaxEdits,     \* bound on the edits of a document
    MaxRequests,  \* bound on the close requests
    NoRequest     \* null for pendingCloseRequest

ASSUME ConstantsAssumption ==
    /\ MaxEdits \in Nat
    /\ MaxRequests \in Nat
    /\ NoRequest \notin Nat

VARIABLES
    typed,        \* edits recorded by the queue of the document
    sent,         \* of these, drained into a save
    saved,        \* of these, acknowledged by a receipt
    flight,       \* the save in flight: "none", "sent" or "failed"
    composing,    \* the queue holds text for a composition
    listening,    \* the renderer listens for close requests
    held,         \* a request the preload script keeps, or NoRequest
    wire,         \* a request or a result on its way between the processes
    pending,      \* pendingCloseRequest of the main process
    requests,     \* close requests made so far
    window,       \* "open", "closing" once allowed to close, "closed"
    run,          \* the renderer's work on a request
    flushes,      \* flushForClose of each document
    atRequest,    \* edits recorded when the renderer took the request
    interrupted   \* a composition began after the renderer took the request

queueVars == <<typed, sent, saved, flight, composing>>
mainVars == <<pending, requests, window>>
runVars == <<run, flushes, atRequest>>
vars == <<queueVars, listening, held, wire, mainVars, runVars, interrupted>>

Pending(d) == typed[d] > sent[d]

Nothing == [type |-> "none", id |-> 0]

-----------------------------------------------------------------------------
Init ==
    /\ typed = [d \in Docs |-> 0]
    /\ sent = [d \in Docs |-> 0]
    /\ saved = [d \in Docs |-> 0]
    /\ flight = [d \in Docs |-> "none"]
    /\ composing = [d \in Docs |-> FALSE]
    /\ listening = FALSE
    /\ held = NoRequest
    /\ wire = Nothing
    /\ pending = NoRequest
    /\ requests = 0
    /\ window = "open"
    /\ run = [phase |-> "none", id |-> 0]
    /\ flushes = [d \in Docs |-> "idle"]
    /\ atRequest = [d \in Docs |-> 0]
    /\ interrupted = [d \in Docs |-> FALSE]

-----------------------------------------------------------------------------
(* The author edits and the queues save by themselves.                     *)

Edit(d, isComposing) ==
    /\ listening
    /\ window # "closed"
    /\ typed[d] < MaxEdits
    /\ typed' = [typed EXCEPT ![d] = @ + 1]
    /\ composing' = [composing EXCEPT ![d] = isComposing]
    /\ interrupted' = [interrupted EXCEPT ![d] = @ \/ isComposing]
    /\ UNCHANGED <<sent, saved, flight, listening, held, wire, mainVars, runVars>>

CompositionEnds(d) ==
    /\ window # "closed"
    /\ composing[d]
    /\ composing' = [composing EXCEPT ![d] = FALSE]
    /\ UNCHANGED <<typed, sent, saved, flight, listening, held, wire, mainVars,
                   runVars, interrupted>>

(* A timer, a full batch or a flush asked for earlier drains the queue.    *)
QueueSends(d) ==
    /\ window # "closed"
    /\ Pending(d) /\ ~composing[d] /\ flight[d] = "none"
    /\ sent' = [sent EXCEPT ![d] = typed[d]]
    /\ flight' = [flight EXCEPT ![d] = "sent"]
    /\ UNCHANGED <<typed, saved, composing, listening, held, wire, mainVars,
                   runVars, interrupted>>

(* The receipt settles the attempt and every flush that waits for it.  A   *)
(* flush that saw more edits when it was called flushes again: a           *)
(* composition that began meanwhile lets it resolve with nothing sent.     *)
SaveSucceeds(d) ==
    LET again == flushes[d] = "again" /\ ~composing[d] /\ Pending(d)
    IN  /\ window # "closed"
        /\ flight[d] = "sent"
        /\ saved' = [saved EXCEPT ![d] = sent[d]]
        /\ sent' = IF again THEN [sent EXCEPT ![d] = typed[d]] ELSE sent
        /\ flight' = [flight EXCEPT ![d] = IF again THEN "sent" ELSE "none"]
        /\ flushes' = [flushes EXCEPT ![d] =
                           IF again THEN "awaiting"
                           ELSE IF @ \in {"awaiting", "again"} THEN "done" ELSE @]
        /\ UNCHANGED <<typed, composing, listening, held, wire, mainVars, run,
                       atRequest, interrupted>>

SaveFails(d) ==
    /\ window # "closed"
    /\ flight[d] = "sent"
    /\ flight' = [flight EXCEPT ![d] = "failed"]
    /\ flushes' = [flushes EXCEPT ![d] =
                       IF @ \in {"awaiting", "again"} THEN "rejected" ELSE @]
    /\ UNCHANGED <<typed, sent, saved, composing, listening, held, wire,
                   mainVars, run, atRequest, interrupted>>

-----------------------------------------------------------------------------
(* The main process.                                                       *)

(* The close event: one request at a time goes to the renderer.            *)
UserCloses ==
    /\ window = "open"
    /\ pending = NoRequest
    /\ requests < MaxRequests
    /\ requests' = requests + 1
    /\ pending' = requests + 1
    /\ wire' = [type |-> "request", id |-> requests + 1]
    /\ UNCHANGED <<queueVars, listening, held, window, runVars, interrupted>>

(* The answer: only the pending request is accepted, and "saved" lets the  *)
(* window close.                                                           *)
ResultArrives ==
    /\ wire.type \in {"saved", "failed"}
    /\ wire.id = pending
    /\ pending' = NoRequest
    /\ window' = IF wire.type = "saved" THEN "closing" ELSE window
    /\ wire' = Nothing
    /\ UNCHANGED <<queueVars, listening, held, requests, runVars, interrupted>>

(* setImmediate closes the window, and the renderer with it.               *)
WindowCloses ==
    /\ window = "closing"
    /\ window' = "closed"
    /\ UNCHANGED <<queueVars, listening, held, wire, pending, requests, runVars,
                   interrupted>>

-----------------------------------------------------------------------------
(* The preload script and the renderer.                                    *)

(* Mutant: a save in flight is awaited, whatever was typed since.          *)
FlushForCloseOnce(d) ==
    CASE composing[d] /\ Pending(d) -> "rejected"
      [] composing[d] /\ ~Pending(d) -> "done"
      [] ~composing[d] /\ flight[d] # "none" -> "awaiting"
      [] OTHER -> IF Pending(d) THEN "awaiting" ELSE "done"

(* flushForClose and flush: the promise the document contributes.          *)
FlushForClose(d) ==
    CASE composing[d] /\ Pending(d) -> "rejected"
      [] composing[d] /\ ~Pending(d) -> "done"
      [] ~composing[d] /\ flight[d] # "none" ->
             IF Pending(d) THEN "again" ELSE "awaiting"
      [] OTHER -> IF Pending(d) THEN "awaiting" ELSE "done"

(* The flush of an idle queue drains it, that of a failed save sends it    *)
(* again.                                                                  *)
TakeRequest(id) ==
    LET drains == {d \in Docs : ~composing[d] /\ flight[d] = "none" /\ Pending(d)}
        resends == {d \in Docs : ~composing[d] /\ flight[d] = "failed"}
    IN  /\ run' = [phase |-> "flushing", id |-> id]
        /\ flushes' = [d \in Docs |-> FlushForClose(d)]
        /\ sent' = [d \in Docs |-> IF d \in drains THEN typed[d] ELSE sent[d]]
        /\ flight' = [d \in Docs |-> IF d \in drains \cup resends
                                     THEN "sent" ELSE flight[d]]
        /\ atRequest' = typed
        /\ interrupted' = [d \in Docs |-> FALSE]
        /\ UNCHANGED <<typed, saved, composing>>

(* Mutant: a request nobody listens for is dropped.                        *)
RequestArrivesUnheld ==
    /\ wire.type = "request"
    /\ wire' = Nothing
    /\ IF listening
       THEN TakeRequest(wire.id)
       ELSE UNCHANGED <<queueVars, runVars, interrupted>>
    /\ UNCHANGED <<listening, held, mainVars>>

RequestArrives ==
    /\ wire.type = "request"
    /\ wire' = Nothing
    /\ IF listening
       THEN TakeRequest(wire.id) /\ UNCHANGED held
       ELSE held' = wire.id /\ UNCHANGED <<queueVars, runVars, interrupted>>
    /\ UNCHANGED <<listening, mainVars>>

(* Mutant: the preload script hands over a request it does not have.       *)
ListenUnconditionally ==
    /\ ~listening
    /\ listening' = TRUE
    /\ held' = NoRequest
    /\ TakeRequest(held)
    /\ UNCHANGED <<wire, mainVars>>

Listen ==
    /\ ~listening
    /\ listening' = TRUE
    /\ held' = NoRequest
    /\ IF held # NoRequest
       THEN TakeRequest(held)
       ELSE UNCHANGED <<queueVars, runVars, interrupted>>
    /\ UNCHANGED <<wire, mainVars>>

(* Promise.all over the documents; then the pending activity saves, the    *)
(* focus session and the resume checkpoint are awaited.                    *)
FlushesResolve ==
    /\ window # "closed"
    /\ run.phase = "flushing"
    /\ \A d \in Docs : flushes[d] = "done"
    /\ run' = [run EXCEPT !.phase = "finishing"]
    /\ UNCHANGED <<queueVars, listening, held, wire, mainVars, flushes,
                   atRequest, interrupted>>

Complete(status) ==
    /\ window # "closed"
    /\ wire' = [type |-> status, id |-> run.id]
    /\ run' = [phase |-> "none", id |-> 0]
    /\ UNCHANGED <<queueVars, listening, held, mainVars, flushes, atRequest,
                   interrupted>>

FlushRejects ==
    /\ run.phase = "flushing"
    /\ \E d \in Docs : flushes[d] = "rejected"
    /\ Complete("failed")

FinishSucceeds == run.phase = "finishing" /\ Complete("saved")

FinishFails == run.phase = "finishing" /\ Complete("failed")

Settle(d) == SaveSucceeds(d) \/ SaveFails(d)

Next ==
    \/ \E d \in Docs :
           \/ \E isComposing \in BOOLEAN : Edit(d, isComposing)
           \/ CompositionEnds(d)
           \/ QueueSends(d)
           \/ Settle(d)
    \/ UserCloses
    \/ RequestArrives
    \/ Listen
    \/ FlushesResolve
    \/ FlushRejects
    \/ FinishSucceeds
    \/ FinishFails
    \/ ResultArrives
    \/ WindowCloses

Spec == Init /\ [][Next]_vars

(* Saves are answered, messages between the processes arrive, the renderer *)
(* comes up, and the promises it awaits settle.                            *)
Fairness ==
    /\ \A d \in Docs : WF_vars(Settle(d))
    /\ WF_vars(RequestArrives)
    /\ WF_vars(Listen)
    /\ WF_vars(FlushesResolve \/ FlushRejects)
    /\ WF_vars(FinishSucceeds \/ FinishFails)
    /\ WF_vars(ResultArrives)

FairSpec == Spec /\ Fairness

-----------------------------------------------------------------------------
(* Properties.                                                             *)

Ids == 0 .. MaxRequests

(* Every variable has the shape the code gives it.                         *)
TypeOK ==
    /\ typed \in [Docs -> 0 .. MaxEdits]
    /\ sent \in [Docs -> 0 .. MaxEdits]
    /\ saved \in [Docs -> 0 .. MaxEdits]
    /\ flight \in [Docs -> {"none", "sent", "failed"}]
    /\ composing \in [Docs -> BOOLEAN]
    /\ listening \in BOOLEAN
    /\ held \in Ids \cup {NoRequest}
    /\ wire \in [type : {"none", "request", "saved", "failed"}, id : Ids]
    /\ pending \in Ids \cup {NoRequest}
    /\ requests \in Ids
    /\ window \in {"open", "closing", "closed"}
    /\ run \in [phase : {"none", "flushing", "finishing"}, id : Ids]
    /\ flushes \in [Docs -> {"idle", "awaiting", "again", "done", "rejected"}]
    /\ atRequest \in [Docs -> 0 .. MaxEdits]
    /\ interrupted \in [Docs -> BOOLEAN]

(* When the window is allowed to close, every edit that was recorded when  *)
(* the renderer took the request is durable, in every document in which no *)
(* composition began during the flushes: failed saves, saves in flight and *)
(* edits made during them included (flushForClose 300-317, flush 319-401). *)
ClosedMeansFlushed ==
    window # "open" =>
        \A d \in Docs : ~interrupted[d] => saved[d] >= atRequest[d]

(* A close request is answered, also one that came before the renderer     *)
(* listened: the user can always try again.                                *)
CloseIsAnswered == pending # NoRequest ~> pending = NoRequest

=============================================================================
