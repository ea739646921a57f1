------------------------ MODULE CloseHandshakeProofs ------------------------
(***************************************************************************)
(* Proofs about CloseHandshake for every set of documents and every bound.  *)
(*                                                                         *)
(* ClosedMeansFlushed is about the moment the main process lets the window  *)
(* close, long after the renderer took the request.  Two invariants carry   *)
(* it over: the request is at one place at a time (OneRequest), so nothing  *)
(* starts a second run of flushes meanwhile; and each flush knows what it   *)
(* waits for (FlushOK), so that "done" means saved.                         *)
(***************************************************************************)
EXTENDS CloseHandshake, TLAPS

(* What a queue drained and what is durable.                               *)
QueueOK(d) ==
    /\ saved[d] <= sent[d] /\ sent[d] <= typed[d] /\ atRequest[d] <= typed[d]
    /\ composing[d] => sent[d] < typed[d]
    /\ flight[d] = "none" => saved[d] = sent[d]

(* What the flush of a document waits for, unless a composition began.     *)
FlushOK(d) ==
    ~interrupted[d] =>
        /\ flushes[d] = "done" => saved[d] >= atRequest[d]
        /\ flushes[d] = "awaiting" => flight[d] = "sent" /\ sent[d] >= atRequest[d]
        /\ flushes[d] = "again" => flight[d] = "sent" /\ ~composing[d]

(* A request is with the main process and at one other place.              *)
OneRequest ==
    /\ pending = NoRequest => /\ wire.type = "none" /\ held = NoRequest
                              /\ run.phase = "none"
    /\ wire.type # "none" => held = NoRequest /\ run.phase = "none"
    /\ held # NoRequest => run.phase = "none" /\ ~listening
    /\ window # "open" => pending = NoRequest

(* What the renderer answered holds until the window is closed.            *)
AnswerOK ==
    /\ run.phase = "finishing" => \A d \in Docs : flushes[d] = "done"
    /\ run.phase # "none" \/ wire.type \in {"saved", "failed"} => listening
    /\ wire.type = "saved" \/ window # "open" =>
           \A d \in Docs : ~interrupted[d] => saved[d] >= atRequest[d]

Inv ==
    /\ TypeOK
    /\ \A d \in Docs : QueueOK(d) /\ FlushOK(d)
    /\ OneRequest
    /\ AnswerOK

-----------------------------------------------------------------------------
(* The renderer takes a request: every flush begins in a state that fits.  *)
LEMMA TakenOK ==
    ASSUME NEW id \in Ids, Inv, TakeRequest(id)
    PROVE  /\ \A d \in Docs : QueueOK(d)' /\ FlushOK(d)'
           /\ sent' \in [Docs -> 0 .. MaxEdits]
           /\ flight' \in [Docs -> {"none", "sent", "failed"}]
           /\ flushes' \in [Docs -> {"idle", "awaiting", "again", "done", "rejected"}]
           /\ atRequest' \in [Docs -> 0 .. MaxEdits]
           /\ interrupted' \in [Docs -> BOOLEAN]
           /\ run' \in [phase : {"none", "flushing", "finishing"}, id : Ids]
           /\ run'.phase = "flushing"
<1>1. TypeOK /\ \A d \in Docs : QueueOK(d)
  BY DEF Inv
<1>2. ASSUME NEW d \in Docs PROVE QueueOK(d)' /\ FlushOK(d)'
  <2>1. /\ typed[d] \in Nat /\ sent[d] \in Nat /\ saved[d] \in Nat
        /\ saved[d] <= sent[d] /\ sent[d] <= typed[d]
        /\ composing[d] => sent[d] < typed[d]
        /\ flight[d] = "none" => saved[d] = sent[d]
        /\ flight[d] \in {"none", "sent", "failed"}
    BY <1>1, ConstantsAssumption DEF TypeOK, QueueOK
  <2>2. /\ typed' = typed /\ saved' = saved /\ composing' = composing
        /\ atRequest'[d] = typed[d] /\ ~interrupted'[d]
        /\ flushes'[d] = FlushForClose(d)
        /\ sent'[d] = IF ~composing[d] /\ flight[d] = "none" /\ Pending(d)
                      THEN typed[d] ELSE sent[d]
        /\ flight'[d] = IF ~composing[d] /\ (\/ flight[d] = "failed"
                                             \/ flight[d] = "none" /\ Pending(d))
                        THEN "sent" ELSE flight[d]
    <3>1. /\ typed' = typed /\ saved' = saved /\ composing' = composing
          /\ atRequest'[d] = typed[d] /\ ~interrupted'[d]
          /\ flushes'[d] = FlushForClose(d)
      BY DEF TakeRequest
    <3>2. sent'[d] = IF ~composing[d] /\ flight[d] = "none" /\ Pending(d)
                     THEN typed[d] ELSE sent[d]
      BY DEF TakeRequest
    <3>3. flight'[d] = IF ~composing[d] /\ (\/ flight[d] = "failed"
                                            \/ flight[d] = "none" /\ Pending(d))
                       THEN "sent" ELSE flight[d]
      <4> DEFINE drains == {e \in Docs : ~composing[e] /\ flight[e] = "none" /\ Pending(e)}
                 resends == {e \in Docs : ~composing[e] /\ flight[e] = "failed"}
      <4>1. flight'[d] = IF d \in drains \cup resends THEN "sent" ELSE flight[d]
        BY DEF TakeRequest
      <4>2. d \in drains <=> ~composing[d] /\ flight[d] = "none" /\ Pending(d)
        BY Zenon
      <4>3. d \in resends <=> ~composing[d] /\ flight[d] = "failed"
        BY Zenon
      <4> HIDE DEF drains, resends
      <4> QED
        BY <4>1, <4>2, <4>3
    <3> QED
      BY <3>1, <3>2, <3>3
  <2>3. QueueOK(d)'
    BY <2>1, <2>2 DEF QueueOK, Pending
  <2>4. FlushOK(d)'
    <3>1. CASE composing[d]
      BY <2>1, <2>2, <3>1 DEF FlushOK, FlushForClose, Pending
    <3>2. CASE ~composing[d] /\ Pending(d)
      BY <2>1, <2>2, <3>2 DEF FlushOK, FlushForClose, Pending
    <3>3. CASE ~composing[d] /\ ~Pending(d)
      <4>1. FlushForClose(d) = IF flight[d] # "none" THEN "awaiting" ELSE "done"
        BY <3>3, Zenon DEF FlushForClose
      <4>2. sent[d] = typed[d]
        BY <2>1, <3>3 DEF Pending
      <4>3. flight[d] # "none" => flight'[d] = "sent"
        BY <2>1, <2>2, <3>3
      <4>4. sent'[d] = sent[d] /\ saved'[d] = saved[d]
        BY <2>2, <3>3, Zenon
      <4> QED
        BY <2>1, <2>2, <4>1, <4>2, <4>3, <4>4 DEF FlushOK
    <3> QED
      BY <3>1, <3>2, <3>3
  <2> QED
    BY <2>3, <2>4
<1>3. \A d \in Docs : FlushForClose(d) \in {"idle", "awaiting", "again", "done", "rejected"}
  BY <1>1 DEF FlushForClose, TypeOK
<1> QED
  BY <1>1, <1>2, <1>3 DEF TakeRequest, TypeOK

(* The steps of one document's queue.                                      *)
LEMMA QueueStep ==
    ASSUME Inv, NEW d \in Docs,
           \/ \E isComposing \in BOOLEAN : Edit(d, isComposing)
           \/ CompositionEnds(d) \/ QueueSends(d) \/ Settle(d)
    PROVE  Inv'
<1> USE ConstantsAssumption
<1>1. TypeOK /\ QueueOK(d) /\ FlushOK(d)
  BY DEF Inv
<1>2. /\ UNCHANGED <<listening, held, wire, mainVars, run, atRequest>>
      /\ \A e \in Docs \ {d} :
             /\ typed'[e] = typed[e] /\ sent'[e] = sent[e] /\ saved'[e] = saved[e]
             /\ flight'[e] = flight[e] /\ composing'[e] = composing[e]
             /\ flushes'[e] = flushes[e] /\ interrupted'[e] = interrupted[e]
  BY <1>1 DEF Edit, CompositionEnds, QueueSends, Settle, SaveSucceeds, SaveFails,
              TypeOK, mainVars, runVars
<1>8. /\ saved'[d] >= saved[d]
      /\ interrupted[d] => interrupted'[d]
      /\ flushes[d] = "done" => flushes'[d] = "done"
  <2>1. saved[d] \in Nat /\ sent[d] \in Nat
    BY <1>1 DEF TypeOK
  <2> QED
    BY <1>1, <2>1 DEF Edit, CompositionEnds, QueueSends, Settle, SaveSucceeds,
                      SaveFails, TypeOK, QueueOK, runVars
<1>3. TypeOK'
  <2>1. composing' \in [Docs -> BOOLEAN] /\ interrupted' \in [Docs -> BOOLEAN]
    <3>1. composing \in [Docs -> BOOLEAN] /\ interrupted \in [Docs -> BOOLEAN]
      BY <1>1 DEF TypeOK
    <3>2. CASE \E isComposing \in BOOLEAN : Edit(d, isComposing)
      <4>1. PICK isComposing \in BOOLEAN : Edit(d, isComposing)
        BY <3>2
      <4>2. (interrupted[d] \/ isComposing) \in BOOLEAN
        BY Zenon
      <4>3. \A b \in BOOLEAN : [interrupted EXCEPT ![d] = b] \in [Docs -> BOOLEAN]
        BY <3>1, Zenon
      <4> QED
        BY <3>1, <4>1, <4>2, <4>3, Zenon DEF Edit
    <3>3. CASE CompositionEnds(d) \/ QueueSends(d) \/ Settle(d)
      BY <3>1, <3>3, Zenon DEF CompositionEnds, QueueSends, Settle, SaveSucceeds,
                               SaveFails, runVars
    <3> QED
      BY <3>2, <3>3
  <2>2. typed' \in [Docs -> 0 .. MaxEdits]
    BY <1>1 DEF Edit, CompositionEnds, QueueSends, Settle, SaveSucceeds,
                SaveFails, TypeOK
  <2>3. sent' \in [Docs -> 0 .. MaxEdits] /\ saved' \in [Docs -> 0 .. MaxEdits]
    BY <1>1 DEF Edit, CompositionEnds, QueueSends, Settle, SaveSucceeds,
                SaveFails, TypeOK
  <2>4. /\ flight' \in [Docs -> {"none", "sent", "failed"}]
        /\ flushes' \in [Docs -> {"idle", "awaiting", "again", "done", "rejected"}]
    BY <1>1 DEF Edit, CompositionEnds, QueueSends, Settle, SaveSucceeds,
                SaveFails, TypeOK, runVars
  <2> QED
    BY <1>1, <1>2, <2>1, <2>2, <2>3, <2>4 DEF TypeOK, mainVars, Ids
<1>4. QueueOK(d)' /\ FlushOK(d)'
  <2>1. /\ typed[d] \in Nat /\ sent[d] \in Nat /\ saved[d] \in Nat
        /\ atRequest[d] \in Nat
    BY <1>1 DEF TypeOK
  <2>2. CASE \E isComposing \in BOOLEAN : Edit(d, isComposing)
    BY <1>1, <2>1, <2>2 DEF Edit, TypeOK, QueueOK, FlushOK, runVars
  <2>3. CASE CompositionEnds(d)
    BY <1>1, <2>1, <2>3 DEF CompositionEnds, TypeOK, QueueOK, FlushOK, runVars
  <2>4. CASE QueueSends(d)
    BY <1>1, <2>1, <2>4 DEF QueueSends, Pending, TypeOK, QueueOK, FlushOK, runVars
  <2>5. CASE SaveSucceeds(d)
    BY <1>1, <2>1, <2>5 DEF SaveSucceeds, Pending, TypeOK, QueueOK, FlushOK
  <2>6. CASE SaveFails(d)
    BY <1>1, <2>1, <2>6 DEF SaveFails, TypeOK, QueueOK, FlushOK
  <2> QED
    BY <2>2, <2>3, <2>4, <2>5, <2>6 DEF Settle
<1>5. \A e \in Docs : QueueOK(e)' /\ FlushOK(e)'
  <2> SUFFICES ASSUME NEW e \in Docs PROVE QueueOK(e)' /\ FlushOK(e)'
    OBVIOUS
  <2>1. QueueOK(e) /\ FlushOK(e)
    BY DEF Inv
  <2> QED
    BY <1>2, <1>4, <2>1 DEF QueueOK, FlushOK
<1>6. OneRequest'
  BY <1>2 DEF Inv, OneRequest, mainVars
<1>7. AnswerOK'
  <2>1. run.phase = "finishing" => \A e \in Docs : flushes'[e] = "done"
    BY <1>2, <1>8 DEF Inv, AnswerOK
  <2>2. ASSUME wire.type = "saved" \/ window # "open", NEW e \in Docs,
               ~interrupted'[e]
        PROVE  saved'[e] >= atRequest[e]
    <3>1. ~interrupted[e] /\ saved[e] >= atRequest[e] /\ saved'[e] >= saved[e]
      BY <1>1, <1>2, <1>8, <2>2 DEF Inv, AnswerOK, TypeOK
    <3> QED
      BY <1>1, <1>3, <3>1 DEF TypeOK
  <2> QED
    BY <1>2, <2>1, <2>2 DEF Inv, AnswerOK, mainVars
<1> QED
  BY <1>3, <1>5, <1>6, <1>7 DEF Inv

(* The steps of the main process.                                          *)
LEMMA MainStep ==
    ASSUME Inv, UserCloses \/ ResultArrives \/ WindowCloses
    PROVE  Inv'
<1> USE ConstantsAssumption
<1>1. TypeOK'
  BY DEF Inv, TypeOK, UserCloses, ResultArrives, WindowCloses, queueVars, runVars,
         Ids, Nothing
<1>2. \A d \in Docs : QueueOK(d)' /\ FlushOK(d)'
  BY DEF Inv, QueueOK, FlushOK, UserCloses, ResultArrives, WindowCloses,
         queueVars, runVars
<1>3. OneRequest'
  BY DEF Inv, TypeOK, OneRequest, UserCloses, ResultArrives, WindowCloses,
         queueVars, runVars, Nothing, Ids
<1>4. AnswerOK'
  BY DEF Inv, OneRequest, AnswerOK, UserCloses, ResultArrives, WindowCloses,
         queueVars, runVars, Nothing
<1> QED
  BY <1>1, <1>2, <1>3, <1>4 DEF Inv

(* The steps of the preload script and the renderer.                       *)
LEMMA RendererStep ==
    ASSUME Inv,
           \/ RequestArrives \/ Listen
           \/ FlushesResolve \/ FlushRejects \/ FinishSucceeds \/ FinishFails
    PROVE  Inv'
<1> USE ConstantsAssumption
<1>1. TypeOK /\ OneRequest /\ AnswerOK
  BY DEF Inv
<1>2. ASSUME RequestArrives \/ Listen,
             NEW id \in Ids, TakeRequest(id), listening',
             held' = NoRequest, wire'.type = "none", UNCHANGED mainVars,
             wire' \in [type : {"none", "request", "saved", "failed"}, id : Ids],
             wire.type = "request" \/ held # NoRequest
      PROVE  Inv'
  <2>1. /\ \A d \in Docs : QueueOK(d)' /\ FlushOK(d)'
        /\ TypeOK'
        /\ run'.phase = "flushing"
    BY <1>1, <1>2, TakenOK DEF TypeOK, TakeRequest, mainVars
  <2>2. pending # NoRequest /\ window = "open"
    BY <1>1, <1>2 DEF OneRequest
  <2>3. OneRequest'
    BY <1>2, <2>1, <2>2 DEF OneRequest, mainVars
  <2>4. AnswerOK'
    BY <1>2, <2>1, <2>2 DEF AnswerOK, mainVars
  <2> QED
    BY <2>1, <2>3, <2>4 DEF Inv
<1>3. CASE RequestArrives /\ listening
  <2>1. wire.id \in Ids /\ wire.type = "request" /\ held = NoRequest
    BY <1>1, <1>3 DEF RequestArrives, TypeOK, OneRequest
  <2> QED
    BY <1>1, <1>2, <1>3, <2>1 DEF RequestArrives, TypeOK, Nothing, Ids
<1>4. CASE RequestArrives /\ ~listening
  <2>1. TypeOK'
    BY <1>1, <1>4 DEF RequestArrives, TypeOK, queueVars, runVars, mainVars,
                      Nothing, Ids
  <2>2. \A d \in Docs : QueueOK(d)' /\ FlushOK(d)'
    BY <1>4 DEF Inv, RequestArrives, QueueOK, FlushOK, queueVars, runVars
  <2>3. OneRequest' /\ AnswerOK'
    BY <1>1, <1>4 DEF RequestArrives, OneRequest, AnswerOK, queueVars, runVars,
                      mainVars, Nothing
  <2> QED
    BY <2>1, <2>2, <2>3 DEF Inv
<1>5. CASE Listen /\ held # NoRequest
  <2>1. held \in Ids /\ wire.type = "none"
    BY <1>1, <1>5 DEF TypeOK, OneRequest
  <2> QED
    BY <1>1, <1>2, <1>5, <2>1 DEF Listen, TypeOK
<1>6. CASE Listen /\ held = NoRequest
  BY <1>1, <1>6 DEF Inv, Listen, TypeOK, QueueOK, FlushOK, OneRequest, AnswerOK,
                    queueVars, runVars, mainVars
<1>7. CASE FlushesResolve
  BY <1>1, <1>7 DEF Inv, FlushesResolve, TypeOK, QueueOK, FlushOK, OneRequest,
                    AnswerOK, queueVars, mainVars
<1>8. CASE FlushRejects \/ FinishSucceeds \/ FinishFails
  <2>1. PICK status \in {"saved", "failed"} :
            /\ Complete(status)
            /\ run.phase # "none"
            /\ status = "saved" => run.phase = "finishing"
    BY <1>8 DEF FlushRejects, FinishSucceeds, FinishFails
  <2>2. TypeOK'
    BY <1>1, <2>1 DEF Complete, TypeOK, queueVars, mainVars, Ids
  <2>3. \A d \in Docs : QueueOK(d)' /\ FlushOK(d)'
    BY <2>1 DEF Inv, Complete, QueueOK, FlushOK, queueVars
  <2>4. OneRequest'
    BY <1>1, <2>1 DEF Complete, OneRequest, mainVars
  <2>5. AnswerOK'
    <3>1. status = "saved" => \A d \in Docs : ~interrupted[d] => saved[d] >= atRequest[d]
      BY <1>1, <2>1 DEF Inv, FlushOK, AnswerOK
    <3> QED
      BY <1>1, <2>1, <3>1 DEF Complete, AnswerOK, OneRequest, queueVars, mainVars
  <2> QED
    BY <2>2, <2>3, <2>4, <2>5 DEF Inv
<1> QED
  BY <1>3, <1>4, <1>5, <1>6, <1>7, <1>8

-----------------------------------------------------------------------------
(* The inductive invariant: the request is at one place, and every flush   *)
(* knows what it waits for.                                                *)
THEOREM Invariance == Spec => []Inv
<1>1. Init => Inv
  <2> SUFFICES ASSUME Init PROVE Inv
    OBVIOUS
  <2>1. TypeOK
    <3>1. composing \in [Docs -> BOOLEAN] /\ interrupted \in [Docs -> BOOLEAN]
      BY Zenon DEF Init
    <3>2. /\ typed \in [Docs -> 0 .. MaxEdits] /\ sent \in [Docs -> 0 .. MaxEdits]
          /\ saved \in [Docs -> 0 .. MaxEdits] /\ atRequest \in [Docs -> 0 .. MaxEdits]
      <4>1. /\ typed = [d \in Docs |-> 0] /\ sent = [d \in Docs |-> 0]
            /\ saved = [d \in Docs |-> 0] /\ atRequest = [d \in Docs |-> 0]
        BY DEF Init
      <4> QED
        BY <4>1, ConstantsAssumption
    <3>3. /\ flight \in [Docs -> {"none", "sent", "failed"}]
          /\ flushes \in [Docs -> {"idle", "awaiting", "again", "done", "rejected"}]
      <4>1. flight = [d \in Docs |-> "none"] /\ flushes = [d \in Docs |-> "idle"]
        BY DEF Init
      <4> QED
        BY <4>1
    <3>4. /\ listening = FALSE /\ held = NoRequest /\ pending = NoRequest
          /\ wire = [type |-> "none", id |-> 0] /\ requests = 0
          /\ run = [phase |-> "none", id |-> 0] /\ window = "open"
      BY DEF Init, Nothing
    <3>5. /\ listening \in BOOLEAN
          /\ held \in Ids \cup {NoRequest} /\ pending \in Ids \cup {NoRequest}
          /\ window \in {"open", "closing", "closed"}
      BY <3>4
    <3>6. /\ wire \in [type : {"none", "request", "saved", "failed"}, id : Ids]
          /\ run \in [phase : {"none", "flushing", "finishing"}, id : Ids]
          /\ requests \in Ids
      BY <3>4, ConstantsAssumption DEF Ids
    <3> QED
      BY <3>1, <3>2, <3>3, <3>5, <3>6 DEF TypeOK
  <2>2. \A d \in Docs : QueueOK(d) /\ FlushOK(d)
    <3> SUFFICES ASSUME NEW d \in Docs PROVE QueueOK(d) /\ FlushOK(d)
      OBVIOUS
    <3>1. ~composing[d]
      BY Zenon DEF Init
    <3>2. /\ typed[d] = 0 /\ sent[d] = 0 /\ saved[d] = 0 /\ atRequest[d] = 0
          /\ flushes[d] = "idle"
      BY Zenon DEF Init
    <3> QED
      BY <3>1, <3>2 DEF QueueOK, FlushOK
  <2>3. OneRequest /\ AnswerOK
    BY ConstantsAssumption DEF Init, OneRequest, AnswerOK, Nothing
  <2> QED
    BY <2>1, <2>2, <2>3 DEF Inv
<1>2. Inv /\ [Next]_vars => Inv'
  <2> SUFFICES ASSUME Inv, [Next]_vars PROVE Inv'
    OBVIOUS
  <2>1. CASE Next
    BY <2>1, QueueStep, MainStep, RendererStep DEF Next
  <2>2. CASE UNCHANGED vars
    BY <2>2 DEF Inv, TypeOK, QueueOK, FlushOK, OneRequest, AnswerOK, vars,
                queueVars, mainVars, runVars
  <2> QED
    BY <2>1, <2>2
<1> QED
  BY <1>1, <1>2, PTL DEF Spec

(* Type correctness of the close handshake, for every set of documents and *)
(* any number of edits and requests.                                       *)
THEOREM TypeCorrect == Spec => []TypeOK
<1>1. Inv => TypeOK
  BY DEF Inv
<1> QED
  BY <1>1, Invariance, PTL

(* A window that was allowed to close had saved, in every document no      *)
(* composition began in, all that was typed when the renderer took the     *)
(* request (the close handler of main.ts and flushForClose).               *)
THEOREM ClosingLosesNothing == Spec => []ClosedMeansFlushed
<1>1. Inv => ClosedMeansFlushed
  BY DEF Inv, AnswerOK, ClosedMeansFlushed
<1> QED
  BY <1>1, Invariance, PTL

=============================================================================
