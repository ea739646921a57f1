--------------------------- MODULE FocusTimerProofs ---------------------------
(***************************************************************************)
(* Proofs about FocusTimer for every set of plans and every bound.          *)
(*                                                                         *)
(* The invariant says of each phase by itself what its fields mean and that *)
(* its time adds up (PhaseOK), and of all of them that only one is active.  *)
(* Every command puts phases together with four operators, Completed,       *)
(* Paused, Resumed and Stopped, and appends at most one new phase: each of  *)
(* them has a lemma, and the lemma StoreStep concludes for the store.  That *)
(* phases follow their plan is shown from the kind of the store's step and  *)
(* what it leaves of the phases before each phase (PlannedAt).              *)
(***************************************************************************)
EXTENDS FocusTimer, SequenceTheorems, FiniteSetTheorems, TLAPS

PhaseOK(c, ps, t) ==
    /\ c \in Cycle
    /\ c.policy \in 1..Len(ps)
    /\ c.state = "running" => /\ c.deadline \in Nat
                              /\ c.since <= c.deadline /\ c.since <= t
    /\ c.state \in {"paused", "stopped"} => c.remaining \in Nat
    /\ c.ran + Left(c) = IF c.phase = "work" THEN ps[c.policy].work
                                             ELSE ps[c.policy].rest

StoreOK(ps, cs, t) ==
    /\ t \in Nat
    /\ ps \in Seq(Plans)
    /\ cs \in Seq(Cycle)
    /\ \A i \in 1..Len(cs) : PhaseOK(cs[i], ps, t)
    /\ \A i, j \in 1..Len(cs) : Active(cs[i]) /\ Active(cs[j]) => i = j
    /\ \A i \in 1..Len(cs) : Active(cs[i]) => cs[i].policy = Len(ps)

(* The plan that waits to be configured is one an author may choose.       *)
CallsOK ==
    /\ DOMAIN call = Callers
    /\ \A who \in Callers : call[who].kind = "configure" => call[who].plan \in Plans

Inv == StoreOK(policies, cycles, now) /\ CallsOK

-----------------------------------------------------------------------------
(* Each operator on one phase keeps PhaseOK, and leaves its policy alone.  *)

(* A phase whose deadline has come is completed as it should be            *)
(* (completePhase).                                                        *)
LEMMA CompletedOK ==
    ASSUME NEW c, NEW ps \in Seq(Plans), now \in Nat,
           PhaseOK(c, ps, now), c.state = "running"
    PROVE  /\ PhaseOK(Completed(c), ps, now)
           /\ Completed(c).state = "completed"
           /\ Completed(c).policy = c.policy
<1> DEFINE d == Completed(c)
<1>1. /\ c \in Cycle /\ c.deadline \in Nat /\ c.since \in Nat /\ c.ran \in Nat
      /\ c.since <= c.deadline
  BY DEF PhaseOK, Cycle
<1>2. /\ d.policy = c.policy /\ d.phase = c.phase /\ d.state = "completed"
      /\ d.ran = c.ran + (c.deadline - c.since)
  BY <1>1 DEF Completed, Cycle
<1>3. \A x \in Nat :
          [c EXCEPT !.state = "completed", !.reason = None, !.deadline = None,
                    !.remaining = None, !.since = 0, !.ran = x] \in Cycle
  BY <1>1, Zenon DEF Cycle
<1>4. d \in Cycle
  <2>1. c.ran + (c.deadline - c.since) \in Nat
    BY <1>1
  <2> QED
    BY <1>3, <2>1 DEF Completed
<1>5. Left(c) = c.deadline - c.since /\ Left(d) = 0
  BY <1>2 DEF Left
<1> HIDE DEF d
<1>6. PhaseOK(d, ps, now)
  BY <1>1, <1>2, <1>4, <1>5 DEF PhaseOK
<1> QED
  BY <1>2, <1>6 DEF d

(* A pause, by the author or by a launch, keeps what is left of the phase. *)
LEMMA PausedOK ==
    ASSUME NEW c, NEW reason \in {"manual", "restore"}, NEW ps \in Seq(Plans),
           now \in Nat, PhaseOK(c, ps, now), c.state = "running",
           Remaining(c) # 0
    PROVE  /\ PhaseOK(Paused(c, reason), ps, now)
           /\ Paused(c, reason).state = "paused"
           /\ Paused(c, reason).policy = c.policy
<1> DEFINE d == Paused(c, reason)
<1>1. /\ c \in Cycle /\ c.deadline \in Nat /\ c.since \in Nat /\ c.ran \in Nat
      /\ c.since <= now
  BY DEF PhaseOK, Cycle
<1>2. Remaining(c) \in Nat /\ Remaining(c) = c.deadline - now
  BY <1>1 DEF Remaining
<1>3. /\ d.policy = c.policy /\ d.phase = c.phase /\ d.state = "paused"
      /\ d.remaining = Remaining(c) /\ d.ran = c.ran + (now - c.since)
  BY <1>1 DEF Paused, Cycle
<1>4. \A x, y \in Nat :
          [c EXCEPT !.state = "paused", !.reason = reason, !.deadline = None,
                    !.remaining = y, !.since = 0, !.ran = x] \in Cycle
  BY <1>1, Zenon DEF Cycle
<1>5. d \in Cycle
  <2>1. c.ran + (now - c.since) \in Nat
    BY <1>1
  <2> QED
    BY <1>2, <1>4, <2>1 DEF Paused
<1>6. Left(c) = c.deadline - c.since /\ Left(d) = Remaining(c)
  BY <1>3 DEF Left
<1> HIDE DEF d
<1>7. PhaseOK(d, ps, now)
  BY <1>1, <1>2, <1>3, <1>5, <1>6 DEF PhaseOK
<1> QED
  BY <1>3, <1>7 DEF d

(* A phase that is resumed has the deadline its remaining time gives it.   *)
LEMMA ResumedOK ==
    ASSUME NEW c, NEW ps \in Seq(Plans), now \in Nat,
           PhaseOK(c, ps, now), c.state = "paused"
    PROVE  /\ PhaseOK(Resumed(c), ps, now)
           /\ Resumed(c).policy = c.policy
<1> DEFINE d == Resumed(c)
<1>1. c \in Cycle /\ c.remaining \in Nat /\ c.ran \in Nat
  BY DEF PhaseOK, Cycle
<1>2. /\ d.policy = c.policy /\ d.phase = c.phase /\ d.state = "running"
      /\ d.deadline = now + c.remaining /\ d.since = now /\ d.ran = c.ran
  BY <1>1 DEF Resumed, Cycle
<1>3. \A x, y \in Nat :
          [c EXCEPT !.state = "running", !.reason = None,
                    !.deadline = x, !.remaining = None, !.since = y] \in Cycle
  BY <1>1, Zenon DEF Cycle
<1>4. d \in Cycle
  <2>1. now + c.remaining \in Nat
    BY <1>1
  <2> QED
    BY <1>3, <2>1 DEF Resumed
<1>5. Left(c) = c.remaining /\ Left(d) = d.deadline - d.since
  BY <1>2 DEF Left
<1> HIDE DEF d
<1>6. PhaseOK(d, ps, now)
  BY <1>1, <1>2, <1>4, <1>5 DEF PhaseOK
<1> QED
  BY <1>2, <1>6 DEF d

(* A stop keeps the time that an active phase has run.                     *)
LEMMA StoppedOK ==
    ASSUME NEW c, NEW ps \in Seq(Plans), now \in Nat,
           PhaseOK(c, ps, now), Active(c)
    PROVE  /\ PhaseOK(Stopped(c), ps, now)
           /\ Stopped(c).state = "stopped"
           /\ Stopped(c).policy = c.policy
<1> DEFINE d == Stopped(c)
           left == IF c.state = "paused" THEN c.remaining ELSE Remaining(c)
           ran == IF c.state = "running"
                  THEN c.ran + IF c.deadline > now THEN now - c.since
                                                   ELSE c.deadline - c.since
                  ELSE c.ran
<1>1. /\ c \in Cycle /\ c.since \in Nat /\ c.ran \in Nat
      /\ c.state = "running" => c.deadline \in Nat /\ c.since <= c.deadline
                                /\ c.since <= now
      /\ c.state = "paused" => c.remaining \in Nat
      /\ c.state \in {"running", "paused"}
  BY DEF PhaseOK, Cycle, Active
<1>2. left \in Nat /\ ran \in Nat
  BY <1>1 DEF Remaining
<1>3. /\ d.policy = c.policy /\ d.phase = c.phase /\ d.state = "stopped"
      /\ d.remaining = left /\ d.ran = ran
  BY <1>1 DEF Stopped, Cycle
<1>4. \A x, y \in Nat :
          [c EXCEPT !.state = "stopped", !.reason = None, !.deadline = None,
                    !.since = 0, !.remaining = y, !.ran = x] \in Cycle
  BY <1>1, Zenon DEF Cycle
<1>5. d \in Cycle
  BY <1>2, <1>4 DEF Stopped
<1>6. c.ran + Left(c) = ran + left
  BY <1>1 DEF Left, Remaining
<1>7. Left(d) = left
  BY <1>3 DEF Left
<1> HIDE DEF d, left, ran
<1>8. PhaseOK(d, ps, now)
  BY <1>1, <1>2, <1>3, <1>5, <1>6, <1>7 DEF PhaseOK
<1> QED
  BY <1>3, <1>8 DEF d

(* A new phase, running or waiting, has its whole target left.             *)
LEMMA PhaseIsOK ==
    ASSUME NEW ps \in Seq(Plans), NEW p \in 1..Len(ps), now \in Nat,
           NEW phase \in {"work", "rest"}, NEW running \in BOOLEAN,
           NEW reason \in {"restore", "phase-complete", None},
           NEW target \in Nat,
           target = IF phase = "work" THEN ps[p].work ELSE ps[p].rest
    PROVE  /\ PhaseOK(Phase(p, phase, target, running, reason), ps, now)
           /\ Phase(p, phase, target, running, reason).policy = p
           /\ ~running => Phase(p, phase, target, running, reason).state = "paused"
BY DEF PhaseOK, Phase, Left, Cycle

-----------------------------------------------------------------------------
(* Sequences of phases.                                                     *)

(* An active phase may change while its policy stays.                      *)
LEMMA ReplacedOK ==
    ASSUME NEW ps, NEW cs, NEW t, StoreOK(ps, cs, t),
           NEW i \in 1..Len(cs), NEW c, PhaseOK(c, ps, t),
           Active(cs[i]), c.policy = cs[i].policy
    PROVE  LET ds == [cs EXCEPT ![i] = c]
           IN  /\ StoreOK(ps, ds, t)
               /\ Len(ds) = Len(cs)
               /\ \A j \in 1..Len(ds) : ds[j] = IF j = i THEN c ELSE cs[j]
               /\ \A j \in 1..Len(ds) : j # i => ~Active(ds[j])
<1> DEFINE ds == [cs EXCEPT ![i] = c]
<1>1. cs \in Seq(Cycle) /\ c \in Cycle
  BY DEF StoreOK, PhaseOK
<1>2. /\ ds \in Seq(Cycle) /\ Len(ds) = Len(cs)
      /\ \A j \in 1..Len(ds) : ds[j] = IF j = i THEN c ELSE cs[j]
  BY <1>1, ExceptSeq
<1> HIDE DEF ds
<1>3. \A j \in 1..Len(ds) : j # i => ~Active(ds[j])
  BY <1>2 DEF StoreOK
<1>4. StoreOK(ps, ds, t)
  <2>1. \A j \in 1..Len(ds) : PhaseOK(ds[j], ps, t)
    BY <1>2 DEF StoreOK
  <2>2. \A j, k \in 1..Len(ds) : Active(ds[j]) /\ Active(ds[k]) => j = k
    BY <1>3
  <2>3. \A j \in 1..Len(ds) : Active(ds[j]) => ds[j].policy = Len(ps)
    BY <1>2, <1>3 DEF StoreOK
  <2> QED
    BY <1>2, <2>1, <2>2, <2>3 DEF StoreOK
<1> QED
  BY <1>2, <1>3, <1>4 DEF ds

(* A phase of the current policy may be added when none is active.         *)
LEMMA AppendedOK ==
    ASSUME NEW ps, NEW cs, NEW t, StoreOK(ps, cs, t), NEW c,
           PhaseOK(c, ps, t), c.policy = Len(ps),
           \A i \in 1..Len(cs) : ~Active(cs[i])
    PROVE  /\ StoreOK(ps, Append(cs, c), t)
           /\ Len(Append(cs, c)) = Len(cs) + 1
           /\ \A j \in 1..Len(cs) : Append(cs, c)[j] = cs[j]
           /\ Append(cs, c)[Len(cs) + 1] = c
<1> DEFINE ds == Append(cs, c)
<1>1. cs \in Seq(Cycle) /\ c \in Cycle
  BY DEF StoreOK, PhaseOK
<1>2. /\ ds \in Seq(Cycle) /\ Len(ds) = Len(cs) + 1 /\ Len(cs) \in Nat
      /\ \A j \in 1..Len(cs) : ds[j] = cs[j]
      /\ ds[Len(cs) + 1] = c
  BY <1>1, AppendProperties
<1> HIDE DEF ds
<1>3. \A j \in 1..Len(ds) : \/ j \in 1..Len(cs) /\ ds[j] = cs[j]
                            \/ j = Len(cs) + 1 /\ ds[j] = c
  BY <1>2
<1>4. \A j \in 1..Len(ds) : PhaseOK(ds[j], ps, t)
  BY <1>3 DEF StoreOK
<1>5. \A j \in 1..Len(ds) : Active(ds[j]) => j = Len(cs) + 1
  BY <1>3
<1>6. \A j \in 1..Len(ds) : Active(ds[j]) => ds[j].policy = Len(ps)
  BY <1>2, <1>5
<1>7. StoreOK(ps, ds, t)
  BY <1>2, <1>4, <1>5, <1>6 DEF StoreOK
<1> QED
  BY <1>2, <1>7 DEF ds

(* The successor of a phase, if there is one, is a phase of its policy, and *)
(* a restore pauses it.                                                    *)
LEMMA SuccessorOK ==
    ASSUME NEW cs, NEW c, NEW restore \in BOOLEAN,
           now \in Nat, policies \in Seq(Plans), PhaseOK(c, policies, now)
    PROVE  \/ Successor(cs, c, restore) = <<>>
           \/ \E d : /\ Successor(cs, c, restore) = <<d>>
                     /\ PhaseOK(d, policies, now) /\ d.policy = c.policy
                     /\ restore => d.state = "paused"
<1> DEFINE p == c.policy
           phase == IF c.phase = "work" THEN "rest" ELSE "work"
           running == ~restore /\ policies[p].auto
           reason == IF restore THEN "restore" ELSE "phase-complete"
           d == Phase(p, phase, Target(p, phase), running, reason)
<1>1. p \in 1..Len(policies) /\ policies[p] \in Plans
  BY DEF PhaseOK
<1>2. /\ policies[p].work \in Nat /\ policies[p].rest \in Nat
      /\ policies[p].auto \in BOOLEAN
  BY <1>1, ConstantsAssumption
<1>3. /\ phase \in {"work", "rest"} /\ running \in BOOLEAN
      /\ reason \in {"restore", "phase-complete", None}
      /\ Target(p, phase) \in Nat
      /\ Target(p, phase) = IF phase = "work" THEN policies[p].work
                                              ELSE policies[p].rest
  BY <1>2 DEF Target
<1>4. restore => ~running
  OBVIOUS
<1>5. Successor(cs, c, restore) \in {<<>>, <<d>>}
  BY DEF Successor
<1> HIDE DEF phase, running, reason, p
<1>6. PhaseOK(d, policies, now) /\ d.policy = p /\ (~running => d.state = "paused")
  BY <1>1, <1>3, PhaseIsOK
<1> HIDE DEF d
<1> QED
  BY <1>4, <1>5, <1>6 DEF p

(* A transition leaves at most the new phase active.                       *)
LEMMA TransitionOK ==
    ASSUME StoreOK(policies, cycles, now), NEW restore \in BOOLEAN,
           NEW i \in 1..Len(cycles), cycles[i].state = "running"
    PROVE  LET ds == Transition(i, restore)
           IN  /\ StoreOK(policies, ds, now)
               /\ restore => \A j \in 1..Len(ds) : ds[j].state # "running"
<1> DEFINE c == cycles[i]
           cs == [cycles EXCEPT ![i] = Completed(c)]
           next == Successor(cs, c, restore)
<1>1. /\ now \in Nat /\ policies \in Seq(Plans) /\ PhaseOK(c, policies, now)
      /\ Active(c) /\ c.policy = Len(policies)
  BY DEF StoreOK, Active
<1>2. /\ PhaseOK(Completed(c), policies, now) /\ Completed(c).state = "completed"
      /\ Completed(c).policy = c.policy
  BY <1>1, CompletedOK
<1>3. /\ StoreOK(policies, cs, now)
      /\ \A j \in 1..Len(cs) : ~Active(cs[j])
  <2>1. /\ StoreOK(policies, cs, now)
        /\ \A j \in 1..Len(cs) : cs[j] = IF j = i THEN Completed(c) ELSE cycles[j]
        /\ \A j \in 1..Len(cs) : j # i => ~Active(cs[j])
    BY <1>1, <1>2, ReplacedOK
  <2> HIDE DEF cs
  <2> QED
    BY <1>2, <2>1 DEF Active
<1>4. cs \in Seq(Cycle)
  BY <1>3 DEF StoreOK
<1>5. Transition(i, restore) = cs \o next
  BY DEF Transition
<1> HIDE DEF cs
<1>6. CASE next = <<>>
  <2>1. cs \o next = cs
    BY <1>4, <1>6, ConcatEmptySeq
  <2> QED
    BY <1>3, <1>5, <2>1 DEF Active
<1>7. ASSUME NEW d, next = <<d>>, PhaseOK(d, policies, now), d.policy = c.policy,
             restore => d.state = "paused"
      PROVE  LET ds == Transition(i, restore)
             IN  /\ StoreOK(policies, ds, now)
                 /\ restore => \A j \in 1..Len(ds) : ds[j].state # "running"
  <2>1. d \in Cycle
    BY <1>7 DEF PhaseOK
  <2>2. cs \o next = Append(cs, d)
    BY <1>4, <1>7, <2>1, AppendIsConcat
  <2>3. /\ StoreOK(policies, Append(cs, d), now)
        /\ Len(Append(cs, d)) = Len(cs) + 1
        /\ \A j \in 1..Len(cs) : Append(cs, d)[j] = cs[j]
        /\ Append(cs, d)[Len(cs) + 1] = d
    BY <1>1, <1>3, <1>7, AppendedOK
  <2>4. Len(cs) \in Nat
    BY <1>4, LenProperties
  <2>5. ASSUME restore, NEW j \in 1..Len(Append(cs, d))
        PROVE  Append(cs, d)[j].state # "running"
    <3>1. CASE j \in 1..Len(cs)
      BY <1>3, <2>3, <3>1 DEF Active
    <3>2. CASE j = Len(cs) + 1
      BY <1>7, <2>3, <2>5, <3>2
    <3> QED
      BY <2>3, <2>4, <2>5, <3>1, <3>2
  <2> QED
    BY <1>5, <2>2, <2>3, <2>5
<1>8. \/ next = <<>>
      \/ \E d : /\ next = <<d>> /\ PhaseOK(d, policies, now) /\ d.policy = c.policy
                /\ restore => d.state = "paused"
  BY <1>1, SuccessorOK
<1> QED
  BY <1>6, <1>7, <1>8

-----------------------------------------------------------------------------
(* The steps.                                                              *)

(* What a call leaves of the calls.                                        *)
LEMMA AnswersOK ==
    ASSUME CallsOK, NEW who \in Callers, NEW ok, NEW ps, NEW cs,
           Answers(who, ok, ps, cs), StoreOK(ps, cs, now)
    PROVE  Inv'
<1>1. StoreOK(policies, cycles, now)'
  BY DEF Answers
<1>2. CallsOK'
  BY DEF Answers, CallsOK, Idle
<1> QED
  BY <1>1, <1>2 DEF Inv

(* What the store says of the phases, for an index of any kind.            *)
LEMMA Running ==
    ASSUME NEW i, StoreOK(policies, cycles, now), i \in DOMAIN cycles
    PROVE  i \in 1..Len(cycles) /\ PhaseOK(cycles[i], policies, now)
BY DEF StoreOK

(* A new timer is stored only when no phase is active.                     *)
LEMMA ConfigureStep == Inv /\ RunConfigure => Inv'
<1> SUFFICES ASSUME Inv, RunConfigure PROVE Inv'
  OBVIOUS
<1> DEFINE plan == call["author"].plan
           ps == Append(policies, plan)
           p == Len(policies) + 1
           first == [Phase(p, "work", plan.work, TRUE, None) EXCEPT !.policy = p]
<1>1. /\ now \in Nat /\ policies \in Seq(Plans) /\ cycles \in Seq(Cycle) /\ CallsOK
      /\ plan \in Plans
  BY DEF Inv, StoreOK, CallsOK, RunConfigure, Turn, Callers
<1>2. /\ ps \in Seq(Plans) /\ Len(ps) = p /\ Len(policies) \in Nat
      /\ \A k \in 1..Len(policies) : ps[k] = policies[k]
      /\ ps[p] = plan
  BY <1>1, AppendProperties
<1>3. CASE \E i \in DOMAIN cycles : Active(cycles[i])
  BY <1>3, AnswersOK DEF RunConfigure, Rejects, Inv, Callers
<1>4. CASE ~\E i \in DOMAIN cycles : Active(cycles[i])
  <2>1. plan.work \in Nat
    BY <1>1, ConstantsAssumption
  <2>2. p \in 1..Len(ps)
    BY <1>2
  <2>3. PhaseOK(first, ps, now) /\ first.policy = p
    <3>1. /\ PhaseOK(Phase(p, "work", plan.work, TRUE, None), ps, now)
          /\ Phase(p, "work", plan.work, TRUE, None).policy = p
      BY <1>1, <1>2, <2>1, <2>2 DEF PhaseOK, Phase, Left, Cycle
    <3>2. first = Phase(p, "work", plan.work, TRUE, None)
      BY <3>1 DEF Phase
    <3> QED
      BY <3>1, <3>2
  <2>4. StoreOK(ps, cycles, now)
    <3>1. ASSUME NEW c, PhaseOK(c, policies, now)
          PROVE  PhaseOK(c, ps, now)
      <4>1. /\ c.policy \in 1..Len(ps)
            /\ ps[c.policy] = policies[c.policy]
        BY <1>2, <3>1 DEF PhaseOK
      <4> HIDE DEF ps, p
      <4> QED
        BY <3>1, <4>1 DEF PhaseOK
    <3> QED
      BY <1>1, <1>2, <1>4, <3>1 DEF StoreOK, Inv
  <2>5. \A i \in 1..Len(cycles) : ~Active(cycles[i])
    BY <1>1, <1>4
  <2> HIDE DEF ps, first, p, plan
  <2>6. StoreOK(ps, Append(cycles, first), now)
    BY <1>2, <2>3, <2>4, <2>5, AppendedOK
  <2>7. Answers("author", TRUE, ps, Append(cycles, first))
    BY <1>4 DEF RunConfigure, ps, first, p, plan
  <2> QED
    BY <1>1, <2>6, <2>7, AnswersOK DEF Callers
<1> QED
  BY <1>3, <1>4

(* A pause replaces the phase it names, if that is still running.          *)
LEMMA PauseStep == Inv /\ RunPause => Inv'
<1> SUFFICES ASSUME Inv, RunPause PROVE Inv'
  OBVIOUS
<1> DEFINE i == call["author"].cycle
<1>1. StoreOK(policies, cycles, now) /\ CallsOK /\ "author" \in Callers
  BY DEF Inv, Callers
<1>2. CASE ~(IsCurrent(i) /\ cycles[i].state = "running")
  BY <1>1, <1>2, AnswersOK DEF RunPause, Rejects
<1>3. ASSUME IsCurrent(i), cycles[i].state = "running"
      PROVE  /\ i \in 1..Len(cycles) /\ PhaseOK(cycles[i], policies, now)
             /\ Active(cycles[i])
  BY <1>1, <1>3, Running DEF IsCurrent, Active
<1>4. CASE /\ IsCurrent(i) /\ cycles[i].state = "running"
           /\ Remaining(cycles[i]) = 0
  <2>1. Answers("author", TRUE, policies, Transition(i, FALSE))
    BY <1>4 DEF RunPause
  <2>2. StoreOK(policies, Transition(i, FALSE), now)
    BY <1>1, <1>3, <1>4, TransitionOK
  <2> QED
    BY <1>1, <2>1, <2>2, AnswersOK
<1>5. CASE /\ IsCurrent(i) /\ cycles[i].state = "running"
           /\ Remaining(cycles[i]) # 0
  <2> DEFINE c == Paused(cycles[i], "manual")
  <2>1. Answers("author", TRUE, policies, [cycles EXCEPT ![i] = c])
    BY <1>5 DEF RunPause
  <2>2. PhaseOK(c, policies, now) /\ c.policy = cycles[i].policy
    BY <1>1, <1>3, <1>5, PausedOK DEF StoreOK
  <2> HIDE DEF c
  <2>3. StoreOK(policies, [cycles EXCEPT ![i] = c], now)
    BY <1>1, <1>3, <1>5, <2>2, ReplacedOK
  <2> QED
    BY <1>1, <2>1, <2>3, AnswersOK
<1> QED
  BY <1>2, <1>4, <1>5

(* A resumption replaces the phase it names, if that is still paused.      *)
LEMMA ResumeStep == Inv /\ RunResume => Inv'
<1> SUFFICES ASSUME Inv, RunResume PROVE Inv'
  OBVIOUS
<1> DEFINE i == call["author"].cycle
           c == Resumed(cycles[i])
<1>1. StoreOK(policies, cycles, now) /\ CallsOK /\ "author" \in Callers
  BY DEF Inv, Callers
<1>2. CASE IsCurrent(i) /\ cycles[i].state = "paused" /\ cycles[i].remaining > 0
  <2>1. /\ i \in 1..Len(cycles) /\ PhaseOK(cycles[i], policies, now)
        /\ Active(cycles[i])
    BY <1>1, <1>2, Running DEF IsCurrent, Active
  <2>2. PhaseOK(c, policies, now) /\ c.policy = cycles[i].policy
    BY <1>1, <1>2, <2>1, ResumedOK DEF StoreOK
  <2>3. Answers("author", TRUE, policies, [cycles EXCEPT ![i] = c])
    BY <1>2 DEF RunResume
  <2> HIDE DEF c
  <2>4. StoreOK(policies, [cycles EXCEPT ![i] = c], now)
    BY <1>1, <2>1, <2>2, ReplacedOK
  <2> QED
    BY <1>1, <2>3, <2>4, AnswersOK
<1>3. CASE ~(IsCurrent(i) /\ cycles[i].state = "paused" /\ cycles[i].remaining > 0)
  BY <1>1, <1>3, AnswersOK DEF RunResume, Rejects
<1> QED
  BY <1>2, <1>3

(* Notes and queries leave the phases alone.                               *)
LEMMA NoteStep == Inv /\ (RunNote \/ RunQuery) => Inv'
<1> SUFFICES ASSUME Inv, RunNote \/ RunQuery PROVE Inv'
  OBVIOUS
<1>1. StoreOK(policies, cycles, now) /\ CallsOK
  BY DEF Inv
<1>2. \E who \in Callers, ok \in BOOLEAN : Answers(who, ok, policies, cycles)
  BY DEF RunNote, RunQuery, Rejects, Callers
<1> QED
  BY <1>1, <1>2, AnswersOK

(* A stop ends the phase it names, if that is still active.                *)
LEMMA StopStep == Inv /\ RunStop => Inv'
<1> SUFFICES ASSUME Inv, RunStop PROVE Inv'
  OBVIOUS
<1> DEFINE i == call["author"].cycle
           c == Stopped(cycles[i])
<1>1. StoreOK(policies, cycles, now) /\ CallsOK /\ "author" \in Callers
  BY DEF Inv, Callers
<1>2. CASE IsCurrent(i) /\ Active(cycles[i])
  <2>1. i \in 1..Len(cycles) /\ PhaseOK(cycles[i], policies, now)
    BY <1>1, <1>2, Running DEF IsCurrent
  <2>2. PhaseOK(c, policies, now) /\ c.policy = cycles[i].policy
    BY <1>1, <1>2, <2>1, StoppedOK DEF StoreOK
  <2>3. Answers("author", TRUE, policies, [cycles EXCEPT ![i] = c])
    BY <1>2 DEF RunStop
  <2> HIDE DEF c
  <2>4. StoreOK(policies, [cycles EXCEPT ![i] = c], now)
    BY <1>1, <1>2, <2>1, <2>2, ReplacedOK
  <2> QED
    BY <1>1, <2>3, <2>4, AnswersOK
<1>3. CASE ~(IsCurrent(i) /\ Active(cycles[i]))
  BY <1>1, <1>3, AnswersOK DEF RunStop, Rejects
<1> QED
  BY <1>2, <1>3

(* A reconciliation completes a due phase and adds the next one, which     *)
(* waits.                                                                  *)
LEMMA ReconcileStep == Inv /\ RunReconcile => Inv'
<1> SUFFICES ASSUME Inv, RunReconcile PROVE Inv'
  OBVIOUS
<1> DEFINE i == call["reconcile"].cycle
<1>1. StoreOK(policies, cycles, now) /\ CallsOK /\ "reconcile" \in Callers
  BY DEF Inv, Callers
<1>2. CASE ~(IsCurrent(i) /\ cycles[i].state = "running")
  BY <1>1, <1>2, AnswersOK DEF RunReconcile, Rejects
<1>3. CASE IsCurrent(i) /\ cycles[i].state = "running"
  <2>1. i \in 1..Len(cycles)
    BY <1>1, <1>3, Running DEF IsCurrent
  <2>2. StoreOK(policies, Transition(i, FALSE), now)
    BY <1>1, <1>3, <2>1, TransitionOK
  <2>3. \/ Answers("reconcile", TRUE, policies, cycles)
        \/ Answers("reconcile", TRUE, policies, Transition(i, FALSE))
    BY <1>3 DEF RunReconcile
  <2> QED
    BY <1>1, <2>2, <2>3, AnswersOK
<1> QED
  BY <1>2, <1>3

(* The window moves calls and leaves the store alone.                      *)
LEMMA WindowStep ==
    Inv /\ (ClockTick \/ Configure \/ Command \/ ReconcileArrives
            \/ \E who \in Callers : AnswerArrives(who)) => Inv'
<1> SUFFICES ASSUME Inv, \/ ClockTick \/ Configure \/ Command \/ ReconcileArrives
                         \/ \E who \in Callers : AnswerArrives(who)
             PROVE  Inv'
  OBVIOUS
<1>1. now' = now /\ policies' = policies /\ cycles' = cycles
  BY DEF ClockTick, Configure, Command, AuthorAsks, ReconcileArrives, AnswerArrives, store
<1>2. /\ DOMAIN call = Callers
      /\ \A who \in Callers : call[who].kind = "configure" => call[who].plan \in Plans
  BY DEF Inv, CallsOK
<1>3. CASE ClockTick
  BY <1>1, <1>2, <1>3 DEF ClockTick, Sent, Idle, Inv, CallsOK
<1>4. CASE Configure
  BY <1>1, <1>2, <1>4 DEF Configure, AuthorAsks, Sent, Idle, Inv, CallsOK
<1>5. CASE Command
  BY <1>1, <1>2, <1>5 DEF Command, AuthorAsks, Sent, Idle, Inv, CallsOK
<1>6. CASE ReconcileArrives
  BY <1>1, <1>2, <1>6 DEF ReconcileArrives, Show, Idle, Inv, CallsOK
<1>7. CASE \E who \in Callers : AnswerArrives(who)
  BY <1>1, <1>2, <1>7 DEF AnswerArrives, Show, Idle, Inv, CallsOK
<1> QED
  BY <1>3, <1>4, <1>5, <1>6, <1>7

(* Restoring leaves no phase running.                                      *)
LEMMA RestoredOK ==
    ASSUME StoreOK(policies, cycles, now)
    PROVE  /\ StoreOK(policies, Restored, now)
           /\ \A j \in 1..Len(Restored) : Restored[j].state # "running"
<1> DEFINE running == {i \in DOMAIN cycles : cycles[i].state = "running"}
           i == CHOOSE i \in running : TRUE
<1>1. CASE running = {}
  <2>1. Restored = cycles
    BY <1>1 DEF Restored
  <2>2. DOMAIN cycles = 1..Len(cycles)
    BY DEF StoreOK
  <2> QED
    BY <1>1, <2>1, <2>2
<1>2. CASE running # {}
  <2>1. i \in running
    BY <1>2
  <2>2. Restored = IF Remaining(cycles[i]) = 0 THEN Transition(i, TRUE)
                   ELSE [cycles EXCEPT ![i] = Paused(@, "restore")]
    BY <1>2 DEF Restored
  <2>3. /\ i \in 1..Len(cycles) /\ cycles[i].state = "running"
        /\ PhaseOK(cycles[i], policies, now) /\ Active(cycles[i])
    BY <2>1, Running DEF Active
  <2> HIDE DEF i
  <2>4. CASE Remaining(cycles[i]) = 0
    BY <2>2, <2>3, <2>4, TransitionOK
  <2>5. CASE Remaining(cycles[i]) # 0
    <3> DEFINE c == Paused(cycles[i], "restore")
               ds == [cycles EXCEPT ![i] = c]
    <3>1. /\ PhaseOK(c, policies, now) /\ c.state = "paused"
          /\ c.policy = cycles[i].policy
      BY <2>3, <2>5, PausedOK DEF StoreOK
    <3>2. Restored = ds
      BY <2>2, <2>5
    <3> HIDE DEF c
    <3>3. /\ StoreOK(policies, ds, now)
          /\ \A j \in 1..Len(ds) : ds[j] = IF j = i THEN c ELSE cycles[j]
          /\ \A j \in 1..Len(ds) : j # i => ~Active(ds[j])
      BY <2>3, <3>1, ReplacedOK
    <3> HIDE DEF ds
    <3> QED
      BY <3>1, <3>2, <3>3 DEF Active
  <2> QED
    BY <2>4, <2>5
<1> QED
  BY <1>1, <1>2

(* A launch completes or pauses what was running and drops every call.     *)
LEMMA LaunchStep == Inv /\ Launch => Inv'
<1> SUFFICES ASSUME Inv, Launch PROVE Inv'
  OBVIOUS
<1>1. StoreOK(policies, Restored, now)
  BY RestoredOK DEF Inv
<1>2. StoreOK(policies, cycles, now)'
  BY <1>1 DEF Launch
<1>3. CallsOK'
  BY DEF Launch, Sent, Idle, Inv, CallsOK
<1> QED
  BY <1>2, <1>3 DEF Inv

(* The end of the application leaves what is stored.                       *)
LEMMA EndsStep == Inv /\ Ends => Inv'
BY DEF Ends, store, Idle, Inv, CallsOK

(* As time passes, what is left of a running phase only shrinks.           *)
LEMMA TimeStep == Inv /\ TimePasses => Inv'
<1> SUFFICES ASSUME Inv, TimePasses PROVE Inv'
  OBVIOUS
<1>1. /\ now \in Nat /\ now' = now + 1 /\ policies' = policies /\ cycles' = cycles
      /\ call' = call
  BY DEF TimePasses, store, Inv, StoreOK
<1>2. \A i \in 1..Len(cycles) : PhaseOK(cycles[i], policies, now + 1)
  <2>1. SUFFICES ASSUME NEW c, PhaseOK(c, policies, now)
                 PROVE  PhaseOK(c, policies, now + 1)
    BY DEF Inv, StoreOK
  <2>2. c.state = "running" => c.since \in Nat
    BY <2>1 DEF PhaseOK, Cycle
  <2> QED
    BY <1>1, <2>1, <2>2 DEF PhaseOK
<1>3. StoreOK(policies, cycles, now + 1)
  BY <1>1, <1>2 DEF Inv, StoreOK
<1> QED
  BY <1>1, <1>3 DEF Inv, CallsOK

-----------------------------------------------------------------------------
(* At most one phase is active, of the newest plan; each phase has run and *)
(* has left what its plan allots to it (insertPomodoroCycle,               *)
(* restoreRunningPomodoroCycles); and a plan that waits to be configured   *)
(* is one an author may choose.                                            *)
THEOREM Invariance == Spec => []Inv
<1>1. Init => Inv
  BY DEF Init, Inv, StoreOK, CallsOK, Idle
<1>2. Inv /\ [Next]_vars => Inv'
  <2> SUFFICES ASSUME Inv, [Next]_vars PROVE Inv'
    OBVIOUS
  <2>1. CASE Run
    BY <2>1, ConfigureStep, PauseStep, ResumeStep, NoteStep, StopStep, ReconcileStep
       DEF Run
  <2>2. CASE ClockTick \/ Configure \/ Command \/ ReconcileArrives
             \/ \E who \in Callers : AnswerArrives(who)
    BY <2>2, WindowStep
  <2>3. CASE Launch \/ Ends \/ TimePasses
    BY <2>3, LaunchStep, EndsStep, TimeStep
  <2>4. CASE UNCHANGED vars
    BY <2>4 DEF vars, store, Inv, CallsOK
  <2> QED
    BY <2>1, <2>2, <2>3, <2>4 DEF Next
<1> QED
  BY <1>1, <1>2, PTL DEF Spec

(* At most one phase is active, and it belongs to the current policy, for   *)
(* any number of timers, launches and calls: no later call finds two        *)
(* phases to choose from (deriveStoredPomodoroProjection).                  *)
THEOREM OnlyOnePhaseIsActive == Spec => []OneActivePhase
<1>1. Inv => OneActivePhase
  BY DEF Inv, StoreOK, OneActivePhase
<1> QED
  BY <1>1, Invariance, PTL

(* Whatever was paused, resumed, stopped or restarted, the time a phase ran *)
(* and the time that is left of it are its target.                          *)
THEOREM PhaseTimeAddsUp == Spec => []TimeIsCountedOnce
<1>1. Inv => TimeIsCountedOnce
  BY DEF Inv, StoreOK, PhaseOK, TimeIsCountedOnce, Target
<1> QED
  BY <1>1, Invariance, PTL

(* A launch leaves no phase running (restoreRunningPomodoroCycles).         *)
THEOREM LaunchLeavesNothingRunning == Spec => LaunchStopsTimers
<1>1. Inv /\ [Next]_vars =>
          [~open /\ open' => \A i \in DOMAIN cycles' : cycles'[i].state # "running"]_vars
  <2> SUFFICES ASSUME Inv, Next, ~open, open'
               PROVE  \A i \in DOMAIN cycles' : cycles'[i].state # "running"
    OBVIOUS
  <2>1. Launch
    BY DEF Next, Run, RunConfigure, RunPause, RunResume, RunNote, RunStop,
           RunReconcile, RunQuery, Turn, ClockTick, Configure, Command, AuthorAsks,
           AnswerArrives, ReconcileArrives, Ends, TimePasses
  <2>2. /\ StoreOK(policies, Restored, now)
        /\ \A j \in 1..Len(Restored) : Restored[j].state # "running"
    BY RestoredOK DEF Inv
  <2>3. cycles' = Restored
    BY <2>1 DEF Launch
  <2>4. DOMAIN Restored = 1..Len(Restored)
    BY <2>2 DEF StoreOK
  <2> QED
    BY <2>2, <2>3, <2>4
<1> QED
  BY <1>1, Invariance, PTL DEF Spec, LaunchStopsTimers
-----------------------------------------------------------------------------
(* The plan.  Steps change the store in three ways only: an active phase    *)
(* becomes another state of that phase, a running one is completed and may  *)
(* get a successor, and a new timer begins when no phase is active.         *)

Replaces ==
    /\ policies' = policies
    /\ \E i \in 1..Len(cycles), c \in Cycle :
           /\ Active(cycles[i])
           /\ c.policy = cycles[i].policy /\ c.phase = cycles[i].phase
           /\ cycles' = [cycles EXCEPT ![i] = c]

Completes ==
    /\ policies' = policies
    /\ \E i \in 1..Len(cycles), restore \in BOOLEAN :
           cycles[i].state = "running" /\ cycles' = Transition(i, restore)

Begins ==
    \E plan \in Plans, c \in Cycle :
        /\ \A i \in 1..Len(cycles) : ~Active(cycles[i])
        /\ policies' = Append(policies, plan)
        /\ cycles' = Append(cycles, c)
        /\ c.policy = Len(policies) + 1 /\ c.phase = "work"

(* A phase replaced by one of the same timer and kind makes a Replaces     *)
(* step.                                                                   *)
LEMMA ReplacesBy ==
    ASSUME StoreOK(policies, cycles, now), NEW i \in 1..Len(cycles), NEW c,
           Active(cycles[i]), PhaseOK(c, policies, now),
           c.policy = cycles[i].policy, c.phase = cycles[i].phase,
           policies' = policies, cycles' = [cycles EXCEPT ![i] = c]
    PROVE  Replaces
<1>1. c \in Cycle
  BY DEF PhaseOK
<1> QED
  BY <1>1 DEF Replaces

(* Every step leaves the store, replaces an active phase, completes one or *)
(* begins a timer.                                                         *)
LEMMA StoreStep ==
    ASSUME Inv, [Next]_vars
    PROVE  \/ UNCHANGED <<policies, cycles>>
           \/ Replaces \/ Completes \/ Begins
<1>1. StoreOK(policies, cycles, now) /\ CallsOK /\ now \in Nat
  BY DEF Inv, StoreOK
<1>2. \A i \in DOMAIN cycles : i \in 1..Len(cycles) /\ PhaseOK(cycles[i], policies, now)
  BY <1>1, Running
<1>3. CASE RunConfigure
  <2> DEFINE plan == call["author"].plan
             p == Len(policies) + 1
             phase == Phase(p, "work", plan.work, TRUE, None)
             first == [phase EXCEPT !.policy = p]
  <2>1. CASE \E i \in DOMAIN cycles : Active(cycles[i])
    BY <1>3, <2>1 DEF RunConfigure, Rejects, Answers
  <2>2. CASE ~\E i \in DOMAIN cycles : Active(cycles[i])
    <3>1. plan \in Plans /\ "author" \in Callers
      BY <1>1, <1>3 DEF RunConfigure, Turn, CallsOK, Callers
    <3>2. plan.work \in Nat /\ p \in Nat
      <4>1. Len(policies) \in Nat
        BY <1>1, LenProperties DEF StoreOK
      <4> QED
        BY <3>1, <4>1, ConstantsAssumption
    <3>3. first \in Cycle /\ first.policy = p /\ first.phase = "work"
      BY <1>1, <3>2 DEF Phase, Cycle
    <3>4. policies' = Append(policies, plan) /\ cycles' = Append(cycles, first)
      BY <1>3, <2>2 DEF RunConfigure, Answers
    <3>5. \A i \in 1..Len(cycles) : ~Active(cycles[i])
      BY <1>1, <2>2 DEF StoreOK
    <3> HIDE DEF plan, p, first
    <3> QED
      BY <3>1, <3>3, <3>4, <3>5 DEF Begins, p
  <2> QED
    BY <2>1, <2>2
<1>4. CASE RunPause
  <2> DEFINE i == call["author"].cycle
  <2>1. CASE ~(IsCurrent(i) /\ cycles[i].state = "running")
    BY <1>4, <2>1 DEF RunPause, Rejects, Answers
  <2>2. CASE IsCurrent(i) /\ cycles[i].state = "running" /\ Remaining(cycles[i]) = 0
    <3>1. i \in 1..Len(cycles)
      BY <1>2, <2>2 DEF IsCurrent
    <3>2. policies' = policies /\ cycles' = Transition(i, FALSE)
      BY <1>4, <2>2 DEF RunPause, Answers
    <3> QED
      BY <2>2, <3>1, <3>2 DEF Completes
  <2>3. CASE IsCurrent(i) /\ cycles[i].state = "running" /\ Remaining(cycles[i]) # 0
    <3> DEFINE c == Paused(cycles[i], "manual")
    <3>1. i \in 1..Len(cycles) /\ PhaseOK(cycles[i], policies, now) /\ Active(cycles[i])
      BY <1>2, <2>3 DEF IsCurrent, Active
    <3>2. policies' = policies /\ cycles' = [cycles EXCEPT ![i] = c]
      BY <1>4, <2>3 DEF RunPause, Answers
    <3>3. PhaseOK(c, policies, now) /\ c.policy = cycles[i].policy
      BY <1>1, <2>3, <3>1, PausedOK DEF StoreOK
    <3>4. c.phase = cycles[i].phase
      BY <3>1 DEF Paused, PhaseOK, Cycle
    <3> HIDE DEF c
    <3> QED
      BY <1>1, <3>1, <3>2, <3>3, <3>4, ReplacesBy
  <2> QED
    BY <2>1, <2>2, <2>3
<1>5. CASE RunResume
  <2> DEFINE i == call["author"].cycle
             c == Resumed(cycles[i])
  <2>1. CASE IsCurrent(i) /\ cycles[i].state = "paused" /\ cycles[i].remaining > 0
    <3>1. i \in 1..Len(cycles) /\ PhaseOK(cycles[i], policies, now) /\ Active(cycles[i])
      BY <1>2, <2>1 DEF IsCurrent, Active
    <3>2. policies' = policies /\ cycles' = [cycles EXCEPT ![i] = c]
      BY <1>5, <2>1 DEF RunResume, Answers
    <3>3. PhaseOK(c, policies, now) /\ c.policy = cycles[i].policy
      BY <1>1, <2>1, <3>1, ResumedOK DEF StoreOK
    <3>4. c.phase = cycles[i].phase
      BY <3>1 DEF Resumed, PhaseOK, Cycle
    <3> HIDE DEF c
    <3> QED
      BY <1>1, <3>1, <3>2, <3>3, <3>4, ReplacesBy
  <2>2. CASE ~(IsCurrent(i) /\ cycles[i].state = "paused" /\ cycles[i].remaining > 0)
    BY <1>5, <2>2 DEF RunResume, Rejects, Answers
  <2> QED
    BY <2>1, <2>2
<1>6. CASE RunStop
  <2> DEFINE i == call["author"].cycle
             c == Stopped(cycles[i])
  <2>1. CASE IsCurrent(i) /\ Active(cycles[i])
    <3>1. i \in 1..Len(cycles) /\ PhaseOK(cycles[i], policies, now) /\ Active(cycles[i])
      BY <1>2, <2>1 DEF IsCurrent
    <3>2. policies' = policies /\ cycles' = [cycles EXCEPT ![i] = c]
      BY <1>6, <2>1 DEF RunStop, Answers
    <3>3. PhaseOK(c, policies, now) /\ c.policy = cycles[i].policy
      BY <1>1, <2>1, <3>1, StoppedOK DEF StoreOK
    <3>4. c.phase = cycles[i].phase
      BY <3>1 DEF Stopped, PhaseOK, Cycle
    <3> HIDE DEF c
    <3> QED
      BY <1>1, <3>1, <3>2, <3>3, <3>4, ReplacesBy
  <2>2. CASE ~(IsCurrent(i) /\ Active(cycles[i]))
    BY <1>6, <2>2 DEF RunStop, Rejects, Answers
  <2> QED
    BY <2>1, <2>2
<1>7. CASE RunReconcile
  <2> DEFINE i == call["reconcile"].cycle
  <2>1. CASE IsCurrent(i) /\ cycles[i].state = "running" /\ ~(cycles[i].deadline > now)
    <3>1. i \in 1..Len(cycles)
      BY <1>2, <2>1 DEF IsCurrent
    <3>2. policies' = policies /\ cycles' = Transition(i, FALSE)
      BY <1>7, <2>1 DEF RunReconcile, Answers
    <3> QED
      BY <2>1, <3>1, <3>2 DEF Completes
  <2>2. CASE ~(IsCurrent(i) /\ cycles[i].state = "running") \/ cycles[i].deadline > now
    BY <1>7, <2>2 DEF RunReconcile, Rejects, Answers
  <2> QED
    BY <2>1, <2>2
<1>8. CASE Launch
  <2> DEFINE running == {i \in DOMAIN cycles : cycles[i].state = "running"}
             i == CHOOSE i \in running : TRUE
  <2>1. policies' = policies /\ cycles' = Restored
    BY <1>8 DEF Launch
  <2>2. CASE running = {}
    BY <2>1, <2>2 DEF Restored
  <2>3. CASE running # {}
    <3>1. i \in running
      BY <2>3
    <3>2. Restored = IF Remaining(cycles[i]) = 0 THEN Transition(i, TRUE)
                     ELSE [cycles EXCEPT ![i] = Paused(@, "restore")]
      BY <2>3 DEF Restored
    <3>3. /\ i \in 1..Len(cycles) /\ cycles[i].state = "running"
          /\ PhaseOK(cycles[i], policies, now) /\ Active(cycles[i])
      BY <1>2, <3>1 DEF Active
    <3> HIDE DEF i
    <3>4. CASE Remaining(cycles[i]) = 0
      BY <2>1, <3>2, <3>3, <3>4 DEF Completes
    <3>5. CASE Remaining(cycles[i]) # 0
      <4> DEFINE c == Paused(cycles[i], "restore")
      <4>1. PhaseOK(c, policies, now) /\ c.policy = cycles[i].policy
        BY <1>1, <3>3, <3>5, PausedOK DEF StoreOK
      <4>2. c.phase = cycles[i].phase
        BY <3>3 DEF Paused, PhaseOK, Cycle
      <4>3. cycles' = [cycles EXCEPT ![i] = c]
        BY <2>1, <3>2, <3>5
      <4> HIDE DEF c
      <4> QED
        BY <1>1, <2>1, <3>3, <4>1, <4>2, <4>3, ReplacesBy
    <3> QED
      BY <3>4, <3>5
  <2> QED
    BY <2>2, <2>3
<1>9. CASE RunNote \/ RunQuery
  BY <1>9 DEF RunNote, RunQuery, Rejects, Answers
<1>10. CASE \/ ClockTick \/ Configure \/ Command \/ ReconcileArrives
            \/ \E who \in Callers : AnswerArrives(who)
            \/ Ends \/ TimePasses \/ UNCHANGED vars
  BY <1>10 DEF ClockTick, Configure, Command, AuthorAsks, ReconcileArrives,
     AnswerArrives, Ends, TimePasses, store, vars
<1> QED
  BY <1>3, <1>4, <1>5, <1>6, <1>7, <1>8, <1>9, <1>10 DEF Next, Run

(* The phases of its timer before phase i; they are completed, and n work   *)
(* phases among them have n breaks, or n - 1 when a break is next.          *)
Before(cs, i) == {j \in 1..(i - 1) : cs[j].policy = cs[i].policy}
WorkBefore(cs, i) == {j \in Before(cs, i) : cs[j].phase = "work"}

PlannedAt(ps, cs, i) ==
    /\ \A j \in Before(cs, i) : cs[j].state = "completed"
    /\ \E n \in Nat :
           /\ Cardinality(WorkBefore(cs, i)) = n
           /\ n < ps[cs[i].policy].count
           /\ \/ cs[i].phase = "work" /\ Cardinality(Before(cs, i)) = 2 * n
              \/ cs[i].phase = "rest" /\ Cardinality(Before(cs, i)) = 2 * n - 1 /\ n # 0

PlanOK(ps, cs) == \A i \in 1..Len(cs) : PlannedAt(ps, cs, i)

(* Phases that agree in everything the plan of phase i looks at.           *)
LEMMA PlannedKept ==
    ASSUME NEW ps, NEW cs, NEW qs, NEW ds, NEW i \in Nat, PlannedAt(ps, cs, i),
           ds[i].policy = cs[i].policy, ds[i].phase = cs[i].phase,
           qs[ds[i].policy] = ps[cs[i].policy],
           \A j \in 1..(i - 1) : ds[j].policy = cs[j].policy /\ ds[j].phase = cs[j].phase,
           \A j \in Before(cs, i) : ds[j].state = "completed"
    PROVE  PlannedAt(qs, ds, i)
<1>1. Before(ds, i) = Before(cs, i)
  BY DEF Before
<1>2. WorkBefore(ds, i) = WorkBefore(cs, i)
  BY <1>1 DEF WorkBefore, Before
<1> QED
  BY <1>1, <1>2 DEF PlannedAt

(* There are finitely many phases before a phase, so that they can be      *)
(* counted.                                                                *)
LEMMA BeforeIsFinite ==
    ASSUME NEW cs, NEW i \in Nat
    PROVE  /\ IsFiniteSet(Before(cs, i)) /\ IsFiniteSet(WorkBefore(cs, i))
           /\ Cardinality(Before(cs, i)) \in Nat
           /\ Cardinality(WorkBefore(cs, i)) \in Nat
<1>1. IsFiniteSet(1..(i - 1))
  <2>1. 1 \in Int /\ i - 1 \in Int
    OBVIOUS
  <2> QED
    BY <2>1, FS_Interval
<1>2. Before(cs, i) \subseteq 1..(i - 1) /\ WorkBefore(cs, i) \subseteq 1..(i - 1)
  BY DEF Before, WorkBefore
<1> QED
  BY <1>1, <1>2, FS_Subset, FS_CardinalityType

(* An active phase is the last of its timer.                               *)
LEMMA ActiveIsLast ==
    ASSUME NEW ps, NEW cs, PlanOK(ps, cs), Len(cs) \in Nat,
           NEW i \in 1..Len(cs), Active(cs[i]),
           NEW j \in 1..Len(cs), cs[j].policy = cs[i].policy
    PROVE  j <= i
<1> SUFFICES ASSUME i < j PROVE FALSE
  OBVIOUS
<1>1. i \in Before(cs, j)
  BY DEF Before
<1>2. cs[i].state = "completed"
  BY <1>1 DEF PlanOK, PlannedAt
<1> QED
  BY <1>2 DEF Active

(* Pausing, resuming or stopping a phase leaves every phase on its plan.   *)
LEMMA ReplacedPlan ==
    ASSUME NEW ps, NEW cs \in Seq(Cycle), PlanOK(ps, cs),
           NEW i \in 1..Len(cs), Active(cs[i]), NEW c \in Cycle,
           c.policy = cs[i].policy, c.phase = cs[i].phase
    PROVE  PlanOK(ps, [cs EXCEPT ![i] = c])
<1> DEFINE ds == [cs EXCEPT ![i] = c]
<1>1. /\ Len(ds) = Len(cs) /\ Len(cs) \in Nat
      /\ \A j \in 1..Len(cs) : ds[j] = IF j = i THEN c ELSE cs[j]
  BY ExceptSeq, LenProperties
<1> HIDE DEF ds
<1>2. ASSUME NEW k \in 1..Len(cs) PROVE PlannedAt(ps, ds, k)
  <2>1. PlannedAt(ps, cs, k) /\ k \in Nat
    BY <1>1 DEF PlanOK
  <2>2. \A j \in 1..Len(cs) : ds[j].policy = cs[j].policy /\ ds[j].phase = cs[j].phase
    BY <1>1
  <2>3. \A j \in 1..(k - 1) : j \in 1..Len(cs)
    BY <1>1
  <2>4. ASSUME NEW j \in Before(cs, k) PROVE ds[j].state = "completed"
    <3>1. j \in 1..Len(cs) /\ cs[j].state = "completed"
      BY <2>1, <2>3 DEF Before, PlannedAt
    <3>2. j # i
      BY <3>1 DEF Active
    <3> QED
      BY <1>1, <3>1, <3>2
  <2> QED
    BY <2>1, <2>2, <2>3, <2>4, PlannedKept
<1> QED
  BY <1>1, <1>2 DEF PlanOK, ds

(* A phase that is added leaves the plan of the others.                    *)
LEMMA AppendedPlan ==
    ASSUME NEW ps \in Seq(Plans), NEW qs, NEW cs \in Seq(Cycle), PlanOK(ps, cs),
           \A i \in 1..Len(cs) : cs[i].policy \in 1..Len(ps),
           \A p \in 1..Len(ps) : qs[p] = ps[p],
           NEW c \in Cycle, PlannedAt(qs, Append(cs, c), Len(cs) + 1)
    PROVE  PlanOK(qs, Append(cs, c))
<1> DEFINE ds == Append(cs, c)
<1>1. /\ Len(ds) = Len(cs) + 1 /\ Len(cs) \in Nat
      /\ \A j \in 1..Len(cs) : ds[j] = cs[j]
  BY AppendProperties, LenProperties
<1> HIDE DEF ds
<1>2. ASSUME NEW k \in 1..Len(cs) PROVE PlannedAt(qs, ds, k)
  <2>1. PlannedAt(ps, cs, k) /\ k \in Nat /\ ds[k] = cs[k]
        /\ qs[ds[k].policy] = ps[cs[k].policy]
    BY <1>1 DEF PlanOK
  <2>2. \A j \in 1..(k - 1) : j \in 1..Len(cs) /\ ds[j] = cs[j]
    BY <1>1
  <2>3. \A j \in Before(cs, k) : ds[j].state = "completed"
    BY <2>1, <2>2 DEF Before, PlannedAt
  <2> QED
    BY <2>1, <2>2, <2>3, PlannedKept
<1>3. PlannedAt(qs, ds, Len(cs) + 1)
  BY DEF ds
<1>4. \A k \in 1..Len(ds) : k \in 1..Len(cs) \/ k = Len(cs) + 1
  BY <1>1
<1> QED
  BY <1>2, <1>3, <1>4 DEF PlanOK, ds

(* The successor of a completed phase continues the plan: it comes after    *)
(* that phase and those before it, and work goes on only while the count of *)
(* completed work phases is short of the plan's.                           *)
LEMMA SuccessorPlan ==
    ASSUME NEW ps, NEW cs \in Seq(Cycle), PlanOK(ps, cs),
           NEW i \in 1..Len(cs), cs[i].state = "completed",
           \A j \in 1..Len(cs) : cs[j].policy = cs[i].policy => j <= i,
           ps[cs[i].policy].count \in Nat,
           NEW d \in Cycle, d.policy = cs[i].policy,
           d.phase = IF cs[i].phase = "work" THEN "rest" ELSE "work",
           cs[i].phase = "work" =>
               ~(CompletedWork(cs, cs[i].policy) >= ps[cs[i].policy].count)
    PROVE  PlannedAt(ps, Append(cs, d), Len(cs) + 1)
<1> DEFINE ds == Append(cs, d)
           l == Len(cs) + 1
<1>1. /\ Len(cs) \in Nat /\ l \in Nat /\ i \in Nat /\ l - 1 = Len(cs)
      /\ \A j \in 1..Len(cs) : ds[j] = cs[j] /\ cs[j] \in Cycle
      /\ ds[l] = d
  BY AppendProperties, LenProperties, ElementOfSeq
<1> HIDE DEF ds, l
<1>2. PICK n \in Nat :
          /\ Cardinality(WorkBefore(cs, i)) = n
          /\ n < ps[cs[i].policy].count
          /\ \/ cs[i].phase = "work" /\ Cardinality(Before(cs, i)) = 2 * n
             \/ /\ cs[i].phase = "rest" /\ Cardinality(Before(cs, i)) = 2 * n - 1
                /\ n # 0
  BY DEF PlanOK, PlannedAt
<1>3. Before(ds, l) = Before(cs, i) \cup {i} /\ i \notin Before(cs, i)
  <2>1. Before(ds, l) = {j \in 1..Len(cs) : cs[j].policy = cs[i].policy}
    BY <1>1 DEF Before
  <2>2. \A j \in 1..Len(cs) : cs[j].policy = cs[i].policy => j \in 1..(i - 1) \/ j = i
    BY <1>1
  <2> QED
    BY <1>1, <2>1, <2>2 DEF Before
<1>4. /\ IsFiniteSet(Before(cs, i)) /\ IsFiniteSet(WorkBefore(cs, i))
      /\ Cardinality(Before(cs, i)) \in Nat
  BY <1>1, BeforeIsFinite
<1>5. Cardinality(Before(ds, l)) = Cardinality(Before(cs, i)) + 1
  BY <1>3, <1>4, FS_AddElement
<1>6. \A j \in Before(ds, l) : j \in 1..Len(cs) /\ ds[j] = cs[j]
                               /\ cs[j].state = "completed"
  <2>1. \A j \in Before(cs, i) : j \in 1..Len(cs) /\ cs[j].state = "completed"
    BY <1>1 DEF PlanOK, PlannedAt, Before
  <2> QED
    BY <1>1, <1>3, <2>1
<1>7. CASE cs[i].phase = "work"
  <2>1. WorkBefore(ds, l) = WorkBefore(cs, i) \cup {i} /\ i \notin WorkBefore(cs, i)
    BY <1>3, <1>6, <1>7 DEF WorkBefore
  <2>2. Cardinality(WorkBefore(ds, l)) = n + 1
    BY <1>2, <1>4, <2>1, FS_AddElement
  <2>3. CompletedWork(cs, cs[i].policy) = Cardinality(WorkBefore(ds, l))
    <3>1. DOMAIN cs = 1..Len(cs)
      OBVIOUS
    <3>2. {j \in DOMAIN cs : /\ cs[j].policy = cs[i].policy
                             /\ cs[j].phase = "work"
                             /\ cs[j].state = "completed"} = WorkBefore(ds, l)
      <4>1. \A j \in 1..Len(cs) : cs[j].policy = cs[i].policy <=> j \in Before(ds, l)
        BY <1>1 DEF Before
      <4> QED
        BY <1>6, <3>1, <4>1 DEF WorkBefore
    <3> QED
      BY <3>2 DEF CompletedWork
  <2>4. n + 1 < ps[cs[i].policy].count
    BY <1>7, <2>2, <2>3
  <2>5. d.phase = "rest" /\ Cardinality(Before(ds, l)) = 2 * (n + 1) - 1
    BY <1>2, <1>5, <1>7
  <2>6. n + 1 \in Nat /\ n + 1 # 0
    OBVIOUS
  <2> QED
    BY <1>1, <1>6, <2>2, <2>4, <2>5, <2>6 DEF PlannedAt, ds, l
<1>8. CASE cs[i].phase = "rest"
  <2>1. WorkBefore(ds, l) = WorkBefore(cs, i)
    BY <1>3, <1>6, <1>8 DEF WorkBefore
  <2>2. Cardinality(Before(ds, l)) = 2 * n
    BY <1>2, <1>5, <1>8
  <2>3. d.phase = "work"
    BY <1>8
  <2> QED
    BY <1>1, <1>2, <1>6, <2>1, <2>2, <2>3 DEF PlannedAt, ds, l
<1> QED
  BY <1>2, <1>7, <1>8

(* A completed phase and the successor it gets are on their plan.          *)
LEMMA CompletesPlan ==
    ASSUME Inv, PlanOK(policies, cycles), Completes
    PROVE  PlanOK(policies, cycles)'
<1>1. PICK i \in 1..Len(cycles), restore \in BOOLEAN :
          cycles[i].state = "running" /\ cycles' = Transition(i, restore)
  BY DEF Completes
<1> DEFINE c == cycles[i]
           cs == [cycles EXCEPT ![i] = Completed(c)]
           next == Successor(cs, c, restore)
<1>2. /\ now \in Nat /\ policies \in Seq(Plans) /\ cycles \in Seq(Cycle)
      /\ PhaseOK(c, policies, now) /\ Active(c) /\ Len(cycles) \in Nat
  BY <1>1, LenProperties DEF Inv, StoreOK, Active
<1>3. /\ PhaseOK(Completed(c), policies, now) /\ Completed(c).state = "completed"
      /\ Completed(c).policy = c.policy
  BY <1>1, <1>2, CompletedOK
<1>4. Completed(c) \in Cycle /\ Completed(c).phase = c.phase
  BY <1>2, <1>3 DEF PhaseOK, Completed, Cycle
<1>5. PlanOK(policies, cs)
  BY <1>2, <1>3, <1>4, ReplacedPlan
<1>6. /\ cs \in Seq(Cycle) /\ Len(cs) = Len(cycles)
      /\ \A j \in 1..Len(cycles) : cs[j] = IF j = i THEN Completed(c) ELSE cycles[j]
  BY <1>2, <1>4, ExceptSeq
<1>7. policies' = policies /\ cycles' = cs \o next
  BY <1>1 DEF Completes, Transition
<1>8. \A j \in 1..Len(cs) : cs[j].policy = cs[i].policy => j <= i
  BY <1>2, <1>3, <1>6, ActiveIsLast
<1>9. c.policy \in 1..Len(policies) /\ policies[c.policy] \in Plans
      /\ policies[c.policy].count \in Nat /\ policies[c.policy].auto \in BOOLEAN
  <2>1. c.policy \in 1..Len(policies) /\ policies[c.policy] \in Plans
    BY <1>2, ElementOfSeq DEF PhaseOK
  <2> QED
    BY <2>1, ConstantsAssumption
<1>10. CASE next = <<>>
  <2>1. cs \o next = cs
    BY <1>6, <1>10, ConcatEmptySeq
  <2> QED
    BY <1>5, <1>7, <2>1
<1>11. CASE next # <<>>
  <2> DEFINE phase == IF c.phase = "work" THEN "rest" ELSE "work"
             d == Phase(c.policy, phase, Target(c.policy, phase),
                        ~restore /\ policies[c.policy].auto,
                        IF restore THEN "restore" ELSE "phase-complete")
  <2>1. /\ next = <<d>>
        /\ c.phase = "work" => ~(CompletedWork(cs, c.policy) >= policies[c.policy].count)
    BY <1>11 DEF Successor
  <2>2. d.policy = c.policy /\ d.phase = phase
    BY DEF Phase
  <2>3. d \in Cycle
    <3>1. \/ next = <<>>
          \/ \E e : next = <<e>> /\ PhaseOK(e, policies, now)
      BY <1>2, SuccessorOK
    <3>2. PICK e : next = <<e>> /\ PhaseOK(e, policies, now)
      BY <1>11, <3>1
    <3>3. <<d>>[1] = <<e>>[1]
      BY <2>1, <3>2
    <3> HIDE DEF d
    <3>4. d = e
      BY <3>3
    <3> QED
      BY <3>2, <3>4 DEF PhaseOK
  <2>4. cs[i].state = "completed" /\ cs[i].policy = c.policy /\ cs[i].phase = c.phase
    BY <1>3, <1>4, <1>6
  <2>5. i \in 1..Len(cs) /\ Len(cs) \in Nat
    BY <1>2, <1>6
  <2> HIDE DEF d, next, cs, c
  <2>6. PlannedAt(policies, Append(cs, d), Len(cs) + 1)
    BY <1>5, <1>6, <1>8, <1>9, <2>1, <2>2, <2>3, <2>4, <2>5, SuccessorPlan
  <2>7. \A j \in 1..Len(cs) : cs[j].policy \in 1..Len(policies)
    BY <1>3, <1>6, <1>9 DEF Inv, StoreOK, PhaseOK, c
  <2>8. PlanOK(policies, Append(cs, d))
    BY <1>2, <1>5, <1>6, <2>3, <2>6, <2>7, AppendedPlan
  <2>9. cs \o next = Append(cs, d)
    BY <1>6, <2>1, <2>3, AppendIsConcat
  <2> QED
    BY <1>7, <2>8, <2>9 DEF cs
<1> QED
  BY <1>10, <1>11

(* The first phase of a timer has none before it.                          *)
LEMMA BeginsPlan ==
    ASSUME Inv, PlanOK(policies, cycles), Begins
    PROVE  PlanOK(policies, cycles)'
<1>1. PICK plan \in Plans, c \in Cycle :
          /\ policies' = Append(policies, plan) /\ cycles' = Append(cycles, c)
          /\ c.policy = Len(policies) + 1 /\ c.phase = "work"
  BY DEF Begins
<1> DEFINE ps == Append(policies, plan)
           cs == Append(cycles, c)
           l == Len(cycles) + 1
<1>2. /\ policies \in Seq(Plans) /\ cycles \in Seq(Cycle)
      /\ Len(policies) \in Nat /\ Len(cycles) \in Nat
      /\ \A i \in 1..Len(cycles) : cycles[i].policy \in 1..Len(policies)
  BY LenProperties DEF Inv, StoreOK, PhaseOK
<1>3. /\ \A p \in 1..Len(policies) : ps[p] = policies[p]
      /\ ps[Len(policies) + 1] = plan
      /\ \A j \in 1..Len(cycles) : cs[j] = cycles[j]
      /\ cs[l] = c
  BY <1>2, AppendProperties
<1>4. plan.count \in Nat /\ 0 < plan.count
  BY ConstantsAssumption
<1> HIDE DEF ps, cs
<1>5. Before(cs, l) = {}
  <2>1. \A j \in 1..Len(cycles) : cs[j].policy \in 1..Len(policies)
    BY <1>2, <1>3
  <2>2. l - 1 = Len(cycles) /\ cs[l].policy = Len(policies) + 1
    BY <1>1, <1>2, <1>3
  <2> HIDE DEF l
  <2>3. \A j \in 1..(l - 1) : cs[j].policy # cs[l].policy
    BY <1>2, <2>1, <2>2
  <2> QED
    BY <2>3 DEF Before
<1>6. WorkBefore(cs, l) = {} /\ Cardinality({}) = 0
  BY <1>5, FS_EmptySet DEF WorkBefore
<1>7. PlannedAt(ps, cs, l)
  <2>1. 0 \in Nat /\ 2 * 0 = 0
    OBVIOUS
  <2>2. cs[l].phase = "work" /\ ps[cs[l].policy] = plan
    BY <1>1, <1>3
  <2>3. Cardinality(Before(cs, l)) = 0 /\ Cardinality(WorkBefore(cs, l)) = 0
    BY <1>5, <1>6
  <2> HIDE DEF l
  <2> QED
    BY <1>4, <1>5, <2>1, <2>2, <2>3 DEF PlannedAt
<1>8. PlanOK(ps, cs)
  BY <1>2, <1>3, <1>7, AppendedPlan DEF cs
<1> QED
  BY <1>1, <1>8 DEF ps, cs

(* Phases follow the plan their author chose, for any plan, whoever notices *)
(* a deadline and however often the application is started: work and        *)
(* breaks alternate, one at a time, and the timer ends with the last work   *)
(* (transitionCompletedPomodoroPhase).                                     *)
THEOREM TimersFollowTheirPlan == Spec => []PhasesFollowPlan
<1>1. Init => PlanOK(policies, cycles)
  BY DEF Init, PlanOK
<1>2. Inv /\ PlanOK(policies, cycles) /\ [Next]_vars => PlanOK(policies, cycles)'
  <2> SUFFICES ASSUME Inv, PlanOK(policies, cycles), [Next]_vars
               PROVE  PlanOK(policies, cycles)'
    OBVIOUS
  <2>1. CASE UNCHANGED <<policies, cycles>>
    BY <2>1
  <2>2. CASE Replaces
    <3>1. PICK i \in 1..Len(cycles), c \in Cycle :
              /\ Active(cycles[i])
              /\ c.policy = cycles[i].policy /\ c.phase = cycles[i].phase
              /\ policies' = policies /\ cycles' = [cycles EXCEPT ![i] = c]
      BY <2>2 DEF Replaces
    <3>2. cycles \in Seq(Cycle)
      BY DEF Inv, StoreOK
    <3>3. PlanOK(policies, [cycles EXCEPT ![i] = c])
      BY <3>1, <3>2, ReplacedPlan
    <3> QED
      BY <3>1, <3>3
  <2>3. CASE Completes
    BY <2>3, CompletesPlan
  <2>4. CASE Begins
    BY <2>4, BeginsPlan
  <2> QED
    BY <2>1, <2>2, <2>3, <2>4, StoreStep
<1>3. Inv /\ PlanOK(policies, cycles) => PhasesFollowPlan
  <2> SUFFICES ASSUME Inv, PlanOK(policies, cycles), NEW i \in DOMAIN cycles
               PROVE  LET earlier == {j \in 1..(i - 1) : cycles[j].policy = cycles[i].policy}
                      IN  /\ cycles[i].phase = IF Cardinality(earlier) % 2 = 0
                                               THEN "work" ELSE "rest"
                          /\ \A j \in earlier : cycles[j].state = "completed"
                          /\ Cardinality(earlier) < 2 * policies[cycles[i].policy].count - 1
    BY DEF PhasesFollowPlan
  <2>1. i \in 1..Len(cycles) /\ PhaseOK(cycles[i], policies, now)
    BY Running DEF Inv
  <2>2. policies[cycles[i].policy].count \in Nat
    <3>1. policies[cycles[i].policy] \in Plans
      BY <2>1, ElementOfSeq DEF Inv, StoreOK, PhaseOK
    <3> QED
      BY <3>1, ConstantsAssumption
  <2>3. PlannedAt(policies, cycles, i)
    BY <2>1 DEF PlanOK
  <2>4. PICK n \in Nat :
            /\ n < policies[cycles[i].policy].count
            /\ \/ cycles[i].phase = "work" /\ Cardinality(Before(cycles, i)) = 2 * n
               \/ /\ cycles[i].phase = "rest"
                  /\ Cardinality(Before(cycles, i)) = 2 * n - 1 /\ n # 0
    BY <2>3 DEF PlannedAt
  <2>5. (2 * n) % 2 = 0 /\ (n # 0 => (2 * n - 1) % 2 = 1)
    OBVIOUS
  <2>6. /\ cycles[i].phase = IF Cardinality(Before(cycles, i)) % 2 = 0
                             THEN "work" ELSE "rest"
        /\ Cardinality(Before(cycles, i)) < 2 * policies[cycles[i].policy].count - 1
    BY <2>2, <2>4, <2>5
  <2> QED
    BY <2>3, <2>6 DEF PlannedAt, Before
<1> QED
  BY <1>1, <1>2, <1>3, Invariance, PTL DEF Spec
-----------------------------------------------------------------------------
(* The window and the chain of calls.                                      *)

(* A call waits exactly while it was sent.                                 *)
ChainOK(s, calls) ==
    /\ s \in Seq(Callers) /\ IsInjective(s)
    /\ \A who \in Callers : calls[who].stage = "sent"
                            <=> \E n \in DOMAIN s : s[n] = who

WindowOK ==
    /\ launches \in Nat /\ open \in BOOLEAN /\ disposed \in BOOLEAN
    /\ view \in Shown
    /\ call \in [Callers -> Call]
    /\ \A who \in Callers : call[who].stage = "done" /\ call[who].ok
                            => call[who].answer \in Shown
    /\ ChainOK(chain, call)
    /\ ~open => view = Unseen /\ \A who \in Callers : call[who].stage # "sent"

(* A sequence from which one element was taken.                            *)
LEMMA Removed ==
    ASSUME NEW F, NEW s \in Seq(F), NEW k \in 1..Len(s)
    PROVE  /\ RemoveAt(s, k) \in Seq(F)
           /\ Len(RemoveAt(s, k)) = Len(s) - 1
           /\ \A i \in 1..(Len(s) - 1) :
                  RemoveAt(s, k)[i] = IF i < k THEN s[i] ELSE s[i + 1]
<1> DEFINE a == SubSeq(s, 1, k - 1)
           b == SubSeq(s, k + 1, Len(s))
<1>1. Len(s) \in Nat /\ \A i \in 1..Len(s) : s[i] \in F
  BY LenProperties, ElementOfSeq
<1>2. k \in Nat /\ k - 1 \in Nat /\ k + 1 \in Int /\ 1 \in Int /\ k - 1 \in Int
      /\ Len(s) \in Int
  BY <1>1
<1>3. a \in Seq(F) /\ Len(a) = k - 1 /\ \A i \in 1..(k - 1) : a[i] = s[i]
  <2>1. /\ a \in Seq(F)
        /\ Len(a) = IF 1 <= k - 1 THEN (k - 1) - 1 + 1 ELSE 0
        /\ \A i \in 1..((k - 1) - 1 + 1) : a[i] = s[1 + i - 1]
    BY <1>1, <1>2, SubSeqProperties
  <2> HIDE DEF a
  <2> QED BY <1>2, <2>1
<1>4. b \in Seq(F) /\ Len(b) = Len(s) - k /\ \A i \in 1..(Len(s) - k) : b[i] = s[k + i]
  <2>1. /\ b \in Seq(F)
        /\ Len(b) = IF k + 1 <= Len(s) THEN Len(s) - (k + 1) + 1 ELSE 0
        /\ \A i \in 1..(Len(s) - (k + 1) + 1) : b[i] = s[(k + 1) + i - 1]
    BY <1>1, <1>2, SubSeqProperties
  <2> HIDE DEF b
  <2> QED BY <1>1, <1>2, <2>1
<1> HIDE DEF a, b
<1> DEFINE t == a \o b
<1>5. /\ t \in Seq(F) /\ Len(t) = Len(a) + Len(b)
      /\ \A i \in 1..(Len(a) + Len(b)) :
             t[i] = IF i <= Len(a) THEN a[i] ELSE b[i - Len(a)]
  BY <1>3, <1>4, ConcatProperties
<1>6. RemoveAt(s, k) = t
  BY DEF RemoveAt, a, b
<1> HIDE DEF t
<1>7. Len(t) = Len(s) - 1
  BY <1>1, <1>2, <1>3, <1>4, <1>5
<1>8. ASSUME NEW i \in 1..(Len(s) - 1)
      PROVE  t[i] = IF i < k THEN s[i] ELSE s[i + 1]
  <2>1. i \in Nat /\ t[i] = IF i <= k - 1 THEN a[i] ELSE b[i - (k - 1)]
    BY <1>1, <1>2, <1>3, <1>4, <1>5
  <2>2. CASE i < k
    <3>1. i \in 1..(k - 1) /\ i <= k - 1
      BY <1>2, <2>1, <2>2
    <3> QED BY <1>3, <2>1, <2>2, <3>1
  <2>3. CASE ~(i < k)
    <3>1. i - (k - 1) \in 1..(Len(s) - k) /\ ~(i <= k - 1) /\ k + (i - (k - 1)) = i + 1
      BY <1>1, <1>2, <2>1, <2>3
    <3>2. t[i] = s[k + (i - (k - 1))]
      BY <1>4, <2>1, <3>1
    <3> QED BY <2>3, <3>1, <3>2
  <2> QED BY <2>2, <2>3
<1> QED
  BY <1>5, <1>6, <1>7, <1>8

(* A call that is answered leaves the chain, and the others wait on.       *)
LEMMA ChainAnswered ==
    ASSUME NEW s, NEW calls, NEW more, ChainOK(s, calls),
           NEW n \in DOMAIN s, NEW who \in Callers, s[n] = who,
           more[who].stage # "sent",
           \A other \in Callers : other # who => more[other] = calls[other]
    PROVE  ChainOK(RemoveAt(s, n), more)
<1> DEFINE t == RemoveAt(s, n)
<1>1. s \in Seq(Callers) /\ n \in 1..Len(s) /\ Len(s) \in Nat /\ DOMAIN s = 1..Len(s)
  BY LenProperties DEF ChainOK
<1>2. /\ t \in Seq(Callers) /\ Len(t) = Len(s) - 1
      /\ \A i \in 1..(Len(s) - 1) : t[i] = IF i < n THEN s[i] ELSE s[i + 1]
  BY <1>1, Removed
<1> HIDE DEF t
<1>3. DOMAIN t = 1..(Len(s) - 1)
  BY <1>2
<1>4. \A i, j \in 1..Len(s) : s[i] = s[j] => i = j
  BY <1>1 DEF ChainOK, IsInjective
<1>5. \A i \in DOMAIN t : t[i] # who
  BY <1>1, <1>2, <1>3, <1>4
<1>6. IsInjective(t)
  <2>1. ASSUME NEW i \in DOMAIN t, NEW j \in DOMAIN t, t[i] = t[j] PROVE i = j
    BY <1>1, <1>2, <1>3, <1>4, <2>1
  <2> QED BY <2>1 DEF IsInjective
<1>7. ASSUME NEW other \in Callers, other # who
      PROVE  (\E i \in DOMAIN s : s[i] = other) <=> (\E i \in DOMAIN t : t[i] = other)
  <2>1. ASSUME NEW i \in DOMAIN s, s[i] = other PROVE \E j \in DOMAIN t : t[j] = other
    <3>1. i # n /\ i \in 1..Len(s)
      BY <1>1, <1>7, <2>1
    <3>2. CASE i < n
      BY <1>1, <1>2, <1>3, <2>1, <3>1, <3>2
    <3>3. CASE n < i
      <4>1. i - 1 \in DOMAIN t /\ t[i - 1] = s[(i - 1) + 1]
        BY <1>1, <1>2, <1>3, <3>1, <3>3
      <4> QED BY <2>1, <3>1, <4>1
    <3> QED BY <1>1, <3>1, <3>2, <3>3
  <2>2. ASSUME NEW i \in DOMAIN t, t[i] = other PROVE \E j \in DOMAIN s : s[j] = other
    BY <1>1, <1>2, <1>3, <2>2
  <2> QED BY <2>1, <2>2
<1>8. ASSUME NEW other \in Callers
      PROVE  more[other].stage = "sent" <=> \E i \in DOMAIN t : t[i] = other
  BY <1>5, <1>7 DEF ChainOK
<1> QED
  BY <1>2, <1>6, <1>8 DEF ChainOK, t

(* A call that is sent joins the chain at its end.                         *)
LEMMA ChainSent ==
    ASSUME NEW s, NEW calls, NEW more, ChainOK(s, calls),
           NEW who \in Callers, calls[who].stage # "sent", more[who].stage = "sent",
           \A other \in Callers : other # who => more[other] = calls[other]
    PROVE  ChainOK(Append(s, who), more)
<1> DEFINE t == Append(s, who)
<1>1. s \in Seq(Callers) /\ Len(s) \in Nat /\ DOMAIN s = 1..Len(s)
  BY LenProperties DEF ChainOK
<1>2. /\ t \in Seq(Callers) /\ Len(t) = Len(s) + 1
      /\ \A i \in 1..Len(s) : t[i] = s[i]
      /\ t[Len(s) + 1] = who
  BY <1>1, AppendProperties
<1> HIDE DEF t
<1>3. DOMAIN t = DOMAIN s \cup {Len(s) + 1}
  BY <1>1, <1>2
<1>4. \A i \in DOMAIN s : s[i] # who /\ t[i] = s[i]
  BY <1>1, <1>2 DEF ChainOK
<1>5. IsInjective(t)
  BY <1>1, <1>2, <1>3, <1>4 DEF ChainOK, IsInjective
<1>6. ASSUME NEW other \in Callers
      PROVE  more[other].stage = "sent" <=> \E i \in DOMAIN t : t[i] = other
  BY <1>2, <1>3, <1>4 DEF ChainOK
<1> QED
  BY <1>2, <1>5, <1>6 DEF ChainOK, t

(* Calls that come and go without waiting leave the chain as it is.        *)
LEMMA ChainKept ==
    ASSUME NEW s, NEW calls, NEW more, ChainOK(s, calls),
           \A who \in Callers : more[who].stage = "sent" <=> calls[who].stage = "sent"
    PROVE  ChainOK(s, more)
BY DEF ChainOK

(* The window is told of a phase that is stored, or of none.               *)
LEMMA ProjectionShown ==
    ASSUME NEW ps, NEW cs, NEW t, StoreOK(ps, cs, t)
    PROVE  Projection(ps, cs) \in Shown
<1> DEFINE active == ActiveIn(cs, Len(ps))
           i == CHOOSE i \in active : TRUE
<1>1. CASE Len(ps) # 0 /\ active # {}
  <2>1. i \in active
    BY <1>1
  <2>2. Projection(ps, cs) = [status |-> cs[i].state, cycle |-> i,
                              deadline |-> cs[i].deadline]
    BY <1>1 DEF Projection
  <2> HIDE DEF i
  <2>3. i \in 1..Len(cs) /\ Active(cs[i])
    BY <2>1 DEF ActiveIn, StoreOK
  <2>4. cs[i] \in Cycle /\ i \in Nat
    BY <2>3 DEF StoreOK, PhaseOK
  <2> QED
    BY <2>2, <2>3, <2>4 DEF Shown, Cycle, Active
<1>2. CASE ~(Len(ps) # 0 /\ active # {})
  BY <1>2 DEF Projection, Shown
<1> QED
  BY <1>1, <1>2

(* What the window sends.                                                  *)
LEMMA SentIsCall ==
    ASSUME NEW kind \in Kinds, NEW i \in Nat, NEW plan \in Plans \cup {None}
    PROVE  Sent(kind, i, plan) \in Call /\ Sent(kind, i, plan).stage = "sent"
BY DEF Sent, Idle, Call, Kinds

LEMMA IdleIsCall == Idle \in Call /\ Idle.stage = "idle"
BY DEF Idle, Call, Kinds

(* An answer takes its call from the chain and shows what is stored.       *)
LEMMA AnswerWindow ==
    ASSUME WindowOK, Inv', open, NEW who \in Callers, NEW ok \in BOOLEAN,
           NEW ps, NEW cs, Answers(who, ok, ps, cs)
    PROVE  WindowOK'
<1> DEFINE answer == IF ok THEN Projection(ps, cs) ELSE None
           done == [Idle EXCEPT !.stage = "done", !.ok = ok, !.answer = answer]
<1>1. /\ policies' = ps /\ cycles' = cs /\ call' = [call EXCEPT ![who] = done]
      /\ launches' = launches /\ open' = open /\ view' = view /\ disposed' = disposed
  BY DEF Answers, window
<1>2. PICK n \in DOMAIN chain : chain[n] = who /\ chain' = RemoveAt(chain, n)
  BY DEF Answers
<1>3. ok => answer \in Shown
  <2>1. StoreOK(ps, cs, now')
    BY <1>1 DEF Inv
  <2> QED BY <2>1, ProjectionShown
<1>4. answer \in Shown \cup {None}
  BY <1>3
<1> HIDE DEF answer
<1>5. done \in Call /\ done.stage = "done" /\ done.ok = ok /\ done.answer = answer
  BY <1>4 DEF Idle, Call, Kinds
<1> HIDE DEF done
<1>6. /\ call' \in [Callers -> Call] /\ call'[who] = done
      /\ \A other \in Callers : other # who => call'[other] = call[other]
  BY <1>1, <1>5 DEF WindowOK
<1>7. ChainOK(chain', call')
  BY <1>2, <1>5, <1>6, ChainAnswered DEF WindowOK
<1>8. \A other \in Callers : call'[other].stage = "done" /\ call'[other].ok
                              => call'[other].answer \in Shown
  BY <1>3, <1>5, <1>6 DEF WindowOK
<1> QED
  BY <1>1, <1>6, <1>7, <1>8 DEF WindowOK

(* Every call of the runtime ends with one answer.                         *)
LEMMA RunWindow ==
    ASSUME WindowOK, Inv', Run
    PROVE  WindowOK'
<1>1. PICK who, ok, ps, cs :
          who \in Callers /\ ok \in BOOLEAN /\ open /\ Answers(who, ok, ps, cs)
  <2>1. CASE RunConfigure
    BY <2>1 DEF RunConfigure, Turn, Rejects, Callers
  <2>2. CASE RunPause
    BY <2>2 DEF RunPause, Turn, Rejects, Callers
  <2>3. CASE RunResume
    BY <2>3 DEF RunResume, Turn, Rejects, Callers
  <2>4. CASE RunNote
    BY <2>4 DEF RunNote, Turn, Rejects, Callers
  <2>5. CASE RunStop
    BY <2>5 DEF RunStop, Turn, Rejects, Callers
  <2>6. CASE RunReconcile
    BY <2>6 DEF RunReconcile, Turn, Rejects, Callers
  <2>7. CASE RunQuery
    BY <2>7 DEF RunQuery, Turn, Callers
  <2> QED
    BY <2>1, <2>2, <2>3, <2>4, <2>5, <2>6, <2>7 DEF Run
<1> QED
  BY <1>1, AnswerWindow

(* A call that is sent, and the fields of the window that stay.            *)
LEMMA SendsWindow ==
    ASSUME WindowOK, open, NEW who \in Callers, call[who].stage # "sent",
           NEW kind \in Kinds, NEW i \in Nat, NEW plan \in Plans \cup {None},
           call' = [call EXCEPT ![who] = Sent(kind, i, plan)],
           chain' = Append(chain, who),
           launches' = launches, open' = open, view' = view, disposed' \in BOOLEAN
    PROVE  WindowOK'
<1> DEFINE sent == Sent(kind, i, plan)
<1>1. sent \in Call /\ sent.stage = "sent"
  BY SentIsCall
<1> HIDE DEF sent
<1>2. /\ call' \in [Callers -> Call] /\ call'[who] = sent
      /\ \A other \in Callers : other # who => call'[other] = call[other]
  BY <1>1 DEF WindowOK, sent
<1>3. ChainOK(chain', call')
  <2>1. call'[who].stage = "sent" /\ ChainOK(chain, call)
    BY <1>1, <1>2 DEF WindowOK
  <2> DEFINE more == call'
  <2>2. /\ more[who].stage = "sent" /\ ChainOK(chain, call) /\ call[who].stage # "sent"
        /\ \A other \in Callers : other # who => more[other] = call[other]
    BY <1>2, <2>1
  <2> HIDE DEF more
  <2>3. ChainOK(Append(chain, who), more)
    BY <2>2, ChainSent
  <2> QED BY <2>3 DEF more
<1> QED
  BY <1>1, <1>2, <1>3 DEF WindowOK

(* An answer that arrives ends its call.                                   *)
LEMMA FreesWindow ==
    ASSUME WindowOK, open, NEW who \in Callers, call[who].stage = "done",
           call' = [call EXCEPT ![who] = Idle], chain' = chain,
           launches' = launches, open' = open, view' \in Shown, disposed' \in BOOLEAN
    PROVE  WindowOK'
<1>1. Idle \in Call /\ Idle.stage = "idle"
  BY IdleIsCall
<1>2. /\ call' \in [Callers -> Call] /\ call'[who] = Idle
      /\ \A other \in Callers : other # who => call'[other] = call[other]
  BY <1>1 DEF WindowOK
<1>3. ChainOK(chain, call')
  <2>1. \A other \in Callers : call'[other].stage = "sent" <=> call[other].stage = "sent"
    BY <1>1, <1>2
  <2> DEFINE more == call'
  <2>2. /\ ChainOK(chain, call)
        /\ \A other \in Callers : more[other].stage = "sent" <=> call[other].stage = "sent"
    BY <2>1 DEF WindowOK
  <2> HIDE DEF more
  <2>3. ChainOK(chain, more)
    BY <2>2, ChainKept
  <2> QED BY <2>3 DEF more
<1> QED
  BY <1>1, <1>2, <1>3 DEF WindowOK

(* The clock asks for a phase that is over.                                *)
LEMMA TickWindow == WindowOK /\ ClockTick => WindowOK'
<1> SUFFICES ASSUME WindowOK, ClockTick PROVE WindowOK'
  OBVIOUS
<1>1. /\ open /\ launches' = launches /\ open' = open /\ view' = view
      /\ disposed' \in BOOLEAN
  BY DEF ClockTick, InFlight
<1>2. CASE Due(view, now) /\ ~InFlight(call)
  <2>1. /\ call' = [call EXCEPT !["reconcile"] = Sent("reconcile", view.cycle, None)]
        /\ chain' = Append(chain, "reconcile")
    BY <1>2 DEF ClockTick
  <2>2. /\ "reconcile" \in Callers /\ "reconcile" \in Kinds /\ view.cycle \in Nat
        /\ call["reconcile"].stage # "sent" /\ None \in Plans \cup {None}
    BY <1>2 DEF Callers, Kinds, WindowOK, Shown, InFlight
  <2> QED
    BY <1>1, <2>1, <2>2, SendsWindow
<1>3. CASE ~(Due(view, now) /\ ~InFlight(call))
  <2>1. call' = call /\ chain' = chain
    BY <1>3 DEF ClockTick
  <2> QED
    BY <1>1, <2>1 DEF WindowOK
<1> QED
  BY <1>2, <1>3

(* The author sends one command at a time.                                 *)
LEMMA AuthorWindow == WindowOK /\ (Configure \/ Command) => WindowOK'
<1> SUFFICES ASSUME WindowOK, Configure \/ Command PROVE WindowOK'
  OBVIOUS
<1>1. PICK kind \in Kinds, i \in Nat, plan \in Plans \cup {None} :
          AuthorAsks(kind, i, plan)
  <2>1. view.cycle \in Nat
    BY DEF WindowOK, Shown
  <2> QED
    BY <2>1 DEF Configure, Command, Kinds
<1>2. /\ open /\ call["author"].stage # "sent" /\ "author" \in Callers
      /\ call' = [call EXCEPT !["author"] = Sent(kind, i, plan)]
      /\ chain' = Append(chain, "author")
      /\ launches' = launches /\ open' = open /\ view' = view /\ disposed' = disposed
  BY <1>1 DEF AuthorAsks, window, Callers
<1>3. disposed' \in BOOLEAN
  BY <1>2 DEF WindowOK
<1> QED
  BY <1>2, <1>3, SendsWindow

(* Answers are shown, or dropped where the window moved on.                *)
LEMMA ArrivesWindow ==
    WindowOK /\ (ReconcileArrives \/ \E who \in Callers : AnswerArrives(who)) => WindowOK'
<1> SUFFICES ASSUME WindowOK, ReconcileArrives \/ \E who \in Callers : AnswerArrives(who)
             PROVE  WindowOK'
  OBVIOUS
<1>1. PICK who \in Callers :
          /\ open /\ call[who].stage = "done"
          /\ call' = [call EXCEPT ![who] = Idle]
          /\ chain' = chain /\ launches' = launches /\ open' = open
          /\ disposed' \in {disposed, FALSE, InFlight([call EXCEPT ![who] = Idle])}
          /\ view' \in {view, call[who].answer}
          /\ call[who].ok \/ view' = view
  <2>1. CASE ReconcileArrives
    BY <2>1 DEF ReconcileArrives, Show, Callers
  <2>2. CASE \E who \in Callers : AnswerArrives(who)
    BY <2>2 DEF AnswerArrives, Show, window
  <2> QED
    BY <2>1, <2>2
<1>2. view' \in Shown
  BY <1>1 DEF WindowOK
<1>3. disposed' \in BOOLEAN
  BY <1>1 DEF WindowOK, InFlight
<1> QED
  BY <1>1, <1>2, <1>3, FreesWindow

(* A launch starts with its query, in a window that knows nothing yet.     *)
LEMMA LaunchWindow == WindowOK /\ Launch => WindowOK'
<1> SUFFICES ASSUME WindowOK, Launch PROVE WindowOK'
  OBVIOUS
<1> DEFINE sent == Sent("query", 0, None)
<1>1. sent \in Call /\ sent.stage = "sent"
  <2>1. "query" \in Kinds /\ 0 \in Nat /\ None \in Plans \cup {None}
    BY DEF Kinds
  <2> QED BY <2>1, SentIsCall
<1>2. /\ ~open /\ launches' = launches + 1 /\ open' = TRUE /\ chain' = <<"query">>
      /\ call' = [call EXCEPT !["query"] = sent]
      /\ view' = Unseen /\ disposed' = FALSE
  BY DEF Launch
<1> HIDE DEF sent
<1>3. /\ call' \in [Callers -> Call] /\ call'["query"] = sent
      /\ \A other \in Callers : other # "query" => call'[other] = call[other]
  BY <1>1, <1>2 DEF WindowOK, Callers
<1>4. ChainOK(chain', call')
  <2>1. <<"query">> \in Seq(Callers) /\ DOMAIN <<"query">> = {1} /\ <<"query">>[1] = "query"
    BY DEF Callers
  <2>2. IsInjective(<<"query">>)
    BY <2>1 DEF IsInjective
  <2>3. \A who \in Callers : call'[who].stage = "sent" <=> who = "query"
    BY <1>1, <1>2, <1>3 DEF WindowOK
  <2> QED
    BY <1>2, <2>1, <2>2, <2>3 DEF ChainOK
<1>5. Unseen \in Shown
  BY DEF Unseen, Shown
<1>6. \A who \in Callers : call'[who].stage = "done" /\ call'[who].ok
                         => call'[who].answer \in Shown
  BY <1>1, <1>3 DEF WindowOK
<1>7. launches' \in Nat
  BY <1>2 DEF WindowOK
<1> QED
  BY <1>2, <1>3, <1>4, <1>5, <1>6, <1>7 DEF WindowOK

(* Nothing waits in an application that ended.                             *)
LEMMA EndsWindow ==
    ASSUME launches' \in Nat, open' = FALSE, call' = [c \in Callers |-> Idle],
           chain' = <<>>, view' = Unseen, disposed' = FALSE
    PROVE  WindowOK'
<1>1. Idle \in Call /\ Idle.stage = "idle"
  BY IdleIsCall
<1>2. call' \in [Callers -> Call] /\ \A who \in Callers : call'[who] = Idle
  BY <1>1
<1>3. ChainOK(chain', call')
  <2>1. <<>> \in Seq(Callers) /\ DOMAIN <<>> = {}
    OBVIOUS
  <2> QED BY <1>1, <1>2, <2>1 DEF ChainOK, IsInjective
<1>4. Unseen \in Shown
  BY DEF Unseen, Shown
<1> QED
  BY <1>1, <1>2, <1>3, <1>4 DEF WindowOK

(* Type correctness for any plans and any number of timers and launches:   *)
(* each caller has at most one call that waits for the runtime, and waits  *)
(* exactly while its call was sent (App.tsx, local-workspace-runtime.ts).  *)
THEOREM TypeCorrect == Spec => []TypeOK
<1>1. Init => WindowOK
  <2> SUFFICES ASSUME Init PROVE WindowOK
    OBVIOUS
  <2>1. call \in [Callers -> Call] /\ \A who \in Callers : call[who].stage = "idle"
    BY IdleIsCall DEF Init
  <2>2. ChainOK(chain, call)
    <3>1. <<>> \in Seq(Callers) /\ DOMAIN <<>> = {}
      OBVIOUS
    <3> QED BY <2>1, <3>1 DEF Init, ChainOK, IsInjective
  <2> QED
    BY <2>1, <2>2 DEF Init, WindowOK, Unseen, Shown
<1>2. WindowOK /\ Inv' /\ [Next]_vars => WindowOK'
  <2> SUFFICES ASSUME WindowOK, Inv', [Next]_vars PROVE WindowOK'
    OBVIOUS
  <2>1. CASE Ends
    <3>1. launches' \in Nat
      BY <2>1 DEF Ends, WindowOK
    <3> QED BY <2>1, <3>1, EndsWindow DEF Ends
  <2>2. CASE TimePasses \/ UNCHANGED vars
    BY <2>2 DEF TimePasses, vars, window, WindowOK
  <2> QED
    BY <2>1, <2>2, RunWindow, TickWindow, AuthorWindow, ArrivesWindow, LaunchWindow
       DEF Next
<1>3. Inv /\ WindowOK => TypeOK
  BY DEF Inv, StoreOK, WindowOK, ChainOK, TypeOK
<1> QED
  BY <1>1, <1>2, <1>3, Invariance, PTL DEF Spec
=============================================================================
