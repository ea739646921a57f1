------------------------------ MODULE FocusTimer ------------------------------
(***************************************************************************)
(* The Pomodoro timer of one work: its phases in the ledger and the        *)
(* commands of local-workspace-runtime.ts that move them, the restore when *)
(* the workspace is opened, and the window of App.tsx that watches the     *)
(* clock and asks the runtime to move on.                                  *)
(*                                                                         *)
(* Commands of the author, the window's reconciliation and its query reach *)
(* the runtime on one promise chain; their answers come back separately.   *)
(* Time is a number of units; a phase also counts the units it ran, so     *)
(* that properties can compare them with its target.                       *)
(***************************************************************************)
EXTENDS Naturals, SequencesExt, FiniteSets

CONSTANTS
    Plans,        \* the settings an author may choose
    MaxTime,      \* bound on the clock
    MaxStarts,    \* bound on the timers started
    MaxLaunches,  \* bound on the launches of the application
    None          \* null

ASSUME ConstantsAssumption ==
    /\ Plans \subseteq [work : Nat \ {0}, rest : Nat \ {0},
                        count : Nat \ {0}, auto : BOOLEAN]
    /\ MaxTime \in Nat /\ MaxStarts \in Nat /\ MaxLaunches \in Nat
    /\ None \notin Nat

VARIABLES
    now,        \* Date.now()
    policies,   \* the focus policies of the work, the current one last
    cycles,     \* the focus_cycles of the work, in the order of insertion
    launches,   \* launches so far
    open,       \* the application runs
    chain,      \* calls that wait for the runtime, in order
    call,       \* the call of each caller of the window
    view,       \* the projection the window shows
    disposed    \* the effect that reconciles was cleaned up meanwhile

store == <<policies, cycles>>
window == <<view, disposed>>
vars == <<now, store, launches, open, chain, call, window>>

Callers == {"author", "reconcile", "query"}
Kinds == {"configure", "pause", "resume", "note", "stop", "reconcile", "query"}

Idle == [stage |-> "idle", kind |-> "query", cycle |-> 0, plan |-> None,
         ok |-> FALSE, answer |-> None]

(* The window before it knows a projection.                                *)
Unseen == [status |-> "none", cycle |-> 0, deadline |-> None]

-----------------------------------------------------------------------------
(* Phases.                                                                 *)

Active(c) == c.state \in {"running", "paused"}

Target(p, phase) == IF phase = "work" THEN policies[p].work ELSE policies[p].rest

(* The projection that answers every command; App keeps of it which phase  *)
(* is active, its state and its deadline.                                  *)
CompletedWork(cs, p) ==
    Cardinality({i \in DOMAIN cs : /\ cs[i].policy = p
                                   /\ cs[i].phase = "work"
                                   /\ cs[i].state = "completed"})

ActiveIn(cs, p) == {i \in DOMAIN cs : cs[i].policy = p /\ Active(cs[i])}

Projection(ps, cs) ==
    LET p == Len(ps)
        active == ActiveIn(cs, p)
    IN  IF p = 0 THEN [status |-> "unconfigured", cycle |-> 0, deadline |-> None]
        ELSE IF active # {}
        THEN LET i == CHOOSE i \in active : TRUE
             IN [status |-> cs[i].state, cycle |-> i, deadline |-> cs[i].deadline]
        ELSE [status |-> IF CompletedWork(cs, p) = ps[p].count
                         THEN "completed" ELSE "idle",
              cycle |-> 0, deadline |-> None]

Phase(p, phase, target, running, reason) ==
    [policy |-> p, phase |-> phase,
     state |-> IF running THEN "running" ELSE "paused",
     reason |-> IF running THEN None ELSE reason,
     deadline |-> IF running THEN now + target ELSE None,
     remaining |-> IF running THEN None ELSE target,
     since |-> IF running THEN now ELSE 0, ran |-> 0]

-----------------------------------------------------------------------------
(* What the commands do to the phases.                                     *)

Remaining(c) == IF c.deadline > now THEN c.deadline - now ELSE 0

(* Mutant: a restored timer goes on by itself.                            *)
SuccessorRunning(cs, c, restore) ==
    LET phase == IF c.phase = "work" THEN "rest" ELSE "work"
    IN  IF c.phase = "work" /\ CompletedWork(cs, c.policy) >= policies[c.policy].count
        THEN <<>>
        ELSE << Phase(c.policy, phase, Target(c.policy, phase),
                      policies[c.policy].auto, "phase-complete") >>

(* Mutant: work goes on after its last phase.                             *)
SuccessorUnbounded(cs, c, restore) ==
    LET phase == IF c.phase = "work" THEN "rest" ELSE "work"
    IN  << Phase(c.policy, phase, Target(c.policy, phase),
                 ~restore /\ policies[c.policy].auto,
                 IF restore THEN "restore" ELSE "phase-complete") >>

(* The phase after a completed one: a break, or work unless all the work   *)
(* is done.  A restore never lets it run by itself.                        *)
Successor(cs, c, restore) ==
    LET done == CompletedWork(cs, c.policy)
        phase == IF c.phase = "work" THEN "rest" ELSE "work"
    IN  IF c.phase = "work" /\ done >= policies[c.policy].count THEN <<>>
        ELSE << Phase(c.policy, phase, Target(c.policy, phase),
                      ~restore /\ policies[c.policy].auto,
                      IF restore THEN "restore" ELSE "phase-complete") >>

(* Mutant: a phase ends when that is noticed.                             *)
CompletedLate(c) ==
    [c EXCEPT !.state = "completed", !.reason = None, !.deadline = None,
              !.remaining = None, !.since = 0, !.ran = @ + (now - c.since)]

(* A completed phase ends at its deadline (completed_at), however late     *)
(* that is noticed.                                                        *)
Completed(c) ==
    [c EXCEPT !.state = "completed", !.reason = None, !.deadline = None,
              !.remaining = None, !.since = 0, !.ran = @ + (c.deadline - c.since)]

(* Mutant: the successor is added without completing.                     *)
TransitionUncompleted(i, restore) ==
    cycles \o Successor([cycles EXCEPT ![i] = Completed(@)], cycles[i], restore)

Transition(i, restore) ==
    LET cs == [cycles EXCEPT ![i] = Completed(@)]
    IN  cs \o Successor(cs, cycles[i], restore)

Paused(c, reason) ==
    [c EXCEPT !.state = "paused", !.reason = reason, !.deadline = None,
              !.remaining = Remaining(c), !.since = 0, !.ran = @ + (now - c.since)]

Resumed(c) ==
    [c EXCEPT !.state = "running", !.reason = None,
              !.deadline = now + c.remaining, !.remaining = None, !.since = now]

Stopped(c) ==
    [c EXCEPT !.state = "stopped", !.reason = None, !.deadline = None,
              !.since = 0,
              !.remaining = IF c.state = "paused" THEN @ ELSE Remaining(c),
              !.ran = IF c.state = "running"
                      THEN @ + IF c.deadline > now THEN now - c.since
                                                   ELSE c.deadline - c.since
                      ELSE @]

IsCurrent(i) == i \in DOMAIN cycles /\ cycles[i].policy = Len(policies)

-----------------------------------------------------------------------------
Init ==
    /\ now = 0
    /\ policies = <<>> /\ cycles = <<>>
    /\ launches = 0 /\ open = FALSE
    /\ chain = <<>>
    /\ call = [c \in Callers |-> Idle]
    /\ view = Unseen /\ disposed = FALSE

(* A call of the window, and what it adds to the runtime's chain.          *)
Sent(kind, i, plan) ==
    [Idle EXCEPT !.stage = "sent", !.kind = kind, !.cycle = i, !.plan = plan]

-----------------------------------------------------------------------------
(* The runtime takes its calls in order; a query waits for those before it *)
(* and nobody waits for a query.                                           *)

CanRun(n) == \A m \in 1..(n - 1) : chain[m] = "query"

(* Mutant: a call that fails stays in the chain.                          *)
AnswersInTurn(who, ok, ps, cs) ==
    /\ policies' = ps
    /\ cycles' = cs
    /\ \E n \in DOMAIN chain :
           chain[n] = who /\ chain' = IF ok THEN RemoveAt(chain, n) ELSE chain
    /\ call' = [call EXCEPT ![who] =
                   [Idle EXCEPT !.stage = "done", !.ok = ok,
                                !.answer = IF ok THEN Projection(ps, cs) ELSE None]]
    /\ UNCHANGED <<now, launches, open, window>>

Answers(who, ok, ps, cs) ==
    /\ policies' = ps
    /\ cycles' = cs
    /\ \E n \in DOMAIN chain : chain[n] = who /\ chain' = RemoveAt(chain, n)
    /\ call' = [call EXCEPT ![who] =
                   [Idle EXCEPT !.stage = "done", !.ok = ok,
                                !.answer = IF ok THEN Projection(ps, cs) ELSE None]]
    /\ UNCHANGED <<now, launches, open, window>>

Turn(who, kind) ==
    /\ open
    /\ call[who].stage = "sent" /\ call[who].kind = kind
    /\ \E n \in DOMAIN chain : chain[n] = who /\ CanRun(n)

Rejects(who) == Answers(who, FALSE, policies, cycles)

RunConfigure ==
    LET plan == call["author"].plan
        p == Len(policies) + 1
        first == [Phase(p, "work", plan.work, TRUE, None) EXCEPT !.policy = p]
    IN  /\ Turn("author", "configure")
        /\ IF \E i \in DOMAIN cycles : Active(cycles[i])
           THEN Rejects("author")
           ELSE Answers("author", TRUE, Append(policies, plan), Append(cycles, first))

RunPause ==
    LET i == call["author"].cycle
    IN  /\ Turn("author", "pause")
        /\ IF ~(IsCurrent(i) /\ cycles[i].state = "running") THEN Rejects("author")
           ELSE IF Remaining(cycles[i]) = 0
           THEN Answers("author", TRUE, policies, Transition(i, FALSE))
           ELSE Answers("author", TRUE, policies,
                        [cycles EXCEPT ![i] = Paused(@, "manual")])

RunResume ==
    LET i == call["author"].cycle
    IN  /\ Turn("author", "resume")
        /\ IF IsCurrent(i) /\ cycles[i].state = "paused" /\ cycles[i].remaining > 0
           THEN Answers("author", TRUE, policies, [cycles EXCEPT ![i] = Resumed(@)])
           ELSE Rejects("author")

RunNote ==
    LET i == call["author"].cycle
    IN  /\ Turn("author", "note")
        /\ IF i \in DOMAIN cycles /\ Active(cycles[i])
           THEN Answers("author", TRUE, policies, cycles)
           ELSE Rejects("author")

RunStop ==
    LET i == call["author"].cycle
    IN  /\ Turn("author", "stop")
        /\ IF IsCurrent(i) /\ Active(cycles[i])
           THEN Answers("author", TRUE, policies, [cycles EXCEPT ![i] = Stopped(@)])
           ELSE Rejects("author")

RunReconcile ==
    LET i == call["reconcile"].cycle
    IN  /\ Turn("reconcile", "reconcile")
        /\ IF ~(IsCurrent(i) /\ cycles[i].state = "running") THEN Rejects("reconcile")
           ELSE Answers("reconcile", TRUE, policies,
                        IF cycles[i].deadline > now THEN cycles
                        ELSE Transition(i, FALSE))

RunQuery ==
    /\ Turn("query", "query")
    /\ Answers("query", TRUE, policies, cycles)

-----------------------------------------------------------------------------
(* The window.  An effect that depends on the projection and on the        *)
(* window's clock asks for reconciliation once a running phase is over;    *)
(* whenever either changes, an effect that asked before is cleaned up and  *)
(* will ignore its answer.  The window's clock is the time of its last     *)
(* tick; a projection that arrives is compared with it at the next tick.   *)

Due(v, t) == v.status = "running" /\ v.deadline <= t

InFlight(c) == c["reconcile"].stage # "idle"

(* The interval of a second that runs while a phase is shown as running.   *)
ClockTick ==
    LET asks == Due(view, now) /\ ~InFlight(call)
    IN  /\ open
        /\ view.status = "running"
        /\ disposed' = InFlight(call)
        /\ call' = IF asks THEN [call EXCEPT !["reconcile"] =
                                     Sent("reconcile", view.cycle, None)]
                   ELSE call
        /\ chain' = IF asks THEN Append(chain, "reconcile") ELSE chain
        /\ UNCHANGED <<now, store, launches, open, view>>

(* The window shows projection v.                                          *)
Show(v, calls) ==
    /\ view' = v
    /\ disposed' = InFlight(calls)
    /\ call' = calls

AuthorAsks(kind, i, plan) ==
    /\ open
    /\ call["author"].stage = "idle"
    /\ call' = [call EXCEPT !["author"] = Sent(kind, i, plan)]
    /\ chain' = Append(chain, "author")
    /\ UNCHANGED <<now, store, launches, open, window>>

Configure ==
    /\ Len(policies) < MaxStarts
    /\ \E plan \in Plans : AuthorAsks("configure", 0, plan)

Command ==
    /\ \/ view.status = "running" /\ AuthorAsks("pause", view.cycle, None)
       \/ view.status = "paused" /\ AuthorAsks("resume", view.cycle, None)
       \/ view.status \in {"running", "paused"}
            /\ \E kind \in {"note", "stop"} : AuthorAsks(kind, view.cycle, None)

(* An answer to the author or to the query replaces the projection; one    *)
(* that rejects leaves it.                                                 *)
AnswerArrives(who) ==
    LET freed == [call EXCEPT ![who] = Idle]
    IN  /\ open
        /\ who # "reconcile"
        /\ call[who].stage = "done"
        /\ IF call[who].ok THEN Show(call[who].answer, freed)
           ELSE call' = freed /\ UNCHANGED window
        /\ UNCHANGED <<now, store, launches, open, chain>>

(* Mutant: an ignored answer keeps the next from asking.                  *)
ReconcileArrivesUnreleased ==
    /\ open
    /\ call["reconcile"].stage = "done"
    /\ call["reconcile"].ok /\ ~disposed
    /\ Show(call["reconcile"].answer, [call EXCEPT !["reconcile"] = Idle])
    /\ UNCHANGED <<now, store, launches, open, chain>>

ReconcileArrives ==
    LET freed == [call EXCEPT !["reconcile"] = Idle]
    IN  /\ open
        /\ call["reconcile"].stage = "done"
        /\ IF call["reconcile"].ok /\ ~disposed
           THEN Show(call["reconcile"].answer, freed)
           ELSE call' = freed /\ disposed' = FALSE /\ view' = view
        /\ UNCHANGED <<now, store, launches, open, chain>>

-----------------------------------------------------------------------------
(* Opening the workspace restores the phases that were running when the    *)
(* application ended, before the window asks for the projection.           *)
Restored ==
    LET running == {i \in DOMAIN cycles : cycles[i].state = "running"}
        i == CHOOSE i \in running : TRUE
    IN  IF running = {} THEN cycles
        ELSE IF Remaining(cycles[i]) = 0 THEN Transition(i, TRUE)
        ELSE [cycles EXCEPT ![i] = Paused(@, "restore")]

Launch ==
    /\ ~open
    /\ launches < MaxLaunches
    /\ launches' = launches + 1
    /\ open' = TRUE
    /\ cycles' = Restored
    /\ call' = [call EXCEPT !["query"] = Sent("query", 0, None)]
    /\ chain' = <<"query">>
    /\ view' = Unseen /\ disposed' = FALSE
    /\ UNCHANGED <<now, policies>>

(* The application is closed or killed: nothing tells the timer.           *)
Ends ==
    /\ open
    /\ open' = FALSE
    /\ call' = [c \in Callers |-> Idle]
    /\ chain' = <<>>
    /\ view' = Unseen /\ disposed' = FALSE
    /\ UNCHANGED <<now, store, launches>>

TimePasses ==
    /\ now < MaxTime
    /\ now' = now + 1
    /\ UNCHANGED <<store, launches, open, chain, call, window>>

Run == RunConfigure \/ RunPause \/ RunResume \/ RunNote \/ RunStop
       \/ RunReconcile \/ RunQuery

Next ==
    \/ Run
    \/ ClockTick \/ Configure \/ Command
    \/ \E who \in Callers : AnswerArrives(who)
    \/ ReconcileArrives
    \/ Launch \/ Ends \/ TimePasses

Spec == Init /\ [][Next]_vars

(* Date.now() advances, the interval fires, the runtime runs what waits    *)
(* and answers settle.  Authors and launches are not obliged to anything.  *)
Fairness ==
    /\ WF_vars(TimePasses)
    /\ WF_vars(ClockTick)
    /\ WF_vars(RunConfigure) /\ WF_vars(RunPause) /\ WF_vars(RunResume)
    /\ WF_vars(RunNote) /\ WF_vars(RunStop)
    /\ WF_vars(RunReconcile) /\ WF_vars(RunQuery)
    /\ \A who \in Callers : WF_vars(AnswerArrives(who))
    /\ WF_vars(ReconcileArrives)

FairSpec == Spec /\ Fairness

-----------------------------------------------------------------------------
Cycle == [policy : Nat, phase : {"work", "rest"},
          state : {"running", "paused", "completed", "stopped"},
          reason : {"manual", "restore", "phase-complete", None},
          deadline : Nat \cup {None}, remaining : Nat \cup {None},
          since : Nat, ran : Nat]

Shown == [status : {"none", "unconfigured", "idle", "running", "paused", "completed"},
          cycle : Nat, deadline : Nat \cup {None}]

Call == [stage : {"idle", "sent", "done"}, kind : Kinds, cycle : Nat,
         plan : Plans \cup {None}, ok : BOOLEAN, answer : Shown \cup {None}]

(* Type correctness; what waits for the runtime are the calls that were    *)
(* sent, each once, and the window of an application that ended shows      *)
(* nothing (App.tsx, local-workspace-runtime.ts).                          *)
TypeOK ==
    /\ now \in Nat /\ launches \in Nat
    /\ policies \in Seq(Plans)
    /\ cycles \in Seq(Cycle)
    /\ open \in BOOLEAN /\ disposed \in BOOLEAN
    /\ call \in [Callers -> Call]
    /\ chain \in Seq(Callers)
    /\ \A who \in Callers : call[who].stage = "sent"
                            <=> \E n \in DOMAIN chain : chain[n] = who
    /\ IsInjective(chain)
    /\ view \in Shown
    /\ ~open => view = Unseen

(* A work has at most one phase that runs or is paused, and it belongs to  *)
(* the current policy; otherwise deriveStoredPomodoroProjection throws for *)
(* every later call, and so does the restore of the next launch.           *)
OneActivePhase ==
    /\ \A i, j \in DOMAIN cycles : Active(cycles[i]) /\ Active(cycles[j]) => i = j
    /\ \A i \in DOMAIN cycles : Active(cycles[i]) => cycles[i].policy = Len(policies)

(* Phases follow the plan: work and breaks alternate, each begins after    *)
(* the one before it was completed, and a timer ends with the last work    *)
(* phase (transitionCompletedPomodoroPhase), whoever noticed the deadlines *)
(* and however often the application was restarted.                        *)
PhasesFollowPlan ==
    \A i \in DOMAIN cycles :
        LET p == cycles[i].policy
            earlier == {j \in 1..(i - 1) : cycles[j].policy = p}
        IN  /\ cycles[i].phase = IF Cardinality(earlier) % 2 = 0 THEN "work" ELSE "rest"
            /\ \A j \in earlier : cycles[j].state = "completed"
            /\ Cardinality(earlier) < 2 * policies[p].count - 1

(* What is left of a phase.                                                *)
Left(c) == CASE c.state = "running" -> c.deadline - c.since
             [] c.state = "completed" -> 0
             [] OTHER -> c.remaining

(* The time of a phase is counted once: what it ran and what remains is    *)
(* its target in every state, so a completed phase ran for exactly its     *)
(* target, over any number of pauses, resumptions and restarts, and time   *)
(* left never exceeds the target, which parseActivePhase asserts.          *)
TimeIsCountedOnce ==
    \A i \in DOMAIN cycles :
        cycles[i].ran + Left(cycles[i]) = Target(cycles[i].policy, cycles[i].phase)

(* After a launch no phase runs until the author resumes it: the "safe     *)
(* stop" of plan.md:304 (restoreRunningPomodoroCycles).                    *)
LaunchStopsTimers ==
    [][~open /\ open' => \A i \in DOMAIN cycles' : cycles'[i].state # "running"]_vars

(* A phase that is past its deadline in the window and in the ledger is    *)
(* completed there, unless the window comes to show something else before  *)
(* (the reconciliation of App.tsx 5095-5146).                              *)
DuePhaseIsCompleted ==
    (Due(view, now) /\ Due(Projection(policies, cycles), now))
        ~> (~Due(view, now) \/ cycles[view.cycle].state # "running")

=============================================================================
