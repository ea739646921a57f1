------------------------- MODULE StoryStructureProofs -------------------------
(***************************************************************************)
(* Proofs about StoryStructure for every set of plots, events and          *)
(* documents, every first lane and every bound.                            *)
(*                                                                         *)
(* The two rules on primary links are kept by different guards: those of   *)
(* a plot by the ones that look at the plot, those of an event by          *)
(* createPlotFromEvent, which only makes a link for a plot that was not    *)
(* there before.  So the invariant adds that no link and no command under  *)
(* way names a plot or an event that does not exist yet.                   *)
(*                                                                         *)
(* The lane is the sequence of plots whose keys increase.  There is one,   *)
(* since the place of a plot on it is the number of keys below its own:    *)
(* so it is enough to say what a command does to a sequence and that the   *)
(* keys it writes increase along the result.  A move is sent with what the *)
(* window showed, so the invariant says what a board of an earlier         *)
(* revision may show.                                                      *)
(***************************************************************************)
EXTENDS StoryStructure, SequenceTheorems, FiniteSetTheorems, TLAPS

Stored(p) == p \in Plots /\ plots[p] # "unused"

LinksOK == \A l \in links : Stored(l.plot) /\ l.event \in events

CommandsOK ==
    /\ call = [f \in Flows |-> call[f]]
    /\ \A f \in Flows :
           /\ call[f].stage = "sent" /\ call[f].command.kind \in {"retire", "produce", "link"}
                  => Stored(call[f].command.plot)
           /\ call[f].stage = "sent" /\ call[f].command.kind = "link"
                  => call[f].command.event \in events

Inv ==
    /\ plots \in [Plots -> {"unused", "active", "retired"}]
    /\ LinksOK
    /\ CommandsOK
    /\ LinksAreSingle

-----------------------------------------------------------------------------
(* What keeps every part of the invariant: plots that stay as they were or *)
(* were retired, and the links as they were or fewer.                      *)
LEMMA LinksKept ==
    ASSUME Inv, links' \subseteq links, events \subseteq events',
           plots' \in [Plots -> {"unused", "active", "retired"}],
           \A p \in Plots : plots[p] # "unused" => plots'[p] # "unused",
           \A p \in Plots : plots[p] # "unused" /\ plots'[p] = "active"
                                => plots[p] = "active"
    PROVE  LinksOK' /\ LinksAreSingle'
<1>1. LinksOK'
  BY DEF Inv, LinksOK, Stored
<1>2. \A k, l \in links' : k.plot = l.plot /\ k.role = "primary" /\ l.role = "primary"
                            => k = l
  BY DEF Inv, LinksAreSingle
<1>3. ASSUME NEW e \in events', NEW k \in ProducedBy(e)', NEW l \in ProducedBy(e)',
             k.origin = "event-to-plot", l.origin = "event-to-plot"
      PROVE  k = l
  <2>1. /\ k \in links /\ k.event = e /\ k.role = "primary" /\ plots'[k.plot] = "active"
        /\ l \in links /\ l.event = e /\ l.role = "primary" /\ plots'[l.plot] = "active"
    BY <1>3 DEF ProducedBy
  <2>2. e \in events /\ plots[k.plot] = "active" /\ plots[l.plot] = "active"
    BY <2>1 DEF Inv, LinksOK, Stored
  <2>3. k \in ProducedBy(e) /\ l \in ProducedBy(e)
    BY <2>1, <2>2 DEF ProducedBy
  <2> QED
    BY <1>3, <2>2, <2>3 DEF Inv, LinksAreSingle
<1> QED
  BY <1>1, <1>2, <1>3 DEF LinksAreSingle

(* The calls after one of them settled.                                    *)
LEMMA CallSettled ==
    ASSUME CommandsOK, NEW f \in Flows, NEW stage, Settles(f, stage),
           stage.stage # "sent", events \subseteq events',
           \A p \in Plots : plots[p] # "unused" => plots'[p] # "unused"
    PROVE  CommandsOK'
<1>1. call' = [g \in Flows |-> IF g = f THEN stage ELSE call[g]]
  BY DEF CommandsOK, Settles
<1>2. \A g \in Flows : call'[g] = IF g = f THEN stage ELSE call[g]
  BY <1>1
<1>3. call' = [g \in Flows |-> call'[g]]
  BY <1>1
<1> QED
  BY <1>2, <1>3 DEF CommandsOK, Stored

(* Commands under way stay valid while plots and events are only added.    *)
LEMMA CallUnchanged ==
    ASSUME CommandsOK, UNCHANGED call, events \subseteq events',
           \A p \in Plots : plots[p] # "unused" => plots'[p] # "unused"
    PROVE  CommandsOK'
BY DEF CommandsOK, Stored

(* A flow may send a command about plots and events that exist.            *)
LEMMA CallSent ==
    ASSUME Inv, NEW f \in Flows, NEW command, Sends(f, command),
           command.kind \in {"retire", "produce", "link"} => Stored(command.plot),
           command.kind = "link" => command.event \in events
    PROVE  Inv'
<1>1. /\ call' = [g \in Flows |-> IF g = f THEN [stage |-> "sent", command |-> command]
                                  ELSE call[g]]
      /\ UNCHANGED <<plots, events, links>>
  BY DEF Inv, CommandsOK, Sends, lane, story
<1>2. \A g \in Flows : call'[g] = IF g = f THEN [stage |-> "sent", command |-> command]
                                  ELSE call[g]
  BY <1>1
<1>3. call' = [g \in Flows |-> call'[g]]
  BY <1>1
<1>4. CommandsOK'
  BY <1>1, <1>2, <1>3 DEF Inv, CommandsOK, Stored
<1>5. LinksOK' /\ LinksAreSingle'
  BY <1>1, LinksKept DEF Inv
<1> QED
  BY <1>1, <1>4, <1>5 DEF Inv

(* Placing a new plot changes that plot only.                              *)
LEMMA PlacesOK ==
    ASSUME NEW p \in Plots, plots \in [Plots -> {"unused", "active", "retired"}],
           Places(p)
    PROVE  /\ plots' \in [Plots -> {"unused", "active", "retired"}]
           /\ plots[p] = "unused" /\ plots'[p] = "active"
           /\ \A q \in Plots : q # p => plots'[q] = plots[q]
BY DEF Places

-----------------------------------------------------------------------------
(* The window asks only about what it shows, which exists.                 *)
LEMMA AsksStep ==
    ASSUME Inv, Asks
    PROVE  Inv'
<1>1. CASE AskPlot
  BY <1>1, CallSent DEF AskPlot, Flows, Stored, Inv, LinksOK
<1>2. CASE DropPlot
  <2>1. PICK command :
            Sends("plot", command) /\ command.kind = "move"
    BY <1>2 DEF DropPlot
  <2> QED
    BY <2>1, CallSent DEF Flows
<1>3. CASE DateStory
  BY <1>3, CallSent DEF DateStory, Flows
<1>4. CASE AskEvent
  BY <1>4, CallSent DEF AskEvent, Flows
<1>5. CASE RetireDocument
  <2>1. UNCHANGED <<plots, events, links, call>>
    BY <1>5 DEF RetireDocument, lane, story
  <2> QED
    BY <2>1, LinksKept, CallUnchanged DEF Inv
<1> QED
  BY <1>1, <1>2, <1>3, <1>4, <1>5 DEF Asks

(* A step that settles a call and leaves plots, links and events alone.    *)
LEMMA SettleStep ==
    ASSUME Inv, UNCHANGED <<plots, events, links>>,
           NEW f \in Flows, NEW stage, Settles(f, stage), stage.stage # "sent"
    PROVE  Inv'
BY LinksKept, CallSettled DEF Inv

(* What the window does with answers leaves the stored plots and events.   *)
LEMMA WindowStep ==
    ASSUME Inv, NEW f \in Flows,
           NoDocument(f) \/ AnswerArrives(f) \/ ReadRail(f) \/ ShowRail(f)
           \/ RefreshFails(f)
    PROVE  Inv'
<1>1. UNCHANGED <<plots, events, links>>
  BY DEF NoDocument, AnswerArrives, ReadRail, ShowRail, RefreshFails, Rejects, lane,
      story
<1>2. PICK stage : Settles(f, stage) /\ stage.stage # "sent"
  BY DEF NoDocument, AnswerArrives, ReadRail, ShowRail, RefreshFails, Rejects,
      Refreshes, Idle
<1> QED
  BY <1>1, <1>2, SettleStep

(* The commands on plots keep the invariant.                               *)
LEMMA PlotStep ==
    ASSUME Inv, RunsPlot
    PROVE  Inv'
<1>1. CASE CreatePlot
  <2>1. PICK p \in Plots : Places(p)
    BY <1>1 DEF CreatePlot
  <2>2. UNCHANGED <<events, links>> /\ Refreshes("plot")
    BY <1>1 DEF CreatePlot, story
  <2>3. /\ plots' \in [Plots -> {"unused", "active", "retired"}]
        /\ plots[p] = "unused" /\ plots'[p] = "active"
        /\ \A q \in Plots : q # p => plots'[q] = plots[q]
    BY <2>1, PlacesOK DEF Inv
  <2>4. LinksOK' /\ LinksAreSingle'
    BY <2>2, <2>3, LinksKept
  <2>5. CommandsOK'
    BY <2>2, <2>3, CallSettled DEF Refreshes, Inv, Flows
  <2> QED
    BY <2>3, <2>4, <2>5 DEF Inv
<1>2. CASE RetirePlot
  <2> DEFINE p == call["plot"].command.plot
  <2>1. /\ plots' = [plots EXCEPT ![p] = "retired"]
        /\ UNCHANGED <<events, links>> /\ Refreshes("plot")
    BY <1>2 DEF RetirePlot, story
  <2>2. /\ plots' \in [Plots -> {"unused", "active", "retired"}]
        /\ \A q \in Plots : plots'[q] = IF q = p THEN "retired" ELSE plots[q]
    BY <2>1 DEF Inv
  <2> HIDE DEF p
  <2>3. LinksOK' /\ LinksAreSingle'
    BY <2>1, <2>2, LinksKept
  <2>4. CommandsOK'
    BY <2>1, <2>2, CallSettled DEF Refreshes, Inv, Flows
  <2> QED
    BY <2>2, <2>3, <2>4 DEF Inv
<1>3. CASE MovePlot \/ MoveConflicts \/ SetStoryTime \/ StoryTimeConflicts
  <2>1. UNCHANGED <<plots, events, links>>
    BY <1>3 DEF MovePlot, MoveConflicts, SetStoryTime, StoryTimeConflicts, Rejects,
        lane, story
  <2>2. PICK stage : Settles("plot", stage) /\ stage.stage # "sent"
    BY <1>3 DEF MovePlot, MoveConflicts, SetStoryTime, StoryTimeConflicts, Rejects,
        Shows, Idle
  <2> QED
    BY <2>1, <2>2, SettleStep DEF Flows
<1> QED
  BY <1>1, <1>2, <1>3 DEF RunsPlot

-----------------------------------------------------------------------------
(* A new link whose plot has no other primary link if it is a primary one, *)
(* and whose event no active plot was made from if its own plot was.       *)
LEMMA LinkAdded ==
    ASSUME Inv, plots' \in [Plots -> {"unused", "active", "retired"}],
           NEW p \in Plots, NEW e, NEW role, NEW origin, e \in events',
           links' = links \cup {Link(p, e, role, origin)},
           events \subseteq events', plots'[p] # "unused",
           \A q \in Plots : plots[q] # "unused" => plots'[q] = plots[q],
           role = "primary" => \A l \in links : l.plot = p => l.role # "primary",
           origin = "event-to-plot" => ProducedBy(e) = {}
    PROVE  LinksOK' /\ LinksAreSingle'
<1> DEFINE new == Link(p, e, role, origin)
<1>1. new.plot = p /\ new.event = e /\ new.role = role /\ new.origin = origin
  BY DEF Link
<1> HIDE DEF new
<1>2. links' = links \cup {new}
  BY DEF new
<1>3. \A l \in links : Stored(l.plot) /\ l.event \in events
                       /\ plots'[l.plot] = plots[l.plot]
  BY DEF Inv, LinksOK, Stored
<1>4. LinksOK'
  BY <1>1, <1>2, <1>3 DEF LinksOK, Stored
<1>5. ASSUME NEW k \in links', NEW l \in links', k.plot = l.plot,
             k.role = "primary", l.role = "primary"
      PROVE  k = l
  <2>1. CASE k \in links /\ l \in links
    BY <1>5, <2>1 DEF Inv, LinksAreSingle
  <2>2. CASE k = new \/ l = new
    BY <1>1, <1>2, <1>5, <2>2
  <2> QED
    BY <1>2, <2>1, <2>2
<1>6. ASSUME NEW x \in events', NEW k \in ProducedBy(x)', NEW l \in ProducedBy(x)',
             k.origin = "event-to-plot", l.origin = "event-to-plot"
      PROVE  k = l
  <2>1. /\ k \in links' /\ k.event = x /\ k.role = "primary" /\ plots'[k.plot] = "active"
        /\ l \in links' /\ l.event = x /\ l.role = "primary" /\ plots'[l.plot] = "active"
    BY <1>6 DEF ProducedBy
  <2>2. /\ k \in links => x \in events /\ k \in ProducedBy(x)
        /\ l \in links => x \in events /\ l \in ProducedBy(x)
    BY <1>3, <2>1 DEF ProducedBy
  <2>3. CASE k \in links /\ l \in links
    BY <1>6, <2>2, <2>3 DEF Inv, LinksAreSingle
  <2>4. CASE k = new \/ l = new
    BY <1>1, <1>2, <1>6, <2>1, <2>2, <2>4
  <2> QED
    BY <1>2, <2>1, <2>3, <2>4
<1> QED
  BY <1>4, <1>5, <1>6 DEF LinksAreSingle

(* The commands on events and their links keep the invariant.              *)
LEMMA EventStep ==
    ASSUME Inv, RunsEvent
    PROVE  Inv'
<1>1. CASE CreateEvent
  <2>1. PICK e \in Events : AddsEvent(e, call["event"].command.document)
    BY <1>1 DEF CreateEvent
  <2>2. /\ events \subseteq events' /\ links' = links /\ plots' = plots
    BY <1>1, <2>1 DEF CreateEvent, AddsEvent, lane
  <2>3. PICK stage : Settles("event", stage) /\ stage.stage # "sent"
    BY <1>1 DEF CreateEvent, Refreshes, Idle
  <2>4. LinksOK' /\ LinksAreSingle'
    BY <2>2, LinksKept DEF Inv
  <2>5. CommandsOK'
    BY <2>2, <2>3, CallSettled DEF Inv, Flows
  <2> QED
    BY <2>2, <2>4, <2>5 DEF Inv
<1>2. CASE EventFromPlot
  <2> DEFINE p == call["plot"].command.plot
  <2>1. PICK e \in Events :
            /\ AddsEvent(e, call["plot"].command.document)
            /\ links' = links \cup {Link(p, e, "primary", "plot-to-event")}
    BY <1>2 DEF EventFromPlot
  <2>2. /\ events \subseteq events' /\ e \in events' /\ plots' = plots
        /\ PrimaryOf(p) = {} /\ Refreshes("plot") /\ Runs("plot", "produce")
    BY <1>2, <2>1 DEF EventFromPlot, AddsEvent, lane
  <2>3. p \in Plots /\ plots[p] # "unused"
    BY <2>2 DEF Inv, CommandsOK, Stored, Runs, Flows
  <2> HIDE DEF p
  <2>4. \A l \in links : l.plot = p => l.role # "primary"
    BY <2>2 DEF PrimaryOf
  <2>5. LinksOK' /\ LinksAreSingle'
    BY <2>1, <2>2, <2>3, <2>4, LinkAdded DEF Inv
  <2>6. CommandsOK'
    BY <2>2, CallSettled DEF Inv, Flows, Refreshes
  <2> QED
    BY <2>2, <2>5, <2>6 DEF Inv
<1>3. CASE EventOfPlotExists
  <2>1. UNCHANGED <<plots, events, links>>
    BY <1>3 DEF EventOfPlotExists, lane, story
  <2>2. PICK stage : Settles("plot", stage) /\ stage.stage # "sent"
    BY <1>3 DEF EventOfPlotExists, Refreshes, Idle
  <2> QED
    BY <2>1, <2>2, SettleStep DEF Flows
<1>4. CASE PlotFromEvent
  <2>1. PICK e \in events, p \in Plots :
            /\ ProducedBy(e) = {} /\ Places(p)
            /\ links' = links \cup {Link(p, e, "primary", "event-to-plot")}
    BY <1>4 DEF PlotFromEvent
  <2>2. /\ plots' \in [Plots -> {"unused", "active", "retired"}]
        /\ plots[p] = "unused" /\ plots'[p] = "active"
        /\ \A q \in Plots : q # p => plots'[q] = plots[q]
    BY <2>1, PlacesOK DEF Inv
  <2>3. UNCHANGED <<events, call>>
    BY <1>4 DEF PlotFromEvent
  <2>4. \A l \in links : l.plot # p
    BY <2>2 DEF Inv, LinksOK, Stored
  <2>5. LinksOK' /\ LinksAreSingle'
    BY <2>1, <2>2, <2>3, <2>4, LinkAdded
  <2>6. CommandsOK'
    BY <2>2, <2>3, CallUnchanged DEF Inv
  <2> QED
    BY <2>2, <2>5, <2>6 DEF Inv
<1>5. CASE LinkEvent
  <2> DEFINE c == call["plot"].command
  <2>1. /\ Runs("plot", "link") /\ LinkFits(c)
        /\ links' = links \cup {Link(c.plot, c.event, c.role, "manual-link")}
        /\ UNCHANGED <<plots, events>>
    BY <1>5 DEF LinkEvent, lane
  <2>2. PICK stage : Settles("plot", stage) /\ stage.stage # "sent"
    BY <1>5 DEF LinkEvent, Refreshes, Idle
  <2>3. c.plot \in Plots /\ plots[c.plot] # "unused" /\ c.event \in events
    BY <2>1 DEF Inv, CommandsOK, Stored, Runs, Flows
  <2>4. c.role = "primary" => \A l \in links : l.plot = c.plot => l.role # "primary"
    BY <2>1 DEF LinkFits, PrimaryOf
  <2> HIDE DEF c
  <2>5. LinksOK' /\ LinksAreSingle'
    BY <2>1, <2>3, <2>4, LinkAdded DEF Inv
  <2>6. CommandsOK'
    BY <2>1, <2>2, CallSettled DEF Inv, Flows
  <2> QED
    BY <2>1, <2>5, <2>6 DEF Inv
<1>6. CASE LinkExistsOrConflicts
  <2>1. UNCHANGED <<plots, events, links>>
    BY <1>6 DEF LinkExistsOrConflicts, lane, story
  <2>2. PICK stage : Settles("plot", stage) /\ stage.stage # "sent"
    BY <1>6 DEF LinkExistsOrConflicts, Refreshes, Idle
  <2> QED
    BY <2>1, <2>2, SettleStep DEF Flows
<1>7. CASE UnlinkEvent
  <2>1. links' \subseteq links /\ UNCHANGED <<plots, events>>
    BY <1>7 DEF UnlinkEvent, lane
  <2>2. PICK stage : Settles("plot", stage) /\ stage.stage # "sent"
    BY <1>7 DEF UnlinkEvent, Refreshes, Idle
  <2>3. LinksOK' /\ LinksAreSingle'
    BY <2>1, LinksKept DEF Inv
  <2>4. CommandsOK'
    BY <2>1, <2>2, CallSettled DEF Inv, Flows
  <2> QED
    BY <2>1, <2>3, <2>4 DEF Inv
<1> QED
  BY <1>1, <1>2, <1>3, <1>4, <1>5, <1>6, <1>7 DEF RunsEvent

-----------------------------------------------------------------------------
(* The inductive invariant.                                                *)
THEOREM Invariance == Spec => []Inv
<1>1. Init => Inv
  <2> SUFFICES ASSUME Init PROVE Inv
    OBVIOUS
  <2>1. plots \in [Plots -> {"unused", "active", "retired"}]
    BY DEF Init
  <2>2. links = {} /\ call = [f \in Flows |-> Idle]
    BY DEF Init
  <2>3. CommandsOK
    BY <2>2 DEF CommandsOK, Idle
  <2>4. LinksOK /\ LinksAreSingle
    BY <2>2 DEF LinksOK, LinksAreSingle, ProducedBy
  <2> QED
    BY <2>1, <2>3, <2>4 DEF Inv
<1>2. Inv /\ [Next]_vars => Inv'
  <2> SUFFICES ASSUME Inv, [Next]_vars PROVE Inv'
    OBVIOUS
  <2>1. CASE UNCHANGED vars
    <3>1. UNCHANGED <<plots, events, links, call>>
      BY <2>1 DEF vars, lane, story
    <3> QED
      BY <3>1, LinksKept, CallUnchanged DEF Inv
  <2> QED
    BY <2>1, AsksStep, PlotStep, EventStep, WindowStep DEF Next
<1> QED
  BY <1>1, <1>2, PTL DEF Spec

(* Over every way to create, link and retire plots and events, a plot has  *)
(* at most one primary event and an event at most one active plot that was *)
(* made from it (createEventFromPlot, createPlotFromEvent).                *)
THEOREM OnePrimaryEach == Spec => []LinksAreSingle
<1>1. Inv => LinksAreSingle
  BY DEF Inv
<1> QED
  BY <1>1, Invariance, PTL
-----------------------------------------------------------------------------
(* Order keys.  A key is between two others as fractions are, and the lane *)
(* is the sequence of its plots in the order of their keys.                *)

(* Every set of naturals that is not empty has a least element.            *)
LEMMA LeastNatural ==
    ASSUME NEW T \in SUBSET Nat, T # {}
    PROVE  \E x \in T : \A y \in T : x <= y
<1> DEFINE Below == {1..n : n \in T}
<1>1. Below \subseteq FiniteSubsetsOf(Nat) /\ Below # {}
  <2>1. \A n \in T : IsFiniteSet(1..n)
    <3>1. \A n \in T : n \in Int /\ 1 \in Int
      OBVIOUS
    <3> QED
      BY <3>1, FS_Interval
  <2>2. \A n \in T : 1..n \in SUBSET Nat
    OBVIOUS
  <2> QED
    BY <2>1, <2>2 DEF FiniteSubsetsOf
<1>2. PICK m \in Below : \A s \in Below : <<s, m>> \notin StrictSubsetOrdering(Nat)
  <2>1. IsWellFoundedOn(StrictSubsetOrdering(Nat), FiniteSubsetsOf(Nat))
    BY FS_StrictSubsetOrderingWellFounded
  <2> HIDE DEF Below
  <2> QED
    BY <1>1, <2>1, WFMin
<1>3. PICK x \in T : m = 1..x
  OBVIOUS
<1>4. ASSUME NEW y \in T, y < x PROVE FALSE
  <2>1. 1..y \in Below
    BY <1>4
  <2>2. /\ 1..y \subseteq 1..x /\ 1..y # 1..x
        /\ 1..y \in SUBSET Nat /\ 1..x \in SUBSET Nat
    <3>1. x \in 1..x /\ x \notin 1..y
      BY <1>4
    <3> QED
      BY <1>4, <3>1
  <2>3. <<1..y, m>> \in StrictSubsetOrdering(Nat)
    BY <1>3, <2>2 DEF StrictSubsetOrdering
  <2> QED
    BY <1>2, <2>1, <2>3
<1> QED
  BY <1>4

(* Keys are ordered.                                                       *)
LEMMA LessIsOrder ==
    ASSUME NEW k \in OrderKey, NEW l \in OrderKey, NEW m \in OrderKey
    PROVE  /\ ~Less(k, k)
           /\ Less(k, l) => ~Less(l, k)
           /\ Less(k, l) /\ Less(l, m) => Less(k, m)
<1>1. /\ k[1] \in Int /\ k[2] \in Nat \ {0} /\ l[1] \in Int /\ l[2] \in Nat \ {0}
      /\ m[1] \in Int /\ m[2] \in Nat \ {0}
  BY DEF OrderKey
<1>2. \A a, c, e \in Int, b, d, f \in Nat \ {0} :
          a * d < c * b /\ c * f < e * d => a * f < e * b
  OBVIOUS
<1>3. ~Less(k, k) /\ (Less(k, l) => ~Less(l, k))
  BY <1>1 DEF Less
<1>4. Less(k, l) /\ Less(l, m) => Less(k, m)
  <2> DEFINE a == k[1]  b == k[2]  c == l[1]  d == l[2]  e == m[1]  f == m[2]
  <2>1. /\ Less(k, l) <=> a * d < c * b
        /\ Less(l, m) <=> c * f < e * d
        /\ Less(k, m) <=> a * f < e * b
    BY DEF Less
  <2>2. a \in Int /\ c \in Int /\ e \in Int /\ b \in Nat \ {0} /\ d \in Nat \ {0}
        /\ f \in Nat \ {0}
    BY <1>1
  <2> HIDE DEF a, b, c, d, e, f
  <2> QED
    BY <1>2, <2>1, <2>2
<1> QED
  BY <1>3, <1>4

(* A fraction has lowest terms: divisors that both terms have are bounded. *)
LEMMA ReducedIsEqual ==
    ASSUME NEW n \in Int, NEW d \in Nat \ {0}
    PROVE  \E g \in Nat \ {0}, a \in Int, b \in Nat \ {0} :
               Reduced(n, d) = <<a, b>> /\ n = g * a /\ d = g * b
<1> DEFINE Common(g) == Divides(g, n) /\ Divides(g, d)
           T == {x \in 0..d : d - x \in 1..d /\ Common(d - x)}
           G(g) == Common(g) /\ \A h \in (g + 1)..d : ~Common(h)
           g == CHOOSE g \in 1..d : G(g)
<1>1. \E x \in 1..d : G(x)
  <2>1. d - 1 \in T
    BY DEF Divides
  <2>2. PICK x \in T : \A y \in T : x <= y
    <3>1. T \in SUBSET Nat /\ T # {}
      BY <2>1
    <3> HIDE DEF T
    <3> QED
      BY <3>1, LeastNatural
  <2>3. d - x \in 1..d /\ Common(d - x) /\ x \in Nat
    BY <2>2
  <2>4. ASSUME NEW h \in (d - x + 1)..d, Common(h) PROVE FALSE
    <3>1. d - h \in T
      <4>1. h \in Nat /\ d - h \in 0..d /\ d - (d - h) = h /\ h \in 1..d
        BY <2>3, <2>4
      <4> HIDE DEF Common
      <4> QED
        BY <2>4, <4>1
    <3>2. d - h < x
      BY <2>3, <2>4
    <3>3. x <= d - h
      BY <2>2, <3>1
    <3> QED
      BY <2>3, <2>4, <3>2, <3>3
  <2> HIDE DEF T, Common
  <2> QED
    BY <2>3, <2>4
<1>2. g \in 1..d /\ G(g)
  <2> HIDE DEF G
  <2> QED
    BY <1>1
<1>3. Reduced(n, d) = <<n \div g, d \div g>>
  BY DEF Reduced
<1> HIDE DEF g
<1>4. n % g = 0 /\ d % g = 0 /\ g \in Nat \ {0}
  BY <1>2 DEF Divides
<1>5. n \div g \in Int /\ n = g * (n \div g)
  BY <1>4
<1>6. d \div g \in Int /\ d = g * (d \div g)
  BY <1>4
<1>7. d \div g \in Nat \ {0}
  BY <1>4, <1>6
<1> QED
  BY <1>3, <1>4, <1>5, <1>6, <1>7

(* A new key is a key and lies between its neighbours, below the first or  *)
(* above the last (createOrderKeyBetween).                                 *)
THEOREM KeyIsBetween ==
    ASSUME NEW k \in OrderKey \cup {None}, NEW l \in OrderKey \cup {None},
           k # None /\ l # None => Less(k, l)
    PROVE  /\ KeyBetween(k, l) \in OrderKey
           /\ k # None => Less(k, KeyBetween(k, l))
           /\ l # None => Less(KeyBetween(k, l), l)
<1>1. /\ k # None => k[1] \in Int /\ k[2] \in Nat \ {0} /\ k = <<k[1], k[2]>>
      /\ l # None => l[1] \in Int /\ l[2] \in Nat \ {0} /\ l = <<l[1], l[2]>>
  BY DEF OrderKey
<1>2. CASE k = None /\ l = None
  BY <1>2 DEF KeyBetween, OrderKey
<1>3. CASE k = None /\ l # None
  <2>1. KeyBetween(k, l) = <<l[1] - l[2], l[2]>>
    BY <1>3 DEF KeyBetween
  <2>2. \A a \in Int, b \in Nat \ {0} : (a - b) * b < a * b
    OBVIOUS
  <2> QED
    BY <1>1, <1>3, <2>1, <2>2 DEF OrderKey, Less
<1>4. CASE k # None /\ l = None
  <2>1. KeyBetween(k, l) = <<k[1] + k[2], k[2]>>
    BY <1>4 DEF KeyBetween
  <2>2. \A a \in Int, b \in Nat \ {0} : a * b < (a + b) * b
    OBVIOUS
  <2> QED
    BY <1>1, <1>4, <2>1, <2>2 DEF OrderKey, Less
<1>5. CASE k # None /\ l # None
  <2>1. KeyBetween(k, l) = Reduced(k[1] + l[1], k[2] + l[2])
    BY <1>5 DEF KeyBetween
  <2> DEFINE n == k[1] + l[1]
             d == k[2] + l[2]
  <2>2. n \in Int /\ d \in Nat \ {0} /\ n = k[1] + l[1] /\ d = k[2] + l[2]
    BY <1>1, <1>5
  <2> HIDE DEF n, d
  <2>3. PICK g \in Nat \ {0}, a \in Int, b \in Nat \ {0} :
            Reduced(n, d) = <<a, b>> /\ n = g * a /\ d = g * b
    BY <2>2, ReducedIsEqual
  <2>4. k[1] * (g * b) < (g * a) * k[2] /\ (g * a) * l[2] < l[1] * (g * b)
    <3>1. \A x, z \in Int, y, w \in Nat \ {0} :
              x * w < z * y => /\ x * (y + w) < (x + z) * y
                               /\ (x + z) * w < z * (y + w)
      OBVIOUS
    <3>2. k[1] * l[2] < l[1] * k[2]
      BY <1>5 DEF Less
    <3>3. k[1] * d < n * k[2] /\ n * l[2] < l[1] * d
      BY <1>1, <1>5, <2>2, <3>1, <3>2
    <3> QED
      BY <2>3, <3>3
  <2>5. k[1] * b < a * k[2] /\ a * l[2] < l[1] * b
    <3>1. \A x, z \in Int, y, w, h \in Nat \ {0} :
              /\ x * (h * w) < (h * z) * y => x * w < z * y
              /\ (h * z) * y < x * (h * w) => z * y < x * w
      OBVIOUS
    <3> QED
      BY <1>1, <1>5, <2>4, <3>1
  <2>6. KeyBetween(k, l) = <<a, b>>
    BY <2>1, <2>3 DEF n, d
  <2> QED
    BY <2>3, <2>5, <2>6 DEF OrderKey, Less
<1> QED
  BY <1>2, <1>3, <1>4, <1>5

-----------------------------------------------------------------------------
(* The lane of placements pl, and what makes a sequence that lane.         *)

PlacedIn(pl) == {p \in Plots : pl[p] # None}

LaneOf(pl) ==
    [i \in 1..Cardinality(PlacedIn(pl)) |->
        CHOOSE p \in PlacedIn(pl) :
            Cardinality({q \in PlacedIn(pl) : Less(pl[q].key, pl[p].key)}) = i - 1]

IsLane(s, pl) ==
    /\ pl \in [Plots -> Placement \cup {None}]
    /\ s \in Seq(Plots)
    /\ \A p \in Plots : pl[p] # None <=> \E i \in DOMAIN s : s[i] = p
    /\ \A i, j \in DOMAIN s : i < j => Less(pl[s[i]].key, pl[s[j]].key)

(* A plot on the lane has a key, and no plot is on it twice.               *)
LEMMA LaneFacts ==
    ASSUME NEW s, NEW pl, IsLane(s, pl)
    PROVE  /\ Len(s) \in Nat /\ DOMAIN s = 1..Len(s)
           /\ \A i \in 1..Len(s) : /\ s[i] \in PlacedIn(pl)
                                   /\ pl[s[i]] \in Placement
                                   /\ pl[s[i]].key \in OrderKey
           /\ \A i, j \in 1..Len(s) : Less(pl[s[i]].key, pl[s[j]].key) <=> i < j
           /\ \A i, j \in 1..Len(s) : s[i] = s[j] => i = j
           /\ \A p \in PlacedIn(pl) : \E i \in 1..Len(s) : s[i] = p
<1>1. Len(s) \in Nat /\ DOMAIN s = 1..Len(s)
  BY LenProperties DEF IsLane
<1>2. ASSUME NEW i \in 1..Len(s)
      PROVE  /\ s[i] \in PlacedIn(pl) /\ pl[s[i]] \in Placement
             /\ pl[s[i]].key \in OrderKey
  <2>1. s[i] \in Plots /\ pl[s[i]] # None
    BY <1>1, ElementOfSeq DEF IsLane
  <2>2. pl[s[i]] \in Placement
    BY <2>1 DEF IsLane
  <2> QED
    BY <2>1, <2>2 DEF PlacedIn, Placement
<1>3. ASSUME NEW i \in 1..Len(s), NEW j \in 1..Len(s)
      PROVE  /\ Less(pl[s[i]].key, pl[s[j]].key) <=> i < j
             /\ s[i] = s[j] => i = j
  <2> DEFINE k == pl[s[i]].key
             l == pl[s[j]].key
  <2>1. k \in OrderKey /\ l \in OrderKey
    BY <1>2
  <2>2. (i < j => Less(k, l)) /\ (j < i => Less(l, k))
    BY <1>1 DEF IsLane
  <2>3. s[i] = s[j] => k = l
    OBVIOUS
  <2> HIDE DEF k, l
  <2>4. ~Less(k, k) /\ (Less(k, l) => ~Less(l, k))
    BY <2>1, LessIsOrder
  <2>5. (Less(k, l) <=> i < j) /\ (s[i] = s[j] => i = j)
    BY <1>1, <2>2, <2>3, <2>4
  <2> QED
    BY <2>5 DEF k, l
<1>4. \A p \in PlacedIn(pl) : \E i \in 1..Len(s) : s[i] = p
  BY <1>1 DEF IsLane, PlacedIn
<1> QED
  BY <1>1, <1>2, <1>3, <1>4

(* There is one lane: a plot's place on it is the number of keys before    *)
(* its own.                                                                *)
LEMMA LaneIsUnique ==
    ASSUME NEW s, NEW pl, IsLane(s, pl)
    PROVE  LaneOf(pl) = s
<1> DEFINE n == Len(s)
           P == PlacedIn(pl)
           Lower(p) == {q \in P : Less(pl[q].key, pl[p].key)}
<1>1. /\ n \in Nat /\ DOMAIN s = 1..n
      /\ \A i \in 1..n : s[i] \in P
      /\ \A i, j \in 1..n : Less(pl[s[i]].key, pl[s[j]].key) <=> i < j
      /\ \A i, j \in 1..n : s[i] = s[j] => i = j
      /\ \A p \in P : \E i \in 1..n : s[i] = p
  BY LaneFacts
<1>2. s = [i \in 1..n |-> s[i]]
  BY LenProperties DEF IsLane
<1> HIDE DEF n, P
<1>3. ASSUME NEW m \in 0..n
      PROVE  Cardinality({s[j] : j \in 1..m}) = m
  <2> DEFINE f == [j \in 1..m |-> s[j]]
  <2>1. f \in [1..m -> {s[j] : j \in 1..m}]
    OBVIOUS
  <2>2. \A i, j \in 1..m : i \in 1..n /\ j \in 1..n
    BY <1>1
  <2>3. f \in Bijection(1..m, {s[j] : j \in 1..m})
    <3>1. \A i, j \in 1..m : f[i] = f[j] => i = j
      BY <1>1, <2>2
    <3>2. \A y \in {s[j] : j \in 1..m} : \E j \in 1..m : f[j] = y
      OBVIOUS
    <3> QED
      BY <2>1, <3>1, <3>2 DEF Bijection, Injection, Surjection, IsInjective
  <2>4. ExistsBijection(1..m, {s[j] : j \in 1..m})
    BY <2>3 DEF ExistsBijection
  <2>5. m \in Nat
    BY <1>1
  <2> QED
    BY <2>4, <2>5, FS_CountingElements
<1>4. Cardinality(P) = n
  <2>1. P = {s[j] : j \in 1..n}
    BY <1>1
  <2> QED
    BY <1>1, <1>3, <2>1
<1>5. ASSUME NEW i \in 1..n PROVE Cardinality(Lower(s[i])) = i - 1
  <2>1. \A j \in 1..n : s[j] \in Lower(s[i]) <=> j \in 1..(i - 1)
    BY <1>1
  <2>2. \A q \in Lower(s[i]) : \E j \in 1..n : s[j] = q
    BY <1>1
  <2>3. \A j \in 1..(i - 1) : j \in 1..n
    BY <1>1
  <2> HIDE DEF Lower
  <2>4. Lower(s[i]) = {s[j] : j \in 1..(i - 1)}
    BY <2>1, <2>2, <2>3
  <2>5. i - 1 \in 0..n
    BY <1>1
  <2> QED
    BY <1>3, <2>4, <2>5
<1>6. ASSUME NEW i \in 1..n
      PROVE  (CHOOSE p \in P : Cardinality(Lower(p)) = i - 1) = s[i]
  <2>1. \A p \in P : Cardinality(Lower(p)) = i - 1 => p = s[i]
    <3> SUFFICES ASSUME NEW p \in P, Cardinality(Lower(p)) = i - 1 PROVE p = s[i]
      OBVIOUS
    <3>1. PICK j \in 1..n : p = s[j]
      BY <1>1
    <3>2. j - 1 = i - 1
      BY <1>5, <3>1
    <3> QED
      BY <1>1, <3>1, <3>2
  <2>2. s[i] \in P /\ Cardinality(Lower(s[i])) = i - 1
    BY <1>1, <1>5
  <2> HIDE DEF Lower
  <2> QED
    BY <2>1, <2>2
<1>7. LaneOf(pl) = [i \in 1..n |-> CHOOSE p \in P : Cardinality(Lower(p)) = i - 1]
  BY <1>4 DEF LaneOf, P
<1> HIDE DEF Lower
<1>8. LaneOf(pl) = [i \in 1..n |-> s[i]]
  BY <1>6, <1>7
<1> QED
  BY <1>2, <1>8

(* Placements that keep their keys keep their lane.                        *)
LEMMA LaneKept ==
    ASSUME NEW s, NEW pl, IsLane(s, pl),
           NEW more \in [Plots -> Placement \cup {None}],
           \A p \in Plots : more[p] # None <=> pl[p] # None,
           \A p \in PlacedIn(pl) : more[p].key = pl[p].key
    PROVE  IsLane(s, more)
<1>1. /\ DOMAIN s = 1..Len(s)
      /\ \A i \in 1..Len(s) : s[i] \in PlacedIn(pl)
  BY LaneFacts
<1> QED
  BY <1>1 DEF IsLane

(* The first part of a sequence and the rest of it.                        *)
LEMMA Parts ==
    ASSUME NEW s \in Seq(Plots), NEW a \in Nat, NEW b \in Nat, a <= b, b <= Len(s)
    PROVE  /\ SubSeq(s, a + 1, b) \in Seq(Plots)
           /\ Len(SubSeq(s, a + 1, b)) = b - a
           /\ \A i \in 1..(b - a) : SubSeq(s, a + 1, b)[i] = s[a + i]
<1> DEFINE t == SubSeq(s, a + 1, b)
<1>1. Len(s) \in Nat /\ \A i \in 1..Len(s) : s[i] \in Plots
  BY LenProperties, ElementOfSeq
<1>2. a + 1 \in Int /\ b \in Int /\ \A i \in (a + 1)..b : s[i] \in Plots
  BY <1>1
<1>3. /\ t \in Seq(Plots)
      /\ Len(t) = IF a + 1 <= b THEN b - (a + 1) + 1 ELSE 0
      /\ \A i \in 1..(b - (a + 1) + 1) : t[i] = s[(a + 1) + i - 1]
  BY <1>2, SubSeqProperties
<1> HIDE DEF t
<1>4. Len(t) = b - a
  BY <1>3
<1>5. ASSUME NEW i \in 1..(b - a) PROVE t[i] = s[a + i]
  <2>1. i \in 1..(b - (a + 1) + 1) /\ (a + 1) + i - 1 = a + i
    OBVIOUS
  <2> QED
    BY <1>3, <2>1
<1> QED
  BY <1>3, <1>4, <1>5 DEF t

(* A lane that one plot left.                                              *)
LEMMA Removed ==
    ASSUME NEW s \in Seq(Plots), NEW k \in 1..Len(s)
    PROVE  /\ RemoveAt(s, k) \in Seq(Plots)
           /\ Len(RemoveAt(s, k)) = Len(s) - 1
           /\ \A i \in 1..(Len(s) - 1) :
                  RemoveAt(s, k)[i] = IF i < k THEN s[i] ELSE s[i + 1]
<1> DEFINE a == SubSeq(s, 1, k - 1)
           b == SubSeq(s, k + 1, Len(s))
           t == a \o b
<1>1. Len(s) \in Nat /\ k \in Nat /\ k - 1 \in Nat /\ 1 <= k /\ k <= Len(s)
  BY LenProperties
<1>2. a \in Seq(Plots) /\ Len(a) = k - 1 /\ \A i \in 1..(k - 1) : a[i] = s[i]
  <2>1. /\ SubSeq(s, 0 + 1, k - 1) \in Seq(Plots)
        /\ Len(SubSeq(s, 0 + 1, k - 1)) = (k - 1) - 0
        /\ \A i \in 1..((k - 1) - 0) : SubSeq(s, 0 + 1, k - 1)[i] = s[0 + i]
    <3>1. 0 \in Nat /\ 0 <= k - 1 /\ k - 1 <= Len(s)
      BY <1>1
    <3> HIDE DEF a
    <3> QED
      BY <1>1, <3>1, Parts
  <2>2. SubSeq(s, 0 + 1, k - 1) = a
    OBVIOUS
  <2> HIDE DEF a
  <2> QED
    BY <1>1, <2>1, <2>2
<1>3. b \in Seq(Plots) /\ Len(b) = Len(s) - k /\ \A i \in 1..(Len(s) - k) : b[i] = s[k + i]
  <2>1. k <= Len(s) /\ Len(s) <= Len(s)
    BY <1>1
  <2> QED
    BY <1>1, <2>1, Parts
<1> HIDE DEF a, b
<1>4. /\ t \in Seq(Plots) /\ Len(t) = Len(a) + Len(b)
      /\ \A i \in 1..(Len(a) + Len(b)) :
             t[i] = IF i <= Len(a) THEN a[i] ELSE b[i - Len(a)]
  BY <1>2, <1>3, ConcatProperties
<1>5. RemoveAt(s, k) = t
  BY DEF RemoveAt, a, b
<1> HIDE DEF t
<1>6. Len(t) = Len(s) - 1
  BY <1>1, <1>2, <1>3, <1>4
<1>7. ASSUME NEW i \in 1..(Len(s) - 1)
      PROVE  t[i] = IF i < k THEN s[i] ELSE s[i + 1]
  <2>1. i \in Nat /\ t[i] = IF i <= k - 1 THEN a[i] ELSE b[i - (k - 1)]
    BY <1>1, <1>2, <1>3, <1>4
  <2>2. CASE i < k
    <3>1. i \in 1..(k - 1) /\ i <= k - 1
      BY <1>1, <2>1, <2>2
    <3> QED
      BY <1>2, <2>1, <2>2, <3>1
  <2>3. CASE ~(i < k)
    <3>1. i - (k - 1) \in 1..(Len(s) - k) /\ ~(i <= k - 1) /\ k + (i - (k - 1)) = i + 1
      BY <1>1, <2>1, <2>3
    <3>2. t[i] = s[k + (i - (k - 1))]
      BY <1>3, <2>1, <3>1
    <3> QED
      BY <2>3, <3>1, <3>2
  <2> QED
    BY <2>2, <2>3
<1> QED
  BY <1>4, <1>5, <1>6, <1>7

(* A lane that one plot joined behind its first i plots.                   *)
LEMMA InsertedAt ==
    ASSUME NEW s \in Seq(Plots), NEW i \in 0..Len(s), NEW p \in Plots
    PROVE  /\ Inserted(s, i, p) \in Seq(Plots)
           /\ Len(Inserted(s, i, p)) = Len(s) + 1
           /\ \A j \in 1..i : Inserted(s, i, p)[j] = s[j]
           /\ Inserted(s, i, p)[i + 1] = p
           /\ \A j \in (i + 1)..Len(s) : Inserted(s, i, p)[j + 1] = s[j]
<1> DEFINE a == SubSeq(s, 1, i)
           b == SubSeq(s, i + 1, Len(s))
           c == a \o <<p>>
           t == c \o b
<1>1. Len(s) \in Nat /\ i \in Nat /\ i <= Len(s)
  BY LenProperties
<1>2. a \in Seq(Plots) /\ Len(a) = i /\ \A j \in 1..i : a[j] = s[j]
  <2>1. /\ SubSeq(s, 0 + 1, i) \in Seq(Plots)
        /\ Len(SubSeq(s, 0 + 1, i)) = i - 0
        /\ \A j \in 1..(i - 0) : SubSeq(s, 0 + 1, i)[j] = s[0 + j]
    <3>1. 0 \in Nat /\ 0 <= i
      BY <1>1
    <3> HIDE DEF a
    <3> QED
      BY <1>1, <3>1, Parts
  <2>2. SubSeq(s, 0 + 1, i) = a
    OBVIOUS
  <2> HIDE DEF a
  <2> QED
    BY <1>1, <2>1, <2>2
<1>3. b \in Seq(Plots) /\ Len(b) = Len(s) - i /\ \A j \in 1..(Len(s) - i) : b[j] = s[i + j]
  <2>1. Len(s) <= Len(s)
    BY <1>1
  <2> QED
    BY <1>1, <2>1, Parts
<1>4. Inserted(s, i, p) = t
  <2>1. (i + 1) - 1 = i
    BY <1>1
  <2>2. Inserted(s, i, p) = SubSeq(s, 1, (i + 1) - 1) \o <<p>> \o SubSeq(s, i + 1, Len(s))
    BY DEF Inserted, InsertAt
  <2> QED
    BY <2>1, <2>2
<1> HIDE DEF a, b
<1>5. c \in Seq(Plots) /\ Len(c) = i + 1 /\ (\A j \in 1..i : c[j] = a[j]) /\ c[i + 1] = p
  <2>1. c = Append(a, p)
    BY <1>2, AppendIsConcat
  <2> HIDE DEF c
  <2> QED
    BY <1>2, <2>1, AppendProperties
<1> HIDE DEF c
<1>6. /\ t \in Seq(Plots) /\ Len(t) = Len(c) + Len(b)
      /\ \A j \in 1..(Len(c) + Len(b)) :
             t[j] = IF j <= Len(c) THEN c[j] ELSE b[j - Len(c)]
  BY <1>3, <1>5, ConcatProperties
<1> HIDE DEF t
<1>7. Len(t) = Len(s) + 1
  BY <1>1, <1>3, <1>5, <1>6
<1>8. \A j \in 1..i : t[j] = s[j]
  <2>1. \A j \in 1..i : j \in 1..(Len(c) + Len(b)) /\ j <= Len(c)
    BY <1>1, <1>3, <1>5
  <2> QED
    BY <1>2, <1>5, <1>6, <2>1
<1>9. t[i + 1] = p
  <2>1. i + 1 \in 1..(Len(c) + Len(b)) /\ i + 1 <= Len(c)
    BY <1>1, <1>3, <1>5
  <2> QED
    BY <1>5, <1>6, <2>1
<1>10. ASSUME NEW j \in (i + 1)..Len(s) PROVE t[j + 1] = s[j]
  <2>1. /\ j + 1 \in 1..(Len(c) + Len(b)) /\ ~(j + 1 <= Len(c))
        /\ (j + 1) - Len(c) = j - i /\ j - i \in 1..(Len(s) - i) /\ i + (j - i) = j
    BY <1>1, <1>3, <1>5
  <2>2. t[j + 1] = b[j - i]
    BY <1>6, <2>1
  <2>3. b[j - i] = s[i + (j - i)]
    BY <1>3, <2>1
  <2> QED
    BY <2>1, <2>2, <2>3
<1> QED
  BY <1>4, <1>6, <1>7, <1>8, <1>9, <1>10

(* A plot that is placed behind the last one.                              *)
LEMMA LaneAppended ==
    ASSUME NEW s, NEW pl, IsLane(s, pl), NEW p \in Plots, pl[p] = None,
           NEW new \in Placement,
           Len(s) # 0 => Less(pl[s[Len(s)]].key, new.key)
    PROVE  IsLane(Append(s, p), [pl EXCEPT ![p] = new])
<1> DEFINE t == Append(s, p)
           more == [pl EXCEPT ![p] = new]
           l == Len(s)
<1>1. /\ l \in Nat /\ DOMAIN s = 1..l
      /\ \A i \in 1..l : s[i] \in PlacedIn(pl) /\ pl[s[i]].key \in OrderKey
      /\ \A i, j \in 1..l : Less(pl[s[i]].key, pl[s[j]].key) <=> i < j
      /\ \A q \in PlacedIn(pl) : \E i \in 1..l : s[i] = q
  BY LaneFacts
<1>2. /\ t \in Seq(Plots) /\ Len(t) = l + 1
      /\ \A i \in 1..l : t[i] = s[i]
      /\ t[l + 1] = p
  BY AppendProperties DEF IsLane
<1>3. /\ more \in [Plots -> Placement \cup {None}]
      /\ \A q \in Plots : more[q] = IF q = p THEN new ELSE pl[q]
      /\ new # None /\ new.key \in OrderKey
  BY ConstantsAssumption DEF IsLane, Placement
<1> HIDE DEF t, more
<1>4. DOMAIN t = 1..(l + 1)
  BY <1>2
<1>5. \A i \in 1..l : t[i] # p /\ more[t[i]] = pl[s[i]]
  BY <1>1, <1>2, <1>3 DEF PlacedIn
<1>6. ASSUME NEW q \in Plots
      PROVE  more[q] # None <=> \E i \in DOMAIN t : t[i] = q
  <2>1. CASE q = p
    BY <1>1, <1>2, <1>3, <1>4, <2>1
  <2>2. CASE q # p
    <3>1. more[q] = pl[q]
      BY <1>3, <2>2
    <3>2. pl[q] # None <=> \E i \in 1..l : s[i] = q
      BY <1>1 DEF PlacedIn
    <3>3. (\E i \in 1..l : s[i] = q) <=> \E i \in DOMAIN t : t[i] = q
      <4>1. \A i \in DOMAIN t : i \in 1..l \/ i = l + 1
        BY <1>1, <1>4
      <4>2. \A i \in 1..l : i \in DOMAIN t
        BY <1>1, <1>4
      <4> QED
        BY <1>2, <2>2, <4>1, <4>2
    <3> QED
      BY <3>1, <3>2, <3>3
  <2> QED
    BY <2>1, <2>2
<1>7. ASSUME NEW i \in DOMAIN t, NEW j \in DOMAIN t, i < j
      PROVE  Less(more[t[i]].key, more[t[j]].key)
  <2>1. i \in 1..l
    BY <1>1, <1>4, <1>7
  <2>2. CASE j \in 1..l
    BY <1>1, <1>5, <1>7, <2>1, <2>2
  <2>3. CASE j = l + 1
    <3>1. more[t[j]].key = new.key /\ more[t[i]].key = pl[s[i]].key
      BY <1>2, <1>3, <1>5, <2>1, <2>3
    <3>2. l # 0 /\ l \in 1..l /\ (i = l \/ i < l)
      BY <1>1, <2>1
    <3>3. Less(pl[s[l]].key, new.key)
      BY <3>2
    <3>4. i < l => Less(pl[s[i]].key, pl[s[l]].key)
      BY <1>1, <2>1, <3>2
    <3> DEFINE a == pl[s[i]].key
               b == pl[s[l]].key
               c == new.key
    <3>5. a \in OrderKey /\ b \in OrderKey /\ c \in OrderKey /\ Less(b, c)
          /\ (a = b \/ Less(a, b))
      BY <1>1, <1>3, <2>1, <3>2, <3>3, <3>4
    <3> HIDE DEF a, b, c
    <3>6. Less(a, c)
      BY <3>5, LessIsOrder
    <3> QED
      BY <3>1, <3>6 DEF a, c
  <2> QED
    BY <1>1, <1>4, <2>2, <2>3
<1> QED
  BY <1>2, <1>3, <1>6, <1>7 DEF IsLane, t, more

(* A plot of the lane that gets a key between the neighbours of a gap.     *)
LEMMA LaneMoved ==
    ASSUME NEW s, NEW pl, IsLane(s, pl), NEW k \in 1..Len(s), NEW new \in Placement,
           NEW rest, rest = RemoveAt(s, k), NEW p, p = s[k], NEW l, l = Len(s),
           NEW i \in 0..(l - 1),
           i # 0 => Less(pl[rest[i]].key, new.key),
           i # l - 1 => Less(new.key, pl[rest[i + 1]].key)
    PROVE  IsLane(Inserted(rest, i, p), [pl EXCEPT ![p] = new])
<1> DEFINE t == Inserted(rest, i, p)
           more == [pl EXCEPT ![p] = new]
<1> HIDE DEF t, more
<1>1. /\ l \in Nat /\ DOMAIN s = 1..l /\ k \in Nat /\ i \in Nat /\ l - 1 \in Nat
      /\ k \in 1..l /\ s \in Seq(Plots)
      /\ \A j \in 1..l : s[j] \in PlacedIn(pl) /\ pl[s[j]].key \in OrderKey
      /\ \A h, j \in 1..l : Less(pl[s[h]].key, pl[s[j]].key) <=> h < j
      /\ \A h, j \in 1..l : s[h] = s[j] => h = j
      /\ \A q \in PlacedIn(pl) : \E j \in 1..l : s[j] = q
  <2>1. s \in Seq(Plots)
    BY DEF IsLane
  <2>2. /\ l \in Nat /\ DOMAIN s = 1..l
        /\ \A j \in 1..l : s[j] \in PlacedIn(pl) /\ pl[s[j]].key \in OrderKey
        /\ \A h, j \in 1..l : Less(pl[s[h]].key, pl[s[j]].key) <=> h < j
        /\ \A h, j \in 1..l : s[h] = s[j] => h = j
        /\ \A q \in PlacedIn(pl) : \E j \in 1..l : s[j] = q
    BY LaneFacts
  <2>3. k \in 1..l /\ k \in Nat /\ i \in Nat /\ l - 1 \in Nat
    BY <2>2
  <2> QED
    BY <2>1, <2>2, <2>3
<1>2. /\ rest \in Seq(Plots) /\ Len(rest) = l - 1
      /\ \A j \in 1..(l - 1) : rest[j] = IF j < k THEN s[j] ELSE s[j + 1]
  BY <1>1, Removed
<1>3. /\ i # 0 => Less(pl[rest[i]].key, new.key)
      /\ i # l - 1 => Less(new.key, pl[rest[i + 1]].key)
  OBVIOUS
<1>4. p \in Plots
  BY <1>1, ElementOfSeq
<1>5. /\ t \in Seq(Plots) /\ Len(t) = l
      /\ \A j \in 1..i : t[j] = rest[j]
      /\ t[i + 1] = p
      /\ \A j \in (i + 1)..(l - 1) : t[j + 1] = rest[j]
  <2>1. i \in 0..Len(rest)
    BY <1>2
  <2>2. /\ t \in Seq(Plots) /\ Len(t) = Len(rest) + 1
        /\ \A j \in 1..i : t[j] = rest[j]
        /\ t[i + 1] = p
        /\ \A j \in (i + 1)..Len(rest) : t[j + 1] = rest[j]
    BY <1>2, <1>4, <2>1, InsertedAt DEF t
  <2>3. Len(rest) = l - 1 /\ Len(rest) + 1 = l
    BY <1>1, <1>2
  <2> QED
    BY <2>2, <2>3
<1>6. /\ more \in [Plots -> Placement \cup {None}]
      /\ \A q \in Plots : more[q] = IF q = p THEN new ELSE pl[q]
      /\ new # None /\ new.key \in OrderKey
  <2>1. new.key \in OrderKey
    BY DEF Placement
  <2>2. new # None
    BY ConstantsAssumption
  <2>3. pl \in [Plots -> Placement \cup {None}]
    BY DEF IsLane
  <2> QED
    BY <1>4, <2>1, <2>2, <2>3 DEF more
<1>7. DOMAIN t = 1..l
  BY <1>5
(* The plots of the rest, by their places on the lane before.              *)
<1> DEFINE From(j) == IF j < k THEN j ELSE j + 1
<1>8. \A j \in 1..(l - 1) : From(j) \in 1..l /\ From(j) # k /\ rest[j] = s[From(j)]
  BY <1>1, <1>2
<1>9. \A h, j \in 1..(l - 1) : h < j => From(h) < From(j)
  BY <1>1
<1>10. \A h \in 1..l : h = k \/ \E j \in 1..(l - 1) : From(j) = h
  <2> SUFFICES ASSUME NEW h \in 1..l, h # k PROVE \E j \in 1..(l - 1) : From(j) = h
    OBVIOUS
  <2>1. CASE h < k
    BY <1>1, <2>1
  <2>2. CASE k < h
    <3>1. h - 1 \in 1..(l - 1) /\ From(h - 1) = h
      BY <1>1, <2>2
    <3> QED
      BY <3>1
  <2> QED
    BY <1>1, <2>1, <2>2
<1> HIDE DEF From
<1>11. \A j \in 1..(l - 1) : /\ rest[j] # p /\ rest[j] \in PlacedIn(pl)
                             /\ more[rest[j]] = pl[rest[j]]
                             /\ pl[rest[j]].key \in OrderKey
  <2> SUFFICES ASSUME NEW j \in 1..(l - 1)
               PROVE  /\ rest[j] # p /\ rest[j] \in PlacedIn(pl)
                      /\ more[rest[j]] = pl[rest[j]]
                      /\ pl[rest[j]].key \in OrderKey
    OBVIOUS
  <2>1. From(j) \in 1..l /\ From(j) # k /\ rest[j] = s[From(j)]
    BY <1>8
  <2>2. rest[j] # p /\ rest[j] \in PlacedIn(pl) /\ pl[rest[j]].key \in OrderKey
    BY <1>1, <2>1
  <2> QED
    BY <1>6, <2>2 DEF PlacedIn
<1>12. \A h, j \in 1..(l - 1) : h < j => Less(pl[rest[h]].key, pl[rest[j]].key)
  <2> SUFFICES ASSUME NEW h \in 1..(l - 1), NEW j \in 1..(l - 1), h < j
               PROVE  Less(pl[rest[h]].key, pl[rest[j]].key)
    OBVIOUS
  <2>1. From(h) \in 1..l /\ From(j) \in 1..l /\ From(h) < From(j)
        /\ rest[h] = s[From(h)] /\ rest[j] = s[From(j)]
    BY <1>8, <1>9
  <2> QED
    BY <1>1, <2>1
(* Where the plots of the new lane come from.                              *)
<1>13. \A j \in 1..l : \/ j \in 1..i /\ t[j] = rest[j] /\ j \in 1..(l - 1)
                       \/ j = i + 1 /\ t[j] = p
                       \/ /\ j - 1 \in (i + 1)..(l - 1) /\ t[j] = rest[j - 1]
                          /\ j - 1 \in 1..(l - 1)
  <2> SUFFICES ASSUME NEW j \in 1..l
               PROVE  \/ j \in 1..i /\ t[j] = rest[j] /\ j \in 1..(l - 1)
                      \/ j = i + 1 /\ t[j] = p
                      \/ /\ j - 1 \in (i + 1)..(l - 1) /\ t[j] = rest[j - 1]
                         /\ j - 1 \in 1..(l - 1)
    OBVIOUS
  <2>1. CASE j <= i
    BY <1>1, <1>5, <2>1
  <2>2. CASE j = i + 1
    BY <1>5, <2>2
  <2>3. CASE i + 1 < j
    <3>1. j - 1 \in (i + 1)..(l - 1) /\ (j - 1) + 1 = j /\ j - 1 \in 1..(l - 1)
      BY <1>1, <2>3
    <3>2. t[(j - 1) + 1] = rest[j - 1]
      BY <1>5, <3>1
    <3> QED
      BY <3>1, <3>2
  <2> QED
    BY <1>1, <2>1, <2>2, <2>3
<1>14. \A j \in 1..(l - 1) : \E h \in 1..l : t[h] = rest[j]
  <2> SUFFICES ASSUME NEW j \in 1..(l - 1) PROVE \E h \in 1..l : t[h] = rest[j]
    OBVIOUS
  <2>1. CASE j <= i
    <3>1. j \in 1..i /\ j \in 1..l
      BY <1>1, <2>1
    <3> QED
      BY <1>5, <3>1
  <2>2. CASE ~(j <= i)
    <3>1. j \in (i + 1)..(l - 1) /\ j + 1 \in 1..l
      BY <1>1, <2>2
    <3> QED
      BY <1>5, <3>1
  <2> QED
    BY <2>1, <2>2
<1>15. ASSUME NEW q \in Plots
       PROVE  more[q] # None <=> \E h \in DOMAIN t : t[h] = q
  <2>1. CASE q = p
    <3>1. i + 1 \in 1..l
      BY <1>1
    <3> QED
      BY <1>5, <1>6, <1>7, <2>1, <3>1
  <2>2. CASE q # p
    <3>1. more[q] = pl[q]
      BY <1>6, <2>2
    <3>2. ASSUME pl[q] # None PROVE \E h \in DOMAIN t : t[h] = q
      <4>1. PICK h \in 1..l : s[h] = q
        BY <1>1, <3>2 DEF PlacedIn
      <4>2. PICK j \in 1..(l - 1) : From(j) = h
        BY <1>10, <2>2, <4>1
      <4>3. rest[j] = q
        BY <1>8, <4>1, <4>2
      <4> QED
        BY <1>7, <1>14, <4>3
    <3>3. ASSUME NEW h \in DOMAIN t, t[h] = q PROVE pl[q] # None
      <4>1. h \in 1..l /\ h # i + 1
        BY <1>5, <1>7, <2>2, <3>3
      <4>2. \E j \in 1..(l - 1) : rest[j] = q
        BY <1>13, <3>3, <4>1
      <4> QED
        BY <1>11, <4>2 DEF PlacedIn
    <3> QED
      BY <3>1, <3>2, <3>3
  <2> QED
    BY <2>1, <2>2
(* The new key is above those before it and below those behind it.         *)
<1>16. ASSUME NEW j \in 1..i PROVE Less(pl[rest[j]].key, new.key)
  <2> DEFINE a == pl[rest[j]].key
             b == pl[rest[i]].key
             c == new.key
  <2>1. i # 0 /\ i \in 1..(l - 1) /\ j \in 1..(l - 1) /\ (j = i \/ j < i)
    BY <1>1
  <2>2. /\ a \in OrderKey /\ b \in OrderKey /\ c \in OrderKey /\ Less(b, c)
        /\ (a = b \/ Less(a, b))
    BY <1>3, <1>6, <1>11, <1>12, <2>1
  <2> HIDE DEF a, b, c
  <2>3. Less(a, c)
    BY <2>2, LessIsOrder
  <2> QED
    BY <2>3 DEF a, c
<1>17. ASSUME NEW j \in (i + 1)..(l - 1) PROVE Less(new.key, pl[rest[j]].key)
  <2> DEFINE a == new.key
             b == pl[rest[i + 1]].key
             c == pl[rest[j]].key
  <2>1. i # l - 1 /\ i + 1 \in 1..(l - 1) /\ j \in 1..(l - 1) /\ (j = i + 1 \/ i + 1 < j)
    BY <1>1
  <2>2. /\ a \in OrderKey /\ b \in OrderKey /\ c \in OrderKey /\ Less(a, b)
        /\ (b = c \/ Less(b, c))
    BY <1>3, <1>6, <1>11, <1>12, <2>1
  <2> HIDE DEF a, b, c
  <2>3. Less(a, c)
    BY <2>2, LessIsOrder
  <2> QED
    BY <2>3 DEF a, c
<1>18. ASSUME NEW h \in DOMAIN t, NEW j \in DOMAIN t, h < j
       PROVE  Less(more[t[h]].key, more[t[j]].key)
  <2>1. h \in 1..l /\ j \in 1..l /\ h \in Nat /\ j \in Nat
    BY <1>1, <1>7
  <2>2. more[p].key = new.key
    BY <1>4, <1>6
  <2>3. CASE h \in 1..i /\ t[h] = rest[h] /\ h \in 1..(l - 1)
    <3>1. more[t[h]].key = pl[rest[h]].key
      BY <1>11, <2>3
    <3>2. CASE j \in 1..i /\ t[j] = rest[j] /\ j \in 1..(l - 1)
      BY <1>11, <1>12, <1>18, <2>3, <3>1, <3>2
    <3>3. CASE j = i + 1 /\ t[j] = p
      BY <1>16, <2>2, <2>3, <3>1, <3>3
    <3>4. CASE /\ j - 1 \in (i + 1)..(l - 1) /\ t[j] = rest[j - 1]
               /\ j - 1 \in 1..(l - 1)
      <4>1. h < j - 1
        BY <1>1, <2>3, <3>4
      <4> QED
        BY <1>11, <1>12, <2>3, <3>1, <3>4, <4>1
    <3> QED
      BY <1>13, <2>1, <3>2, <3>3, <3>4
  <2>4. CASE h = i + 1 /\ t[h] = p
    <3>1. j - 1 \in (i + 1)..(l - 1) /\ t[j] = rest[j - 1] /\ j - 1 \in 1..(l - 1)
      <4>1. ~(j \in 1..i) /\ j # i + 1
        BY <1>1, <1>18, <2>1, <2>4
      <4> QED
        BY <1>13, <2>1, <4>1
    <3> QED
      BY <1>11, <1>17, <2>2, <2>4, <3>1
  <2>5. CASE /\ h - 1 \in (i + 1)..(l - 1) /\ t[h] = rest[h - 1]
             /\ h - 1 \in 1..(l - 1)
    <3>1. j - 1 \in (i + 1)..(l - 1) /\ t[j] = rest[j - 1] /\ j - 1 \in 1..(l - 1)
      <4>1. ~(j \in 1..i) /\ j # i + 1
        BY <1>1, <1>18, <2>1, <2>5
      <4> QED
        BY <1>13, <2>1, <4>1
    <3>2. h - 1 < j - 1
      BY <1>18, <2>1
    <3> QED
      BY <1>11, <1>12, <2>5, <3>1, <3>2
  <2> QED
    BY <1>13, <2>1, <2>3, <2>4, <2>5
<1> QED
  BY <1>5, <1>6, <1>15, <1>18 DEF IsLane, t, more

(* A lane whose keys number its places.                                    *)
LEMMA LaneNumbered ==
    ASSUME NEW s \in Seq(Plots), NEW pl \in [Plots -> Placement \cup {None}],
           \A p \in Plots : pl[p] # None <=> \E i \in DOMAIN s : s[i] = p,
           \A i \in DOMAIN s : pl[s[i]].key = <<i - 1, 1>>
    PROVE  IsLane(s, pl)
<1>1. DOMAIN s = 1..Len(s) /\ Len(s) \in Nat
  BY LenProperties
<1>2. ASSUME NEW i \in DOMAIN s, NEW j \in DOMAIN s, i < j
      PROVE  Less(pl[s[i]].key, pl[s[j]].key)
  <2>1. i \in Int /\ j \in Int /\ i - 1 < j - 1
    BY <1>1, <1>2
  <2>2. pl[s[i]].key[1] = i - 1 /\ pl[s[i]].key[2] = 1
        /\ pl[s[j]].key[1] = j - 1 /\ pl[s[j]].key[2] = 1
    OBVIOUS
  <2> QED
    BY <2>1, <2>2 DEF Less
<1> QED
  BY <1>2 DEF IsLane

(* Rebalancing gives a lane new keys in the order it is given.             *)
LEMMA LaneRebalanced ==
    ASSUME placements \in [Plots -> Placement \cup {None}],
           NEW s \in Seq(Plots), IsInjective(s),
           \A p \in Plots : placements[p] # None <=> \E i \in DOMAIN s : s[i] = p
    PROVE  IsLane(s, Rebalanced(s))
<1> DEFINE more == Rebalanced(s)
           At(p) == CHOOSE i \in DOMAIN s : s[i] = p
<1>1. DOMAIN s = 1..Len(s) /\ Len(s) \in Nat /\ \A i \in 1..Len(s) : s[i] \in Plots
  BY LenProperties, ElementOfSeq
<1>2. \A i \in DOMAIN s : At(s[i]) = i
  BY DEF IsInjective
<1>3. more = [p \in Plots |->
                 IF placements[p] = None THEN None
                 ELSE [key |-> <<At(p) - 1, 1>>,
                       revision |-> placements[p].revision + 1]]
  BY DEF Rebalanced
<1>4. \A p \in Plots : placements[p] # None => At(p) \in 1..Len(s)
  <2> HIDE DEF At
  <2> QED
    BY <1>1, <1>2
<1> HIDE DEF At, more
<1>5. ASSUME NEW p \in Plots
      PROVE  /\ placements[p] = None => more[p] = None
             /\ placements[p] # None =>
                    /\ more[p] \in Placement /\ more[p] # None
                    /\ more[p].key = <<At(p) - 1, 1>>
  <2>1. CASE placements[p] = None
    BY <1>3, <2>1
  <2>2. CASE placements[p] # None
    <3>1. more[p] = [key |-> <<At(p) - 1, 1>>, revision |-> placements[p].revision + 1]
      BY <1>3, <2>2
    <3>2. placements[p].revision + 1 \in Nat
      <4>1. placements[p] \in Placement
        BY <2>2
      <4> QED
        BY <4>1 DEF Placement
    <3>3. <<At(p) - 1, 1>> \in OrderKey
      BY <1>1, <1>4, <2>2 DEF OrderKey
    <3>4. more[p] \in Placement
      BY <3>1, <3>2, <3>3 DEF Placement
    <3> QED
      BY <2>2, <3>1, <3>4, ConstantsAssumption
  <2> QED
    BY <2>1, <2>2
<1>6. more \in [Plots -> Placement \cup {None}]
  <2>1. more = [p \in Plots |-> more[p]]
    BY <1>3
  <2> QED
    BY <1>5, <2>1
<1>7. \A i \in DOMAIN s : more[s[i]].key = <<i - 1, 1>>
  BY <1>1, <1>2, <1>5
<1>8. \A p \in Plots : more[p] # None <=> \E i \in DOMAIN s : s[i] = p
  BY <1>5
<1> QED
  BY <1>6, <1>7, <1>8, LaneNumbered DEF more

(* What is left of a lane when one plot is taken from it.                  *)
LEMMA LaneLeft ==
    ASSUME NEW s, NEW pl, IsLane(s, pl), NEW k \in 1..Len(s),
           NEW rest, rest = RemoveAt(s, k), NEW l, l = Len(s)
    PROVE  /\ l \in Nat /\ l - 1 \in Nat /\ s[k] \in Plots /\ pl[s[k]] \in Placement
           /\ rest \in Seq(Plots) /\ Len(rest) = l - 1
           /\ \A j \in 1..(l - 1) : rest[j] # None /\ pl[rest[j]].key \in OrderKey
           /\ \A h, j \in 1..(l - 1) : rest[h] = rest[j] => h = j
           /\ \A j \in 1..(l - 2) : Less(pl[rest[j]].key, pl[rest[j + 1]].key)
<1>1. /\ l \in Nat /\ \A j \in 1..l : s[j] \in PlacedIn(pl) /\ pl[s[j]] \in Placement
                                      /\ pl[s[j]].key \in OrderKey
      /\ \A h, j \in 1..l : Less(pl[s[h]].key, pl[s[j]].key) <=> h < j
      /\ \A h, j \in 1..l : s[h] = s[j] => h = j
  BY LaneFacts
<1>2. k \in 1..l /\ k \in Nat /\ l - 1 \in Nat /\ s \in Seq(Plots)
  BY <1>1 DEF IsLane
<1>3. /\ rest \in Seq(Plots) /\ Len(rest) = l - 1
      /\ \A j \in 1..(l - 1) : rest[j] = IF j < k THEN s[j] ELSE s[j + 1]
  BY <1>2, Removed
<1> DEFINE From(j) == IF j < k THEN j ELSE j + 1
<1>4. \A j \in 1..(l - 1) : From(j) \in 1..l /\ rest[j] = s[From(j)]
  BY <1>1, <1>2, <1>3
<1>5. \A h, j \in 1..(l - 1) : (h < j => From(h) < From(j)) /\ (From(h) = From(j) => h = j)
  BY <1>1, <1>2
<1>6. \A j \in 1..(l - 2) : j \in 1..(l - 1) /\ j + 1 \in 1..(l - 1) /\ j < j + 1
  BY <1>1
<1> HIDE DEF From
<1>7. \A j \in 1..(l - 1) : rest[j] \in Plots /\ pl[rest[j]].key \in OrderKey
  BY <1>1, <1>4 DEF PlacedIn
<1>8. \A q \in Plots : q # None
  BY ConstantsAssumption
<1>9. \A h, j \in 1..(l - 1) : rest[h] = rest[j] => h = j
  BY <1>1, <1>4, <1>5
<1>10. \A j \in 1..(l - 2) : Less(pl[rest[j]].key, pl[rest[j + 1]].key)
  BY <1>1, <1>4, <1>5, <1>6
<1>11. s[k] \in Plots /\ pl[s[k]] \in Placement
  BY <1>1, <1>2 DEF PlacedIn
<1> QED
  BY <1>1, <1>2, <1>3, <1>7, <1>8, <1>9, <1>10, <1>11

(* A plot of a lane is in one place of it.                                 *)
LEMMA WithoutAt ==
    ASSUME NEW s, NEW pl, IsLane(s, pl), NEW k \in 1..Len(s)
    PROVE  Without(s, s[k]) = RemoveAt(s, k)
<1>1. /\ DOMAIN s = 1..Len(s)
      /\ \A i, j \in 1..Len(s) : s[i] = s[j] => i = j
  BY LaneFacts
<1> DEFINE at == CHOOSE i \in DOMAIN s : s[i] = s[k]
<1>2. at = k
  BY <1>1
<1>3. Without(s, s[k]) = RemoveAt(s, at)
  BY DEF Without
<1> HIDE DEF at
<1> QED
  BY <1>2, <1>3

-----------------------------------------------------------------------------
(* The lane of the work.                                                   *)

LaneOK ==
    /\ plots \in [Plots -> {"unused", "active", "retired"}]
    /\ \A p \in Plots : plots[p] = "unused" <=> placements[p] = None
    /\ board \in Nat
    /\ IsLane(LaneOf(placements), placements)

Grows ==
    \/ UNCHANGED <<placements, board>>
    \/ board' = board + 1 /\ PlacedIn(placements) \subseteq PlacedIn(placements)'

LEMMA LaneOrderIsLaneOf ==
    LaneOrder = LaneOf(placements) /\ LaneOrder' = LaneOf(placements')
BY DEF LaneOrder, LaneOf, Placed, PlacedIn

(* The key at the end of a lane is below the one behind it.                *)
LEMMA PlacesLane ==
    ASSUME LaneOK, NEW p \in Plots, Places(p)
    PROVE  LaneOK' /\ Grows /\ Order!Add
<1> DEFINE s == LaneOrder
           l == Len(s)
           last == Before(s, l)
           key == KeyBetween(KeyOf(last), None)
           new == [key |-> key, revision |-> 1]
<1>1. /\ plots[p] = "unused" /\ plots' = [plots EXCEPT ![p] = "active"]
      /\ placements' = [placements EXCEPT ![p] = new] /\ board' = board + 1
  BY DEF Places
<1>2. IsLane(s, placements)
  BY LaneOrderIsLaneOf DEF LaneOK
<1> HIDE DEF s
<1>3. /\ l \in Nat /\ DOMAIN s = 1..l
      /\ \A i \in 1..l : s[i] \in PlacedIn(placements) /\ placements[s[i]].key \in OrderKey
      /\ placements \in [Plots -> Placement \cup {None}]
  BY <1>2, LaneFacts DEF IsLane
<1>4. placements[p] = None
  BY <1>1 DEF LaneOK
<1>5. /\ l # 0 => KeyOf(last) = placements[s[l]].key /\ KeyOf(last) \in OrderKey
      /\ l = 0 => KeyOf(last) = None
  <2>1. CASE l = 0
    BY <2>1 DEF Before, KeyOf
  <2>2. CASE l # 0
    <3>1. l \in 1..l
      BY <1>3, <2>2
    <3>2. last = s[l] /\ last \in Plots /\ last # None
      BY <1>3, <2>2, <3>1, ConstantsAssumption DEF Before, PlacedIn
    <3> QED
      BY <1>3, <2>2, <3>1, <3>2 DEF KeyOf
  <2> QED
    BY <2>1, <2>2
<1> HIDE DEF l, last
<1>6. None \notin OrderKey
  BY ConstantsAssumption
<1>7. key \in OrderKey /\ (KeyOf(last) # None => Less(KeyOf(last), key))
  BY <1>5, KeyIsBetween
<1> HIDE DEF key
<1>8. new \in Placement /\ new.key = key
  BY <1>7 DEF Placement
<1> HIDE DEF new
<1>9. l # 0 => Less(placements[s[l]].key, new.key)
  BY <1>5, <1>6, <1>7, <1>8
<1> DEFINE more == [placements EXCEPT ![p] = new]
<1>10. IsLane(Append(s, p), more)
  BY <1>2, <1>4, <1>8, <1>9, LaneAppended DEF l
<1>11. \A q \in Plots : more[q] = IF q = p THEN new ELSE placements[q]
  BY <1>3
<1>12. placements' = more
  BY <1>1
<1> HIDE DEF more
<1>13. LaneOf(more) = Append(s, p)
  BY <1>10, LaneIsUnique
<1>14. new # None
  BY <1>8, ConstantsAssumption
<1>15. LaneOK'
  <2>1. plots' \in [Plots -> {"unused", "active", "retired"}]
    BY <1>1 DEF LaneOK
  <2>2. \A q \in Plots : plots'[q] = "unused" <=> placements'[q] = None
    BY <1>1, <1>11, <1>12, <1>14 DEF LaneOK
  <2>3. board' \in Nat
    BY <1>1 DEF LaneOK
  <2>4. IsLane(LaneOf(placements'), placements')
    BY <1>10, <1>12, <1>13
  <2> QED
    BY <2>1, <2>2, <2>3, <2>4 DEF LaneOK
<1>16. Grows
  BY <1>1, <1>11, <1>12, <1>14 DEF Grows, PlacedIn
<1>17. p \notin {s[i] : i \in DOMAIN s}
  BY <1>3, <1>4 DEF PlacedIn
<1>18. LaneOrder' = Append(s, p)
  BY <1>12, <1>13, LaneOrderIsLaneOf
<1> QED
  BY <1>15, <1>16, <1>17, <1>18 DEF Order!Add, Order!OnLane, s

-----------------------------------------------------------------------------
(* What the window shows and what it asked for, against the lane of        *)
(* placements pl of a board of revision r.  A board of an earlier revision *)
(* may show another order, but no plot that is not on the lane now.        *)

BoardFits(b, pl, r) ==
    /\ b.revision \in Nat /\ b.revision <= r
    /\ b.order \in Seq(Plots)
    /\ DOMAIN b.revisions = {b.order[i] : i \in DOMAIN b.order}
    /\ DOMAIN b.revisions \subseteq PlacedIn(pl)
    /\ b.revision = r => b.order = LaneOf(pl)

(* A move that takes a plot of lane s to a gap of the rest of it.          *)
MoveFits(c, s) ==
    \E k \in 1..Len(s) : \E i \in 0..(Len(s) - 1) :
        /\ c.plot = s[k]
        /\ c.before = Before(RemoveAt(s, k), i)
        /\ c.after = After(RemoveAt(s, k), i)
        /\ c.shown = Inserted(RemoveAt(s, k), i, s[k])

CommandFits(c, pl, r) ==
    /\ c.kind = "move" =>
           /\ c.plot \in PlacedIn(pl)
           /\ c.boardRevision \in Nat /\ c.boardRevision <= r
           /\ c.boardRevision = r => MoveFits(c, LaneOf(pl))
    /\ c.kind = "date" => c.plot \in PlacedIn(pl)
    /\ c.kind = "link" => c.role \in {"primary", "supporting"}

CallFits(x, pl, r) ==
    /\ x.stage \in {"idle", "sent", "answered", "refresh", "read"}
    /\ x.stage = "sent" => CommandFits(x.command, pl, r)
    /\ x.stage \in {"answered", "read"} => BoardFits(x.board, pl, r)

(* The board that is read is the one of the lane.                          *)
LEMMA LaneBoard ==
    ASSUME NEW pl, NEW r \in Nat, IsLane(LaneOf(pl), pl)
    PROVE  BoardFits([revision |-> r, order |-> LaneOf(pl),
                      revisions |-> [p \in PlacedIn(pl) |-> pl[p].revision]], pl, r)
<1> DEFINE s == LaneOf(pl)
           b == [revision |-> r, order |-> s,
                 revisions |-> [p \in PlacedIn(pl) |-> pl[p].revision]]
<1> HIDE DEF s
<1>1. s \in Seq(Plots) /\ IsLane(s, pl)
  BY DEF IsLane, s
<1>2. PlacedIn(pl) = {s[i] : i \in DOMAIN s}
  BY <1>1, LaneFacts
<1>3. b.revision = r /\ b.order = s /\ DOMAIN b.revisions = PlacedIn(pl)
  OBVIOUS
<1> HIDE DEF b
<1>4. BoardFits(b, pl, r)
  BY <1>1, <1>2, <1>3 DEF BoardFits, s
<1> QED
  BY <1>4 DEF b, s

LEMMA BoardIsOfLane ==
    /\ LaneOK => BoardFits(Board, placements, board)
    /\ LaneOK' => BoardFits(Board', placements', board')
<1>1. Board = [revision |-> board, order |-> LaneOf(placements),
               revisions |-> [p \in PlacedIn(placements) |-> placements[p].revision]]
  BY DEF Board, LaneOrder, LaneOf, Placed, PlacedIn
<1>2. Board' = [revision |-> board', order |-> LaneOf(placements'),
                revisions |-> [p \in PlacedIn(placements') |-> placements'[p].revision]]
  BY DEF Board, LaneOrder, LaneOf, Placed, PlacedIn
<1>3. LaneOK => BoardFits(Board, placements, board)
  BY <1>1, LaneBoard DEF LaneOK
<1>4. LaneOK' => BoardFits(Board', placements', board')
  BY <1>2, LaneBoard DEF LaneOK
<1> QED
  BY <1>3, <1>4

(* What fits a lane fits it when the lane grew: the board has a new        *)
(* revision then.                                                          *)
LEMMA StillFits ==
    ASSUME NEW x, NEW pl, NEW r \in Nat, NEW more, NEW n,
           \/ more = pl /\ n = r
           \/ n = r + 1 /\ PlacedIn(pl) \subseteq PlacedIn(more)
    PROVE  /\ BoardFits(x, pl, r) => BoardFits(x, more, n)
           /\ CommandFits(x, pl, r) => CommandFits(x, more, n)
           /\ CallFits(x, pl, r) => CallFits(x, more, n)
<1>1. CASE more = pl /\ n = r
  BY <1>1
<1>2. CASE n = r + 1 /\ PlacedIn(pl) \subseteq PlacedIn(more)
  <2>1. \A m \in Nat : m <= r => m <= n /\ m # n
    BY <1>2
  <2>2. ASSUME NEW b, BoardFits(b, pl, r) PROVE BoardFits(b, more, n)
    BY <1>2, <2>1, <2>2 DEF BoardFits
  <2>3. ASSUME NEW c, CommandFits(c, pl, r) PROVE CommandFits(c, more, n)
    BY <1>2, <2>1, <2>3 DEF CommandFits
  <2>4. CallFits(x, pl, r) => CallFits(x, more, n)
    BY <2>2, <2>3 DEF CallFits
  <2> QED
    BY <2>2, <2>3, <2>4
<1> QED
  BY <1>1, <1>2

(* A gap of a lane is known by the neighbour before it.                    *)
LEMMA GapIsOne ==
    ASSUME NEW s \in Seq(Plots), NEW n \in Nat, Len(s) = n,
           \A h, j \in 1..n : s[h] = s[j] => h = j,
           \A h \in 1..n : s[h] # None,
           NEW i \in 0..n, NEW j \in 0..n, Before(s, i) = Before(s, j)
    PROVE  i = j
<1>1. CASE i = 0 \/ j = 0
  BY <1>1 DEF Before
<1>2. CASE i # 0 /\ j # 0
  <2>1. i \in 1..n /\ j \in 1..n
    BY <1>2
  <2> QED
    BY <1>2, <2>1 DEF Before
<1> QED
  BY <1>1, <1>2

(* A move puts the plot where the author saw it, with a new key between    *)
(* those of its neighbours or with new keys for the whole lane.            *)
LEMMA MoveLane ==
    ASSUME LaneOK, MovePlot,
           CommandFits(call["plot"].command, placements, board)
    PROVE  /\ LaneOK' /\ Grows /\ Order!Move
           /\ LaneOrder' = call["plot"].command.shown
<1> DEFINE s == LaneOrder
           l == Len(s)
           c == call["plot"].command
           key == KeyBetween(KeyOf(c.before), KeyOf(c.after))
           moved == [key |-> key, revision |-> placements[c.plot].revision + 1]
<1>1. /\ Current(c) /\ c.kind = "move"
      /\ board' = board + 1 /\ UNCHANGED plots
  BY DEF MovePlot, Runs
<1>2. PICK j \in Gaps(c), limit \in KeyLengthLimits :
          placements' = IF KeyLength(key) <= limit
                        THEN [placements EXCEPT ![c.plot] = moved]
                        ELSE Rebalanced(Inserted(Without(s, c.plot), j, c.plot))
  BY DEF MovePlot
<1>3. IsLane(s, placements)
  BY LaneOrderIsLaneOf DEF LaneOK
<1>4. MoveFits(c, s)
  BY <1>1, LaneOrderIsLaneOf DEF CommandFits, Current
<1>5. /\ j \in 0..Len(Without(s, c.plot))
      /\ Before(Without(s, c.plot), j) = c.before
  BY DEF Gaps
<1> HIDE DEF s, c, key
<1>6. PICK k \in 1..l, i \in 0..(l - 1) :
          /\ c.plot = s[k]
          /\ c.before = Before(RemoveAt(s, k), i)
          /\ c.after = After(RemoveAt(s, k), i)
          /\ c.shown = Inserted(RemoveAt(s, k), i, s[k])
  BY <1>4 DEF MoveFits
<1> DEFINE rest == RemoveAt(s, k)
           p == s[k]
           t == Inserted(rest, i, p)
<1> HIDE DEF l, rest, p
<1>7. Without(s, c.plot) = rest
  BY <1>3, <1>6, WithoutAt DEF l, rest
<1>8. /\ l \in Nat /\ l - 1 \in Nat /\ p \in Plots /\ placements[p] \in Placement
      /\ rest \in Seq(Plots) /\ Len(rest) = l - 1
      /\ \A h \in 1..(l - 1) : rest[h] # None /\ placements[rest[h]].key \in OrderKey
      /\ \A h, g \in 1..(l - 1) : rest[h] = rest[g] => h = g
      /\ \A h \in 1..(l - 2) :
             Less(placements[rest[h]].key, placements[rest[h + 1]].key)
  BY <1>3, LaneLeft DEF l, rest, p
<1>9. c.plot = p /\ c.before = Before(rest, i) /\ c.after = After(rest, i) /\ c.shown = t
  BY <1>6 DEF rest, p
<1>10. j = i
  <2>1. j \in 0..(l - 1) /\ i \in 0..(l - 1) /\ Before(rest, j) = Before(rest, i)
    BY <1>5, <1>7, <1>8, <1>9
  <2> QED
    BY <1>8, <2>1, GapIsOne
<1>11. IF i = 0 THEN KeyOf(c.before) = None
       ELSE KeyOf(c.before) = placements[rest[i]].key /\ KeyOf(c.before) \in OrderKey
  <2>1. CASE i = 0
    BY <1>9, <2>1 DEF Before, KeyOf
  <2>2. CASE i # 0
    <3>1. i \in 1..(l - 1)
      BY <1>8, <2>2
    <3> QED
      BY <1>8, <1>9, <2>2, <3>1 DEF Before, KeyOf
  <2> QED
    BY <2>1, <2>2
<1>12. IF i = l - 1 THEN KeyOf(c.after) = None
       ELSE KeyOf(c.after) = placements[rest[i + 1]].key /\ KeyOf(c.after) \in OrderKey
  <2>1. CASE i = l - 1
    BY <1>8, <1>9, <2>1 DEF After, KeyOf
  <2>2. CASE i # l - 1
    <3>1. i + 1 \in 1..(l - 1)
      BY <1>8, <2>2
    <3> QED
      BY <1>8, <1>9, <2>2, <3>1 DEF After, KeyOf
  <2> QED
    BY <2>1, <2>2
<1>13. None \notin OrderKey
  BY ConstantsAssumption
<1>14. /\ key \in OrderKey
       /\ i # 0 => Less(placements[rest[i]].key, key)
       /\ i # l - 1 => Less(key, placements[rest[i + 1]].key)
  <2> DEFINE a == KeyOf(c.before)
             b == KeyOf(c.after)
  <2>1. a # None /\ b # None => Less(a, b)
    <3>1. i # 0 /\ i # l - 1 => i \in 1..(l - 2)
      BY <1>8
    <3> QED
      BY <1>8, <1>11, <1>12, <3>1
  <2>2. a \in OrderKey \cup {None} /\ b \in OrderKey \cup {None}
    BY <1>11, <1>12
  <2>3. key = KeyBetween(a, b)
    BY DEF key
  <2>4. (i # 0 => a = placements[rest[i]].key /\ a \in OrderKey)
        /\ (i # l - 1 => b = placements[rest[i + 1]].key /\ b \in OrderKey)
    BY <1>11, <1>12
  <2> HIDE DEF a, b
  <2>5. /\ key \in OrderKey
        /\ a # None => Less(a, key)
        /\ b # None => Less(key, b)
    BY <2>1, <2>2, <2>3, KeyIsBetween
  <2> QED
    BY <1>13, <2>4, <2>5
<1>15. moved \in Placement /\ moved.key = key
  <2>1. placements[c.plot].revision + 1 \in Nat
    BY <1>8, <1>9 DEF Placement
  <2> QED
    BY <1>14, <2>1 DEF Placement
<1> HIDE DEF moved
<1> DEFINE more == [placements EXCEPT ![p] = moved]
<1>16. IsLane(t, more)
  <2>1. i # 0 => Less(placements[rest[i]].key, moved.key)
    BY <1>14, <1>15
  <2>2. i # l - 1 => Less(moved.key, placements[rest[i + 1]].key)
    BY <1>14, <1>15
  <2> QED
    BY <1>3, <1>15, <2>1, <2>2, LaneMoved DEF l, rest, p
<1>17. placements \in [Plots -> Placement \cup {None}]
  BY <1>3 DEF IsLane
<1>18. /\ \A q \in Plots : more[q] = IF q = p THEN moved ELSE placements[q]
       /\ moved # None /\ placements[p] # None
  BY <1>8, <1>15, <1>17, ConstantsAssumption
<1> HIDE DEF more, t
<1>19. IsLane(t, Rebalanced(t))
  <2>1. t \in Seq(Plots)
    BY <1>16 DEF IsLane
  <2>2. \A q \in Plots : placements[q] # None <=> \E h \in DOMAIN t : t[h] = q
    BY <1>16, <1>18 DEF IsLane
  <2>3. IsInjective(t)
    BY <1>16, LaneFacts DEF IsInjective
  <2> QED
    BY <1>17, <2>1, <2>2, <2>3, LaneRebalanced
<1>20. placements' = more \/ placements' = Rebalanced(t)
  BY <1>2, <1>7, <1>9, <1>10 DEF more, t
<1>21. IsLane(t, placements')
  BY <1>16, <1>19, <1>20
<1>22. LaneOf(placements') = t
  BY <1>21, LaneIsUnique
<1>23. PlacedIn(placements') = PlacedIn(placements)
  BY <1>8, <1>16, <1>18, <1>21 DEF IsLane, PlacedIn
<1>24. LaneOK'
  <2>1. \A q \in Plots : plots'[q] = "unused" <=> placements'[q] = None
    BY <1>1, <1>23 DEF LaneOK, PlacedIn
  <2> QED
    BY <1>1, <1>21, <1>22, <2>1 DEF LaneOK
<1>25. Grows
  BY <1>1, <1>23 DEF Grows
<1>26. LaneOrder' = t
  BY <1>22, LaneOrderIsLaneOf
<1>27. Order!Move
  <2>1. k \in DOMAIN s /\ i + 1 \in DOMAIN s
    <3>1. DOMAIN s = 1..l
      BY <1>3, LenProperties DEF IsLane, l
    <3> QED
      BY <1>8, <3>1
  <2>2. LaneOrder' = InsertAt(RemoveAt(s, k), i + 1, s[k])
    BY <1>26 DEF t, rest, p, Inserted
  <2>3. InsertAt(RemoveAt(s, k), i + 1, s[k])
            = Order!InsertAt(Order!RemoveAt(s, k), i + 1, s[k])
    BY DEF InsertAt, RemoveAt, Order!InsertAt, Order!RemoveAt
  <2> QED
    BY <2>1, <2>2, <2>3 DEF Order!Move, s
<1> QED
  BY <1>9, <1>24, <1>25, <1>26, <1>27 DEF c

-----------------------------------------------------------------------------
(* The types of the rest, and the invariant with them.                     *)

StoryOK ==
    /\ events \subseteq Events
    /\ links \subseteq [plot : Plots, event : Events, role : {"primary", "supporting"},
                        origin : {"plot-to-event", "event-to-plot", "manual-link"}]
    /\ sources \subseteq [event : events, document : Documents]
    /\ present \subseteq Documents
    /\ commands \in Nat

WindowOK ==
    /\ \A f \in Flows : CallFits(call[f], placements, board)
    /\ BoardFits(view, placements, board)

IInv == Inv /\ LaneOK /\ StoryOK /\ WindowOK

(* What a step may do to the lane, as the plot board promises.             *)
OrderStep == UNCHANGED LaneOrder \/ Order!Add \/ Order!Move

(* A date raises the revision of one placement.                            *)
LEMMA DateLane ==
    ASSUME LaneOK, SetStoryTime,
           CommandFits(call["plot"].command, placements, board)
    PROVE  LaneOK' /\ Grows /\ UNCHANGED LaneOrder
<1> DEFINE s == LaneOf(placements)
           p == call["plot"].command.plot
           new == [placements[p] EXCEPT !.revision = placements[p].revision + 1]
           more == [placements EXCEPT ![p] = new]
<1>1. /\ call["plot"].command.kind = "date" /\ board' = board + 1 /\ UNCHANGED plots
      /\ placements' = more
  BY DEF SetStoryTime, Runs
<1>2. p \in PlacedIn(placements)
  BY <1>1 DEF CommandFits
<1> HIDE DEF p, s, new
<1>3. IsLane(s, placements) /\ placements \in [Plots -> Placement \cup {None}]
  BY DEF LaneOK, IsLane, s
<1>4. p \in Plots /\ placements[p] \in Placement
  BY <1>2, <1>3 DEF PlacedIn
<1>5. new \in Placement /\ new.key = placements[p].key
  <2> DEFINE old == placements[p]
  <2>1. old \in [key : OrderKey, revision : Nat]
    BY <1>4 DEF Placement
  <2>2. new = [old EXCEPT !.revision = old.revision + 1]
    BY DEF new
  <2> HIDE DEF old
  <2>3. new \in [key : OrderKey, revision : Nat] /\ new.key = old.key
    BY <2>1, <2>2
  <2> QED
    BY <2>3 DEF Placement, old
<1>6. new # None
  BY <1>5, ConstantsAssumption
<1>7. /\ more \in [Plots -> Placement \cup {None}]
      /\ \A q \in Plots : more[q] = IF q = p THEN new ELSE placements[q]
  BY <1>3, <1>5
<1> HIDE DEF more
<1>8. PlacedIn(more) = PlacedIn(placements)
  BY <1>2, <1>6, <1>7 DEF PlacedIn
<1>9. IsLane(s, more)
  <2>1. \A q \in Plots : more[q] # None <=> placements[q] # None
    BY <1>2, <1>6, <1>7 DEF PlacedIn
  <2>2. \A q \in PlacedIn(placements) : more[q].key = placements[q].key
    BY <1>5, <1>7 DEF PlacedIn
  <2> QED
    BY <1>3, <1>7, <2>1, <2>2, LaneKept
<1>10. LaneOf(more) = s
  BY <1>9, LaneIsUnique
<1>11. LaneOK'
  <2>1. \A q \in Plots : plots'[q] = "unused" <=> placements'[q] = None
    BY <1>1, <1>8 DEF LaneOK, PlacedIn
  <2> QED
    BY <1>1, <1>9, <1>10, <2>1 DEF LaneOK
<1>12. Grows
  BY <1>1, <1>8 DEF Grows
<1>13. UNCHANGED LaneOrder
  BY <1>1, <1>10, LaneOrderIsLaneOf DEF s
<1> QED
  BY <1>11, <1>12, <1>13

(* A step that leaves the placements alone and retires at most a plot.     *)
LEMMA LaneUnchanged ==
    ASSUME LaneOK, UNCHANGED <<placements, board>>,
           plots' \in [Plots -> {"unused", "active", "retired"}],
           \A p \in Plots : plots'[p] = "unused" <=> plots[p] = "unused"
    PROVE  LaneOK' /\ Grows /\ UNCHANGED LaneOrder
<1>1. LaneOK'
  BY DEF LaneOK
<1>2. UNCHANGED LaneOrder
  BY LaneOrderIsLaneOf
<1> QED
  BY <1>1, <1>2 DEF Grows

(* Five commands write to plots, placements or the board.                   *)
LEMMA LaneWrites ==
    ASSUME [Next]_vars
    PROVE  \/ UNCHANGED lane
           \/ CreatePlot \/ PlotFromEvent \/ RetirePlot \/ MovePlot \/ SetStoryTime
<1>1. ASSUME Asks \/ MoveConflicts \/ StoryTimeConflicts PROVE UNCHANGED lane
  BY <1>1 DEF Asks, AskPlot, DropPlot, DateStory, AskEvent, RetireDocument, Sends,
      MoveConflicts, StoryTimeConflicts, Rejects
<1>2. ASSUME \/ CreateEvent \/ EventFromPlot \/ EventOfPlotExists \/ LinkEvent
             \/ LinkExistsOrConflicts \/ UnlinkEvent
      PROVE  UNCHANGED lane
  BY <1>2 DEF CreateEvent, EventFromPlot, EventOfPlotExists, LinkEvent,
      LinkExistsOrConflicts, UnlinkEvent
<1>3. ASSUME NEW f \in Flows,
             NoDocument(f) \/ AnswerArrives(f) \/ ReadRail(f) \/ ShowRail(f)
             \/ RefreshFails(f)
      PROVE  UNCHANGED lane
  BY <1>3 DEF NoDocument, AnswerArrives, ReadRail, ShowRail, RefreshFails, Rejects
<1>4. CASE UNCHANGED vars
  BY <1>4 DEF vars
<1> QED
  BY <1>1, <1>2, <1>3, <1>4 DEF Next, RunsPlot, RunsEvent

(* Every step keeps the lane, which grows by a plot, or is moved, or stays.*)
LEMMA LaneStep ==
    ASSUME IInv, [Next]_vars
    PROVE  LaneOK' /\ Grows /\ OrderStep
<1>1. CASE UNCHANGED lane
  BY <1>1, LaneUnchanged DEF IInv, LaneOK, lane, OrderStep
<1>2. CASE CreatePlot \/ PlotFromEvent
  <2>1. PICK p \in Plots : Places(p)
    BY <1>2 DEF CreatePlot, PlotFromEvent
  <2> QED
    BY <2>1, PlacesLane DEF IInv, OrderStep
<1>3. CASE RetirePlot
  <2> DEFINE p == call["plot"].command.plot
  <2>1. Stored(p) /\ plots' = [plots EXCEPT ![p] = "retired"]
        /\ UNCHANGED <<placements, board>>
    BY <1>3 DEF RetirePlot, IInv, Inv, CommandsOK, Runs, Flows
  <2> HIDE DEF p
  <2>2. plots \in [Plots -> {"unused", "active", "retired"}]
    BY DEF IInv, LaneOK
  <2>3. /\ plots' \in [Plots -> {"unused", "active", "retired"}]
        /\ \A q \in Plots : plots'[q] = "unused" <=> plots[q] = "unused"
    BY <2>1, <2>2 DEF Stored
  <2> QED
    BY <2>1, <2>3, LaneUnchanged DEF IInv, OrderStep
<1>4. CASE MovePlot \/ SetStoryTime
  <2>1. CommandFits(call["plot"].command, placements, board)
    BY <1>4 DEF MovePlot, SetStoryTime, Runs, IInv, WindowOK, CallFits, Flows
  <2> QED
    BY <1>4, <2>1, MoveLane, DateLane DEF IInv, OrderStep
<1> QED
  BY <1>1, <1>2, <1>3, <1>4, LaneWrites

-----------------------------------------------------------------------------
(* The calls when one of them goes on and the board that is shown.         *)
LEMMA CallFollows ==
    ASSUME IInv, LaneOK', Grows, NEW f \in Flows, NEW x,
           call' = [call EXCEPT ![f] = x],
           CallFits(x, placements', board'),
           BoardFits(view', placements', board')
    PROVE  WindowOK'
<1>1. \A g \in Flows : call'[g] = IF g = f THEN x ELSE call[g]
  BY DEF IInv, Inv, CommandsOK
<1>2. \A g \in Flows : CallFits(call[g], placements', board')
  <2> SUFFICES ASSUME NEW g \in Flows PROVE CallFits(call[g], placements', board')
    OBVIOUS
  <2>1. CallFits(call[g], placements, board) /\ board \in Nat
    BY DEF IInv, WindowOK, LaneOK
  <2> QED
    BY <2>1, StillFits DEF Grows
<1>3. \A g \in Flows : CallFits(call'[g], placements', board')
  BY <1>1, <1>2
<1> QED
  BY <1>3 DEF WindowOK

(* The board that is shown fits after a step that leaves it as it is.      *)
LEMMA ViewStays ==
    ASSUME IInv, Grows, UNCHANGED view
    PROVE  BoardFits(view', placements', board')
<1>1. BoardFits(view, placements, board) /\ board \in Nat
  BY DEF IInv, WindowOK, LaneOK
<1>2. BoardFits(view, placements', board')
  BY <1>1, StillFits DEF Grows
<1> QED
  BY <1>2

(* A call that has neither a command nor a board.                          *)
LEMMA SettledCall ==
    ASSUME NEW x, x.stage \in {"idle", "refresh"}, NEW pl, NEW r
    PROVE  CallFits(x, pl, r)
BY DEF CallFits

(* What the author sends names plots of the lane.                          *)
LEMMA CommandSent ==
    ASSUME IInv, LaneOK', Grows, NEW f \in Flows, NEW command, Sends(f, command),
           CommandFits(command, placements, board)
    PROVE  WindowOK'
<1> DEFINE x == [stage |-> "sent", command |-> command]
<1>1. /\ call' = [call EXCEPT ![f] = x]
      /\ UNCHANGED <<placements, board, view>>
  BY DEF Sends, lane
<1>2. CallFits(x, placements', board')
  BY <1>1 DEF CallFits
<1> HIDE DEF x
<1> QED
  BY <1>1, <1>2, ViewStays, CallFollows

(* A plot that is dropped on a board that is still current goes to a gap   *)
(* of the lane.                                                            *)
LEMMA DropFits ==
    ASSUME IInv, LaneOK', Grows, DropPlot
    PROVE  WindowOK'
<1> DEFINE Rest(p) == Without(view.order, p)
           Command(p, i) ==
               [kind |-> "move", plot |-> p, before |-> Before(Rest(p), i),
                after |-> After(Rest(p), i), revision |-> view.revisions[p],
                boardRevision |-> view.revision, shown |-> Inserted(Rest(p), i, p)]
<1>0. PICK p \in Plots :
          /\ p \in DOMAIN view.revisions
          /\ \E i \in 0..Len(Rest(p)) : Sends("plot", Command(p, i))
  BY DEF DropPlot
<1>1. PICK i \in 0..Len(Rest(p)) :
          p \in DOMAIN view.revisions /\ Sends("plot", Command(p, i))
  BY <1>0
<1> DEFINE c == Command(p, i)
           s == LaneOf(placements)
<1>2. /\ c.kind = "move" /\ c.plot = p /\ c.boardRevision = view.revision
      /\ c.before = Before(Rest(p), i) /\ c.after = After(Rest(p), i)
      /\ c.shown = Inserted(Rest(p), i, p)
  OBVIOUS
<1>3. Sends("plot", c)
  BY <1>1
<1> HIDE DEF c, Rest, s
<1>4. BoardFits(view, placements, board) /\ board \in Nat
  BY DEF IInv, WindowOK, LaneOK
<1>5. /\ c.plot \in PlacedIn(placements)
      /\ c.boardRevision \in Nat /\ c.boardRevision <= board
  BY <1>1, <1>2, <1>4 DEF BoardFits
<1>6. ASSUME c.boardRevision = board PROVE MoveFits(c, s)
  <2>1. view.order = s /\ p \in {s[k] : k \in DOMAIN s}
    BY <1>1, <1>2, <1>4, <1>6 DEF BoardFits, s
  <2>2. IsLane(s, placements)
    BY DEF IInv, LaneOK, s
  <2>3. DOMAIN s = 1..Len(s) /\ s \in Seq(Plots)
    BY <2>2, LenProperties DEF IsLane
  <2>4. PICK k \in 1..Len(s) : p = s[k]
    BY <2>1, <2>3
  <2>5. Rest(p) = RemoveAt(s, k)
    BY <2>1, <2>2, <2>4, WithoutAt DEF Rest
  <2>6. Len(RemoveAt(s, k)) = Len(s) - 1
    BY <2>3, Removed
  <2>7. i \in 0..(Len(s) - 1)
    BY <2>5, <2>6
  <2> QED
    BY <1>2, <2>4, <2>5, <2>7 DEF MoveFits
<1>7. CommandFits(c, placements, board)
  BY <1>2, <1>5, <1>6 DEF CommandFits, s
<1> QED
  BY <1>3, <1>7, CommandSent DEF Flows

(* The author's other commands.                                            *)
LEMMA OtherSent ==
    ASSUME IInv, LaneOK', Grows, NEW f \in Flows, NEW c, Sends(f, c),
           c.kind \in {"event", "create", "retire", "produce", "unlink", "link", "date"},
           c.kind = "link" => c.role \in {"primary", "supporting"},
           c.kind = "date" => c.plot \in DOMAIN view.revisions
    PROVE  WindowOK'
<1>1. DOMAIN view.revisions \subseteq PlacedIn(placements)
  BY DEF IInv, WindowOK, BoardFits
<1>2. CommandFits(c, placements, board)
  BY <1>1 DEF CommandFits
<1> QED
  BY <1>2, CommandSent

LEMMA AskFits ==
    ASSUME IInv, LaneOK', Grows, AskPlot \/ DateStory \/ AskEvent
    PROVE  WindowOK'
<1>1. CASE AskEvent
  BY <1>1, OtherSent DEF AskEvent, Flows
<1>2. CASE DateStory
  BY <1>2, OtherSent DEF DateStory, Flows
<1>3. CASE AskPlot
  BY <1>3, OtherSent DEF AskPlot, Flows
<1> QED
  BY <1>1, <1>2, <1>3

(* A call that is settled.                                                 *)
LEMMA CallSettles ==
    ASSUME IInv, LaneOK', Grows, NEW f \in Flows, NEW x, Settles(f, x),
           x.stage \in {"idle", "refresh"}, BoardFits(view', placements', board')
    PROVE  WindowOK'
<1>1. CallFits(x, placements', board')
  BY SettledCall
<1>2. call' = [call EXCEPT ![f] = x]
  BY DEF Settles
<1> QED
  BY <1>1, <1>2, CallFollows

(* What the window shows and asked for fits the lane after every step.     *)
LEMMA WindowKept ==
    ASSUME IInv, LaneOK', Grows, [Next]_vars
    PROVE  WindowOK'
<1>1. CASE UNCHANGED <<call, view>>
  <2>1. \A g \in Flows : CallFits(call[g], placements', board')
    <3> SUFFICES ASSUME NEW g \in Flows PROVE CallFits(call[g], placements', board')
      OBVIOUS
    <3>1. CallFits(call[g], placements, board) /\ board \in Nat
      BY DEF IInv, WindowOK, LaneOK
    <3> QED
      BY <3>1, StillFits DEF Grows
  <2> QED
    BY <1>1, <2>1, ViewStays DEF WindowOK
<1>2. CASE \E f \in Flows : \E x : /\ Settles(f, x) /\ x.stage \in {"idle", "refresh"}
                                   /\ UNCHANGED view
  <2>1. PICK f \in Flows :
            \E x : /\ Settles(f, x) /\ x.stage \in {"idle", "refresh"}
                   /\ UNCHANGED view
    BY <1>2
  <2>2. PICK x : /\ Settles(f, x) /\ x.stage \in {"idle", "refresh"}
                 /\ UNCHANGED view
    BY <2>1
  <2>3. BoardFits(view', placements', board')
    BY <2>2, ViewStays
  <2> QED
    BY <2>2, <2>3, CallSettles
<1>3. CASE DropPlot
  BY <1>3, DropFits
<1>4. CASE AskPlot \/ DateStory \/ AskEvent
  BY <1>4, AskFits
<1>5. CASE MovePlot \/ SetStoryTime
  <2> DEFINE b == Board'
             x == [stage |-> "answered", board |-> b]
  <2>1. call' = [call EXCEPT !["plot"] = x] /\ UNCHANGED view
    BY <1>5 DEF MovePlot, SetStoryTime, Shows, Settles
  <2>2. BoardFits(b, placements', board')
    BY BoardIsOfLane
  <2> HIDE DEF b
  <2>3. CallFits(x, placements', board')
    BY <2>2 DEF CallFits
  <2> HIDE DEF x
  <2> QED
    BY <2>1, <2>3, ViewStays, CallFollows DEF Flows
<1>6. CASE \E f \in Flows : AnswerArrives(f) \/ ShowRail(f)
  <2>1. PICK f \in Flows : AnswerArrives(f) \/ ShowRail(f)
    BY <1>6
  <2>2. /\ call[f].stage \in {"answered", "read"} /\ view' = call[f].board
        /\ UNCHANGED <<placements, board>>
    BY <2>1 DEF AnswerArrives, ShowRail, lane
  <2>3. \E x : Settles(f, x) /\ x.stage \in {"idle", "refresh"}
    BY <2>1 DEF AnswerArrives, ShowRail, Refreshes, Idle
  <2>4. BoardFits(view', placements', board')
    BY <2>2 DEF IInv, WindowOK, CallFits
  <2> QED
    BY <2>3, <2>4, CallSettles
<1>7. CASE \E f \in Flows : ReadRail(f)
  <2>1. PICK f \in Flows : ReadRail(f)
    BY <1>7
  <2> DEFINE b == Board
             x == [stage |-> "read", board |-> b]
  <2>2. call' = [call EXCEPT ![f] = x] /\ UNCHANGED <<view, placements, board>>
    BY <2>1 DEF ReadRail, Settles, lane
  <2>3. BoardFits(b, placements', board')
    BY <2>2, BoardIsOfLane DEF IInv
  <2> HIDE DEF b
  <2>4. CallFits(x, placements', board')
    BY <2>3 DEF CallFits
  <2> HIDE DEF x
  <2> QED
    BY <2>2, <2>4, ViewStays, CallFollows
<1>8. ASSUME CreatePlot \/ RetirePlot \/ MoveConflicts \/ StoryTimeConflicts
      PROVE  \E x : /\ Settles("plot", x) /\ x.stage \in {"idle", "refresh"}
                    /\ UNCHANGED view
  BY <1>8 DEF CreatePlot, RetirePlot, MoveConflicts, StoryTimeConflicts, Refreshes,
      Rejects, Idle
<1>9. ASSUME \/ EventFromPlot \/ EventOfPlotExists \/ LinkEvent
             \/ LinkExistsOrConflicts \/ UnlinkEvent
      PROVE  \E x : /\ Settles("plot", x) /\ x.stage \in {"idle", "refresh"}
                    /\ UNCHANGED view
  BY <1>9 DEF EventFromPlot, EventOfPlotExists, LinkEvent, LinkExistsOrConflicts,
      UnlinkEvent, Refreshes, Idle
<1>10. ASSUME CreateEvent
       PROVE  \E x : /\ Settles("event", x) /\ x.stage \in {"idle", "refresh"}
                     /\ UNCHANGED view
  BY <1>10 DEF CreateEvent, Refreshes, Idle
<1>11. ASSUME NEW f \in Flows, NoDocument(f) \/ RefreshFails(f)
       PROVE  \E x : /\ Settles(f, x) /\ x.stage \in {"idle", "refresh"}
                     /\ UNCHANGED view
  BY <1>11 DEF NoDocument, RefreshFails, Rejects, Idle
<1>12. ASSUME RetireDocument \/ PlotFromEvent \/ UNCHANGED vars
       PROVE  UNCHANGED <<call, view>>
  BY <1>12 DEF RetireDocument, PlotFromEvent, vars
<1> QED
  BY <1>1, <1>2, <1>3, <1>4, <1>5, <1>6, <1>7, <1>8, <1>9, <1>10, <1>11, <1>12
  DEF Next, Asks, RunsPlot, RunsEvent, Flows

-----------------------------------------------------------------------------
(* The events, their links and their sources.                              *)

LEMMA EventAdded ==
    ASSUME StoryOK, NEW e, NEW d, AddsEvent(e, d)
    PROVE  /\ events' \subseteq Events /\ e \in events' /\ e \in Events
           /\ events \subseteq events'
           /\ sources' \subseteq [event : events', document : Documents]
<1>1. /\ events' = events \cup {e} /\ e \in Events
      /\ sources' = IF d = None THEN sources
                    ELSE sources \cup {[event |-> e, document |-> d]}
      /\ d # None => d \in Documents
  BY DEF AddsEvent, StoryOK
<1>2. sources \subseteq [event : events', document : Documents]
  BY <1>1 DEF StoryOK
<1> QED
  BY <1>1, <1>2 DEF StoryOK

(* A link is of a plot and an event.                                       *)
LEMMA LinkIsTyped ==
    ASSUME NEW p \in Plots, NEW e \in Events, NEW role \in {"primary", "supporting"},
           NEW origin \in {"plot-to-event", "event-to-plot", "manual-link"}
    PROVE  Link(p, e, role, origin)
               \in [plot : Plots, event : Events, role : {"primary", "supporting"},
                    origin : {"plot-to-event", "event-to-plot", "manual-link"}]
BY DEF Link

LEMMA StoryKept ==
    ASSUME IInv, [Next]_vars
    PROVE  StoryOK'
<1>1. StoryOK
  BY DEF IInv
<1>2. CASE UNCHANGED <<story, present, commands>>
  BY <1>1, <1>2 DEF StoryOK, story
<1>3. CASE AskPlot \/ DropPlot \/ DateStory \/ AskEvent
  <2>1. UNCHANGED <<story, present>> /\ commands' = commands + 1
    BY <1>3 DEF AskPlot, DropPlot, DateStory, AskEvent, Sends
  <2> QED
    BY <1>1, <2>1 DEF StoryOK, story
<1>4. CASE RetireDocument
  <2>1. UNCHANGED story /\ present' \subseteq present /\ commands' = commands + 1
    BY <1>4 DEF RetireDocument
  <2> QED
    BY <1>1, <2>1 DEF StoryOK, story
<1>5. CASE CreateEvent
  <2>1. PICK e \in Events : AddsEvent(e, call["event"].command.document)
    BY <1>5 DEF CreateEvent
  <2>2. UNCHANGED <<links, present, commands>>
    BY <1>5 DEF CreateEvent
  <2> QED
    BY <1>1, <2>1, <2>2, EventAdded DEF StoryOK
<1>6. CASE EventFromPlot
  <2> DEFINE p == call["plot"].command.plot
  <2>1. PICK e \in Events :
            /\ AddsEvent(e, call["plot"].command.document)
            /\ links' = links \cup {Link(p, e, "primary", "plot-to-event")}
    BY <1>6 DEF EventFromPlot
  <2>2. UNCHANGED <<present, commands>> /\ p \in Plots
    BY <1>6 DEF EventFromPlot, Runs, IInv, Inv, CommandsOK, Stored, Flows
  <2> HIDE DEF p
  <2>3. /\ events' \subseteq Events
        /\ sources' \subseteq [event : events', document : Documents]
    BY <1>1, <2>1, EventAdded
  <2> QED
    BY <1>1, <2>1, <2>2, <2>3, LinkIsTyped DEF StoryOK
<1>7. CASE PlotFromEvent
  <2>1. PICK e \in events, p \in Plots :
            links' = links \cup {Link(p, e, "primary", "event-to-plot")}
    BY <1>7 DEF PlotFromEvent
  <2>2. UNCHANGED <<events, sources, present, commands>> /\ e \in Events
    BY <1>1, <1>7 DEF PlotFromEvent, StoryOK
  <2> QED
    BY <1>1, <2>1, <2>2, LinkIsTyped DEF StoryOK
<1>8. CASE LinkEvent
  <2> DEFINE c == call["plot"].command
  <2>1. /\ links' = links \cup {Link(c.plot, c.event, c.role, "manual-link")}
        /\ UNCHANGED <<events, sources, present, commands>> /\ Runs("plot", "link")
    BY <1>8 DEF LinkEvent
  <2>2. c.plot \in Plots /\ c.event \in Events
    BY <1>1, <2>1 DEF Runs, IInv, Inv, CommandsOK, Stored, Flows, StoryOK
  <2>3. c.role \in {"primary", "supporting"}
    BY <2>1 DEF Runs, IInv, WindowOK, CallFits, CommandFits, Flows
  <2> HIDE DEF c
  <2> QED
    BY <1>1, <2>1, <2>2, <2>3, LinkIsTyped DEF StoryOK
<1>9. CASE UnlinkEvent
  <2>1. links' \subseteq links /\ UNCHANGED <<events, sources, present, commands>>
    BY <1>9 DEF UnlinkEvent
  <2> QED
    BY <1>1, <2>1 DEF StoryOK
<1>10. ASSUME RunsPlot \/ EventOfPlotExists \/ LinkExistsOrConflicts
       PROVE  UNCHANGED <<story, present, commands>>
  BY <1>10 DEF RunsPlot, CreatePlot, RetirePlot, MovePlot, MoveConflicts, SetStoryTime,
      StoryTimeConflicts, EventOfPlotExists, LinkExistsOrConflicts, Rejects
<1>11. ASSUME NEW f \in Flows,
              NoDocument(f) \/ AnswerArrives(f) \/ ReadRail(f) \/ ShowRail(f)
              \/ RefreshFails(f)
       PROVE  UNCHANGED <<story, present, commands>>
  BY <1>11 DEF NoDocument, AnswerArrives, ReadRail, ShowRail, RefreshFails, Rejects
<1>12. CASE UNCHANGED vars
  BY <1>2, <1>12 DEF vars
<1> QED
  BY <1>2, <1>3, <1>4, <1>5, <1>6, <1>7, <1>8, <1>9, <1>10, <1>11, <1>12
  DEF Next, Asks, RunsEvent

-----------------------------------------------------------------------------
(* The plots of the lane the window opens with have the numbers of their   *)
(* places for keys.                                                        *)
LEMMA FirstLane ==
    ASSUME Init
    PROVE  LaneOK /\ (IsInjective(LaneOrder) /\ LaneOrder \in Seq(Plots))
<1>1. PICK s \in FirstLanes :
          /\ plots = [p \in Plots |-> IF \E i \in DOMAIN s : s[i] = p
                                      THEN "active" ELSE "unused"]
          /\ placements =
                 [p \in Plots |->
                     IF plots[p] = "unused" THEN None
                     ELSE [key |-> <<(CHOOSE i \in DOMAIN s : s[i] = p) - 1, 1>>,
                           revision |-> 1]]
  BY DEF Init
<1> DEFINE At(p) == CHOOSE i \in DOMAIN s : s[i] = p
<1>2. s \in Seq(Plots) /\ IsInjective(s)
  BY ConstantsAssumption
<1>3. DOMAIN s = 1..Len(s) /\ Len(s) \in Nat /\ \A i \in DOMAIN s : s[i] \in Plots
  BY <1>2, LenProperties, ElementOfSeq
<1>4. \A i \in DOMAIN s : At(s[i]) = i
  BY <1>2 DEF IsInjective
<1>5. \A p \in Plots : plots[p] # "unused" <=> \E i \in DOMAIN s : s[i] = p
  BY <1>1
<1>6. \A p \in Plots : placements[p] = IF plots[p] = "unused" THEN None
                                       ELSE [key |-> <<At(p) - 1, 1>>, revision |-> 1]
  BY <1>1
<1> HIDE DEF At
<1>7. ASSUME NEW p \in Plots, plots[p] # "unused"
      PROVE  /\ placements[p] \in Placement /\ placements[p] # None
             /\ placements[p].key = <<At(p) - 1, 1>>
  <2>1. At(p) \in 1..Len(s)
    BY <1>3, <1>4, <1>5, <1>7
  <2>2. placements[p] = [key |-> <<At(p) - 1, 1>>, revision |-> 1]
    BY <1>6, <1>7
  <2>3. <<At(p) - 1, 1>> \in OrderKey
    BY <1>3, <2>1 DEF OrderKey
  <2>4. placements[p] \in Placement
    BY <2>2, <2>3 DEF Placement
  <2> QED
    BY <2>2, <2>4, ConstantsAssumption
<1>8. placements \in [Plots -> Placement \cup {None}]
  <2>1. placements = [p \in Plots |-> placements[p]]
    BY <1>1
  <2> QED
    BY <1>6, <1>7, <2>1
<1>9. \A p \in Plots : plots[p] = "unused" <=> placements[p] = None
  BY <1>6, <1>7
<1>10. IsLane(s, placements)
  <2>1. \A p \in Plots : placements[p] # None <=> \E i \in DOMAIN s : s[i] = p
    BY <1>5, <1>9
  <2>2. \A i \in DOMAIN s : placements[s[i]].key = <<i - 1, 1>>
    BY <1>3, <1>4, <1>5, <1>7
  <2> QED
    BY <1>2, <1>8, <2>1, <2>2, LaneNumbered
<1>11. LaneOf(placements) = s
  BY <1>10, LaneIsUnique
<1>12. plots \in [Plots -> {"unused", "active", "retired"}] /\ board \in Nat
  BY DEF Init
<1> QED
  BY <1>2, <1>9, <1>10, <1>11, <1>12, LaneOrderIsLaneOf DEF LaneOK

(* The invariant with the lane, the types and the window.                  *)
THEOREM LaneInvariance == Spec => []IInv
<1>1. Init /\ Inv => IInv
  <2> SUFFICES ASSUME Init, Inv PROVE IInv
    OBVIOUS
  <2>1. LaneOK
    BY FirstLane
  <2>2. StoryOK
    BY DEF Init, StoryOK
  <2>3. BoardFits(view, placements, board)
    BY <2>1, BoardIsOfLane DEF Init
  <2>4. \A f \in Flows : CallFits(call[f], placements, board)
    <3>1. \A f \in Flows : call[f].stage = "idle"
      BY DEF Init, Idle
    <3> QED
      BY <3>1, SettledCall
  <2> QED
    BY <2>1, <2>2, <2>3, <2>4 DEF IInv, WindowOK
<1>2. IInv /\ Inv' /\ [Next]_vars => IInv'
  <2> SUFFICES ASSUME IInv, Inv', [Next]_vars PROVE IInv'
    OBVIOUS
  <2>1. LaneOK' /\ Grows
    BY LaneStep
  <2>2. WindowOK'
    BY <2>1, WindowKept
  <2>3. StoryOK'
    BY StoryKept
  <2> QED
    BY <2>1, <2>2, <2>3 DEF IInv
<1> QED
  BY <1>1, <1>2, Invariance, PTL DEF Spec

(* Every variable has its type, every plot that was created its placement, *)
(* and no two placements have one order key (the unique indices of the     *)
(* ledger).                                                                *)
THEOREM TypeCorrect == Spec => []TypeOK
<1>1. IInv => TypeOK
  <2> SUFFICES ASSUME IInv PROVE TypeOK
    OBVIOUS
  <2> DEFINE s == LaneOf(placements)
  <2>1. LaneOK /\ StoryOK /\ WindowOK /\ LinksOK
    BY DEF IInv, Inv
  <2>2. IsLane(s, placements)
    BY <2>1 DEF LaneOK
  <2> HIDE DEF s
  <2>3. Placed = PlacedIn(placements)
    BY DEF Placed, PlacedIn
  <2>4. placements \in [Plots -> Placement \cup {None}]
    BY <2>2 DEF IsLane
  <2>5. ASSUME NEW p \in Placed, NEW q \in Placed, placements[p].key = placements[q].key
        PROVE  p = q
    <3>1. /\ Len(s) \in Nat
          /\ \A i, j \in 1..Len(s) :
                 Less(placements[s[i]].key, placements[s[j]].key) <=> i < j
          /\ \A r \in PlacedIn(placements) : \E i \in 1..Len(s) : s[i] = r
      BY <2>2, LaneFacts
    <3>2. PICK i \in 1..Len(s), j \in 1..Len(s) : s[i] = p /\ s[j] = q
      BY <2>3, <3>1
    <3>3. ~(i < i) /\ ~(i < j) /\ ~(j < i)
      BY <2>5, <3>1, <3>2
    <3> QED
      BY <3>1, <3>2, <3>3
  <2>6. links \subseteq [plot : Placed, event : events,
                         role : {"primary", "supporting"},
                         origin : {"plot-to-event", "event-to-plot", "manual-link"}]
    <3>1. \A l \in links : l.plot \in Placed /\ l.event \in events
      BY <2>1 DEF LinksOK, Stored, LaneOK, Placed
    <3>2. \A l \in links :
              l \in [plot : Plots, event : Events, role : {"primary", "supporting"},
                     origin : {"plot-to-event", "event-to-plot", "manual-link"}]
      BY <2>1 DEF StoryOK
    <3> QED
      BY <3>1, <3>2
  <2>7. \A f \in Flows : call[f].stage \in {"idle", "sent", "answered", "refresh", "read"}
    BY <2>1 DEF WindowOK, CallFits
  <2>8. /\ view.revision \in Nat /\ view.order \in Seq(Plots)
        /\ DOMAIN view.revisions = {view.order[i] : i \in DOMAIN view.order}
    BY <2>1 DEF WindowOK, BoardFits
  <2> QED
    BY <2>1, <2>4, <2>5, <2>6, <2>7, <2>8 DEF TypeOK, LaneOK, StoryOK
<1> QED
  BY <1>1, LaneInvariance, PTL

(* The fractional keys keep an order, for every number of plots, whatever  *)
(* was moved before and whenever the lane is rebalanced: a new plot comes  *)
(* last, and a move changes the place of one plot only                     *)
(* (createOrderKeyBetween, createRebalancedOrderKeys).                     *)
THEOREM LaneIsOrdered == Spec => OrderIsKept
<1>1. Init => Order!Init
  BY FirstLane DEF Order!Init, IsInjective, Order!IsInjective
<1>2. IInv /\ [Next]_vars => [Order!Next]_LaneOrder
  BY LaneStep DEF OrderStep, Order!Next
<1> QED
  BY <1>1, <1>2, LaneInvariance, PTL DEF Spec, OrderIsKept, Order!Spec

(* A plot that is dropped comes to lie where the window showed it, or the  *)
(* move is refused (movePlotPlacement and the revision of the board).      *)
THEOREM DropsLandWhereShown == Spec => MovesGoWhereShown
<1>1. IInv /\ [Next]_vars
          => [Runs("plot", "move") /\ placements' # placements /\ call' # call =>
                  LaneOrder' = call["plot"].command.shown]_vars
  <2> SUFFICES ASSUME IInv, [Next]_vars, Runs("plot", "move"),
                      placements' # placements, call' # call
               PROVE  LaneOrder' = call["plot"].command.shown
    OBVIOUS
  <2>1. call["plot"].command.kind = "move"
    BY DEF Runs
  <2>2. MovePlot
    BY <2>1, LaneWrites DEF lane, CreatePlot, PlotFromEvent, RetirePlot, SetStoryTime, Runs
  <2>3. CommandFits(call["plot"].command, placements, board)
    BY DEF Runs, IInv, WindowOK, CallFits, Flows
  <2> QED
    BY <2>2, <2>3, MoveLane DEF IInv
<1> QED
  BY <1>1, LaneInvariance, PTL DEF Spec, MovesGoWhereShown
=============================================================================
