---------------------------- MODULE StoryStructure ----------------------------
(***************************************************************************)
(* The plots and events of one work: the rows that the commands of          *)
(* local-workspace-runtime.ts write, the fractional keys that order the     *)
(* default lane of its plot board, and the board that the window of         *)
(* App.tsx shows.                                                           *)
(*                                                                          *)
(* The window has two flows that do not wait for each other, one for plots  *)
(* and one for events.  Each sends a command, which the runtime runs by     *)
(* itself, then asks for the event rail and shows the board that is in it:  *)
(* by then the other flow may have shown a later one.                       *)
(***************************************************************************)
EXTENDS Integers, SequencesExt, FiniteSets

CONSTANTS
    Plots, Events, Documents,
    FirstLanes,       \* the plots a lane may hold when the window opens
    KeyLengthLimits,  \* what plotBoard.orderKeyLengthLimit may be configured to
    MaxCommands,      \* bound on the commands sent
    None              \* null

(* An order key is a fraction; a placement has one, and a revision.        *)
OrderKey == Int \X (Nat \ {0})
Placement == [key : OrderKey, revision : Nat]

ASSUME ConstantsAssumption ==
    /\ \A s \in FirstLanes : s \in Seq(Plots) /\ IsInjective(s)
    /\ KeyLengthLimits \subseteq Nat \ {0} /\ MaxCommands \in Nat
    /\ None \notin Plots \cup Events \cup Documents \cup OrderKey \cup Placement

VARIABLES
    plots,       \* "unused", "active" or "retired"
    placements,  \* order key and revision of the placement of each plot
    board,       \* revision of the board
    events,      \* events stored
    links,       \* active links of plots and events
    sources,     \* active sources: events and the documents they quote
    present,     \* documents that are not retired
    call,        \* where each flow of the window is
    view,        \* the board the window shows
    commands     \* commands sent so far

lane == <<plots, placements, board>>
story == <<events, links, sources>>
vars == <<lane, story, present, call, view, commands>>

Flows == {"plot", "event"}
Idle == [stage |-> "idle"]

-----------------------------------------------------------------------------
(* Order keys: reduced fractions <<numerator, denominator>>.               *)

Less(k, l) == k[1] * l[2] < l[1] * k[2]

Divides(d, n) == n % d = 0

Reduced(n, d) ==
    LET g == CHOOSE g \in 1..d : /\ Divides(g, n) /\ Divides(g, d)
                                 /\ \A h \in (g + 1)..d : ~(Divides(h, n) /\ Divides(h, d))
    IN  <<n \div g, d \div g>>

KeyBetween(k, l) ==
    CASE k = None /\ l = None -> <<0, 1>>
      [] k = None /\ l # None -> <<l[1] - l[2], l[2]>>
      [] k # None /\ l = None -> <<k[1] + k[2], k[2]>>
      [] OTHER -> Reduced(k[1] + l[1], k[2] + l[2])

(* The length of the text of a key: digits, a slash and a sign.            *)
Digits(n) == CHOOSE c \in 1..9 : n < 10 ^ c /\ (c > 1 => n >= 10 ^ (c - 1))
KeyLength(k) ==
    1 + Digits(k[2]) + IF k[1] < 0 THEN 1 + Digits(-k[1]) ELSE Digits(k[1])

-----------------------------------------------------------------------------
(* The lane: its placements by their keys, plots that were retired         *)
(* included.                                                               *)

Placed == {p \in Plots : placements[p] # None}

LaneOrder ==
    [i \in 1..Cardinality(Placed) |->
        CHOOSE p \in Placed :
            Cardinality({q \in Placed : Less(placements[q].key, placements[p].key)}) = i - 1]

(* Each plot is on a lane once.                                            *)
Without(s, p) == RemoveAt(s, CHOOSE i \in DOMAIN s : s[i] = p)
Inserted(s, i, p) == InsertAt(s, i + 1, p)

(* The neighbours of a gap, and the key at an end or of a neighbour.       *)
Before(s, i) == IF i = 0 THEN None ELSE s[i]
After(s, i) == IF i = Len(s) THEN None ELSE s[i + 1]
KeyOf(p) == IF p = None THEN None ELSE placements[p].key

Board == [revision |-> board, order |-> LaneOrder,
          revisions |-> [p \in Placed |-> placements[p].revision]]

PrimaryOf(p) == {l \in links : l.plot = p /\ l.role = "primary"}
ProducedBy(e) ==
    {l \in links : l.event = e /\ l.role = "primary" /\ plots[l.plot] = "active"}

(* A source in a document that was retired cannot be projected.            *)
Readable(from) == \A s \in from : s.document \in present
SourcesOf(e) == {s \in sources : s.event = e}

-----------------------------------------------------------------------------
(* Plots that were created one after the other are in the lane.            *)
Init ==
    /\ \E s \in FirstLanes :
           /\ plots = [p \in Plots |-> IF \E i \in DOMAIN s : s[i] = p
                                       THEN "active" ELSE "unused"]
           /\ placements =
                  [p \in Plots |->
                      IF plots[p] = "unused" THEN None
                      ELSE [key |-> <<(CHOOSE i \in DOMAIN s : s[i] = p) - 1, 1>>,
                            revision |-> 1]]
    /\ board = 1
    /\ events = {} /\ links = {} /\ sources = {}
    /\ present = Documents
    /\ call = [f \in Flows |-> Idle]
    /\ view = Board
    /\ commands = 0

(* The author gives a flow its next command.                               *)
Sends(f, command) ==
    /\ call[f].stage = "idle"
    /\ commands < MaxCommands
    /\ commands' = commands + 1
    /\ call' = [call EXCEPT ![f] = [stage |-> "sent", command |-> command]]
    /\ UNCHANGED <<lane, story, present, view>>

AskPlot ==
    \/ Sends("plot", [kind |-> "create"])
    \/ \E p \in Plots : plots[p] = "active" /\ Sends("plot", [kind |-> "retire", plot |-> p])
    \/ \E p \in Plots, d \in Documents \cup {None} :
           /\ plots[p] = "active"
           /\ Sends("plot", [kind |-> "produce", plot |-> p, document |-> d])
    \/ \E p \in Plots, e \in events, role \in {"primary", "supporting"} :
           /\ plots[p] = "active"
           /\ Sends("plot", [kind |-> "link", plot |-> p, event |-> e, role |-> role])
    \/ \E l \in links : Sends("plot", [kind |-> "unlink", link |-> l])

(* A plot is dropped into a gap of the board that is shown.                *)
DropPlot ==
    \E p \in Plots :
        /\ p \in DOMAIN view.revisions
        /\ LET rest == Without(view.order, p)
           IN  \E i \in 0..Len(rest) :
                   Sends("plot", [kind |-> "move", plot |-> p,
                                  before |-> Before(rest, i), after |-> After(rest, i),
                                  revision |-> view.revisions[p],
                                  boardRevision |-> view.revision,
                                  shown |-> Inserted(rest, i, p)])

DateStory ==
    \E p \in Plots :
        /\ p \in DOMAIN view.revisions
        /\ Sends("plot", [kind |-> "date", plot |-> p, revision |-> view.revisions[p],
                          boardRevision |-> view.revision])

AskEvent ==
    \E d \in Documents \cup {None} : Sends("event", [kind |-> "event", document |-> d])

-----------------------------------------------------------------------------
(* What the runtime does with them.                                        *)

Runs(f, kind) == call[f].stage = "sent" /\ call[f].command.kind = kind

Settles(f, stage) == call' = [call EXCEPT ![f] = stage]
Refreshes(f) == Settles(f, [stage |-> "refresh"])
Shows(f, b) == Settles(f, [stage |-> "answered", board |-> b])

Rejects(f) ==
    /\ Settles(f, Idle)
    /\ UNCHANGED <<lane, story, present, view, commands>>

(* Mutant: every new plot gets the first key.                             *)
PlacesAtOrigin(p) ==
    /\ plots[p] = "unused"
    /\ plots' = [plots EXCEPT ![p] = "active"]
    /\ placements' = [placements EXCEPT
           ![p] = [key |-> KeyBetween(None, None), revision |-> 1]]
    /\ board' = board + 1

(* A new plot comes last on the lane and touches the board.                *)
Places(p) ==
    LET last == Before(LaneOrder, Len(LaneOrder))
    IN  /\ plots[p] = "unused"
        /\ plots' = [plots EXCEPT ![p] = "active"]
        /\ placements' = [placements EXCEPT
               ![p] = [key |-> KeyBetween(KeyOf(last), None), revision |-> 1]]
        /\ board' = board + 1

CreatePlot ==
    /\ Runs("plot", "create")
    /\ \E p \in Plots : Places(p)
    /\ Refreshes("plot")
    /\ UNCHANGED <<story, present, view, commands>>

(* A plot that is retired keeps its placement and its links.               *)
RetirePlot ==
    LET p == call["plot"].command.plot
    IN  /\ Runs("plot", "retire")
        /\ plots' = [plots EXCEPT ![p] = "retired"]
        /\ Refreshes("plot")
        /\ UNCHANGED <<placements, board, story, present, view, commands>>

(* Mutant: the revision of the board is not compared.                     *)
CurrentUnrevised(c) == placements[c.plot].revision = c.revision
Current(c) == placements[c.plot].revision = c.revision /\ board = c.boardRevision

(* The gap of the lane between the neighbours a move names, if there is.   *)
Gaps(c) ==
    LET rest == Without(LaneOrder, c.plot)
    IN  {i \in 0..Len(rest) : Before(rest, i) = c.before /\ After(rest, i) = c.after}

(* Mutant: the new keys run backwards.                                    *)
RebalancedReversed(order) ==
    [p \in Plots |->
        IF placements[p] = None THEN None
        ELSE [key |-> <<Len(order) - (CHOOSE i \in DOMAIN order : order[i] = p), 1>>,
              revision |-> placements[p].revision + 1]]

Rebalanced(order) ==
    [p \in Plots |->
        IF placements[p] = None THEN None
        ELSE [key |-> <<(CHOOSE i \in DOMAIN order : order[i] = p) - 1, 1>>,
              revision |-> placements[p].revision + 1]]

(* The key between the neighbours, unless it grew too long: then every     *)
(* placement of the lane gets a new one.  The limit comes from the         *)
(* defaults the application is shipped with, which may change from one     *)
(* start to the next.                                                      *)
MovePlot ==
    LET c == call["plot"].command
        key == KeyBetween(KeyOf(c.before), KeyOf(c.after))
        moved == [key |-> key, revision |-> placements[c.plot].revision + 1]
    IN  /\ Runs("plot", "move")
        /\ Current(c)
        /\ \E i \in Gaps(c), limit \in KeyLengthLimits :
               placements' =
                   IF KeyLength(key) <= limit
                   THEN [placements EXCEPT ![c.plot] = moved]
                   ELSE Rebalanced(Inserted(Without(LaneOrder, c.plot), i, c.plot))
        /\ board' = board + 1
        /\ Shows("plot", Board')
        /\ UNCHANGED <<plots, story, present, view, commands>>

MoveConflicts ==
    /\ Runs("plot", "move")
    /\ LET c == call["plot"].command IN ~Current(c) \/ Gaps(c) = {}
    /\ Rejects("plot")

SetStoryTime ==
    LET c == call["plot"].command
    IN  /\ Runs("plot", "date")
        /\ Current(c)
        /\ placements' = [placements EXCEPT ![c.plot].revision = @ + 1]
        /\ board' = board + 1
        /\ Shows("plot", Board')
        /\ UNCHANGED <<plots, story, present, view, commands>>

StoryTimeConflicts ==
    /\ Runs("plot", "date")
    /\ ~Current(call["plot"].command)
    /\ Rejects("plot")

-----------------------------------------------------------------------------
(* Events, their sources and their links.                                  *)

Link(p, e, role, origin) == [plot |-> p, event |-> e, role |-> role, origin |-> origin]

AddsEvent(e, d) ==
    /\ e \in Events \ events
    /\ d \in present \cup {None}
    /\ events' = events \cup {e}
    /\ sources' = IF d = None THEN sources
                  ELSE sources \cup {[event |-> e, document |-> d]}

(* The answer lists every event of the work, so it fails for a source that *)
(* any of them has in a retired document, after the event was stored.      *)
CreateEvent ==
    LET d == call["event"].command.document
    IN  /\ Runs("event", "event")
        /\ \E e \in Events : AddsEvent(e, d)
        /\ IF Readable(sources') THEN Refreshes("event") ELSE Settles("event", Idle)
        /\ UNCHANGED <<lane, links, present, view, commands>>

NoDocument(f) ==
    /\ call[f].stage = "sent" /\ call[f].command.kind \in {"event", "produce"}
    /\ call[f].command.document \notin present \cup {None}
    /\ call[f].command.kind = "produce" => PrimaryOf(call[f].command.plot) = {}
    /\ Rejects(f)

(* An event for a plot, unless it has a primary one, which is projected    *)
(* with its sources.                                                       *)
EventFromPlot ==
    LET c == call["plot"].command
    IN  /\ Runs("plot", "produce")
        /\ PrimaryOf(c.plot) = {}
        /\ \E e \in Events :
               /\ AddsEvent(e, c.document)
               /\ links' = links \cup {Link(c.plot, e, "primary", "plot-to-event")}
        /\ Refreshes("plot")
        /\ UNCHANGED <<lane, present, view, commands>>

EventOfPlotExists ==
    LET c == call["plot"].command
    IN  /\ Runs("plot", "produce")
        /\ \E l \in PrimaryOf(c.plot) :
               IF Readable(SourcesOf(l.event)) THEN Refreshes("plot")
               ELSE Settles("plot", Idle)
        /\ UNCHANGED <<lane, story, present, view, commands>>

(* A plot for an event, unless an active plot has it as its primary one:   *)
(* a command of the bridge that the window does not use.                   *)
PlotFromEvent ==
    /\ \E e \in events, p \in Plots :
           /\ ProducedBy(e) = {}
           /\ Places(p)
           /\ links' = links \cup {Link(p, e, "primary", "event-to-plot")}
    /\ UNCHANGED <<events, sources, present, call, view, commands>>

Linked(c) == {l \in links : l.plot = c.plot /\ l.event = c.event}
(* Mutant: a second primary event is let in.                              *)
LinkFitsRole(c) == Linked(c) = {}
LinkFits(c) == Linked(c) = {} /\ (c.role = "primary" => PrimaryOf(c.plot) = {})

LinkEvent ==
    LET c == call["plot"].command
    IN  /\ Runs("plot", "link")
        /\ LinkFits(c)
        /\ links' = links \cup {Link(c.plot, c.event, c.role, "manual-link")}
        /\ IF Readable(SourcesOf(c.event)) THEN Refreshes("plot")
           ELSE Settles("plot", Idle)
        /\ UNCHANGED <<lane, events, sources, present, view, commands>>

LinkExistsOrConflicts ==
    LET c == call["plot"].command
    IN  /\ Runs("plot", "link")
        /\ ~LinkFits(c)
        /\ IF Linked(c) # {} /\ Readable(SourcesOf(c.event)) THEN Refreshes("plot")
           ELSE Settles("plot", Idle)
        /\ UNCHANGED <<lane, story, present, view, commands>>

UnlinkEvent ==
    LET l == call["plot"].command.link
    IN  /\ Runs("plot", "unlink")
        /\ links' = links \ {l}
        /\ IF Readable(SourcesOf(l.event)) THEN Refreshes("plot")
           ELSE Settles("plot", Idle)
        /\ UNCHANGED <<lane, events, sources, present, view, commands>>

(* Retiring a document leaves its sources as they are.                     *)
RetireDocument ==
    /\ commands < MaxCommands
    /\ commands' = commands + 1
    /\ \E d \in present : present' = present \ {d}
    /\ UNCHANGED <<lane, story, call, view>>

-----------------------------------------------------------------------------
(* The window.                                                             *)

(* The answer to a move is the board, which is shown; the rail is asked    *)
(* for after every command that succeeded.                                 *)
AnswerArrives(f) ==
    /\ call[f].stage = "answered"
    /\ view' = call[f].board
    /\ Refreshes(f)
    /\ UNCHANGED <<lane, story, present, commands>>

ReadRail(f) ==
    /\ call[f].stage = "refresh"
    /\ Readable(sources)
    /\ Settles(f, [stage |-> "read", board |-> Board])
    /\ UNCHANGED <<lane, story, present, view, commands>>

ShowRail(f) ==
    /\ call[f].stage = "read"
    /\ view' = call[f].board
    /\ Settles(f, Idle)
    /\ UNCHANGED <<lane, story, present, commands>>

(* The rail or the scenes that are asked for with it cannot be read: the   *)
(* board that is shown stays.                                              *)
RefreshFails(f) ==
    /\ call[f].stage \in {"refresh", "read"}
    /\ Rejects(f)

Asks == AskPlot \/ DropPlot \/ DateStory \/ AskEvent \/ RetireDocument
RunsPlot == CreatePlot \/ RetirePlot \/ MovePlot \/ MoveConflicts
            \/ SetStoryTime \/ StoryTimeConflicts
RunsEvent == CreateEvent \/ EventFromPlot \/ EventOfPlotExists \/ PlotFromEvent
             \/ LinkEvent \/ LinkExistsOrConflicts \/ UnlinkEvent

Next ==
    \/ Asks \/ RunsPlot \/ RunsEvent
    \/ \E f \in Flows : NoDocument(f) \/ AnswerArrives(f) \/ ReadRail(f)
                        \/ ShowRail(f) \/ RefreshFails(f)

Spec == Init /\ [][Next]_vars

-----------------------------------------------------------------------------
(* Type correctness; every plot has its placement and no two placements    *)
(* have one key, which the unique indices of the ledger would refuse       *)
(* (plot_placements_lane_order_key, prepareDefaultPlotPlacement).          *)
TypeOK ==
    /\ plots \in [Plots -> {"unused", "active", "retired"}]
    /\ \A p \in Plots : (plots[p] = "unused") <=> placements[p] = None
    /\ placements \in [Plots -> Placement \cup {None}]
    /\ \A p, q \in Placed : placements[p].key = placements[q].key => p = q
    /\ board \in Nat
    /\ events \subseteq Events
    /\ links \subseteq [plot : Placed, event : events, role : {"primary", "supporting"},
                        origin : {"plot-to-event", "event-to-plot", "manual-link"}]
    /\ sources \subseteq [event : events, document : Documents]
    /\ present \subseteq Documents
    /\ \A f \in Flows : call[f].stage \in {"idle", "sent", "answered", "refresh", "read"}
    /\ view.revision \in Nat /\ view.order \in Seq(Plots)
    /\ DOMAIN view.revisions = {view.order[i] : i \in DOMAIN view.order}
    /\ commands \in Nat

(* The fractional keys keep an order: a new plot comes last and a move     *)
(* changes the place of one plot only, through mediants, keys below zero   *)
(* and rebalancing (createOrderKeyBetween, createRebalancedOrderKeys).     *)
Order == INSTANCE PlotOrder WITH order <- LaneOrder
OrderIsKept == Order!Spec

(* A plot that is dropped comes to lie where the window showed it: the     *)
(* lane becomes the one the author saw with that plot in the gap, or the   *)
(* move is refused, whatever plots were added, moved or dated meanwhile    *)
(* (movePlotPlacement and the board revision).                             *)
MovesGoWhereShown ==
    [][Runs("plot", "move") /\ placements' # placements /\ call' # call =>
           LaneOrder' = call["plot"].command.shown]_vars

(* A plot has at most one primary event, and an event at most one active   *)
(* plot that was made from it, over every way to create and link them      *)
(* (plan.md:217, plan.md:218).                                             *)
LinksAreSingle ==
    /\ \A k, l \in links : k.plot = l.plot /\ k.role = "primary" /\ l.role = "primary"
                            => k = l
    /\ \A e \in events : \A k, l \in ProducedBy(e) :
           k.origin = "event-to-plot" /\ l.origin = "event-to-plot" => k = l

(* plan.md:218 says that creating an event from a plot a second time       *)
(* returns the existing projection.                                        *)
RepeatedCreationIsAnswered ==
    [][Runs("plot", "produce") /\ PrimaryOf(call["plot"].command.plot) # {}
           /\ call'["plot"] # call["plot"]
       => call'["plot"].stage # "idle"]_vars
=============================================================================
