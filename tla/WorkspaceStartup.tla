--------------------------- MODULE WorkspaceStartup ---------------------------
(***************************************************************************)
(* Opening the local workspace (openLocalWorkspaceRuntime): the chain of    *)
(* schema migrations, the schema and identity of the ledger, and the        *)
(* records every work must have before its runtime can use them.            *)
(*                                                                         *)
(* Several processes may open one workspace: nothing in main.ts keeps a     *)
(* second instance out.  A write transaction (BEGIN IMMEDIATE to COMMIT)    *)
(* is one step, what is read before it is another, and a process can be     *)
(* killed between any two.  One plot per work stands for its plots.         *)
(***************************************************************************)
EXTENDS Naturals

CONSTANTS
    Processes,
    Works,
    Latest,         \* LOCAL_WORKSPACE_LEDGER_SCHEMA_VERSION
    BoardVersion,   \* the schema version that introduced plot boards
    FirstVersions,  \* what may be found: a version, the next release's too,
                    \* or 0 for no file
    MaxStarts       \* bound on the starts of all processes

ASSUME ConstantsAssumption ==
    /\ Latest \in Nat \ {0} /\ BoardVersion \in 1..Latest
    /\ FirstVersions \subseteq 0..(Latest + 1)
    /\ MaxStarts \in Nat

VARIABLES
    file,     \* "absent"; "identity": its first table exists; "schema": all do
    version,  \* target_schema_version of the identity row, 0 without a row
    applied,  \* how often each migration step was committed
    works,    \* works stored
    rules,    \* works whose scene rule set exists
    boards,   \* default boards of each work
    placed,   \* placements of each work's plot
    pc,       \* where each process is
    step,     \* the migration it is at
    todo,     \* works it has still to look at
    seen,     \* what it read before the transaction it is about to make
    met,      \* TRUE for a process that has run beside another one
    starts    \* processes started so far

content == <<works, rules, boards, placed>>
vars == <<file, version, applied, content, pc, step, todo, seen, met, starts>>

Stages == {"off", "migrate", "upgrade", "schema", "tables", "identity", "claim",
           "rules", "addRules", "boards", "addBoard", "running", "failed"}

Nothing == [version |-> 0, works |-> {}, boards |-> 0, unplaced |-> FALSE]

IsOpen(p) == pc[p] \notin {"off", "failed"}
Goes(p, stage) == pc' = [pc EXCEPT ![p] = stage]
Notes(p, record) == seen' = [seen EXCEPT ![p] = record]
AtStage(p, stage) == pc[p] = stage

-----------------------------------------------------------------------------
(* A workspace of version v that another release left behind, or none.     *)
Init ==
    \E v \in FirstVersions :
        /\ file = IF v = 0 THEN "absent" ELSE "schema"
        /\ version = v
        /\ applied = [s \in 1..Latest |-> 0]
        /\ works \in IF v = 0 THEN {{}} ELSE SUBSET Works
        /\ rules = IF v < BoardVersion THEN {} ELSE works
        /\ boards = [w \in Works |-> IF w \in works /\ v >= BoardVersion THEN 1 ELSE 0]
        /\ placed = boards
        /\ pc = [p \in Processes |-> "off"]
        /\ step = [p \in Processes |-> 1]
        /\ todo = [p \in Processes |-> {}]
        /\ seen = [p \in Processes |-> Nothing]
        /\ met = [p \in Processes |-> FALSE]
        /\ starts = 0

Start(p) ==
    /\ pc[p] \in {"off", "failed"}
    /\ starts < MaxStarts
    /\ starts' = starts + 1
    /\ Goes(p, "migrate")
    /\ step' = [step EXCEPT ![p] = 1]
    /\ todo' = [todo EXCEPT ![p] = {}]
    /\ Notes(p, Nothing)
    /\ met' = LET beside == {q \in Processes \ {p} : IsOpen(q)}
              IN [q \in Processes |->
                     IF q = p THEN beside # {} ELSE met[q] \/ q \in beside]
    /\ UNCHANGED <<file, version, applied, content>>

Fails(p) ==
    /\ Goes(p, "failed")
    /\ UNCHANGED <<file, version, applied, content, step, todo, seen, met, starts>>

(* The end of a process, in order or not: an open transaction rolls back.  *)
Ends(p) ==
    /\ IsOpen(p)
    /\ Goes(p, "off")
    /\ UNCHANGED <<file, version, applied, content, step, todo, seen, met, starts>>

(* A transaction of another process is open: SQLITE_BUSY.                  *)
Busy(p) ==
    /\ pc[p] \in {"upgrade", "schema", "tables", "claim", "addRules", "addBoard"}
    /\ \E q \in Processes \ {p} : IsOpen(q)
    /\ Fails(p)

-----------------------------------------------------------------------------
(* The migrations, one after the other; each reads the version first.      *)

Migrating(p) == AtStage(p, "migrate") /\ step[p] < Latest

(* Mutant: a migration takes any later version for its own.               *)
ReadVersionAtLeast(p) ==
    LET ready == file # "absent" /\ version >= step[p]
    IN  /\ Migrating(p)
        /\ file # "absent" => version # 0
        /\ Notes(p, [Nothing EXCEPT !.version = version])
        /\ Goes(p, IF ready THEN "upgrade" ELSE "migrate")
        /\ step' = IF ready THEN step ELSE [step EXCEPT ![p] = @ + 1]
        /\ UNCHANGED <<file, version, applied, content, todo, met, starts>>

ReadVersion(p) ==
    LET ready == file # "absent" /\ version = step[p]
    IN  /\ Migrating(p)
        /\ file # "absent" => version # 0
        /\ Notes(p, [Nothing EXCEPT !.version = version])
        /\ Goes(p, IF ready THEN "upgrade" ELSE "migrate")
        /\ step' = IF ready THEN step ELSE [step EXCEPT ![p] = @ + 1]
        /\ UNCHANGED <<file, version, applied, content, todo, met, starts>>

IdentityIsAmbiguous(p) ==
    /\ Migrating(p)
    /\ file # "absent" /\ version = 0
    /\ Fails(p)

(* Mutant: the version is not read again under the lock.                  *)
MigrateAsRead(p) ==
    /\ AtStage(p, "upgrade")
    /\ seen[p].version = step[p]
    /\ version' = step[p] + 1
    /\ applied' = [applied EXCEPT ![step[p]] = @ + 1]
    /\ Goes(p, "migrate")
    /\ step' = [step EXCEPT ![p] = @ + 1]
    /\ UNCHANGED <<file, content, todo, seen, met, starts>>

(* The transaction of one migration: it reads the version again.           *)
Migrate(p) ==
    /\ AtStage(p, "upgrade")
    /\ version = step[p]
    /\ version' = step[p] + 1
    /\ applied' = [applied EXCEPT ![step[p]] = @ + 1]
    /\ Goes(p, "migrate")
    /\ step' = [step EXCEPT ![p] = @ + 1]
    /\ UNCHANGED <<file, content, todo, seen, met, starts>>

(* Another process has made this migration: its receipt is compared.       *)
MigratedMeanwhile(p) ==
    /\ AtStage(p, "upgrade")
    /\ version = step[p] + 1
    /\ Goes(p, "migrate")
    /\ step' = [step EXCEPT ![p] = @ + 1]
    /\ UNCHANGED <<file, version, applied, content, todo, seen, met, starts>>

(* ... or does not fit the records any more, or the file has moved on.     *)
MigrationConflicts(p) ==
    /\ AtStage(p, "upgrade")
    /\ \/ version > step[p] + 1
       \/ version = step[p] + 1 /\ version = Latest
    /\ Fails(p)

MigrationsEnd(p) ==
    /\ AtStage(p, "migrate") /\ step[p] = Latest
    /\ Goes(p, "schema")
    /\ UNCHANGED <<file, version, applied, content, step, todo, seen, met, starts>>

(* Mutant: a new file is taken for a complete one.                        *)
OpenLedgerWithoutTables(p) ==
    /\ AtStage(p, "schema")
    /\ file' = IF file = "absent" THEN "identity" ELSE file
    /\ Goes(p, "identity")
    /\ UNCHANGED <<version, applied, content, step, todo, seen, met, starts>>

(* The runtime's first statements create the file and its tables, each by  *)
(* itself; tables that exist are left alone.                               *)
OpenLedger(p) ==
    /\ AtStage(p, "schema")
    /\ file' = IF file = "absent" THEN "identity" ELSE file
    /\ Goes(p, IF file = "schema" THEN "identity" ELSE "tables")
    /\ UNCHANGED <<version, applied, content, step, todo, seen, met, starts>>

CreateTables(p) ==
    /\ AtStage(p, "tables")
    /\ file' = "schema"
    /\ Goes(p, "identity")
    /\ UNCHANGED <<version, applied, content, step, todo, seen, met, starts>>

ReadIdentity(p) ==
    /\ AtStage(p, "identity")
    /\ version \in {0, Latest}
    /\ Goes(p, IF version = 0 THEN "claim" ELSE "rules")
    /\ UNCHANGED <<file, version, applied, content, step, todo, seen, met, starts>>

IdentityDiffers(p) ==
    /\ AtStage(p, "identity")
    /\ version \notin {0, Latest}
    /\ Fails(p)

ClaimIdentity(p) ==
    /\ AtStage(p, "claim")
    /\ version = 0
    /\ version' = Latest
    /\ Goes(p, "rules")
    /\ UNCHANGED <<file, applied, content, step, todo, seen, met, starts>>

IdentityIsTaken(p) ==
    /\ AtStage(p, "claim")
    /\ version # 0
    /\ Fails(p)

-----------------------------------------------------------------------------
(* Records that works of earlier versions lack.                            *)

LooksAtBoards(p) ==
    /\ Goes(p, "boards")
    /\ todo' = [todo EXCEPT ![p] = works]

ReadRules(p) ==
    LET missing == works \ rules
    IN  /\ AtStage(p, "rules")
        /\ Notes(p, [Nothing EXCEPT !.works = missing])
        /\ IF missing = {} THEN LooksAtBoards(p)
           ELSE Goes(p, "addRules") /\ UNCHANGED todo
        /\ UNCHANGED <<file, version, applied, content, step, met, starts>>

AddRules(p) ==
    /\ AtStage(p, "addRules")
    /\ seen[p].works \cap rules = {}
    /\ rules' = rules \cup seen[p].works
    /\ LooksAtBoards(p)
    /\ UNCHANGED <<file, version, applied, works, boards, placed, step, seen, met, starts>>

RulesExist(p) ==
    /\ AtStage(p, "addRules")
    /\ seen[p].works \cap rules # {}
    /\ Fails(p)

(* One work after the other; the first of those left.                      *)
Current(p) == CHOOSE w \in todo[p] : TRUE

(* Mutant: a complete work is not crossed off.                            *)
ReadBoardAgain(p) ==
    LET w == Current(p)
        unplaced == placed[w] = 0
        complete == boards[w] = 1 /\ ~unplaced
    IN  /\ AtStage(p, "boards") /\ todo[p] # {}
        /\ boards[w] <= 1
        /\ Notes(p, [Nothing EXCEPT !.boards = boards[w], !.unplaced = unplaced])
        /\ Goes(p, IF complete THEN "boards" ELSE "addBoard")
        /\ UNCHANGED <<file, version, applied, content, todo, step, met, starts>>

ReadBoard(p) ==
    LET w == Current(p)
        unplaced == placed[w] = 0
        complete == boards[w] = 1 /\ ~unplaced
    IN  /\ AtStage(p, "boards") /\ todo[p] # {}
        /\ boards[w] <= 1
        /\ Notes(p, [Nothing EXCEPT !.boards = boards[w], !.unplaced = unplaced])
        /\ Goes(p, IF complete THEN "boards" ELSE "addBoard")
        /\ todo' = IF complete THEN [todo EXCEPT ![p] = @ \ {w}] ELSE todo
        /\ UNCHANGED <<file, version, applied, content, step, met, starts>>

TooManyBoards(p) ==
    /\ AtStage(p, "boards") /\ todo[p] # {}
    /\ boards[Current(p)] > 1
    /\ Fails(p)

(* Mutant: a new board is left without its plots.                         *)
AddBoardUnplaced(p) ==
    LET w == Current(p)
    IN  /\ AtStage(p, "addBoard")
        /\ boards' = [boards EXCEPT ![w] = IF seen[p].boards = 0 THEN @ + 1 ELSE @]
        /\ placed' = placed
        /\ todo' = [todo EXCEPT ![p] = @ \ {w}]
        /\ Goes(p, "boards")
        /\ UNCHANGED <<file, version, applied, works, rules, step, seen, met, starts>>

(* A new board is written whatever happened since the read.  Plots are put *)
(* on an existing board under its revision; since no board is stored       *)
(* without its plots, there are none left to put.                          *)
AddBoard(p) ==
    LET w == Current(p)
    IN  /\ AtStage(p, "addBoard")
        /\ boards' = [boards EXCEPT ![w] = IF seen[p].boards = 0 THEN @ + 1 ELSE @]
        /\ placed' = [placed EXCEPT ![w] = IF seen[p].unplaced THEN @ + 1 ELSE @]
        /\ todo' = [todo EXCEPT ![p] = @ \ {w}]
        /\ Goes(p, "boards")
        /\ UNCHANGED <<file, version, applied, works, rules, step, seen, met, starts>>

(* The rest of the start reads: the runtime takes over.                    *)
Runs(p) ==
    /\ AtStage(p, "boards") /\ todo[p] = {}
    /\ Goes(p, "running")
    /\ UNCHANGED <<file, version, applied, content, step, todo, seen, met, starts>>

(* A new work is stored with its board and rules in one transaction.       *)
CreateWork(p) ==
    /\ AtStage(p, "running")
    /\ \E w \in Works \ works :
          /\ works' = works \cup {w}
          /\ rules' = rules \cup {w}
          /\ boards' = [boards EXCEPT ![w] = 1]
          /\ placed' = [placed EXCEPT ![w] = 1]
    /\ UNCHANGED <<file, version, applied, pc, step, todo, seen, met, starts>>

Opens(p) ==
    \/ ReadVersion(p) \/ IdentityIsAmbiguous(p)
    \/ Migrate(p) \/ MigratedMeanwhile(p) \/ MigrationConflicts(p)
    \/ MigrationsEnd(p)
    \/ OpenLedger(p) \/ CreateTables(p)
    \/ ReadIdentity(p) \/ IdentityDiffers(p)
    \/ ClaimIdentity(p) \/ IdentityIsTaken(p)
    \/ ReadRules(p) \/ AddRules(p) \/ RulesExist(p)
    \/ ReadBoard(p) \/ TooManyBoards(p) \/ AddBoard(p)
    \/ Runs(p)

Next ==
    \E p \in Processes :
        Start(p) \/ Opens(p) \/ Busy(p) \/ Ends(p) \/ CreateWork(p)

Spec == Init /\ [][Next]_vars

(* A process that opens the workspace goes on until it runs, fails or is   *)
(* ended; nobody is obliged to start one.                                  *)
FairSpec == Spec /\ \A p \in Processes : WF_vars(Opens(p))

-----------------------------------------------------------------------------
(* Type correctness; the identity row comes after the tables, and content  *)
(* after the identity (openNodeSqliteLedger before everything else).       *)
TypeOK ==
    /\ file \in {"absent", "identity", "schema"}
    /\ version \in 0..(Latest + 1)
    /\ applied \in [1..Latest -> Nat]
    /\ works \subseteq Works /\ rules \subseteq works
    /\ boards \in [Works -> Nat] /\ placed \in [Works -> Nat]
    /\ pc \in [Processes -> Stages]
    /\ step \in [Processes -> 1..Latest]
    /\ todo \in [Processes -> SUBSET Works]
    /\ seen \in [Processes -> [version : 0..(Latest + 1), works : SUBSET Works,
                               boards : {0, 1}, unplaced : BOOLEAN]]
    /\ met \in [Processes -> BOOLEAN]
    /\ starts \in Nat
    /\ version # 0 => file = "schema"
    /\ works # {} => version # 0

(* A workspace went through every migration from the version it was found  *)
(* at to the one it has, each once, whatever was killed and whoever else   *)
(* was migrating it (runNodeSqliteStorageMigration reads the identity      *)
(* again under the lock).                                                  *)
StepsRunOnce ==
    \E v \in FirstVersions :
        \A s \in 1..Latest :
            applied[s] = IF v # 0 /\ v <= s /\ s < version THEN 1 ELSE 0

(* A runtime that opened the workspace alone finds every work with its     *)
(* rules, one default board and its plots on it, after any number of       *)
(* starts that were cut short (ensureSceneRuleSetState,                    *)
(* ensureDefaultPlotBoardState).                                           *)
ReadyMeansComplete ==
    \A p \in Processes :
        pc[p] = "running" /\ ~met[p] =>
            /\ file = "schema" /\ version = Latest
            /\ \A w \in works : w \in rules /\ boards[w] = 1 /\ placed[w] = 1

(* A start is refused only beside another process, for a workspace of a    *)
(* newer release, or for one of the two states the code asserts it never   *)
(* leaves: tables without an identity and a work with a second default     *)
(* board (initializeOrVerifyIdentity, readExistingSchemaVersion,           *)
(* ensureDefaultPlotBoardState).                                           *)
RefusalsHaveCause ==
    [][\A p \in Processes :
           pc[p] # "failed" /\ pc'[p] = "failed" =>
               \/ met[p]
               \/ version > Latest
               \/ file # "absent" /\ version = 0
               \/ \E w \in works : boards[w] > 1]_vars

(* Every start ends: the runtime is there, or the start failed, or the     *)
(* process was ended.                                                      *)
StartsEnd ==
    \A p \in Processes :
        pc[p] = "migrate" ~> pc[p] \in {"running", "failed", "off"}

(* "Work must have exactly one default sequence PlotBoard"                 *)
(* (local-workspace-runtime.ts:22448), for every work a runtime has.       *)
OneDefaultBoard ==
    (\E p \in Processes : pc[p] = "running") => \A w \in works : boards[w] = 1

=============================================================================
