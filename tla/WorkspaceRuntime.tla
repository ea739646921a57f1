--------------------------- MODULE WorkspaceRuntime ---------------------------
(***************************************************************************)
(* The local workspace runtime of the main process                         *)
(* (desktop/local-workspace-runtime.ts) over the SQLite ledger             *)
(* (platform/storage/node-sqlite-ledger.ts), between the renderer's save   *)
(* queues and the revisions on disk.                                       *)
(*                                                                         *)
(* Two promise chains run in the process.  #savePending runs the saves     *)
(* one by one; #createPending runs everything that changes or reloads the  *)
(* structure of the workspace.  Most commands of the second chain wait for *)
(* the saves that were pending when they began, a save never waits for the *)
(* second chain, so that saves and reloads interleave at every await.      *)
(*                                                                         *)
(* A revision is named by its place in the history of its document.  A     *)
(* text is the set of the batches composed into it.  The program compares  *)
(* texts by their lengths and by nothing else: a batch of Replacing puts   *)
(* in as much as it takes out, any other adds one to the length, so that   *)
(* different texts may well have one length.                               *)
(***************************************************************************)
EXTENDS Naturals, Sequences, FiniteSets

CONSTANTS
    Docs,           \* document identities, in the order of their rows
    InitialDocs,    \* the documents stored when the runtime opens
    Batches,        \* the edits; their number bounds the saves issued
    Replacing,      \* the edits that leave the length of the text as it is
    Unordered,      \* the edits whose editor state lists its keys in another
                    \* order than the one the runtime stores
    MaxOps,         \* bound on the structure commands
    MaxCrashes,     \* bound on the restarts
    NoTarget,       \* a document absent from #documentTargets
    NoFlight,       \* no save of the document is in flight
    NoSave          \* no save is past its checks

Text == SUBSET Batches

Length(text) == Cardinality(text \ Replacing)

Revision == [kind : {"create", "text", "formatting", "restore"},
             parent : Nat,
             batch : {0} \cup Batches,
             text : Text,
             editorText : Text,    \* the text the editor state was made for
             fitted : BOOLEAN]     \* that of the queue it came from

Target == [base : Nat, current : Nat, next : Nat, text : Text]

Command == [kind : {"text", "formatting"},
            doc : Docs,
            batch : Batches,   \* a formatting save has a number, too
            base : Nat,        \* baseRevisionId, expectedCurrentRevisionId
            sequence : Nat,
            text : Text,       \* the text its editor state was made for
            fitted : BOOLEAN]

Saving == [expected : Nat,      \* the revision the append expects as current
           text : Text,
           attached : BOOLEAN]  \* its target is still the one in #documentTargets

ASSUME ConstantsAssumption ==
    /\ Docs \subseteq Nat
    /\ InitialDocs \subseteq Docs
    /\ Batches \subseteq Nat \ {0} /\ IsFiniteSet(Batches)
    /\ Replacing \subseteq Batches /\ Unordered \subseteq Batches
    /\ MaxOps \in Nat /\ MaxCrashes \in Nat
    /\ NoTarget \notin Target /\ NoFlight \notin Command /\ NoSave \notin Saving

VARIABLES
    ledger,     \* per document its committed revisions (the database)
    live,       \* per document "absent", "live" or "retired" (the database)
    targets,    \* #documentTargets
    profile,    \* #documentProfile: the revision it lists, 0 if not listed
    accepted,   \* #acceptedByBatchId: the revision a batch was stored as, or 0
    saves,      \* the commands on the #savePending chain, the running one first
    saving,     \* the running save between its checks and its commit
    ops,        \* the commands on the #createPending chain that have not begun
    op,         \* the running command of that chain
    client,     \* the renderer: its save queue for each document
    left,       \* the replaced queues that still have edits to send
    query,      \* the renderer's projection of the workspace being read
    issued,     \* the numbers the renderer has given to its saves
    requested,  \* number of structure commands issued
    crashes,    \* number of restarts
    acked       \* batches whose receipt has reached the renderer

mainVars == <<targets, profile, accepted, saves, saving, ops, op>>
bounds == <<issued, requested, crashes>>
vars == <<ledger, live, mainVars, client, left, query, bounds, acked>>

Client == [doc : Docs,
           installed : BOOLEAN,
           base : Nat,
           next : Nat,
           revision : Nat,
           text : Text,        \* the text of the editor up to the last receipt
           unsent : {0} \cup Batches,   \* typed since, and not yet sent
           flight : Command \cup {NoFlight},
           sent : BOOLEAN,     \* the command in flight awaits its answer
           fitted : BOOLEAN]   \* no variable of the code: the queue was made
                               \* with the base and the text of the target

Idle == [kind |-> "none", doc |-> 0, revision |-> 0,
         phase |-> "idle", ahead |-> 0, expected |-> 0,
         rows |-> [d \in Docs |-> 0]]

Op == [kind : {"none", "activate", "retire", "create", "restore"},
       doc : Docs \cup {0},
       revision : Nat,
       phase : {"idle", "waiting", "materializing", "publishing", "loading"},
       ahead : Nat,        \* saves of the awaited #savePending still to settle
       expected : Nat,     \* expectedCurrentRevisionId of a restore
       rows : [Docs -> Nat]]   \* the rows a reload has read

Query == [stage : {"none", "due", "read"},
          rows : [Docs -> Nat],        \* the document profile, once read
          docs : SUBSET Docs]          \* the documents whose queues are replaced

-----------------------------------------------------------------------------
(* The ledger.                                                             *)

Current(d) == Len(ledger[d])

TextOf(d, revision) == ledger[d][revision].text

(* The revision store's append: it commits only on the revision the caller *)
(* expects to be current (6177-6187).                                      *)
Expected(d, revision) == Current(d) = revision

AppendRevision(d, revision) ==
    ledger' = [ledger EXCEPT ![d] = Append(@, revision)]

(* What loadWorkspaceState reads before its first await (23751-23753).     *)
Rows == [d \in Docs |-> IF live[d] = "live" THEN Current(d) ELSE 0]

FreshTarget(d, row) ==
    [base |-> row, current |-> row, next |-> 0, text |-> TextOf(d, row)]

-----------------------------------------------------------------------------
InitialRevision == [kind |-> "create", parent |-> 0, batch |-> 0,
                    text |-> {}, editorText |-> {}, fitted |-> TRUE]

(* A queue made from a projection of the document, over the given text.    *)
RegisterDocument(d, row, next, text, fitted) ==
    [doc |-> d, installed |-> row # 0, base |-> row, next |-> next,
     revision |-> row, text |-> text, unsent |-> 0,
     flight |-> NoFlight, sent |-> FALSE, fitted |-> fitted]

(* The queue of a window that has just been opened.                        *)
FirstQueue(d, row) ==
    RegisterDocument(d, row, 0, IF row = 0 THEN {} ELSE TextOf(d, row), TRUE)

Quiet == [stage |-> "none", rows |-> [d \in Docs |-> 0], docs |-> {}]

(* openLocalWorkspaceRuntime and the renderer's first projection.          *)
Opened ==
    /\ targets' = [d \in Docs |-> IF Rows[d] # 0
                                  THEN FreshTarget(d, Rows[d]) ELSE NoTarget]
    /\ profile' = Rows
    /\ accepted' = [b \in Batches |-> 0]
    /\ saves' = <<>> /\ saving' = NoSave
    /\ ops' = <<>> /\ op' = Idle
    /\ client' = [d \in Docs |-> FirstQueue(d, Rows[d])]
    /\ left' = {}
    /\ query' = Quiet

Init ==
    /\ ledger = [d \in Docs |-> IF d \in InitialDocs THEN <<InitialRevision>>
                                                     ELSE <<>>]
    /\ live = [d \in Docs |-> IF d \in InitialDocs THEN "live" ELSE "absent"]
    /\ targets = [d \in Docs |-> IF d \in InitialDocs
                                 THEN FreshTarget(d, 1) ELSE NoTarget]
    /\ profile = Rows
    /\ accepted = [b \in Batches |-> 0]
    /\ saves = <<>> /\ saving = NoSave
    /\ ops = <<>> /\ op = Idle
    /\ client = [d \in Docs |-> FirstQueue(d, Rows[d])]
    /\ left = {}
    /\ query = Quiet
    /\ issued = {} /\ requested = 0 /\ crashes = 0
    /\ acked = {}

-----------------------------------------------------------------------------
(* The renderer.  Its queue has one save in flight per document.           *)

(* The author types; what is typed before the queue is drained is one edit.*)
Edit(d) ==
    /\ client[d].installed /\ client[d].unsent = 0
    /\ \E b \in Batches \ issued :
           /\ client' = [client EXCEPT ![d].unsent = b]
           /\ issued' = issued \cup {b}
    /\ UNCHANGED <<ledger, live, mainVars, left, query, requested, crashes, acked>>

TextSave(q) ==
    [kind |-> "text", doc |-> q.doc, batch |-> q.unsent, base |-> q.base,
     sequence |-> q.next, text |-> q.text \cup {q.unsent}, fitted |-> q.fitted]

FormattingSave(q, number) ==
    [kind |-> "formatting", doc |-> q.doc, batch |-> number, base |-> q.revision,
     sequence |-> 0, text |-> q.text, fitted |-> q.fitted]

Send(d, command) ==
    /\ client[d].flight = NoFlight
    /\ saves' = Append(saves, command)
    /\ client' = [client EXCEPT ![d].flight = command, ![d].sent = TRUE,
                                ![d].unsent = 0]
    /\ UNCHANGED <<ledger, live, targets, profile, accepted, saving, ops, op,
                   left, query, requested, crashes, acked>>

SendText(d) ==
    /\ client[d].unsent # 0
    /\ Send(d, TextSave(client[d]))
    /\ UNCHANGED issued

SendFormatting(d) ==
    /\ client[d].installed /\ client[d].unsent = 0
    /\ \E number \in Batches \ issued :
           /\ Send(d, FormattingSave(client[d], number))
           /\ issued' = issued \cup {number}

(* The timer of a replaced queue, or its continuation after a receipt,     *)
(* sends what was typed before the queue was replaced.                     *)
SendLeft ==
    /\ \E q \in left :
           /\ q.flight = NoFlight
           /\ saves' = Append(saves, TextSave(q))
           /\ left' = left \ {q}
    /\ UNCHANGED <<ledger, live, targets, profile, accepted, saving, ops, op,
                   client, query, bounds, acked>>

(* An explicit flush sends the failed save again, unchanged.               *)
Resend(d) ==
    /\ client[d].flight # NoFlight
    /\ ~client[d].sent
    /\ saves' = Append(saves, client[d].flight)
    /\ client' = [client EXCEPT ![d].sent = TRUE]
    /\ UNCHANGED <<ledger, live, targets, profile, accepted, saving, ops, op,
                   left, query, bounds, acked>>

(* The answer of a save reaches the queue that sent it.  A replaced queue  *)
(* goes on after a receipt, and gives up after a failure.                  *)
Awaits(q, c) == q.flight = c /\ q.sent

Failed(c) ==
    /\ client' = [d \in Docs |-> IF Awaits(client[d], c)
                                 THEN [client[d] EXCEPT !.sent = FALSE]
                                 ELSE client[d]]
    /\ left' = {q \in left : ~Awaits(q, c)}
    /\ UNCHANGED acked

AfterReceipt(q, c, revision) ==
    IF Awaits(q, c)
    THEN [q EXCEPT !.next = IF c.kind = "text" THEN c.sequence + 1 ELSE @,
                   !.revision = revision,
                   !.text = c.text,
                   !.flight = NoFlight,
                   !.sent = FALSE]
    ELSE q

Received(c, revision) ==
    /\ client' = [d \in Docs |-> AfterReceipt(client[d], c, revision)]
    /\ left' = {AfterReceipt(q, c, revision) : q \in left}
    /\ acked' = IF c.kind = "text" THEN acked \cup {c.batch} ELSE acked

-----------------------------------------------------------------------------
(* The #savePending chain.                                                 *)

(* Mutant: the saves that settle are counted below zero.                   *)
SaveSettlesUnguarded ==
    /\ saves' = Tail(saves)
    /\ saving' = NoSave
    /\ op' = [op EXCEPT !.ahead = @ - 1]
    /\ UNCHANGED <<live, ops, query, bounds>>

(* Mutant: a structure command is not told that the save settled.          *)
SaveSettlesUntold ==
    /\ saves' = Tail(saves)
    /\ saving' = NoSave
    /\ UNCHANGED <<op, live, ops, query, bounds>>

(* The running save settles: the chain moves on and a structure command    *)
(* that waits for it has one save less to wait for.                        *)
SaveSettles ==
    /\ saves' = Tail(saves)
    /\ saving' = NoSave
    /\ op' = IF op.ahead > 0 THEN [op EXCEPT !.ahead = @ - 1] ELSE op
    /\ UNCHANGED <<live, ops, query, bounds>>

(* The batch was stored under this run of the program.  It is sent again   *)
(* unchanged, so its identity is always that of a duplicate.               *)
Repeated(c) == c.kind = "text" /\ accepted[c.batch] # 0

(* The editor state of the repeated batch is compared as a string with the *)
(* one that was stored, which lists its keys in a fixed order.             *)
SameEditorState(c) == c.batch \notin Unordered

(* The checks of a save that is not repeated.  A batch declares the length *)
(* of the text it was made for; a formatting save names the revision only. *)
Admissible(c) ==
    LET target == targets[c.doc]
    IN  /\ target # NoTarget
        /\ c.kind = "text" =>
               /\ target.base = c.base
               /\ target.next = c.sequence
               /\ Length(target.text) = Length(c.text \ {c.batch})
        /\ c.kind = "formatting" => target.current = c.base

(* Every position in the editor state lies within the target's text; in a  *)
(* longer text it may or may not.                                          *)
Fits(c) == c.kind = "text" \/ Length(c.text) <= Length(targets[c.doc].text)

SaveRepeated ==
    /\ saves # <<>> /\ saving = NoSave
    /\ Repeated(saves[1]) /\ SameEditorState(saves[1])
    /\ Received(saves[1], accepted[saves[1].batch])
    /\ SaveSettles
    /\ UNCHANGED <<ledger, targets, profile, accepted>>

SaveRefused ==
    /\ saves # <<>> /\ saving = NoSave
    /\ IF Repeated(saves[1]) THEN ~SameEditorState(saves[1])
                             ELSE Admissible(saves[1]) => ~Fits(saves[1])
    /\ Failed(saves[1])
    /\ SaveSettles
    /\ UNCHANGED <<ledger, targets, profile, accepted>>

(* The checks pass; the blob of the new text is being published.           *)
SaveBegins ==
    /\ saves # <<>> /\ saving = NoSave
    /\ ~Repeated(saves[1])
    /\ Admissible(saves[1])
    /\ LET c == saves[1]
           target == targets[c.doc]
       IN  saving' = [expected |-> target.current,
                      text |-> IF c.kind = "text"
                               THEN target.text \cup {c.batch}
                               ELSE target.text,
                      attached |-> TRUE]
    /\ UNCHANGED <<ledger, live, targets, profile, accepted, saves, ops, op,
                   client, left, query, bounds, acked>>

(* Mutant: the receipt is given without being remembered.                  *)
AcceptUnremembered(c, revision) == UNCHANGED accepted

Accept(c, revision) ==
    accepted' = IF c.kind = "text"
                THEN [accepted EXCEPT ![c.batch] = revision]
                ELSE accepted

(* The append commits, and the continuation updates the target, the        *)
(* profile and the accepted batches in the same turn.  A target that a     *)
(* reload has meanwhile dropped is updated where nobody reads it.  The     *)
(* receipt may not survive the way to the renderer.                        *)
SaveCommits ==
    /\ saving # NoSave
    /\ LET c == saves[1]
           revision == Current(c.doc) + 1
       IN  /\ Expected(c.doc, saving.expected)
           /\ AppendRevision(c.doc, [kind |-> c.kind,
                                     parent |-> saving.expected,
                                     batch |-> IF c.kind = "text"
                                               THEN c.batch ELSE 0,
                                     text |-> saving.text,
                                     editorText |-> c.text,
                                     fitted |-> c.fitted])
           /\ targets' = IF saving.attached
                         THEN [targets EXCEPT
                                  ![c.doc].current = revision,
                                  ![c.doc].next = IF c.kind = "text"
                                                  THEN @ + 1 ELSE @,
                                  ![c.doc].text = saving.text]
                         ELSE targets
           /\ profile' = IF profile[c.doc] # 0
                         THEN [profile EXCEPT ![c.doc] = revision]
                         ELSE profile
           /\ Accept(c, revision)
           /\ Received(c, revision) \/ Failed(c)
    /\ SaveSettles

(* Mutant: a save that was not stored is acknowledged.                     *)
SaveFailsAcknowledged ==
    /\ saving # NoSave
    /\ Received(saves[1], saving.expected)
    /\ SaveSettles
    /\ UNCHANGED <<ledger, targets, profile, accepted>>

(* The blob cannot be published, or another revision was committed since   *)
(* the checks: nothing is stored.                                          *)
SaveFails ==
    /\ saving # NoSave
    /\ Failed(saves[1])
    /\ SaveSettles
    /\ UNCHANGED <<ledger, targets, profile, accepted>>

-----------------------------------------------------------------------------
(* The #createPending chain.                                               *)

Request(kind, d, revision) ==
    /\ requested < MaxOps
    /\ query = Quiet
    /\ requested' = requested + 1
    /\ ops' = Append(ops, [kind |-> kind, doc |-> d, revision |-> revision])
    /\ UNCHANGED <<ledger, live, targets, profile, accepted, saves, saving, op,
                   client, left, query, issued, crashes, acked>>

(* What the author may ask for.  Restoring a revision first saves the      *)
(* document; a created document gets a fresh identity.                     *)
RequestSome(d) ==
    \/ /\ client[d].installed
       /\ \E kind \in {"activate", "retire"} : Request(kind, d, 0)
    \/ /\ client[d].installed
       /\ client[d].flight = NoFlight /\ client[d].unsent = 0
       /\ \E revision \in 1 .. Current(d) : Request("restore", d, revision)
    \/ /\ live[d] = "absent"
       /\ op.doc # d /\ \A i \in DOMAIN ops : ops[i].doc # d
       /\ Request("create", d, 0)

(* The command's turn comes.  All but the creation of a document wait for  *)
(* the saves that are pending now, not for those that come later.          *)
OpBegins ==
    /\ op = Idle /\ ops # <<>>
    /\ ops' = Tail(ops)
    /\ op' = [kind |-> ops[1].kind, doc |-> ops[1].doc,
              revision |-> ops[1].revision, phase |-> "waiting",
              ahead |-> IF ops[1].kind = "create" THEN 0 ELSE Len(saves),
              expected |-> 0, rows |-> Idle.rows]
    /\ UNCHANGED <<ledger, live, targets, profile, accepted, saves, saving,
                   client, left, query, bounds, acked>>

Ready(kind) == op.kind = kind /\ op.phase = "waiting" /\ op.ahead = 0

OpAt(phase) == op' = [op EXCEPT !.phase = phase]

(* #reload reads the rows; their texts are materialized one by one after.  *)
ReloadBegins(rows) == op' = [op EXCEPT !.phase = "loading", !.rows = rows]

(* activateWorkspaceLocation; a rename or a move changes names and places  *)
(* that no save depends on, and reloads in the same way.                   *)
Activate ==
    /\ Ready("activate")
    /\ ReloadBegins(Rows)
    /\ UNCHANGED <<ledger, live, targets, profile, accepted, saves, saving, ops,
                   client, left, query, bounds, acked>>

RetireDocument ==
    /\ Ready("retire")
    /\ live[op.doc] = "live"
    /\ live' = [live EXCEPT ![op.doc] = "retired"]
    /\ ReloadBegins([Rows EXCEPT ![op.doc] = 0])
    /\ UNCHANGED <<ledger, targets, profile, accepted, saves, saving, ops,
                   client, left, query, bounds, acked>>

CreatePublishes ==
    /\ Ready("create")
    /\ OpAt("publishing")
    /\ UNCHANGED <<ledger, live, targets, profile, accepted, saves, saving, ops,
                   client, left, query, bounds, acked>>

CreateCommits ==
    /\ op.kind = "create" /\ op.phase = "publishing"
    /\ live' = [live EXCEPT ![op.doc] = "live"]
    /\ ledger' = [ledger EXCEPT ![op.doc] = <<InitialRevision>>]
    /\ ReloadBegins([Rows EXCEPT ![op.doc] = 1])
    /\ UNCHANGED <<targets, profile, accepted, saves, saving, ops, client,
                   left, query, bounds, acked>>

RestoreBegins ==
    /\ Ready("restore")
    /\ targets[op.doc] # NoTarget
    /\ OpAt("materializing")
    /\ UNCHANGED <<ledger, live, targets, profile, accepted, saves, saving, ops,
                   client, left, query, bounds, acked>>

(* The old text is there; only now is the current revision read.           *)
RestorePublishes ==
    /\ op.kind = "restore" /\ op.phase = "materializing"
    /\ op' = [op EXCEPT !.phase = "publishing",
                        !.expected = targets[op.doc].current]
    /\ UNCHANGED <<ledger, live, targets, profile, accepted, saves, saving, ops,
                   client, left, query, bounds, acked>>

(* Mutant: the target keeps the text from before the restore.              *)
RestoreCommitsKeepingText ==
    /\ op.kind = "restore" /\ op.phase = "publishing"
    /\ Expected(op.doc, op.expected)
    /\ LET text == TextOf(op.doc, op.revision)
           revision == Current(op.doc) + 1
       IN  /\ AppendRevision(op.doc,
                  [ledger[op.doc][op.revision] EXCEPT
                      !.kind = "restore", !.parent = op.expected, !.batch = 0])
           /\ targets' = [targets EXCEPT ![op.doc] =
                  [base |-> revision, current |-> revision, next |-> 0,
                   text |-> targets[op.doc].text]]
           /\ ReloadBegins([Rows EXCEPT ![op.doc] =
                                IF @ = 0 THEN 0 ELSE revision])
    /\ UNCHANGED <<live, profile, accepted, saves, saving, ops, client, left,
                   query, bounds, acked>>

RestoreCommits ==
    /\ op.kind = "restore" /\ op.phase = "publishing"
    /\ Expected(op.doc, op.expected)
    /\ LET text == TextOf(op.doc, op.revision)
           revision == Current(op.doc) + 1
       IN  /\ AppendRevision(op.doc,
                  [ledger[op.doc][op.revision] EXCEPT
                      !.kind = "restore", !.parent = op.expected, !.batch = 0])
           /\ targets' = [targets EXCEPT ![op.doc] =
                  [base |-> revision, current |-> revision, next |-> 0,
                   text |-> text]]
           /\ ReloadBegins([Rows EXCEPT ![op.doc] =
                                IF @ = 0 THEN 0 ELSE revision])
    /\ UNCHANGED <<live, profile, accepted, saves, saving, ops, client, left,
                   query, bounds, acked>>

(* A guard of the command or an await of it fails.                         *)
OpFails ==
    /\ \/ Ready("retire") /\ live[op.doc] # "live"
       \/ Ready("restore") /\ targets[op.doc] = NoTarget
       \/ op.phase \in {"materializing", "publishing", "loading"}
    /\ op' = Idle
    /\ UNCHANGED <<ledger, live, targets, profile, accepted, saves, saving, ops,
                   client, left, query, bounds, acked>>

Diverged(d) ==
    /\ op.rows[d] # 0
    /\ targets[d] # NoTarget
    /\ targets[d].current # op.rows[d]

Divergence == \E d \in Docs : Diverged(d)

(* The loop over the loaded documents stops at the first that diverged.    *)
Reached(d) == \A c \in Docs : c <= d => ~Diverged(c)

Kept(d) == IF targets[d] = NoTarget THEN FreshTarget(d, op.rows[d])
                                    ELSE targets[d]

ReloadEnds ==
    /\ op.phase = "loading"
    /\ op.kind = "activate" => op.rows[op.doc] # 0
    /\ profile' = op.rows
    /\ targets' = [d \in Docs |-> IF op.rows[d] # 0 /\ Reached(d)
                                  THEN Kept(d) ELSE NoTarget]
    /\ saving' = IF saving = NoSave THEN NoSave
                 ELSE [saving EXCEPT !.attached =
                          @ /\ targets'[saves[1].doc] # NoTarget]
    /\ query' = IF op.kind \notin {"retire", "restore", "create"} \/ Divergence
                THEN query
                ELSE [Quiet EXCEPT !.stage = "due",
                                   !.docs = IF op.kind = "create"
                                            THEN query.docs \cup {op.doc}
                                            ELSE Docs]
    /\ op' = Idle
    /\ UNCHANGED <<ledger, live, accepted, saves, ops, client, left,
                   bounds, acked>>

-----------------------------------------------------------------------------
(* The renderer reads the workspace again and replaces its queues: the     *)
(* profile and the sequences are answered by two calls.                    *)

QueryProfile ==
    /\ query.stage = "due"
    /\ query' = [query EXCEPT !.stage = "read", !.rows = profile]
    /\ UNCHANGED <<ledger, live, mainVars, client, left, bounds, acked>>

(* What the editor shows of the document.                                  *)
EditorText(q) ==
    q.text \cup (IF q.flight = NoFlight THEN {} ELSE q.flight.text)
           \cup ({q.unsent} \ {0})

(* The editor keeps its text, saved or not, when the revision it was       *)
(* opened with is still the current one.                                   *)
ShownText(d, row) ==
    IF client[d].installed /\ client[d].base = row THEN EditorText(client[d])
                                                   ELSE TextOf(d, row)

Replace(d, row) ==
    LET text == ShownText(d, row)
    IN  RegisterDocument(d, row, targets[d].next, text,
            targets[d].base = row /\ targets[d].text = text)

(* A replaced queue goes on with what it has not sent, unless a save of it *)
(* has failed.                                                             *)
GoesOn(q) == q.unsent # 0 /\ (q.flight = NoFlight \/ q.sent)

(* The projections must list the same documents, or the renderer keeps the *)
(* queues it has; a created document only needs to be in both.             *)
InstallProjection ==
    /\ query.stage = "read"
    /\ LET known == {d \in Docs : targets[d] # NoTarget}
           listed == {d \in Docs : query.rows[d] # 0}
           usable == IF query.docs = Docs
                     THEN known = listed \/ known = {}
                     ELSE query.docs \subseteq known \cap listed
           replaced == IF usable THEN query.docs ELSE {}
       IN  /\ client' = [d \in Docs |->
                             IF d \notin replaced THEN client[d]
                             ELSE IF d \in known THEN Replace(d, query.rows[d])
                             ELSE FirstQueue(d, 0)]
           /\ left' = left \cup {q \in {client[d] : d \in replaced} : GoesOn(q)}
    /\ query' = Quiet
    /\ UNCHANGED <<ledger, live, mainVars, bounds, acked>>

(* The application stops and is opened again.                              *)
Crash ==
    /\ crashes < MaxCrashes
    /\ crashes' = crashes + 1
    /\ Opened
    /\ UNCHANGED <<ledger, live, issued, requested, acked>>

-----------------------------------------------------------------------------
SaveStep == SaveRepeated \/ SaveRefused \/ SaveBegins \/ SaveCommits \/ SaveFails

OpStep ==
    \/ Activate \/ RetireDocument
    \/ CreatePublishes \/ CreateCommits
    \/ RestoreBegins \/ RestorePublishes \/ RestoreCommits
    \/ OpFails \/ ReloadEnds

Renderer == \E d \in Docs :
    \/ Edit(d) \/ SendText(d) \/ SendFormatting(d) \/ Resend(d)
    \/ RequestSome(d)

Next ==
    \/ Renderer
    \/ SendLeft
    \/ SaveStep
    \/ OpBegins
    \/ OpStep
    \/ QueryProfile
    \/ InstallProjection
    \/ Crash

Spec == Init /\ [][Next]_vars

(* The event loop of the main process runs every continuation that is due, *)
(* and the renderer's projection calls are answered.                       *)
Fairness ==
    /\ WF_vars(SaveStep)
    /\ WF_vars(OpBegins)
    /\ WF_vars(OpStep)
    /\ WF_vars(QueryProfile \/ InstallProjection)

FairSpec == Spec /\ Fairness

-----------------------------------------------------------------------------
(* Properties.                                                             *)

(* Every variable has the shape the code gives it.                         *)
TypeOK ==
    /\ ledger \in [Docs -> Seq(Revision)]
    /\ live \in [Docs -> {"absent", "live", "retired"}]
    /\ targets \in [Docs -> Target \cup {NoTarget}]
    /\ profile \in [Docs -> Nat]
    /\ accepted \in [Batches -> Nat]
    /\ saves \in Seq(Command)
    /\ saving \in Saving \cup {NoSave}
    /\ ops \in Seq([kind : {"activate", "retire", "create", "restore"},
                    doc : Docs, revision : Nat])
    /\ op \in Op
    /\ client \in [Docs -> Client] /\ left \subseteq Client
    /\ query \in Query
    /\ issued \subseteq Batches /\ requested \in Nat /\ crashes \in Nat
    /\ acked \in SUBSET Batches

(* A target that saves are checked against holds the text of the revision  *)
(* it calls current, even when a reload or a restore ran in between.       *)
TargetIsItsRevision ==
    \A d \in Docs : targets[d] # NoTarget =>
        /\ targets[d].current \in DOMAIN ledger[d]
        /\ targets[d].text = TextOf(d, targets[d].current)
        /\ targets[d].base <= targets[d].current

(* A text save that is stored, and sent again because its receipt was lost,*)
(* is answered with that receipt and stored no second time.  With an editor*)
(* state in another order of keys it is refused, and not stored either.    *)
LostReceiptIsRepeated ==
    [][saves # <<>> /\ saves[1].kind = "text" /\ SaveSettles =>
           \A i \in DOMAIN ledger[saves[1].doc] :
               ledger[saves[1].doc][i].batch = saves[1].batch =>
                   /\ UNCHANGED ledger
                   /\ SameEditorState(saves[1]) => Received(saves[1], i)]_vars

(* Every save is answered and every structure command ends: the chains     *)
(* never wait for each other in a circle.                                  *)
CallsEnd ==
    /\ \A d \in Docs : client[d].sent ~> ~client[d].sent
    /\ op # Idle ~> op = Idle

(* The workspace keeps the histories of its documents.                     *)
History == INSTANCE DocumentHistory WITH
    Edits <- Batches, history <- ledger, acked <- acked

HistoryIsKept == History!Spec

(* docs/poc-2-durable-change-batch.md:34 says a batch names the current    *)
(* durable revision its coordinates belong to.  A queue made from a fresh  *)
(* projection names as base the revision the runtime will compare it with. *)
FreshQueueBaseIsExpected ==
    [][query.stage = "read" /\ query.rows = profile /\ InstallProjection =>
           \A d \in query.docs :
               client'[d].installed => client'[d].base = targets[d].base]_vars

=============================================================================
