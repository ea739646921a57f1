# Verification of eum.studio

eum.studio is an Electron application for writing long manuscripts. The author
types into CodeMirror editors of the renderer process; the main process owns
the workspace on disk: a SQLite ledger of immutable revisions with their texts
in a blob store, or, in the configured runtime, an append-only journal that a
restart replays. The program's promise is the one of its README: the text the
author is told is saved is the text a restart finds.

This directory holds TLA+ models of the parts that keep that promise and of the
other parts where processes, windows, clocks and kills meet (the start of the
workspace, backups, the Pomodoro timer, plots and events), TLC configurations
that check them on small instances, and proofs about them that TLAPS checks.
Paths below are relative to the repository (`src/...` is its source directory);
line numbers refer to the commit modelled.

## 1. The system and its parts

The chain a keystroke passes through:

    ManuscriptEditor -> save queue -> preload bridge -> main process
        -> local workspace runtime -> SQLite ledger + blobs     (default)
        -> runtime coordinator -> SaveChangeBatch -> journal    (configured)

| Component | State it keeps | Operations | What is hard | What makes it correct |
|---|---|---|---|---|
| Save queue of the renderer (`renderer/persistence/manuscript-durable-save-queue.ts`, `manuscript-change-accumulator.ts`) | per document: accumulated change set, pending editor state and formatting, save in flight, timer, composition, next sequence | record, recordFormatting, compositionEnd, flush, flushForClose, timer, receipt, failure | edits, compositions and formatting during a save; lost receipts; retries; timers that are cancelled and must be armed again | no edit lost or applied twice; a retry is identical; "saved" is true; nothing waits without something that will send it |
| Local workspace runtime (`desktop/local-workspace-runtime.ts`) | targets of the documents, profile, accepted batches, two promise chains | saves of text and formatting; some 300 structure commands, which reload | saves interleave with every await of a structure command and of its reload | linear histories, receipts repeated, targets that are what they say, no deadlock of the chains |
| SQLite ledger (`platform/storage/node-sqlite-ledger.ts`) | records, revisions, current pointers | append with compare-and-set, materialize, record transactions | the pointer moves only from the revision the caller expects | append-only history |
| Blob store (`platform/storage/node-immutable-blob-store.ts`) | content-addressed files | publish, read, verify | exclusive creation, a kill between write and link | an address names one content |
| Close handshake (`desktop/main.ts`, `preload/index.ts`, `renderer/App.tsx`) | pendingCloseRequest, the request the preload script holds, the flushes in the renderer | close, listen, flush all, complete | the renderer may not listen yet; edits and compositions go on during the flushes | the window closes only over durable text; a request is answered |
| Journal saves and startup recovery (`application/persistence/*`, `platform/journal/*`, `desktop/manuscript-*.ts`) | journal bytes, heads per document, accepted batches, recovery candidate | save batch, append, sync, scan, replay, resolve at startup | torn frames, failed syncs, repeated frames, kills anywhere | what has a receipt survives a kill |
| Journal compaction (`application/persistence/compact-journal-into-revision.ts`, `platform/persistence/poc-journal-compaction-port.ts`) | content files, next journal generation, publication | prepare, materialize, publish by rename, reclaim, resolve | a failure or a kill at each step | old journal or whole publication, never neither |
| Renderer application state (`renderer/App.tsx`, `renderer/editor/ManuscriptEditor.tsx`) | runtime projection, tabs, panels | query, install projection, commands | two calls answer one projection while saves go on | queues start from the heads the runtime has |
| Resume checkpoints and anchors (`application/checkpoints`, `application/anchors`, `platform/checkpoints`) | checkpoint file with anchors into a revision | capture, publish, resolve | captured against a revision that moves on | a checkpoint names a durable revision |
| Opening the local workspace and storage migration (`openLocalWorkspaceRuntime`, `platform/storage/node-sqlite-migration.ts`) | schema version and receipts, identity row, rule sets and boards of every work | migrate step by step, create the tables, claim an identity, repair works | kills between the transactions; a second process; what was read before a transaction | each migration once; an open workspace is complete; a start is refused only for a reason |
| Backup and restore (`platform/storage/node-sqlite-backup.ts`, `desktop/local-workspace-backup-service.ts`) | staged directory, bundles, restored workspaces, status file | copy the database page by page, copy the blobs, write the manifest, publish; verify, stage, publish | saves during a backup, damage, kills, the author's own file commands | a bundle is a whole state no older than the request; a restore gives such a state; what a command finds at a place it leaves there |
| Pomodoro timer (`local-workspace-runtime.ts` 12200-12700 and 23300-23700, `App.tsx` 5095-5146) | policies and phases of a work, the window's projection | configure, pause, resume, note, stop, reconcile, query, restore at a launch | the window's clock races with the author; launches find phases in any state | one active phase; time is counted once; due phases are completed |
| Plots, events and their sources (`local-workspace-runtime.ts`, `App.tsx`) | plots, placements on a board, links, sources | create, retire, move, date; create, link, unlink | two flows of the window over one board; keys at their limit; retired documents | an order that only the moved plot changes; single primary links; a drop goes where it was shown |
| Fractional order keys (`domain/fractional-order-key.ts`) | none | key between two keys, rebalance | keys grow, keys below zero | strict order |
| Work structure: folders, works, episode order (`domain/writing.ts`) | rows of a tree | create, move, retire | one transaction per command | references resolve |
| Writing sessions, records and goals (`application/activity`) | counters per day | add, show | restarts | sums |
| Scenes, foreshadowing, lore, fragments, characters | records | create, update, retire | one transaction per command | references resolve |
| Publishing and mail | templates, collection schedule | schedule, collect | missed and repeated runs | a mail is taken once |
| Assistant, music, settings, legacy import, editor extensions, exports, probes | display state, remote calls, one-shot conversions | | | |

`PROJECT.json` lists the same components with their sources and status, and
under `hazards` what can go wrong in them, at its line.

## 2. Plan

The order follows the way of a keystroke to the disk. Done so far:

1. `SaveQueue`, then `SaveQueueProofs`: the queue is where most of the races
   of a document meet.
2. `WorkspaceRuntime` with `DocumentHistory`, the abstract specification it
   implements.
3. `CloseHandshake`: several queues, two processes and a window.
4. `ManuscriptJournal`: journal, recovery and compaction.
5. `FocusTimer`: the one part of the program that a clock drives.
6. `WorkspaceStartup`: opening, migrating and repairing the workspace, with
   kills and a second process.
7. `WorkspaceBackup`: backups and restores beside saves, faults and the
   author's file manager.
8. `StoryStructure` with `PlotOrder`, the abstract order its lane implements.
9. Proofs: `SaveQueueProofs`, `WorkspaceRuntimeProofs` (with the refinement of
   `DocumentHistory`), `CloseHandshakeProofs`, `FocusTimerProofs`,
   `WorkspaceStartupProofs`, `WorkspaceBackupProofs`, `StoryStructureProofs`
   (with the refinement of `PlotOrder`), `ManuscriptJournalProofs`. Every type
   invariant, safety invariant, action property and refinement of a passing run
   is a theorem.

To come, in this order:

10. `SaveQueue` composed with the targets of `WorkspaceRuntime`, so that
    compositions meet restores and retirements (`persistDocument` resolves at
    once during a composition).
11. The schedule of mail collection and its candidates; resume checkpoints;
    the exclusive creation of temporary files inside the blob store.

The modules are written for proofs as well as for TLC: parameters are
constants with a named assumption, one action stands for one operation,
invariants are conjunctions of named parts, and no module declares a RECURSIVE
operator. Bounds are constants named `Max...`, each used in one guard.

## 3. The modules

### SaveQueue

One document's queue between the editor and the save service.

| Model | Code |
|---|---|
| `queue` | `QueueDocumentState` (56-70) with its accumulator |
| `queue.composed`, `queue.txns` | the composed `ChangeSet` and `transactionCount` |
| `queue.inFlight` with `attempt`, `stored` | `inFlight` and its attempt promise; `stored` remembers whether the service has committed it |
| `text`, `format`, `ime` | the editor: text, formatting version, `view.composing` |
| `store` | what the service holds: text, formatting, next sequence, revision |
| `Record`, `RecordFormatting`, `CompositionEnd`, `Flush`, `ArmTimer`, `ContinueAfterReceipt`, `AcceptReceipt`, `AttemptFailed` | the methods of the same names; each operator maps a queue state to the state its synchronous body leaves |
| `ServiceStores`, `ServiceRepeatsReceipt`, `AttemptFails` | a save is stored, its receipt is repeated, it fails or its answer is lost |

A text is the set of its characters: a character is inserted and deleted at
most once, so a composed change set is a pair of sets, and "lost" or "applied
twice" shows as a missing or extra character. The second `flush` chained
behind an attempt (337-339) finds the work it asked for done, because
`flushRequested` was set; it is left out here and modelled in
`CloseHandshake`, where the caller waits for it. An attempt starts in a
microtask after `flush`; nothing can run between, so sending is part of the
flush.

### WorkspaceRuntime and DocumentHistory

The main process between the renderer's queues and the ledger. `saves` is the
`#savePending` chain and `saving` the save that is past its checks while its
blob is published; `ops` and `op` are the `#createPending` chain and the
running structure command, with a phase for every await at which saves can
run: `waiting` for the pending saves, `materializing` the old text of a
restore, `publishing` a blob, `loading` the texts of a reload. `targets`,
`profile` and `accepted` are the maps of the runtime, `ledger` and `live` the
database. `client` keeps of a queue what the runtime can see of it, `left` the queues
that were replaced while they still had edits to send, `query` is the
renderer's projection between its two calls.

Of the structure commands the model has those whose effect on saves differs:
activate (which stands for every command that only reloads), retire, create,
restore. A reload reads the rows before its first await and updates the maps
after the last one: `ReloadBegins` and `ReloadEnds`.

A text is the set of batches in it, and the program compares texts by
`Length` only: a batch of `Replacing` takes out as much as it puts in, so that
different texts may have one length and a batch made for the one may be
admitted on the other (`Admissible`, `applyChangeBatch`). A save carries the
text it was made for, so that the model can tell when that happens. The editor
state of a save is compared twice: with the length of the text it is stored
with (`Fits`), and, when a stored batch arrives again, as a string with the
canonical one that was stored (`SameEditorState`): a batch of `Unordered` has
its keys in another order.

When the renderer installs a projection, the editor keeps its text, saved or
not, if the revision it was opened with is still the current one (`ShownText`),
while the queue is a new one, with nothing to send and the sequence the runtime
names (`Replace`). The old queue goes on by its timer or its receipt
(`SendLeft`) under its old base and sequence. `fitted` is no variable of the
code: it marks a queue that was made with the base and the text of its target,
and the saves and revisions that come from it.

`DocumentHistory` is the promise: each document has an append-only history of
revisions, every edit is stored once, on top of the latest revision, before it
is acknowledged, and the editor state stored with it was made for the text it
is stored with (`editorText`), unless the queue it came from was not `fitted`. `HistoryIsKept` maps `ledger` to `history`, `acked` to
`acked`, and is checked as a property of `WorkspaceRuntime` and proved.
`LostReceiptIsRepeated` is about a stored batch that is sent again,
`TargetIsItsRevision` about what saves are checked against.

### CloseHandshake

Several documents, of whose queues only three counters are kept: edits
recorded, drained, acknowledged. `pending` is `pendingCloseRequest`
of main.ts, `held` the request the preload script keeps while nobody listens,
`wire` a message between the processes (there is at most one: a request or
its result), `run` and `flushes` the promises of the renderer's listener.
`flushes[d]` says what the promise of `flushForClose` waits for; `"again"` is
the flush that was chained behind a save in flight and flushes once more.
`atRequest` and `interrupted` are history variables of the properties.

Not in the model: the close handler lets the window close without a request
while the catalog can create the first work (5978-5984, there is no text
then), and a window that is created again starts with no pending request.

### ManuscriptJournal

`journal[g]` holds the frames of the source and of the next generation:
numbers of batches, or `Torn`; `synced[g]` how many survive a kill for sure.
`content`, `nextCreated`, `temporary`, `publication` are the files of a
compaction. `startup` is how the last launch was resolved, `targets` and
`accepted` are the maps of `SaveChangeBatch`, `calls` its promise chain,
`append` the await the first call is at, `phase` the await an apply is at. The
window's queues are kept as head and attempt.

Assumptions, all from the contracts of the profiles and ports: one baseline
and one compaction of it; the caller keeps the apply profile once it is
published and gives fresh paths before; a kill may lose or tear frames that
were not synced, never synced ones or a rename (the documents disclaim power
loss, and directory entries are not synced); the window is loaded again only
when the startup is clean and nothing is being applied. Batches have
equal lengths, the case in which the length check of `applyChangeBatch` tells
least. Colliding checksums, damaged content files and wrong profiles are not
modelled.

### FocusTimer

The timer of one work. `policies` and `cycles` are the rows of its focus
policies and phases, `now` is `Date.now()`. The author's commands, the
window's reconciliation and its query wait on one promise `chain`; `call`
keeps what each of the three callers has sent and what came back, `view` is
the projection the window shows, `disposed` says that React cleaned up the
effect whose call is still on the way. `RunConfigure`, `RunPause`,
`RunResume`, `RunNote`, `RunStop`, `RunReconcile` and `RunQuery` are the
commands as the runtime executes them; `AnswerArrives` and `ReconcileArrives`
bring the answers to the window; `ClockTick` is its interval, which asks to
reconcile when the phase it shows is due. `Ends` and `Launch` end and start
the application; `Restored` is `restoreRunningPomodoroCycles`.

Time is a number of units. A phase counts in `ran` what it really ran, so that
`TimeIsCountedOnce` can compare that with the target; the code keeps only
deadlines and what remains. `PhasesFollowPlan` reads the order of the phases off
the rows, `LaunchStopsTimers` is the safe stop the plan document promises.

### WorkspaceStartup

What `openLocalWorkspaceRuntime` does to the database, by any number of
processes at once. `file`, `version` and `applied` are the tables, the
identity row and the receipts of the migrations; `works`, `rules`, `boards`
and `placed` the records a work must have. `pc` goes through `migrate`,
`upgrade`, `schema`, `tables`, `identity`, `claim`, `rules`, `addRules`,
`boards`, `addBoard` to `running`: there is one stage for each read and for
each write transaction, and `seen` is what the read found. A process may end
(`Ends`), by itself or killed, between any two stages, and start again; a
running one may create works. SQLite lets one process write at a time, so a
write transaction is a step, and what `BEGIN IMMEDIATE` checks again is checked
again in it.

`met` remembers who ran beside another process: `ReadyMeansComplete` is about
those who did not. With two processes the repair of boards can double them,
which is the run `startup_boards`.

### WorkspaceBackup

`ledger` and `blobs` are the workspace, `save` a save between its blob and its
revision, `files` the directories the author may choose, `staging` the owned
directory a command fills, `status` the status file. A backup goes through
`begin` (it waits for the pending save), `snapshot` (the steps of
`sqlite.backup`), `copy` (one blob after the other), `publish` (the place is
looked at again), `rename` and `status`; a restore through `begin` (manifest),
`database`, `blobs`, `stage` (the new workspace is written), `publish`, `rename`,
`status`; the author may replace the bundle between any two of them. Beside them
run saves, which succeed or fail; `Killed` removes nothing but the process;
`SpoilBlob` and `SpoilEntry` damage what was written; `AuthorMovesFiles` removes
what is at a place or puts something there.

`sqlite.backup` reads through a connection of its own, 64 pages at a time, and
starts again when the connection of the saves has committed since its last step:
`CopyPages` is such a step, and a database of more revisions takes more of them.
`renameNoReplace` (1978-1991) awaits a look at the place and then awaits the
rename; they are two actions, `FindsPlaceFree` and `Rename`. The rename of a
directory replaces an empty directory on POSIX, a file on Windows, and fails on
anything else: `GivesWay` says which the author has put there, and `late`, which
is no variable of the code, that it came after the look. Checksums
and canonical bytes are abstracted to "the bytes that were written" (`bad`,
`spoiled`): what the code verifies by digest, the model reads off that set.

### StoryStructure and PlotOrder

The plots and events of one work. `placements` gives each plot of the default
lane its fractional order key (a reduced fraction, compared, mediated and
bounded in length as `fractional-order-key.ts` does) and its revision, `board`
is the revision of the board; `events`, `links` and `sources` are the rows of
events, their links to plots and the documents they quote. The window has a
flow for plots and one for events; each is in `call`: `sent`, `answered`, then
`refresh` and `read`, the second call that fetches the event rail. Both flows
write `view`, the board the window shows, so one may show a board older than
the other's. A drop is sent with the order the author saw (`shown`), which the
runtime never gets: `MovesGoWhereShown` says that the revisions it does get are
enough.

`PlotOrder` is the promise of the lane: an order to which plots are added at
the end and in which a move changes the place of one plot. `OrderIsKept` maps
the lane in the order of its keys to `order`, over mediants, keys below zero
and rebalancing at the length limit.

## 4. What the runs check

Every passing run but `story` uses the fair specification, so that safety,
action and liveness properties are about the same behaviours. Sizes are
distinct states.

| Run | Size | What it shows |
|---|---|---|
| `save_queue` | 429,496 | three characters, two formatting changes, batches of two transactions: `TextAccounted`, `SavedTextIsDurable`, `SentSavesAreAcceptable`, `NoOrphanedWork`, `HeldTextIsComposed`, `RetryIsIdentical`, `WorkSettles` |
| `workspace` | 317,242 | a stored and a created document, two edits, two structure commands, a restart: `LostReceiptIsRepeated`, `TargetIsItsRevision`, the refinement `HistoryIsKept`, `CallsEnd` |
| `close` | 694,868 | two documents, three edits each, two requests: `ClosedMeansFlushed`, `CloseIsAnswered` |
| `journal` | 135,755 | two documents, three batches, a failure, two kills, a window reload: `RecoveryIsExact`, `CompactionIsSafe`, `CallsEnd` |
| `focus` | 119,667 | two plans, one timer, two launches: `OneActivePhase`, `PhasesFollowPlan`, `TimeIsCountedOnce`, `LaunchStopsTimers`, `DuePhaseIsCompleted` |
| `startup` | 87,251 | two processes, two works, every version that may be found: `StepsRunOnce`, `ReadyMeansComplete`, `RefusalsHaveCause`, `StartsEnd` |
| `backup` | 690,198 | two texts, two places, two revisions, two commands, two faults: `PublishedBundleIsWhole`, `RestoredIsWhole`, `NothingIsOverwritten`, `CommandsEnd` |
| `story` | 1,001,632 | three plots, two events, a document, four commands of two flows: `LinksAreSingle`, `MovesGoWhereShown`, the refinement `OrderIsKept` |

Each also checks the module's `TypeOK`. `CHECK_DEADLOCK FALSE` is set in all
but the save queue's: the bounds on edits, commands, starts and kills end a
behaviour when everything is at rest, and a closed window is a final state. The
save queue never stops, `ExplicitFlush` being always possible. `story` takes
plots and events as symmetric; it checks no liveness, for which symmetry would
not be sound.

Every property of a passing run has a mutant in `PROJECT.json`: a definition
with a plausible bug under which TLC finds the property violated. The mutated
forms stand before the definitions they replace.

The other runs show disagreements between the code and what its own documents
or assertions say.

| Run | What happens |
|---|---|
| `save_queue_formatting` | Type a character and delete it: the composed change is empty, but `transactionCount` is 2. Make a formatting change: `recordFormatting` keeps it as the editor state of those transactions. `flush` drains the empty change, has no `pendingFormattingJson` to send, and says "saved": the formatting is not stored (queue 250-271, 353-400). |
| `workspace_base` | Save text, then run a command that reloads: `#reload` keeps the target with the base revision of its opening, while the projection lists the current one. The renderer's new queue sends the current one as base and every text save is refused as a conflict until a restart (runtime 20035, 18999-19003; App 2612). |
| `startup_boards` | Two processes start together after an upgrade. Both count the boards of a work outside the transaction that adds one, both add a default board, and every later start throws "more than one default sequence PlotBoard" (runtime 24000-24010). |
| `story_sources` | Retire a document an event quotes, then create the event of its plot a second time: the projection of the event throws "EventSource document is outside its Work" instead of returning it; so does the event rail of the whole work (runtime 13002). |

### Further limits met while modelling

The properties above say exactly how far a promise reaches; these are the places
where it ends.

- A text save whose receipt was lost is answered with that receipt only if the
  editor wrote the keys of its editor state in the order in which the runtime
  stores them. The runtime keeps the canonical string (19010-19017, 19048) and
  compares it with the string that is sent again (18980); the styles of the
  editor are merged in the order in which the author set them
  (`manuscript-formatting-state.ts` 340-410), so that italic before bold is
  another string. The retry is then refused with "Batch identity conflict"
  until a restart, although `docs/poc-2-durable-change-batch.md:83` calls the
  same batch with the same bytes an idempotent duplicate.
  `LostReceiptIsRepeated` says which retries are answered, and that the others
  are not stored either.
- A projection that is installed while edits are unsaved, and whose revision is
  the one the editor was opened with, leaves the text in the editor and gives
  the document a queue that knows nothing of it. The old queue may still send it.
  If it does not (its save has failed), or is later than the new queue, the
  saves of the new queue count their changes from a text the target does not
  have: most are refused, but `applyChangeBatch` (18, 36) compares lengths only
  and admits an edit whose text has the right length by chance. The text that is
  stored is then the target's with the change at the editor's coordinates, its
  editor state is for another text. `HistoryIsKept` excepts the saves of such
  queues (not `fitted`) from what it says of the editor state; without the
  exception TLC finds it violated. What is typed while a document has no queue at
  all is not modelled.
- A backup copies the database anew whenever a save commits between two of its
  steps. A workspace that commits more often than the copy takes holds its backup
  back for good: `CommandsEnd` is about saves that stop committing. They may go
  on being refused.
- What the author puts at the place of a backup or of a restore between the last
  look at it and the rename is replaced if the system's rename replaces it.
  `NothingIsOverwritten` names this as its exception.
- A reload during which a save commits asserts that nothing diverged, after
  `#documentTargets.clear()`: the command is reported as failed though it was
  committed, and the documents after it have no target (runtime 20013-20033).
  `TargetIsItsRevision` is about the targets there are.
- What is typed after a document's own flush is lost when the window closes: the
  listener awaits the activity saves and the resume capture and never looks at
  the queues again (App 2812-2855). `flushForClose` looks for a composition
  once: one that begins while the save in flight is awaited makes the chained
  `flush` resolve at once (queue 319-341). `ClosedMeansFlushed` is about edits
  of before the request in documents no such composition interrupted.
- A write that fails in the middle of a frame leaves its bytes; later saves are
  appended behind them, synced and acknowledged, and the scan of a restart stops
  in front of them (append-only-journal 46-66). A sync that fails behind a whole
  frame, followed by a window reload, makes the next batch take the same place:
  it is acknowledged, and the replay stops at it (manuscript-runtime-coordinator
  233, replay-journal 160-230). A kill in the middle of an append to the
  generation after a compaction makes the whole publication count as invalid
  (poc-journal-compaction-port 725). `RecoveryIsExact` names these three as
  its exceptions.
- A formatting save whose receipt was lost names the revision before its own, is
  refused for ever, and holds the document's later saves back. With a configured
  journal formatting saves always fail (coordinator 263-270) and do the same.
  `SentSavesAreAcceptable` and `WorkSettles` except the first.
- A tick or a new projection that arrives while a due phase is being reconciled
  makes the window ignore the answer (App 5096-5146). The phase is then completed
  in the ledger and still running in the window: every later tick asks to
  reconcile a phase that is over, is rejected, and the window stays where it is
  until the author's next command, which `plan.md:304` does not expect.
  `DuePhaseIsCompleted` is about the ledger's side.
- A kill between the creation of the tables of a new workspace and its identity
  row leaves a file every later start refuses as ambiguous (ledger 8319);
  `RefusalsHaveCause` counts it as a cause.

### Bounds

- Save queue: `MaxTxns = 2` makes full batches happen with three characters,
  while a third edit is made during the save; deletions double the edits.
  `MaxSequence = 4` is reached, so that the exhausted sequence is met;
  two formatting changes let one be in flight and one pending. A retry needs
  no bound: attempts fail any number of times.
- Workspace: one save suffices to overtake a reload or a restore, a second to
  be refused or repeated after it; one edit leaves the length as it is and one
  does not, one has its keys in another order; two commands, one overlapping the
  other's projection. The created document gives two documents whose saves share the
  chain.
- Close: two documents, so that one can fail or compose while another is
  flushed; two requests, so that an answer can meet a later request; three
  edits: before, during and after the request.
- Journal: three batches are enough for a frame before, at and behind the
  damage, in one or two documents; the second kill is the one after a
  recovery.
- Focus: work and break of one unit and four units of time let a plan of two
  work phases run to its end, with a pause; the second plan has a phase of two
  units, so that it can be left in its middle, and continues by hand. Two
  launches: one may find a running phase, the next what the first left.
- Startup: three versions with the boards in the middle one, so that a
  migration lies before and one behind it, and every state a file may be found
  in, from no file to the next release's; four starts let two processes be
  killed and come back.
- Backup: the second revision is the one a backup may miss or see, two
  commands let a restore read the bundle of a backup or race for its place,
  two faults let the author replace what was damaged, or put something in the way
  before and after a command looks. A copy takes up to three steps, so that either
  save may set it back.
- Story: three plots have a gap between two others and one at each end; of the
  two limits of a key's length, three is outgrown by every key below zero, so
  that lanes are rebalanced within four commands, and four is not, so that
  mediants meet such keys.

### Fairness

- Queue: the timer fires (browser), an IME composition ends, the service
  answers a sent save with a receipt or a failure (`ipcRenderer.invoke`
  settles). The author is never obliged to do anything, so a failed save waits
  for the retry the interface offers (`Stalled`).
- Workspace: every continuation that is due runs, per chain: Node runs
  microtasks and I/O completions of each chain; success is not assumed, a
  failing step is a step.
- Close: saves settle, messages between the processes arrive, the renderer
  comes up, awaited promises settle.
- Journal: the promises of a save and of an apply settle. Nothing forces a
  crash or a launch, hence "or the process is down" in `CallsEnd`.
- Focus: the clock and the window's interval go on, calls on the chain run in
  turn, answers arrive. The author and launches are free.
- Startup: a process that is opening the workspace goes on (`Opens`), per
  process; a kill is never forced, and only delays.
- Backup: the pending save and the running command go on, successfully or not.
  Saves may be refused without end; commits are bounded by `MaxRevisions`, and
  without that bound `CommandsEnd` would not hold (see the limits above).

## 5. What is proved

Eight modules of proofs hold for every value of the constants. The only
assumptions are the `ConstantsAssumption` of the modules: bounds are naturals,
null values and markers differ from what they stand beside, a batch has at
least one transaction, phases last at least one unit, first lanes repeat no
plot. All
follow one pattern: an inductive invariant in named parts, a lemma for what
many actions share, one step per action, and the listed property from the
invariant. None of the properties is inductive by itself.

**SaveQueueProofs**: `TypeCorrect`, `TextIsAccountedFor`,
`SavedMeansDurableText`, `EverySentSaveIsAcceptable`, `NoWorkIsOrphaned`,
`OnlyCompositionsHoldText`, `RetriesSendTheSame`, for every set of characters
(also infinite), every policy and any number of edits, failures and retries. `TextAccounted` needs
that inserted characters are fresh for the base text, and that what is
accumulated is disjoint from it; `SavedTextIsDurable` needs that `"saved"`
excludes pending work, which a receipt keeps only because of what the save in
flight was made of; `NoOrphanedWork` needs that a composition only holds a queue
that has text. The invariant is

    IInv == TypeOK /\ Kept(queue, store, text, used) /\ (queue.composing => ime)
    Kept == QueueOK /\ Settled /\ Accounts

`QueueOK` is what the queue's fields say of one another, `Settled` what no
operation may leave behind, `Accounts` what the queue owes to the editor and
the store. `Settled` is broken inside operations (after `CancelTimer`, say), so
it is not a premise of the lemmas of the inner operators and a conclusion of
those of the outer ones. `RetriesSendTheSame` is about steps: `Carries` says
that a queue still holds the batch another had in flight, and each operator gets
a lemma that the queue it returns `Carries` the one it was given.

**WorkspaceRuntimeProofs**: `TypeCorrect`, `TargetsAreRevisions`,
`LostReceiptsAreRepeated` and `HistoriesAreKept`, the refinement of
`DocumentHistory`. The checks of a save compare a base revision, a sequence and
two lengths, and never a text, and lengths tell little: that the editor state
stored with a text is nevertheless its own needs an argument. A revision is
`OnLine` with a base and a sequence when only saves lie between the base and it,
and as many of them are text saves as the sequence says; all revisions on one
line have one text (`OnLineText`), because formatting saves keep the text and
each text save advances the sequence. A queue is `InTune` when its text is the
one on its line, and a command `Tuned` when the batch extends that text; this
holds of the queues that were `fitted` when they were made, and every operation
keeps it: a reload with the rows it read, a restore with the old revision, a
restart with the current one. Of the other queues the invariant claims no text,
only that their numbers are good. `Held` are the edits typed and not yet sent, in
a window's queue or in one that was replaced: nothing has been stored under their
numbers (`Unused`), so no edit is stored twice. For the receipts the invariant
adds that a stored batch is remembered as its revision. In the refinement
`SaveCommits` is a `Save` or `Format`, `SaveRepeated` an `Acknowledge`,
`CreateCommits` an `Open`, `RestoreCommits` a `Restore`; all else stutters.

**CloseHandshakeProofs**: `TypeCorrect` and `ClosingLosesNothing`
(`ClosedMeansFlushed`). The property is about a moment long after the renderer
took the request: `OneRequest` says that the request is at one place at a time,
so that nothing begins a second run of flushes, `FlushOK` what each flush waits
for, `AnswerOK` that the answer stays true on its way.

**FocusTimerProofs**: `TypeCorrect`, `OnlyOnePhaseIsActive`, `PhaseTimeAddsUp`,
`LaunchLeavesNothingRunning`, `TimersFollowTheirPlan`. `PhaseOK` says of a phase
what its fields mean and that its time adds up; each of `Completed`, `Paused`,
`Resumed`, `Stopped` keeps it (one lemma each). A command replaces the active
phase, completes it with at most one successor, or begins a timer (`StoreStep`).
That phases follow their plan is a statement about the phases before each phase
(`PlannedAt` counts them, and the work phases among them): a replaced phase
keeps its kind, so nothing before or after it changes, and a successor is
counted from the phases the completed one was counted from. The active phase is
the last of its timer, so no phase of the same timer comes between the two.
`TypeCorrect` rests on `ChainOK`: a caller waits exactly while its call is
under way, and then it is in the promise chain once, so that answering a call
takes one place out of the chain and leaves every other caller waiting. `WindowOK`
adds what the window shows and which answers it got, with their types.

**WorkspaceStartupProofs**: `TypeCorrect`, `MigrationsAreMadeOnce`,
`OpenedAloneIsComplete`, `RefusalsAreJustified`. `ProcessOK` holds of every
process, `AloneOK` (what it read is still so) of one that has met no other, and
`Meetings` says that two open processes have met. `Since(v)` counts the
migrations made since version `v` was found.

**WorkspaceBackupProofs**: `TypeCorrect`, `BundlesAreWhole`,
`RestoredStatesAreWhole`, `CommandsOverwriteNothing`. The ledger only grows, so
a prefix of it stays one (`Prefix`), and a copy that is set back begins with the
ledger of that moment; `StagingOK` says what the staged directory
holds at each stage, `CommandOK` that a command is not ahead of the ledger,
`FilesOK` that a bundle's manifest lists a prefix whatever became of its other
entries. That a command overwrites nothing it saw needs one thing more,
`FreeOrLate`: what is at the place of a command that is about to rename was put
there since it looked.

**StoryStructureProofs**: `OnePrimaryEach` (`LinksAreSingle`), `TypeCorrect`,
`LaneIsOrdered` (`OrderIsKept`, the refinement of `PlotOrder`),
`DropsLandWhereShown` (`MovesGoWhereShown`) and `KeyIsBetween`. The two rules on
primary links are kept by different guards; the invariant `Inv` adds that links
and commands on the way name only plots and events that exist (`LinksOK`,
`CommandsOK`). For the lane,

    IInv == Inv /\ LaneOK /\ StoryOK /\ WindowOK

The model reads the lane off the keys by counting, for each plot, the keys below
its own. `IsLane(s, pl)` says instead that `s` has the placed plots and that the
keys increase along it, and `LaneIsUnique` that such a sequence is the lane:
along it, the plots with lower keys are those of the places before. So a command
is proved by showing what it does to a sequence (`LaneAppended`, `LaneMoved`,
`LaneRebalanced`, `LaneKept`). `KeyIsBetween` gives the keys: a mediant lies
between its neighbours as products of integers compare, and reducing it changes
nothing, because the common divisors of its terms have a greatest one. A moved
lane has the key between its neighbours whether that key is stored or is too
long, so the rebalanced lane is the same sequence with the numbers of its places
for keys. `WindowOK` says what may be shown (`BoardFits`) and sent
(`CommandFits`) of a board that has changed since: plots that are still placed,
and exactly the lane and one of its gaps if the revision of the board is still
the same. The runtime compares that revision, so a move it accepts was aimed at
the lane it finds; the neighbours it gets name one gap, as no plot is twice on
the lane.

**ManuscriptJournalProofs**: `TypeCorrect`, `RecoveryExact` (`RecoveryIsExact`)
and `CompactionSafe` (`CompactionIsSafe`). What a replay returns is defined by
recursion over the journal. The induction theorems of the library take an
operator for the statement, so the module proves induction for naturals and for
sequences with a set in its place, from the well-founded order of the finite sets
(`LeastNatural`, `SequenceInduction`), and with it that a replay which
appends a frame is the replay before it and one step. The invariant is about
every first part of the journal, because a kill may leave any of those that
hold the synced frames: `JournalOK` (`InOrder`) says that the replay of each
comes to texts that were written, and that a frame at which one stops is
`Blocked`, damaged or in the place of another one before it, so that no other
replay goes past it either. On top of it, `HeadsOK` says that what the profile
and the runtime hold of a document is a written text, `QueuesOK` that a window's
queue is not ahead of the runtime, `CallsOK` that the calls waiting in the chain
are on the runtime's head or on an older one, `SessionOK` (`OneAhead`) that the
journal is at the runtime's head or one unconfirmed batch ahead of it, and
`AckedOK` that what has a receipt is synced in the journal (`Kept`), in a
published content file (`Published`) or behind a frame at which the replay of
the source stops (`Hidden`). `ContentsOK`, `PublicationOK` and `PhaseOK` say
what is on disk at each await of a compaction: a publication names only whole
content files, and what is renamed is what the journal came to.

Only model-checked: liveness (`WorkSettles`, `CallsEnd` of the workspace and of
the journal, `CloseIsAnswered`, `DuePhaseIsCompleted`, `StartsEnd`,
`CommandsEnd`), which is out of the prover's reach: it knows neither fairness
nor `ENABLED`. The four properties of the runs that expect a violation
are false, so there is nothing to prove of them.

## 6. What is not modelled

- Contents of texts, formatting and editor states; argument parsing; the
  layout of frames and checksums; SQL, that of the migrations included.
- The structure commands that only keep records, and the components marked
  `not_modelled` in `PROJECT.json`, each with its reason there.
- Power loss (the repository's documents exclude it), damaged media outside
  backups, a clock that steps back.
- A renderer that is loaded again between a close request and its answer: the
  main process then waits for good, see the hazard at `desktop/main.ts:5986`.
- Formatting in the configured runtime, which refuses it.
- Timer: `startFocusCycle`, which the window never calls, and its
  `stopFocusCycle`; switching works; texts of notes; music that follows a phase.
- Plots and events: replacing, linking or retiring a single source,
  `linkPlotThreadSource`, texts, scenes, the window's initial load.
  `createPlotFromEvent` runs without a window that waits for it.
- Backups: the integrity report, and the cleanup of orphaned blobs, which no
  code calls.
- Opening: reading the first projection, the settings of the database.
- Assistant, music, publishing, settings, legacy import, probes: they write
  no manuscript text by themselves, or run once and alone.
