--------------------------- MODULE WorkspaceBackup ---------------------------
(***************************************************************************)
(* Backups of the local workspace: a bundle is staged beside its final     *)
(* path, with a copy of the database that is made page by page and the     *)
(* blobs that copy needs, and published by a rename; a restore verifies a  *)
(* bundle, stages a new workspace and publishes that                       *)
(* (node-sqlite-backup.ts, local-workspace-backup-service.ts).             *)
(*                                                                         *)
(* Saves go on meanwhile: each publishes the blob of its text              *)
(* (node-immutable-blob-store.ts) and then commits a revision that refers  *)
(* to it.  The author may move, remove or create directories, disks may    *)
(* damage what was written, and the application may be killed anywhere.    *)
(***************************************************************************)
EXTENDS Naturals, Sequences, Functions

CONSTANTS
    Contents,      \* texts of revisions
    Places,        \* directories the author may choose
    MaxRevisions,  \* bound on the revisions
    MaxCommands,   \* bound on the backups and restores asked for
    MaxFaults,     \* bound on kills, damage and the author's own file commands
    None

Entries == {"database", "manifest", "blobs"}

(* A directory: what it is, the revisions in its database, the blobs in    *)
(* it, the revisions its manifest lists, and the entries whose bytes are   *)
(* not those that were written.                                            *)
Directory == [kind : {"bundle", "workspace", "other", "replaceable"},
              revisions : Seq(Contents),
              blobs : SUBSET Contents, manifest : Seq(Contents) \cup {None},
              bad : SUBSET Entries]

ASSUME ConstantsAssumption ==
    /\ None \notin Contents /\ None \notin Places
    /\ None \notin Directory /\ None \notin Seq(Contents)
    /\ MaxRevisions \in Nat /\ MaxCommands \in Nat /\ MaxFaults \in Nat

VARIABLES
    ledger,    \* the committed revisions, by their text
    blobs,     \* texts whose blob is at its address
    spoiled,   \* those of them whose bytes were damaged
    save,      \* the save in flight
    files,     \* what is at each place
    command,   \* the backup or restore in progress
    staging,   \* the directory it fills
    status,    \* the status file: the last verified backup
    commands,  \* commands asked so far
    faults,    \* faults so far
    late       \* no variable of the code: the author put something at the
               \* place of the command after it last looked there

workspace == <<ledger, blobs, spoiled>>
operation == <<command, staging>>
notes == <<commands, faults, late>>
vars == <<workspace, save, files, operation, status, notes>>

NoSave == [stage |-> "idle", text |-> None]
NoCommand == [stage |-> "idle", kind |-> "backup", from |-> None, to |-> None,
              asked |-> 0, behind |-> FALSE, waits |-> FALSE, pages |-> 0]

Empty(kind) == [kind |-> kind, revisions |-> <<>>, blobs |-> {},
                manifest |-> None, bad |-> {}]

(* What the author may keep at a place: the rename of a directory replaces *)
(* some of it (an empty directory on POSIX, a file on Windows) and fails   *)
(* on the rest.                                                            *)
Foreign == {Empty("other"), Empty("replaceable")}

GivesWay(directory) == directory.kind = "replaceable"

-----------------------------------------------------------------------------
Init ==
    /\ ledger = <<>> /\ blobs = {} /\ spoiled = {}
    /\ save = NoSave
    /\ files = [p \in Places |-> None]
    /\ command = NoCommand /\ staging = None
    /\ status = None
    /\ commands = 0 /\ faults = 0 /\ late = FALSE

-----------------------------------------------------------------------------
(* Saves: the blob first, then the revision.                               *)

(* Mutant: the revision is stored before its blob.                        *)
SaveBeginsPublished ==
    /\ save.stage = "idle"
    /\ Len(ledger) < MaxRevisions
    /\ \E c \in Contents : save' = [stage |-> "commit", text |-> c]
    /\ UNCHANGED <<workspace, files, operation, status, notes>>

SaveBegins ==
    /\ save.stage = "idle"
    /\ Len(ledger) < MaxRevisions
    /\ \E c \in Contents : save' = [stage |-> "publish", text |-> c]
    /\ UNCHANGED <<workspace, files, operation, status, notes>>

(* A command that waits for this save goes on.                             *)
SaveEnds(stored) ==
    /\ save' = NoSave
    /\ command' = [command EXCEPT !.waits = FALSE, !.behind = FALSE,
                       !.asked = IF stored /\ command.behind THEN @ + 1 ELSE @]

SavePublishes ==
    /\ save.stage = "publish"
    /\ save.text \notin spoiled
    /\ blobs' = blobs \cup {save.text}
    /\ save' = [save EXCEPT !.stage = "commit"]
    /\ UNCHANGED <<ledger, spoiled, files, operation, status, notes>>

SaveCommits ==
    /\ save.stage = "commit"
    /\ ledger' = Append(ledger, save.text)
    /\ SaveEnds(TRUE)
    /\ UNCHANGED <<blobs, spoiled, files, staging, status, notes>>

(* Mutant: a save that failed keeps commands waiting.                     *)
SaveFailsUnreleased ==
    /\ save.stage \in {"publish", "commit"}
    /\ save' = NoSave
    /\ UNCHANGED <<workspace, files, operation, status, notes>>

(* The blob cannot be published or verified, or the revision conflicts;    *)
(* a blob that was published stays.                                        *)
SaveFails ==
    /\ save.stage \in {"publish", "commit"}
    /\ SaveEnds(FALSE)
    /\ UNCHANGED <<workspace, files, staging, status, notes>>

-----------------------------------------------------------------------------
(* A command begins when those before it have ended, and waits for the     *)
(* save that is pending then.                                              *)

(* Mutant: a backup does not wait for the pending save.                   *)
AskedNow(kind, from, to) ==
    [NoCommand EXCEPT !.stage = "begin", !.kind = kind, !.from = from, !.to = to,
                      !.asked = Len(ledger), !.behind = save.stage # "idle"]

Asked(kind, from, to) ==
    [NoCommand EXCEPT !.stage = "begin", !.kind = kind, !.from = from, !.to = to,
                      !.asked = Len(ledger), !.behind = save.stage # "idle",
                      !.waits = save.stage # "idle"]

Ask ==
    /\ command.stage = "idle"
    /\ commands < MaxCommands
    /\ commands' = commands + 1
    /\ \/ \E to \in Places : command' = Asked("backup", None, to)
       \/ \E from, to \in Places : command' = Asked("restore", from, to)
    /\ UNCHANGED <<workspace, save, files, staging, status, faults, late>>

At(kind, stage) ==
    /\ command.kind = kind /\ command.stage = stage
    /\ ~command.waits

Goes(stage) == command' = [command EXCEPT !.stage = stage]

(* Every error removes what was staged and rejects the command.            *)
Rejected ==
    /\ command' = NoCommand
    /\ staging' = None
    /\ UNCHANGED <<workspace, save, files, status, notes>>

Aborts ==
    /\ command.stage \notin {"idle", "status"} /\ ~command.waits
    /\ Rejected

-----------------------------------------------------------------------------
(* A backup.                                                               *)

BackupBegins ==
    /\ At("backup", "begin")
    /\ files[command.to] = None
    /\ staging' = Empty("bundle")
    /\ Goes("snapshot")
    /\ UNCHANGED <<workspace, save, files, status, notes>>

(* One step of sqlite.backup copies some pages of the database, through a  *)
(* connection of its own.  When the connection of the saves has committed  *)
(* since the step before, copying starts again.  The longer the database,  *)
(* the more steps it takes.                                                *)
CopyPages ==
    /\ At("backup", "snapshot")
    /\ staging' = [staging EXCEPT !.revisions = ledger]
    /\ LET pages == IF staging.revisions = ledger THEN command.pages + 1 ELSE 1
       IN  command' = IF pages > Len(ledger)
                      THEN [command EXCEPT !.stage = "copy", !.pages = 0]
                      ELSE [command EXCEPT !.pages = pages]
    /\ UNCHANGED <<workspace, save, files, status, notes>>

Missing == Range(staging.revisions) \ staging.blobs

CopyBlob ==
    /\ At("backup", "copy")
    /\ \E c \in Missing :
          /\ c \in blobs \ spoiled
          /\ staging' = [staging EXCEPT !.blobs = @ \cup {c}]
    /\ UNCHANGED <<workspace, save, files, command, status, notes>>

BlobUnreadable ==
    /\ At("backup", "copy")
    /\ Missing \cap (spoiled \cup (Contents \ blobs)) # {}
    /\ Rejected

WriteManifest ==
    /\ At("backup", "copy")
    /\ Missing = {}
    /\ staging' = [staging EXCEPT !.manifest = staging.revisions]
    /\ Goes("publish")
    /\ UNCHANGED <<workspace, save, files, status, notes>>

-----------------------------------------------------------------------------
(* A restore reads and verifies the whole bundle before it writes.         *)

Source == files[command.from]
IsBundle == Source # None /\ Source.kind = "bundle"

ReadManifest ==
    /\ At("restore", "begin")
    /\ command.from # command.to
    /\ files[command.to] = None
    /\ IsBundle
    /\ Source.manifest # None /\ "manifest" \notin Source.bad
    /\ staging' = [Empty("workspace") EXCEPT !.manifest = Source.manifest]
    /\ Goes("database")
    /\ UNCHANGED <<workspace, save, files, status, notes>>

(* Mutant: the database is not compared with the manifest.                *)
ReadDatabaseUnchecked ==
    /\ At("restore", "database")
    /\ IsBundle
    /\ staging' = [staging EXCEPT !.revisions = Source.revisions,
                                  !.bad = Source.bad \cap {"database"}]
    /\ Goes("blobs")
    /\ UNCHANGED <<workspace, save, files, status, notes>>

(* The database has the manifest's checksum, so it is the manifest's.      *)
ReadDatabase ==
    /\ At("restore", "database")
    /\ IsBundle
    /\ "database" \notin Source.bad /\ Source.revisions = staging.manifest
    /\ staging' = [staging EXCEPT !.revisions = Source.revisions]
    /\ Goes("blobs")
    /\ UNCHANGED <<workspace, save, files, status, notes>>

ReadBlobs ==
    /\ At("restore", "blobs")
    /\ IsBundle
    /\ "blobs" \notin Source.bad
    /\ Range(staging.revisions) \subseteq Source.blobs
    /\ staging' = [staging EXCEPT !.blobs = Range(staging.revisions)]
    /\ Goes("stage")
    /\ UNCHANGED <<workspace, save, files, status, notes>>

(* What was read does not verify, or is gone.                              *)
BundleRefused ==
    /\ \/ At("restore", "begin")
            /\ \/ command.from = command.to \/ files[command.to] # None \/ ~IsBundle
               \/ IsBundle /\ (Source.manifest = None \/ "manifest" \in Source.bad)
       \/ At("restore", "database")
            /\ \/ ~IsBundle
               \/ IsBundle /\ "database" \in Source.bad
               \/ IsBundle /\ Source.revisions # staging.manifest
       \/ At("restore", "blobs")
            /\ \/ ~IsBundle
               \/ IsBundle /\ "blobs" \in Source.bad
               \/ IsBundle /\ ~(Range(staging.revisions) \subseteq Source.blobs)
    /\ Rejected

(* Room is checked, then the staging root is filled and read back.  The    *)
(* new workspace has no manifest.                                          *)
StageTarget ==
    /\ At("restore", "stage")
    /\ files[command.to] = None
    /\ staging' = [staging EXCEPT !.manifest = None]
    /\ Goes("publish")
    /\ UNCHANGED <<workspace, save, files, status, notes>>

-----------------------------------------------------------------------------
(* Publication, and the status file after it.                              *)

Finishing == command.stage = "publish" /\ ~command.waits

(* Mutant: the place is not looked at again before the rename.             *)
FindsPlaceFreeUnlooked ==
    /\ Finishing
    /\ Goes("rename")
    /\ late' = FALSE
    /\ UNCHANGED <<workspace, save, files, staging, status, commands, faults>>

FindsPlaceFree ==
    /\ Finishing
    /\ files[command.to] = None
    /\ Goes("rename")
    /\ late' = FALSE
    /\ UNCHANGED <<workspace, save, files, staging, status, commands, faults>>

(* The rename comes after another await.                                   *)
Rename ==
    /\ command.stage = "rename"
    /\ files[command.to] # None => GivesWay(files[command.to])
    /\ files' = [files EXCEPT ![command.to] = staging]
    /\ staging' = None
    /\ Goes("status")
    /\ UNCHANGED <<workspace, save, status, notes>>

RenameFails ==
    /\ command.stage = "rename"
    /\ files[command.to] # None /\ ~GivesWay(files[command.to])
    /\ Rejected

PlaceTaken ==
    /\ \/ Finishing \/ At("backup", "begin") \/ At("restore", "stage")
    /\ files[command.to] # None
    /\ Rejected

WriteStatus ==
    /\ command.stage = "status"
    /\ status' = [kind |-> command.kind, place |-> command.to]
    /\ command' = NoCommand
    /\ UNCHANGED <<workspace, save, files, staging, notes>>

(* The status cannot be written: the command is rejected, and what it      *)
(* published stays.                                                        *)
StatusFails ==
    /\ command.stage = "status"
    /\ command' = NoCommand
    /\ UNCHANGED <<workspace, save, files, staging, status, notes>>

-----------------------------------------------------------------------------
(* The environment.                                                        *)

Fault == faults < MaxFaults /\ faults' = faults + 1

(* The application is killed and started again; what was staged stays on   *)
(* disk under a name nobody uses again.                                    *)
Killed ==
    /\ Fault
    /\ save' = NoSave
    /\ command' = NoCommand /\ staging' = None
    /\ UNCHANGED <<workspace, files, status, commands, late>>

SpoilBlob ==
    /\ Fault
    /\ \E c \in blobs : spoiled' = spoiled \cup {c}
    /\ UNCHANGED <<ledger, blobs, save, files, operation, status, commands, late>>

SpoilEntry ==
    /\ Fault
    /\ \E p \in Places, e \in Entries :
          /\ files[p] # None /\ files[p].kind \in {"bundle", "workspace"}
          /\ files' = [files EXCEPT ![p].bad = @ \cup {e}]
    /\ UNCHANGED <<workspace, save, operation, status, commands, late>>

AuthorMovesFiles ==
    /\ Fault
    /\ \E p \in Places, foreign \in Foreign :
          /\ files' = [files EXCEPT ![p] = IF @ = None THEN foreign ELSE None]
          /\ late' = (late \/ /\ command.stage = "rename" /\ p = command.to
                              /\ files[p] = None)
    /\ UNCHANGED <<workspace, save, operation, status, commands>>

Backup == BackupBegins \/ CopyPages \/ CopyBlob \/ BlobUnreadable \/ WriteManifest
Restore == ReadManifest \/ ReadDatabase \/ ReadBlobs \/ BundleRefused \/ StageTarget
Finish ==
    \/ FindsPlaceFree \/ PlaceTaken
    \/ Rename \/ RenameFails
    \/ WriteStatus \/ StatusFails

Next ==
    \/ SaveBegins \/ SavePublishes \/ SaveCommits \/ SaveFails
    \/ Ask \/ Aborts
    \/ Backup \/ Restore \/ Finish
    \/ Killed \/ SpoilBlob \/ SpoilEntry \/ AuthorMovesFiles

Spec == Init /\ [][Next]_vars

(* A save that began ends, and so does a command that runs.                *)
FairSpec ==
    /\ Spec
    /\ WF_vars(SavePublishes \/ SaveCommits \/ SaveFails)
    /\ WF_vars(Backup \/ Restore \/ Finish)

-----------------------------------------------------------------------------
(* Type correctness; revisions have their blobs, and a directory is staged *)
(* exactly while a command fills it (append, publishRevisionBlob,          *)
(* cleanupOwnedRoot).                                                      *)
TypeOK ==
    /\ ledger \in Seq(Contents) /\ Range(ledger) \subseteq blobs
    /\ blobs \subseteq Contents /\ spoiled \subseteq blobs
    /\ save \in [stage : {"idle", "publish", "commit"}, text : Contents \cup {None}]
    /\ files \in [Places -> Directory \cup {None}]
    /\ command \in [stage : {"idle", "begin", "snapshot", "copy", "database",
                             "blobs", "stage", "publish", "rename", "status"},
                    kind : {"backup", "restore"}, from : Places \cup {None},
                    to : Places \cup {None}, asked : Nat, behind : BOOLEAN,
                    waits : BOOLEAN, pages : Nat]
    /\ staging \in Directory \cup {None}
    /\ (staging # None) <=> command.stage \notin {"idle", "begin", "status"}
    /\ status \in [kind : {"backup", "restore"}, place : Places] \cup {None}
    /\ commands \in Nat /\ faults \in Nat /\ late \in BOOLEAN

(* A command puts a directory of the given kind at the place.              *)
Publishes(p, kind) ==
    /\ command' # command /\ files'[p] # files[p]
    /\ files'[p] # None /\ files'[p].kind = kind

(* A bundle that is published can be restored: its database is a state the *)
(* workspace had, with everything that was saved or being saved when the   *)
(* backup was asked for, every blob of it is there and intact, and the     *)
(* manifest is its own (createBackupBundle, createNodeSqliteBackupBundle), *)
(* whatever saves commit between the steps of the copy.                    *)
PublishedBundleIsWhole ==
    [][\A p \in Places : Publishes(p, "bundle") =>
           LET made == files'[p]
           IN  /\ made.revisions = SubSeq(ledger, 1, Len(made.revisions))
               /\ command.asked <= Len(made.revisions)
               /\ made.blobs = Range(made.revisions)
               /\ made.manifest = made.revisions
               /\ made.bad = {}]_vars

(* A workspace that a restore publishes is a state some backup copied,     *)
(* whole and intact: damage to the bundle before or during the restore is  *)
(* refused (restoreNodeSqliteBackupBundle).                                *)
RestoredIsWhole ==
    [][\A p \in Places : Publishes(p, "workspace") =>
           LET made == files'[p]
           IN  /\ made.revisions = SubSeq(ledger, 1, Len(made.revisions))
               /\ made.blobs = Range(made.revisions)
               /\ made.bad = {}]_vars

(* A command changes nothing that was at a place when it last looked there *)
(* (renameNoReplace).  What the author puts there between that look and    *)
(* the rename is lost if it is what a rename replaces, and only then.      *)
NothingIsOverwritten ==
    [][command' # command =>
           \A p \in Places :
               files[p] # None /\ files'[p] # files[p] =>
                   p = command.to /\ GivesWay(files[p]) /\ late]_vars

(* Every command ends, also while saves are refused without end.  A save   *)
(* that commits may set the copy of the database back to its beginning, so *)
(* this is about workspaces whose saves stop committing: MaxRevisions      *)
(* bounds them.                                                            *)
CommandsEnd == command.stage = "begin" ~> command.stage = "idle"
=============================================================================
