------------------------ MODULE WorkspaceBackupProofs ------------------------
(***************************************************************************)
(* Proofs about WorkspaceBackup for every set of texts and places and every *)
(* bound on saves, commands and faults.                                    *)
(*                                                                         *)
(* The ledger only grows, so a prefix of it stays one (Prefix).  The        *)
(* invariant says what the directory being staged holds at each stage of a  *)
(* command (StagingOK), that the command is not ahead of the ledger         *)
(* (CommandOK), and that a bundle's manifest lists a prefix whatever        *)
(* damage its other entries took (FilesOK).                                *)
(***************************************************************************)
EXTENDS WorkspaceBackup, SequenceTheorems, TLAPS

Commands == [stage : {"idle", "begin", "snapshot", "copy", "database",
                      "blobs", "stage", "publish", "rename", "status"},
             kind : {"backup", "restore"}, from : Places \cup {None},
             to : Places \cup {None}, asked : Nat, behind : BOOLEAN,
             waits : BOOLEAN, pages : Nat]

Prefix(s, l) ==
    /\ s \in Seq(Contents)
    /\ Len(s) <= Len(l)
    /\ \A i \in 1..Len(s) : s[i] = l[i]

CommandOK(c, l) ==
    /\ c \in Commands
    /\ c.stage # "idle" => c.to \in Places /\ c.asked <= Len(l)
    /\ c.stage # "idle" /\ c.kind = "restore" => c.from \in Places
    /\ c.waits <=> c.behind
    /\ c.waits => c.stage = "begin"
    /\ c.stage \in {"snapshot", "copy"} => c.kind = "backup"
    /\ c.stage \in {"database", "blobs", "stage"} => c.kind = "restore"

StagingOK(c, d, l) ==
    /\ d \in Directory \cup {None}
    /\ (d # None) <=> c.stage \notin {"idle", "begin", "status"}
    /\ d # None => d.bad = {}
    /\ d # None /\ c.kind = "backup" => d.kind = "bundle"
    /\ d # None /\ c.kind = "restore" => d.kind = "workspace"
    /\ c.stage = "snapshot" => d.blobs = {}
    /\ c.kind = "backup" /\ c.stage \in {"copy", "publish", "rename"} =>
           /\ Prefix(d.revisions, l) /\ c.asked <= Len(d.revisions)
           /\ d.blobs \subseteq Range(d.revisions)
    /\ c.kind = "backup" /\ c.stage \in {"publish", "rename"} =>
           d.manifest = d.revisions /\ d.blobs = Range(d.revisions)
    /\ c.stage = "database" => Prefix(d.manifest, l)
    /\ c.kind = "restore" /\ c.stage \in {"blobs", "stage", "publish", "rename"} =>
           Prefix(d.revisions, l)
    /\ c.kind = "restore" /\ c.stage \in {"stage", "publish", "rename"} =>
           d.blobs = Range(d.revisions)

FilesOK(f, l) ==
    /\ f \in [Places -> Directory \cup {None}]
    /\ \A p \in Places :
           f[p] # None /\ f[p].kind = "bundle" =>
               Prefix(f[p].manifest, l)

(* What is at the place of a command that is about to rename was put there *)
(* since the command found it free.                                        *)
FreeOrLate ==
    command.stage = "rename" /\ files[command.to] # None => late

(* The rest of TypeOK.                                                     *)
SavesOK ==
    /\ ledger \in Seq(Contents) /\ Range(ledger) \subseteq blobs
    /\ blobs \subseteq Contents /\ spoiled \subseteq blobs
    /\ save \in [stage : {"idle", "publish", "commit"}, text : Contents \cup {None}]
    /\ save.stage # "idle" => save.text \in Contents
    /\ save.stage = "commit" => save.text \in blobs
    /\ status \in [kind : {"backup", "restore"}, place : Places] \cup {None}
    /\ commands \in Nat /\ faults \in Nat /\ late \in BOOLEAN

Inv ==
    /\ SavesOK
    /\ CommandOK(command, ledger)
    /\ StagingOK(command, staging, ledger)
    /\ FilesOK(files, ledger)

-----------------------------------------------------------------------------
(* Records.                                                                *)

(* The fields of a directory have their types.                             *)
LEMMA DirectoryFields ==
    ASSUME NEW d \in Directory
    PROVE  /\ d.revisions \in Seq(Contents) /\ d.blobs \subseteq Contents
           /\ d.manifest \in Seq(Contents) \cup {None} /\ d # None
BY ConstantsAssumption DEF Directory

(* Writing the database of a directory changes nothing else of it.         *)
LEMMA WithRevisions ==
    ASSUME NEW d \in Directory, NEW s \in Seq(Contents)
    PROVE  LET e == [d EXCEPT !.revisions = s]
           IN  /\ e \in Directory /\ e # None /\ e.revisions = s /\ e.kind = d.kind
               /\ e.blobs = d.blobs /\ e.manifest = d.manifest /\ e.bad = d.bad
<1>1. [d EXCEPT !.revisions = s] \in Directory
  BY Zenon DEF Directory
<1> QED
  BY <1>1, DirectoryFields DEF Directory

(* Writing blobs into a directory changes nothing else of it.              *)
LEMMA WithBlobs ==
    ASSUME NEW d \in Directory, NEW b \in SUBSET Contents
    PROVE  LET e == [d EXCEPT !.blobs = b]
           IN  /\ e \in Directory /\ e # None /\ e.blobs = b /\ e.kind = d.kind
               /\ e.revisions = d.revisions /\ e.manifest = d.manifest /\ e.bad = d.bad
<1>1. [d EXCEPT !.blobs = b] \in Directory
  BY Zenon DEF Directory
<1> QED
  BY <1>1, DirectoryFields DEF Directory

(* Writing the manifest of a directory changes nothing else of it.         *)
LEMMA WithManifest ==
    ASSUME NEW d \in Directory, NEW m \in Seq(Contents) \cup {None}
    PROVE  LET e == [d EXCEPT !.manifest = m]
           IN  /\ e \in Directory /\ e # None /\ e.manifest = m /\ e.kind = d.kind
               /\ e.revisions = d.revisions /\ e.blobs = d.blobs /\ e.bad = d.bad
<1>1. [d EXCEPT !.manifest = m] \in Directory
  BY Zenon DEF Directory
<1> QED
  BY <1>1, DirectoryFields DEF Directory

(* A fresh directory holds nothing.                                        *)
LEMMA EmptyFields ==
    ASSUME NEW k \in {"bundle", "workspace", "other", "replaceable"}
    PROVE  /\ Empty(k) \in Directory /\ Empty(k).kind = k /\ Empty(k).blobs = {}
           /\ Empty(k).bad = {} /\ Empty(k).revisions = <<>>
<1>1. <<>> \in Seq(Contents)
  OBVIOUS
<1> QED
  BY <1>1 DEF Empty, Directory

(* A command goes on to another stage.                                     *)
LEMMA WithStage ==
    ASSUME NEW c \in Commands,
           NEW x \in {"snapshot", "copy", "database", "blobs", "stage", "publish",
                      "rename", "status"}
    PROVE  LET d == [c EXCEPT !.stage = x]
           IN  /\ d \in Commands /\ d.stage = x /\ d.kind = c.kind /\ d.from = c.from
               /\ d.to = c.to /\ d.asked = c.asked /\ d.waits = c.waits
               /\ d.behind = c.behind
<1>1. [c EXCEPT !.stage = x] \in Commands
  BY Zenon DEF Commands
<1>2. /\ [c EXCEPT !.stage = x].waits = c.waits
      /\ [c EXCEPT !.stage = x].behind = c.behind
  BY Zenon DEF Commands
<1> QED
  BY <1>1, <1>2 DEF Commands

-----------------------------------------------------------------------------
(* The ledger grows.                                                       *)

(* A prefix of the ledger stays one when a revision is appended.           *)
LEMMA PrefixGrows ==
    ASSUME NEW l \in Seq(Contents), NEW t \in Contents, NEW s, Prefix(s, l)
    PROVE  Prefix(s, Append(l, t))
<1>1. Len(Append(l, t)) = Len(l) + 1 /\ Len(l) \in Nat /\ Len(s) \in Nat
  BY AppendProperties, LenProperties DEF Prefix
<1>2. \A i \in 1..Len(l) : Append(l, t)[i] = l[i]
  BY AppendProperties
<1> QED
  BY <1>1, <1>2 DEF Prefix

(* A prefix is determined by its length.                                   *)
LEMMA PrefixIsSubSeq ==
    ASSUME NEW l \in Seq(Contents), NEW s, Prefix(s, l)
    PROVE  s = SubSeq(l, 1, Len(s))
<1>1. /\ s \in Seq(Contents) /\ Len(s) \in Nat /\ Len(l) \in Nat /\ Len(s) <= Len(l)
  BY LenProperties DEF Prefix
<1>2. /\ SubSeq(l, 1, Len(s)) \in Seq(Contents)
      /\ Len(SubSeq(l, 1, Len(s))) = Len(s)
      /\ \A i \in 1..Len(s) : SubSeq(l, 1, Len(s))[i] = l[i]
  BY <1>1, SubSeqProperties
<1> QED
  BY <1>1, <1>2, SeqEqual DEF Prefix

(* A commit leaves commands, staged directories and files as good as       *)
(* before.                                                                 *)
LEMMA LedgerGrows ==
    ASSUME NEW l \in Seq(Contents), NEW t \in Contents,
           NEW c, NEW d, NEW f,
           CommandOK(c, l), StagingOK(c, d, l), FilesOK(f, l)
    PROVE  /\ CommandOK(c, Append(l, t)) /\ StagingOK(c, d, Append(l, t))
           /\ FilesOK(f, Append(l, t))
<1>1. Len(Append(l, t)) = Len(l) + 1 /\ Len(l) \in Nat
  BY AppendProperties, LenProperties
<1>2. \A s : Prefix(s, l) => Prefix(s, Append(l, t))
  BY PrefixGrows
<1>3. CommandOK(c, Append(l, t))
  <2>1. c \in Commands /\ c.asked \in Nat
    BY DEF CommandOK, Commands
  <2> QED
    BY <1>1, <2>1 DEF CommandOK
<1>4. StagingOK(c, d, Append(l, t))
  BY <1>2 DEF StagingOK
<1>5. FilesOK(f, Append(l, t))
  BY <1>2 DEF FilesOK
<1> QED
  BY <1>3, <1>4, <1>5

-----------------------------------------------------------------------------
(* Saves.                                                                  *)

(* The steps of a save before its commit keep the invariant.               *)
LEMMA SaveStep ==
    ASSUME Inv, SaveBegins \/ SavePublishes
    PROVE  Inv'
BY DEF Inv, SavesOK, SaveBegins, SavePublishes, workspace, operation, notes

(* A save that ends releases the command that waits for it.                *)
LEMMA ReleasedOK ==
    ASSUME NEW c, NEW d, NEW f, NEW l \in Seq(Contents), NEW stored \in BOOLEAN,
           NEW m \in Seq(Contents), Len(m) = Len(l) + (IF stored THEN 1 ELSE 0),
           CommandOK(c, l), CommandOK(c, m), StagingOK(c, d, m)
    PROVE  LET e == [c EXCEPT !.waits = FALSE, !.behind = FALSE,
                         !.asked = IF stored /\ c.behind THEN @ + 1 ELSE @]
           IN  CommandOK(e, m) /\ StagingOK(e, d, m)
<1> DEFINE n == IF stored /\ c.behind THEN c.asked + 1 ELSE c.asked
           e == [c EXCEPT !.waits = FALSE, !.behind = FALSE, !.asked = n]
<1>1. c \in Commands /\ c.asked \in Nat /\ Len(l) \in Nat /\ Len(m) \in Nat
  BY LenProperties DEF CommandOK, Commands
<1>2. n \in Nat
  BY <1>1
<1>3. /\ c.stage # "idle" => n <= Len(m)
      /\ ~c.behind => n = c.asked
  BY <1>1 DEF CommandOK
<1> HIDE DEF n
<1>4. e \in Commands
  BY <1>1, <1>2, Zenon DEF Commands
<1>5. /\ e.stage = c.stage /\ e.kind = c.kind /\ e.to = c.to /\ e.from = c.from
      /\ e.asked = n
  BY <1>1 DEF Commands
<1>6. e.waits = FALSE /\ e.behind = FALSE
  BY <1>1, Zenon DEF Commands
<1> HIDE DEF e
<1>7. CommandOK(e, m)
  BY <1>3, <1>4, <1>5, <1>6 DEF CommandOK
<1>8. c.stage \in {"copy", "publish", "rename"} => n = c.asked
  BY <1>3 DEF CommandOK
<1>9. StagingOK(e, d, m)
  BY <1>5, <1>8 DEF StagingOK
<1> QED
  BY <1>7, <1>9 DEF e, n

(* The commit or the failure of a save keeps the invariant.                *)
LEMMA SaveEndStep ==
    ASSUME Inv, SaveCommits \/ SaveFails
    PROVE  Inv'
<1>1. /\ SavesOK /\ ledger \in Seq(Contents) /\ CommandOK(command, ledger)
      /\ StagingOK(command, staging, ledger) /\ FilesOK(files, ledger)
  BY DEF Inv, SavesOK
<1>2. CASE SaveCommits
  <2>1. /\ save.text \in Contents /\ save.text \in blobs
        /\ ledger' = Append(ledger, save.text)
        /\ save' = NoSave /\ SaveEnds(TRUE)
        /\ UNCHANGED <<blobs, spoiled, files, staging, status, notes>>
    BY <1>1, <1>2 DEF SaveCommits, SavesOK, SaveEnds
  <2>2. /\ CommandOK(command, ledger') /\ StagingOK(command, staging, ledger')
        /\ FilesOK(files, ledger')
    BY <1>1, <2>1, LedgerGrows
  <2>3. /\ ledger' \in Seq(Contents) /\ Len(ledger') = Len(ledger) + 1
    BY <1>1, <2>1, AppendProperties
  <2>4. CommandOK(command', ledger') /\ StagingOK(command', staging, ledger')
    BY <1>1, <2>1, <2>2, <2>3, ReleasedOK DEF SaveEnds
  <2>5. SavesOK'
    <3>1. Range(ledger') \subseteq blobs
      BY <1>1, <2>1, <2>3, AppendProperties DEF Range, SavesOK
    <3> QED
      BY <1>1, <2>1, <2>3, <3>1 DEF SavesOK, NoSave, notes
  <2> QED
    BY <2>1, <2>2, <2>4, <2>5 DEF Inv
<1>3. CASE SaveFails
  <2>1. /\ save' = NoSave /\ SaveEnds(FALSE)
        /\ UNCHANGED <<ledger, blobs, spoiled, files, staging, status, notes>>
    BY <1>3 DEF SaveFails, SaveEnds, workspace
  <2>2. CommandOK(command', ledger) /\ StagingOK(command', staging, ledger)
    <3>1. Len(ledger) = Len(ledger) + (IF FALSE THEN 1 ELSE 0)
      BY <1>1, LenProperties
    <3> QED
      BY <1>1, <2>1, <3>1, ReleasedOK DEF SaveEnds
  <2>3. SavesOK'
    BY <1>1, <2>1 DEF SavesOK, NoSave, notes
  <2> QED
    BY <1>1, <2>1, <2>2, <2>3 DEF Inv
<1> QED
  BY <1>2, <1>3

-----------------------------------------------------------------------------
(* Commands.                                                               *)

(* What a step that leaves the saves alone keeps.                          *)
LEMMA SavesKept ==
    ASSUME SavesOK, UNCHANGED <<workspace, save, status>>,
           commands' \in Nat, faults' \in Nat, late' \in BOOLEAN
    PROVE  SavesOK'
BY DEF SavesOK, workspace

(* Nothing is asked of the state with no command.                          *)
LEMMA NoCommandOK ==
    ASSUME NEW l
    PROVE  CommandOK(NoCommand, l) /\ StagingOK(NoCommand, None, l)
<1>1. NoCommand \in Commands
  BY DEF NoCommand, Commands
<1>2. NoCommand.stage = "idle" /\ ~NoCommand.waits /\ ~NoCommand.behind
  BY DEF NoCommand
<1>3. CommandOK(NoCommand, l)
  BY <1>1, <1>2 DEF CommandOK
<1>4. StagingOK(NoCommand, None, l)
  BY <1>2 DEF StagingOK
<1> QED
  BY <1>3, <1>4

(* A command that has had its turn may go on to its next stage.            *)
LEMMA GoesOK ==
    ASSUME NEW c, NEW l, CommandOK(c, l), ~c.waits, c.stage # "idle",
           NEW x \in {"snapshot", "copy", "database", "blobs", "stage", "publish",
                      "rename", "status"},
           x \in {"snapshot", "copy"} => c.kind = "backup",
           x \in {"database", "blobs", "stage"} => c.kind = "restore"
    PROVE  LET d == [c EXCEPT !.stage = x]
           IN  /\ CommandOK(d, l) /\ d.stage = x /\ d.kind = c.kind
               /\ d.asked = c.asked /\ d.to = c.to
<1> DEFINE d == [c EXCEPT !.stage = x]
<1>1. c \in Commands
  BY DEF CommandOK
<1>2. /\ d \in Commands /\ d.stage = x /\ d.kind = c.kind /\ d.from = c.from
      /\ d.to = c.to /\ d.asked = c.asked /\ d.waits = c.waits
      /\ d.behind = c.behind
  BY <1>1, WithStage
<1> HIDE DEF d
<1>3. ~d.waits /\ ~d.behind
  BY <1>2 DEF CommandOK
<1>4. CommandOK(d, l)
  BY <1>2, <1>3 DEF CommandOK
<1> QED
  BY <1>2, <1>4 DEF d

(* A command goes on copying pages, or has copied them all.                *)
LEMMA CopyingOK ==
    ASSUME NEW c, NEW l, CommandOK(c, l), ~c.waits, c.stage = "snapshot",
           NEW n \in Nat, NEW d,
           \/ d = [c EXCEPT !.stage = "copy", !.pages = 0]
           \/ d = [c EXCEPT !.pages = n]
    PROVE  CommandOK(d, l)
<1>1. c \in Commands
  BY DEF CommandOK
<1>2. d \in Commands
  <2>1. CASE d = [c EXCEPT !.stage = "copy", !.pages = 0]
    <3>1. 0 \in Nat
      OBVIOUS
    <3> QED
      BY <1>1, <2>1, <3>1, Zenon DEF Commands
  <2>2. CASE d = [c EXCEPT !.pages = n]
    BY <1>1, <2>2, Zenon DEF Commands
  <2> QED
    BY <2>1, <2>2
<1>3. /\ d.stage \in {"snapshot", "copy"} /\ d.kind = c.kind /\ d.from = c.from
      /\ d.to = c.to /\ d.asked = c.asked
  BY <1>1 DEF Commands
<1>4. d.waits = c.waits /\ d.behind = c.behind
  BY <1>1, Zenon DEF Commands
<1>5. ~d.waits /\ ~d.behind
  BY <1>4 DEF CommandOK
<1>6. CommandOK(d, l)
  BY <1>2, <1>3, <1>5 DEF CommandOK
<1> QED
  BY <1>3, <1>6

(* Asking for a backup or a restore keeps the invariant.                   *)
LEMMA AskStep ==
    ASSUME Inv, Ask
    PROVE  Inv'
<1> DEFINE A(k, f, t) == Asked(k, f, t)
<1>1. /\ SavesOK /\ ledger \in Seq(Contents) /\ Len(ledger) \in Nat
      /\ StagingOK(command, staging, ledger) /\ FilesOK(files, ledger)
  BY LenProperties DEF Inv, SavesOK
<1>2. /\ command.stage = "idle" /\ commands' = commands + 1
      /\ UNCHANGED <<workspace, save, files, staging, status, faults, late>>
  BY DEF Ask
<1>3. PICK k \in {"backup", "restore"}, f \in Places \cup {None}, t \in Places :
          command' = Asked(k, f, t) /\ (k = "restore" => f \in Places)
  BY DEF Ask
<1> DEFINE w == save.stage # "idle"
<1>4. command' = [stage |-> "begin", kind |-> k, from |-> f, to |-> t,
                  asked |-> Len(ledger), behind |-> w, waits |-> w,
                  pages |-> 0]
  BY <1>3, Zenon DEF Asked, NoCommand
<1>5. w \in BOOLEAN
  OBVIOUS
<1> HIDE DEF w
<1>6. command' \in Commands
  BY <1>1, <1>4, <1>5, Zenon DEF Commands
<1>7. command'.waits = w /\ command'.behind = w
  BY <1>4, Zenon
<1>8. CommandOK(command', ledger)
  BY <1>1, <1>3, <1>4, <1>6, <1>7 DEF CommandOK
<1>9. staging = None
  BY <1>1, <1>2 DEF StagingOK
<1>10. StagingOK(command', None, ledger)
  BY <1>4 DEF StagingOK
<1>11. SavesOK'
  BY <1>1, <1>2, SavesKept DEF SavesOK
<1> QED
  BY <1>1, <1>2, <1>8, <1>9, <1>10, <1>11 DEF Inv, workspace

(* A command that ends early leaves nothing behind.                        *)
LEMMA RejectedStep ==
    ASSUME Inv, Rejected
    PROVE  Inv'
<1>1. /\ command' = NoCommand /\ staging' = None /\ files' = files
      /\ UNCHANGED <<workspace, save, status, commands, faults, late>>
  BY DEF Rejected, notes
<1>2. SavesOK'
  BY <1>1, SavesKept DEF Inv, SavesOK
<1>3. ledger' = ledger
  BY <1>1 DEF workspace
<1> QED
  BY <1>1, <1>2, <1>3, NoCommandOK DEF Inv

(* A step of a command that changes only its stage and what it staged.     *)
LEMMA OperationStep ==
    ASSUME Inv, UNCHANGED <<workspace, save, files, status, notes>>,
           CommandOK(command', ledger), StagingOK(command', staging', ledger)
    PROVE  Inv'
<1>1. SavesOK'
  BY SavesKept DEF Inv, SavesOK, notes
<1> QED
  BY <1>1 DEF Inv, workspace

(* The stages of a backup keep the invariant.                              *)
LEMMA BackupStep ==
    ASSUME Inv, Backup
    PROVE  Inv'
<1>1. /\ ledger \in Seq(Contents) /\ CommandOK(command, ledger) /\ Len(ledger) \in Nat
      /\ StagingOK(command, staging, ledger)
      /\ command.kind = "backup" /\ command.stage \in {"begin", "snapshot", "copy"}
      /\ ~command.waits
      /\ command.asked <= Len(ledger) /\ command.asked \in Nat
  BY LenProperties DEF Inv, SavesOK, Backup, BackupBegins, CopyPages, CopyBlob,
      BlobUnreadable, WriteManifest, At, CommandOK, Commands
<1>2. CASE BackupBegins
  <2>1. /\ staging' = Empty("bundle")
        /\ command' = [command EXCEPT !.stage = "snapshot"]
        /\ UNCHANGED <<workspace, save, files, status, notes>>
    BY <1>2 DEF BackupBegins, Goes
  <2>2. /\ CommandOK(command', ledger) /\ command'.stage = "snapshot"
        /\ command'.kind = "backup"
    BY <1>1, <2>1, GoesOK
  <2>3. StagingOK(command', staging', ledger)
    <3>1. /\ staging' \in Directory /\ staging'.kind = "bundle" /\ staging'.blobs = {}
          /\ staging'.bad = {} /\ staging' # None
      BY <2>1, EmptyFields, DirectoryFields
    <3> QED
      BY <2>2, <3>1 DEF StagingOK
  <2> QED
    BY <2>1, <2>2, <2>3, OperationStep
<1>3. CASE CopyPages
  <2> DEFINE n == IF staging.revisions = ledger THEN command.pages + 1 ELSE 1
  <2>1. /\ staging' = [staging EXCEPT !.revisions = ledger]
        /\ \/ command' = [command EXCEPT !.stage = "copy", !.pages = 0]
           \/ command' = [command EXCEPT !.pages = n]
        /\ UNCHANGED <<workspace, save, files, status, notes>>
        /\ command.stage = "snapshot"
    BY <1>3 DEF CopyPages, At
  <2>2. n \in Nat
    BY <1>1 DEF CommandOK, Commands
  <2> HIDE DEF n
  <2>3. /\ CommandOK(command', ledger) /\ command'.stage \in {"snapshot", "copy"}
        /\ command'.kind = "backup" /\ command'.asked = command.asked
    <3> DEFINE d == command'
    <3>1. \/ d = [command EXCEPT !.stage = "copy", !.pages = 0]
          \/ d = [command EXCEPT !.pages = n]
      BY <2>1
    <3> HIDE DEF d
    <3>2. CommandOK(command, ledger) /\ ~command.waits /\ command.stage = "snapshot"
      BY <1>1, <2>1
    <3>3. CommandOK(d, ledger)
      BY <2>2, <3>1, <3>2, CopyingOK
    <3>4. /\ d.stage \in {"snapshot", "copy"} /\ d.kind = command.kind
          /\ d.asked = command.asked
      BY <3>1, <3>2 DEF CommandOK, Commands
    <3> QED
      BY <1>1, <3>3, <3>4 DEF d
  <2>4. /\ staging \in Directory /\ staging.bad = {} /\ staging.kind = "bundle"
        /\ staging.blobs = {}
    BY <1>1, <2>1 DEF StagingOK
  <2>5. /\ staging' \in Directory /\ staging'.revisions = ledger
        /\ staging'.kind = "bundle" /\ staging'.blobs = {} /\ staging'.bad = {}
        /\ staging' # None
    BY <1>1, <2>1, <2>4, WithRevisions
  <2>6. Prefix(ledger, ledger)
    BY <1>1 DEF Prefix
  <2>7. StagingOK(command', staging', ledger)
    BY <1>1, <2>3, <2>5, <2>6 DEF StagingOK
  <2> QED
    BY <2>1, <2>3, <2>7, OperationStep
<1>4. CASE CopyBlob
  <2>1. PICK t \in Missing : staging' = [staging EXCEPT !.blobs = staging.blobs \cup {t}]
    BY <1>4 DEF CopyBlob
  <2>2. /\ command' = command /\ command.stage = "copy"
        /\ UNCHANGED <<workspace, save, files, status, notes>>
    BY <1>4 DEF CopyBlob, At
  <2>3. /\ staging \in Directory /\ staging.bad = {} /\ staging.kind = "bundle"
        /\ Prefix(staging.revisions, ledger)
        /\ command.asked <= Len(staging.revisions)
        /\ staging.blobs \subseteq Range(staging.revisions)
    BY <1>1, <2>2 DEF StagingOK
  <2>4. t \in Range(staging.revisions) /\ Range(staging.revisions) \subseteq Contents
    BY <2>1, <2>3, RangeOfSeq, DirectoryFields DEF Missing
  <2>5. staging.blobs \cup {t} \in SUBSET Contents
    BY <2>3, <2>4
  <2>6. /\ staging' \in Directory /\ staging'.revisions = staging.revisions
        /\ staging'.kind = "bundle" /\ staging'.blobs = staging.blobs \cup {t}
        /\ staging'.bad = {} /\ staging' # None
    <3> DEFINE b == staging.blobs \cup {t}
    <3>1. staging' = [staging EXCEPT !.blobs = b] /\ b \in SUBSET Contents
      BY <2>1, <2>5
    <3> HIDE DEF b
    <3>2. /\ staging' \in Directory /\ staging'.revisions = staging.revisions
          /\ staging'.kind = "bundle" /\ staging'.blobs = b
          /\ staging'.bad = {} /\ staging' # None
      BY <2>3, <3>1, WithBlobs
    <3> QED
      BY <3>2 DEF b
  <2>7. StagingOK(command', staging', ledger)
    BY <1>1, <2>2, <2>3, <2>4, <2>6 DEF StagingOK
  <2> QED
    BY <1>1, <2>2, <2>7, OperationStep
<1>5. CASE BlobUnreadable
  BY <1>5, RejectedStep DEF BlobUnreadable
<1>6. CASE WriteManifest
  <2>1. /\ staging' = [staging EXCEPT !.manifest = staging.revisions]
        /\ command' = [command EXCEPT !.stage = "publish"]
        /\ UNCHANGED <<workspace, save, files, status, notes>>
        /\ command.stage = "copy" /\ Missing = {}
    BY <1>6 DEF WriteManifest, Goes, At
  <2>2. /\ CommandOK(command', ledger) /\ command'.stage = "publish"
        /\ command'.kind = "backup" /\ command'.asked = command.asked
    BY <1>1, <2>1, GoesOK
  <2>3. /\ staging \in Directory /\ staging.bad = {} /\ staging.kind = "bundle"
        /\ Prefix(staging.revisions, ledger)
        /\ command.asked <= Len(staging.revisions)
        /\ staging.blobs = Range(staging.revisions)
    BY <1>1, <2>1 DEF StagingOK, Missing
  <2>4. /\ staging' \in Directory /\ staging'.revisions = staging.revisions
        /\ staging'.manifest = staging.revisions
        /\ staging'.kind = "bundle" /\ staging'.blobs = staging.blobs
        /\ staging'.bad = {} /\ staging' # None
    <3>1. staging.revisions \in Seq(Contents) \cup {None}
      BY <2>3, DirectoryFields
    <3> QED
      BY <2>1, <2>3, <3>1, WithManifest
  <2>5. StagingOK(command', staging', ledger)
    BY <2>2, <2>3, <2>4 DEF StagingOK
  <2> QED
    BY <2>1, <2>2, <2>5, OperationStep
<1> QED
  BY <1>2, <1>3, <1>4, <1>5, <1>6 DEF Backup

(* The stages of a restore keep the invariant.                             *)
LEMMA RestoreStep ==
    ASSUME Inv, Restore
    PROVE  Inv'
<1>1. CASE BundleRefused
  BY <1>1, RejectedStep DEF BundleRefused
<1> SUFFICES ASSUME ReadManifest \/ ReadDatabase \/ ReadBlobs \/ StageTarget
             PROVE  Inv'
  BY <1>1 DEF Restore
<1>2. /\ ledger \in Seq(Contents) /\ CommandOK(command, ledger)
      /\ StagingOK(command, staging, ledger) /\ FilesOK(files, ledger)
      /\ command.kind = "restore" /\ command.stage # "idle" /\ ~command.waits
      /\ command.from \in Places
  BY DEF Inv, SavesOK, ReadManifest, ReadDatabase, ReadBlobs, StageTarget, At,
      CommandOK
<1>3. UNCHANGED <<workspace, save, files, status, notes>>
  BY DEF ReadManifest, ReadDatabase, ReadBlobs, StageTarget
<1>4. CASE ReadManifest
  <2>1. /\ staging' = [Empty("workspace") EXCEPT !.manifest = Source.manifest]
        /\ command' = [command EXCEPT !.stage = "database"]
        /\ Source # None /\ Source.kind = "bundle"
    BY <1>4 DEF ReadManifest, Goes, IsBundle
  <2>2. /\ CommandOK(command', ledger) /\ command'.stage = "database"
        /\ command'.kind = "restore"
    BY <1>2, <2>1, GoesOK
  <2>3. Prefix(Source.manifest, ledger)
    BY <1>2, <2>1 DEF FilesOK, Source
  <2>4. /\ staging' \in Directory /\ staging'.manifest = Source.manifest
        /\ staging'.kind = "workspace" /\ staging'.bad = {} /\ staging' # None
    <3>1. Source.manifest \in Seq(Contents) \cup {None}
      BY <2>3 DEF Prefix
    <3>2. /\ Empty("workspace") \in Directory /\ Empty("workspace").bad = {}
          /\ Empty("workspace").kind = "workspace"
      BY EmptyFields
    <3> QED
      BY <2>1, <3>1, <3>2, WithManifest
  <2>5. StagingOK(command', staging', ledger)
    BY <2>2, <2>3, <2>4 DEF StagingOK
  <2> QED
    BY <1>3, <2>2, <2>5, OperationStep
<1>5. CASE ReadDatabase
  <2>1. /\ staging' = [staging EXCEPT !.revisions = staging.manifest]
        /\ command' = [command EXCEPT !.stage = "blobs"]
        /\ command.stage = "database"
    BY <1>5 DEF ReadDatabase, Goes, At
  <2>2. /\ CommandOK(command', ledger) /\ command'.stage = "blobs"
        /\ command'.kind = "restore"
    BY <1>2, <2>1, GoesOK
  <2>3. /\ staging \in Directory /\ staging.bad = {} /\ staging.kind = "workspace"
        /\ Prefix(staging.manifest, ledger) /\ staging.manifest \in Seq(Contents)
    BY <1>2, <2>1 DEF StagingOK, Prefix
  <2>4. /\ staging' \in Directory /\ staging'.revisions = staging.manifest
        /\ staging'.kind = "workspace" /\ staging'.bad = {} /\ staging' # None
    BY <2>1, <2>3, WithRevisions
  <2>5. StagingOK(command', staging', ledger)
    BY <2>2, <2>3, <2>4 DEF StagingOK
  <2> QED
    BY <1>3, <2>2, <2>5, OperationStep
<1>6. CASE ReadBlobs
  <2>1. /\ staging' = [staging EXCEPT !.blobs = Range(staging.revisions)]
        /\ command' = [command EXCEPT !.stage = "stage"]
        /\ command.stage = "blobs"
    BY <1>6 DEF ReadBlobs, Goes, At
  <2>2. /\ CommandOK(command', ledger) /\ command'.stage = "stage"
        /\ command'.kind = "restore"
    BY <1>2, <2>1, GoesOK
  <2>3. /\ staging \in Directory /\ staging.bad = {} /\ staging.kind = "workspace"
        /\ Prefix(staging.revisions, ledger)
    BY <1>2, <2>1 DEF StagingOK
  <2>4. Range(staging.revisions) \in SUBSET Contents
    BY <2>3, RangeOfSeq, DirectoryFields
  <2>5. /\ staging' \in Directory /\ staging'.revisions = staging.revisions
        /\ staging'.blobs = Range(staging.revisions)
        /\ staging'.kind = "workspace" /\ staging'.bad = {} /\ staging' # None
    BY <2>1, <2>3, <2>4, WithBlobs
  <2>6. StagingOK(command', staging', ledger)
    BY <2>2, <2>3, <2>5 DEF StagingOK
  <2> QED
    BY <1>3, <2>2, <2>6, OperationStep
<1>7. CASE StageTarget
  <2>1. /\ staging' = [staging EXCEPT !.manifest = None]
        /\ command' = [command EXCEPT !.stage = "publish"]
        /\ command.stage = "stage"
    BY <1>7 DEF StageTarget, Goes, At
  <2>2. /\ CommandOK(command', ledger) /\ command'.stage = "publish"
        /\ command'.kind = "restore"
    BY <1>2, <2>1, GoesOK
  <2>3. /\ staging \in Directory /\ staging.bad = {} /\ staging.kind = "workspace"
        /\ Prefix(staging.revisions, ledger)
        /\ staging.blobs = Range(staging.revisions)
    BY <1>2, <2>1 DEF StagingOK
  <2>4. /\ staging' \in Directory /\ staging'.revisions = staging.revisions
        /\ staging'.blobs = staging.blobs
        /\ staging'.kind = "workspace" /\ staging'.bad = {} /\ staging' # None
    BY <2>1, <2>3, WithManifest
  <2>5. StagingOK(command', staging', ledger)
    BY <2>2, <2>3, <2>4 DEF StagingOK
  <2> QED
    BY <1>3, <2>2, <2>5, OperationStep
<1> QED
  BY <1>4, <1>5, <1>6, <1>7

(* Looking at the place, the rename and the status keep the invariant.     *)
LEMMA FinishStep ==
    ASSUME Inv, Finish
    PROVE  Inv'
<1>1. CASE PlaceTaken \/ RenameFails
  BY <1>1, RejectedStep DEF PlaceTaken, RenameFails
<1>2. /\ SavesOK /\ ledger \in Seq(Contents) /\ CommandOK(command, ledger)
      /\ StagingOK(command, staging, ledger) /\ FilesOK(files, ledger)
  BY DEF Inv, SavesOK
<1>3. CASE Rename
  <2>1. /\ command.stage = "rename" /\ ~command.waits
        /\ files' = [files EXCEPT ![command.to] = staging] /\ staging' = None
        /\ command' = [command EXCEPT !.stage = "status"]
        /\ UNCHANGED <<workspace, save, status, commands, faults, late>>
    BY <1>2, <1>3 DEF Rename, Goes, notes, CommandOK
  <2>2. CommandOK(command', ledger) /\ command'.stage = "status"
    BY <1>2, <2>1, GoesOK
  <2>3. StagingOK(command', None, ledger)
    BY <2>2 DEF StagingOK
  <2>4. command.kind \in {"backup", "restore"}
    BY <1>2 DEF CommandOK, Commands
  <2>5. /\ staging \in Directory /\ staging # None
        /\ staging.kind = "bundle" => Prefix(staging.manifest, ledger)
    BY <1>2, <2>1, <2>4 DEF StagingOK
  <2>6. FilesOK(files', ledger)
    <3>1. files \in [Places -> Directory \cup {None}]
      BY <1>2 DEF FilesOK
    <3>2. files' \in [Places -> Directory \cup {None}]
      BY <2>1, <2>5, <3>1
    <3>3. ASSUME NEW p \in Places, files'[p] # None, files'[p].kind = "bundle"
          PROVE  Prefix(files'[p].manifest, ledger)
      <4>1. files'[p] = IF p = command.to THEN staging ELSE files[p]
        BY <2>1, <3>1
      <4> QED
        BY <1>2, <2>5, <3>3, <4>1 DEF FilesOK
    <3> QED
      BY <3>2, <3>3 DEF FilesOK
  <2>7. SavesOK'
    BY <1>2, <2>1, SavesKept DEF SavesOK
  <2> QED
    BY <2>1, <2>2, <2>3, <2>6, <2>7 DEF Inv, workspace
<1>4. CASE WriteStatus \/ StatusFails
  <2>1. /\ command' = NoCommand /\ command.stage = "status"
        /\ UNCHANGED <<workspace, save, files, staging, commands, faults, late>>
        /\ \/ status' = [kind |-> command.kind, place |-> command.to]
           \/ status' = status
    BY <1>4 DEF WriteStatus, StatusFails, notes
  <2>2. staging = None
    BY <1>2, <2>1 DEF StagingOK
  <2>3. command.kind \in {"backup", "restore"} /\ command.to \in Places
    BY <1>2, <2>1 DEF CommandOK, Commands
  <2>4. SavesOK'
    BY <1>2, <2>1, <2>3 DEF SavesOK, workspace
  <2> QED
    BY <1>2, <2>1, <2>2, <2>4, NoCommandOK DEF Inv, workspace
<1>5. CASE FindsPlaceFree
  <2>1. /\ command.stage = "publish" /\ ~command.waits
        /\ command' = [command EXCEPT !.stage = "rename"] /\ late' = FALSE
        /\ UNCHANGED <<workspace, save, files, staging, status, commands, faults>>
    BY <1>5 DEF FindsPlaceFree, Finishing, Goes
  <2>2. /\ CommandOK(command', ledger) /\ command'.stage = "rename"
        /\ command'.kind = command.kind /\ command'.asked = command.asked
    BY <1>2, <2>1, GoesOK
  <2>3. StagingOK(command', staging', ledger)
    BY <1>2, <2>1, <2>2 DEF StagingOK
  <2>4. SavesOK'
    BY <1>2, <2>1, SavesKept DEF SavesOK
  <2> QED
    BY <1>2, <2>1, <2>2, <2>3, <2>4 DEF Inv, workspace
<1> QED
  BY <1>1, <1>3, <1>4, <1>5 DEF Finish

-----------------------------------------------------------------------------
(* The environment.                                                        *)

(* Kills, damage and the author's file manager keep the invariant.         *)
LEMMA FaultStep ==
    ASSUME Inv, Killed \/ SpoilBlob \/ SpoilEntry \/ AuthorMovesFiles
    PROVE  Inv'
<1>1. /\ SavesOK /\ CommandOK(command, ledger)
      /\ StagingOK(command, staging, ledger) /\ FilesOK(files, ledger)
      /\ files \in [Places -> Directory \cup {None}]
  BY DEF Inv, FilesOK
<1>2. /\ faults' \in Nat /\ commands' \in Nat /\ ledger' = ledger
      /\ late' \in BOOLEAN
  <2>1. faults' \in Nat /\ commands' \in Nat /\ ledger' = ledger
    BY <1>1 DEF Killed, SpoilBlob, SpoilEntry, AuthorMovesFiles, Fault, SavesOK,
        workspace
  <2>2. late \in BOOLEAN
    BY <1>1 DEF SavesOK
  <2>3. late' \in BOOLEAN
    BY <2>2, Zenon DEF Killed, SpoilBlob, SpoilEntry, AuthorMovesFiles
  <2> QED
    BY <2>1, <2>3
<1>3. CASE Killed
  <2>1. SavesOK'
    BY <1>1, <1>2, <1>3 DEF Killed, SavesOK, NoSave, workspace
  <2> QED
    BY <1>1, <1>2, <1>3, <2>1, NoCommandOK DEF Killed, Inv
<1>4. CASE SpoilBlob
  <2>1. SavesOK'
    BY <1>1, <1>2, <1>4 DEF SpoilBlob, SavesOK
  <2> QED
    BY <1>1, <1>2, <1>4, <2>1 DEF SpoilBlob, Inv, operation
<1>5. CASE SpoilEntry
  <2>1. PICK p \in Places, e \in Entries :
            files[p] # None /\ files' = [files EXCEPT ![p].bad = @ \cup {e}]
    BY <1>5 DEF SpoilEntry
  <2>2. UNCHANGED <<workspace, save, command, staging, status>>
    BY <1>5 DEF SpoilEntry, operation
  <2>3. SavesOK'
    BY <1>1, <1>2, <2>2, SavesKept
  <2> DEFINE d == [files[p] EXCEPT !.bad = @ \cup {e}]
  <2>4. files[p] \in Directory
    BY <1>1, <2>1
  <2>5. d \in Directory
    <3>1. files[p].bad \cup {e} \in SUBSET Entries
      BY <2>1, <2>4 DEF Directory
    <3> QED
      BY <2>4, <3>1, Zenon DEF Directory
  <2>6. d.manifest = files[p].manifest /\ d.kind = files[p].kind
    BY <2>4 DEF Directory
  <2>7. files' = [files EXCEPT ![p] = d]
    BY <2>1
  <2> HIDE DEF d
  <2>8. files' \in [Places -> Directory \cup {None}]
    BY <1>1, <2>5, <2>7
  <2>9. \A q \in Places : files'[q] = IF q = p THEN d ELSE files[q]
    BY <1>1, <2>7
  <2>10. FilesOK(files', ledger)
    BY <1>1, <2>1, <2>6, <2>8, <2>9 DEF FilesOK
  <2> QED
    BY <1>1, <1>2, <2>2, <2>3, <2>10 DEF Inv
<1>6. CASE AuthorMovesFiles
  <2>1. PICK p \in Places, foreign \in Foreign :
            files' = [files EXCEPT ![p] = IF @ = None THEN foreign ELSE None]
    BY <1>6 DEF AuthorMovesFiles
  <2>2. UNCHANGED <<workspace, save, command, staging, status>>
    BY <1>6 DEF AuthorMovesFiles, operation
  <2>3. SavesOK'
    BY <1>1, <1>2, <2>2, SavesKept
  <2> DEFINE d == IF files[p] = None THEN foreign ELSE None
  <2>4. d \in Directory \cup {None} /\ (d # None => d.kind # "bundle")
    BY EmptyFields DEF Foreign
  <2>5. files' = [files EXCEPT ![p] = d]
    BY <2>1
  <2> HIDE DEF d
  <2>6. files' \in [Places -> Directory \cup {None}]
    BY <1>1, <2>4, <2>5
  <2>7. \A q \in Places : files'[q] = IF q = p THEN d ELSE files[q]
    BY <1>1, <2>5
  <2>8. FilesOK(files', ledger)
    BY <1>1, <2>4, <2>6, <2>7 DEF FilesOK
  <2> QED
    BY <1>1, <1>2, <2>2, <2>3, <2>8 DEF Inv
<1> QED
  BY <1>3, <1>4, <1>5, <1>6

-----------------------------------------------------------------------------
(* The theorems.                                                           *)

(* The inductive invariant.                                                *)
THEOREM Invariance == Spec => []Inv
<1>1. Init => Inv
  <2> SUFFICES ASSUME Init PROVE Inv
    OBVIOUS
  <2>1. SavesOK
    <3>1. <<>> \in Seq(Contents) /\ Range(<<>>) = {}
      BY DEF Range
    <3> QED
      BY <3>1 DEF Init, SavesOK, NoSave
  <2>2. FilesOK(files, ledger)
    BY DEF Init, FilesOK
  <2> QED
    BY <2>1, <2>2, NoCommandOK DEF Init, Inv
<1>2. Inv /\ [Next]_vars => Inv'
  <2> SUFFICES ASSUME Inv, [Next]_vars PROVE Inv'
    OBVIOUS
  <2>1. CASE UNCHANGED vars
    BY <2>1 DEF vars, workspace, operation, notes, Inv, SavesOK
  <2>2. CASE Aborts
    BY <2>2, RejectedStep DEF Aborts
  <2> QED
    BY <2>1, <2>2, SaveStep, SaveEndStep, AskStep, BackupStep, RestoreStep,
        FinishStep, FaultStep DEF Next
<1> QED
  BY <1>1, <1>2, PTL DEF Spec

(* Every variable keeps its type; every committed revision has its blob,   *)
(* and a directory is staged exactly while a command fills it (append,     *)
(* publishRevisionBlob, cleanupOwnedRoot).                                 *)
THEOREM TypeCorrect == Spec => []TypeOK
<1>1. Inv => TypeOK
  <2> SUFFICES ASSUME Inv PROVE TypeOK
    OBVIOUS
  <2>1. command \in Commands /\ staging \in Directory \cup {None}
    BY DEF Inv, CommandOK, StagingOK
  <2>2. (staging # None) <=> command.stage \notin {"idle", "begin", "status"}
    BY DEF Inv, StagingOK
  <2>3. files \in [Places -> Directory \cup {None}]
    BY DEF Inv, FilesOK
  <2> QED
    BY <2>1, <2>2, <2>3 DEF Inv, SavesOK, TypeOK, Commands
<1> QED
  BY <1>1, Invariance, PTL

(* A command changes what is at a place by its rename only.                *)
LEMMA ChangedByRename ==
    ASSUME [Next]_vars, command' # command, files' # files
    PROVE  Rename
BY DEF Next, SaveBegins, SavePublishes, SaveCommits, SaveFails, Ask, Aborts, Rejected,
    Backup, BackupBegins, CopyPages, CopyBlob, BlobUnreadable, WriteManifest, Restore,
    ReadManifest, ReadDatabase, ReadBlobs, BundleRefused, StageTarget, Finish,
    FindsPlaceFree, PlaceTaken, RenameFails, WriteStatus, StatusFails, Killed,
    SpoilBlob, SpoilEntry, AuthorMovesFiles, operation, vars

(* What a command publishes is what it staged.                             *)
LEMMA PublishedWasStaged ==
    ASSUME Inv, [Next]_vars, NEW p \in Places, NEW kind, Publishes(p, kind)
    PROVE  /\ files'[p] = staging /\ staging.kind = kind /\ staging # None
           /\ command.stage = "rename"
<1>1. files \in [Places -> Directory \cup {None}] /\ StagingOK(command, staging, ledger)
  BY DEF Inv, FilesOK
<1>2. /\ command' # command /\ files'[p] # files[p]
      /\ files'[p] # None /\ files'[p].kind = kind
  BY DEF Publishes
<1>3. files' # files
  BY <1>2
<1>4. /\ command.stage = "rename"
      /\ files' = [files EXCEPT ![command.to] = staging]
  BY <1>2, <1>3, ChangedByRename DEF Rename
<1>5. files'[p] = staging
  BY <1>1, <1>2, <1>4
<1> QED
  BY <1>2, <1>4, <1>5

(* Whatever saves commit during a backup, the bundle it publishes holds a  *)
(* state the workspace had, no older than the request, with every blob     *)
(* and its own manifest (createNodeSqliteBackupBundle).                    *)
THEOREM BundlesAreWhole == Spec => PublishedBundleIsWhole
<1> DEFINE Made(p) ==
        Publishes(p, "bundle") =>
            LET made == files'[p]
            IN  /\ made.revisions = SubSeq(ledger, 1, Len(made.revisions))
                /\ command.asked <= Len(made.revisions)
                /\ made.blobs = Range(made.revisions)
                /\ made.manifest = made.revisions
                /\ made.bad = {}
<1>1. Inv /\ [Next]_vars => [\A p \in Places : Made(p)]_vars
  <2> SUFFICES ASSUME Inv, [Next]_vars, NEW p \in Places, Publishes(p, "bundle")
               PROVE  Made(p)
    OBVIOUS
  <2>1. /\ files'[p] = staging /\ command.stage = "rename" /\ staging # None
        /\ staging.kind = "bundle"
    BY PublishedWasStaged
  <2>2. /\ ledger \in Seq(Contents) /\ StagingOK(command, staging, ledger)
        /\ command.kind \in {"backup", "restore"}
    BY DEF Inv, SavesOK, CommandOK, Commands
  <2>3. command.kind = "backup"
    BY <2>1, <2>2 DEF StagingOK
  <2>4. /\ Prefix(staging.revisions, ledger) /\ command.asked <= Len(staging.revisions)
        /\ staging.blobs = Range(staging.revisions)
        /\ staging.manifest = staging.revisions /\ staging.bad = {}
    BY <2>1, <2>2, <2>3 DEF StagingOK
  <2>5. staging.revisions = SubSeq(ledger, 1, Len(staging.revisions))
    BY <2>2, <2>4, PrefixIsSubSeq
  <2> QED
    BY <2>1, <2>4, <2>5
<1> QED
  BY <1>1, Invariance, PTL DEF Spec, PublishedBundleIsWhole

(* Whatever happens to the bundle before or during a restore, a workspace  *)
(* that is published is whole, and is a state the workspace had            *)
(* (restoreNodeSqliteBackupBundle).                                        *)
THEOREM RestoredStatesAreWhole == Spec => RestoredIsWhole
<1> DEFINE Made(p) ==
        Publishes(p, "workspace") =>
            LET made == files'[p]
            IN  /\ made.revisions = SubSeq(ledger, 1, Len(made.revisions))
                /\ made.blobs = Range(made.revisions)
                /\ made.bad = {}
<1>1. Inv /\ [Next]_vars => [\A p \in Places : Made(p)]_vars
  <2> SUFFICES ASSUME Inv, [Next]_vars, NEW p \in Places, Publishes(p, "workspace")
               PROVE  Made(p)
    OBVIOUS
  <2>1. /\ files'[p] = staging /\ command.stage = "rename" /\ staging # None
        /\ staging.kind = "workspace"
    BY PublishedWasStaged
  <2>2. /\ ledger \in Seq(Contents) /\ StagingOK(command, staging, ledger)
        /\ command.kind \in {"backup", "restore"}
    BY DEF Inv, SavesOK, CommandOK, Commands
  <2>3. command.kind = "restore"
    BY <2>1, <2>2 DEF StagingOK
  <2>4. /\ Prefix(staging.revisions, ledger)
        /\ staging.blobs = Range(staging.revisions) /\ staging.bad = {}
    BY <2>1, <2>2, <2>3 DEF StagingOK
  <2>5. staging.revisions = SubSeq(ledger, 1, Len(staging.revisions))
    BY <2>2, <2>4, PrefixIsSubSeq
  <2> QED
    BY <2>1, <2>4, <2>5
<1> QED
  BY <1>1, Invariance, PTL DEF Spec, RestoredIsWhole

(* A command that is about to rename found its place free, and what is     *)
(* there now was put there since.                                          *)
LEMMA LateStep ==
    ASSUME Inv, [Next]_vars, FreeOrLate
    PROVE  FreeOrLate'
<1>1. /\ files \in [Places -> Directory \cup {None}] /\ CommandOK(command, ledger)
      /\ late \in BOOLEAN
  BY DEF Inv, FilesOK, SavesOK
<1> SUFFICES ASSUME command'.stage = "rename", files'[command'.to] # None
             PROVE  late'
  BY DEF FreeOrLate
<1>2. CASE FindsPlaceFree
  <2>1. /\ command' = [command EXCEPT !.stage = "rename"]
        /\ files[command.to] = None /\ files' = files
    BY <1>2 DEF FindsPlaceFree, Goes
  <2>2. command'.to = command.to
    BY <1>1, <2>1 DEF CommandOK, Commands
  <2> QED
    BY <2>1, <2>2
<1>3. CASE AuthorMovesFiles
  <2>1. PICK p \in Places :
            /\ \A q \in Places : q # p => files'[q] = files[q]
            /\ late' = (late \/ /\ command.stage = "rename" /\ p = command.to
                                /\ files[p] = None)
            /\ command' = command
    BY <1>1, <1>3 DEF AuthorMovesFiles, operation
  <2>2. command.to \in Places
    BY <1>1, <2>1 DEF CommandOK
  <2> QED
    BY <1>1, <2>1, <2>2 DEF FreeOrLate
<1>4. CASE SaveCommits \/ SaveFails
  <2>1. /\ command'.stage = command.stage /\ command'.to = command.to
    BY <1>1, <1>4 DEF SaveCommits, SaveFails, SaveEnds, CommandOK, Commands
  <2>2. files' = files /\ late' = late
    BY <1>4 DEF SaveCommits, SaveFails, notes
  <2> QED
    BY <2>1, <2>2 DEF FreeOrLate
<1>5. CASE SpoilEntry
  <2>1. PICK q \in Places, e \in Entries :
            /\ files[q] # None /\ files' = [files EXCEPT ![q].bad = @ \cup {e}]
            /\ late' = late /\ command' = command
    BY <1>5 DEF SpoilEntry, operation
  <2>2. command.to \in Places
    BY <1>1, <2>1 DEF CommandOK
  <2>3. files[command.to] # None
    BY <1>1, <2>1, <2>2
  <2> QED
    BY <2>1, <2>3 DEF FreeOrLate
<1>6. CASE /\ command' = command /\ files' = files /\ late' = late
  BY <1>6 DEF FreeOrLate
<1>7. CASE Ask
  BY <1>7 DEF Ask, Asked, NoCommand
<1>8. CASE Rejected
  BY <1>8 DEF Rejected, NoCommand
<1>9. CASE Backup
  BY <1>1, <1>6, <1>8, <1>9 DEF Backup, BackupBegins, CopyPages, CopyBlob,
      BlobUnreadable, WriteManifest, Goes, CommandOK, Commands, At, notes
<1>10. CASE Restore
  BY <1>1, <1>8, <1>10 DEF Restore, ReadManifest, ReadDatabase, ReadBlobs,
      BundleRefused, StageTarget, Goes, CommandOK, Commands
<1>11. CASE Rename \/ WriteStatus \/ StatusFails
  BY <1>1, <1>11 DEF Rename, WriteStatus, StatusFails, Goes, NoCommand, CommandOK,
      Commands
<1>12. CASE UNCHANGED vars \/ SaveBegins \/ SavePublishes \/ SpoilBlob
  BY <1>6, <1>12 DEF SaveBegins, SavePublishes, SpoilBlob, operation, notes, vars
<1>13. CASE Killed
  BY <1>13 DEF Killed, NoCommand
<1>14. CASE Aborts \/ PlaceTaken \/ RenameFails
  BY <1>8, <1>14 DEF Aborts, PlaceTaken, RenameFails
<1> QED
  BY <1>2, <1>3, <1>4, <1>5, <1>7, <1>9, <1>10, <1>11, <1>12, <1>13, <1>14
  DEF Next, Finish

(* Between the look at the place and the rename the author may put         *)
(* something there that the rename replaces.  Nothing else that was at a   *)
(* place is changed by a command (renameNoReplace).                        *)
THEOREM CommandsOverwriteNothing == Spec => NothingIsOverwritten
<1>1. Init => FreeOrLate
  BY DEF Init, FreeOrLate, NoCommand
<1>2. Inv /\ [Next]_vars /\ FreeOrLate => FreeOrLate'
  BY LateStep
<1>3. Inv /\ FreeOrLate /\ [Next]_vars =>
          [command' # command =>
               \A p \in Places :
                   files[p] # None /\ files'[p] # files[p] =>
                       p = command.to /\ GivesWay(files[p]) /\ late]_vars
  <2> SUFFICES ASSUME Inv, FreeOrLate, [Next]_vars, command' # command,
                      NEW p \in Places, files[p] # None, files'[p] # files[p]
               PROVE  p = command.to /\ GivesWay(files[p]) /\ late
    OBVIOUS
  <2>1. files \in [Places -> Directory \cup {None}]
    BY DEF Inv, FilesOK
  <2>2. /\ command.stage = "rename"
        /\ files[command.to] # None => GivesWay(files[command.to])
        /\ files' = [files EXCEPT ![command.to] = staging]
    BY ChangedByRename DEF Rename
  <2>3. p = command.to
    BY <2>1, <2>2
  <2> QED
    BY <2>2, <2>3 DEF FreeOrLate
<1> QED
  BY <1>1, <1>2, <1>3, Invariance, PTL DEF Spec, NothingIsOverwritten
=============================================================================
