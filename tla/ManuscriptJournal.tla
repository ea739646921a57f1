-------------------------- MODULE ManuscriptJournal --------------------------
(***************************************************************************)
(* The journal persistence of the configured runtime: SaveChangeBatch      *)
(* appends the batches of every document to one append-only journal        *)
(* (append-only-journal.ts, journal-frame.ts); a restart scans and replays *)
(* it (manuscript-startup-recovery.ts, replay-journal.ts) and offers the   *)
(* result; applying it compacts the journal into new revisions and moves   *)
(* to an empty next generation (compact-journal-into-revision.ts,          *)
(* poc-journal-compaction-port.ts).                                        *)
(*                                                                         *)
(* A batch is a number and a text is the sequence of batches that made it. *)
(* Lengths are compared where the code compares lengths: every batch is    *)
(* taken to add the same number of code units, the case in which the       *)
(* length check of applyChangeBatch tells least.                           *)
(***************************************************************************)
EXTENDS Naturals, Sequences, FiniteSets

CONSTANTS
    Docs,
    MaxBatches,   \* bound on the batches the windows make
    MaxFailures,  \* bound on the failures of writes, syncs and file creations
    MaxCrashes,   \* bound on the kills of the main process
    MaxReloads,   \* bound on the reloads of the window
    NoBatch,      \* null for the attempt of a queue
    Torn,         \* bytes of a frame that was not written to its end
    Absent,       \* a file that does not exist
    Partial       \* a file that was not written to its end

Ids == 1 .. MaxBatches
Texts == UNION {[1 .. n -> Ids] : n \in 0 .. MaxBatches}

(* A file that is missing, or not whole, is not mistaken for a text or for *)
(* a list of documents.                                                    *)
ASSUME ConstantsAssumption ==
    /\ {MaxBatches, MaxFailures, MaxCrashes, MaxReloads} \subseteq Nat
    /\ NoBatch \notin Nat
    /\ Torn \notin Nat
    /\ Absent # Partial
    /\ {Absent, Partial} \cap Texts = {}
    /\ \A published \in SUBSET Docs : published \notin {Absent, Partial}

VARIABLES
    journal,      \* the frames of the source and of the next generation
    synced,       \* how many of them were synced
    content,      \* the revision content file of each document
    nextCreated,  \* the next journal generation was created
    temporary,    \* the publication temporary file
    publication,  \* the documents of the published compaction, or Absent
    startup,      \* the main process: "down" or how startup was resolved
    available,    \* a recovery apply profile matches the candidate
    profile,      \* document profile and sequences of the startup
    targets,      \* #targetsByDocument of SaveChangeBatch
    accepted,     \* #acceptedByBatchId of SaveChangeBatch
    calls,        \* the saves chained on #pending
    append,       \* where the append of the first of them is
    phase,        \* where the apply of a recovery is
    queue,        \* the save queue of each document in the window
    batches,      \* the batches made so far
    acked,        \* those a window got a receipt for
    failures, crashes, reloads

journalVars == <<journal, synced>>
fileVars == <<content, nextCreated, temporary, publication>>
startupVars == <<startup, available, profile>>
saveVars == <<targets, accepted, calls, append>>
windowVars == <<queue, batches, acked>>
counters == <<failures, crashes, reloads>>
vars == <<journalVars, fileVars, startupVars, saveVars, phase, windowVars, counters>>

Elements(s) == {s[i] : i \in 1 .. Len(s)}

-----------------------------------------------------------------------------
(* Replay.                                                                 *)

Baseline == [doc \in Docs |-> [text |-> <<>>, next |-> 0, base |-> "baseline"]]

(* The checks of a batch against the head of its document.                 *)
Acceptable(target, b) ==
    /\ target.base = b.base
    /\ target.next = b.sequence
    /\ Len(target.text) = Len(b.before)

Advance(heads, b) ==
    [heads EXCEPT ![b.doc].text = Append(@, b.id), ![b.doc].next = @ + 1]

(* Mutant: a batch that is there twice stops the replay.                   *)
ReplayFrameWithoutDuplicates(r, frame) ==
    IF r.stopped \/ frame = Torn \/ ~Acceptable(r.heads[batches[frame].doc], batches[frame])
    THEN [r EXCEPT !.stopped = TRUE]
    ELSE [r EXCEPT !.heads = Advance(@, batches[frame]), !.applied = @ \cup {frame}]

(* Mutant: a batch that does not fit is passed over.                       *)
ReplayFrameSkipping(r, frame) ==
    CASE r.stopped \/ frame \in r.applied -> r
      [] ~r.stopped /\ frame = Torn -> [r EXCEPT !.stopped = TRUE]
      [] OTHER ->
             IF Acceptable(r.heads[batches[frame].doc], batches[frame])
             THEN [r EXCEPT !.heads = Advance(@, batches[frame]),
                            !.applied = @ \cup {frame}]
             ELSE r

(* One record of the journal: the scan stops at the first frame that does  *)
(* not verify, the replay at the first batch that does not fit; a batch    *)
(* that was applied before is a duplicate.                                 *)
ReplayFrame(r, frame) ==
    CASE r.stopped -> r
      [] ~r.stopped /\ frame = Torn -> [r EXCEPT !.stopped = TRUE]
      [] ~r.stopped /\ frame \in r.applied -> r
      [] OTHER ->
             IF Acceptable(r.heads[batches[frame].doc], batches[frame])
             THEN [r EXCEPT !.heads = Advance(@, batches[frame]),
                            !.applied = @ \cup {frame}]
             ELSE [r EXCEPT !.stopped = TRUE]

(* CHOOSE has one value to choose from: it makes TLC evaluate the replay   *)
(* of the shorter journal once.                                            *)
Replay(heads, frames) ==
    LET from[n \in 0 .. Len(frames)] ==
            IF n = 0 THEN [heads |-> heads, applied |-> {}, stopped |-> FALSE]
            ELSE CHOOSE r \in {ReplayFrame(s, frames[n]) : s \in {from[n - 1]}} : TRUE
    IN  from[Len(frames)]

-----------------------------------------------------------------------------
(* The startup source.                                                     *)

(* The heads a publication puts in place of those of the baseline.         *)
PublishedHeads ==
    [doc \in Docs |->
        IF doc \in publication
        THEN [text |-> content[doc], next |-> Len(content[doc]), base |-> "published"]
        ELSE Baseline[doc]]

(* A publication is checked with its contents and its journal generation.  *)
PublicationInvalid ==
    /\ publication # Absent
    /\ \/ Torn \in Elements(journal["next"])
       \/ ~nextCreated
       \/ \E doc \in publication : content[doc] \in {Absent, Partial}

Source ==
    IF publication = Absent
    THEN [generation |-> "source", heads |-> Baseline]
    ELSE [generation |-> "next", heads |-> PublishedHeads]

Candidate == Replay(Source.heads, journal[Source.generation])

Affected == {doc \in Docs : Candidate.heads[doc] # Source.heads[doc]}

(* The recovery state a startup comes to.                                  *)
Resolution ==
    CASE PublicationInvalid -> "read-only"
      [] ~PublicationInvalid /\ Candidate.applied # {} -> "pending"
      [] OTHER -> IF Candidate.stopped THEN "read-only" ELSE "clean"

IdleQueue(head) ==
    [text |-> head.text, next |-> head.next, base |-> head.base,
     attempt |-> NoBatch, failed |-> FALSE]

(* The runtime of a startup and the window that reads its projections.     *)
StartWith(resolution, heads) ==
    /\ startup' = resolution
    /\ profile' = heads
    /\ targets' = heads
    /\ accepted' = {}
    /\ queue' = [doc \in Docs |-> IdleQueue(heads[doc])]

-----------------------------------------------------------------------------
Init ==
    /\ journal = [g \in {"source", "next"} |-> <<>>]
    /\ synced = [g \in {"source", "next"} |-> 0]
    /\ content = [doc \in Docs |-> Absent]
    /\ nextCreated = FALSE
    /\ temporary = Absent
    /\ publication = Absent
    /\ startup = "down"
    /\ available = FALSE
    /\ profile = Baseline
    /\ targets = Baseline
    /\ accepted = {}
    /\ calls = <<>>
    /\ append = "idle"
    /\ phase = "idle"
    /\ queue = [doc \in Docs |-> IdleQueue(Baseline[doc])]
    /\ batches = <<>>
    /\ acked = {}
    /\ failures = 0 /\ crashes = 0 /\ reloads = 0

(* A launch.  The caller keeps the apply profile of a publication; before  *)
(* there is one it may give a profile for the candidate, with paths of its *)
(* own.                                                                    *)
Start ==
    /\ startup = "down"
    /\ StartWith(Resolution, IF PublicationInvalid THEN Baseline ELSE Source.heads)
    /\ \E given \in BOOLEAN :
           available' = (given /\ Resolution = "pending" /\ publication = Absent)
    /\ IF publication = Absent
       THEN /\ content' = [doc \in Docs |-> Absent]
            /\ nextCreated' = FALSE
            /\ temporary' = Absent
       ELSE UNCHANGED <<content, nextCreated, temporary>>
    /\ UNCHANGED <<journalVars, publication, calls, append, phase, batches, acked,
                   counters>>

(* The main process is killed, and bytes that were not synced may be lost. *)
Crash ==
    /\ startup # "down"
    /\ crashes < MaxCrashes
    /\ crashes' = crashes + 1
    /\ startup' = "down"
    /\ available' = FALSE
    /\ calls' = <<>>
    /\ append' = "idle"
    /\ phase' = "idle"
    /\ LET g == Source.generation
           whole(n) == SubSeq(journal[g], 1, n)
       IN  \E n \in synced[g] .. Len(journal[g]) :
               \/ journal' = [journal EXCEPT ![g] = whole(n)]
               \/ /\ n < Len(journal[g])
                  /\ journal' = [journal EXCEPT ![g] = Append(whole(n), Torn)]
    /\ synced' = [g \in {"source", "next"} |-> Len(journal'[g])]
    /\ UNCHANGED <<fileVars, profile, targets, accepted, windowVars, failures, reloads>>

(* The window is loaded again and reads the projections of the startup.    *)
Reload ==
    /\ startup = "clean"
    /\ reloads < MaxReloads
    /\ reloads' = reloads + 1
    /\ queue' = [doc \in Docs |-> IdleQueue(profile[doc])]
    /\ UNCHANGED <<journalVars, fileVars, startupVars, saveVars, phase, batches,
                   acked, failures, crashes>>

-----------------------------------------------------------------------------
(* The queues of the window: SaveQueue has them in detail.                 *)

Send(doc) ==
    LET b == [id |-> Len(batches) + 1, doc |-> doc, base |-> queue[doc].base,
              sequence |-> queue[doc].next, before |-> queue[doc].text]
    IN  /\ startup = "clean"
        /\ queue[doc].attempt = NoBatch
        /\ Len(batches) < MaxBatches
        /\ batches' = Append(batches, b)
        /\ queue' = [queue EXCEPT ![doc].attempt = b.id]
        /\ calls' = Append(calls, b.id)
        /\ UNCHANGED <<journalVars, fileVars, startupVars, targets, accepted, append,
                       phase, acked, counters>>

(* A flush sends a failed attempt again, unchanged.                        *)
Retry(doc) ==
    /\ startup = "clean"
    /\ queue[doc].failed
    /\ queue' = [queue EXCEPT ![doc].failed = FALSE]
    /\ calls' = Append(calls, queue[doc].attempt)
    /\ UNCHANGED <<journalVars, fileVars, startupVars, targets, accepted, append,
                   phase, batches, acked, counters>>

(* The answer to the first call; a window that was loaded again does not   *)
(* have the attempt any more.                                              *)
Awaits(doc, id) == queue[doc].attempt = id

Receipt(b) ==
    /\ calls' = Tail(calls)
    /\ append' = "idle"
    /\ IF Awaits(b.doc, b.id)
       THEN /\ queue' = [queue EXCEPT ![b.doc].text = Append(@, b.id),
                                      ![b.doc].next = @ + 1,
                                      ![b.doc].attempt = NoBatch]
            /\ acked' = acked \cup {b.id}
       ELSE UNCHANGED <<queue, acked>>

(* Mutant: the chain waits for good behind a save that failed.             *)
RejectionBreaksChain(b) ==
    /\ append' = "idle"
    /\ UNCHANGED <<calls, queue, acked>>

(* Mutant: a refused attempt is cleared while its failure is shown.        *)
RejectionDropsAttempt(b) ==
    /\ calls' = Tail(calls)
    /\ append' = "idle"
    /\ queue' = IF Awaits(b.doc, b.id)
                THEN [queue EXCEPT ![b.doc].attempt = NoBatch,
                                   ![b.doc].failed = TRUE]
                ELSE queue
    /\ UNCHANGED acked

Rejection(b) ==
    /\ calls' = Tail(calls)
    /\ append' = "idle"
    /\ queue' = IF Awaits(b.doc, b.id)
                THEN [queue EXCEPT ![b.doc].failed = TRUE] ELSE queue
    /\ UNCHANGED acked

-----------------------------------------------------------------------------
(* SaveChangeBatch: the calls are executed one after another.              *)

First == batches[Head(calls)]

(* An accepted batch gets its receipt again, one that does not fit the     *)
(* head of its document is refused, any other one is appended.             *)
Execute ==
    /\ startup = "clean"
    /\ append = "idle"
    /\ calls # <<>>
    /\ CASE First.id \in accepted -> Receipt(First)
         [] First.id \notin accepted /\ ~Acceptable(targets[First.doc], First) ->
                Rejection(First)
         [] OTHER -> append' = "writing" /\ UNCHANGED <<calls, queue, acked>>
    /\ UNCHANGED <<journalVars, fileVars, startupVars, targets, accepted, phase,
                   batches, counters>>

Written(frame) ==
    journal' = [journal EXCEPT ![Source.generation] = Append(@, frame)]

WriteFrame ==
    /\ append = "writing"
    /\ Written(First.id)
    /\ append' = "syncing"
    /\ UNCHANGED <<synced, fileVars, startupVars, targets, accepted, calls, phase,
                   windowVars, counters>>

(* A write that fails, or makes no progress, may have written bytes: they  *)
(* stay in the journal.                                                    *)
WriteFails ==
    /\ append = "writing"
    /\ failures < MaxFailures
    /\ failures' = failures + 1
    /\ Written(Torn) \/ UNCHANGED journal
    /\ Rejection(First)
    /\ UNCHANGED <<synced, fileVars, startupVars, targets, accepted, phase, batches,
                   crashes, reloads>>

SyncSucceeds ==
    /\ append = "syncing"
    /\ synced' = [synced EXCEPT ![Source.generation] = Len(journal[Source.generation])]
    /\ targets' = Advance(targets, First)
    /\ accepted' = accepted \cup {First.id}
    /\ Receipt(First)
    /\ UNCHANGED <<journal, fileVars, startupVars, phase, batches, counters>>

SyncFails ==
    /\ append = "syncing"
    /\ failures < MaxFailures
    /\ failures' = failures + 1
    /\ Rejection(First)
    /\ UNCHANGED <<journalVars, fileVars, startupVars, targets, accepted, phase,
                   batches, crashes, reloads>>

-----------------------------------------------------------------------------
(* Applying the candidate.                                                 *)

compactionUnchanged == <<startupVars, saveVars, windowVars, crashes, reloads>>

(* The files are created exclusively: those an attempt of this launch left *)
(* make the next one fail.                                                 *)
ApplyBegins ==
    /\ startup = "pending"
    /\ available
    /\ phase = "idle"
    /\ \A doc \in Docs : content[doc] = Absent
    /\ phase' = "prepare"
    /\ UNCHANGED <<journalVars, fileVars, failures, compactionUnchanged>>

PrepareRevision(doc) ==
    /\ phase = "prepare"
    /\ doc \in Affected
    /\ \A other \in Docs : content[other] # Partial
    /\ content[doc] = Absent
    /\ content' = [content EXCEPT ![doc] = Partial]
    /\ UNCHANGED <<journalVars, nextCreated, temporary, publication, phase, failures,
                   compactionUnchanged>>

RevisionSynced(doc) ==
    /\ phase = "prepare"
    /\ content[doc] = Partial
    /\ content' = [content EXCEPT ![doc] = Candidate.heads[doc].text]
    /\ UNCHANGED <<journalVars, nextCreated, temporary, publication, phase, failures,
                   compactionUnchanged>>

(* Mutant: the next generation is left to its first save.                  *)
CreateNextJournalLater ==
    /\ phase = "prepare"
    /\ \A doc \in Affected : content[doc] = Candidate.heads[doc].text
    /\ phase' = "temporary"
    /\ UNCHANGED <<journalVars, content, nextCreated, temporary, publication, failures,
                   compactionUnchanged>>

(* Every content is read back and compared, then the empty next generation *)
(* is created.                                                             *)
CreateNextJournal ==
    /\ phase = "prepare"
    /\ \A doc \in Affected : content[doc] = Candidate.heads[doc].text
    /\ nextCreated' = TRUE
    /\ phase' = "temporary"
    /\ UNCHANGED <<journalVars, content, temporary, publication, failures,
                   compactionUnchanged>>

WriteTemporary ==
    /\ phase = "temporary"
    /\ IF temporary = Absent
       THEN temporary' = Partial /\ UNCHANGED phase
       ELSE temporary' = Affected /\ phase' = "rename"
    /\ UNCHANGED <<journalVars, content, nextCreated, publication, failures,
                   compactionUnchanged>>

(* The commit point of the compaction.                                     *)
RenamePublication ==
    /\ phase = "rename"
    /\ publication' = temporary
    /\ temporary' = Absent
    /\ phase' = "reclaim"
    /\ UNCHANGED <<journalVars, content, nextCreated, failures, compactionUnchanged>>

(* The issues a candidate has keep its source journal.                     *)
HasIssues == Replay(Baseline, journal["source"]).stopped

(* Mutant: the source journal is deleted with the bytes behind an issue.   *)
ReclaimWithIssues ==
    /\ phase = "reclaim"
    /\ phase' = "resolve"
    /\ journal' = [journal EXCEPT !["source"] = <<>>]
    /\ synced' = [synced EXCEPT !["source"] = 0]
    /\ UNCHANGED <<fileVars, failures, compactionUnchanged>>

(* The source journal is deleted; a failure leaves it for good.            *)
Reclaim ==
    /\ phase = "reclaim"
    /\ phase' = "resolve"
    /\ \/ /\ ~HasIssues
          /\ journal' = [journal EXCEPT !["source"] = <<>>]
          /\ synced' = [synced EXCEPT !["source"] = 0]
          /\ UNCHANGED failures
       \/ /\ HasIssues
          /\ UNCHANGED <<journalVars, failures>>
       \/ /\ ~HasIssues
          /\ failures < MaxFailures
          /\ failures' = failures + 1
          /\ UNCHANGED journalVars
    /\ UNCHANGED <<fileVars, compactionUnchanged>>

(* A write, a sync, a creation or the rename fails: the files so far stay. *)
ApplyFails ==
    /\ phase \in {"prepare", "temporary", "rename"}
    /\ failures < MaxFailures
    /\ failures' = failures + 1
    /\ phase' = "idle"
    /\ UNCHANGED <<journalVars, fileVars, compactionUnchanged>>

(* The startup source is resolved again, and the window reads it again.    *)
ApplyResolves ==
    /\ phase = "resolve"
    /\ phase' = "idle"
    /\ StartWith(Resolution, Source.heads)
    /\ available' = FALSE
    /\ UNCHANGED <<journalVars, fileVars, calls, append, batches, acked, counters>>

-----------------------------------------------------------------------------
Save == Execute \/ WriteFrame \/ WriteFails \/ SyncSucceeds \/ SyncFails

Apply ==
    \/ \E doc \in Docs : PrepareRevision(doc) \/ RevisionSynced(doc)
    \/ CreateNextJournal
    \/ WriteTemporary
    \/ RenamePublication
    \/ Reclaim
    \/ ApplyFails
    \/ ApplyResolves

Next ==
    \/ Start
    \/ Crash
    \/ Reload
    \/ \E doc \in Docs : Send(doc) \/ Retry(doc)
    \/ Save
    \/ ApplyBegins
    \/ Apply

Spec == Init /\ [][Next]_vars

(* The promises of a save and of an apply are resolved or rejected.        *)
FairSpec == Spec /\ WF_vars(Save) /\ WF_vars(Apply)

-----------------------------------------------------------------------------
(* Properties.                                                             *)

Heads == [text : Texts, next : 0 .. MaxBatches, base : {"baseline", "published"}]

(* Every variable has the shape the code gives it.                         *)
TypeOK ==
    /\ \A g \in {"source", "next"} :
           /\ Elements(journal[g]) \subseteq Ids \cup {Torn}
           /\ synced[g] \in 0 .. Len(journal[g])
    /\ content \in [Docs -> Texts \cup {Absent, Partial}]
    /\ nextCreated \in BOOLEAN
    /\ temporary \in (SUBSET Docs) \cup {Absent, Partial}
    /\ publication \in (SUBSET Docs) \cup {Absent}
    /\ startup \in {"down", "clean", "pending", "read-only"}
    /\ available \in BOOLEAN
    /\ profile \in [Docs -> Heads]
    /\ targets \in [Docs -> Heads]
    /\ accepted \subseteq Ids
    /\ Elements(calls) \subseteq Ids
    /\ append \in {"idle", "writing", "syncing"}
    /\ phase \in {"idle", "prepare", "temporary", "rename", "reclaim", "resolve"}
    /\ \A doc \in Docs :
           /\ queue[doc].text \in Texts
           /\ queue[doc].attempt \in Ids \cup {NoBatch}
           /\ queue[doc].failed => queue[doc].attempt # NoBatch
    /\ Len(batches) <= MaxBatches
    /\ acked \subseteq Ids

(* What a restart would find if every byte that was not synced were lost.  *)
Restarted == Replay(Source.heads,
                    SubSeq(journal[Source.generation], 1, synced[Source.generation]))

Contains(text, id) == id \in Elements(text)

Recoverable(id) == Contains(Restarted.heads[batches[id].doc].text, id)

(* A damaged frame stands before every frame of the batch in the journal.  *)
BehindDamage(id) ==
    \E i \in 1 .. Len(journal["source"]) :
        /\ journal["source"][i] = Torn
        /\ \A j \in 1 .. i : journal["source"][j] # id

(* Two batches in the journal claim the same place of a document, and every *)
(* frame of the batch stands behind both.                                  *)
SamePlace(a, b) ==
    /\ a # b
    /\ a.doc = b.doc /\ a.base = b.base /\ a.sequence = b.sequence

BehindConflict(id) ==
    \E g \in {"source", "next"} : \E i, k \in 1 .. Len(journal[g]) :
        /\ i < k
        /\ {journal[g][i], journal[g][k]} \subseteq DOMAIN batches
        /\ SamePlace(batches[journal[g][i]], batches[journal[g][k]])
        /\ id \in Elements(journal[g])
        /\ \A j \in 1 .. k - 1 : journal[g][j] # id

(* A receipt means the edit survives: a kill of the main process at any    *)
(* moment, through failed syncs, repeated frames, recovery and compaction, *)
(* leaves a state from which the startup has the text, confirmed or        *)
(* offered, unless bytes of a failed write or two batches for the same     *)
(* place stand before it (save-change-batch.ts 257-364, replay-journal.ts  *)
(* 98-276, poc-journal-compaction-port.ts 440-760).                        *)
AcknowledgedIsRecoverable ==
    \A id \in acked :
        \/ Recoverable(id)
        \/ BehindDamage(id) \/ BehindConflict(id)
        \/ PublicationInvalid

(* The text a restart comes to is one the author had: every batch in it    *)
(* was made on exactly the text before it.                                 *)
RestartedTextWasWritten ==
    \A doc \in Docs :
        LET text == Candidate.heads[doc].text
        IN  \A i \in 1 .. Len(text) :
                batches[text[i]].before = SubSeq(text, 1, i - 1)

(* The bytes of an acknowledged batch are deleted only once a published    *)
(* revision contains them, behind damage too: the journal is reclaimed     *)
(* after the publication, and never when the candidate had issues.         *)
AcknowledgedBytesAreKept ==
    \A id \in acked :
        \/ \E g \in {"source", "next"} : Contains(journal[g], id)
        \/ /\ publication # Absent
           /\ batches[id].doc \in publication
           /\ Contains(content[batches[id].doc], id)

(* What is published is whole: from the rename on, a restart finds every   *)
(* content and the next generation, whenever the main process is killed.   *)
PublicationIsWhole ==
    publication # Absent =>
        /\ nextCreated
        /\ \A doc \in publication : content[doc] \notin {Absent, Partial}

(* A restart after a kill at any moment comes to a text that has every     *)
(* acknowledged edit and that the author had on the screen.                *)
RecoveryIsExact == AcknowledgedIsRecoverable /\ RestartedTextWasWritten

(* A compaction never loses bytes: neither what it deletes nor what it     *)
(* publishes.                                                              *)
CompactionIsSafe == AcknowledgedBytesAreKept /\ PublicationIsWhole

(* The calls to save are all answered, and an apply that began ends.       *)
CallsEnd ==
    /\ calls # <<>> ~> (calls = <<>> \/ startup = "down")
    /\ phase # "idle" ~> phase = "idle"
=============================================================================
