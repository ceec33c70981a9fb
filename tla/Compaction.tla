----------------------------- MODULE Compaction ----------------------------
(***************************************************************************)
(* Background compaction beside the write protocol: passes that merge the  *)
(* manifest's files into higher levels, swap them in the manifest under    *)
(* the write lease, delete the sources and collect garbage                 *)
(* (runCompaction, litestream/compact.go).                                 *)
(*                                                                         *)
(* The compaction lease outlives the context of a pass (New), so it is a   *)
(* lock here: passes of one database never overlap.  A file older than the *)
(* retention window is aged; the window is longer than a write attempt.    *)
(***************************************************************************)
EXTENDS Writer

CONSTANTS
    Compactors,         \* processes that run compaction passes
    Nobody,             \* the compaction lease is free
    WithGC,             \* a pass may be the sixteenth, which collects garbage
    MaxPasses           \* bound: compaction passes

\* A client is one call of Manager.Acquire: that of a write or that of a pass.
ASSUME CompactorsAssumption ==
    /\ Compactors \subseteq Clients /\ Nobody \notin Compactors
    /\ Compactors \cap Writers = {}
ASSUME CompactionBounds == WithGC \in BOOLEAN /\ MaxPasses \in Nat

VARIABLES
    aged,       \* files whose CreatedAt lies before the retention window
    lock,       \* holder of the compaction lease
    cpc,        \* where a compactor is in runCompaction
    pass,       \* pass[c]: the variables of the pass
    queued,     \* compactors with a job in their queue (compactCh)
    passes      \* counter of the bound

passVars == <<aged, lock, cpc, pass, queued, passes>>
compactionVars == <<epoch, owner, taken, safe, objects, manifest, strayFile, strayManifest,
                    pc, att, acked, calls, faults,
                    aged, lock, cpc, pass, queued, passes>>

Pass == [files : SUBSET File, merged : SUBSET File, level : Nat,
         base : SUBSET File, doomed : SUBSET File]
PassPC == {"idle", "lock", "merge", "acquire", "granted", "reread", "put", "releasing",
           "failing", "delete", "gcread", "gclist", "gcdelete"}
NoPass == [files |-> {}, merged |-> {}, level |-> 1, base |-> {}, doomed |-> {}]

CompactionTypeOK ==
    /\ WriterTypeOK
    /\ aged \subseteq File
    /\ lock \in Compactors \cup {Nobody}
    /\ cpc \in [Compactors -> PassPC]
    /\ pass \in [Compactors -> Pass]
    /\ queued \subseteq Compactors
    /\ passes \in Nat

CompactionInit ==
    /\ WriterInit
    /\ aged = {}
    /\ lock = Nobody
    /\ cpc = [c \in Compactors |-> "idle"]
    /\ pass = [c \in Compactors |-> NoPass]
    /\ queued = {}
    /\ passes = 0

-----------------------------------------------------------------------------
CGoto(c, l) == cpc' = [cpc EXCEPT ![c] = l]

\* The pass returns: the compaction lease is released.
EndPass(c) ==
    /\ CGoto(c, "idle")
    /\ pass' = [pass EXCEPT ![c] = NoPass]
    /\ lock' = IF lock = c THEN Nobody ELSE lock

\* enqueueCompaction, at the end of a call that was served: the process of w
\* queues a job unless one is queued or running.  The queue is lossy: the step
\* of the write without this one is the full queue.
Enqueue(w) ==
    /\ att[w].fate = "ack"
    /\ ManifestNeedsCompaction(att[w].job)
    /\ \E c \in Compactors \ queued :
          /\ cpc[c] = "idle"
          /\ queued' = queued \cup {c}
    /\ UNCHANGED <<aged, lock, cpc, pass, passes>>

\* compactionLoop takes the job.  The manifest is read before the compaction
\* lease is taken.
StartPass(c) ==
    /\ cpc[c] = "idle"
    /\ c \in queued
    /\ passes < MaxPasses
    /\ manifest.exists /\ manifest.files # {}
    /\ queued' = queued \ {c}
    /\ passes' = passes + 1
    /\ pass' = [pass EXCEPT ![c].files = manifest.files]
    /\ CGoto(c, "lock")
    /\ UNCHANGED <<leaseVars, storage, pc, att, acked, calls, faults, aged, lock>>

\* Mutant: a pass does not look at the compaction lease of another.
AcquireKeyOverlapping(c) ==
    /\ cpc[c] = "lock"
    /\ lock' = c
    /\ CGoto(c, "merge")
    /\ UNCHANGED <<leaseVars, storage, pc, att, acked, calls, faults, aged, pass, queued, passes>>

AcquireKey(c) ==
    /\ cpc[c] = "lock"
    /\ lock = Nobody
    /\ lock' = c
    /\ CGoto(c, "merge")
    /\ UNCHANGED <<leaseVars, storage, pc, att, acked, calls, faults, aged, pass, queued, passes>>

\* The files of the snapshot and those this pass wrote: manifestClient.files.
Current(c) == pass[c].files \cup pass[c].merged

\* The sources of a merge can be read, and follow one another.
CanMerge(s) ==
    /\ s \subseteq DOMAIN objects
    /\ \A t \in MergedFile(s, 0).min..MergedFile(s, 0).max : ManifestCovers(s, t)

\* Mutant: the sources are applied in the wrong order.
MergedBodyReversed(s, m) ==
    [t \in m.min..m.max |-> objects[Source(s, m.min + m.max - t)][m.min + m.max - t]]

\* Litestream's compactor reads the sources in the order of their TXIDs.
MergedBody(s, m) == [t \in m.min..m.max |-> objects[Source(s, t)][t]]

\* One level of CompactWithClient: the sources are read and the merged file
\* is written to the level above.
MergeLevel(c) ==
    /\ cpc[c] = "merge"
    /\ pass[c].level <= TopLevel
    /\ LET l == pass[c].level
           s == Mergeable(Current(c), l)
           m == MergedFile(s, l)
       IN  \/ /\ OverThreshold(Current(c), l - 1) /\ s # {}
              /\ CanMerge(s)
              /\ objects' = [f \in DOMAIN objects \cup {m} |->
                               IF f = m THEN MergedBody(s, m)
                               ELSE objects[f]]
              /\ pass' = [pass EXCEPT ![c].merged = @ \cup {m}, ![c].level = l + 1]
           \/ /\ ~OverThreshold(Current(c), l - 1) \/ s = {}
              /\ pass' = [pass EXCEPT ![c].level = l + 1]
              /\ UNCHANGED objects
    /\ UNCHANGED <<leaseVars, manifest, strayFile, strayManifest, pc, att, acked, calls, faults,
                    aged, lock, cpc, queued, passes>>

\* Nothing to merge; or a source is gone: another pass merged it meanwhile.
MergeEnds(c) ==
    /\ cpc[c] = "merge"
    /\ LET l == pass[c].level
           s == Mergeable(Current(c), l)
       IN  \/ l > TopLevel /\ pass[c].merged = {}
           \/ l <= TopLevel /\ OverThreshold(Current(c), l - 1) /\ s # {} /\ ~CanMerge(s)
    /\ EndPass(c)
    /\ UNCHANGED <<leaseVars, storage, pc, att, acked, calls, faults, aged, queued, passes>>

Merged(c) ==
    /\ cpc[c] = "merge"
    /\ pass[c].level > TopLevel /\ pass[c].merged # {}
    /\ CGoto(c, "acquire")
    /\ UNCHANGED <<leaseVars, storage, pc, att, acked, calls, faults, aged, lock, pass, queued, passes>>

-----------------------------------------------------------------------------
\* The write lease, for the manifest update only.
CAcquireLands(c) ==
    /\ cpc[c] = "acquire"
    /\ TakeLease(c)
    /\ IF taken /\ MidRequest(owner) THEN Fault ELSE UNCHANGED faults
    /\ CGoto(c, "granted")
    /\ UNCHANGED <<storage, pc, att, acked, calls, aged, lock, pass, queued, passes>>

CAcquired(c) ==
    /\ cpc[c] = "granted"
    /\ IF InTerm(c) THEN Enter(c) ELSE UNCHANGED leaseVars
    /\ CGoto(c, "reread")
    /\ UNCHANGED <<storage, pc, att, acked, calls, faults, aged, lock, pass, queued, passes>>

\* Mutant: the snapshot the pass started from is not read again.
RereadManifestStale(c) ==
    /\ cpc[c] = "reread"
    /\ pass' = [pass EXCEPT ![c].base = pass[c].files]
    /\ CGoto(c, "put")
    /\ UNCHANGED <<leaseVars, storage, pc, att, acked, calls, faults, aged, lock, queued, passes>>

RereadManifest(c) ==
    /\ cpc[c] = "reread"
    /\ pass' = [pass EXCEPT ![c].base = IF manifest.exists THEN manifest.files ELSE pass[c].files]
    /\ CGoto(c, "put")
    /\ UNCHANGED <<leaseVars, storage, pc, att, acked, calls, faults, aged, lock, queued, passes>>

Sources(c) == CompactSources(pass[c].files, pass[c].merged)
Final(c) == ApplyManifestDelta(pass[c].base, pass[c].merged, Sources(c))

\* WriteManifest of the merge delta, then Release.
PutFinal(c) ==
    /\ cpc[c] = "put"
    /\ InTerm(c)
    /\ manifest' = Manifest(Final(c))
    /\ Quit(c)
    /\ CGoto(c, "releasing")
    /\ UNCHANGED <<objects, strayFile, strayManifest, pc, att, acked, calls, faults,
                   aged, lock, pass, queued, passes>>

\* Mutant: the sources are deleted although the update failed.
PutFinalFailsDeleting(c) ==
    /\ cpc[c] = "put"
    /\ ManifestUnconfirmed(c, Final(c))
    /\ Quit(c)
    /\ CGoto(c, "releasing")
    /\ UNCHANGED <<objects, strayFile, pc, att, acked, calls, aged, lock, pass, queued, passes>>

\* The write lease is released after a failed update too; nothing is deleted.
PutFinalFails(c) ==
    /\ cpc[c] = "put"
    /\ ManifestUnconfirmed(c, Final(c))
    /\ Quit(c)
    /\ CGoto(c, "failing")
    /\ UNCHANGED <<objects, strayFile, pc, att, acked, calls, aged, lock, pass, queued, passes>>

\* The result of the release is not looked at.
CReleased(c) ==
    /\ cpc[c] \in {"releasing", "failing"}
    /\ \/ InTerm(c) /\ Free /\ UNCHANGED faults
       \/ ~InTerm(c) /\ UNCHANGED <<leaseVars, faults>>
       \/ InTerm(c) /\ UNCHANGED leaseVars /\ Fault
    /\ IF cpc[c] = "releasing"
         THEN CGoto(c, "delete") /\ UNCHANGED <<pass, lock>>
         ELSE EndPass(c)
    /\ UNCHANGED <<storage, pc, att, acked, calls, aged, queued, passes>>

-----------------------------------------------------------------------------
Delete(files) ==
    /\ objects' = [f \in DOMAIN objects \ files |-> objects[f]]
    /\ aged' = aged \ files

\* Mutant: the age of the sources is not looked at.
DeleteFilesAtOnce(c) ==
    /\ cpc[c] = "delete"
    /\ Delete(Sources(c)) /\ UNCHANGED faults
    /\ \/ EndPass(c)
       \/ WithGC /\ CGoto(c, "gcread") /\ UNCHANGED <<pass, lock>>
    /\ UNCHANGED <<leaseVars, manifest, strayFile, strayManifest, pc, att, acked, calls,
                   queued, passes>>

\* DeleteFiles removes the sources that are older than the retention window,
\* or some of them when the request fails; a pass in sixteen goes on to GC.
DeleteFiles(c) ==
    /\ cpc[c] = "delete"
    /\ LET old == Sources(c) \cap aged IN
        \/ Delete(old) /\ UNCHANGED faults
        \/ Fault /\ \E some \in SUBSET old : Delete(some)
    /\ \/ EndPass(c)
       \/ WithGC /\ CGoto(c, "gcread") /\ UNCHANGED <<pass, lock>>
    /\ UNCHANGED <<leaseVars, manifest, strayFile, strayManifest, pc, att, acked, calls,
                   queued, passes>>

\* GC reads the manifest, lists the levels and deletes, without the write lease.
GCRead(c) ==
    /\ cpc[c] = "gcread"
    /\ manifest.exists
    /\ pass' = [pass EXCEPT ![c].base = manifest.files]
    /\ CGoto(c, "gclist")
    /\ UNCHANGED <<leaseVars, storage, pc, att, acked, calls, faults, aged, lock, queued, passes>>

\* Mutant: the manifest is not consulted.
GCListAll(c) ==
    /\ cpc[c] = "gclist"
    /\ pass' = [pass EXCEPT ![c].doomed = DOMAIN objects \cap aged]
    /\ CGoto(c, "gcdelete")
    /\ UNCHANGED <<leaseVars, storage, pc, att, acked, calls, faults, aged, lock, queued, passes>>

GCList(c) ==
    /\ cpc[c] = "gclist"
    /\ pass' = [pass EXCEPT ![c].doomed = (DOMAIN objects \ pass[c].base) \cap aged]
    /\ CGoto(c, "gcdelete")
    /\ UNCHANGED <<leaseVars, storage, pc, att, acked, calls, faults, aged, lock, queued, passes>>

GCDelete(c) ==
    /\ cpc[c] = "gcdelete"
    /\ Delete(pass[c].doomed)
    /\ EndPass(c)
    /\ UNCHANGED <<leaseVars, manifest, strayFile, strayManifest, pc, att, acked, calls, faults,
                   queued, passes>>

-----------------------------------------------------------------------------
\* An error ends the pass; its lease requests may have taken effect.
PassFails(c) ==
    /\ cpc[c] \in {"lock", "merge", "acquire", "granted", "gcread", "gclist", "gcdelete"}
    /\ Fault
    /\ EndPass(c)
    /\ UNCHANGED <<leaseVars, storage, pc, att, acked, calls, aged, queued, passes>>

\* The re-read fails: the write lease is released.
RereadFails(c) ==
    /\ cpc[c] = "reread"
    /\ RequestFails(c)
    /\ Quit(c)
    /\ CGoto(c, "failing")
    /\ UNCHANGED <<storage, pc, att, acked, calls, aged, lock, pass, queued, passes>>

PassCrash(c) ==
    /\ cpc[c] # "idle"
    /\ Fault
    /\ Quit(c)
    /\ EndPass(c)
    /\ UNCHANGED <<storage, pc, att, acked, calls, aged, queued, passes>>

PassExpire(c) ==
    /\ Leave(c)
    /\ Fault
    /\ UNCHANGED <<storage, pc, att, acked, calls, passVars>>

\* A file grows older than the retention window.  A file whose writer has not
\* finished is younger, and so is a file written between GC's two reads; for the
\* others it makes no difference on which side of the first they age.
Age(f) ==
    /\ f \in DOMAIN objects \ aged
    /\ \A c \in Compactors : cpc[c] # "gclist"
    /\ \A w \in Writers :
          pc[w] \in {"flushed", "index", "list", "put"} => f # L0(att[w].txid)
    /\ aged' = aged \cup {f}
    /\ UNCHANGED <<leaseVars, storage, pc, att, acked, calls, faults, lock, cpc, pass, queued, passes>>

-----------------------------------------------------------------------------
PassProgress(c) ==
    \/ StartPass(c) \/ AcquireKey(c) \/ MergeLevel(c) \/ MergeEnds(c) \/ Merged(c)
    \/ CAcquireLands(c) \/ CAcquired(c) \/ RereadManifest(c) \/ PutFinal(c) \/ CReleased(c)
    \/ DeleteFiles(c) \/ GCRead(c) \/ GCList(c) \/ GCDelete(c)

PassFailure(c) ==
    \/ PassFails(c) \/ RereadFails(c) \/ PutFinalFails(c) \/ PassCrash(c) \/ PassExpire(c)

CompactionNext ==
    \/ WriterNext /\ UNCHANGED passVars
    \/ \E w \in Writers : Released(w) /\ Enqueue(w)
    \/ \E c \in Compactors : PassProgress(c) \/ PassFailure(c)
    \/ \E f \in DOMAIN objects : Age(f)

CompactionSpec == CompactionInit /\ [][CompactionNext]_compactionVars

-----------------------------------------------------------------------------
\* Whoever opens the database on the current manifest finds every file of its
\* plan, and the plan has no hole: a source is deleted only after the manifest
\* dropped it, and a manifest rebuilt from a listing meanwhile, or extended
\* under the lease, still covers what it covered (runCompaction, BuildManifest,
\* applyManifestDelta).  Where passes drop only what SupersededCovered allows this
\* is proved for every bound; README.md tells of a longer sequence of passes that
\* drops more and leaves a hole.
ManifestReadable ==
    /\ Plan(ReaderFiles) \subseteq DOMAIN objects
    /\ ManifestMaxTXID(ReaderFiles) = Reach(ReaderFiles)

\* A file spans the whole range of another.
Contains(g, f) == g.min <= f.min /\ f.max <= g.max

\* The update a pass is about to make drops a file from the manifest only where a
\* file of a higher level that it keeps, and that exists, spans the whole range of
\* the dropped one: docs/specs.md lets it delete "source files whose whole TXID
\* range a higher level covers".  CompactManifest compares the last TXIDs only.
SupersededCovered ==
    \A c \in Compactors : cpc[c] = "put" /\ InTerm(c) =>
        \A f \in Sources(c) : \E g \in (Final(c) \ Sources(c)) \cap DOMAIN objects :
            g.level > f.level /\ Contains(g, f)

\* A merged file holds what its sources held: every file that covers a TXID
\* agrees on the transaction there (CompactWithClient).
FilesAgree ==
    \A f, g \in DOMAIN objects : \A t \in (f.min..f.max) \cap (g.min..g.max) :
        objects[f][t] = objects[g][t]

\* A file is deleted only when the current manifest does not need it and it is
\* older than the retention window: a read that started on an earlier manifest
\* loses no younger file, and one that starts now loses none (DeleteFiles, GC).
DeletesSpareReads ==
    [][DOMAIN objects \ DOMAIN objects' \subseteq aged \ Plan(ReaderFiles)]_compactionVars

=============================================================================
