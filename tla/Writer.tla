------------------------------- MODULE Writer ------------------------------
(***************************************************************************)
(* Runtime.WithWrite: callers that mutate one database, each attempt under *)
(* the write lease, over the object storage they share (runtime.go).       *)
(*                                                                         *)
(* The lease is the one LeaseSpec states; module Lease implements it.      *)
(* leaseStale is safe[w] = 0.  Every caller is a process of its own:       *)
(* callers of one process are serialised further, by Manager's flight.     *)
(*                                                                         *)
(* A PUT that fails may have taken effect, or may still take effect: then  *)
(* it is a stray.  Two things are assumed of time.                         *)
(*   - The deadline of an attempt lies inside its lease term (New rejects  *)
(*     any other configuration), so a request that carries the attempt's   *)
(*     context is not sent after a successor took over: InTerm.            *)
(*   - A flush, which carries no context, and a stray have ended before    *)
(*     the skew allowance after the expiry has passed: Quiet.  Nothing in  *)
(*     the code stops an upload that outlives its lease (specs.md, 3).     *)
(***************************************************************************)
EXTENDS LeaseSpec, Replica, Sequences

CONSTANTS
    Writers,            \* callers of WithWrite
    LatePut,            \* a failed PUT may take effect after the lease was released
    MaxCalls,           \* bound: calls of WithWrite
    MaxFaults           \* bound: failures, expiries and crashes

ASSUME WritersAssumption == Writers \subseteq Clients
ASSUME WriterBounds == LatePut \in BOOLEAN /\ MaxCalls \in Nat /\ MaxFaults \in Nat

VARIABLES
    objects,        \* LTX files in object storage: name to body
    manifest,       \* replica/manifest.json
    strayFile,      \* flushes that may still take effect
    strayManifest,  \* manifest PUTs that may still take effect
    pc,             \* where w is in WithWrite
    att,            \* att[w]: the variables of withWriteAttempt
    acked,          \* acknowledged calls: a key and the TXID in its WriteResult
    calls, faults   \* counters of the bounds

storage == <<objects, manifest, strayFile, strayManifest>>
writerVars == <<epoch, owner, taken, safe, objects, manifest, strayFile, strayManifest,
                pc, att, acked, calls, faults>>

-----------------------------------------------------------------------------
\* Why a listing is made: to repair before opening, to repair for a
\* deduplicated call, or to give a legacy replica its first manifest.
Mode == {"repair", "dedupe", "legacy"}
Fate == {"ack", "retry", "error"}
Attempt == [key : Keys, has : BOOLEAN, files : SUBSET File, level : Nat,
            mode : Mode, txid : 0..MaxTx, fate : Fate, job : SUBSET File]
PC == {"idle", "acquire", "granted", "read", "probe", "list", "put", "open", "dedupe",
       "run", "flush", "flushed", "index", "releasing", "retry"}

NewAttempt(k) == [key |-> k, has |-> FALSE, files |-> {}, level |-> 0,
                  mode |-> "repair", txid |-> 0, fate |-> "retry", job |-> {}]

\* The content of manifest.json; a replica may have none.
Manifest(files) == [exists |-> TRUE, files |-> files]
NoManifest == [exists |-> FALSE, files |-> {}]

WriterTypeOK ==
    /\ LeaseTypeOK
    /\ DOMAIN objects \subseteq File
    /\ \A f \in DOMAIN objects : objects[f] \in [f.min..f.max -> Tx]
    /\ manifest \in [exists : BOOLEAN, files : SUBSET File]
    /\ strayFile \subseteq Tx
    /\ strayManifest \subseteq SUBSET File
    /\ pc \in [Writers -> PC]
    /\ att \in [Writers -> Attempt]
    /\ acked \subseteq [key : Keys, txid : TXID]
    /\ calls \in Nat /\ faults \in Nat

WriterInit ==
    /\ LeaseInit
    /\ objects = [f \in {} |-> {}]
    /\ manifest = NoManifest
    /\ strayFile = {} /\ strayManifest = {}
    /\ pc = [w \in Writers |-> "idle"]
    /\ att = [w \in Writers |-> NewAttempt(CHOOSE k \in Keys : TRUE)]
    /\ acked = {}
    /\ calls = 0 /\ faults = 0

-----------------------------------------------------------------------------
Goto(w, l) == pc' = [pc EXCEPT ![w] = l]

Fault == faults < MaxFaults /\ faults' = faults + 1

\* w's lease has not been taken over: the context of its attempt may be alive.
InTerm(w) == owner = w /\ taken

\* A request of w fails: the store, or the deadline of the attempt.
RequestFails(w) == Fault \/ (~InTerm(w) /\ UNCHANGED faults)

\* w does not hold its lease any more, as far as w is concerned.
Quit(w) ==
    /\ safe' = [safe EXCEPT ![w] = 0]
    /\ UNCHANGED <<epoch, owner, taken>>

\* Abandon: the attempt ends, the record is left to expire.
Abandon(w) == Quit(w) /\ Goto(w, "retry")

\* Release is sent; what the call returns, and the files that decide whether a
\* compaction is due (compactionFiles), are settled.
ReleaseAfter(w, fate, job) ==
    /\ Quit(w)
    /\ Goto(w, "releasing")
    /\ att' = [att EXCEPT ![w].fate = fate, ![w].job = job]

Release(w, fate) == ReleaseAfter(w, fate, {})

PutFile(tx) ==
    objects' = [f \in DOMAIN objects \cup {L0(tx.txid)} |->
                    IF f = L0(tx.txid) THEN [t \in {tx.txid} |-> tx] ELSE objects[f]]

-----------------------------------------------------------------------------
Call(w, k) ==
    /\ pc[w] = "idle"
    /\ calls < MaxCalls
    /\ calls' = calls + 1
    /\ att' = [att EXCEPT ![w] = NewAttempt(k)]
    /\ Goto(w, "acquire")
    /\ UNCHANGED <<leaseVars, storage, acked, faults>>

\* No flush and no stray is on its way.
Quiet == strayFile = {} /\ strayManifest = {} /\ \A w \in Writers : pc[w] # "flush"

\* The lease record names c: it was free, or its holder's term has run out.
TakeLease(c) ==
    /\ Grant(c)
    /\ Quiet \/ (~taken /\ LatePut)

\* The holder is between two requests to the lease store: its term runs out
\* there only if one of them is slow.
MidRequest(c) == c \in Writers /\ pc[c] \in {"granted", "releasing"}

AcquireLands(w) ==
    /\ pc[w] = "acquire"
    /\ TakeLease(w)
    /\ IF taken /\ MidRequest(owner) THEN Fault ELSE UNCHANGED faults
    /\ Goto(w, "granted")
    /\ UNCHANGED <<storage, att, acked, calls>>

\* The answer arrives, in time or after the term.
Acquired(w) ==
    /\ pc[w] = "granted"
    /\ IF InTerm(w) THEN Enter(w) ELSE UNCHANGED leaseVars
    /\ Goto(w, "read")
    /\ UNCHANGED <<storage, att, acked, calls, faults>>

\* Busy while another caller holds the lease; a store error at any time, after
\* the record was written too.
AcquireFails(w) ==
    /\ \/ pc[w] = "acquire" /\ ~NobodySafe /\ UNCHANGED faults
       \/ pc[w] \in {"acquire", "granted"} /\ Fault
    /\ Goto(w, "retry")
    /\ UNCHANGED <<leaseVars, storage, att, acked, calls>>

\* The loop of WithWrite: another attempt with the same key, or the error.
Retry(w) ==
    /\ pc[w] = "retry"
    /\ att' = [att EXCEPT ![w] = NewAttempt(att[w].key)]
    /\ Goto(w, "acquire")
    /\ UNCHANGED <<leaseVars, storage, acked, calls, faults>>

GiveUp(w) ==
    /\ pc[w] = "retry"
    /\ Goto(w, "idle")
    /\ UNCHANGED <<leaseVars, storage, att, acked, calls, faults>>

-----------------------------------------------------------------------------
ReadManifest(w) ==
    /\ pc[w] = "read"
    /\ IF ~manifest.exists
         THEN Goto(w, "open") /\ UNCHANGED att
         ELSE /\ att' = [att EXCEPT ![w].has = TRUE, ![w].files = manifest.files]
              /\ Goto(w, "probe")
    /\ UNCHANGED <<leaseVars, storage, acked, calls, faults>>

\* Mutant: the probe is trusted only when the manifest is empty.
NeedsRepairNever(files, tail) == files = {} /\ tail > 0

\* TailTXID lists level 0, where a flush may have left a file that the
\* manifest does not index.
NeedsRepair(files, tail) == tail > ManifestMaxTXID(files)

StartListing(w, mode) ==
    /\ att' = [att EXCEPT ![w].files = {}, ![w].level = 0, ![w].mode = mode]
    /\ Goto(w, "list")

TailTXID(w) ==
    /\ pc[w] = "probe"
    /\ IF NeedsRepair(att[w].files, ManifestMaxTXID(AtLevel(DOMAIN objects, 0)))
         THEN StartListing(w, "repair")
         ELSE Goto(w, "open") /\ UNCHANGED att
    /\ UNCHANGED <<leaseVars, storage, acked, calls, faults>>

\* BuildManifest lists one level after the other, from level 0 up.
BuildManifest(w) ==
    /\ pc[w] = "list"
    /\ LET l == att[w].level IN
        /\ att' = [att EXCEPT ![w].files = @ \cup AtLevel(DOMAIN objects, l),
                              ![w].level = IF l = TopLevel THEN 0 ELSE l + 1]
        /\ Goto(w, IF l = TopLevel THEN "put" ELSE "list")
    /\ UNCHANGED <<leaseVars, storage, acked, calls, faults>>

\* Mutant: a PUT is not bounded by the deadline of the attempt.
ManifestUnconfirmedUnbounded(w, files) ==
    /\ InTerm(w) /\ Fault
    /\ \/ manifest' = Manifest(files) /\ UNCHANGED strayManifest
       \/ strayManifest' = strayManifest \cup {files} /\ UNCHANGED manifest

\* A manifest PUT that is answered with an error.
ManifestUnconfirmed(w, files) ==
    \/ ~InTerm(w) /\ UNCHANGED <<manifest, strayManifest, faults>>
    \/ /\ InTerm(w) /\ Fault
       /\ \/ manifest' = Manifest(files) /\ UNCHANGED strayManifest
          \/ strayManifest' = strayManifest \cup {files} /\ UNCHANGED manifest

\* WriteManifest of a listing.
PutListing(w) ==
    /\ pc[w] = "put"
    /\ InTerm(w)
    /\ manifest' = Manifest(att[w].files)
    /\ IF att[w].mode = "repair"
         THEN Goto(w, "open") /\ UNCHANGED <<leaseVars, att>>
         ELSE ReleaseAfter(w, "ack", IF att[w].mode = "legacy" THEN att[w].files ELSE {})
    /\ UNCHANGED <<objects, strayFile, strayManifest, acked, calls, faults>>

\* A repair that fails ends the attempt with a release; the manifest of a
\* legacy replica is best effort.
PutListingFails(w) ==
    /\ pc[w] = "put"
    /\ ManifestUnconfirmed(w, att[w].files)
    /\ Release(w, IF att[w].mode = "legacy" THEN "ack" ELSE "retry")
    /\ UNCHANGED <<objects, strayFile, acked, calls>>

\* The files a session opens on: the manifest's, or a listing for a legacy
\* replica; and whether every object of the plan exists.
OpenFiles(w) == IF att[w].has THEN att[w].files ELSE DOMAIN objects
Openable(w) == Plan(OpenFiles(w)) \subseteq DOMAIN objects

\* ReadManifest, TailTXID, BuildManifest or the open of the session fails.
RemoteFails(w) ==
    /\ pc[w] \in {"read", "probe", "list", "open", "dedupe"}
    /\ IF pc[w] = "open" /\ ~Openable(w) THEN UNCHANGED faults ELSE RequestFails(w)
    /\ Release(w, IF pc[w] = "list" /\ att[w].mode = "legacy" THEN "ack" ELSE "retry")
    /\ UNCHANGED <<storage, acked, calls>>

-----------------------------------------------------------------------------
\* Mutant: the position of the last synced transaction is not advanced.
NextTXIDSynced(db) == Len(db)

\* One transaction per session: the flush writes the last synced TXID plus one.
NextTXID(db) == Len(db) + 1

\* The TXID a database records for a key.
Recorded(db, k) == db[CHOOSE t \in DOMAIN db : db[t].key = k].txid

\* Mutant: the key is not looked up.
OpenWriteBlind(w) ==
    /\ pc[w] = "open"
    /\ Openable(w)
    /\ LET db == Restore(OpenFiles(w), objects)
       IN  /\ Len(db) < MaxTx
           /\ att' = [att EXCEPT ![w].txid = NextTXID(db)]
           /\ Goto(w, "run")
    /\ UNCHANGED <<leaseVars, storage, acked, calls, faults>>

\* The session opens; BEGIN IMMEDIATE and lookupIdempotent follow.
OpenWrite(w) ==
    /\ pc[w] = "open"
    /\ Openable(w)
    /\ LET db == Restore(OpenFiles(w), objects)
       IN  /\ \/ /\ Holds(db, att[w].key)
                 /\ att' = [att EXCEPT ![w].txid = Recorded(db, att[w].key)]
                 /\ Goto(w, "dedupe")
              \/ /\ ~Holds(db, att[w].key)
                 /\ Len(db) < MaxTx
                 /\ att' = [att EXCEPT ![w].txid = NextTXID(db)]
                 /\ Goto(w, "run")
    /\ UNCHANGED <<leaseVars, storage, acked, calls, faults>>

\* An earlier attempt committed the key; its manifest update may be missing.
Dedupe(w) ==
    /\ pc[w] = "dedupe"
    /\ IF /\ att[w].has
          /\ ~manifest.exists \/ ~ManifestCovers(manifest.files, att[w].txid)
         THEN StartListing(w, "dedupe") /\ UNCHANGED leaseVars
         ELSE Release(w, "ack")
    /\ UNCHANGED <<storage, acked, calls, faults>>

\* The callback runs, the key is recorded, and the lease is not stale: COMMIT.
Run(w) ==
    /\ pc[w] = "run"
    /\ safe[w] # 0
    /\ Goto(w, "flush")
    /\ UNCHANGED <<leaseVars, storage, att, acked, calls, faults>>

RunStale(w) ==
    /\ pc[w] = "run"
    /\ safe[w] = 0
    /\ Abandon(w)
    /\ UNCHANGED <<storage, att, acked, calls, faults>>

\* The callback or a statement fails, or the deadline has passed: ROLLBACK.
RunFails(w) ==
    /\ pc[w] = "run"
    /\ RequestFails(w)
    /\ \E fate \in {"retry", "error"} : Release(w, fate)
    /\ UNCHANGED <<storage, acked, calls>>

-----------------------------------------------------------------------------
Mutation(w) == [key |-> att[w].key, txid |-> att[w].txid, epoch |-> epoch]

\* DisableWrite uploads the transaction as a level-0 file.
Flush(w) ==
    /\ pc[w] = "flush"
    /\ PutFile(Mutation(w))
    /\ Goto(w, "flushed")
    /\ UNCHANGED <<leaseVars, manifest, strayFile, strayManifest, att, acked, calls, faults>>

\* A flush that is answered with an error, or a COMMIT that is.
FlushUnconfirmed(w) ==
    \/ PutFile(Mutation(w)) /\ UNCHANGED strayFile
    \/ strayFile' = strayFile \cup {Mutation(w)} /\ UNCHANGED objects

\* Mutant: the lease is released although the flush may still land.
FlushFailsReleasing(w) ==
    /\ pc[w] = "flush"
    /\ Fault
    /\ FlushUnconfirmed(w)
    /\ Release(w, "retry")
    /\ UNCHANGED <<manifest, strayManifest, acked, calls>>

\* flushFailure.
FlushFails(w) ==
    /\ pc[w] = "flush"
    /\ Fault
    /\ FlushUnconfirmed(w)
    /\ Abandon(w)
    /\ UNCHANGED <<manifest, strayManifest, att, acked, calls>>

\* The lease is still good: the file goes into the manifest.
Flushed(w) ==
    /\ pc[w] = "flushed"
    /\ safe[w] # 0
    /\ IF att[w].has
         THEN /\ att' = [att EXCEPT ![w].files =
                            ApplyManifestDelta(@, {L0(att[w].txid)}, {})]
              /\ Goto(w, "index")
         ELSE StartListing(w, "legacy")
    /\ UNCHANGED <<leaseVars, storage, acked, calls, faults>>

FlushedStale(w) ==
    /\ pc[w] = "flushed"
    /\ safe[w] = 0
    /\ Abandon(w)
    /\ UNCHANGED <<storage, att, acked, calls, faults>>

\* WriteManifest with the session's files: the commit record.
Index(w) ==
    /\ pc[w] = "index"
    /\ InTerm(w)
    /\ manifest' = Manifest(att[w].files)
    /\ ReleaseAfter(w, "ack", att[w].files)
    /\ UNCHANGED <<objects, strayFile, strayManifest, acked, calls, faults>>

\* flushFailure.
IndexFails(w) ==
    /\ pc[w] = "index"
    /\ ManifestUnconfirmed(w, att[w].files)
    /\ Abandon(w)
    /\ UNCHANGED <<objects, strayFile, att, acked, calls>>

-----------------------------------------------------------------------------
Finish(w, fate) ==
    /\ Goto(w, IF fate = "retry" THEN "retry" ELSE "idle")
    /\ acked' = IF fate = "ack"
                  THEN acked \cup {[key |-> att[w].key, txid |-> att[w].txid]}
                  ELSE acked
    /\ UNCHANGED <<storage, att, calls>>

Released(w) ==
    /\ pc[w] = "releasing"
    /\ InTerm(w)
    /\ Free
    /\ Finish(w, att[w].fate)
    /\ UNCHANGED faults

\* A release that fails is an error for a call that would be acknowledged; it
\* changes nothing for one that failed.
Unreleased(fate) == IF fate = "ack" THEN "retry" ELSE fate

\* A successor has the lease: LeaseConflict.
ReleaseConflict(w) ==
    /\ pc[w] = "releasing"
    /\ ~InTerm(w)
    /\ Finish(w, Unreleased(att[w].fate))
    /\ UNCHANGED <<leaseVars, faults>>

\* A store error, before or after the release took effect.
ReleaseFails(w) ==
    /\ pc[w] = "releasing"
    /\ InTerm(w)
    /\ Fault
    /\ Free \/ UNCHANGED leaseVars
    /\ Finish(w, Unreleased(att[w].fate))

-----------------------------------------------------------------------------
LandFile(tx) ==
    /\ tx \in strayFile
    /\ strayFile' = strayFile \ {tx}
    /\ PutFile(tx) \/ UNCHANGED objects
    /\ UNCHANGED <<leaseVars, manifest, strayManifest, pc, att, acked, calls, faults>>

LandManifest(files) ==
    /\ files \in strayManifest
    /\ strayManifest' = strayManifest \ {files}
    /\ manifest' = Manifest(files) \/ UNCHANGED manifest
    /\ UNCHANGED <<leaseVars, objects, strayFile, pc, att, acked, calls, faults>>

\* w's lease goes stale: its clock reaches the expiry, or a renewal fails.
Expire(w) ==
    /\ Leave(w)
    /\ Fault
    /\ UNCHANGED <<storage, pc, att, acked, calls>>

HeldPC == {"read", "probe", "list", "put", "open", "dedupe", "run", "flush", "flushed", "index"}

\* A renewal that was late extends the lease after all.
RenewLate(w) ==
    /\ pc[w] \in HeldPC
    /\ Enter(w)
    /\ UNCHANGED <<storage, pc, att, acked, calls, faults>>

\* The process dies; a PUT it was sending may still take effect.
Crash(w) ==
    /\ pc[w] # "idle"
    /\ Fault
    /\ Quit(w)
    /\ Goto(w, "idle")
    /\ \/ UNCHANGED <<strayFile, strayManifest>>
       \/ /\ pc[w] = "flush"
          /\ strayFile' = strayFile \cup {Mutation(w)}
          /\ UNCHANGED strayManifest
       \/ /\ pc[w] \in {"put", "index"} /\ InTerm(w)
          /\ strayManifest' = strayManifest \cup {att[w].files}
          /\ UNCHANGED strayFile
    /\ UNCHANGED <<objects, manifest, att, acked, calls>>

-----------------------------------------------------------------------------
Progress(w) ==
    \/ AcquireLands(w) \/ Acquired(w) \/ Retry(w)
    \/ ReadManifest(w) \/ TailTXID(w) \/ BuildManifest(w) \/ PutListing(w)
    \/ OpenWrite(w) \/ Dedupe(w)
    \/ Run(w) \/ RunStale(w) \/ Flush(w) \/ Flushed(w) \/ FlushedStale(w) \/ Index(w)
    \/ Released(w) \/ ReleaseConflict(w)

Failure(w) ==
    \/ AcquireFails(w) \/ GiveUp(w) \/ RemoteFails(w) \/ PutListingFails(w) \/ RunFails(w)
    \/ FlushFails(w) \/ IndexFails(w) \/ ReleaseFails(w)
    \/ Expire(w) \/ RenewLate(w) \/ Crash(w)

StrayLands ==
    \/ \E tx \in strayFile : LandFile(tx)
    \/ \E files \in strayManifest : LandManifest(files)

WriterNext ==
    \/ \E w \in Writers : (\E k \in Keys : Call(w, k)) \/ Progress(w) \/ Failure(w)
    \/ StrayLands

WriterSpec == WriterInit /\ [][WriterNext]_writerVars

-----------------------------------------------------------------------------
\* What a reader sees: the manifest's chain, or the listing's without one
\* (WithRead).
ReaderFiles == IF manifest.exists THEN manifest.files ELSE DOMAIN objects

Chain == Restore(DOMAIN objects, objects)

\* An acknowledged mutation stays in the replica at the TXID its caller was
\* told, after any later failure, crash and takeover (WithWrite's WriteResult).
AckedDurable ==
    LET chain == Chain
    IN  \A a \in acked : a.txid \in DOMAIN chain /\ chain[a.txid].key = a.key

\* A read that starts after an acknowledgement sees the mutation: the manifest
\* indexes it (WriteManifest before Release).
AckedVisible ==
    \A a \in acked : a.txid <= Reach(ReaderFiles)

\* No key is applied twice, whatever is retried, duplicated or landed late
\* (lookupIdempotent and recordIdempotent in the mutation's transaction).
AtMostOnce ==
    LET chain == Chain
    IN  \A t, u \in DOMAIN chain : chain[t].key = chain[u].key => t = u

\* A writer that may commit has restored every file that was ever flushed, so
\* its TXID extends the chain (the tail probe and the repair before OpenWrite).
BaseIsTail ==
    \A w \in Writers :
        pc[w] \in {"run", "flush"} /\ InTerm(w) => att[w].txid = Reach(DOMAIN objects) + 1

\* The bytes of an LTX file never change while it exists: a retried flush never
\* rewrites a TXID that is already in the replica (flushFailure abandons).
ImmutableStep ==
    \A f \in DOMAIN objects \cap DOMAIN objects' : objects'[f] = objects[f]

Immutable == [][ImmutableStep]_writerVars

-----------------------------------------------------------------------------
\* Every step of a call and every stray ends; failures are finitely many.
WriterLive ==
    /\ WriterSpec
    /\ \A w \in Writers :
        WF_writerVars(Progress(w) \/ PutListingFails(w) \/ IndexFails(w))
    /\ WF_writerVars(StrayLands)

\* No call waits forever: once failures stop, leases that were abandoned are
\* taken over and every caller gets its answer (WithWrite returns).
CallsEnd == \A w \in Writers : pc[w] = "acquire" ~> pc[w] = "idle"

\* The keys of the replica's chain, by TXID.
ChainKeys == LET chain == Chain IN [t \in DOMAIN chain |-> chain[t].key]

\* The log of mutations that WithWrite promises.
Log == INSTANCE WriteSpec WITH log <- ChainKeys, acked <- acked

\* The write protocol implements the log of at-most-once mutations.
ImplementsWriteSpec == Log!LogSpec

=============================================================================
