# walrusd: TLA+ models and proofs

walrusd keeps many SQLite databases in object storage. A database is a chain
of immutable LTX files, one per transaction until compaction merges them; one
writer at a time extends the chain, guarded by a lease in Redis/Valkey.
Readers open the chain through an index, `replica/manifest.json`. This
directory holds the models of that machinery, the TLC configurations that
check them and the proofs TLAPS checks. Paths below are relative to `src/`.

## The parts of the system

| Part | Source | Here |
| --- | --- | --- |
| Lease record, compare-and-swap store, acquisition, renewal, release | `lease/lease.go`, `redis.go`, `memory.go`, `store.go` | `Lease`, abstract `LeaseSpec`, proofs `LeaseProofs` |
| Write protocol: lease, manifest repair, session, idempotency key, flush, manifest, release, retry | `runtime/runtime.go` (`WithWrite`, `withWriteAttempt`), `idempotency.go`, `retry.go`, `litestream/session.go` | `Writer`, abstract `WriteSpec`, proofs `WriterProofs`, `VisibleProofs` |
| Manifest and LTX files | `litestream/manifest.go` | `Replica` (operators), used by `Writer` and `Compaction` |
| Compaction, deletion of sources, garbage collection | `runtime/runtime.go` (`enqueueCompaction`, `runCompaction`), `litestream/compact.go` | `Compaction`, proofs `CompactionInvariant`, `CompactionProofs` |
| Registered databases, their VFS, the read-session cache, shutdown | `runtime/runtime.go` (`database`, `releaseDatabase`, `WithRead`, `Close`), `cache/cache.go` | `Reads`, proofs `ReadsProofs` |
| Single-flight acquisition inside a process | `lease/lease.go` 202-317, the retry loop of `WithWrite` | `Flight`, proofs in `LocalProofs` |
| Write buffers and their byte budget | `litestream/file.go`, `bridge.go`, `session.go` | `Buffers` |
| One process and one database: queue, session, buffers | `runtime/runtime.go` (`withWriteAttempt`) | `Local`, which composes the two; proofs `LocalProofs` |
| C ABI: handle table, init and its error message | `bindings/c/` | `Handles` |
| Node addon and its wrapper | `bindings/node/native/walrusd.cc`, `bindings/node/src/index.ts` | `Addon` |
| Loadable VFS extension | `bindings/vfs/vfs.c`, `main.go` | `Attach` |
| A Node process with all three | the binding's `README.md` | `Host`, proofs `HostProofs` |
| Cache of LTX listings and bytes | `litestream/range_cache.go` | not modelled |
| Identity, error classes, metrics, SDK clients, retry delays | `identity/`, `walrusderr/`, `observability/`, `runtime/retry.go` | not modelled: pure data or I/O |

How they interact: a call of `WithWrite` acquires the lease of its database,
reads and if necessary repairs the manifest, opens a session on it, runs the
callback in a transaction that also records the idempotency key, uploads the
transaction as a level-0 file, writes the manifest, and releases the lease.
It may then queue a compaction, which merges files upward under a lease of its
own and takes the write lease only to swap the manifest. `WithRead` takes no
lease: it reads the manifest once and keeps the session in a cache.

The models follow that structure. `Lease` is the protocol over the Redis
record; `LeaseSpec` is what it promises; `Writer` EXTENDS `LeaseSpec`, so the
write path is checked against the promise, and `LeaseProofs!Refinement` says
that the protocol keeps it. `Compaction` EXTENDS `Writer`: writers
and compaction passes share the lease, the objects and the manifest. `Reads`
and `Local` look inside one process: `Reads` treats the write protocol as one
step, `Local` treats the lease record as the name of its holder. `Host` looks
at the process from outside, through the bindings: what a runtime does with a
call ends in an answer there.

## The modules

### Lease, LeaseSpec

One key of the store. A client is one call of `Manager.Acquire` and the `Held`
it returns. `store` is the record with its CAS token; `req[c]` is the CAS that
client c waits for; `stray` holds the CAS requests whose caller gave up, which
may still take effect. Each CAS is sent, takes effect (`Land`) and is answered
in separate steps, so clocks move and other clients act in between.

| Action | Code |
| --- | --- |
| `Get`, `AcquireBusy`, `AcquireSend`, `AcquireOk`, `AcquireConflict` | `acquireOnce`, `create`, `replace`, `newHeld` |
| `RenewSend`, `RenewExhausted`, `RenewOk`, `RenewConflict` | `renewLoop` with the cap `maxExpiry` |
| `ReleaseSend`, `ReleaseDone`, `Abandon` | `Release`, `Abandon`, `stopRenewal` |
| `Land`, `LandStray`, `Redeliver` | `CreateIfAbsent`, `ReplaceIfToken`; a script that the Redis client sends twice |
| `RequestFails`, `Crash`, `Tick` | transport errors, the death of a process, wall clocks |

`Fresh(c)` is the negation of the runtime's `leaseStale`. `LeaseSpec` is the
fence the runtime needs: epochs with one owner each, and a next epoch (or a
release) only while nobody may write. `Fence` in `Lease` is the refinement
mapping; a client is `safe` when it is `Fresh`.

### Replica, Writer, WriteSpec

`Replica` has the operators on file lists: coverage, `ApplyManifestDelta`, the
restore plan (`Plan`, `Restore`), what a merge takes and what it supersedes.
The plan and the merge are Litestream's, which is not part of the repository;
they are modelled from how `litestream/` calls them. A file is its level and
TXID range; its body gives the transaction at each TXID.

`Writer` has one action per request or lease check of `withWriteAttempt` and
one for each way it can fail. A failed PUT may have taken effect, may take
effect later (`strayFile`, `strayManifest`), or never. The fate of an attempt
(`ack`, `retry`, `error`) is settled before the release, as in the code.
`WriteSpec` is what callers are promised: one log that only grows, each key in
it at most once, and an acknowledgement only for the TXID where the key stands.

Two assumptions about time stand in for clocks here:

* `InTerm`: a request that carries the attempt's context is not sent after a
  successor took over. `New` rejects configurations in which the request
  timeout does not fit in the lease term; a `RequestTimeout` of zero turns the
  deadline off and is outside the model.
* `Quiet`: an upload, which carries no context, has ended before a successor
  may take the lease. Nothing in the code stops an upload that outlives its
  lease by more than the skew allowance; `docs/specs.md` names this limit.

### Compaction

Adds passes (`StartPass` to `GCDelete`), the queue that starts them
(`Enqueue`) and the retention window (`Age`: a file is older than the window).
What a reader needs is `Plan(ReaderFiles)`, the files it restores from. The compaction lease is a lock: `New` gives it a term longer than a
pass. A pass in sixteen collects garbage; `WithGC` lets any pass do so.

### Reads

`resident` is the registry in LRU order, `entry` every `databaseEntry` with
its reference count, `order` the cache in LRU order, `session` every read
session. A step is one critical section of `Runtime.mu`, of `Cache.mu`, or of
a session's mutex, which is held while a callback runs (`session[s].user`).
What a goroutine has taken out under a lock and closes after it is in
`call[c].closing` and `call[c].doomed`, so other goroutines run in between.

### Flight, Buffers, Local

`Flight` has the calls of `WithWrite` in one process for one database. They
meet in a flight: a mutex, a channel that `Release` closes, and a reference
count that lets the last user drop it from the map.

| Action | Code |
| --- | --- |
| `Call`, `Join`, `Lock`, `Unlock`, `Leave` | `acquireSingleFlight` |
| `Capture`, `Get`, `Cas`, `Again`, `Wait` | `acquireLocked` and `acquireOnce` |
| `Release`, `Notify`, `Abandon` | `Release`, `notifyWaiters`, `Abandon` |
| `Failed`, `Deadline` | the loop of `WithWrite` and its budget |
| `Elsewhere` | other processes, expiry, late renewals |

A channel is represented by who has captured it and seen it closed (`woken`).
`holder` is "freed" when a local release that was confirmed left the record
free, "free" when it became so in another way: only the first promises a
wake-up. A failed request may have taken effect.

`Buffers` has the two wrapper VFSes of a database (one for reads, one for
writes), each with a directory while a file of it is open, and the budget that
charges them. Checking the budget, writing, and measuring are separate steps,
as in `file.go`. A byte stands for one write. `Local` composes the two: a
caller that holds the lease opens, uses and closes its session and only then
releases (`EndAttempt`); read sessions share the budget. `cast` and `limit` are
the sessions and the limit of a behaviour.

### Handles, Addon, Attach, Host

`Handles` is the C ABI's table; a step is one critical section of `handleMu`
or `initErrMu`. `Addon` runs on top of it: each environment (the main thread
or a worker) loads, inits and closes on its own thread, and a call runs on a
thread of its own, whose `CallWork` lives in a heap cell that can be reused
once it is freed. Node's threadsafe function is external: a thread count, a
queue and three states, modelled from how `walrusd.cc` uses it.

| Action | Code |
| --- | --- |
| `Load` | `walrusd_load`, `loadNative` |
| `InitBegins`, `InitSucceeds`, `InitFails`, `InitThrows` | `walrusd_init`, `walrusd_runtime_init`, `walrusd_runtime_init_error` |
| `StartCall`, `Dispatch`, `RuntimeReturns` | `walrusd_call_async`, `dispatch` |
| `HandOver`, `HandOverFails`, `Release`, `Deliver`, `Destroy` | `call_thread`, `call_deliver` |
| `CloseBegins`, `CloseReturns`, `TearDown` | `walrusd_runtime_close`; the end of a worker |

The last read of `call_thread` (`w->tsfn`, after `w` was handed over) is
undefined once `w` is freed: `ReadTSFN` is the choice over what it can find.
`Attach` is the extension; `Host` lets an environment attach the names that
`readDsn` gave it or another environment.

## What TLC checks

| Run | Bounds | Result |
| --- | --- | --- |
| `lease` | 2 clients, 3 requests, spread of clocks up to twice the skew | `MutualExclusion`, `FreshIsCurrent`, `FencedWrites`, and `Lease` implements `LeaseSpec` |
| `lease_hold` | 2 clients, longer clocks | `HoldBounded`; a held lease becomes free for takeover (`HeldEventuallyTakeable`) |
| `writer` | 2 writers, 3 calls, 2 failures, late PUTs | `AtMostOnce`, `BaseIsTail`, `Immutable`, `Writer` implements `WriteSpec` (so what was acknowledged is durable), and every call ends (`CallsEnd`) |
| `writer_late` | 2 writers, late PUTs | **violates** `AckedVisible` |
| `compaction` | 2 writers, 1 pass, 1 failure | `AckedVisible`, `ManifestReadable`, `FilesAgree`, implements `WriteSpec` |
| `compaction_pair` | 1 writer, 2 processes that compact, 2 levels, GC, no failures | `AckedDurable`, `ManifestReadable`, a pass drops only what it keeps covered (`SupersededCovered`), and no deletion of what a read needs (`DeletesSpareReads`) |
| `compaction_gc` | 1 writer, 1 pass with GC, 1 failure | **violates** `AckedDurable` |
| `reads` | 2 goroutines, 2 databases, 1 slot, 3 calls and `Close` | `RefsExact`, `NothingLeaks`, `ShutdownClean`, every call returns (`CallsReturn`) |
| `reads_vfs` | same | **violates** `SessionsOnOpenVFS` |
| `reads_stale` | same | **violates** `ReadsFlushedState` |
| `local` | 2 writers, or a writer and a reader, or 2 readers; limits 0, 1, 2 | `SingleFlight`, `NoMissedWakeup`, `SessionHasBuffer`, `NothingCharged`, `TempBounded`, every call returns (`WritesReturn`) |
| `host` | 2 environments, 2 inits, 2 calls, 2 cells, 2 databases | `ServedByOwn`, `InitErrorRecent`, `WorkOwned`, `PendingHoldsLoop`, `AttachedAsIssued` |

The bounds are where the cases of interest first happen, with one step to
spare. Two clients are enough for every race on the record, because each CAS
concerns its sender and the current token; three requests and six ticks let a
renewed lease be taken over, and a late renewal or release follow a takeover;
the proofs remove the bounds. Two
failures let one call lose its flush and another its manifest PUT, or its
lease; the safety properties are proved without the bound, and the run also
passes with three failures (1.3 million states). With a threshold of 1, two files
make a pass merge and four make it cascade through two levels. One slot in
`Reads` makes every second database evict the first, from the registry and
from the cache. The limits of `Local` are those at which one write fits, and
none; it also passes for two writers with limit 1, two writers and a reader
with limit 0, and a writer and two readers with limit 1 (2.1 million states).
Two environments, inits and calls in `Host` let a call outlive its client, a
cell be reused under a thread that still reads it, and two names be attached
at once. Runs that bound the number of calls switch deadlock checking
off: the system rests when the calls are used up. One run of each system also
checks its type invariant. `EpochsDistinct`,
`FlightCounted`, `SymbolsThere` and `MappedWhileRegistered` are proved and
have no run. Symmetry is used only in
runs without liveness properties.

### Fairness

* `LiveSpec` (Lease): clocks advance. Nothing is assumed of clients.
* `WriterLive`: a step of a call that can be taken is taken (goroutines run,
  requests are answered or time out), and PUTs in flight end. Failures are
  finitely many, by their bound. Nobody is forced to give up: the calls end
  although `GiveUp` is not fair. The code also stops after its retry budget
  (`RetryPolicy.MaxTotal`).
* `ReadsSpec`: goroutines run, callbacks return. Go's mutexes hand over to a
  waiter that waited for long, which justifies fairness per goroutine.
* `LiveSpec` (Local): the same for callers (strong fairness, since a mutex or
  the lease may be free only now and then), a session at work goes on to be
  closed (callbacks return), and the deadline of a call arrives
  (`RetryPolicy.MaxTotal`; a caller passes the places where it is looked at
  again and again, hence strong). Nothing is assumed of other processes.

`Host` has no liveness run: that a pending promise is settled depends on the
runtime's calls, which end by `CallsEnd`, `CallsReturn` and `WritesReturn`, and
on Node's event loop.

### Where the code and its documentation disagree

1. `writer_late`: the first manifest of a replica without one is written best
   effort (`runtime/runtime.go:822`). If it lands late it replaces a newer
   manifest and hides acknowledged writes from readers until the next write;
   the read path has no check for a manifest that is behind.
2. `compaction_gc`: garbage collection compares objects with a manifest it
   read earlier, without the write lease. A file that a retry has indexed and
   acknowledged in between is deleted. It takes an unindexed file older than
   the retention window, ten minutes by default.
3. `reads_vfs`: the cache closes a session after giving up its lock, so
   `teardownDatabase` can find the cache empty and unregister the VFS while
   the session is still open, for instance while `Close` drains the cache.
4. `reads_stale`: a read that opened before a write and ends after it caches
   its old session behind the write's eviction. Later reads of that process
   are served from before the acknowledged write.

Further observations that no run carries:

* `DeleteFiles` measures the age of a source since it was written
  (`compact.go:135-141`), not since the manifest stopped naming it. An old
  source can be deleted under a read that planned on the previous manifest,
  which the comment at `runtime.go:891-893` promises can finish.
  `DeletesSpareReads` states what does hold.
* `failWithLease` releases a lease that was marked lost; the token makes this
  harmless (`FencedWrites`).
* After a cascading pass the manifest still names the intermediate file, which
  is also among the files to delete; the plan prefers the higher level, so
  readers never need it (`ManifestReadable` in `compaction_pair`).
* `ManifestReadable` holds within the bounds of `compaction` and
  `compaction_pair`, and for every bound where `SupersededCovered` holds
  (`CompactionReadable`), but not without it. The sources of a merge are the files
  of the level below whose *last* TXID the merged file reaches
  (`compact.go:116`); `docs/specs.md:105` says "whose whole TXID range a higher
  level covers". The two differ for a file that straddles the end of the
  destination level, because Litestream's compactor merges only what starts
  after that end (`compact.go:61-62`). With `TopLevel` 2, 8 TXIDs, 4 passes, one
  crash and no GC, TLC, steered along this sequence, reaches a manifest with a
  hole: TXIDs 1-4 are merged to levels 1 and 2; the level-1 files are deleted
  while the level-0 files are still stored; a writer crashes after the flush of
  5, and the next one rebuilds the manifest from a listing that has level 0 and
  level 2 but no level 1; a pass merges level 0 to the level-1 file [1,6]; the
  next pass merges [7,8] to level 2 and drops [1,6] with it, and 5-6 are in no
  file the manifest names. It takes a level-1 file that disappears before the
  level-0 files it covers, for example because deleting those failed. An
  unsteered search of that size is out of TLC's reach, so no run carries it.
* `call_thread` reads `w->tsfn` after `w` was handed over or deleted
  (`walrusd.cc:111`). If the memory holds another call by then, that call's
  threadsafe function is released and its promise may never be settled.
  `PendingHoldsLoop` therefore excludes behaviours in which this happened
  (`misread`), and fails without that exclusion.
* A load that fails leaves null symbols behind for every environment of the
  process (`walrusd.cc:237-248`). In the model all environments load one
  library, so none of them can call before (`SymbolsThere`); an environment
  that loaded a complete library earlier from another path could.
* The message of a failed init can be that of a concurrent one
  (`handle.go:68`, 108); `InitErrorRecent` says what is left.
* The environment that made a runtime can end without closing it; the runtime
  stays in the table.
* VFS names are unique in a process only. Names of two processes, attached in
  one, would meet in `attached` (`bindings/vfs/main.go`).
* A write session that outlives its lease can lose its buffer directory to the
  next writer, or leave one behind; `SessionHasBuffer` and `NothingCharged`
  say so (`outlived`).
* The budget is checked before the write, not with it (`file.go:97`): the
  directory of a wrapper exceeds the limit by up to one write for each session
  beyond the first (`TempBounded`). The budget of the process is one, but the
  two wrappers together can hold nearly twice the limit: `reserve` adds the
  growth since the last measurement of its own wrapper to a total in which the
  other wrapper's share may be out of date. With one writer, two readers and a
  limit of 2, TLC reaches 5 bytes.
* A release whose answer is lost wakes nobody; the waiters poll. The mutex of a
  flight does not observe the context, and the acquisition budget starts only
  behind it.

## What TLAPS proves

`LeaseProofs` proves, for any set of clients, any duration, any skew allowance
and any spread of the clocks up to twice the allowance:

| Theorem | Statement |
| --- | --- |
| `TypeCorrect` | `Spec => []TypeOK` |
| `SingleWriter` | at most one lease is not stale: `[]MutualExclusion` |
| `FreshOwnsRecord` | a lease that is not stale is the record's: `[]FreshIsCurrent` |
| `EpochsNeverShared` | `[]EpochsDistinct` |
| `RecordIsFenced` | no late request of a former owner touches the record: `FencedWrites` |
| `HoldIsBounded` | `[]HoldBounded` |
| `Refinement` | `Lease` implements `LeaseSpec` |

They rest on the named assumptions of `Lease` (a positive duration, a spread
of at most `2 * Skew`, tokens distinct from `NoToken`) and on the inductive
invariant `IInv`. Exclusion is not inductive alone: it depends on what every
request in flight would do if it took effect now. `IInv` therefore says that
tokens in flight have been seen by nobody (`UnseenInv`), that a request whose
expected token is still the record's would make a legal step (`MatchInv`),
that a `Held` with the record's token describes the record (`HeldInv`), and
that a holder that is not lost either owns the record, has just been answered,
or was overtaken and its clock shows it (`HolderInv`). The last case is where
the skew is used: a taker waits until `exp + Skew` on its clock, so the
holder's clock is past `exp - Skew` when the spread is at most `2 * Skew`.
There is one lemma for each action, and `Refinement` follows from `IInv` and
`StoreChange`, which lists how the record can change.

Most actions of `Lease` touch one client; `AloneStep` reduces their
preservation lemmas to what `IInv` says of that client.

`LocalProofs` proves for any finite set of callers and any flights
`LocalSingleFlight`, `LocalFlightCounted` and `LocalNoMissedWakeup`: that
`Spec` of `Local` implies `[]SingleFlight`, `[]FlightCounted` and
`[]NoMissedWakeup`. `FlightInv` adds that a caller uses the flight in the map
from joining to leaving and owns its mutex while it polls (`Queue`), that the
counts are cardinalities (`Counts`), and that the wake-up is on its way already
for a caller that has read the record and whose CAS is going to fail (`Wakes`):
it is about to wait. The queue is proved on its own (`FlightSpec`), and every
step of `Local` is a step or a stutter of it.

It goes on to the buffers, for any finite set of sessions and any limit:

| Theorem | Statement |
| --- | --- |
| `LocalTypes` | `Spec => []LocalTypeOK` |
| `LocalSessionHasBuffer` | an open session keeps its directory: `[]SessionHasBuffer` |
| `LocalNothingCharged` | closing gives everything back: `[]NothingCharged` |
| `LocalTempBounded` | `[]TempBounded` |

`LocalInv` says which sessions are counted in `activeFiles` (`Opens`), that
`used` is the sum of what the wrappers are charged, and that a wrapper whose
sessions are all closed is charged nothing (`Charges`); where a directory in use can be
(`Places`, `Roots`), and that a session at work has the directory of its
wrapper unless a lease was outlived (`Homes`, `Leases`, which use `FlightInv`:
one caller of the process holds the lease). `Bounded` is what makes
`TempBounded` inductive: it counts the bytes that sessions which have passed
the check are about to write as if they were written. The proof assumes more
directory names than can be in use at once (`DirsAssumption`): `os.MkdirTemp`
does not run out of them.

`ReadsProofs` proves, for any finite set of goroutines, any databases, any
number of calls and any `MaxReadInstances`:

| Theorem | Statement |
| --- | --- |
| `ReadsTypes` | `ReadsSpec => []ReadsTypeOK`, with both lists within `Limit` |
| `ReadsRefsExact` | a database has as many references as users: `[]RefsExact` |
| `ReadsNothingLeaks` | `[]NothingLeaks` |
| `ReadsShutdownClean` | `[]ShutdownClean` |

`ReadsInv` says that the two LRU lists have no duplicates, hold one element per
key and name entries and sessions that exist (`Lists`, `Registered`); that what
was taken out of a list is in the hands of one goroutine until it is closed
(`Condemned`, `Carried`); that a registered VFS is held by the registry, by its
users or by the goroutine that tears it down (`VFSHeld`); that an open session
is cached, in use or about to be closed (`SessionsHeld`); and that a session in
the cache after its database is gone has a goroutine on its way to evict it
(`Covered`). The last one is needed for shutdown: `Close` empties the registry
first, and a read that ends afterwards may still cache its session.

`WriterProofs` proves, for any writers, keys and bounds:

| Theorem | Statement |
| --- | --- |
| `WriterTypes` | `WriterSpec => []WriterTypeOK` |
| `WriterDurable` | what was acknowledged stays at its TXID: `[]AckedDurable` |
| `WriterAtMostOnce` | `[]AtMostOnce` |
| `WriterBaseIsTail` | `[]BaseIsTail` |
| `WriterVisible` (`VisibleProofs`) | `[](~LatePut => AckedVisible)` |
| `WriterImmutable` | `Immutable` |
| `WriterImplementsLog` | `Writer` implements `WriteSpec` |

`AckedDurable` alone says nothing of what is in flight. `WriterInv` says that
the objects are exactly the level-0 files 1 to `Last`, with distinct keys
(`Chained`); that every file list, in the manifest, in a late PUT or in the
hands of a writer, is a prefix of them (`Prefixes`); that there is at most one
late upload, it extends the chain by one, and no writer in its term is active
beside it (`Stray`, where `Quiet` is used); and what a writer in its term
knows of the end of the chain at each point of an attempt (`Attempts`). The
fence comes from `LeaseSpec`, which the lease protocol is proved to implement.

`WriterVisible` needs a second invariant, `IndexInv`, on top of `WriterInv`:
every manifest that is written, at once or late, names the whole chain
(`LateWhole`: while one is on its way nobody is inside an attempt, so the chain
does not grow), and a writer in its term that found no manifest is right until
it writes one itself (`Sees`). The hypothesis `~LatePut` is the one the run
`writer_late` shows to be needed; with it the next grant waits until nothing is
on its way.

`CompactionInvariant` and `CompactionProofs` prove, for any writers, passes,
levels and bounds, whatever fails or crashes:

| Theorem | Statement |
| --- | --- |
| `CompactionTypes` | `CompactionSpec => []CompactionTypeOK`, without a hypothesis |
| `CompactionReadable` | the current manifest can be read: `[]ManifestReadable` |
| `CompactionVisible` | `[]AckedVisible` |
| `CompactionDurable` | `[]AckedDurable` |
| `CompactionAgrees` | `[]FilesAgree` |
| `CompactionAtMostOnce`, `CompactionBaseIsTail` | `[]AtMostOnce`, `[]BaseIsTail` |
| `CompactionSparesReads` | `DeletesSpareReads` |
| `CompactionImmutable` | `Immutable` |
| `CompactionImplementsLog` | `Compaction` implements `WriteSpec` |

All but the first have three hypotheses, and each stands for something
described above. `~LatePut`: a late first manifest hides writes (`writer_late`).
`~WithGC`: the collector works without the write lease (`compaction_gc`).
`[]SupersededCovered`: when a pass is about to write the manifest, every file
it drops lies within one file of a higher level that it keeps. This is what
`docs/specs.md:105` says of deletion, the code checks less, and the straddling
file of the observation above breaks it. `compaction_pair` checks it for two
passes that started from the same manifest; it would fail there if a pass
ignored the compaction lease of the other. It also holds in the instance of
`compaction`, which has no GC, two writers, a pass and a failure: TLC checked it
there once (536,919 states), so the hypotheses hold together. The theorems thus
say that, with these three, nothing in the modelled passes, writers, failures
and interleavings can lose, hide or reorder a mutation.

`ManifestReadable` alone says nothing of a manifest that a writer is rebuilding
level by level while a pass deletes. `CompactionInv` says that the stored files
cover 1 to `Last` without a hole, agree where they overlap and hold each key at
one TXID (`Chained`). A list of files is `Full` when a file of it that is gone
lies below one that exists and is in the list, the TXIDs it reaches are covered,
and it has what a deleting pass keeps; `Sound` is the same for a list that is
complete only below some level. The manifest is `Full` (`Indexed`), a PUT on its
way carries a `Full` list and is alone (`Strays`), a writer in its term holds a
`Sound` or `Full` list that fits its place in the attempt (`Attempts`, `Knows`),
and a pass rests on a manifest that still reaches as far, and drops only what
it keeps covered (`Passes`, `Grounded`). TLC checked `CompactionInv` before it
was proved, on two instances of 0.5 and 4.4 million states.

`RewritesKeep` says that a step which adds a merged file, or deletes covered
ones, leaves the chain and its keys as they are; `PassFrame` carries what the
lists and the writers know over such a step, `GrowFrame` over a flush.
`PlanOnTop` connects `Full` with reads: a restore plan does not use a file that
lies below another file of the list, so what was deleted is not needed. The two
modules are one argument, cut where the steps of a pass begin.

`HostProofs` proves, for any environments, cells, databases and bounds,
`HostSymbols`, `HostServedByOwn`, `HostWorkOwned`, `HostPendingHoldsLoop`,
`HostInitErrorRecent`, `HostAttachedAsIssued`, `HostMapped` and
`HostTypesBounded`: the properties of the run `host`, and two more. `HostInv` says
that a handle is below `nextHandle` and leads to its own runtime or to none
(`Handed`), that a cell holds the live `CallWork` of a call exactly while the
call is active (`Works`), and that a pending promise has an active call whose
thread is counted (`Settles`). `Names` says that the names issued are 1 to m,
each for one database, so the next one is new; `Permanent` that the extension
was loaded before anything was registered; `InitsUnderWay` relates the inits
that are still running to the one that failed. For the bounds of `HostTypeOK`
it takes counting: the handles given out are at most the inits that are over
(`InitsCounted`), and the names issued at most the calls that were answered
(`CallsBounded`).

Model-checked only:

* `AckedDurable`, `ManifestReadable`, `DeletesSpareReads` and
  `SupersededCovered` with garbage collection on. `compaction_pair` checks them
  where nothing fails, and `compaction_gc` shows that a failure breaks the first;
  an invariant for the former has not been worked out.
* `SupersededCovered` itself. It does not hold for every value of the constants
  (see the observations above), so it can only be a hypothesis.
* All liveness, which is outside the prover's reach.

## Not modelled

* The cache of listings and file bytes (`range_cache.go`), on by default with
  32 MiB and 30 s. In the models every listing is current. Two things follow:
  a manifest that is rebuilt from a stale listing is outside the models, and
  so is a listing that is cached between `dropLevel` and the write it belongs
  to. Cached bytes cannot be stale as long as files are `Immutable`.
* The delays between attempts (`retry.go:57-76`, `lease.go` 269-297). The models
  choose between another attempt and the error, whatever the delay; that a
  multiplier below one lets the delay shrink to zero, which ends the retries,
  is arithmetic they do not have.
* Loss of the store's data, and corrupt records or manifests; the encodings and
  JSON envelopes; several storage providers (one atomic object store stands for
  them); errors of the local file system.
* The host's own connections through `ReadDSN` once they are open, and what a
  VFS reads: Litestream and SQLite.
* `Database.Compact` and `Maintain`, which the runtime does not call; metrics;
  identity parsing; the examples.
* The SQLite headers in `bindings/vfs/binding/` and the generated
  `libwalrusd_vfs.h`: declarations, which have no behaviour to model.
