------------------------------- MODULE Reads -------------------------------
(***************************************************************************)
(* What one process keeps for its databases: the registered databases with *)
(* their VFS and reference counts (Runtime.database, releaseDatabase,      *)
(* teardownDatabase, Close), the LRU cache of read sessions (src/cache),   *)
(* and the calls of WithRead and WithWrite that use both.                  *)
(*                                                                         *)
(* Each step is one critical section: of Runtime.mu, of Cache.mu, or of    *)
(* the mutex of a cached session, which is held while a callback runs.     *)
(* Closing a session and unregistering a VFS happen after the lock was     *)
(* given up, so a caller carries what it still has to close.               *)
(*                                                                         *)
(* The write protocol is one step here (see Writer); a version stands for  *)
(* the LTX chain.  The limit of the registry and of the cache is the same  *)
(* setting, MaxReadInstances, and caching is on.                           *)
(***************************************************************************)
EXTENDS Naturals, FiniteSets, Sequences, Functions

CONSTANTS
    Keys,           \* databases
    Callers,        \* goroutines
    Nobody,         \* the mutex of a session is free
    Limit,          \* Config.MaxReadInstances
    MaxCalls        \* bound: calls in all

ASSUME LimitAssumption == Limit \in Nat \ {0}
ASSUME CallersAssumption == IsFiniteSet(Callers) /\ Nobody \notin Callers /\ MaxCalls \in Nat
ASSUME KeysAssumption == Keys # {}

VARIABLES
    resident,   \* Runtime.dbOrder: registered databases, most recently used first
    entry,      \* every databaseEntry made so far
    order,      \* Cache.order: cached sessions, most recently used first
    session,    \* every read session opened so far
    head,       \* head[k]: version of the remote chain
    acked,      \* acked[k]: latest version a write of this process reported
    closed,     \* Runtime.closed
    pc, call,   \* where a caller is, and its local variables
    calls       \* counter of the bound

cacheVars == <<order, session>>
registryVars == <<resident, entry, closed>>
vars == <<resident, entry, order, session, head, acked, closed, pc, call, calls>>

-----------------------------------------------------------------------------
Kind == {"read", "write", "close"}
PC == {"idle", "enter", "get", "hit", "drop", "running", "manifest", "open", "fresh", "put",
       "commit", "evict", "release", "shut", "return"}
Entry == [key : Keys, refs : Nat, evicted : BOOLEAN, vfs : BOOLEAN]
Session == [entry : Nat, version : Nat, open : BOOLEAN, user : Callers \cup {Nobody}]
\* closing: sessions taken out of the cache, to be closed; doomed: entries to
\* be torn down; tearing: the entry whose cached session was evicted.
Call == [kind : Kind, key : Keys, entry : Nat, session : Nat, version : Nat, floor : Nat,
         closing : SUBSET Nat, doomed : SUBSET Nat, tearing : Nat]

ReadsTypeOK ==
    /\ entry \in Seq(Entry)
    /\ session \in Seq(Session) /\ \A s \in DOMAIN session : session[s].entry \in DOMAIN entry
    /\ resident \in Seq(DOMAIN entry) /\ Len(resident) <= Limit
    /\ order \in Seq(DOMAIN session) /\ Len(order) <= Limit
    /\ head \in [Keys -> Nat] /\ acked \in [Keys -> Nat]
    /\ closed \in BOOLEAN
    /\ pc \in [Callers -> PC]
    /\ call \in [Callers -> Call]
    /\ \A c \in Callers : call[c].closing \subseteq DOMAIN session
    /\ calls \in 0..MaxCalls

NewCall(kind, k) ==
    [kind |-> kind, key |-> k, entry |-> 0, session |-> 0, version |-> 0, floor |-> acked[k],
     closing |-> {}, doomed |-> {}, tearing |-> 0]

\* Databases exist before the process starts.
Init ==
    /\ resident = <<>> /\ entry = <<>>
    /\ order = <<>> /\ session = <<>>
    /\ head = [k \in Keys |-> 1]
    /\ acked = [k \in Keys |-> 0]
    /\ closed = FALSE
    /\ pc = [c \in Callers |-> "idle"]
    /\ call = [c \in Callers |-> NewCall("read", CHOOSE k \in Keys : TRUE)]
    /\ calls = 0

-----------------------------------------------------------------------------
Goto(c, l) == pc' = [pc EXCEPT ![c] = l]

\* The LRU lists (container/list): the back is the least recently used.
Back(list) == list[Len(list)]
DropBack(list) == SubSeq(list, 1, Len(list) - 1)
Removed(list, i) == SubSeq(list, 1, i - 1) \o SubSeq(list, i + 1, Len(list))
ToFront(list, i) == <<list[i]>> \o Removed(list, i)

KeyOf(s) == entry[session[s].entry].key

\* Cache.entries: the list element of a key, none or one, and its session.
CachedAt(k) == {i \in DOMAIN order : KeyOf(order[i]) = k}
Cached(k) == {order[i] : i \in CachedAt(k)}

\* Cache.removeLocked of the key's element, if there is one.
WithoutKey(k) ==
    IF CachedAt(k) = {} THEN order ELSE Removed(order, CHOOSE i \in CachedAt(k) : TRUE)

\* The caller has nothing to close before its next step.
Ready(c) ==
    /\ call[c].closing = {}
    /\ call[c].tearing = 0
    /\ call[c].doomed = {} \/ pc[c] = "shut"

\* cachedReadSession.Close waits for a callback that is running.
CloseSession(c) ==
    \E s \in call[c].closing :
        /\ session[s].user = Nobody
        /\ session' = [session EXCEPT ![s].open = FALSE]
        /\ call' = [call EXCEPT ![c].closing = @ \ {s}]
        /\ UNCHANGED <<registryVars, order, head, acked, pc, calls>>

\* Mutant: the cached session is left to the cache.
TearEvictSkipped(c) ==
    /\ call[c].closing = {} /\ call[c].tearing = 0 /\ pc[c] # "shut"
    /\ \E e \in call[c].doomed :
          call' = [call EXCEPT ![c].doomed = @ \ {e}, ![c].tearing = e]
    /\ UNCHANGED <<registryVars, cacheVars, head, acked, pc, calls>>

\* teardownDatabase: the cached session of the key first ...
TearEvict(c) ==
    /\ call[c].closing = {} /\ call[c].tearing = 0 /\ pc[c] # "shut"
    /\ \E e \in call[c].doomed :
          LET k == entry[e].key IN
          /\ order' = WithoutKey(k)
          /\ call' = [call EXCEPT ![c].doomed = @ \ {e}, ![c].tearing = e,
                                  ![c].closing = Cached(k)]
    /\ UNCHANGED <<registryVars, session, head, acked, pc, calls>>

\* ... then the VFS names.
TearClose(c) ==
    /\ call[c].closing = {} /\ call[c].tearing # 0
    /\ entry' = [entry EXCEPT ![call[c].tearing].vfs = FALSE]
    /\ call' = [call EXCEPT ![c].tearing = 0]
    /\ UNCHANGED <<resident, closed, cacheVars, head, acked, pc, calls>>

-----------------------------------------------------------------------------
Start(c, kind, k) ==
    /\ pc[c] = "idle"
    /\ calls < MaxCalls
    /\ calls' = calls + 1
    /\ call' = [call EXCEPT ![c] = NewCall(kind, k)]
    /\ Goto(c, "enter")
    /\ UNCHANGED <<registryVars, cacheVars, head, acked>>

AfterEnter(c) == IF call[c].kind = "read" THEN "get" ELSE "commit"

\* database: the key is registered.
EnterHit(c) ==
    /\ pc[c] = "enter" /\ ~closed
    /\ \E i \in DOMAIN resident :
          LET e == resident[i] IN
          /\ entry[e].key = call[c].key
          /\ resident' = ToFront(resident, i)
          /\ entry' = [entry EXCEPT ![e].refs = @ + 1]
          /\ call' = [call EXCEPT ![c].entry = e]
    /\ Goto(c, AfterEnter(c))
    /\ UNCHANGED <<closed, cacheVars, head, acked, calls>>

\* Mutant: the reference count is not looked at.
EvictableBusy(e) == entry[e].refs >= 0

\* An evicted entry is torn down by whoever evicts it, or by its last user.
Evictable(e) == entry[e].refs = 0

\* database: the key is registered now; the least recently used database makes
\* room for it.
EnterMiss(c) ==
    /\ pc[c] = "enter" /\ ~closed
    /\ \A i \in DOMAIN resident : entry[resident[i]].key # call[c].key
    /\ LET n == Len(entry) + 1
           new == [key |-> call[c].key, refs |-> 1, evicted |-> FALSE, vfs |-> TRUE]
           full == Len(resident) = Limit
       IN  /\ resident' = <<n>> \o (IF full THEN DropBack(resident) ELSE resident)
           /\ entry' = Append(IF full THEN [entry EXCEPT ![Back(resident)].evicted = TRUE]
                              ELSE entry, new)
           /\ call' = [call EXCEPT ![c].entry = n,
                         ![c].doomed = IF full /\ Evictable(Back(resident))
                                       THEN {Back(resident)} ELSE {}]
    /\ Goto(c, AfterEnter(c))
    /\ UNCHANGED <<closed, cacheVars, head, acked, calls>>

\* The runtime is closed, or the registration fails.
EnterFails(c) ==
    /\ pc[c] = "enter"
    /\ Goto(c, "return")
    /\ UNCHANGED <<registryVars, cacheVars, head, acked, call, calls>>

\* Mutant: an entry that was evicted while it was used stays registered.
LastUserNever(e) == FALSE

\* releaseDatabase: the last user of an evicted entry tears it down.
LastUser(e) == entry[e].evicted /\ entry[e].refs = 1

Release(c) ==
    /\ pc[c] = "release" /\ Ready(c)
    /\ LET e == call[c].entry IN
        /\ entry' = [entry EXCEPT ![e].refs = @ - 1]
        /\ call' = [call EXCEPT ![c].entry = 0, ![c].doomed = IF LastUser(e) THEN {e} ELSE {}]
    /\ Goto(c, "return")
    /\ UNCHANGED <<resident, closed, cacheVars, head, acked, calls>>

Greater(m, n) == IF m > n THEN m ELSE n

\* The call returns; a write that committed reports its version.
Return(c) ==
    /\ pc[c] = "return" /\ Ready(c)
    /\ acked' = IF call[c].kind = "write"
                  THEN [acked EXCEPT ![call[c].key] = Greater(@, call[c].version)]
                  ELSE acked
    /\ Goto(c, "idle")
    /\ UNCHANGED <<registryVars, cacheVars, head, call, calls>>

-----------------------------------------------------------------------------
\* Cache.Get: a hit, a miss, or an entry that was idle for too long.
Get(c) ==
    /\ pc[c] = "get" /\ Ready(c)
    /\ \/ /\ Cached(call[c].key) = {}
          /\ Goto(c, "manifest")
          /\ UNCHANGED <<order, call>>
       \/ \E i \in CachedAt(call[c].key) :
          /\ order' = ToFront(order, i)
          /\ call' = [call EXCEPT ![c].session = order[i]]
          /\ Goto(c, "hit")
       \/ \E i \in CachedAt(call[c].key) :
          /\ order' = Removed(order, i)
          /\ call' = [call EXCEPT ![c].closing = {order[i]}]
          /\ Goto(c, "manifest")
    /\ UNCHANGED <<registryVars, session, head, acked, calls>>

\* cachedReadSession.run: the callback runs unless the session was closed
\* after Get; then the key is evicted and the read opens a session of its own.
RunHit(c) ==
    /\ pc[c] = "hit"
    /\ LET s == call[c].session IN
        /\ session[s].user = Nobody
        /\ \/ /\ session[s].open
              /\ session' = [session EXCEPT ![s].user = c]
              /\ Goto(c, "running")
           \/ /\ ~session[s].open
              /\ Goto(c, "drop")
              /\ UNCHANGED session
    /\ UNCHANGED <<registryVars, order, call, head, acked, calls>>

\* Mutant: the failing path keeps the session's mutex.
RunEndsLocked(c) ==
    /\ pc[c] = "running"
    /\ \/ /\ session' = [session EXCEPT ![call[c].session].user = Nobody]
          /\ Goto(c, "release")
       \/ Goto(c, "evict") /\ UNCHANGED session
    /\ UNCHANGED <<registryVars, order, head, acked, call, calls>>

\* The callback returns; an error evicts the session.
RunEnds(c) ==
    /\ pc[c] = "running"
    /\ session' = [session EXCEPT ![call[c].session].user = Nobody]
    /\ Goto(c, "release") \/ Goto(c, "evict")
    /\ UNCHANGED <<registryVars, order, head, acked, call, calls>>

\* Cache.Evict: after a failed callback, before a new session, after a write.
Evict(c) ==
    /\ pc[c] \in {"drop", "evict"}
    /\ order' = WithoutKey(call[c].key)
    /\ call' = [call EXCEPT ![c].closing = Cached(call[c].key)]
    /\ Goto(c, IF pc[c] = "drop" THEN "manifest" ELSE "release")
    /\ UNCHANGED <<registryVars, session, head, acked, calls>>

ReadManifest(c) ==
    /\ pc[c] = "manifest" /\ Ready(c)
    /\ call' = [call EXCEPT ![c].version = head[call[c].key]]
    /\ Goto(c, "open")
    /\ UNCHANGED <<registryVars, cacheVars, head, acked, calls>>

\* The session answers from the manifest it was opened with until it is closed
\* (manifestClient).
OpenRead(c) ==
    /\ pc[c] = "open"
    /\ session' = Append(session, [entry |-> call[c].entry, version |-> call[c].version,
                                   open |-> TRUE, user |-> c])
    /\ call' = [call EXCEPT ![c].session = Len(session) + 1]
    /\ Goto(c, "fresh")
    /\ UNCHANGED <<registryVars, order, head, acked, calls>>

\* A request fails, or the database is empty and needs no session.
ReadEndsEarly(c) ==
    /\ pc[c] \in {"manifest", "open"} /\ Ready(c)
    /\ Goto(c, "release")
    /\ UNCHANGED <<registryVars, cacheVars, head, acked, call, calls>>

\* The callback returns on the new session, which is cached or, after an
\* error, closed.
FreshEnds(c) ==
    /\ pc[c] = "fresh"
    /\ session' = [session EXCEPT ![call[c].session].user = Nobody]
    /\ \/ Goto(c, "put") /\ UNCHANGED call
       \/ Goto(c, "release") /\ call' = [call EXCEPT ![c].closing = {call[c].session}]
    /\ UNCHANGED <<registryVars, order, head, acked, calls>>

\* Mutant: the capacity is not enforced.
PutUnbounded(c) ==
    /\ pc[c] = "put" /\ Ready(c)
    /\ order' = <<call[c].session>> \o WithoutKey(call[c].key)
    /\ call' = [call EXCEPT ![c].closing = Cached(call[c].key)]
    /\ Goto(c, "release")
    /\ UNCHANGED <<registryVars, session, head, acked, calls>>

\* Cache.Put: replace the session of the key, or add one, or evict the least
\* recently used session and try again.
Put(c) ==
    /\ pc[c] = "put" /\ Ready(c)
    /\ LET old == Cached(call[c].key) IN
        \/ /\ old # {} \/ Len(order) < Limit
           /\ order' = <<call[c].session>> \o WithoutKey(call[c].key)
           /\ call' = [call EXCEPT ![c].closing = old]
           /\ Goto(c, "release")
        \/ /\ old = {} /\ Len(order) = Limit
           /\ order' = DropBack(order)
           /\ call' = [call EXCEPT ![c].closing = {Back(order)}]
           /\ UNCHANGED pc
    /\ UNCHANGED <<registryVars, session, head, acked, calls>>

-----------------------------------------------------------------------------
\* The write protocol up to its manifest update, or its failure.
Commit(c) ==
    /\ pc[c] = "commit" /\ Ready(c)
    /\ \/ /\ head' = [head EXCEPT ![call[c].key] = @ + 1]
          /\ call' = [call EXCEPT ![c].version = head[call[c].key] + 1]
          /\ Goto(c, "evict")
       \/ /\ Goto(c, "release")
          /\ UNCHANGED <<head, call>>
    /\ UNCHANGED <<registryVars, cacheVars, acked, calls>>

\* Close: every entry is evicted; those nobody uses are torn down.
Close(c) ==
    /\ pc[c] = "idle"
    /\ ~closed
    /\ closed' = TRUE
    /\ resident' = <<>>
    /\ entry' = [e \in DOMAIN entry |->
                    IF e \in Range(resident) THEN [entry[e] EXCEPT !.evicted = TRUE] ELSE entry[e]]
    /\ call' = [call EXCEPT ![c].kind = "close",
                             ![c].doomed = {e \in Range(resident) : Evictable(e)}]
    /\ Goto(c, "shut")
    /\ UNCHANGED <<cacheVars, head, acked, calls>>

\* Cache.Close.
CloseCache(c) ==
    /\ pc[c] = "shut"
    /\ order' = <<>>
    /\ call' = [call EXCEPT ![c].closing = Range(order)]
    /\ Goto(c, "return")
    /\ UNCHANGED <<registryVars, session, head, acked, calls>>

-----------------------------------------------------------------------------
Step(c) ==
    \/ CloseSession(c) \/ TearEvict(c) \/ TearClose(c)
    \/ EnterHit(c) \/ EnterMiss(c) \/ EnterFails(c)
    \/ Get(c) \/ RunHit(c) \/ RunEnds(c) \/ Evict(c)
    \/ ReadManifest(c) \/ OpenRead(c) \/ ReadEndsEarly(c) \/ FreshEnds(c) \/ Put(c)
    \/ Commit(c) \/ CloseCache(c) \/ Release(c) \/ Return(c)

Next ==
    \E c \in Callers :
        \/ \E k \in Keys : Start(c, "read", k) \/ Start(c, "write", k)
        \/ Close(c)
        \/ Step(c)

\* Every goroutine runs on: callbacks return, and requests are answered or
\* time out.
ReadsSpec == Init /\ [][Next]_vars /\ \A c \in Callers : WF_vars(Step(c))

-----------------------------------------------------------------------------
Users(e) == {c \in Callers : call[c].entry = e}

\* The reference count of a database is the number of calls that use it, and
\* its VFS stays registered as long as there is one (database,
\* releaseDatabase).
RefsExact ==
    \A e \in DOMAIN entry :
        /\ entry[e].refs = Cardinality(Users(e))
        /\ Users(e) # {} => entry[e].vfs

Using(c) == IF pc[c] \in {"fresh", "put"} THEN {call[c].session} ELSE {}

\* Nothing leaks: a registered VFS is resident, in use or about to be torn
\* down, and an open session is cached, in the hands of the call that opened
\* it or about to be closed, even when eviction, replacement, an idle timeout
\* and Close meet (teardownDatabase, Cache.Put, Cache.Close).
NothingLeaks ==
    /\ \A e \in DOMAIN entry : entry[e].vfs =>
          \/ e \in Range(resident)
          \/ entry[e].refs > 0
          \/ \E c \in Callers : e \in call[c].doomed \cup {call[c].tearing}
    /\ \A s \in DOMAIN session : session[s].open =>
          \/ s \in Range(order)
          \/ \E c \in Callers : s \in Using(c) \cup call[c].closing

\* Once Close and the calls that were in flight have returned, no session is
\* open and no VFS is registered, although a read may cache its session after
\* Close emptied the cache (Close, releaseDatabase).
ShutdownClean ==
    closed /\ (\A c \in Callers : pc[c] = "idle") =>
        /\ \A s \in DOMAIN session : ~session[s].open
        /\ \A e \in DOMAIN entry : ~entry[e].vfs

\* Every call returns, and so does Close: no cycle of waits for session
\* mutexes (cachedReadSession.run, Cache.Evict, teardownDatabase).
CallsReturn == \A c \in Callers : pc[c] # "idle" ~> pc[c] = "idle"

\* No connection still owns a VFS when it is unregistered: the comment on
\* teardownDatabase.
SessionsOnOpenVFS ==
    \A s \in DOMAIN session : session[s].open => entry[session[s].entry].vfs

\* After a write was reported, the next read of this process opens at the
\* flushed state: the comment on the eviction in withWriteAttempt.
ReadsFlushedState ==
    \A c \in Callers :
        pc[c] \in {"running", "fresh"} => session[call[c].session].version >= call[c].floor

=============================================================================
