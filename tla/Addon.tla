------------------------------- MODULE Addon -------------------------------
(***************************************************************************)
(* The Node addon (src/bindings/node/native/walrusd.cc) over the C ABI.    *)
(*                                                                         *)
(* An environment is a JavaScript thread: the main one or a worker.  load, *)
(* init and close run on it; write, read and readDsn return a promise and  *)
(* run on a thread of their own, which hands its CallWork to the event     *)
(* loop through a threadsafe function.  The environments of a process      *)
(* share the symbols, the C ABI and the heap.                              *)
(*                                                                         *)
(* The heap is explicit: a CallWork lives in a cell, and call_thread reads *)
(* its CallWork once more after it was handed over.  A cell that was       *)
(* freed holds what it held, something else, or the next CallWork.         *)
(*                                                                         *)
(* The threadsafe function is Node's: modelled as walrusd.cc uses it.      *)
(***************************************************************************)
EXTENDS Handles, Sequences

CONSTANTS
    Envs,           \* environments of the process
    Cells,          \* heap cells that CallWork is allocated in
    DBs,            \* databases
    None,           \* a call that is not a readDsn
    MaxCalls        \* bound: calls in all

ASSUME CallsAssumption == MaxCalls \in Nat

VARIABLES
    library,        \* the shared library: "complete", or "lacking" symbols
    symbols,        \* the ABI symbols: "unset", "complete" or "lacking"
    js,             \* js[e]: where the JavaScript thread of e is
    client,         \* client[e]: the WalrusdDatabase of e
    call,           \* call[k]: the calls made so far
    heap,           \* heap[c]: the call whose CallWork cell c holds or held last
    issued,         \* the VFSes that readDsn registered
    dsns,           \* the DSNs that JavaScript got
    misread         \* a thread took another CallWork, or junk, for its own

addonVars == <<library, symbols, js, client, call, heap, issued, dsns, misread>>

-----------------------------------------------------------------------------
\* "new": this environment has not loaded the library.  "idle": JavaScript or
\* the event loop runs.  "gone": the environment was torn down.
JS == {"new", "idle", "init", "init failed", "closing", "gone"}

\* runtime: the number of its init; during: the inits that were under way when
\* that began, as long as it is under way itself.
Client == [handle : 0..MaxInits, runtime : 0..MaxInits, during : SUBSET Inits]
NoClient == [handle |-> 0, runtime |-> 0, during |-> {}]

\* "begin": dispatch has not looked the handle up.  "entered": in the runtime.
\* "push": ready to hand the CallWork over.  "release": that was tried.
PC == {"begin", "entered", "push", "release", "done"}

\* runtime: of the client it was called on; late: that client was closed before;
\* served: the runtime that took it; dsn: the database of a readDsn; name: of
\* the VFS it registered.  threads, queued and fn are the threadsafe function's.
\* A field that the rest of the call does not use is reset.
Call == [env : Envs, dsn : DBs \cup {None}, handle : 0..MaxInits, runtime : 0..MaxInits,
         late : BOOLEAN, cell : Cells, pc : PC, served : 0..MaxInits,
         answer : Answer \cup {"none"}, name : 0..MaxCalls,
         promise : {"pending", "resolved", "rejected"},
         threads : 0..1, queued : BOOLEAN, fn : {"open", "closing", "destroyed"}]

DSN == [name : 1..MaxCalls, db : DBs, runtime : Inits]

Cell == [call : 0..MaxCalls, live : BOOLEAN]

AddonTypeOK ==
    /\ HandlesTypeOK
    /\ library \in {"complete", "lacking"}
    /\ symbols \in {"unset", "complete", "lacking"}
    /\ js \in [Envs -> JS]
    /\ client \in [Envs -> Client]
    /\ call \in Seq(Call) /\ Len(call) <= MaxCalls
    /\ heap \in [Cells -> Cell]
    /\ issued \subseteq DSN /\ dsns \subseteq issued
    /\ misread \in BOOLEAN

AddonInit ==
    /\ HandlesInit
    /\ library \in {"complete", "lacking"}
    /\ symbols = "unset"
    /\ js = [e \in Envs |-> "new"]
    /\ client = [e \in Envs |-> NoClient]
    /\ call = <<>>
    /\ heap = [c \in Cells |-> [call |-> 0, live |-> FALSE]]
    /\ issued = {} /\ dsns = {}
    /\ misread = FALSE

-----------------------------------------------------------------------------
Goto(e, l) == js' = [js EXCEPT ![e] = l]

\* walrusd_load, which loadNative calls before anything else.  The symbols are
\* stored before they are looked at; a dlopen that fails changes nothing.
Load(e) ==
    /\ js[e] = "new"
    /\ symbols' = library
    /\ js' = [js EXCEPT ![e] = IF library = "complete" THEN "idle" ELSE "new"]
    /\ UNCHANGED <<handleVars, library, client, call, heap, issued, dsns, misread>>

\* The constructor of WalrusdDatabase: walrusd_runtime_init is called ...
InitBegins(e) ==
    /\ js[e] = "idle" /\ ~Registered(client[e].handle)
    /\ EnterInit
    /\ Goto(e, "init")
    /\ client' = [client EXCEPT ![e] =
                    [handle |-> 0, runtime |-> inits + 1,
                     during |-> {client[f].runtime : f \in {g \in Envs : js[g] \in {"init", "init failed"}}}]]
    /\ UNCHANGED <<library, symbols, call, heap, issued, dsns, misread>>

InitSucceeds(e) ==
    /\ js[e] = "init"
    /\ RegisterRuntime(client[e].runtime)
    /\ client' = [client EXCEPT ![e].handle = nextHandle, ![e].during = {}]
    /\ Goto(e, "idle")
    /\ UNCHANGED <<library, symbols, call, heap, issued, dsns, misread>>

InitFails(e) ==
    /\ js[e] = "init"
    /\ RefuseInit(client[e].runtime)
    /\ Goto(e, "init failed")
    /\ UNCHANGED <<library, symbols, client, call, heap, issued, dsns, misread>>

\* ... and the message is asked for when it returned 0.
InitThrows(e) ==
    /\ js[e] = "init failed"
    /\ client' = [client EXCEPT ![e] = NoClient]
    /\ Goto(e, "idle")
    /\ UNCHANGED <<handleVars, library, symbols, call, heap, issued, dsns, misread>>

\* walrusd_close, on the JavaScript thread.  A second close finds no entry and
\* changes nothing.
CloseBegins(e) ==
    /\ js[e] = "idle" /\ Registered(client[e].handle)
    /\ RemoveRuntime(client[e].handle)
    /\ Goto(e, "closing")
    /\ UNCHANGED <<library, symbols, client, call, heap, issued, dsns, misread>>

CloseReturns(e) ==
    /\ js[e] = "closing"
    /\ Goto(e, "idle")
    /\ UNCHANGED <<handleVars, library, symbols, client, call, heap, issued, dsns, misread>>

-----------------------------------------------------------------------------
\* walrusd_call_async.  When memory, the promise or the threadsafe function is
\* refused it frees what it has and throws: nothing is left.
StartCall(e) ==
    /\ js[e] = "idle" /\ client[e].runtime # 0
    /\ Len(call) < MaxCalls
    /\ \E c \in Cells, d \in DBs \cup {None} :
        /\ ~heap[c].live
        /\ heap' = [heap EXCEPT ![c] = [call |-> Len(call) + 1, live |-> TRUE]]
        /\ call' = Append(call,
              [env |-> e, dsn |-> d, handle |-> client[e].handle,
               runtime |-> client[e].runtime, late |-> ~Registered(client[e].handle),
               cell |-> c, pc |-> "begin", served |-> 0, answer |-> "none", name |-> 0,
               promise |-> "pending", threads |-> 1, queued |-> FALSE, fn |-> "open"])
    /\ UNCHANGED <<handleVars, library, symbols, js, client, issued, dsns, misread>>

\* The call has its answer; handle and runtime are not used any more.
Answered(k, a, n) ==
    [call EXCEPT ![k] = [@ EXCEPT !.pc = "push", !.answer = a, !.name = n,
                            !.handle = 0, !.runtime = 0, !.served = 0, !.late = FALSE]]

\* dispatch looks the handle up; the runtime is used after handleMu was given up.
Dispatch(k) ==
    LET h == call[k].handle IN
    /\ call[k].pc = "begin"
    /\ \/ /\ Registered(h)
          /\ call' = [call EXCEPT ![k].pc = "entered", ![k].served = runtimes[h]]
       \/ /\ ~Registered(h)
          /\ \E a \in Answer : call' = Answered(k, a, 0)
    /\ UNCHANGED <<handleVars, library, symbols, js, client, heap, issued, dsns, misread>>

\* The VFS names of a process are numbered (globalVFSSeq).
\* Mutant: every runtime numbers its own.
NextNameOf(i) == Cardinality({v.name : v \in {x \in issued : x.runtime = i}}) + 1

NextName(i) == Cardinality({v.name : v \in issued}) + 1

\* ReadDSN: the VFS that runtime i has registered for database d, or a new one.
ReadDSN(i, d) ==
    {v \in issued : v.runtime = i /\ v.db = d} \cup {[name |-> NextName(i), db |-> d, runtime |-> i]}

RuntimeReturns(k) ==
    LET c == call[k] IN
    /\ c.pc = "entered"
    /\ \/ /\ c.dsn # None
          /\ \E v \in ReadDSN(c.served, c.dsn) :
                /\ issued' = issued \cup {v}
                /\ call' = Answered(k, "envelope", v.name)
       \/ /\ \E a \in Answer : call' = Answered(k, a, 0)
          /\ UNCHANGED issued
    /\ UNCHANGED <<handleVars, library, symbols, js, client, heap, dsns, misread>>

-----------------------------------------------------------------------------
\* A CallWork is freed, and with it the answer.
Dropped(c) == [c EXCEPT !.queued = FALSE, !.answer = "none", !.dsn = None, !.name = 0]
Free(k) == [heap EXCEPT ![call[k].cell].live = FALSE]

\* Mutant: an answer that is NULL is not handed over.
HandOverAnswered(k) ==
    /\ call[k].pc = "push" /\ call[k].fn = "open"
    /\ call' = [call EXCEPT ![k].pc = "release", ![k].queued = call[k].answer # "NULL"]
    /\ UNCHANGED <<handleVars, library, symbols, js, client, heap, issued, dsns, misread>>

\* Mutant: the CallWork is freed whether it was handed over or not.
HandOverFreeing(k) ==
    /\ call[k].pc = "push" /\ call[k].fn = "open"
    /\ call' = [call EXCEPT ![k].pc = "release", ![k].queued = TRUE]
    /\ heap' = Free(k)
    /\ UNCHANGED <<handleVars, library, symbols, js, client, issued, dsns, misread>>

\* call_thread hands the CallWork to the event loop ...
HandOver(k) ==
    /\ call[k].pc = "push" /\ call[k].fn = "open"
    /\ call' = [call EXCEPT ![k].pc = "release", ![k].queued = TRUE]
    /\ UNCHANGED <<handleVars, library, symbols, js, client, heap, issued, dsns, misread>>

\* ... or frees it, when the environment is gone.  Node has then taken the
\* thread off the count.
HandOverFails(k) ==
    /\ call[k].pc = "push" /\ call[k].fn # "open"
    /\ call' = [call EXCEPT ![k] = [Dropped(@) EXCEPT
                    !.pc = "release", !.threads = 0, !.fn = "destroyed"]]
    /\ heap' = Free(k)
    /\ UNCHANGED <<handleVars, library, symbols, js, client, issued, dsns, misread>>

\* What w->tsfn may be when call_thread reads it for the release: w is its own
\* CallWork, or free memory, or the CallWork of a later call.
ReadTSFN(k) ==
    LET cell == heap[call[k].cell] IN
    {cell.call} \cup IF cell.live THEN {} ELSE {0}

\* napi_release_threadsafe_function; the count of t is 0 or 1.
Released(t) ==
    [call[t] EXCEPT !.threads = 0, !.fn = IF @ = "closing" THEN "destroyed" ELSE @]

Release(k) ==
    /\ call[k].pc = "release"
    /\ \E t \in ReadTSFN(k) :
        /\ call' = [j \in DOMAIN call |->
                        LET r == IF j = t THEN Released(j) ELSE call[j]
                        IN IF j = k THEN [r EXCEPT !.pc = "done"] ELSE r]
        /\ misread' = (misread \/ t # k)
    /\ UNCHANGED <<handleVars, library, symbols, js, client, heap, issued, dsns>>

-----------------------------------------------------------------------------
\* call_deliver on the event loop: NULL became an error; any envelope resolves.
Deliver(k) ==
    /\ call[k].queued /\ js[call[k].env] = "idle"
    /\ call' = [call EXCEPT ![k] = [Dropped(@) EXCEPT
                    !.promise = IF call[k].answer = "NULL" THEN "rejected" ELSE "resolved"]]
    /\ heap' = Free(k)
    /\ dsns' = dsns \cup {v \in issued : v.name = call[k].name /\ v.db = call[k].dsn}
    /\ UNCHANGED <<handleVars, library, symbols, js, client, issued, misread>>

\* The threadsafe function is destroyed when it is drained and no thread is left.
Destroy(k) ==
    /\ call[k].fn = "open" /\ ~call[k].queued /\ call[k].threads = 0
    /\ js[call[k].env] = "idle"
    /\ call' = [call EXCEPT ![k].fn = "destroyed"]
    /\ UNCHANGED <<handleVars, library, symbols, js, client, heap, issued, dsns, misread>>

\* A worker ends: what is queued is delivered with no environment, which frees
\* it, and the threadsafe functions close.
TearDown(e) ==
    /\ js[e] = "idle"
    /\ Goto(e, "gone")
    /\ client' = [client EXCEPT ![e] = NoClient]
    /\ call' = [k \in DOMAIN call |->
                    IF call[k].env = e /\ call[k].fn = "open"
                    THEN [IF call[k].queued THEN Dropped(call[k]) ELSE call[k] EXCEPT
                            !.fn = IF call[k].threads = 0 THEN "destroyed" ELSE "closing"]
                    ELSE call[k]]
    /\ heap' = [c \in Cells |-> IF \E k \in DOMAIN call :
                                    call[k].env = e /\ call[k].queued /\ call[k].cell = c
                                 THEN [heap[c] EXCEPT !.live = FALSE] ELSE heap[c]]
    /\ UNCHANGED <<handleVars, library, symbols, issued, dsns, misread>>

-----------------------------------------------------------------------------
ThreadStep(k) ==
    \/ Dispatch(k) \/ RuntimeReturns(k)
    \/ HandOver(k) \/ HandOverFails(k) \/ Release(k)

LoopStep(k) == Deliver(k) \/ Destroy(k)

EnvStep(e) ==
    \/ Load(e)
    \/ InitBegins(e) \/ InitSucceeds(e) \/ InitFails(e) \/ InitThrows(e)
    \/ CloseBegins(e) \/ CloseReturns(e)
    \/ StartCall(e) \/ TearDown(e)

=============================================================================
