----------------------------- MODULE HostProofs ----------------------------
(***************************************************************************)
(* What the addon, the C ABI and the extension keep in every process, with *)
(* any number of environments, heap cells, inits and calls. A handle is    *)
(* never given out again, so it leads to one runtime or to none; a cell is *)
(* not freed before its CallWork was delivered, so no two calls that are   *)
(* under way share one.                                                    *)
(*                                                                         *)
(* The bounds of HostTypeOK come last: an init takes one handle at most,   *)
(* and a call that was answered issued one name at most.                   *)
(***************************************************************************)
EXTENDS Host, SequenceTheorems, FiniteSetTheorems, TLAPS

\* The types that the argument needs: the bounds of TypeOK are left out.
ACall == [env : Envs, dsn : DBs \cup {None}, handle : Nat, runtime : Nat,
          late : BOOLEAN, cell : Cells, pc : PC, served : Nat,
          answer : Answer \cup {"none"}, name : Nat,
          promise : {"pending", "resolved", "rejected"},
          threads : 0..1, queued : BOOLEAN, fn : {"open", "closing", "destroyed"}]
AClient == [handle : Nat, runtime : Nat, during : SUBSET Nat]

HostTypes ==
    /\ \A h \in DOMAIN runtimes : h \in Nat /\ runtimes[h] \in Nat
    /\ nextHandle \in Nat /\ inits \in Nat
    /\ js \in [Envs -> JS]
    /\ client \in [Envs -> AClient]
    /\ call \in Seq(ACall)
    /\ heap \in [Cells -> [call : Nat, live : BOOLEAN]]
    /\ IsFiniteSet(issued) /\ \A v \in issued : v.name \in Nat

\* Whoever can call has loaded a library that is complete.
Loaded ==
    (\E e \in Envs : js[e] \in {"idle", "init", "init failed", "closing"}) \/ call # <<>>
        => symbols = "complete" /\ library = "complete"

\* A handle is below nextHandle, and leads to its own runtime or to none.
Leads(h, i) == h < nextHandle /\ (h \in DOMAIN runtimes => runtimes[h] = i)

Handed ==
    /\ nextHandle > 0
    /\ \A h \in DOMAIN runtimes : 0 < h /\ h < nextHandle
    /\ \A e \in Envs : Leads(client[e].handle, client[e].runtime)
    /\ \A k \in DOMAIN call :
        /\ call[k].pc = "begin" =>
             /\ Leads(call[k].handle, call[k].runtime)
             /\ call[k].late => call[k].handle \notin DOMAIN runtimes
        /\ call[k].pc = "entered" => call[k].served = call[k].runtime /\ ~call[k].late

\* A call that is not delivered yet.
Active(k) == call[k].pc \in {"begin", "entered", "push"} \/ call[k].queued

\* The cell of a call holds its CallWork just as long as the call is active.
Works ==
    \A k \in DOMAIN call :
        /\ call[k].queued => call[k].pc \in {"release", "done"} /\ call[k].fn = "open"
        /\ Active(k) <=> heap[call[k].cell] = [call |-> k, live |-> TRUE]

\* A promise that is pending is settled by a call under way, whose thread is on
\* the count of its threadsafe function.
Settles ==
    ~misread =>
        \A k \in DOMAIN call :
            /\ call[k].promise = "pending" /\ js[call[k].env] # "gone" =>
                 call[k].fn = "open" /\ Active(k)
            /\ call[k].pc \in {"begin", "entered", "push"} => call[k].threads = 1

HostInv == HostTypes /\ Loaded /\ Handed /\ Works /\ Settles

-----------------------------------------------------------------------------
\* The extension was loaded before anything was registered, and stays.
Permanent ==
    scratch # {} \/ attaching # {} \/ sqlite # {} => permanent

\* The names issued are 1..m for some m, each for one database, and a name in
\* vfsMap was issued for the database that it leads to.
Names ==
    /\ \E m \in Nat : {v.name : v \in issued} = 1..m
    /\ \A v, w \in issued : v.name = w.name => v.db = w.db
    /\ dsns \subseteq issued
    /\ \A n \in DOMAIN vfsMap : \E v \in issued : v.name = n /\ v.db = vfsMap[n]
    /\ sqlite \subseteq DOMAIN vfsMap
    /\ \A a \in attaching : a[2] \in DOMAIN vfsMap

-----------------------------------------------------------------------------
\* One call is changed, the others stay.
LEMMA OneCall ==
    ASSUME call \in Seq(ACall), NEW k \in DOMAIN call, NEW r \in ACall,
           call' = [call EXCEPT ![k] = r]
    PROVE  /\ call' \in Seq(ACall) /\ DOMAIN call' = DOMAIN call
           /\ call'[k] = r /\ call # <<>>
           /\ \A j \in DOMAIN call : j # k => call'[j] = call[j]
BY EmptySeq

LEMMA CallType ==
    ASSUME HostTypes, NEW k \in DOMAIN call
    PROVE  /\ call[k] \in ACall /\ k \in Nat /\ k \in 1..Len(call) /\ Len(call) \in Nat
           /\ DOMAIN call = 1..Len(call)
BY LenProperties, ElementOfSeq DEF HostTypes

\* A step of an environment that leaves the calls alone.
LEMMA CallsKept ==
    ASSUME HostInv, UNCHANGED <<call, heap, misread>>,
           \A e \in Envs : js'[e] = "gone" <=> js[e] = "gone"
    PROVE  Works' /\ Settles'
<1>1. \A k : Active(k)' <=> Active(k)
  BY DEF Active
<1>2. Works'
  BY Zenon, <1>1 DEF HostInv, Works
<1>3. \A k \in DOMAIN call : call[k].env \in Envs
  BY CallType DEF HostInv, ACall
<1>4. Settles'
  BY <1>1, <1>3 DEF HostInv, Settles
<1> QED
  BY <1>2, <1>4

\* The thread of a call goes on to its answer.
LEMMA Runs ==
    ASSUME HostInv, NEW k \in DOMAIN call, NEW r \in ACall,
           call[k].pc \in {"begin", "entered"}, call' = [call EXCEPT ![k] = r],
           r.pc \in {"entered", "push"},
           r.pc = "entered" => r.served = r.runtime /\ ~r.late,
           r.env = call[k].env, r.cell = call[k].cell, r.queued = call[k].queued,
           r.fn = call[k].fn, r.promise = call[k].promise, r.threads = call[k].threads,
           UNCHANGED <<handleVars, library, symbols, js, client, heap, misread>>,
           IsFiniteSet(issued'), \A v \in issued' : v.name \in Nat
    PROVE  HostInv'
<1> USE DEF HostInv
<1>1. /\ call' \in Seq(ACall) /\ DOMAIN call' = DOMAIN call
      /\ call'[k] = r /\ call # <<>>
      /\ \A j \in DOMAIN call : j # k => call'[j] = call[j]
  BY OneCall DEF HostTypes
<1>2. HostTypes'
  BY <1>1 DEF HostTypes, handleVars
<1>3. Loaded'
  BY Zenon, <1>1 DEF Loaded
<1>4. Handed'
  <2>1. UNCHANGED <<runtimes, nextHandle, client>>
    BY DEF handleVars
  <2>2. \A h, i : Leads(h, i)' <=> Leads(h, i)
    BY <2>1 DEF Leads
  <2> QED
    BY <1>1, <2>1, <2>2 DEF Handed
<1>5. \A j \in DOMAIN call : Active(j)' <=> Active(j)
  BY <1>1 DEF Active
<1>6. Works'
  <2> SUFFICES ASSUME NEW j \in DOMAIN call
               PROVE  /\ call'[j].queued => call'[j].pc \in {"release", "done"} /\ call'[j].fn = "open"
                      /\ Active(j)' <=> heap'[call'[j].cell] = [call |-> j, live |-> TRUE]
    BY Zenon, <1>1 DEF Works
  <2>1. call'[j].cell = call[j].cell /\ call'[j].queued = call[j].queued
    BY <1>1
  <2>2. call[k].queued => call[k].pc \in {"release", "done"}
    BY Zenon DEF Works
  <2> QED
    BY <1>1, <1>5, <2>1, <2>2 DEF Works
<1>7. Settles'
  <2> SUFFICES ASSUME ~misread', NEW j \in DOMAIN call
               PROVE  /\ call'[j].promise = "pending" /\ js'[call'[j].env] # "gone" =>
                           call'[j].fn = "open" /\ Active(j)'
                      /\ call'[j].pc \in {"begin", "entered", "push"} => call'[j].threads = 1
    BY <1>1 DEF Settles
  <2>1. /\ call[j].promise = "pending" /\ js[call[j].env] # "gone" =>
             call[j].fn = "open" /\ Active(j)
        /\ call[j].pc \in {"begin", "entered", "push"} => call[j].threads = 1
    BY DEF Settles
  <2>2. CASE j = k
    BY <1>1, <1>5, <2>1, <2>2
  <2>3. CASE j # k
    BY <1>1, <1>5, <2>1, <2>3
  <2> QED
    BY <2>2, <2>3
<1> QED
  BY Zenon, <1>2, <1>3, <1>4, <1>6, <1>7

LEMMA NextNames ==
    ASSUME HostTypes, NEW i
    PROVE  NextName(i) \in Nat
<1> DEFINE names == {v.name : v \in issued}
           f == [v \in issued |-> v.name]
<1>1. IsFiniteSet({v.name : v \in issued})
  <2>1. f \in Surjection(issued, names)
    BY DEF Surjection
  <2> HIDE DEF f
  <2> QED
    BY <2>1, FS_Surjection DEF HostTypes
<1> QED
  BY <1>1, FS_CardinalityType DEF NextName

LEMMA DispatchInv ==
    ASSUME HostInv, NEW k \in DOMAIN call, Dispatch(k) \/ RuntimeReturns(k)
    PROVE  HostInv'
<1> USE DEF HostInv
<1>1. call[k] \in ACall
  BY CallType
<1>2. ASSUME NEW a \in Answer, NEW n \in Nat, call' = Answered(k, a, n),
             call[k].pc \in {"begin", "entered"},
             UNCHANGED <<handleVars, library, symbols, js, client, heap, misread>>,
             IsFiniteSet(issued'), \A v \in issued' : v.name \in Nat
      PROVE  HostInv'
  <2> DEFINE r == [call[k] EXCEPT !.pc = "push", !.answer = a, !.name = n,
                            !.handle = 0, !.runtime = 0, !.served = 0, !.late = FALSE]
  <2>1. call' = [call EXCEPT ![k] = r]
    BY <1>2 DEF Answered
  <2>2. /\ r \in ACall /\ r.pc = "push" /\ r.env = call[k].env /\ r.cell = call[k].cell
        /\ r.queued = call[k].queued /\ r.fn = call[k].fn /\ r.promise = call[k].promise
        /\ r.threads = call[k].threads
    BY Zenon, <1>1 DEF ACall, PC
  <2> HIDE DEF r
  <2> QED
    BY Zenon, <1>2, <2>1, <2>2, Runs
<1>3. IsFiniteSet(issued) /\ \A v \in issued : v.name \in Nat
  BY DEF HostTypes
<1>4. CASE Dispatch(k) /\ Registered(call[k].handle)
  <2> DEFINE h == call[k].handle
             r == [call[k] EXCEPT !.pc = "entered", !.served = runtimes[h]]
  <2>1. /\ call[k].pc = "begin" /\ h \in DOMAIN runtimes
        /\ UNCHANGED <<handleVars, library, symbols, js, client, heap, issued, misread>>
        /\ call' = [call EXCEPT ![k].pc = "entered", ![k].served = runtimes[h]]
    BY <1>4 DEF Dispatch, Registered
  <2>2. call' = [call EXCEPT ![k] = r]
    BY Zenon, <2>1
  <2>3. runtimes[h] \in Nat /\ runtimes[h] = call[k].runtime /\ ~call[k].late
    BY <2>1 DEF HostTypes, Handed, Leads
  <2>4. /\ r \in ACall /\ r.pc = "entered" /\ r.served = r.runtime /\ r.late = call[k].late
        /\ r.env = call[k].env /\ r.cell = call[k].cell
        /\ r.queued = call[k].queued /\ r.fn = call[k].fn /\ r.promise = call[k].promise
        /\ r.threads = call[k].threads
    BY Zenon, <1>1, <2>3 DEF ACall, PC
  <2> HIDE DEF r, h
  <2> QED
    BY Zenon, <1>3, <2>1, <2>2, <2>3, <2>4, Runs
<1>5. CASE Dispatch(k) /\ ~Registered(call[k].handle)
  BY <1>2, <1>3, <1>5 DEF Dispatch
<1>6. CASE RuntimeReturns(k)
  <2>1. CASE UNCHANGED issued /\ \E a \in Answer : call' = Answered(k, a, 0)
    BY <1>2, <1>3, <1>6, <2>1 DEF RuntimeReturns
  <2>2. ASSUME NEW v \in ReadDSN(call[k].served, call[k].dsn), issued' = issued \cup {v},
               call' = Answered(k, "envelope", v.name)
        PROVE  HostInv'
    <3>1. v.name \in Nat
      BY <1>3, NextNames DEF ReadDSN
    <3>2. IsFiniteSet(issued')
      BY <1>3, <2>2, FS_AddElement
    <3>3. \A u \in issued' : u.name \in Nat
      BY <1>3, <2>2, <3>1
    <3> QED
      BY Zenon, <1>2, <1>6, <2>2, <3>1, <3>2, <3>3 DEF RuntimeReturns, Answer
  <2> QED
    BY Zenon, <1>6, <2>1, <2>2 DEF RuntimeReturns
<1> QED
  BY <1>4, <1>5, <1>6

-----------------------------------------------------------------------------
\* The environments: load, init and close.
LEMMA LoadInv ==
    ASSUME HostInv, NEW e \in Envs, Load(e)
    PROVE  HostInv'
<1> USE DEF HostInv
<1>1. /\ js[e] = "new" /\ symbols' = library /\ library' = library /\ call' = call
      /\ js' = [js EXCEPT ![e] = IF library = "complete" THEN "idle" ELSE "new"]
      /\ UNCHANGED <<runtimes, nextHandle, inits, client, call, heap, issued, misread>>
  BY DEF Load, handleVars
<1>2. js \in [Envs -> JS]
  BY DEF HostTypes
<1>3. HostTypes'
  <2>1. js' \in [Envs -> JS]
    BY Zenon, <1>1, <1>2 DEF JS
  <2> QED
    BY <1>1, <2>1 DEF HostTypes
<1>4. Loaded'
  BY Zenon, <1>1, <1>2 DEF Loaded
<1>5. Handed'
  BY <1>1 DEF Handed, Leads
<1>6. \A f \in Envs : js'[f] = "gone" <=> js[f] = "gone"
  BY <1>1, <1>2
<1> QED
  BY <1>1, <1>3, <1>4, <1>5, <1>6, CallsKept

\* The environment e, which has loaded the library, stays in it.
LEMMA EnvMoves ==
    ASSUME HostInv, NEW e \in Envs, js[e] \in {"idle", "init", "init failed", "closing"},
           NEW l \in {"idle", "init", "init failed", "closing"}, Goto(e, l),
           UNCHANGED <<library, symbols, call, heap, misread>>
    PROVE  js' \in [Envs -> JS] /\ Loaded' /\ Works' /\ Settles'
<1> USE DEF HostInv
<1>1. js \in [Envs -> JS] /\ js' = [js EXCEPT ![e] = l]
  BY Zenon DEF HostTypes, Goto
<1>2. js' \in [Envs -> JS]
  BY Zenon, <1>1 DEF JS
<1>3. \A f \in Envs : js'[f] = "gone" <=> js[f] = "gone"
  BY Zenon, <1>1
<1>4. symbols = "complete" /\ library = "complete"
  BY Zenon DEF Loaded
<1>5. Loaded'
  BY Zenon, <1>4 DEF Loaded
<1> QED
  BY Zenon, <1>2, <1>3, <1>5, CallsKept

LEMMA InitBeginsInv ==
    ASSUME HostInv, NEW e \in Envs, InitBegins(e)
    PROVE  HostInv'
<1> USE DEF HostInv
<1> DEFINE during == {client[f].runtime : f \in {g \in Envs : js[g] \in {"init", "init failed"}}}
           c == [handle |-> 0, runtime |-> inits + 1, during |-> during]
<1>1. /\ inits' = inits + 1 /\ client' = [client EXCEPT ![e] = c]
      /\ UNCHANGED <<runtimes, nextHandle, call, heap, issued, misread>>
  BY Zenon DEF InitBegins, EnterInit
<1>2. js' \in [Envs -> JS] /\ Loaded' /\ Works' /\ Settles'
  BY Zenon, EnvMoves DEF InitBegins
<1>3. client \in [Envs -> AClient] /\ inits \in Nat
  BY DEF HostTypes
<1>4. c \in AClient /\ c.handle = 0
  <2>1. during \in SUBSET Nat
    BY Zenon, <1>3 DEF AClient
  <2> HIDE DEF during
  <2> QED
    BY <1>3, <2>1 DEF AClient
<1> HIDE DEF c
<1>5. client' \in [Envs -> AClient] /\ client'[e] = c /\ \A f \in Envs : f # e => client'[f] = client[f]
  BY <1>1, <1>3, <1>4
<1>6. HostTypes'
  BY <1>1, <1>2, <1>3, <1>5 DEF HostTypes
<1>7. Handed'
  <2>1. Leads(0, c.runtime)
    BY DEF Handed, Leads
  <2>2. \A f \in Envs : Leads(client'[f].handle, client'[f].runtime)
    BY Zenon, <1>4, <1>5, <2>1 DEF Handed
  <2> QED
    BY <1>1, <2>2 DEF Handed, Leads
<1> QED
  BY <1>2, <1>6, <1>7

\* The new handle is not in use by any client or call.
LEMMA InitSucceedsInv ==
    ASSUME HostInv, NEW e \in Envs, InitSucceeds(e)
    PROVE  HostInv'
<1> USE DEF HostInv
<1> DEFINE i == client[e].runtime
           c == [client[e] EXCEPT !.handle = nextHandle, !.during = {}]
<1>1. /\ runtimes' = [x \in DOMAIN runtimes \cup {nextHandle} |->
                        IF x = nextHandle THEN i ELSE runtimes[x]]
      /\ nextHandle' = nextHandle + 1
      /\ UNCHANGED <<inits, call, heap, issued, misread>>
  BY DEF InitSucceeds, RegisterRuntime
<1>2. client \in [Envs -> AClient] /\ nextHandle \in Nat
  BY DEF HostTypes
<1>3. client' = [client EXCEPT ![e] = c]
  BY Zenon, <1>2 DEF InitSucceeds
<1>4. c \in AClient /\ c.handle = nextHandle /\ c.runtime = i /\ i \in Nat
  BY Zenon, <1>2 DEF AClient
<1>5. js' \in [Envs -> JS] /\ Loaded' /\ Works' /\ Settles'
  BY Zenon, EnvMoves DEF InitSucceeds
<1> HIDE DEF c, i
<1>6. client' \in [Envs -> AClient] /\ client'[e] = c /\ \A f \in Envs : f # e => client'[f] = client[f]
  BY <1>2, <1>3, <1>4
<1>7. HostTypes'
  BY <1>1, <1>2, <1>4, <1>5, <1>6 DEF HostTypes
<1>8. ASSUME NEW h \in Nat, NEW x, Leads(h, x) PROVE Leads(h, x)' /\ (h \in DOMAIN runtimes' <=> h \in DOMAIN runtimes)
  BY <1>1, <1>2, <1>8 DEF Leads
<1>9. Leads(client[e].handle, client[e].runtime)'
  BY <1>1, <1>2, <1>4, <1>6 DEF Leads
<1>10. Handed'
  <2>1. nextHandle' > 0 /\ \A h \in DOMAIN runtimes' : 0 < h /\ h < nextHandle'
    BY <1>1, <1>2 DEF Handed, HostTypes
  <2>2. \A f \in Envs : Leads(client[f].handle, client[f].runtime)'
    <3> SUFFICES ASSUME NEW f \in Envs PROVE Leads(client[f].handle, client[f].runtime)'
      OBVIOUS
    <3>1. CASE f = e
      BY Zenon, <1>9, <3>1
    <3>2. CASE f # e
      <4>1. client[f].handle \in Nat /\ Leads(client[f].handle, client[f].runtime)
        BY <1>2 DEF Handed, AClient
      <4> QED
        BY Zenon, <1>6, <1>8, <3>2, <4>1 DEF Leads
    <3> QED
      BY <3>1, <3>2
  <2>3. ASSUME NEW k \in DOMAIN call, call[k].pc = "begin"
        PROVE  /\ Leads(call[k].handle, call[k].runtime)'
               /\ call[k].late => call[k].handle \notin DOMAIN runtimes'
    <3>1. call[k].handle \in Nat
      BY CallType DEF ACall
    <3> QED
      BY Zenon, <1>1, <1>8, <2>3, <3>1 DEF Handed, Leads
  <2> QED
    BY Zenon, <1>1, <2>1, <2>2, <2>3 DEF Handed
<1> QED
  BY <1>5, <1>7, <1>10

\* What fails or ends changes no handle.
LEMMA InitEndsInv ==
    ASSUME HostInv, NEW e \in Envs, InitFails(e) \/ InitThrows(e) \/ CloseReturns(e)
    PROVE  HostInv'
<1> USE DEF HostInv
<1>1. /\ UNCHANGED <<runtimes, nextHandle, inits, library, symbols, call, heap, issued, misread>>
      /\ client' = client \/ client' = [client EXCEPT ![e] = NoClient]
  BY Zenon DEF InitFails, InitThrows, CloseReturns, RefuseInit, handleVars
<1>2. js' \in [Envs -> JS] /\ Loaded' /\ Works' /\ Settles'
  BY Zenon, EnvMoves DEF InitFails, InitThrows, CloseReturns, RefuseInit
<1>3. client \in [Envs -> AClient] /\ NoClient \in AClient /\ NoClient.handle = 0
  BY DEF HostTypes, AClient, NoClient
<1>4. /\ client' \in [Envs -> AClient]
      /\ \A f \in Envs : client'[f] = client[f] \/ client'[f] = NoClient
  BY <1>1, <1>3
<1>5. HostTypes'
  BY Zenon, <1>1, <1>2, <1>4 DEF HostTypes
<1>6. Handed'
  <2>1. Leads(NoClient.handle, NoClient.runtime)
    BY <1>3 DEF Handed, Leads
  <2>2. \A f \in Envs : Leads(client'[f].handle, client'[f].runtime)
    BY Zenon, <1>4, <2>1 DEF Handed
  <2> QED
    BY Zenon, <1>1, <2>2 DEF Handed, Leads
<1> QED
  BY <1>2, <1>5, <1>6

LEMMA CloseBeginsInv ==
    ASSUME HostInv, NEW e \in Envs, CloseBegins(e)
    PROVE  HostInv'
<1> USE DEF HostInv
<1>1. /\ UNCHANGED <<nextHandle, inits, library, symbols, client, call, heap, issued, misread>>
      /\ runtimes' = [x \in DOMAIN runtimes \ {client[e].handle} |-> runtimes[x]]
  BY DEF CloseBegins, RemoveRuntime, Restrict
<1>2. js' \in [Envs -> JS] /\ Loaded' /\ Works' /\ Settles'
  BY Zenon, EnvMoves DEF CloseBegins
<1>3. /\ DOMAIN runtimes' \subseteq DOMAIN runtimes
      /\ \A h \in DOMAIN runtimes' : runtimes'[h] = runtimes[h]
  BY <1>1
<1>4. HostTypes'
  BY Zenon, <1>1, <1>2, <1>3 DEF HostTypes
<1>5. \A h, x : Leads(h, x) => Leads(h, x)'
  BY Zenon, <1>1, <1>3 DEF Leads
<1>6. Handed'
  <2>1. \A f \in Envs : Leads(client[f].handle, client[f].runtime)'
    BY Zenon, <1>1, <1>3 DEF Handed, Leads
  <2>2. \A k \in DOMAIN call : call[k].pc = "begin" =>
          /\ Leads(call[k].handle, call[k].runtime)'
          /\ call[k].late => call[k].handle \notin DOMAIN runtimes'
    BY <1>1, <1>3 DEF Handed, Leads
  <2> QED
    BY Zenon, <1>1, <1>3, <2>1, <2>2 DEF Handed
<1> QED
  BY <1>2, <1>4, <1>6

-----------------------------------------------------------------------------
\* A new call takes a cell that nobody uses.
LEMMA StartCallInv ==
    ASSUME HostInv, NEW e \in Envs, StartCall(e)
    PROVE  HostInv'
<1> USE DEF HostInv
<1> DEFINE n == Len(call) + 1
           new(c, d) == [env |-> e, dsn |-> d, handle |-> client[e].handle,
               runtime |-> client[e].runtime, late |-> ~Registered(client[e].handle),
               cell |-> c, pc |-> "begin", served |-> 0, answer |-> "none", name |-> 0,
               promise |-> "pending", threads |-> 1, queued |-> FALSE, fn |-> "open"]
<1>1. /\ UNCHANGED <<runtimes, nextHandle, inits, library, symbols, js, client, issued, misread>>
      /\ js[e] = "idle"
  BY DEF StartCall, handleVars
<1>2. PICK c \in Cells, d \in DBs \cup {None} :
        /\ ~heap[c].live
        /\ heap' = [heap EXCEPT ![c] = [call |-> n, live |-> TRUE]]
        /\ call' = Append(call, new(c, d))
  BY Zenon DEF StartCall
<1> DEFINE r == new(c, d)
<1>3. client[e] \in AClient
  BY Zenon DEF HostTypes
<1>4. /\ r \in ACall /\ r.env = e /\ r.handle = client[e].handle /\ r.runtime = client[e].runtime
      /\ r.late = ~Registered(client[e].handle) /\ r.cell = c /\ r.pc = "begin"
      /\ r.promise = "pending" /\ r.threads = 1 /\ r.fn = "open"
  BY <1>3 DEF ACall, AClient, PC
<1>5. ~r.queued
  OBVIOUS
<1> HIDE DEF new
<1>6. call' = Append(call, r) /\ call \in Seq(ACall)
  BY <1>2 DEF HostTypes
<1> HIDE DEF r
<1>7. /\ call' \in Seq(ACall) /\ Len(call) \in Nat /\ DOMAIN call = 1..Len(call)
      /\ DOMAIN call' = 1..n /\ call'[n] = r /\ \A k \in DOMAIN call : call'[k] = call[k]
  BY <1>4, <1>6, AppendProperties, LenProperties
<1>8. n \in Nat /\ n \notin DOMAIN call /\ \A k \in DOMAIN call' : k \in DOMAIN call \/ k = n
  BY <1>7
<1> HIDE DEF n
<1>9. /\ heap' \in [Cells -> [call : Nat, live : BOOLEAN]]
      /\ heap'[c] = [call |-> n, live |-> TRUE]
      /\ \A x \in Cells : x # c => heap'[x] = heap[x]
  BY Zenon, <1>2, <1>8 DEF HostTypes
<1>10. HostTypes'
  BY <1>1, <1>7, <1>9 DEF HostTypes
<1>11. Loaded'
  <2>1. symbols = "complete" /\ library = "complete"
    BY Zenon, <1>1 DEF Loaded
  <2> QED
    BY Zenon, <1>1, <2>1 DEF Loaded
<1>12. Handed'
  <2>1. \A h, x : Leads(h, x)' <=> Leads(h, x)
    BY <1>1 DEF Leads
  <2>2. Leads(r.handle, r.runtime) /\ (r.late => r.handle \notin DOMAIN runtimes)
    BY Zenon, <1>4 DEF Handed, Registered
  <2>3. \A k \in DOMAIN call' : call'[k].pc = "begin" =>
          /\ Leads(call'[k].handle, call'[k].runtime)
          /\ call'[k].late => call'[k].handle \notin DOMAIN runtimes
    BY Zenon, <1>7, <1>8, <2>2 DEF Handed
  <2>4. \A k \in DOMAIN call' : call'[k].pc = "entered" =>
          call'[k].served = call'[k].runtime /\ ~call'[k].late
    BY <1>4, <1>7, <1>8 DEF Handed
  <2> QED
    BY Zenon, <1>1, <2>1, <2>3, <2>4 DEF Handed, Leads
<1>13. \A k \in DOMAIN call : Active(k)' <=> Active(k)
  BY <1>7 DEF Active
<1>14. \A k : k = n => Active(k)'
  BY Zenon, <1>4, <1>7 DEF Active
<1>15. Works'
  <2> SUFFICES ASSUME NEW k \in DOMAIN call'
               PROVE  /\ call'[k].queued => call'[k].pc \in {"release", "done"} /\ call'[k].fn = "open"
                      /\ Active(k)' <=> heap'[call'[k].cell] = [call |-> k, live |-> TRUE]
    BY Zenon DEF Works
  <2>1. CASE k = n
    BY Zenon, <2>1, <1>4, <1>5, <1>7, <1>9, <1>14
  <2>2. CASE k \in DOMAIN call /\ call[k].cell = c
    <3>1. heap'[c] # [call |-> k, live |-> TRUE] /\ heap[c] # [call |-> k, live |-> TRUE]
      BY <1>2, <1>8, <1>9, <2>2
    <3> QED
      BY Zenon, <2>2, <3>1, <1>7, <1>13 DEF Works
  <2>3. CASE k \in DOMAIN call /\ call[k].cell # c
    <3>1. heap'[call[k].cell] = heap[call[k].cell]
      BY Zenon, <2>3, <1>9, CallType DEF ACall
    <3> QED
      BY Zenon, <2>3, <3>1, <1>7, <1>13 DEF Works
  <2> QED
    BY <1>8, <2>1, <2>2, <2>3
<1>16. Settles'
  <2> SUFFICES ASSUME ~misread', NEW k \in DOMAIN call'
               PROVE  /\ call'[k].promise = "pending" /\ js'[call'[k].env] # "gone" =>
                           call'[k].fn = "open" /\ Active(k)'
                      /\ call'[k].pc \in {"begin", "entered", "push"} => call'[k].threads = 1
    BY DEF Settles
  <2>1. CASE k = n
    BY Zenon, <2>1, <1>4, <1>7, <1>14
  <2>2. CASE k \in DOMAIN call
    BY Zenon, <2>2, <1>1, <1>7, <1>13 DEF Settles
  <2> QED
    BY Zenon, <1>8, <2>1, <2>2
<1> QED
  BY Zenon, <1>10, <1>11, <1>12, <1>15, <1>16

-----------------------------------------------------------------------------
\* Calls go on, or environments end: no handle and no symbol is touched.
LEMMA CallsChange ==
    ASSUME HostInv, call' \in Seq(ACall), DOMAIN call' = DOMAIN call,
           UNCHANGED <<handleVars, library, symbols, issued>>,
           heap' \in [Cells -> [call : Nat, live : BOOLEAN]],
           js' \in [Envs -> JS], \A e \in Envs : js'[e] = js[e] \/ js'[e] = "gone",
           client' \in [Envs -> AClient],
           \A e \in Envs : client'[e] = client[e] \/ client'[e] = NoClient,
           \A k \in DOMAIN call : call'[k].pc \in {"begin", "entered"} =>
                /\ call'[k].pc = call[k].pc /\ call'[k].handle = call[k].handle
                /\ call'[k].runtime = call[k].runtime /\ call'[k].late = call[k].late
                /\ call'[k].served = call[k].served
    PROVE  HostTypes' /\ Loaded' /\ Handed'
<1> USE DEF HostInv
<1>1. UNCHANGED <<runtimes, nextHandle, inits>>
  BY Zenon DEF handleVars
<1>2. HostTypes'
  BY <1>1 DEF HostTypes
<1>3. Loaded'
  <2>1. call = <<>> => call' = <<>>
    <3>1. Len(call) \in Nat /\ DOMAIN call = 1..Len(call)
      BY LenProperties DEF HostTypes
    <3>2. Len(call') \in Nat /\ DOMAIN call' = 1..Len(call')
      BY LenProperties
    <3>3. \A a, b \in Nat : 1..a = 1..b => a = b
      OBVIOUS
    <3>4. Len(call') = Len(call)
      BY Zenon, <3>1, <3>2, <3>3
    <3>5. call = <<>> => Len(call) = 0
      BY Zenon, EmptySeq
    <3> QED
      BY Zenon, <3>4, <3>5, EmptySeq
  <2> QED
    BY Zenon, <2>1 DEF Loaded
<1>4. Handed'
  <2>1. \A h, i : Leads(h, i)' <=> Leads(h, i)
    BY Zenon, <1>1 DEF Leads
  <2>2. NoClient.handle = 0 /\ Leads(0, NoClient.runtime)
    BY DEF NoClient, Handed, Leads
  <2>3. \A e \in Envs : Leads(client'[e].handle, client'[e].runtime)
    BY Zenon, <2>2 DEF Handed
  <2>4. \A k \in DOMAIN call' : call'[k].pc = "begin" =>
          /\ Leads(call'[k].handle, call'[k].runtime)
          /\ call'[k].late => call'[k].handle \notin DOMAIN runtimes
    BY Zenon DEF Handed
  <2>5. \A k \in DOMAIN call' : call'[k].pc = "entered" =>
          call'[k].served = call'[k].runtime /\ ~call'[k].late
    BY DEF Handed
  <2> QED
    BY Zenon, <1>1, <2>3, <2>4, <2>5 DEF Handed, Leads
<1> QED
  BY Zenon, <1>2, <1>3, <1>4

\* The CallWork of an active call is freed: no other active call loses its own.
LEMMA Frees ==
    ASSUME HostInv, NEW k \in DOMAIN call, Active(k), heap' = Free(k)
    PROVE  /\ heap' \in [Cells -> [call : Nat, live : BOOLEAN]]
           /\ heap'[call[k].cell] # [call |-> k, live |-> TRUE]
           /\ \A j \in DOMAIN call : j # k =>
                (Active(j) <=> heap'[call[j].cell] = [call |-> j, live |-> TRUE])
<1> USE DEF HostInv
<1>1. \A j \in DOMAIN call : call[j].cell \in Cells
  BY CallType DEF ACall
<1> DEFINE c == call[k].cell
<1>2. heap[c] = [call |-> k, live |-> TRUE] /\ c \in Cells
  BY <1>1 DEF Works
<1>3. /\ heap' \in [Cells -> [call : Nat, live : BOOLEAN]]
      /\ heap'[c] = [heap[c] EXCEPT !.live = FALSE]
      /\ \A x \in Cells : x # c => heap'[x] = heap[x]
  BY Zenon, <1>2 DEF Free, HostTypes
<1>4. heap'[c].live = FALSE
  BY <1>2, <1>3
<1>5. \A j : heap'[c] # [call |-> j, live |-> TRUE]
  BY <1>4
<1>6. ASSUME NEW j \in DOMAIN call, j # k
      PROVE  Active(j) <=> heap'[call[j].cell] = [call |-> j, live |-> TRUE]
  <2>1. CASE call[j].cell = c
    <3>1. heap[c] # [call |-> j, live |-> TRUE]
      BY <1>2, <1>6
    <3> QED
      BY Zenon, <1>5, <2>1, <3>1 DEF Works
  <2>2. CASE call[j].cell # c
    BY Zenon, <1>1, <1>3, <2>2 DEF Works
  <2> QED
    BY Zenon, <2>1, <2>2
<1> QED
  BY Zenon, <1>3, <1>5, <1>6

\* One call changes, and its cell with it.
LEMMA CallStep ==
    ASSUME HostInv, NEW k \in DOMAIN call, NEW r \in ACall, call' = [call EXCEPT ![k] = r],
           UNCHANGED <<handleVars, library, symbols, js, client, issued, misread>>,
           heap' \in [Cells -> [call : Nat, live : BOOLEAN]],
           \A j \in DOMAIN call : j # k =>
                (Active(j) <=> heap'[call[j].cell] = [call |-> j, live |-> TRUE]),
           r.env = call[k].env,
           r.pc \in {"begin", "entered"} =>
                /\ r.pc = call[k].pc /\ r.handle = call[k].handle
                /\ r.runtime = call[k].runtime /\ r.late = call[k].late
                /\ r.served = call[k].served,
           r.queued => r.pc \in {"release", "done"} /\ r.fn = "open",
           (r.pc \in {"begin", "entered", "push"} \/ r.queued)
                <=> heap'[r.cell] = [call |-> k, live |-> TRUE],
           ~misread =>
             /\ r.promise = "pending" /\ js[r.env] # "gone" =>
                  r.fn = "open" /\ (r.pc \in {"begin", "entered", "push"} \/ r.queued)
             /\ r.pc \in {"begin", "entered", "push"} => r.threads = 1
    PROVE  HostInv'
<1> USE DEF HostInv
<1>1. /\ call' \in Seq(ACall) /\ DOMAIN call' = DOMAIN call
      /\ call'[k] = r /\ call # <<>>
      /\ \A j \in DOMAIN call : j # k => call'[j] = call[j]
  BY Zenon, OneCall DEF HostTypes
<1>2. HostTypes' /\ Loaded' /\ Handed'
  <2>1. js' \in [Envs -> JS] /\ client' \in [Envs -> AClient]
    BY Zenon DEF HostTypes
  <2>2. \A j \in DOMAIN call : call'[j].pc \in {"begin", "entered"} =>
                /\ call'[j].pc = call[j].pc /\ call'[j].handle = call[j].handle
                /\ call'[j].runtime = call[j].runtime /\ call'[j].late = call[j].late
                /\ call'[j].served = call[j].served
    BY Zenon, <1>1
  <2> QED
    BY Zenon, <1>1, <2>1, <2>2, CallsChange
<1>3. \A j \in DOMAIN call : j # k => (Active(j)' <=> Active(j))
  BY Zenon, <1>1 DEF Active
<1>4. \A j : j = k => (Active(j)' <=> (r.pc \in {"begin", "entered", "push"} \/ r.queued))
  BY Zenon, <1>1 DEF Active
<1>5. Works'
  <2> SUFFICES ASSUME NEW j \in DOMAIN call
               PROVE  /\ call'[j].queued => call'[j].pc \in {"release", "done"} /\ call'[j].fn = "open"
                      /\ Active(j)' <=> heap'[call'[j].cell] = [call |-> j, live |-> TRUE]
    BY Zenon, <1>1 DEF Works
  <2>1. CASE j = k
    BY Zenon, <1>1, <1>4, <2>1
  <2>2. CASE j # k
    BY Zenon, <1>1, <1>3, <2>2 DEF Works
  <2> QED
    BY <2>1, <2>2
<1>6. Settles'
  <2> SUFFICES ASSUME ~misread', NEW j \in DOMAIN call
               PROVE  /\ call'[j].promise = "pending" /\ js'[call'[j].env] # "gone" =>
                           call'[j].fn = "open" /\ Active(j)'
                      /\ call'[j].pc \in {"begin", "entered", "push"} => call'[j].threads = 1
    BY Zenon, <1>1 DEF Settles
  <2>1. CASE j = k
    BY Zenon, <1>1, <1>4, <2>1
  <2>2. CASE j # k
    BY <1>1, <1>3, <2>2 DEF Settles
  <2> QED
    BY Zenon, <2>1, <2>2
<1> QED
  BY Zenon, <1>2, <1>5, <1>6

LEMMA HandOverInv ==
    ASSUME HostInv, NEW k \in DOMAIN call, HandOver(k)
    PROVE  HostInv'
<1> USE DEF HostInv
<1> DEFINE r == [call[k] EXCEPT !.pc = "release", !.queued = TRUE]
<1>1. call[k] \in ACall /\ call[k].pc = "push" /\ call[k].fn = "open"
  BY CallType DEF HandOver
<1>2. call' = [call EXCEPT ![k] = r]
  BY Zenon DEF HandOver
<1>3. /\ r \in ACall /\ r.env = call[k].env /\ r.cell = call[k].cell /\ r.pc = "release"
      /\ r.fn = "open" /\ r.queued
  BY Zenon, <1>1 DEF ACall, PC
<1> HIDE DEF r
<1>4. UNCHANGED <<handleVars, library, symbols, js, client, heap, issued, misread>>
  BY DEF HandOver
<1>5. heap' \in [Cells -> [call : Nat, live : BOOLEAN]]
  BY <1>4 DEF HostTypes
<1>6. \A j \in DOMAIN call : Active(j) <=> heap'[call[j].cell] = [call |-> j, live |-> TRUE]
  BY Zenon, <1>4 DEF Works
<1>7. Active(k)
  BY <1>1 DEF Active
<1> QED
  BY Zenon, <1>2, <1>3, <1>4, <1>5, <1>6, <1>7, CallStep

LEMMA DroppedIs ==
    ASSUME NEW c \in ACall
    PROVE  /\ Dropped(c) \in ACall /\ Dropped(c).env = c.env /\ Dropped(c).cell = c.cell
           /\ Dropped(c).pc = c.pc /\ Dropped(c).promise = c.promise /\ Dropped(c).fn = c.fn
           /\ Dropped(c).threads = c.threads /\ Dropped(c).queued = FALSE
           /\ Dropped(c).handle = c.handle /\ Dropped(c).runtime = c.runtime
           /\ Dropped(c).late = c.late /\ Dropped(c).served = c.served
BY Zenon DEF Dropped, ACall

LEMMA HandOverFailsInv ==
    ASSUME HostInv, NEW k \in DOMAIN call, HandOverFails(k)
    PROVE  HostInv'
<1> USE DEF HostInv
<1> DEFINE d == Dropped(call[k])
           r == [d EXCEPT !.pc = "release", !.threads = 0, !.fn = "destroyed"]
<1>1. call[k] \in ACall /\ call[k].pc = "push" /\ call[k].fn # "open"
  BY CallType DEF HandOverFails
<1>2. call' = [call EXCEPT ![k] = r]
  BY DEF HandOverFails
<1>0. /\ d \in ACall /\ d.env = call[k].env /\ d.cell = call[k].cell
      /\ d.promise = call[k].promise /\ d.queued = FALSE
  BY Zenon, <1>1, DroppedIs
<1> HIDE DEF d
<1>3. /\ r \in ACall /\ r.env = call[k].env /\ r.cell = call[k].cell /\ r.pc = "release"
      /\ r.promise = call[k].promise /\ r.queued = FALSE
  <2>1. "release" \in PC /\ "destroyed" \in {"open", "closing", "destroyed"}
    BY DEF PC
  <2>2. r = [d EXCEPT !.pc = "release", !.threads = 0, !.fn = "destroyed"]
    OBVIOUS
  <2> HIDE DEF r
  <2>3. 0 \in 0..1
    OBVIOUS
  <2>4. r \in ACall
    BY ONLY Zenon, <1>0, <2>1, <2>2, <2>3 DEF ACall
  <2>5. r.env = d.env /\ r.cell = d.cell /\ r.pc = "release"
    BY ONLY <1>0, <2>2 DEF ACall
  <2>6. r.promise = d.promise /\ r.queued = d.queued
    BY ONLY <1>0, <2>2 DEF ACall
  <2> QED
    BY <1>0, <2>4, <2>5, <2>6
<1>4. ~r.queued
  BY <1>3
<1> HIDE DEF r
<1>5. Active(k)
  BY <1>1 DEF Active
<1>6. /\ heap' \in [Cells -> [call : Nat, live : BOOLEAN]]
      /\ heap'[call[k].cell] # [call |-> k, live |-> TRUE]
      /\ \A j \in DOMAIN call : j # k =>
                (Active(j) <=> heap'[call[j].cell] = [call |-> j, live |-> TRUE])
  BY Zenon, <1>5, Frees DEF HandOverFails
<1>7. UNCHANGED <<handleVars, library, symbols, js, client, issued, misread>>
  BY DEF HandOverFails
<1>8. ~misread => ~(r.promise = "pending" /\ js[r.env] # "gone")
  BY <1>1, <1>3 DEF Settles
<1> QED
  BY Zenon, <1>2, <1>3, <1>4, <1>6, <1>7, <1>8, CallStep

LEMMA DeliverInv ==
    ASSUME HostInv, NEW k \in DOMAIN call, Deliver(k)
    PROVE  HostInv'
<1> USE DEF HostInv
<1> DEFINE p == IF call[k].answer = "NULL" THEN "rejected" ELSE "resolved"
           d == Dropped(call[k])
           r == [d EXCEPT !.promise = p]
<1>1. call[k] \in ACall /\ call[k].queued /\ p \in {"rejected", "resolved"}
  BY CallType DEF Deliver
<1>2. call' = [call EXCEPT ![k] = r]
  BY DEF Deliver
<1>3. Active(k) /\ call[k].pc \in {"release", "done"}
  BY Zenon, <1>1 DEF Active, Works
<1> HIDE DEF p
<1>0. /\ d \in ACall /\ d.env = call[k].env /\ d.cell = call[k].cell /\ d.pc = call[k].pc
      /\ d.queued = FALSE
  BY Zenon, <1>1, DroppedIs
<1> HIDE DEF d
<1>4. /\ r \in ACall /\ r.env = call[k].env /\ r.cell = call[k].cell /\ r.pc = call[k].pc
      /\ r.promise = p
  BY <1>0, <1>1 DEF ACall
<1>5. ~r.queued
  BY <1>0 DEF ACall
<1> HIDE DEF r
<1>6. /\ heap' \in [Cells -> [call : Nat, live : BOOLEAN]]
      /\ heap'[call[k].cell] # [call |-> k, live |-> TRUE]
      /\ \A j \in DOMAIN call : j # k =>
                (Active(j) <=> heap'[call[j].cell] = [call |-> j, live |-> TRUE])
  BY Zenon, <1>3, Frees DEF Deliver
<1>7. UNCHANGED <<handleVars, library, symbols, js, client, issued, misread>>
  BY DEF Deliver
<1> QED
  BY Zenon, <1>1, <1>2, <1>3, <1>4, <1>5, <1>6, <1>7, CallStep

LEMMA DestroyInv ==
    ASSUME HostInv, NEW k \in DOMAIN call, Destroy(k)
    PROVE  HostInv'
<1> USE DEF HostInv
<1> DEFINE r == [call[k] EXCEPT !.fn = "destroyed"]
<1>1. call[k] \in ACall /\ ~call[k].queued /\ call[k].threads = 0
  BY CallType DEF Destroy
<1>2. call' = [call EXCEPT ![k] = r]
  BY DEF Destroy
<1>3. /\ r \in ACall /\ r.env = call[k].env /\ r.cell = call[k].cell /\ r.pc = call[k].pc
      /\ r.handle = call[k].handle /\ r.runtime = call[k].runtime /\ r.late = call[k].late
      /\ r.served = call[k].served /\ r.promise = call[k].promise /\ r.threads = call[k].threads
      /\ r.queued = call[k].queued
  BY <1>1 DEF ACall
<1> HIDE DEF r
<1>4. UNCHANGED <<handleVars, library, symbols, js, client, heap, issued, misread>>
  BY Zenon DEF Destroy
<1>5. heap' \in [Cells -> [call : Nat, live : BOOLEAN]]
  BY <1>4 DEF HostTypes
<1>6. \A j \in DOMAIN call : Active(j) <=> heap'[call[j].cell] = [call |-> j, live |-> TRUE]
  BY Zenon, <1>4 DEF Works
<1>7. (r.pc \in {"begin", "entered", "push"} \/ r.queued)
                <=> heap'[r.cell] = [call |-> k, live |-> TRUE]
  BY Zenon, <1>3, <1>6 DEF Active
<1>8. ~misread => /\ ~(r.promise = "pending" /\ js[r.env] # "gone")
                  /\ r.pc \notin {"begin", "entered", "push"}
  BY <1>1, <1>3 DEF Settles, Active
<1> QED
  BY Zenon, <1>1, <1>2, <1>3, <1>4, <1>5, <1>6, <1>7, <1>8, CallStep

\* A release reaches the threadsafe function of its call, or misread is set.
LEMMA ReleaseInv ==
    ASSUME HostInv, NEW k \in DOMAIN call, Release(k)
    PROVE  HostInv'
<1> USE DEF HostInv
<1>1. PICK t \in ReadTSFN(k) :
        /\ call' = [j \in DOMAIN call |->
                        LET r == IF j = t THEN Released(j) ELSE call[j]
                        IN IF j = k THEN [r EXCEPT !.pc = "done"] ELSE r]
        /\ misread' = (misread \/ t # k)
  BY Zenon DEF Release
<1>2. /\ UNCHANGED <<handleVars, library, symbols, js, client, heap, issued>>
      /\ call[k].pc = "release"
  BY Zenon DEF Release
<1>3. ASSUME NEW j \in DOMAIN call
      PROVE  /\ Released(j) \in ACall /\ Released(j).env = call[j].env
             /\ Released(j).cell = call[j].cell /\ Released(j).pc = call[j].pc
             /\ Released(j).promise = call[j].promise /\ Released(j).queued = call[j].queued
             /\ Released(j).handle = call[j].handle /\ Released(j).runtime = call[j].runtime
             /\ Released(j).late = call[j].late /\ Released(j).served = call[j].served
             /\ call[j].fn = "open" => Released(j).fn = "open"
  <2> DEFINE f == IF call[j].fn = "closing" THEN "destroyed" ELSE call[j].fn
  <2>1. call[j] \in ACall
    BY CallType
  <2>2. /\ f \in {"open", "closing", "destroyed"}
        /\ call[j].fn = "open" => f = "open"
    BY <2>1 DEF ACall
  <2>3. Released(j) = [call[j] EXCEPT !.pc = call[j].pc, !.threads = 0, !.fn = f]
    BY Zenon, <2>1 DEF Released, ACall
  <2>4. call[j].pc \in PC
    BY Zenon, <2>1 DEF ACall
  <2> HIDE DEF f
  <2>5. /\ Released(j) \in ACall /\ Released(j).env = call[j].env
        /\ Released(j).cell = call[j].cell /\ Released(j).pc = call[j].pc
        /\ Released(j).promise = call[j].promise /\ Released(j).queued = call[j].queued
        /\ Released(j).fn = f
        /\ Released(j).handle = call[j].handle /\ Released(j).runtime = call[j].runtime
        /\ Released(j).late = call[j].late /\ Released(j).served = call[j].served
    <3>1. 0 \in 0..1
      OBVIOUS
    <3>2. Released(j) \in ACall
      BY ONLY Zenon, <2>1, <2>2, <2>3, <2>4, <3>1 DEF ACall
    <3>3. /\ Released(j).env = call[j].env /\ Released(j).cell = call[j].cell
          /\ Released(j).pc = call[j].pc /\ Released(j).fn = f
      BY ONLY <2>1, <2>3 DEF ACall
    <3>4. Released(j).promise = call[j].promise /\ Released(j).queued = call[j].queued
      BY ONLY <2>1, <2>3 DEF ACall
    <3>5. /\ Released(j).handle = call[j].handle /\ Released(j).runtime = call[j].runtime
          /\ Released(j).late = call[j].late /\ Released(j).served = call[j].served
      BY ONLY <2>1, <2>3 DEF ACall
    <3> QED
      BY <3>2, <3>3, <3>4, <3>5
  <2> QED
    BY <2>2, <2>5
<1>4. ASSUME NEW j \in DOMAIN call
      PROVE  /\ call'[j] \in ACall /\ call'[j].env = call[j].env /\ call'[j].cell = call[j].cell
             /\ call'[j].pc = IF j = k THEN "done" ELSE call[j].pc
             /\ call'[j].promise = call[j].promise /\ call'[j].queued = call[j].queued
             /\ call'[j].handle = call[j].handle /\ call'[j].runtime = call[j].runtime
             /\ call'[j].late = call[j].late /\ call'[j].served = call[j].served
             /\ call[j].fn = "open" => call'[j].fn = "open"
             /\ j # t => call'[j].threads = call[j].threads
  <2> DEFINE r == IF j = t THEN Released(j) ELSE call[j]
  <2>1. /\ r \in ACall /\ r.env = call[j].env /\ r.cell = call[j].cell
        /\ r.pc = call[j].pc /\ r.promise = call[j].promise /\ r.queued = call[j].queued
        /\ r.handle = call[j].handle /\ r.runtime = call[j].runtime
        /\ r.late = call[j].late /\ r.served = call[j].served
        /\ call[j].fn = "open" => r.fn = "open"
        /\ j # t => r.threads = call[j].threads
    BY <1>3, CallType
  <2>2. call'[j] = IF j = k THEN [r EXCEPT !.pc = "done"] ELSE r
    BY <1>1
  <2> HIDE DEF r
  <2> QED
    BY <2>1, <2>2 DEF ACall, PC
<1>5. DOMAIN call' = DOMAIN call /\ call' \in Seq(ACall)
  <2>1. DOMAIN call' = DOMAIN call /\ call' = [j \in DOMAIN call |-> call'[j]]
    BY <1>1
  <2>2. DOMAIN call = 1..Len(call) /\ Len(call) \in Nat
    BY CallType
  <2> QED
    BY <1>4, <2>1, <2>2
<1>6. HostTypes' /\ Loaded' /\ Handed'
  <2>1. /\ js' \in [Envs -> JS] /\ client' \in [Envs -> AClient]
        /\ heap' \in [Cells -> [call : Nat, live : BOOLEAN]]
    BY <1>2 DEF HostTypes
  <2> QED
    BY ZenonT(30), <1>2, <1>4, <1>5, <2>1, CallsChange
<1>7. \A j \in DOMAIN call : Active(j)' <=> Active(j)
  BY Zenon, <1>2, <1>4 DEF Active
<1>8. Works'
  <2> SUFFICES ASSUME NEW j \in DOMAIN call
               PROVE  /\ call'[j].queued => call'[j].pc \in {"release", "done"} /\ call'[j].fn = "open"
                      /\ Active(j)' <=> heap'[call'[j].cell] = [call |-> j, live |-> TRUE]
    BY Zenon, <1>5 DEF Works
  <2> QED
    BY ZenonT(30), <1>2, <1>4, <1>7 DEF Works
<1>9. Settles'
  <2> SUFFICES ASSUME ~misread', NEW j \in DOMAIN call
               PROVE  /\ call'[j].promise = "pending" /\ js'[call'[j].env] # "gone" =>
                           call'[j].fn = "open" /\ Active(j)'
                      /\ call'[j].pc \in {"begin", "entered", "push"} => call'[j].threads = 1
    BY <1>5 DEF Settles
  <2>1. ~misread /\ t = k
    BY Zenon, <1>1
  <2> QED
    BY Zenon, <1>2, <1>4, <1>7, <2>1 DEF Settles
<1> QED
  BY <1>6, <1>8, <1>9

\* An environment ends: what its calls have queued is freed.
LEMMA TearDownInv ==
    ASSUME HostInv, NEW e \in Envs, TearDown(e)
    PROVE  HostInv'
<1> USE DEF HostInv
<1> DEFINE Ends(k) == call[k].env = e /\ call[k].fn = "open"
           fn(k) == IF call[k].threads = 0 THEN "destroyed" ELSE "closing"
           Reclaimed(c) == \E k \in DOMAIN call : call[k].env = e /\ call[k].queued /\ call[k].cell = c
<1>1. /\ UNCHANGED <<handleVars, library, symbols, issued, dsns, misread>>
      /\ js' = [js EXCEPT ![e] = "gone"] /\ client' = [client EXCEPT ![e] = NoClient]
      /\ call' = [k \in DOMAIN call |->
                    IF Ends(k)
                    THEN [IF call[k].queued THEN Dropped(call[k]) ELSE call[k] EXCEPT !.fn = fn(k)]
                    ELSE call[k]]
      /\ heap' = [c \in Cells |-> IF Reclaimed(c) THEN [heap[c] EXCEPT !.live = FALSE] ELSE heap[c]]
  BY DEF TearDown, Goto
<1>2. ASSUME NEW k \in DOMAIN call
      PROVE  /\ call[k] \in ACall /\ call'[k] \in ACall
             /\ call'[k].env = call[k].env /\ call'[k].cell = call[k].cell
             /\ call'[k].pc = call[k].pc /\ call'[k].promise = call[k].promise
             /\ call'[k].threads = call[k].threads
             /\ call'[k].handle = call[k].handle /\ call'[k].runtime = call[k].runtime
             /\ call'[k].late = call[k].late /\ call'[k].served = call[k].served
             /\ ~Ends(k) => call'[k].queued = call[k].queued /\ call'[k].fn = call[k].fn
             /\ Ends(k) => call'[k].queued = FALSE
  <2>1. call[k] \in ACall
    BY CallType
  <2> DEFINE r == IF call[k].queued THEN Dropped(call[k]) ELSE call[k]
  <2>2. /\ r \in ACall /\ r.env = call[k].env /\ r.cell = call[k].cell /\ r.pc = call[k].pc
        /\ r.promise = call[k].promise /\ r.threads = call[k].threads
        /\ r.handle = call[k].handle /\ r.runtime = call[k].runtime
        /\ r.late = call[k].late /\ r.served = call[k].served
    BY Zenon, <2>1, DroppedIs
  <2>3. r.queued = FALSE
    <3>1. call[k].queued \in BOOLEAN
      BY <2>1 DEF ACall
    <3> QED
      BY Zenon, <2>1, <3>1, DroppedIs
  <2>4. call'[k] = IF Ends(k) THEN [r EXCEPT !.fn = fn(k)] ELSE call[k]
    BY <1>1
  <2>5. fn(k) \in {"open", "closing", "destroyed"}
    OBVIOUS
  <2> HIDE DEF r, Ends, fn
  <2>6. CASE Ends(k)
    BY <2>1, <2>2, <2>3, <2>4, <2>5, <2>6 DEF ACall
  <2>7. CASE ~Ends(k)
    BY Zenon, <2>1, <2>4, <2>7
  <2> QED
    BY Zenon, <2>1, <2>6, <2>7
<1>3. /\ js \in [Envs -> JS] /\ client \in [Envs -> AClient] /\ NoClient \in AClient
      /\ heap \in [Cells -> [call : Nat, live : BOOLEAN]]
  BY DEF HostTypes, NoClient, AClient
<1>4. /\ js' \in [Envs -> JS] /\ js'[e] = "gone" /\ client' \in [Envs -> AClient]
      /\ \A f \in Envs : js'[f] = js[f] \/ js'[f] = "gone"
      /\ \A f \in Envs : client'[f] = client[f] \/ client'[f] = NoClient
  BY Zenon, <1>1, <1>3 DEF JS
<1>5. /\ heap' \in [Cells -> [call : Nat, live : BOOLEAN]]
      /\ \A c \in Cells : Reclaimed(c) => heap'[c].live = FALSE
      /\ \A c \in Cells : ~Reclaimed(c) => heap'[c] = heap[c]
  <2> HIDE DEF Reclaimed
  <2> QED
    BY Zenon, <1>1, <1>3
<1>6. DOMAIN call' = DOMAIN call /\ call' \in Seq(ACall)
  <2>1. DOMAIN call' = DOMAIN call /\ call' = [j \in DOMAIN call |-> call'[j]]
    BY <1>1
  <2>2. DOMAIN call = 1..Len(call) /\ Len(call) \in Nat
    BY LenProperties DEF HostTypes
  <2>3. \A j \in DOMAIN call : call'[j] \in ACall
    BY Zenon, <1>2
  <2> QED
    BY <2>1, <2>2, <2>3
<1>7. HostTypes' /\ Loaded' /\ Handed'
  <2>1. \A k \in DOMAIN call : call'[k].pc \in {"begin", "entered"} =>
                /\ call'[k].pc = call[k].pc /\ call'[k].handle = call[k].handle
                /\ call'[k].runtime = call[k].runtime /\ call'[k].late = call[k].late
                /\ call'[k].served = call[k].served
    BY ZenonT(30), <1>2
  <2> QED
    BY Zenon, <1>1, <1>4, <1>5, <1>6, <2>1, CallsChange
<1>8. ASSUME NEW k \in DOMAIN call
      PROVE  /\ call'[k].queued => call'[k].pc \in {"release", "done"} /\ call'[k].fn = "open"
             /\ Active(k)' <=> heap'[call'[k].cell] = [call |-> k, live |-> TRUE]
  <2>1. /\ call[k].queued => call[k].pc \in {"release", "done"} /\ call[k].fn = "open"
        /\ Active(k) <=> heap[call[k].cell] = [call |-> k, live |-> TRUE]
    BY DEF Works
  <2>2. call[k].cell \in Cells /\ call'[k].cell = call[k].cell
    BY Zenon, <1>2 DEF ACall
  <2>3. CASE Reclaimed(call[k].cell)
    <3>1. PICK j \in DOMAIN call : call[j].env = e /\ call[j].queued /\ call[j].cell = call[k].cell
      BY Zenon, <2>3
    <3>2. heap[call[k].cell] = [call |-> j, live |-> TRUE] /\ Ends(j) /\ ~Active(j)'
      <4>1. Active(j) /\ call[j].fn = "open" /\ call[j].pc \in {"release", "done"}
        BY Zenon, <3>1 DEF Active, Works
      <4>2. heap[call[j].cell] = [call |-> j, live |-> TRUE]
        BY <4>1 DEF Works
      <4>3. Ends(j)
        BY <3>1, <4>1
      <4>4. call'[j].pc = call[j].pc /\ call'[j].queued = FALSE
        BY Zenon, <1>2, <4>3
      <4> QED
        BY Zenon, <3>1, <4>1, <4>2, <4>3, <4>4 DEF Active
    <3>3. heap'[call[k].cell].live = FALSE
      BY Zenon, <1>5, <2>2, <2>3
    <3>4. heap'[call'[k].cell] # [call |-> k, live |-> TRUE]
      BY <2>2, <3>3
    <3>5. ~Active(k)' /\ (call'[k].queued => call[k].queued /\ ~Ends(k))
      <4>1. CASE k = j
        BY Zenon, <1>2, <3>2, <4>1
      <4>2. CASE k # j
        <5>1. ~Active(k)
          BY <2>1, <3>2, <4>2
        <5> QED
          BY Zenon, <1>2, <5>1 DEF Active
      <4> QED
        BY <4>1, <4>2
    <3> QED
      BY Zenon, <1>2, <2>1, <3>4, <3>5
  <2>4. CASE ~Reclaimed(call[k].cell)
    <3>1. heap'[call'[k].cell] = heap[call[k].cell]
      BY Zenon, <1>5, <2>2, <2>4
    <3>2. call[k].queued => call[k].env # e
      BY <2>4
    <3>3. call'[k].queued <=> call[k].queued
      BY Zenon, <1>2, <3>2
    <3>4. call'[k].queued => call'[k].fn = call[k].fn
      BY Zenon, <1>2
    <3> QED
      BY Zenon, <1>2, <2>1, <3>1, <3>3, <3>4 DEF Active
  <2> QED
    BY Zenon, <2>3, <2>4
<1>9. Works'
  BY Zenon, <1>6, <1>8 DEF Works
<1>10. Settles'
  <2> SUFFICES ASSUME ~misread', NEW k \in DOMAIN call
               PROVE  /\ call'[k].promise = "pending" /\ js'[call'[k].env] # "gone" =>
                           call'[k].fn = "open" /\ Active(k)'
                      /\ call'[k].pc \in {"begin", "entered", "push"} => call'[k].threads = 1
    BY <1>6 DEF Settles
  <2>1. /\ call[k].promise = "pending" /\ js[call[k].env] # "gone" =>
             call[k].fn = "open" /\ Active(k)
        /\ call[k].pc \in {"begin", "entered", "push"} => call[k].threads = 1
    BY <1>1 DEF Settles
  <2>2. CASE call[k].env = e
    BY Zenon, <1>2, <1>4, <2>1, <2>2
  <2>3. CASE call[k].env # e
    <3>1. js'[call[k].env] = js[call[k].env] /\ ~Ends(k)
      BY <1>1, <1>2, <1>3, <2>3 DEF ACall
    <3>2. Active(k)' <=> Active(k)
      BY Zenon, <1>2, <3>1 DEF Active
    <3> QED
      BY Zenon, <1>2, <2>1, <3>1, <3>2
  <2> QED
    BY Zenon, <2>2, <2>3
<1> QED
  BY Zenon, <1>7, <1>9, <1>10

LEMMA HostInitInv ==
    Init => HostInv /\ Permanent /\ Names
<1> SUFFICES ASSUME Init PROVE HostInv /\ Permanent /\ Names
  OBVIOUS
<1> USE DEF Init, AddonInit, HandlesInit, Extension!AttachInit
<1>0. /\ DOMAIN call = {} /\ DOMAIN runtimes = {} /\ DOMAIN vfsMap = {}
      /\ call \in Seq(ACall)
  <2>1. \A s : s = <<>> => DOMAIN s = {}
    OBVIOUS
  <2> QED
    BY <2>1
<1>1. HostTypes
  <2>1. js \in [Envs -> JS]
    BY DEF JS
  <2>2. client \in [Envs -> AClient] /\ heap \in [Cells -> [call : Nat, live : BOOLEAN]]
    BY DEF NoClient, AClient
  <2> QED
    BY Zenon, <1>0, <2>1, <2>2, FS_EmptySet DEF HostTypes
<1>2. Loaded
  BY Zenon DEF Loaded
<1>3. Handed
  BY <1>0 DEF Handed, Leads, NoClient
<1>4. Works /\ Settles
  BY <1>0 DEF Works, Settles
<1>5. Permanent
  BY DEF Permanent
<1>6. Names
  <2>1. {v.name : v \in issued} = 1..0
    OBVIOUS
  <2> QED
    BY Zenon, <1>0, <2>1 DEF Names
<1> QED
  BY Zenon, <1>1, <1>2, <1>3, <1>4, <1>5, <1>6 DEF HostInv

\* What the extension does, and what stutters, leaves the addon alone.
LEMMA AddonKept ==
    ASSUME HostInv, UNCHANGED <<handleVars, addonVars>>
    PROVE  HostInv'
<1> USE DEF HostInv, handleVars, addonVars
<1>1. HostTypes'
  BY DEF HostTypes
<1>2. Loaded'
  BY Zenon DEF Loaded
<1>3. Handed'
  BY DEF Handed, Leads
<1>4. Works'
  BY Zenon DEF Works, Active
<1>5. Settles'
  BY DEF Settles, Active
<1> QED
  BY Zenon, <1>1, <1>2, <1>3, <1>4, <1>5

LEMMA HostStepInv ==
    HostInv /\ [Next]_vars => HostInv'
<1> SUFFICES ASSUME HostInv, [Next]_vars PROVE HostInv'
  OBVIOUS
<1>1. CASE UNCHANGED vars
  BY <1>1, AddonKept DEF vars
<1>2. ASSUME NEW e \in Envs, HostExtension(e) PROVE HostInv'
  BY <1>2, AddonKept DEF HostExtension
<1>3. ASSUME NEW e \in Envs, HostAddon(e) PROVE HostInv'
  <2>1. EnvStep(e)
    BY <1>3 DEF HostAddon
  <2> QED
    BY Zenon, <2>1, LoadInv, InitBeginsInv, InitSucceedsInv, InitEndsInv, CloseBeginsInv,
       StartCallInv, TearDownInv DEF EnvStep
<1>4. ASSUME NEW k \in DOMAIN call, HostCall(k) PROVE HostInv'
  <2>1. ThreadStep(k) \/ LoopStep(k)
    BY <1>4 DEF HostCall
  <2> QED
    BY Zenon, <2>1, DispatchInv, HandOverInv, HandOverFailsInv, ReleaseInv, DeliverInv, DestroyInv
       DEF ThreadStep, LoopStep
<1> QED
  BY Zenon, <1>1, <1>2, <1>3, <1>4 DEF Next

LEMMA PermanentStep ==
    Permanent /\ [Next]_vars => Permanent'
<1> SUFFICES ASSUME Permanent, [Next]_vars PROVE Permanent'
  OBVIOUS
<1> USE DEF Permanent
<1>1. CASE UNCHANGED vars
  BY <1>1 DEF vars, attachVars
<1>2. ASSUME NEW e \in Envs, HostExtension(e) PROVE Permanent'
  <2>1. CASE Extension!ExtensionInit(e)
    BY <2>1 DEF Extension!ExtensionInit
  <2>2. CASE Extension!ScratchClose(e)
    BY Zenon, <2>2 DEF Extension!ScratchClose
  <2>3. ASSUME NEW v \in dsns, Extension!AttachBegins(e, v.name, v.db) PROVE Permanent'
    BY Zenon, <2>3 DEF Extension!AttachBegins
  <2>4. CASE Extension!AttachEnds(e)
    BY <2>4 DEF Extension!AttachEnds
  <2>5. CASE Extension!AttachFails(e)
    BY <2>5 DEF Extension!AttachFails
  <2> QED
    BY Zenon, <1>2, <2>1, <2>2, <2>3, <2>4, <2>5 DEF HostExtension
<1>3. ASSUME NEW e \in Envs, HostAddon(e) PROVE Permanent'
  BY <1>3 DEF HostAddon
<1>4. ASSUME NEW k \in DOMAIN call, HostCall(k) PROVE Permanent'
  BY Zenon, <1>4 DEF HostCall, attachVars
<1> QED
  BY Zenon, <1>1, <1>2, <1>3, <1>4 DEF Next

\* A name that is issued is the next one, or was issued before.
LEMMA IssueNames ==
    ASSUME HostTypes, Names, NEW k \in DOMAIN call, RuntimeReturns(k), UNCHANGED attachVars
    PROVE  Names'
<1>1. PICK m \in Nat : {v.name : v \in issued} = 1..m
  BY DEF Names
<1>2. NextName(call[k].served) = m + 1
  <2>1. Cardinality(1..m) = m
    <3>1. Cardinality(1..m) = IF 1 > m THEN 0 ELSE m - 1 + 1
      BY FS_Interval
    <3> QED
      BY <3>1
  <2> QED
    BY Zenon, <1>1, <2>1 DEF NextName
<1>3. UNCHANGED <<dsns, vfsMap, sqlite, attaching>>
  BY DEF RuntimeReturns, attachVars
<1>4. CASE issued' = issued
  BY Zenon, <1>3, <1>4 DEF Names
<1>5. ASSUME NEW d, issued' = issued \cup {[name |-> m + 1, db |-> d, runtime |-> call[k].served]}
      PROVE  Names'
  <2> DEFINE x == [name |-> m + 1, db |-> d, runtime |-> call[k].served]
  <2>1. x.name = m + 1 /\ x.db = d
    OBVIOUS
  <2>2. issued' = issued \cup {x}
    BY <1>5
  <2> HIDE DEF x
  <2>3. \A v \in issued : v.name \in 1..m
    BY <1>1
  <2>4. {v.name : v \in issued'} = 1..(m + 1)
    <3>1. {v.name : v \in issued'} = {v.name : v \in issued} \cup {m + 1}
      BY <2>1, <2>2
    <3>2. (1..m) \cup {m + 1} = 1..(m + 1)
      OBVIOUS
    <3> QED
      BY <1>1, <3>1, <3>2
  <2>5. \A v, w \in issued' : v.name = w.name => v.db = w.db
    <3>1. \A v \in issued : v.name # x.name
      BY <2>1, <2>3
    <3> QED
      BY <2>2, <3>1 DEF Names
  <2>6. dsns' \subseteq issued'
    BY Zenon, <1>3, <2>2 DEF Names
  <2>7. \A n \in DOMAIN vfsMap' : \E v \in issued' : v.name = n /\ v.db = vfsMap'[n]
    BY Zenon, <1>3, <2>2 DEF Names
  <2>8. sqlite' \subseteq DOMAIN vfsMap' /\ \A a \in attaching' : a[2] \in DOMAIN vfsMap'
    BY <1>3 DEF Names
  <2>9. m + 1 \in Nat
    OBVIOUS
  <2> QED
    BY Zenon, <2>4, <2>5, <2>6, <2>7, <2>8, <2>9 DEF Names
<1>6. \/ issued' = issued
      \/ issued' = issued \cup {[name |-> m + 1, db |-> call[k].dsn, runtime |-> call[k].served]}
  <2>1. CASE UNCHANGED issued
    BY Zenon, <2>1
  <2>2. ASSUME NEW v \in ReadDSN(call[k].served, call[k].dsn), issued' = issued \cup {v}
        PROVE  \/ issued' = issued
               \/ issued' = issued \cup {[name |-> m + 1, db |-> call[k].dsn,
                                          runtime |-> call[k].served]}
    BY Zenon, <1>2, <2>2 DEF ReadDSN
  <2> QED
    BY <2>1, <2>2 DEF RuntimeReturns
<1> QED
  BY Zenon, <1>4, <1>5, <1>6

LEMMA AttachNames ==
    ASSUME Names, NEW e \in Envs, HostExtension(e)
    PROVE  Names'
<1>1. UNCHANGED <<issued, dsns>>
  BY Zenon DEF HostExtension, addonVars
<1>2. CASE Extension!ExtensionInit(e)
  BY Zenon, <1>1, <1>2 DEF Extension!ExtensionInit, Names
<1>3. CASE Extension!ScratchClose(e)
  BY Zenon, <1>1, <1>3 DEF Extension!ScratchClose, Names
<1>4. ASSUME NEW v \in dsns, Extension!AttachBegins(e, v.name, v.db) PROVE Names'
  <2>1. /\ vfsMap' = [x \in DOMAIN vfsMap \cup {v.name} |-> IF x = v.name THEN v.db ELSE vfsMap[x]]
        /\ attaching' = {<<e, v.name>>} /\ sqlite' = sqlite
    BY <1>4 DEF Extension!AttachBegins
  <2>2. v \in issued
    BY Zenon DEF Names
  <2>3. \A n \in DOMAIN vfsMap' : \E w \in issued : w.name = n /\ w.db = vfsMap'[n]
    BY Zenon, <2>1, <2>2 DEF Names
  <2>4. sqlite' \subseteq DOMAIN vfsMap' /\ \A a \in attaching' : a[2] \in DOMAIN vfsMap'
    BY <2>1 DEF Names
  <2> QED
    BY Zenon, <1>1, <2>3, <2>4 DEF Names
<1>5. CASE Extension!AttachEnds(e)
  <2>1. PICK n \in {a[2] : a \in {b \in attaching : b[1] = e}} : sqlite' = sqlite \cup {n}
    BY <1>5 DEF Extension!AttachEnds
  <2>2. n \in DOMAIN vfsMap
    BY <2>1 DEF Names
  <2>3. attaching' = {} /\ vfsMap' = vfsMap
    BY Zenon, <1>5 DEF Extension!AttachEnds
  <2> QED
    BY Zenon, <1>1, <2>1, <2>2, <2>3 DEF Names
<1>6. CASE Extension!AttachFails(e)
  BY <1>1, <1>6 DEF Extension!AttachFails, Names
<1> QED
  BY Zenon, <1>2, <1>3, <1>4, <1>5, <1>6 DEF HostExtension

LEMMA NamesStep ==
    HostInv /\ Names /\ [Next]_vars => Names'
<1> SUFFICES ASSUME HostInv, Names, [Next]_vars PROVE Names'
  BY Zenon
<1>1. CASE UNCHANGED vars
  BY <1>1 DEF vars, addonVars, attachVars, Names
<1>2. ASSUME NEW e \in Envs, HostExtension(e) PROVE Names'
  BY Zenon, <1>2, AttachNames
<1>3. ASSUME NEW e \in Envs, HostAddon(e) PROVE Names'
  <2>1. UNCHANGED <<issued, dsns, vfsMap, sqlite, attaching>>
    BY Zenon, <1>3
      DEF HostAddon, EnvStep, Load, InitBegins, InitSucceeds, InitFails, InitThrows,
                CloseBegins, CloseReturns, StartCall, TearDown
  <2> QED
    BY <2>1 DEF Names
<1>4. ASSUME NEW k \in DOMAIN call, HostCall(k) PROVE Names'
  <2>1. UNCHANGED <<vfsMap, sqlite, attaching>> /\ UNCHANGED attachVars
    BY <1>4 DEF HostCall, attachVars
  <2>2. CASE RuntimeReturns(k)
    BY Zenon, <2>1, <2>2, IssueNames DEF HostInv
  <2>3. CASE Dispatch(k) \/ HandOver(k) \/ HandOverFails(k) \/ Release(k) \/ Destroy(k)
    <3>1. UNCHANGED <<issued, dsns>>
      BY Zenon, <2>3 DEF Dispatch, HandOver, HandOverFails, Release, Destroy
    <3> QED
      BY <2>1, <3>1 DEF Names
  <2>4. CASE Deliver(k)
    <3>1. issued' = issued /\ dsns' \subseteq issued
      BY <2>4 DEF Deliver, Names
    <3> QED
      BY <2>1, <3>1 DEF Names
  <2> QED
    BY Zenon, <1>4, <2>2, <2>3, <2>4 DEF HostCall, ThreadStep, LoopStep
<1> QED
  BY <1>1, <1>2, <1>3, <1>4 DEF Next


-----------------------------------------------------------------------------
\* An init that is under way is later than another one, or was under way when
\* that began: so is the message it leaves.
InitsUnderWay ==
    /\ \A e \in Envs : client[e].runtime <= inits
    /\ \A e, f \in Envs :
        js[e] \in {"init", "init failed"} /\ js[f] = "init"
            => client[f].runtime >= client[e].runtime \/ client[f].runtime \in client[e].during
    /\ InitErrorRecent

LEMMA InitsKept ==
    ASSUME HostInv, InitsUnderWay,
           js' \in [Envs -> JS], client' \in [Envs -> AClient],
           \A e \in Envs : client'[e] = client[e] \/ client'[e].runtime = 0,
           \A e \in Envs : js'[e] \in {"init", "init failed"} =>
                                js'[e] = js[e] /\ client'[e] = client[e],
           inits' = inits, initErr' = initErr \/ initErr' = NoMessage
    PROVE  InitsUnderWay'
<1>1. \A e \in Envs : client'[e].runtime <= inits'
  <2>1. inits \in Nat /\ \A e \in Envs : client[e].runtime <= inits
    BY Zenon DEF InitsUnderWay, HostInv, HostTypes
  <2> SUFFICES ASSUME NEW e \in Envs PROVE client'[e].runtime <= inits
    BY Zenon
  <2>2. CASE client'[e] = client[e]
    BY Zenon, <2>1, <2>2
  <2>3. CASE client'[e].runtime = 0
    <3>1. 0 <= inits
      BY ONLY <2>1
    <3> QED
      BY ONLY <2>3, <3>1
  <2> QED
    BY Zenon, <2>2, <2>3
<1>2. \A e, f \in Envs :
        js'[e] \in {"init", "init failed"} /\ js'[f] = "init"
            => client'[f].runtime >= client'[e].runtime \/ client'[f].runtime \in client'[e].during
  BY Zenon DEF InitsUnderWay
<1>3. InitErrorRecent'
  <2>1. CASE initErr' = initErr
    BY Zenon, <2>1 DEF InitsUnderWay, InitErrorRecent
  <2>2. CASE initErr' = NoMessage
    <3>1. initErr' \notin Inits
      BY ONLY <2>2 DEF NoMessage, Inits
    <3> QED
      BY ONLY Zenon, <3>1 DEF InitErrorRecent
  <2> QED
    BY Zenon, <2>1, <2>2
<1> QED
  BY Zenon, <1>1, <1>2, <1>3 DEF InitsUnderWay

LEMMA InitsBegin ==
    ASSUME HostInv, InitsUnderWay, NEW e \in Envs, InitBegins(e)
    PROVE  InitsUnderWay'
<1> DEFINE under == {client[f].runtime : f \in {g \in Envs : js[g] \in {"init", "init failed"}}}
           c == [handle |-> 0, runtime |-> inits + 1, during |-> under]
<1>1. /\ js \in [Envs -> JS] /\ client \in [Envs -> AClient] /\ inits \in Nat
      /\ \A f \in Envs : client[f].runtime \in Nat /\ client[f].runtime <= inits
  BY Zenon DEF HostInv, HostTypes, InitsUnderWay, AClient
<1>2. /\ js' = [js EXCEPT ![e] = "init"] /\ client' = [client EXCEPT ![e] = c]
      /\ inits' = inits + 1 /\ initErr' = MaxInits + 1 /\ js[e] = "idle"
  BY Zenon DEF InitBegins, EnterInit, Goto, SetInitError, Undecided
<1>3. c.runtime = inits + 1 /\ c.during = under
  OBVIOUS
<1>4. \A f \in Envs : js[f] \in {"init", "init failed"} => client[f].runtime \in under
  BY Zenon
<1> HIDE DEF c, under
<1>5. /\ js'[e] = "init" /\ client'[e] = c
      /\ \A f \in Envs : f # e => js'[f] = js[f] /\ client'[f] = client[f]
  BY Zenon, <1>1, <1>2
<1>6. \A f \in Envs : client'[f].runtime <= inits'
  BY <1>1, <1>2, <1>3, <1>5
<1>7. ASSUME NEW f \in Envs, NEW g \in Envs,
             js'[f] \in {"init", "init failed"}, js'[g] = "init"
      PROVE  client'[g].runtime >= client'[f].runtime \/ client'[g].runtime \in client'[f].during
  <2>1. CASE g = e
    BY Zenon, <1>1, <1>3, <1>5, <1>6, <1>2, <2>1
  <2>2. CASE g # e /\ f = e
    BY Zenon, <1>3, <1>4, <1>5, <1>7, <2>2
  <2>3. CASE g # e /\ f # e
    BY Zenon, <1>5, <1>7, <2>3 DEF InitsUnderWay
  <2> QED
    BY Zenon, <2>1, <2>2, <2>3
<1>8. InitErrorRecent'
  <2>1. initErr' \notin Inits
    BY <1>2, InitsAssumption DEF Inits
  <2> QED
    BY Zenon, <2>1 DEF InitErrorRecent
<1> QED
  BY Zenon, <1>6, <1>7, <1>8 DEF InitsUnderWay

LEMMA InitsFail ==
    ASSUME HostInv, InitsUnderWay, NEW e \in Envs, InitFails(e)
    PROVE  InitsUnderWay'
<1>1. /\ js \in [Envs -> JS] /\ \A f \in Envs : client[f].runtime \in Nat
  BY DEF HostInv, HostTypes, AClient
<1>2. /\ js' = [js EXCEPT ![e] = "init failed"] /\ UNCHANGED <<client, inits>>
      /\ initErr' = client[e].runtime /\ js[e] = "init"
  BY Zenon DEF InitFails, RefuseInit, Goto, SetInitError
<1>3. /\ js'[e] = "init failed" /\ \A f \in Envs : f # e => js'[f] = js[f]
  BY Zenon, <1>1, <1>2
<1>4. \A f, g \in Envs :
        js'[f] \in {"init", "init failed"} /\ js'[g] = "init"
            => client'[g].runtime >= client'[f].runtime \/ client'[g].runtime \in client'[f].during
  BY Zenon, <1>2, <1>3 DEF InitsUnderWay
<1>5. ASSUME NEW f \in Envs, js'[f] = "init failed"
      PROVE  initErr' >= client'[f].runtime \/ initErr' \in client'[f].during
  <2>1. js[f] \in {"init", "init failed"}
    BY Zenon, <1>2, <1>3, <1>5
  <2> QED
    BY Zenon, <1>2, <2>1 DEF InitsUnderWay
<1> QED
  BY Zenon, <1>2, <1>4, <1>5 DEF InitsUnderWay, InitErrorRecent

LEMMA InitsStep ==
    HostInv /\ HostInv' /\ InitsUnderWay /\ [Next]_vars => InitsUnderWay'
<1> SUFFICES ASSUME HostInv, HostInv', InitsUnderWay, [Next]_vars PROVE InitsUnderWay'
  OBVIOUS
<1>0. /\ js' \in [Envs -> JS] /\ client' \in [Envs -> AClient]
      /\ js \in [Envs -> JS] /\ client \in [Envs -> AClient]
  BY DEF HostInv, HostTypes
<1>1. CASE UNCHANGED <<js, client, inits, initErr>>
  BY Zenon, <1>0, <1>1, InitsKept
<1>2. ASSUME NEW e \in Envs, EnvStep(e) PROVE InitsUnderWay'
  <2>1. CASE InitBegins(e)
    BY <2>1, InitsBegin
  <2>2. CASE InitFails(e)
    BY <2>2, InitsFail
  <2>3. CASE Load(e) \/ CloseReturns(e) \/ CloseBegins(e) \/ StartCall(e)
    <3>1. /\ client' = client /\ inits' = inits /\ initErr' = initErr
          /\ \A f \in Envs : js'[f] \in {"init", "init failed"} => js'[f] = js[f]
      BY Zenon, <1>0, <2>3
        DEF Load, CloseReturns, CloseBegins, StartCall, Goto, RemoveRuntime, handleVars
    <3> QED
      BY Zenon, <1>0, <3>1, InitsKept
  <2>4. CASE InitThrows(e) \/ TearDown(e)
    <3>1. /\ client' = [client EXCEPT ![e] = NoClient] /\ inits' = inits /\ initErr' = initErr
          /\ js' = [js EXCEPT ![e] = "idle"] \/ js' = [js EXCEPT ![e] = "gone"]
      BY Zenon, <2>4 DEF InitThrows, TearDown, Goto, handleVars
    <3>2. \A f \in Envs : f = e \/ (js'[f] = js[f] /\ client'[f] = client[f])
      BY <1>0, <3>1
    <3>3. client'[e].runtime = 0 /\ js'[e] \notin {"init", "init failed"}
      BY Zenon, <1>0, <3>1 DEF NoClient
    <3> QED
      BY Zenon, <1>0, <3>1, <3>2, <3>3, InitsKept
  <2>5. CASE InitSucceeds(e)
    <3>1. /\ inits' = inits /\ initErr' = NoMessage
          /\ js' = [js EXCEPT ![e] = "idle"]
      BY <2>5 DEF InitSucceeds, RegisterRuntime, SetInitError, Goto
    <3>2. client' = [client EXCEPT ![e].handle = nextHandle, ![e].during = {}]
      BY <2>5 DEF InitSucceeds
    <3>3. /\ client'[e].runtime = client[e].runtime
          /\ \A f \in Envs : f # e => client'[f] = client[f]
      BY Zenon, <1>0, <3>2 DEF AClient
    <3>4. /\ js'[e] = "idle" /\ \A f \in Envs : f # e => js'[f] = js[f]
      BY <1>0, <3>1
    <3>5. \A f \in Envs : client'[f].runtime <= inits'
      BY Zenon, <3>1, <3>3 DEF InitsUnderWay
    <3>6. \A f, g \in Envs :
            js'[f] \in {"init", "init failed"} /\ js'[g] = "init"
                => client'[g].runtime >= client'[f].runtime \/ client'[g].runtime \in client'[f].during
      BY Zenon, <3>3, <3>4 DEF InitsUnderWay
    <3>7. InitErrorRecent'
      <4>1. initErr' \notin Inits
        BY <3>1 DEF NoMessage, Inits
      <4> QED
        BY Zenon, <4>1 DEF InitErrorRecent
    <3> QED
      BY Zenon, <3>5, <3>6, <3>7 DEF InitsUnderWay
  <2> QED
    BY Zenon, <1>2, <2>1, <2>2, <2>3, <2>4, <2>5 DEF EnvStep
<1>3. ASSUME NEW k \in DOMAIN call, HostCall(k) PROVE InitsUnderWay'
  <2>1. UNCHANGED <<js, client, inits, initErr>>
    BY Zenon, <1>3
      DEF HostCall, ThreadStep, LoopStep, Dispatch, RuntimeReturns, HandOver,
                HandOverFails, Release, Deliver, Destroy, handleVars
  <2> QED
    BY Zenon, <1>1, <2>1
<1>4. ASSUME NEW e \in Envs, HostExtension(e) PROVE InitsUnderWay'
  BY <1>1, <1>4 DEF HostExtension, handleVars, addonVars
<1>5. ASSUME NEW e \in Envs, HostAddon(e) PROVE InitsUnderWay'
  BY Zenon, <1>2, <1>5 DEF HostAddon
<1>6. CASE UNCHANGED vars
  BY <1>1, <1>6 DEF vars, handleVars, addonVars
<1> QED
  BY Zenon, <1>3, <1>4, <1>5, <1>6 DEF Next

-----------------------------------------------------------------------------
\* HostInv holds in every state: whoever calls has a complete library, handles
\* lead to their own runtimes, and cells belong to the calls under way.
THEOREM HostInvariant == Spec => []HostInv
BY HostInitInv, HostStepInv, PTL DEF Spec

\* No native function is called through a symbol that is not there (walrusd_load
\* throws when dlsym finds one missing, though it stored what it found).
THEOREM HostSymbols == Spec => []SymbolsThere
<1>1. HostInv => SymbolsThere
  BY Zenon DEF HostInv, Loaded, SymbolsThere
<1> QED
  BY <1>1, HostInvariant, PTL

\* A call is served by the runtime of the client it was made on, or by none
\* (handles of api.go are never given out again).
THEOREM HostServedByOwn == Spec => []ServedByOwn
<1>1. HostInv => ServedByOwn
  BY DEF HostInv, Handed, ServedByOwn
<1> QED
  BY <1>1, HostInvariant, PTL

\* call_thread and call_deliver use no CallWork that was freed or is another
\* call's, up to the release; whichever way a call ends, its CallWork is freed.
THEOREM HostWorkOwned == Spec => []WorkOwned
<1>1. HostInv => WorkOwned
  BY Zenon DEF HostInv, Works, Active, WorkOwned
<1> QED
  BY <1>1, HostInvariant, PTL

\* A pending promise of an environment that is there has a call under way and an
\* open threadsafe function, as long as no thread misread w->tsfn.
THEOREM HostPendingHoldsLoop == Spec => []PendingHoldsLoop
<1>1. HostInv => PendingHoldsLoop
  BY DEF HostInv, Settles, Active, PendingHoldsLoop
<1> QED
  BY <1>1, HostInvariant, PTL

\* The message of a failed init is not left over from an earlier one that had
\* ended (initErrMessage in handle.go).
THEOREM HostInitErrorRecent == Spec => []InitErrorRecent
<1>1. Init => InitsUnderWay
  BY DEF Init, AddonInit, HandlesInit, NoClient, InitsUnderWay, InitErrorRecent
<1>2. InitsUnderWay => InitErrorRecent
  BY Zenon DEF InitsUnderWay
<1> QED
  BY <1>1, <1>2, InitsStep, HostInvariant, PTL DEF Spec

\* A name that SQLite has registered leads to the replica of the database whose
\* DSN it is in (globalVFSSeq in bridge.go, attached in bindings/vfs/main.go).
THEOREM HostAttachedAsIssued == Spec => []AttachedAsIssued
<1>1. Names => AttachedAsIssued
  BY DEF Names, AttachedAsIssued
<1> QED
  BY <1>1, HostInitInv, NamesStep, HostInvariant, PTL DEF Spec

\* The extension stays mapped while a VFS of it is registered (vfs.c returns
\* SQLITE_OK_LOAD_PERMANENTLY).
THEOREM HostMapped == Spec => []MappedWhileRegistered
<1>1. Permanent => MappedWhileRegistered
  BY DEF Permanent, MappedWhileRegistered
<1> QED
  BY <1>1, HostInitInv, PermanentStep, PTL DEF Spec

-----------------------------------------------------------------------------
\* The bounds of HostTypeOK.  A call after its answer keeps what it has, or
\* drops it.
Goes(r, c) ==
    /\ r.handle = c.handle /\ r.runtime = c.runtime /\ r.served = c.served
    /\ r.dsn \in {None, c.dsn} /\ r.name \in {0, c.name}
    /\ r.pc = c.pc \/ r.pc \notin {"begin", "entered"}

LEMMA DroppedGoes ==
    ASSUME NEW c \in ACall
    PROVE  Goes(Dropped(c), c) /\ Dropped(c).pc = c.pc
<1>1. Dropped(c).name = 0 /\ Dropped(c).dsn = None
  BY Zenon DEF Dropped, ACall
<1> QED
  BY Zenon, <1>1, DroppedIs DEF Goes

LEMMA OneGoes ==
    ASSUME HostInv, NEW k \in DOMAIN call,
           HandOver(k) \/ HandOverFails(k) \/ Deliver(k) \/ Destroy(k)
    PROVE  DOMAIN call' = DOMAIN call /\ \A j \in DOMAIN call : Goes(call'[j], call[j])
<1>1. call[k] \in ACall
  BY Zenon, CallType DEF HostInv
<1>2. ASSUME NEW r, call' = [call EXCEPT ![k] = r], Goes(r, call[k])
      PROVE  DOMAIN call' = DOMAIN call /\ \A j \in DOMAIN call : Goes(call'[j], call[j])
  <2>1. DOMAIN call' = DOMAIN call /\ call'[k] = r /\ \A j \in DOMAIN call : j # k => call'[j] = call[j]
    BY Zenon, <1>2
  <2> QED
    BY Zenon, <1>2, <2>1 DEF Goes
<1>3. CASE HandOver(k)
  <2> DEFINE r == [call[k] EXCEPT !.pc = "release", !.queued = TRUE]
  <2>1. call' = [call EXCEPT ![k] = r]
    BY Zenon, <1>3 DEF HandOver
  <2>2. /\ r.handle = call[k].handle /\ r.runtime = call[k].runtime /\ r.served = call[k].served
        /\ r.dsn = call[k].dsn /\ r.name = call[k].name /\ r.pc = "release"
    BY Zenon, <1>1 DEF ACall
  <2>3. Goes(r, call[k])
    BY <2>2 DEF Goes
  <2> QED
    BY Zenon, <1>2, <2>1, <2>3
<1>4. PICK d : d = Dropped(call[k])
  OBVIOUS
<1>5. d \in ACall /\ Goes(d, call[k]) /\ d.pc = call[k].pc
  BY Zenon, <1>1, <1>4, DroppedIs, DroppedGoes
<1>6. CASE HandOverFails(k)
  <2> DEFINE r == [d EXCEPT !.pc = "release", !.threads = 0, !.fn = "destroyed"]
  <2>1. call' = [call EXCEPT ![k] = r]
    BY Zenon, <1>4, <1>6 DEF HandOverFails
  <2>2. /\ r.handle = d.handle /\ r.runtime = d.runtime /\ r.served = d.served
        /\ r.dsn = d.dsn /\ r.name = d.name /\ r.pc = "release"
    BY Zenon, <1>5 DEF ACall
  <2>3. Goes(r, call[k])
    BY <1>5, <2>2 DEF Goes
  <2> QED
    BY Zenon, <1>2, <2>1, <2>3
<1>7. CASE Deliver(k)
  <2>1. PICK p : call' = [call EXCEPT ![k] = [d EXCEPT !.promise = p]]
    BY Zenon, <1>4, <1>7 DEF Deliver
  <2> DEFINE r == [d EXCEPT !.promise = p]
  <2>2. /\ r.handle = d.handle /\ r.runtime = d.runtime /\ r.served = d.served
        /\ r.dsn = d.dsn /\ r.name = d.name /\ r.pc = d.pc
    BY Zenon, <1>5 DEF ACall
  <2>3. Goes(r, call[k])
    BY Zenon, <1>5, <2>2 DEF Goes
  <2> QED
    BY Zenon, <1>2, <2>1, <2>3
<1>8. CASE Destroy(k)
  <2> DEFINE r == [call[k] EXCEPT !.fn = "destroyed"]
  <2>1. call' = [call EXCEPT ![k] = r]
    BY Zenon, <1>8 DEF Destroy
  <2>2. /\ r.handle = call[k].handle /\ r.runtime = call[k].runtime /\ r.served = call[k].served
        /\ r.dsn = call[k].dsn /\ r.name = call[k].name /\ r.pc = call[k].pc
    BY Zenon, <1>1 DEF ACall
  <2>3. Goes(r, call[k])
    BY Zenon, <2>2 DEF Goes
  <2> QED
    BY Zenon, <1>2, <2>1, <2>3
<1> QED
  BY Zenon, <1>3, <1>6, <1>7, <1>8

LEMMA AllGo ==
    ASSUME HostInv, (\E k \in DOMAIN call : Release(k)) \/ (\E e \in Envs : TearDown(e))
    PROVE  DOMAIN call' = DOMAIN call /\ \A j \in DOMAIN call : Goes(call'[j], call[j])
<1>1. \A j \in DOMAIN call : call[j] \in ACall
  BY Zenon, CallType DEF HostInv
<1>2. ASSUME NEW k \in DOMAIN call, Release(k)
      PROVE  DOMAIN call' = DOMAIN call /\ \A j \in DOMAIN call : Goes(call'[j], call[j])
  <2>1. PICK t : call' = [j \in DOMAIN call |->
                    LET r == IF j = t THEN Released(j) ELSE call[j]
                    IN IF j = k THEN [r EXCEPT !.pc = "done"] ELSE r]
    BY Zenon, <1>2 DEF Release
  <2>2. ASSUME NEW j \in DOMAIN call PROVE Goes(call'[j], call[j])
    <3> DEFINE r == IF j = t THEN Released(j) ELSE call[j]
    <3>1. Goes(Released(j), call[j]) /\ DOMAIN Released(j) = DOMAIN call[j]
      <4>1. Released(j) = [call[j] EXCEPT !.threads = 0,
                            !.fn = IF call[j].fn = "closing" THEN "destroyed" ELSE call[j].fn]
        BY Zenon, <1>1 DEF Released, ACall
      <4>2. /\ Released(j).handle = call[j].handle /\ Released(j).runtime = call[j].runtime
            /\ Released(j).served = call[j].served /\ Released(j).dsn = call[j].dsn
            /\ Released(j).name = call[j].name /\ Released(j).pc = call[j].pc
            /\ DOMAIN Released(j) = DOMAIN call[j]
        BY Zenon, <1>1, <4>1 DEF ACall
      <4> QED
        BY Zenon, <4>2 DEF Goes
    <3>2. Goes(r, call[j]) /\ DOMAIN r = DOMAIN call[j]
      BY Zenon, <3>1 DEF Goes
    <3>3. call'[j] = r \/ call'[j] = [r EXCEPT !.pc = "done"]
      BY Zenon, <2>1
    <3> HIDE DEF r
    <3>4. CASE call'[j] = r
      BY Zenon, <3>2, <3>4
    <3>5. CASE call'[j] = [r EXCEPT !.pc = "done"]
      <4>1. DOMAIN call[j] = {"env", "dsn", "handle", "runtime", "late", "cell", "pc", "served", "answer",
                              "name", "promise", "threads", "queued", "fn"}
        BY Zenon, <1>1 DEF ACall
      <4>2. /\ call'[j].handle = r.handle /\ call'[j].runtime = r.runtime
            /\ call'[j].served = r.served /\ call'[j].dsn = r.dsn
            /\ call'[j].name = r.name /\ call'[j].pc = "done"
        BY Zenon, <3>2, <3>5, <4>1
      <4> QED
        BY <3>2, <4>2 DEF Goes
    <3> QED
      BY Zenon, <3>3, <3>4, <3>5
  <2> QED
    BY Zenon, <2>1, <2>2
<1>3. ASSUME NEW e \in Envs, TearDown(e)
      PROVE  DOMAIN call' = DOMAIN call /\ \A j \in DOMAIN call : Goes(call'[j], call[j])
  <2>1. call' = [k \in DOMAIN call |->
                    IF call[k].env = e /\ call[k].fn = "open"
                    THEN [IF call[k].queued THEN Dropped(call[k]) ELSE call[k] EXCEPT
                            !.fn = IF call[k].threads = 0 THEN "destroyed" ELSE "closing"]
                    ELSE call[k]]
    BY Zenon, <1>3 DEF TearDown
  <2>2. ASSUME NEW j \in DOMAIN call PROVE Goes(call'[j], call[j])
    <3> DEFINE r == IF call[j].queued THEN Dropped(call[j]) ELSE call[j]
               f == IF call[j].threads = 0 THEN "destroyed" ELSE "closing"
    <3>1. r \in ACall /\ Goes(r, call[j])
      BY Zenon, <1>1, DroppedIs, DroppedGoes DEF Goes
    <3>2. call'[j] = call[j] \/ call'[j] = [r EXCEPT !.fn = f]
      BY Zenon, <2>1
    <3> HIDE DEF r, f
    <3>3. CASE call'[j] = call[j]
      BY Zenon, <3>3 DEF Goes
    <3>4. CASE call'[j] = [r EXCEPT !.fn = f]
      <4>1. /\ call'[j].handle = r.handle /\ call'[j].runtime = r.runtime
            /\ call'[j].served = r.served /\ call'[j].dsn = r.dsn
            /\ call'[j].name = r.name /\ call'[j].pc = r.pc
        BY Zenon, <3>1, <3>4 DEF ACall
      <4> QED
        BY Zenon, <3>1, <4>1 DEF Goes
    <3> QED
      BY Zenon, <3>2, <3>3, <3>4
  <2> QED
    BY Zenon, <2>1, <2>2
<1> QED
  BY Zenon, <1>2, <1>3
-----------------------------------------------------------------------------
\* The inits that are over; those under way have numbers of their own, so there
\* are never more handles than inits.
Begun == {client[e].runtime : e \in {f \in Envs : js[f] = "init"}}
Over == (1..inits) \ Begun

InitsCounted ==
    /\ inits \in 0..MaxInits
    /\ \A e \in Envs : js[e] \in {"init", "init failed"} => client[e].runtime \in 1..inits
    /\ \A e, f \in Envs :
        js[e] = "init" /\ js[f] = "init" /\ client[e].runtime = client[f].runtime => e = f
    /\ nextHandle <= Cardinality(Over) + 1

LEMMA IntervalIs ==
    ASSUME NEW n \in Nat
    PROVE  IsFiniteSet(1..n) /\ Cardinality(1..n) = n
<1>1. Cardinality(1..n) = IF 1 > n THEN 0 ELSE n - 1 + 1
  BY FS_Interval
<1> QED
  BY <1>1, FS_Interval

LEMMA WithinMore ==
    \A x, y, n \in Nat : x <= y /\ n <= x + 1 => n <= y + 1
OBVIOUS

LEMMA NextIsNew ==
    \A m \in Nat : \A n \in 1..m : n # m + 1
OBVIOUS

LEMMA OverIs ==
    ASSUME HostTypes
    PROVE  IsFiniteSet(Over) /\ Cardinality(Over) \in Nat /\ Cardinality(Over) <= inits
<1>1. inits \in Nat
  BY Zenon DEF HostTypes
<1>2. IsFiniteSet(1..inits) /\ Cardinality(1..inits) = inits
  BY Zenon, <1>1, IntervalIs
<1>3. Over \subseteq 1..inits
  BY Zenon DEF Over
<1>4. IsFiniteSet(Over) /\ Cardinality(Over) <= Cardinality(1..inits)
  BY Zenon, <1>2, <1>3, FS_Subset
<1> QED
  BY Zenon, <1>2, <1>4, FS_CardinalityType

LEMMA HandlesBounded ==
    ASSUME HostInv, InitsCounted
    PROVE  /\ nextHandle \in 1..(MaxInits + 1)
           /\ \A h \in DOMAIN runtimes : h \in 1..MaxInits
           /\ \A e \in Envs : client[e].handle \in 0..MaxInits
<1>1. nextHandle \in Nat /\ nextHandle > 0 /\ nextHandle <= Cardinality(Over) + 1 /\ inits \in 0..MaxInits
  BY Zenon DEF HostInv, HostTypes, Handed, InitsCounted
<1>2. Cardinality(Over) \in Nat /\ Cardinality(Over) <= inits
  BY Zenon, OverIs DEF HostInv
<1>3. nextHandle \in 1..(MaxInits + 1)
  BY <1>1, <1>2, InitsAssumption
<1>4. \A h \in Nat : h < nextHandle => h \in 0..MaxInits
  BY <1>3, InitsAssumption
<1>5. \A h \in DOMAIN runtimes : h \in 1..MaxInits
  <2> SUFFICES ASSUME NEW h \in DOMAIN runtimes PROVE h \in 1..MaxInits
    OBVIOUS
  <2>1. h \in Nat /\ 0 < h /\ h < nextHandle
    BY Zenon DEF HostInv, HostTypes, Handed
  <2> QED
    BY <1>3, <2>1, InitsAssumption
<1>6. \A e \in Envs : client[e].handle \in 0..MaxInits
  <2> SUFFICES ASSUME NEW e \in Envs PROVE client[e].handle \in 0..MaxInits
    OBVIOUS
  <2>1. client[e].handle \in Nat
    BY Zenon DEF HostInv, HostTypes, AClient
  <2>2. client[e].handle < nextHandle
    BY Zenon DEF HostInv, Handed, Leads
  <2> QED
    BY Zenon, <1>4, <2>1, <2>2
<1> QED
  BY Zenon, <1>3, <1>5, <1>6

\* No init begins and none succeeds.
LEMMA InitsCountedKept ==
    ASSUME HostInv, HostInv', InitsCounted, UNCHANGED <<inits, nextHandle>>,
           \A e \in Envs : js'[e] \in {"init", "init failed"} =>
               js[e] \in {"init", "init failed"} /\ client'[e] = client[e],
           \A e \in Envs : js'[e] = "init" => js[e] = "init"
    PROVE  InitsCounted'
<1>1. Begun' \subseteq Begun
  BY Zenon DEF Begun
<1>2. Over \subseteq Over'
  BY Zenon, <1>1 DEF Over
<1>3. IsFiniteSet(Over') /\ Cardinality(Over') \in Nat
  <2>1. inits' \in Nat
    BY Zenon DEF HostInv, HostTypes
  <2>2. IsFiniteSet(1..inits')
    BY Zenon, <2>1, IntervalIs
  <2>3. Over' \subseteq 1..inits'
    BY Zenon DEF Over
  <2>4. IsFiniteSet(Over')
    BY Zenon, <2>2, <2>3, FS_Subset
  <2> QED
    BY Zenon, <2>4, FS_CardinalityType
<1>4. Cardinality(Over) <= Cardinality(Over') /\ Cardinality(Over) \in Nat
  BY Zenon, <1>2, <1>3, FS_Subset, OverIs DEF HostInv
<1>5. nextHandle \in Nat /\ nextHandle <= Cardinality(Over) + 1
  BY Zenon DEF HostInv, HostTypes, InitsCounted
<1>6. nextHandle' <= Cardinality(Over') + 1
  <2>1. PICK a \in Nat, b \in Nat : a = Cardinality(Over) /\ b = Cardinality(Over')
    BY Zenon, <1>3, <1>4
  <2>2. nextHandle <= b + 1
    BY Zenon, <1>4, <1>5, <2>1, WithinMore
  <2> QED
    BY Zenon, <2>1, <2>2
<1>7. /\ \A e \in Envs : js'[e] \in {"init", "init failed"} => client'[e].runtime \in 1..inits'
      /\ \A e, f \in Envs :
           js'[e] = "init" /\ js'[f] = "init" /\ client'[e].runtime = client'[f].runtime => e = f
  BY Zenon DEF InitsCounted
<1> QED
  BY Zenon, <1>6, <1>7 DEF InitsCounted

LEMMA InitsCountedBegin ==
    ASSUME HostInv, HostInv', InitsCounted, NEW e \in Envs, InitBegins(e)
    PROVE  InitsCounted'
<1>1. /\ js \in [Envs -> JS] /\ client \in [Envs -> AClient] /\ inits \in Nat
      /\ inits < MaxInits /\ inits' = inits + 1 /\ nextHandle' = nextHandle /\ js[e] = "idle"
  BY Zenon DEF HostInv, HostTypes, InitBegins, EnterInit
<1>2. /\ js'[e] = "init" /\ client'[e].runtime = inits + 1
      /\ \A f \in Envs : f # e => js'[f] = js[f] /\ client'[f] = client[f]
  BY Zenon, <1>1 DEF InitBegins, Goto
<1>3. \A f \in Envs : js[f] \in {"init", "init failed"} =>
          f # e /\ client[f].runtime \in 1..inits /\ client[f].runtime # inits + 1
  <2> SUFFICES ASSUME NEW f \in Envs, js[f] \in {"init", "init failed"}
               PROVE  f # e /\ client[f].runtime \in 1..inits /\ client[f].runtime # inits + 1
    BY Zenon
  <2>1. js[f] # "idle" /\ client[f].runtime \in 1..inits
    BY Zenon DEF InitsCounted
  <2>2. f # e
    BY Zenon, <1>1, <2>1
  <2> QED
    BY Zenon, <1>1, <2>1, <2>2, NextIsNew
<1>4. Begun' = Begun \cup {inits + 1}
  BY Zenon, <1>2, <1>3 DEF Begun
<1>5. (1..(inits + 1)) \ (Begun \cup {inits + 1}) = (1..inits) \ Begun
  BY <1>1
<1>6. Over' = Over
  BY Zenon, <1>1, <1>4, <1>5 DEF Over
<1>7. inits' \in 0..MaxInits
  BY <1>1, InitsAssumption
<1>8. \A f \in Envs : js'[f] \in {"init", "init failed"} => client'[f].runtime \in 1..inits'
  <2>1. \A n \in 1..inits : n \in 1..(inits + 1)
    BY <1>1
  <2>2. inits + 1 \in 1..(inits + 1)
    BY <1>1
  <2> QED
    BY Zenon, <1>1, <1>2, <1>3, <2>1, <2>2
<1>9. \A f, g \in Envs :
        js'[f] = "init" /\ js'[g] = "init" /\ client'[f].runtime = client'[g].runtime => f = g
  BY Zenon, <1>2, <1>3 DEF InitsCounted
<1> QED
  BY Zenon, <1>1, <1>6, <1>7, <1>8, <1>9 DEF InitsCounted

LEMMA InitsCountedSucceed ==
    ASSUME HostInv, HostInv', InitsCounted, NEW e \in Envs, InitSucceeds(e)
    PROVE  InitsCounted'
<1> DEFINE i == client[e].runtime
<1>1. /\ js \in [Envs -> JS] /\ client \in [Envs -> AClient] /\ inits' = inits
      /\ nextHandle' = nextHandle + 1 /\ nextHandle \in Nat /\ js[e] = "init"
  BY Zenon DEF HostInv, HostTypes, InitSucceeds, RegisterRuntime
<1>2. /\ js'[e] = "idle" /\ \A f \in Envs : f # e => js'[f] = js[f] /\ client'[f] = client[f]
  BY Zenon, <1>1 DEF InitSucceeds, Goto
<1>3. i \in 1..inits /\ i \in Begun
  BY Zenon, <1>1 DEF InitsCounted, Begun
<1>4. Begun' = Begun \ {i}
  BY Zenon, <1>1, <1>2 DEF Begun, InitsCounted
<1>5. Over' = Over \cup {i} /\ i \notin Over
  BY Zenon, <1>1, <1>3, <1>4 DEF Over
<1>6. IsFiniteSet(Over) /\ Cardinality(Over) \in Nat
  BY Zenon, OverIs DEF HostInv
<1>7. Cardinality(Over') = Cardinality(Over) + 1
  BY Zenon, <1>5, <1>6, FS_AddElement
<1>8. nextHandle' <= Cardinality(Over') + 1
  <2>1. nextHandle <= Cardinality(Over) + 1
    BY Zenon DEF InitsCounted
  <2> QED
    BY <1>1, <1>6, <1>7, <2>1
<1>9. /\ \A f \in Envs : js'[f] \in {"init", "init failed"} => client'[f].runtime \in 1..inits'
      /\ \A f, g \in Envs :
           js'[f] = "init" /\ js'[g] = "init" /\ client'[f].runtime = client'[g].runtime => f = g
  BY Zenon, <1>1, <1>2 DEF InitsCounted
<1> QED
  BY Zenon, <1>1, <1>8, <1>9 DEF InitsCounted

LEMMA InitsCountedStep ==
    HostInv /\ HostInv' /\ InitsCounted /\ [Next]_vars => InitsCounted'
<1> SUFFICES ASSUME HostInv, HostInv', InitsCounted, [Next]_vars PROVE InitsCounted'
  OBVIOUS
<1>1. CASE UNCHANGED <<js, client, inits, nextHandle>>
  BY Zenon, <1>1, InitsCountedKept
<1>2. ASSUME NEW e \in Envs, EnvStep(e) PROVE InitsCounted'
  <2>1. CASE InitBegins(e)
    BY Zenon, <2>1, InitsCountedBegin
  <2>2. CASE InitSucceeds(e)
    BY Zenon, <2>2, InitsCountedSucceed
  <2>3. CASE \/ Load(e) \/ CloseReturns(e) \/ CloseBegins(e) \/ StartCall(e) \/ InitFails(e)
             \/ InitThrows(e) \/ TearDown(e)
    <3>1. js \in [Envs -> JS] /\ client \in [Envs -> AClient]
      BY Zenon DEF HostInv, HostTypes
    <3>2. UNCHANGED <<inits, nextHandle>>
      BY Zenon, <2>3
        DEF Load, CloseReturns, CloseBegins, StartCall, InitFails, InitThrows, TearDown,
         RemoveRuntime, RefuseInit, handleVars
    <3>3. \A f \in Envs : f # e => js'[f] = js[f] /\ client'[f] = client[f]
      BY Zenon, <2>3, <3>1
        DEF Load, CloseReturns, CloseBegins, StartCall, InitFails, InitThrows,
         TearDown, Goto
    <3>4. \/ js'[e] \notin {"init", "init failed"}
          \/ UNCHANGED <<js, client>>
          \/ js'[e] = "init failed" /\ js[e] = "init" /\ UNCHANGED client
      BY Zenon, <2>3, <3>1
        DEF Load, CloseReturns, CloseBegins, StartCall, InitFails, InitThrows,
         TearDown, Goto
    <3> QED
      BY Zenon, <3>2, <3>3, <3>4, InitsCountedKept
  <2> QED
    BY Zenon, <1>2, <2>1, <2>2, <2>3 DEF EnvStep
<1>3. ASSUME NEW k \in DOMAIN call, HostCall(k) PROVE InitsCounted'
  <2>1. UNCHANGED <<js, client, inits, nextHandle>>
    BY Zenon, <1>3
      DEF HostCall, ThreadStep, LoopStep, Dispatch, RuntimeReturns, HandOver,
                HandOverFails, Release, Deliver, Destroy, handleVars
  <2> QED
    BY Zenon, <1>1, <2>1
<1>4. ASSUME NEW e \in Envs, HostExtension(e) PROVE InitsCounted'
  BY Zenon, <1>1, <1>4 DEF HostExtension, handleVars, addonVars
<1>5. CASE UNCHANGED vars
  BY Zenon, <1>1, <1>5 DEF vars, handleVars, addonVars
<1> QED
  BY Zenon, <1>2, <1>3, <1>4, <1>5 DEF Next, HostAddon

-----------------------------------------------------------------------------
\* The calls that the runtime answered: each issued one name at most.
Answers(s) == {k \in DOMAIN s : s[k].pc \notin {"begin", "entered"}}

Bounded(c) ==
    /\ c.handle \in 0..MaxInits /\ c.runtime \in 0..MaxInits /\ c.served \in 0..MaxInits
    /\ c.name \in 0..MaxCalls
    /\ c.pc \in {"begin", "entered"} => c.runtime \in Inits

CallsBounded ==
    /\ Len(call) <= MaxCalls
    /\ \A k \in DOMAIN call : Bounded(call[k])
    /\ issued \subseteq [name : Nat, db : DBs, runtime : Inits]
    /\ \E m \in Nat : m <= Cardinality(Answers(call)) /\ {v.name : v \in issued} = 1..m

LEMMA AnswersAre ==
    ASSUME NEW s \in Seq(ACall)
    PROVE  /\ IsFiniteSet(Answers(s)) /\ Cardinality(Answers(s)) \in Nat
           /\ Cardinality(Answers(s)) <= Len(s) /\ Len(s) \in Nat
<1>1. Len(s) \in Nat /\ DOMAIN s = 1..Len(s)
  BY LenProperties
<1>2. IsFiniteSet(DOMAIN s) /\ Cardinality(DOMAIN s) = Len(s)
  BY Zenon, <1>1, IntervalIs
<1>3. Answers(s) \subseteq DOMAIN s
  BY Zenon DEF Answers
<1> QED
  BY Zenon, <1>1, <1>2, <1>3, FS_Subset, FS_CardinalityType

LEMMA SameLength ==
    ASSUME NEW s \in Seq(ACall), NEW t \in Seq(ACall), DOMAIN s = DOMAIN t
    PROVE  Len(s) = Len(t)
<1>1. Len(s) \in Nat /\ DOMAIN s = 1..Len(s) /\ Len(t) \in Nat /\ DOMAIN t = 1..Len(t)
  BY LenProperties
<1>2. \A a, b \in Nat : 1..a = 1..b => a = b
  OBVIOUS
<1> QED
  BY Zenon, <1>1, <1>2

\* More calls have been answered, and no more names issued.
LEMMA AtMostAnswers ==
    ASSUME NEW s \in Seq(ACall), NEW t \in Seq(ACall), Answers(s) \subseteq Answers(t)
    PROVE  \A m \in Nat : m <= Cardinality(Answers(s)) => m <= Cardinality(Answers(t))
<1>1. PICK a \in Nat, b \in Nat : a = Cardinality(Answers(s)) /\ b = Cardinality(Answers(t)) /\ a <= b
  BY Zenon, AnswersAre, FS_Subset
<1>2. \A m \in Nat : m <= a => m <= b
  BY <1>1
<1> QED
  BY Zenon, <1>1, <1>2

LEMMA CallsBoundedGo ==
    ASSUME HostInv, HostInv', CallsBounded, DOMAIN call' = DOMAIN call, UNCHANGED issued,
           \A j \in DOMAIN call : Goes(call'[j], call[j])
    PROVE  CallsBounded'
<1>1. call \in Seq(ACall) /\ call' \in Seq(ACall)
  BY Zenon DEF HostInv, HostTypes
<1>2. Len(call') = Len(call)
  BY Zenon, <1>1, SameLength
<1>3. Answers(call) \subseteq Answers(call')
  BY Zenon DEF Answers, Goes
<1>4. ASSUME NEW m \in Nat, m <= Cardinality(Answers(call)) PROVE m <= Cardinality(Answers(call'))
  BY Zenon, <1>1, <1>3, <1>4, AtMostAnswers
<1>5. 0 \in 0..MaxCalls
  BY CallsAssumption
<1>6. ASSUME NEW j \in DOMAIN call PROVE Bounded(call'[j])
  <2>1. Bounded(call[j]) /\ Goes(call'[j], call[j])
    BY Zenon DEF CallsBounded
  <2> QED
    BY Zenon, <1>5, <2>1 DEF Bounded, Goes
<1> QED
  BY Zenon, <1>2, <1>4, <1>6 DEF CallsBounded

LEMMA UpToNext ==
    \A n \in Nat : \A j \in 1..(n + 1) : j = n + 1 \/ j \in 1..n
OBVIOUS

LEMMA CallsBoundedStart ==
    ASSUME HostInv, HostInv', InitsUnderWay, InitsCounted, CallsBounded, NEW e \in Envs, StartCall(e)
    PROVE  CallsBounded'
<1>1. call \in Seq(ACall) /\ call' \in Seq(ACall) /\ client[e] \in AClient
  BY Zenon DEF HostInv, HostTypes
<1>2. PICK c \in Cells, d \in DBs \cup {None} :
        call' = Append(call,
              [env |-> e, dsn |-> d, handle |-> client[e].handle,
               runtime |-> client[e].runtime, late |-> ~Registered(client[e].handle),
               cell |-> c, pc |-> "begin", served |-> 0, answer |-> "none", name |-> 0,
               promise |-> "pending", threads |-> 1, queued |-> FALSE, fn |-> "open"])
  BY Zenon DEF StartCall
<1> DEFINE r == [env |-> e, dsn |-> d, handle |-> client[e].handle,
               runtime |-> client[e].runtime, late |-> ~Registered(client[e].handle),
               cell |-> c, pc |-> "begin", served |-> 0, answer |-> "none", name |-> 0,
               promise |-> "pending", threads |-> 1, queued |-> FALSE, fn |-> "open"]
<1>3. /\ r.handle = client[e].handle /\ r.runtime = client[e].runtime /\ r.served = 0 /\ r.name = 0
      /\ r.pc = "begin"
  BY Zenon
<1>4. call' = Append(call, r)
  BY Zenon, <1>2
<1> HIDE DEF r
<1>5. /\ client[e].handle \in 0..MaxInits /\ client[e].runtime \in Nat
      /\ client[e].runtime <= inits /\ inits \in 0..MaxInits
  BY Zenon, <1>1, HandlesBounded DEF InitsUnderWay, InitsCounted, AClient
<1>6. client[e].runtime # 0 /\ Len(call) < MaxCalls /\ issued' = issued
  BY Zenon DEF StartCall
<1>7. client[e].runtime \in Inits /\ client[e].runtime \in 0..MaxInits /\ 0 \in 0..MaxInits /\ 0 \in 0..MaxCalls
  BY <1>5, <1>6, InitsAssumption, CallsAssumption DEF Inits
<1>8. Bounded(r)
  BY Zenon, <1>3, <1>5, <1>7 DEF Bounded
<1>9. /\ Len(call') = Len(call) + 1 /\ Len(call) \in Nat /\ DOMAIN call = 1..Len(call)
      /\ DOMAIN call' = 1..(Len(call) + 1) /\ call'[Len(call) + 1] = r
      /\ \A j \in 1..Len(call) : call'[j] = call[j] /\ j \in 1..(Len(call) + 1)
  <2>1. PICK s \in Seq(ACall) : s = call
    BY Zenon, <1>1
  <2>2. PICK t \in Seq(ACall) : t = call'
    BY Zenon, <1>1
  <2>3. t = Append(s, r)
    BY <1>4, <2>1, <2>2
  <2>4. /\ Len(t) = Len(s) + 1 /\ Len(s) \in Nat /\ DOMAIN s = 1..Len(s)
        /\ DOMAIN t = 1..(Len(s) + 1) /\ t[Len(s) + 1] = r
        /\ \A j \in 1..Len(s) : t[j] = s[j] /\ j \in 1..(Len(s) + 1)
    BY <2>3, LenProperties
  <2> QED
    BY Zenon, <2>1, <2>2, <2>4
<1>10. \A j \in DOMAIN call' : j = Len(call) + 1 \/ j \in DOMAIN call
  BY Zenon, <1>9, UpToNext
<1>11. \A j \in DOMAIN call' : Bounded(call'[j])
  BY Zenon, <1>8, <1>9, <1>10 DEF CallsBounded
<1>12. Answers(call) \subseteq Answers(call')
  BY Zenon, <1>9 DEF Answers
<1>13. ASSUME NEW m \in Nat, m <= Cardinality(Answers(call)) PROVE m <= Cardinality(Answers(call'))
  BY Zenon, <1>1, <1>12, <1>13, AtMostAnswers
<1>14. Len(call') <= MaxCalls
  BY <1>6, <1>9, CallsAssumption
<1> QED
  BY Zenon, <1>6, <1>11, <1>13, <1>14 DEF CallsBounded

\* The call k is answered, with the name n; b names are issued then.
Answering(k, a, n, b) ==
    /\ call[k].pc \in {"begin", "entered"} /\ call' = Answered(k, a, n)
    /\ issued' \subseteq [name : Nat, db : DBs, runtime : Inits]
    /\ b \in Nat /\ n \in 0..b /\ {v.name : v \in issued'} = 1..b
    /\ \E m \in Nat : m <= Cardinality(Answers(call)) /\ b <= m + 1

LEMMA CallsBoundedAnswer ==
    ASSUME HostInv, HostInv', CallsBounded, NEW k \in DOMAIN call, NEW a, NEW n, NEW b,
           Answering(k, a, n, b)
    PROVE  CallsBounded'
<1>0. PICK m \in Nat : m <= Cardinality(Answers(call)) /\ b <= m + 1
  BY Zenon DEF Answering
<1> USE DEF Answering
<1>1. call \in Seq(ACall) /\ call' \in Seq(ACall) /\ call[k] \in ACall
  BY Zenon, CallType DEF HostInv, HostTypes
<1> DEFINE r == [call[k] EXCEPT !.pc = "push", !.answer = a, !.name = n,
                            !.handle = 0, !.runtime = 0, !.served = 0, !.late = FALSE]
<1>2. call' = [call EXCEPT ![k] = r]
  BY Zenon DEF Answered
<1>3. r.pc = "push" /\ r.name = n /\ r.handle = 0 /\ r.runtime = 0 /\ r.served = 0
  BY Zenon, <1>1 DEF ACall
<1> HIDE DEF r
<1>4. DOMAIN call' = DOMAIN call /\ call'[k] = r /\ \A j \in DOMAIN call : j # k => call'[j] = call[j]
  BY Zenon, <1>2
<1>5. r.pc \notin {"begin", "entered"}
  BY <1>3
<1>6. Answers(call') = Answers(call) \cup {k} /\ k \notin Answers(call)
  BY Zenon, <1>4, <1>5 DEF Answers
<1>7. PICK x \in Nat, y \in Nat : x = Cardinality(Answers(call)) /\ y = Cardinality(Answers(call'))
  BY Zenon, <1>1, AnswersAre
<1>8. y = x + 1 /\ y <= Len(call') /\ Len(call') \in Nat
  BY Zenon, <1>1, <1>6, <1>7, AnswersAre, FS_AddElement
<1>9. Len(call') = Len(call) /\ Len(call) <= MaxCalls
  BY Zenon, <1>1, <1>4, SameLength DEF CallsBounded
<1>10. m <= x /\ b <= m + 1 /\ b \in Nat
  BY Zenon, <1>0, <1>7
<1>11. b <= y /\ b <= MaxCalls
  BY <1>8, <1>9, <1>10, CallsAssumption
<1>12. n \in 0..MaxCalls /\ 0 \in 0..MaxInits
  BY <1>11, CallsAssumption, InitsAssumption
<1>13. Bounded(r)
  BY Zenon, <1>3, <1>5, <1>12 DEF Bounded
<1>14. \A j \in DOMAIN call' : Bounded(call'[j])
  BY Zenon, <1>4, <1>13 DEF CallsBounded
<1> QED
  BY Zenon, <1>7, <1>9, <1>11, <1>14 DEF CallsBounded

LEMMA CallsBoundedDispatch ==
    ASSUME HostInv, HostInv', CallsBounded, NEW k \in DOMAIN call, Dispatch(k)
    PROVE  CallsBounded'
<1>1. PICK m \in Nat : m <= Cardinality(Answers(call)) /\ {v.name : v \in issued} = 1..m
  BY Zenon DEF CallsBounded
<1>2. issued' = issued /\ call[k].pc = "begin" /\ issued \subseteq [name : Nat, db : DBs, runtime : Inits]
  BY Zenon DEF Dispatch, CallsBounded
<1>3. ASSUME NEW a \in Answer, call' = Answered(k, a, 0) PROVE CallsBounded'
  <2>1. m <= m + 1 /\ 0 \in 0..m
    OBVIOUS
  <2>2. {v.name : v \in issued'} = 1..m
    BY Zenon, <1>1, <1>2
  <2>3. Answering(k, a, 0, m)
    BY Zenon, <1>1, <1>2, <1>3, <2>1, <2>2 DEF Answering
  <2> QED
    BY Zenon, <2>3, CallsBoundedAnswer
<1>4. CASE Registered(call[k].handle) /\ call' = [call EXCEPT ![k].pc = "entered", ![k].served = runtimes[call[k].handle]]
  <2>1. call \in Seq(ACall) /\ call' \in Seq(ACall) /\ call[k] \in ACall
    BY Zenon, CallType DEF HostInv, HostTypes
  <2> DEFINE r == [call[k] EXCEPT !.pc = "entered", !.served = runtimes[call[k].handle]]
  <2>2. call' = [call EXCEPT ![k] = r]
    BY Zenon, <1>4
  <2>3. /\ r.pc = "entered" /\ r.handle = call[k].handle /\ r.runtime = call[k].runtime
        /\ r.name = call[k].name
    BY Zenon, <2>1 DEF ACall
  <2> HIDE DEF r
  <2>4. DOMAIN call' = DOMAIN call /\ call'[k] = r /\ \A j \in DOMAIN call : j # k => call'[j] = call[j]
    BY Zenon, <2>2
  <2>5. r.served = r.runtime
    BY Zenon, <2>3, <2>4 DEF HostInv, Handed
  <2>6. Bounded(call[k])
    BY Zenon DEF CallsBounded
  <2>7. Bounded(r)
    BY Zenon, <1>2, <2>3, <2>5, <2>6 DEF Bounded
  <2>8. \A j \in DOMAIN call' : Bounded(call'[j])
    BY Zenon, <2>4, <2>7 DEF CallsBounded
  <2>9. Answers(call) \subseteq Answers(call')
    BY Zenon, <1>2, <2>4 DEF Answers
  <2>10. m <= Cardinality(Answers(call'))
    BY Zenon, <1>1, <2>1, <2>9, AtMostAnswers
  <2>11. Len(call') <= MaxCalls
    BY Zenon, <2>1, <2>4, SameLength DEF CallsBounded
  <2> QED
    BY Zenon, <1>1, <1>2, <2>8, <2>10, <2>11 DEF CallsBounded
<1> QED
  BY Zenon, <1>3, <1>4 DEF Dispatch

LEMMA OneMore ==
    \A m \in Nat : (1..m) \cup {m + 1} = 1..(m + 1)
OBVIOUS

LEMMA CallsBoundedReturn ==
    ASSUME HostInv, HostInv', CallsBounded, NEW k \in DOMAIN call, RuntimeReturns(k)
    PROVE  CallsBounded'
<1>1. PICK m \in Nat : m <= Cardinality(Answers(call)) /\ {v.name : v \in issued} = 1..m
  BY Zenon DEF CallsBounded
<1>2. call[k].pc = "entered" /\ issued \subseteq [name : Nat, db : DBs, runtime : Inits]
  BY Zenon DEF RuntimeReturns, CallsBounded
<1>3. m <= m + 1 /\ 0 \in 0..m /\ m + 1 \in Nat /\ m + 1 <= m + 1 /\ m + 1 \in 0..(m + 1)
  OBVIOUS
<1>4. ASSUME NEW a \in Answer, call' = Answered(k, a, 0), UNCHANGED issued PROVE CallsBounded'
  <2>1. {v.name : v \in issued'} = 1..m
    BY Zenon, <1>1, <1>4
  <2>2. Answering(k, a, 0, m)
    BY Zenon, <1>1, <1>2, <1>3, <1>4, <2>1 DEF Answering
  <2> QED
    BY Zenon, <2>2, CallsBoundedAnswer
<1>5. ASSUME call[k].dsn # None, NEW v \in ReadDSN(call[k].served, call[k].dsn),
             issued' = issued \cup {v}, call' = Answered(k, "envelope", v.name)
      PROVE  CallsBounded'
  <2>1. CASE v \in issued
    <3>1. issued' = issued /\ v.name \in 1..m
      BY Zenon, <1>1, <1>5, <2>1
    <3>2. v.name \in 0..m
      BY <3>1
    <3>3. {w.name : w \in issued'} = 1..m
      BY Zenon, <1>1, <3>1
    <3>4. Answering(k, "envelope", v.name, m)
      BY Zenon, <1>1, <1>2, <1>3, <1>5, <3>1, <3>2, <3>3 DEF Answering
    <3> QED
      BY Zenon, <3>4, CallsBoundedAnswer
  <2>2. CASE v = [name |-> NextName(call[k].served), db |-> call[k].dsn, runtime |-> call[k].served]
    <3>1. NextName(call[k].served) = m + 1
      BY Zenon, <1>1, IntervalIs DEF NextName
    <3>2. call[k] \in ACall
      BY Zenon, CallType DEF HostInv
    <3>3. call[k].dsn \in DBs
      BY Zenon, <1>5, <3>2 DEF ACall
    <3>4. call[k].served = call[k].runtime
      BY Zenon, <1>2 DEF HostInv, Handed
    <3>5. call[k].served \in Inits
      BY Zenon, <1>2, <3>4 DEF CallsBounded, Bounded
    <3>6. v \in [name : Nat, db : DBs, runtime : Inits] /\ v.name = m + 1
      BY Zenon, <1>3, <2>2, <3>1, <3>3, <3>5
    <3>7. issued' \subseteq [name : Nat, db : DBs, runtime : Inits]
      BY Zenon, <1>2, <1>5, <3>6
    <3>8. {w.name : w \in issued'} = {w.name : w \in issued} \cup {m + 1}
      BY Zenon, <1>5, <3>6
    <3>9. {w.name : w \in issued'} = 1..(m + 1)
      BY Zenon, <1>1, <3>8, OneMore
    <3>10. Answering(k, "envelope", v.name, m + 1)
      BY Zenon, <1>1, <1>2, <1>3, <1>5, <3>6, <3>7, <3>9 DEF Answering
    <3> QED
      BY Zenon, <3>10, CallsBoundedAnswer
  <2> QED
    BY Zenon, <1>5, <2>1, <2>2 DEF ReadDSN
<1> QED
  BY Zenon, <1>4, <1>5 DEF RuntimeReturns

LEMMA CallsBoundedStep ==
    ASSUME HostInv, HostInv', InitsUnderWay, InitsCounted, CallsBounded, [Next]_vars
    PROVE  CallsBounded'
<1>1. ASSUME UNCHANGED <<call, issued>> PROVE CallsBounded'
  BY Zenon, <1>1, CallsBoundedGo DEF Goes
<1>2. ASSUME NEW e \in Envs, EnvStep(e) PROVE CallsBounded'
  <2>1. CASE TearDown(e)
    <3>1. issued' = issued
      BY Zenon, <2>1 DEF TearDown
    <3> QED
      BY Zenon, <2>1, <3>1, AllGo, CallsBoundedGo
  <2>2. CASE StartCall(e)
    BY Zenon, <2>2, CallsBoundedStart
  <2>3. CASE \/ Load(e) \/ InitBegins(e) \/ InitSucceeds(e) \/ InitFails(e) \/ InitThrows(e)
             \/ CloseBegins(e) \/ CloseReturns(e)
    BY Zenon, <1>1, <2>3
      DEF Load, InitBegins, InitSucceeds, InitFails, InitThrows, CloseBegins, CloseReturns
  <2> QED
    BY Zenon, <1>2, <2>1, <2>2, <2>3 DEF EnvStep
<1>3. ASSUME NEW k \in DOMAIN call, HostCall(k) PROVE CallsBounded'
  <2>1. CASE Dispatch(k) \/ RuntimeReturns(k)
    BY Zenon, <2>1, CallsBoundedDispatch, CallsBoundedReturn
  <2>2. CASE HandOver(k) \/ HandOverFails(k) \/ Deliver(k) \/ Destroy(k)
    <3>1. issued' = issued
      BY Zenon, <2>2 DEF HandOver, HandOverFails, Deliver, Destroy
    <3> QED
      BY Zenon, <2>2, <3>1, OneGoes, CallsBoundedGo
  <2>3. CASE Release(k)
    <3>1. issued' = issued
      BY Zenon, <2>3 DEF Release
    <3> QED
      BY Zenon, <2>3, <3>1, AllGo, CallsBoundedGo
  <2> QED
    BY Zenon, <1>3, <2>1, <2>2, <2>3 DEF HostCall, ThreadStep, LoopStep
<1>4. ASSUME NEW e \in Envs, HostExtension(e) PROVE CallsBounded'
  BY Zenon, <1>1, <1>4 DEF HostExtension, addonVars
<1>5. CASE UNCHANGED vars
  BY Zenon, <1>1, <1>5 DEF vars, addonVars
<1> QED
  BY Zenon, <1>2, <1>3, <1>4, <1>5 DEF Next, HostAddon

-----------------------------------------------------------------------------
\* The tables of the C ABI, the symbols and the clients.
TablesBounded ==
    /\ library \in {"complete", "lacking"} /\ symbols \in {"unset", "complete", "lacking"}
    /\ initErr \in 0..(MaxInits + 1) /\ misread \in BOOLEAN
    /\ \A h \in DOMAIN runtimes : runtimes[h] \in Inits
    /\ \A e \in Envs : client[e].during \subseteq Inits
    /\ \A c \in Cells : heap[c].call \in 0..MaxCalls

LEMMA BegunBounded ==
    ASSUME InitsCounted
    PROVE  \A e \in Envs : js[e] \in {"init", "init failed"} =>
               client[e].runtime \in Inits /\ client[e].runtime \in 0..(MaxInits + 1)
<1>1. inits \in 0..MaxInits
  BY Zenon DEF InitsCounted
<1>2. \A i \in 1..inits : i \in Inits /\ i \in 0..(MaxInits + 1)
  BY <1>1, InitsAssumption DEF Inits
<1> QED
  BY Zenon, <1>2 DEF InitsCounted

LEMMA TablesBoundedEnv ==
    ASSUME HostInv, InitsCounted, TablesBounded, NEW e \in Envs, EnvStep(e)
    PROVE  TablesBounded'
<1>0. client \in [Envs -> AClient] /\ heap \in [Cells -> [call : Nat, live : BOOLEAN]]
  BY Zenon DEF HostInv, HostTypes
<1>1. library' = library /\ misread' = misread /\ symbols' \in {"unset", "complete", "lacking"}
  <2>1. library' = library /\ misread' = misread /\ (symbols' = symbols \/ symbols' = library)
    BY Zenon
      DEF EnvStep, Load, InitBegins, InitSucceeds, InitFails, InitThrows, CloseBegins, CloseReturns,
       StartCall, TearDown
  <2> QED
    BY Zenon, <2>1 DEF TablesBounded
<1>2. initErr' \in 0..(MaxInits + 1)
  <2>1. NoMessage \in 0..(MaxInits + 1) /\ Undecided \in 0..(MaxInits + 1)
    BY InitsAssumption DEF NoMessage, Undecided
  <2>2. CASE InitBegins(e) \/ InitSucceeds(e)
    BY Zenon, <2>1, <2>2
      DEF InitBegins, InitSucceeds, EnterInit, RegisterRuntime, SetInitError
  <2>3. CASE InitFails(e)
    BY Zenon, <2>3, BegunBounded DEF InitFails, RefuseInit, SetInitError
  <2>4. CASE \/ Load(e) \/ InitThrows(e) \/ CloseBegins(e) \/ CloseReturns(e) \/ StartCall(e) \/ TearDown(e)
    BY Zenon, <2>4
      DEF Load, InitThrows, CloseBegins, CloseReturns, StartCall, TearDown, RemoveRuntime,
       handleVars, TablesBounded
  <2> QED
    BY Zenon, <2>2, <2>3, <2>4 DEF EnvStep
<1>3. \A h \in DOMAIN runtimes' : runtimes'[h] \in Inits
  <2>1. CASE InitSucceeds(e)
    <3>1. client[e].runtime \in Inits
      BY Zenon, <2>1, BegunBounded DEF InitSucceeds
    <3> QED
      BY Zenon, <2>1, <3>1 DEF InitSucceeds, RegisterRuntime, TablesBounded
  <2>2. CASE CloseBegins(e)
    BY Zenon, <2>2 DEF CloseBegins, RemoveRuntime, Restrict, TablesBounded
  <2>3. CASE \/ Load(e) \/ InitBegins(e) \/ InitFails(e) \/ InitThrows(e) \/ CloseReturns(e)
             \/ StartCall(e) \/ TearDown(e)
    <3>1. runtimes' = runtimes
      BY Zenon, <2>3
        DEF Load, InitBegins, InitFails, InitThrows, CloseReturns, StartCall, TearDown, EnterInit,
         RefuseInit, handleVars
    <3> QED
      BY Zenon, <3>1 DEF TablesBounded
  <2> QED
    BY Zenon, <2>1, <2>2, <2>3 DEF EnvStep
<1>4. \A f \in Envs : client'[f].during \subseteq Inits
  <2>1. NoClient.during = {}
    BY DEF NoClient
  <2>2. ASSUME NEW S \in SUBSET Inits, NEW r, r.during = S, client' = [client EXCEPT ![e] = r]
        PROVE  \A f \in Envs : client'[f].during \subseteq Inits
    BY Zenon, <1>0, <2>2 DEF TablesBounded
  <2>3. CASE InitBegins(e)
    <3> DEFINE S == {client[f].runtime : f \in {g \in Envs : js[g] \in {"init", "init failed"}}}
               r == [handle |-> 0, runtime |-> inits + 1, during |-> S]
    <3>1. S \in SUBSET Inits
      BY Zenon, BegunBounded
    <3>2. client' = [client EXCEPT ![e] = r] /\ r.during = S
      BY Zenon, <2>3 DEF InitBegins
    <3> HIDE DEF S, r
    <3> QED
      BY Zenon, <2>2, <3>1, <3>2
  <2>4. CASE InitSucceeds(e)
    <3> DEFINE r == [client[e] EXCEPT !.handle = nextHandle, !.during = {}]
    <3>1. client' = [client EXCEPT ![e] = r]
      BY Zenon, <2>4 DEF InitSucceeds
    <3>2. r.during = {}
      BY Zenon, <1>0 DEF AClient
    <3> HIDE DEF r
    <3> QED
      BY Zenon, <2>2, <3>1, <3>2
  <2>5. CASE InitThrows(e) \/ TearDown(e)
    BY Zenon, <2>1, <2>2, <2>5 DEF InitThrows, TearDown
  <2>6. CASE Load(e) \/ InitFails(e) \/ CloseBegins(e) \/ CloseReturns(e) \/ StartCall(e)
    BY Zenon, <2>6
      DEF Load, InitFails, CloseBegins, CloseReturns, StartCall, TablesBounded
  <2> QED
    BY Zenon, <2>3, <2>4, <2>5, <2>6 DEF EnvStep
<1>5. \A c \in Cells : heap'[c].call \in 0..MaxCalls
  <2>1. CASE StartCall(e)
    <3>1. PICK c \in Cells : heap' = [heap EXCEPT ![c] = [call |-> Len(call) + 1, live |-> TRUE]]
      BY Zenon, <2>1 DEF StartCall
    <3>2. Len(call) < MaxCalls /\ Len(call) \in Nat
      BY Zenon, <2>1, LenProperties DEF StartCall, HostInv, HostTypes
    <3>3. Len(call) + 1 \in 0..MaxCalls
      BY <3>2, CallsAssumption
    <3> QED
      BY Zenon, <1>0, <3>1, <3>3 DEF TablesBounded
  <2>2. CASE TearDown(e)
    <3>1. \A c \in Cells : heap'[c] = heap[c] \/ heap'[c] = [heap[c] EXCEPT !.live = FALSE]
      BY Zenon, <2>2 DEF TearDown
    <3>2. \A c \in Cells : heap[c] \in [call : Nat, live : BOOLEAN]
      BY Zenon, <1>0
    <3>3. \A c \in Cells : heap'[c].call = heap[c].call
      BY Zenon, <3>1, <3>2
    <3> QED
      BY Zenon, <3>3 DEF TablesBounded
  <2>3. CASE \/ Load(e) \/ InitBegins(e) \/ InitSucceeds(e) \/ InitFails(e) \/ InitThrows(e)
             \/ CloseBegins(e) \/ CloseReturns(e)
    BY Zenon, <2>3
      DEF Load, InitBegins, InitSucceeds, InitFails, InitThrows, CloseBegins, CloseReturns,
       TablesBounded
  <2> QED
    BY Zenon, <2>1, <2>2, <2>3 DEF EnvStep
<1> QED
  BY Zenon, <1>1, <1>2, <1>3, <1>4, <1>5 DEF TablesBounded

LEMMA TablesBoundedCall ==
    ASSUME HostInv, TablesBounded, NEW k \in DOMAIN call, HostCall(k)
    PROVE  TablesBounded'
<1>1. UNCHANGED <<runtimes, initErr, library, symbols, client>>
  BY Zenon
    DEF HostCall, ThreadStep, LoopStep, Dispatch, RuntimeReturns, HandOver, HandOverFails, Release,
     Deliver, Destroy, handleVars
<1>2. misread' = misread \/ misread' \in BOOLEAN
  BY Zenon
    DEF HostCall, ThreadStep, LoopStep, Dispatch, RuntimeReturns, HandOver, HandOverFails, Release,
     Deliver, Destroy
<1>3. heap' = heap \/ heap' = [heap EXCEPT ![call[k].cell].live = FALSE]
  BY Zenon
    DEF HostCall, ThreadStep, LoopStep, Dispatch, RuntimeReturns, HandOver, HandOverFails, Release,
     Deliver, Destroy, Free
<1>4. heap \in [Cells -> [call : Nat, live : BOOLEAN]]
  BY Zenon DEF HostInv, HostTypes
<1>5. \A c \in Cells : heap'[c].call = heap[c].call
  <2>1. \A c \in Cells : heap'[c] = heap[c] \/ heap'[c] = [heap[c] EXCEPT !.live = FALSE]
    BY Zenon, <1>3, <1>4
  <2>2. \A c \in Cells : heap[c] \in [call : Nat, live : BOOLEAN]
    BY Zenon, <1>4
  <2> QED
    BY Zenon, <2>1, <2>2
<1> QED
  BY Zenon, <1>1, <1>2, <1>5 DEF TablesBounded

LEMMA TablesBoundedStep ==
    ASSUME HostInv, InitsCounted, TablesBounded, [Next]_vars
    PROVE  TablesBounded'
<1>1. ASSUME UNCHANGED <<runtimes, initErr, library, symbols, client, heap, misread>> PROVE TablesBounded'
  BY Zenon, <1>1 DEF TablesBounded
<1> QED
  BY Zenon, <1>1, TablesBoundedEnv, TablesBoundedCall
     DEF Next, HostAddon, HostExtension, vars, handleVars, addonVars

\* The extension: at most one thread is inside WalrusdVFSAttach.
ExtensionTypes ==
    /\ scratch \subseteq Envs /\ permanent \in BOOLEAN /\ attached \subseteq Nat
    /\ attaching = {} \/ \E t \in Envs, n \in Nat : attaching = {<<t, n>>}

LEMMA ExtensionTypesStep ==
    ASSUME HostInv, Names, ExtensionTypes, [Next]_vars
    PROVE  ExtensionTypes'
<1>1. ASSUME UNCHANGED <<permanent, attached, attaching>>, scratch' \subseteq scratch
      PROVE  ExtensionTypes'
  BY Zenon, <1>1 DEF ExtensionTypes
<1>2. ASSUME NEW e \in Envs, HostExtension(e) PROVE ExtensionTypes'
  <2>1. CASE Extension!ExtensionInit(e)
    BY Zenon, <2>1 DEF Extension!ExtensionInit, ExtensionTypes
  <2>2. CASE Extension!ScratchClose(e)
    BY Zenon, <1>1, <2>2 DEF Extension!ScratchClose
  <2>3. ASSUME NEW v \in dsns, Extension!AttachBegins(e, v.name, v.db) PROVE ExtensionTypes'
    <3>1. v.name \in Nat
      BY Zenon DEF Names, HostInv, HostTypes
    <3>2. attaching' = {<<e, v.name>>} /\ UNCHANGED <<scratch, permanent, attached>>
      BY Zenon, <2>3 DEF Extension!AttachBegins
    <3> QED
      BY Zenon, <3>1, <3>2 DEF ExtensionTypes
  <2>4. CASE Extension!AttachEnds(e)
    <3>1. PICK n \in {a[2] : a \in {b \in attaching : b[1] = e}} : attached' = attached \cup {n}
      BY Zenon, <2>4 DEF Extension!AttachEnds
    <3>2. attaching' = {} /\ UNCHANGED <<scratch, permanent>>
      BY Zenon, <2>4 DEF Extension!AttachEnds
    <3>3. PICK t \in Envs, m \in Nat : attaching = {<<t, m>>}
      BY Zenon, <3>1 DEF ExtensionTypes
    <3>4. n = m
      BY <3>1, <3>3
    <3> QED
      BY Zenon, <3>1, <3>2, <3>3, <3>4 DEF ExtensionTypes
  <2>5. CASE Extension!AttachFails(e)
    BY Zenon, <2>5 DEF Extension!AttachFails, ExtensionTypes
  <2> QED
    BY Zenon, <1>2, <2>1, <2>2, <2>3, <2>4, <2>5 DEF HostExtension
<1>3. ASSUME NEW e \in Envs, HostAddon(e) PROVE ExtensionTypes'
  BY Zenon, <1>1, <1>3 DEF HostAddon
<1>4. ASSUME NEW k \in DOMAIN call, HostCall(k) PROVE ExtensionTypes'
  BY Zenon, <1>1, <1>4 DEF HostCall, attachVars
<1>5. CASE UNCHANGED vars
  BY Zenon, <1>1, <1>5 DEF vars, attachVars
<1> QED
  BY Zenon, <1>2, <1>3, <1>4, <1>5 DEF Next

-----------------------------------------------------------------------------
HostBounds == InitsCounted /\ CallsBounded /\ TablesBounded /\ ExtensionTypes

LEMMA HostBoundsInit ==
    Init => HostBounds
<1> SUFFICES ASSUME Init PROVE HostBounds
  BY Zenon
<1>0. HostInv
  BY Zenon, HostInitInv
<1> USE DEF Init, AddonInit, HandlesInit, Extension!AttachInit
<1>1. InitsCounted
  <2>1. inits \in 0..MaxInits
    BY InitsAssumption
  <2>2. \A e \in Envs : js[e] \notin {"init", "init failed"} /\ js[e] # "init"
    BY DEF HandlesInit
  <2>3. Cardinality(Over) \in Nat
    BY Zenon, <1>0, OverIs DEF HostInv
  <2>4. nextHandle <= Cardinality(Over) + 1
    BY <2>3
  <2> QED
    BY Zenon, <2>1, <2>2, <2>4 DEF InitsCounted
<1>2. CallsBounded
  <2>1. \A s : s = <<>> => DOMAIN s = {} /\ Len(s) = 0
    OBVIOUS
  <2>2. DOMAIN call = {} /\ Len(call) = 0
    BY Zenon, <2>1
  <2>3. Len(call) <= MaxCalls
    BY <2>2, CallsAssumption
  <2>4. {v.name : v \in issued} = 1..0
    OBVIOUS
  <2>5. Cardinality(Answers(call)) \in Nat
    BY Zenon, <1>0, AnswersAre DEF HostInv, HostTypes
  <2>6. 0 <= Cardinality(Answers(call))
    BY <2>5
  <2> QED
    BY Zenon, <2>2, <2>3, <2>4, <2>6 DEF CallsBounded
<1>3. TablesBounded
  <2>1. \A s : s = <<>> => DOMAIN s = {}
    OBVIOUS
  <2>2. DOMAIN runtimes = {}
    BY Zenon, <2>1
  <2>3. initErr \in 0..(MaxInits + 1) /\ 0 \in 0..MaxCalls
    BY InitsAssumption, CallsAssumption DEF NoMessage
  <2>4. \A e \in Envs : client[e].during = {}
    BY Zenon DEF NoClient
  <2>5. \A c \in Cells : heap[c].call = 0
    BY Zenon
  <2> QED
    BY Zenon, <2>2, <2>3, <2>4, <2>5 DEF TablesBounded
<1>4. ExtensionTypes
  BY Zenon DEF ExtensionTypes
<1> QED
  BY Zenon, <1>1, <1>2, <1>3, <1>4 DEF HostBounds

LEMMA HostBoundsStep ==
    HostInv /\ HostInv' /\ Names /\ InitsUnderWay /\ HostBounds /\ [Next]_vars => HostBounds'
BY Zenon, InitsCountedStep, CallsBoundedStep, TablesBoundedStep, ExtensionTypesStep
  DEF HostBounds

LEMMA HostTyped ==
    HostInv /\ Names /\ InitsUnderWay /\ HostBounds => HostTypeOK
<1> SUFFICES ASSUME HostInv, Names, InitsUnderWay, HostBounds PROVE HostTypeOK
  BY Zenon
<1> USE DEF HostBounds
<1>1. HandlesTypeOK
  <2>2. DOMAIN runtimes \subseteq 1..MaxInits /\ nextHandle \in 1..MaxInits + 1
    BY Zenon, HandlesBounded
  <2>3. Range(runtimes) \subseteq Inits
    BY Zenon DEF Range, TablesBounded
  <2> QED
    BY Zenon, <2>2, <2>3 DEF HandlesTypeOK, InitsCounted, TablesBounded
<1>2. client \in [Envs -> Client]
  <2>1. client \in [Envs -> AClient] /\ inits \in 0..MaxInits
    BY Zenon DEF HostInv, HostTypes, InitsCounted
  <2>2. ASSUME NEW e \in Envs PROVE client[e] \in Client
    <3>1. client[e] \in AClient /\ client[e].handle \in 0..MaxInits /\ client[e].during \subseteq Inits
      BY Zenon, <2>1, HandlesBounded DEF TablesBounded
    <3>2. client[e].runtime \in Nat /\ client[e].runtime <= inits
      BY Zenon, <3>1 DEF AClient, InitsUnderWay
    <3>3. client[e].runtime \in 0..MaxInits
      BY <2>1, <3>2, InitsAssumption
    <3>4. client[e] = [handle |-> client[e].handle, runtime |-> client[e].runtime, during |-> client[e].during]
      BY Zenon, <3>1 DEF AClient
    <3> QED
      BY Zenon, <3>1, <3>3, <3>4 DEF Client
  <2> QED
    BY Zenon, <2>1, <2>2
<1>3. call \in Seq(Call)
  <2>1. call \in Seq(ACall)
    BY Zenon DEF HostInv, HostTypes
  <2>2. Len(call) \in Nat /\ DOMAIN call = 1..Len(call)
    BY <2>1, LenProperties
  <2>3. ASSUME NEW k \in DOMAIN call PROVE call[k] \in Call
    <3>1. call[k] \in ACall /\ Bounded(call[k])
      BY Zenon, CallType DEF HostInv, CallsBounded
    <3>2. PICK c : c = call[k]
      BY Zenon
    <3>3. c \in ACall /\ c.handle \in 0..MaxInits /\ c.runtime \in 0..MaxInits
          /\ c.served \in 0..MaxInits /\ c.name \in 0..MaxCalls
      BY Zenon, <3>1, <3>2 DEF Bounded
    <3>4. c \in Call
      BY <3>3 DEF ACall, Call
    <3> QED
      BY Zenon, <3>2, <3>4
  <2> QED
    BY <2>1, <2>2, <2>3
<1>4. heap \in [Cells -> Cell]
  <2>1. heap \in [Cells -> [call : Nat, live : BOOLEAN]]
    BY Zenon DEF HostInv, HostTypes
  <2>2. ASSUME NEW c \in Cells PROVE heap[c] \in Cell
    <3>1. heap[c] \in [call : Nat, live : BOOLEAN] /\ heap[c].call \in 0..MaxCalls
      BY Zenon, <2>1 DEF TablesBounded
    <3> QED
      BY Zenon, <3>1 DEF Cell
  <2> QED
    BY Zenon, <2>1, <2>2
<1>5. issued \subseteq DSN
  <2>1. PICK m \in Nat : m <= Cardinality(Answers(call)) /\ {v.name : v \in issued} = 1..m
    BY Zenon DEF CallsBounded
  <2>2. PICK x \in Nat, n \in Nat : x = Cardinality(Answers(call)) /\ n = Len(call) /\ x <= n /\ n <= MaxCalls
    BY Zenon, AnswersAre DEF HostInv, HostTypes, CallsBounded
  <2>3. m <= x
    BY Zenon, <2>1, <2>2
  <2>4. \A i \in 1..m : i \in 1..MaxCalls
    BY <2>2, <2>3, CallsAssumption
  <2>5. ASSUME NEW v \in issued PROVE v \in DSN
    <3>1. v.name \in 1..MaxCalls
      BY Zenon, <2>1, <2>4
    <3>2. v \in [name : Nat, db : DBs, runtime : Inits]
      BY Zenon DEF CallsBounded
    <3> QED
      BY Zenon, <3>1, <3>2 DEF DSN
  <2> QED
    BY Zenon, <2>5
<1>6. Extension!AttachTypeOK
  <2>1. \A v \in issued : v.name \in Nat /\ v.db \in DBs
    BY Zenon DEF CallsBounded
  <2>2. DOMAIN vfsMap \subseteq Nat /\ \A n \in DOMAIN vfsMap : vfsMap[n] \in DBs
    BY Zenon, <2>1 DEF Names
  <2>3. attaching \subseteq Envs \X Nat /\ Cardinality(attaching) <= 1
    <3>1. CASE attaching = {}
      <4>1. Cardinality(attaching) = 0
        BY Zenon, <3>1, FS_EmptySet
      <4> QED
        BY <3>1, <4>1
    <3>2. ASSUME NEW t \in Envs, NEW n \in Nat, attaching = {<<t, n>>}
          PROVE  attaching \subseteq Envs \X Nat /\ Cardinality(attaching) <= 1
      <4>1. Cardinality(attaching) = 1
        BY Zenon, <3>2, FS_Singleton
      <4> QED
        BY <3>2, <4>1
    <3> QED
      BY Zenon, <3>1, <3>2 DEF ExtensionTypes
  <2>4. Extension!Range(vfsMap) \subseteq DBs
    BY Zenon, <2>2 DEF Extension!Range
  <2>5. sqlite \subseteq Nat
    BY Zenon, <2>2 DEF Names
  <2>6. Extension!Cardinality(attaching) = Cardinality(attaching)
    BY Zenon DEF Extension!Cardinality, Cardinality
  <2> QED
    BY Zenon, <2>2, <2>3, <2>4, <2>5, <2>6 DEF Extension!AttachTypeOK, ExtensionTypes
<1> QED
  BY Zenon, <1>1, <1>2, <1>3, <1>4, <1>5, <1>6
     DEF HostTypeOK, AddonTypeOK, HostInv, HostTypes, CallsBounded, TablesBounded, Names

\* Whatever the bounds on inits and calls are, handles, runtimes, messages, cells
\* and VFS names stay within them: an init takes at most one handle and a call
\* issues at most one name, and one thread at a time is in WalrusdVFSAttach.
THEOREM HostTypesBounded == Spec => []HostTypeOK
<1>1. Init => InitsUnderWay
  BY DEF Init, AddonInit, HandlesInit, NoClient, InitsUnderWay, InitErrorRecent
<1>2. Spec => [](HostInv /\ Names /\ InitsUnderWay)
  BY <1>1, HostInitInv, HostInvariant, NamesStep, InitsStep, PTL DEF Spec
<1> QED
  BY <1>2, HostBoundsInit, HostBoundsStep, HostTyped, PTL DEF Spec
=============================================================================
