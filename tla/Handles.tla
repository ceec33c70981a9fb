------------------------------ MODULE Handles ------------------------------
(***************************************************************************)
(* The C ABI of a process (src/bindings/c): the table of runtimes that     *)
(* hosts name by handle, and the message of the last failed init.          *)
(*                                                                         *)
(* The table is guarded by handleMu and the message by initErrMu: each     *)
(* definition below is one critical section.  What a runtime does with a   *)
(* call is in Writer and Reads; here it ends in an answer.  A runtime is   *)
(* known by the number of the init that made it.                           *)
(***************************************************************************)
EXTENDS Naturals, FiniteSets, Functions

CONSTANTS
    MaxInits        \* bound: calls of walrusd_runtime_init in all

ASSUME InitsAssumption == MaxInits \in Nat

VARIABLES
    runtimes,       \* runtimes[h]: the runtime in the table under handle h
    nextHandle,
    inits,          \* calls of walrusd_runtime_init so far
    initErr         \* initErrMessage

handleVars == <<runtimes, nextHandle, inits, initErr>>

-----------------------------------------------------------------------------
Inits == 1..MaxInits

\* A message is the number of the init it is about, except these two.
NoMessage == 0                  \* ""
Undecided == MaxInits + 1       \* "invalid init request"

\* What a call comes back with: a JSON envelope, of a result or of an error (an
\* unknown handle is one), or NULL when malloc fails in cString.
Answer == {"envelope", "NULL"}

HandlesTypeOK ==
    /\ DOMAIN runtimes \subseteq 1..MaxInits
    /\ Range(runtimes) \subseteq Inits
    /\ nextHandle \in 1..MaxInits + 1
    /\ inits \in 0..MaxInits
    /\ initErr \in 0..MaxInits + 1

HandlesInit ==
    /\ runtimes = <<>> /\ nextHandle = 1
    /\ inits = 0 /\ initErr = NoMessage

\* Mutant: a message that is there is kept.
SetInitErrorOnce(m) == initErr' = IF initErr \in Inits THEN initErr ELSE m

SetInitError(m) == initErr' = m

\* walrusd_runtime_init up to the making of the store and the adapter.
EnterInit ==
    /\ inits < MaxInits
    /\ inits' = inits + 1
    /\ SetInitError(Undecided)
    /\ UNCHANGED <<runtimes, nextHandle>>

\* The request, the store or the adapter is refused, and 0 returned.
RefuseInit(i) ==
    /\ SetInitError(i)
    /\ UNCHANGED <<runtimes, nextHandle, inits>>

\* Mutant: the handle is the size of the table, so one is used again.
RegisterRuntimeBySize(i) ==
    LET h == Cardinality(DOMAIN runtimes) + 1 IN
    /\ runtimes' = [x \in DOMAIN runtimes \cup {h} |-> IF x = h THEN i ELSE runtimes[x]]
    /\ nextHandle' = h
    /\ SetInitError(NoMessage)
    /\ UNCHANGED inits

\* The rest of a walrusd_runtime_init that succeeds; the handle is nextHandle.
RegisterRuntime(i) ==
    /\ runtimes' = [x \in DOMAIN runtimes \cup {nextHandle} |->
                        IF x = nextHandle THEN i ELSE runtimes[x]]
    /\ nextHandle' = nextHandle + 1
    /\ SetInitError(NoMessage)
    /\ UNCHANGED inits

\* walrusd_runtime_close takes the entry out of the table, and closes the
\* runtime after handleMu was given up.
RemoveRuntime(h) ==
    /\ runtimes' = Restrict(runtimes, DOMAIN runtimes \ {h})
    /\ UNCHANGED <<nextHandle, inits, initErr>>

\* dispatch and walrusd_runtime_close answer with an error when it is not.
Registered(h) == h \in DOMAIN runtimes

=============================================================================
