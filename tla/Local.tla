------------------------------- MODULE Local -------------------------------
(***************************************************************************)
(* One process, one database: the write calls go through the acquisition   *)
(* queue (module Flight), open their session on the database's one write   *)
(* VFS (module Buffers) while they hold the lease, close it, and release   *)
(* or abandon the lease.  Read sessions share the temporary-file budget.   *)
(***************************************************************************)
EXTENDS Flight, Buffers

CONSTANT
    Scenes      \* bound: the sets of sessions that run together, with the
                \* limit of their budget

ASSUME WritersAreCallers == Writers = Callers
ASSUME ScenesAreOfSessions == Scenes \subseteq [cast : SUBSET Sessions, limit : Nat]

VARIABLES
    cast,       \* the sessions of this behaviour
    worked,     \* callers whose attempt has had its session
    outlived    \* a lease has run out on a local holder

scene == <<cast, limit>>
vars == <<flightVars, bufferVars, scene, worked, outlived>>

LocalTypeOK ==
    /\ FlightTypeOK
    /\ BuffersTypeOK
    /\ [cast |-> cast, limit |-> limit] \in Scenes
    /\ worked \subseteq Callers
    /\ outlived \in BOOLEAN

Init ==
    /\ FlightInit
    /\ BuffersInit
    /\ \E s \in Scenes : cast = s.cast /\ limit = s.limit
    /\ worked = {}
    /\ outlived = FALSE

\* withWriteAttempt between Acquire and the end of the attempt: the session
\* is opened, used and closed, and only then is the lease given up.
BeginSession(c) ==
    /\ pc[c] = "hold"
    /\ c \notin worked
    /\ Prepare(c)
    /\ worked' = worked \cup {c}
    /\ UNCHANGED <<flightVars, scene, outlived>>

SessionStep(s) ==
    /\ OpenMain(s) \/ OpenFails(s) \/ Work(s) \/ Close(s)
    /\ UNCHANGED <<flightVars, scene, worked, outlived>>

\* Mutant: the lease is released before the session is closed.
EndAttemptEarly(c) ==
    /\ c \in worked
    /\ \/ \E o \in {"ok", "retry", "final"} : Release(c, o)
       \/ Abandon(c)
    /\ worked' = worked \ {c}
    /\ UNCHANGED <<bufferVars, scene, outlived>>

EndAttempt(c) ==
    /\ c \in worked
    /\ at[c] = "none"
    /\ \/ \E o \in {"ok", "retry", "final"} : Release(c, o)
       \/ Abandon(c)
    /\ worked' = worked \ {c}
    /\ UNCHANGED <<bufferVars, scene, outlived>>

\* The manifest of the replica could not be read: no session at all.
NoSession(c) ==
    /\ c \notin worked
    /\ Release(c, "retry")
    /\ UNCHANGED <<bufferVars, scene, worked, outlived>>

CallerStep(c) ==
    /\ Call(c) \/ AcquireStep(c) \/ Deadline(c)
    /\ UNCHANGED <<bufferVars, scene, worked, outlived>>

World ==
    /\ Elsewhere
    /\ outlived' = (outlived \/ expired')
    /\ UNCHANGED <<bufferVars, scene, worked>>

Next ==
    \/ World
    \/ \E s \in cast : SessionStep(s)
    \/ \E c \in cast \cap Callers :
         CallerStep(c) \/ BeginSession(c) \/ EndAttempt(c) \/ NoSession(c)

Spec == Init /\ [][Next]_vars

\* What brings the call of c forward.
Progress(c) ==
    \/ AcquireStep(c) /\ UNCHANGED <<bufferVars, scene, worked, outlived>>
    \/ BeginSession(c)
    \/ /\ OpenMain(c) \/ OpenFails(c) \/ Close(c)
       /\ UNCHANGED <<flightVars, scene, worked, outlived>>
    \/ EndAttempt(c)

\* Every caller gets its turns (a Go mutex starves nobody for ever), a session
\* at work is closed at last (its callback returns), and time passes.
Fairness ==
    \A c \in Callers :
      /\ SF_vars(Progress(c))
      /\ WF_vars(Work(c) /\ UNCHANGED <<flightVars, scene, worked, outlived>>)
      /\ SF_vars(Deadline(c) /\ UNCHANGED <<bufferVars, scene, worked, outlived>>)

LiveSpec == Spec /\ Fairness

-----------------------------------------------------------------------------

\* An open session has its directory (runtime.go:831): no other session of
\* the wrapper removes it, unless a write session outlived its lease.
SessionHasBuffer ==
    \A s \in Sessions :
      at[s] \in Opened /\ home[s] # None =>
        \/ home[s] = bufferRoot[Wrapper(s)] /\ home[s] \in DOMAIN bytes
        \/ s \in Writers /\ outlived

\* When every session is closed the budget is whole again, and no directory
\* is left behind unless a write session outlived its lease (file.go:28).
NothingCharged ==
    (\A s \in Sessions : at[s] = "none") =>
        used = 0 /\ DOMAIN bytes = {} /\ (left => outlived)

\* Check and write are not one step (file.go:97): the directory of a wrapper
\* exceeds the limit by at most one write per session beyond its first.
TempBounded ==
  limit > 0 =>
    \A w \in Wrappers :
      BufferSize(w) <= limit + Cardinality({s \in cast : Wrapper(s) = w}) - 1

\* Every write call returns (runtime.go:523).
WritesReturn == \A c \in Callers : (pc[c] # "idle") ~> (pc[c] = "idle")
=============================================================================
