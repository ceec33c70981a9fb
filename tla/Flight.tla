------------------------------- MODULE Flight -------------------------------
(***************************************************************************)
(* The local acquisition queue of lease.Manager: how the write calls of    *)
(* ONE process share the attempts to take ONE lease.  The callers of a key *)
(* meet in a flight (a mutex, a wake-up channel, a reference count); the   *)
(* mutex holder polls the lease, woken early by a local Release.           *)
(*                                                                         *)
(* Module Lease has the lease protocol itself, with clocks and tokens.     *)
(* Here the record is only who holds it: a local caller, somebody else, or *)
(* nobody; "freed" when a local Release that was confirmed left it so.     *)
(***************************************************************************)
EXTENDS Naturals, FiniteSets

CONSTANTS
    Callers,    \* goroutines of this process in WithWrite, same database
    Flights,    \* identities of flight structs
    Nobody      \* no flight, no mutex holder

ASSUME CallersAssumption ==
    /\ IsFiniteSet(Callers)
    /\ Callers \cap {Nobody, "other", "free", "freed"} = {}
ASSUME FlightsAssumption == Flights # {} /\ Nobody \notin Flights

VARIABLES
    current,    \* m.flights[key]
    refs,       \* flight -> fl.refs
    mutex,      \* flight -> holder of fl.mu
    holder,     \* the lease record: a caller, "other", "free" or "freed"
    expired,    \* the holder is local and its lease has run out
    pc,         \* caller -> where it is
    fl,         \* caller -> the flight it uses
    woken,      \* callers whose captured channel has been closed
    fresh,      \* callers whose version read by Get is still the record's
    spent,      \* callers past the deadline of their whole call
    outcome     \* caller -> what its attempt has come to

flightVars == <<current, refs, mutex, holder, expired, pc, fl, woken, fresh,
                spent, outcome>>

\* Where a caller holds fl.mu.
Acquiring == {"capture", "get", "cas", "wait", "unlock"}

Users(f) == {c \in Callers : fl[c] = f}

FlightTypeOK ==
    /\ current \in Flights \cup {Nobody}
    /\ refs \in [Flights -> 0 .. Cardinality(Callers)]
    /\ mutex \in [Flights -> Callers \cup {Nobody}]
    /\ holder \in Callers \cup {"other", "free", "freed"}
    /\ expired \in BOOLEAN
    /\ pc \in [Callers -> Acquiring \cup
                 {"idle", "lock", "leave", "hold", "notify", "failed"}]
    /\ fl \in [Callers -> Flights \cup {Nobody}]
    /\ woken \subseteq Callers
    /\ fresh \subseteq Callers
    /\ spent \subseteq Callers
    /\ outcome \in [Callers -> {"none", "ok", "retry", "final"}]

FlightInit ==
    /\ current = Nobody
    /\ refs = [f \in Flights |-> 0]
    /\ mutex = [f \in Flights |-> Nobody]
    /\ holder = "free"
    /\ expired = FALSE
    /\ pc = [c \in Callers |-> "idle"]
    /\ fl = [c \in Callers |-> Nobody]
    /\ woken = {}
    /\ fresh = {}
    /\ spent = {}
    /\ outcome = [c \in Callers |-> "none"]

Go(c, there) == pc' = [pc EXCEPT ![c] = there]

\* The attempt of c is decided as o; c goes there.
Settle(c, o, there) ==
    /\ outcome' = [outcome EXCEPT ![c] = o]
    /\ Go(c, there)

\* The call of c returns.
Done(c) ==
    /\ Settle(c, "none", "idle")
    /\ spent' = spent \ {c}

\* Every write of the record makes the versions read before it stale.
Record(h) ==
    /\ holder' = h
    /\ expired' = FALSE
    /\ fresh' = {}

\* A new attempt context, and acquireSingleFlight up to flightMu.Unlock: join
\* the key's flight, or make one.  A flight nobody uses has been collected.
Join(c) ==
    LET f == IF current # Nobody THEN current
             ELSE CHOOSE g \in Flights : Users(g) = {}
    IN  /\ current' = f
        /\ refs' = [refs EXCEPT ![f] = IF current = f THEN @ + 1 ELSE 1]
        /\ fl' = [fl EXCEPT ![c] = f]
        /\ Settle(c, "none", "lock")
        /\ UNCHANGED <<mutex, holder, expired, woken, fresh, spent>>

\* A write call begins.
Call(c) ==
    /\ pc[c] = "idle"
    /\ Join(c)

\* The mutex is not bound to the context; the acquire budget starts here.
Lock(c) ==
    /\ pc[c] = "lock"
    /\ mutex[fl[c]] = Nobody
    /\ mutex' = [mutex EXCEPT ![fl[c]] = c]
    /\ Go(c, "capture")
    /\ UNCHANGED <<current, refs, holder, expired, fl, woken, fresh, spent, outcome>>

\* waitChannel, before the record is read.
Capture(c) ==
    /\ pc[c] = "capture"
    /\ woken' = woken \ {c}
    /\ Go(c, "get")
    /\ UNCHANGED <<current, refs, mutex, holder, expired, fl, fresh, spent, outcome>>

\* Mutant: the deadline is not looked at.
AgainForever(c) ==
    /\ Go(c, "wait")
    /\ UNCHANGED <<outcome, woken>>

\* Mutant: the channel is captured after the read.
AgainCapturing(c) ==
    /\ \/ Settle(c, "retry", "unlock") /\ UNCHANGED woken
       \/ /\ c \notin spent
          /\ Go(c, "wait") /\ UNCHANGED outcome
          /\ woken' = woken \ {c}

\* acquireLocked after errRetry: give up with Busy when AcquireRetryBudget or
\* the context is gone, else wait on the channel captured before the read.
\* The acquire budget and the attempt's context may be gone at any time, and
\* are when the deadline of the whole call has passed.
Again(c) ==
    /\ \/ Settle(c, "retry", "unlock")
       \/ c \notin spent /\ Go(c, "wait") /\ UNCHANGED outcome
    /\ UNCHANGED woken

Takeable == holder \in {"free", "freed"} \/ expired

\* The read of acquireOnce.  A failed read ends the attempt.
Get(c) ==
    /\ pc[c] = "get"
    /\ \/ /\ Takeable
          /\ fresh' = fresh \cup {c}
          /\ Go(c, "cas")
          /\ UNCHANGED <<outcome, woken>>
       \/ /\ ~Takeable
          /\ Again(c)
          /\ UNCHANGED fresh
       \/ /\ Settle(c, "retry", "unlock")
          /\ UNCHANGED <<fresh, woken>>
    /\ UNCHANGED <<current, refs, mutex, holder, expired, fl, spent>>

\* The conditional write of acquireOnce (create or replace): it lands, it
\* meets a newer version, or it fails, in which case it may have landed and
\* left a record that belongs to no caller.
Cas(c) ==
    /\ pc[c] = "cas"
    /\ \/ /\ c \in fresh
          /\ Record(c)
          /\ Settle(c, "ok", "unlock")
          /\ UNCHANGED woken
       \/ /\ c \notin fresh
          /\ Again(c)
          /\ UNCHANGED <<holder, expired, fresh>>
       \/ /\ Settle(c, "retry", "unlock")
          /\ \/ c \in fresh /\ Record("other")
             \/ holder' = holder /\ expired' = expired /\ fresh' = fresh \ {c}
          /\ UNCHANGED woken
    /\ UNCHANGED <<current, refs, mutex, fl, spent>>

\* The select of acquireLocked: the channel or the timer ends the wait, or
\* the context ends the call with its own error, which is not retried.
Wait(c) ==
    /\ pc[c] = "wait"
    /\ \/ c \in woken /\ Go(c, "capture") /\ UNCHANGED outcome
       \/ c \notin woken /\ Go(c, "capture") /\ UNCHANGED outcome
       \/ Settle(c, "final", "unlock")
    /\ UNCHANGED <<current, refs, mutex, holder, expired, fl, woken, fresh,
                   spent>>

Unlock(c) ==
    /\ pc[c] = "unlock"
    /\ mutex' = [mutex EXCEPT ![fl[c]] = Nobody]
    /\ Go(c, "leave")
    /\ woken' = woken \ {c}
    /\ UNCHANGED <<current, refs, holder, expired, fl, fresh, spent, outcome>>

\* Mutant: a caller that fails keeps its reference.
LeaveKeeping(c) ==
    /\ pc[c] = "leave"
    /\ refs' = [refs EXCEPT ![fl[c]] = IF outcome[c] = "ok" THEN @ - 1 ELSE @]
    /\ current' = IF refs'[fl[c]] <= 0 /\ current = fl[c] THEN Nobody
                  ELSE current
    /\ fl' = [fl EXCEPT ![c] = Nobody]
    /\ Go(c, IF outcome[c] = "ok" THEN "hold" ELSE "failed")
    /\ UNCHANGED <<mutex, holder, expired, woken, fresh, spent, outcome>>

\* Mutant: the flight is dropped by the first caller that leaves it.
LeaveDropping(c) ==
    /\ pc[c] = "leave"
    /\ refs' = [refs EXCEPT ![fl[c]] = @ - 1]
    /\ current' = IF current = fl[c] THEN Nobody ELSE current
    /\ fl' = [fl EXCEPT ![c] = Nobody]
    /\ Go(c, IF outcome[c] = "ok" THEN "hold" ELSE "failed")
    /\ UNCHANGED <<mutex, holder, expired, woken, fresh, spent, outcome>>

\* acquireSingleFlight after the mutex: the last user drops the flight.
Leave(c) ==
    /\ pc[c] = "leave"
    /\ refs' = [refs EXCEPT ![fl[c]] = @ - 1]
    /\ current' = IF refs'[fl[c]] <= 0 /\ current = fl[c] THEN Nobody
                  ELSE current
    /\ fl' = [fl EXCEPT ![c] = Nobody]
    /\ Go(c, IF outcome[c] = "ok" THEN "hold" ELSE "failed")
    /\ UNCHANGED <<mutex, holder, expired, woken, fresh, spent, outcome>>

\* The store half of Release.  A conflict and a confirmed write both go on to
\* wake the local waiters; a failed write, landed or not, does not.
Release(c, o) ==
    /\ pc[c] = "hold"
    /\ \/ /\ holder = c
          /\ Record("freed")
          /\ Settle(c, o, "notify")
       \/ /\ holder # c
          /\ Settle(c, "retry", "notify")
          /\ UNCHANGED <<holder, expired, fresh>>
       \/ /\ holder = c
          /\ \E h \in {"free", "other"} : Record(h)
          /\ Settle(c, "retry", "failed")
    /\ UNCHANGED <<current, refs, mutex, fl, woken, spent>>

\* Abandon: the record is left to expire.
Abandon(c) ==
    /\ pc[c] = "hold"
    /\ IF holder = c THEN Record("other") ELSE UNCHANGED <<holder, expired, fresh>>
    /\ Settle(c, "retry", "failed")
    /\ UNCHANGED <<current, refs, mutex, fl, woken, spent>>

\* notifyWaiters: close the channel of the key's flight and replace it.
Notify(c) ==
    /\ pc[c] = "notify"
    /\ woken' = IF current = Nobody THEN woken
                ELSE woken \cup {d \in Users(current) : pc[d] \in {"get", "cas", "wait"}}
    /\ IF outcome[c] = "ok"
       THEN Done(c)
       ELSE Go(c, "failed") /\ UNCHANGED <<spent, outcome>>
    /\ UNCHANGED <<current, refs, mutex, holder, expired, fl, fresh>>

\* WithWrite after a failed attempt: return the error, or back off and try
\* again with a new attempt context while the retry budget lasts.
Failed(c) ==
    /\ pc[c] = "failed"
    /\ \/ /\ outcome[c] = "final" \/ c \in spent
          /\ Done(c)
          /\ UNCHANGED <<current, refs, mutex, holder, expired, fl, woken,
                         fresh>>
       \/ /\ outcome[c] = "retry" /\ c \notin spent
          /\ Join(c)

AcquireStep(c) ==
    \/ Lock(c)
    \/ Capture(c)
    \/ Get(c)
    \/ Cas(c)
    \/ Wait(c)
    \/ Unlock(c)
    \/ Leave(c)
    \/ Notify(c)
    \/ Failed(c)

\* RetryPolicy.MaxTotal, or the caller's own deadline, is over.  It is looked
\* at only at these places.
Deadline(c) ==
    /\ pc[c] \in {"get", "cas", "wait", "failed"}
    /\ c \notin spent
    /\ spent' = spent \cup {c}
    /\ UNCHANGED <<current, refs, mutex, holder, expired, pc, fl, woken,
                   fresh, outcome>>

\* The lease of a local holder runs out, or a renewal that was late restores
\* it; another process takes a takeable record or its record becomes free.
Elsewhere ==
    /\ \/ holder \in Callers /\ ~expired /\ expired' = TRUE
          /\ UNCHANGED <<holder, fresh>>
       \/ holder \in Callers /\ expired /\ Record(holder)
       \/ Takeable /\ Record("other")
       \/ holder = "other" /\ Record("free")
    /\ UNCHANGED <<current, refs, mutex, pc, fl, woken, spent, outcome>>

FlightNext ==
    \/ Elsewhere
    \/ \E c \in Callers :
         \/ Call(c) \/ AcquireStep(c) \/ Deadline(c)
         \/ Abandon(c)
         \/ \E o \in {"ok", "retry", "final"} : Release(c, o)

FlightSpec == FlightInit /\ [][FlightNext]_flightVars

-----------------------------------------------------------------------------

\* At most one caller of the process polls the lease (lease.go:80, "serializes
\* acquisition for the same database ID inside one process").
SingleFlight ==
    \A c, d \in Callers : pc[c] \in Acquiring /\ pc[d] \in Acquiring => c = d

\* The flight in the map is the flight of every caller that still uses one,
\* and its reference count is their number (lease.go:215).
FlightCounted ==
    /\ \A c \in Callers : fl[c] \in {Nobody, current}
    /\ current # Nobody => /\ refs[current] = Cardinality(Users(current))
                           /\ refs[current] > 0

\* No wake-up is lost (lease.go:231): a caller that waits while a local
\* release has freed the lease has been woken, or its waker is on the way.
NoMissedWakeup ==
    \A c \in Callers :
      pc[c] = "wait" /\ holder = "freed" =>
        c \in woken \/ \E d \in Callers : pc[d] = "notify"
=============================================================================
