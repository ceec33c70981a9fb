---------------------------- MODULE LocalProofs -----------------------------
(***************************************************************************)
(* The acquisition queue is correct for any number of callers: at most one *)
(* of them polls the lease, the reference counts are exact, and no wake-up *)
(* is lost.  The invariant FlightInv is inductive for the queue alone      *)
(* (FlightSpec), and the composition of module Local implements that.      *)
(*                                                                         *)
(* The write buffers of a process are correct for any number of sessions:  *)
(* an open session keeps its directory, what is charged is given back, and *)
(* no directory grows past the budget by more than the writes that passed  *)
(* the check together.                                                     *)
(***************************************************************************)
EXTENDS Local, FiniteSetTheorems, TLAPS

FTypes ==
    /\ current \in Flights \cup {Nobody}
    /\ refs \in [Flights -> Int]
    /\ mutex \in [Flights -> Callers \cup {Nobody}]
    /\ holder \in Callers \cup {"other", "free", "freed"}
    /\ expired \in BOOLEAN
    /\ pc \in [Callers -> Acquiring \cup
                 {"idle", "lock", "leave", "hold", "notify", "failed"}]
    /\ fl \in [Callers -> Flights \cup {Nobody}]
    /\ woken \subseteq Callers
    /\ fresh \subseteq Callers
    /\ spent \subseteq Callers
    /\ outcome \in [Callers -> {"none", "ok", "retry", "final"}]

\* A caller is in the flight of the map from Join to Leave, and owns its mutex
\* from Lock to Unlock.
Queue ==
    \A c \in Callers :
      /\ fl[c] \in {Nobody, current}
      /\ pc[c] \in Acquiring \cup {"lock", "leave"} <=> fl[c] # Nobody
      /\ pc[c] \in Acquiring => mutex[fl[c]] = c

Counts ==
    /\ \A f \in Flights : refs[f] = Cardinality(Users(f))
    /\ current # Nobody => Users(current) # {}

\* The wake-up is on its way already when the caller that read the record
\* before the release has yet to find out that its version is stale.
Wakes ==
    \A c \in Callers :
      /\ holder = "freed"
      /\ pc[c] = "wait" \/ (pc[c] = "cas" /\ c \notin fresh)
      => c \in woken \/ \E d \in Callers : pc[d] = "notify"

FlightInv == FTypes /\ Queue /\ Counts /\ Wakes

-----------------------------------------------------------------------------
\* The users of a flight can be counted.
LEMMA UsersFinite ==
    ASSUME NEW f
    PROVE  IsFiniteSet(Users(f)) /\ Cardinality(Users(f)) \in Nat
                                 /\ Cardinality(Users(f)) <= Cardinality(Callers)
<1>1. Users(f) \subseteq Callers
  BY DEF Users
<1> QED
  BY <1>1, CallersAssumption, FS_Subset, FS_CardinalityType

\* What the invariant says in the words of the properties.
LEMMA FlightInvImplies ==
    FlightInv => FlightTypeOK /\ SingleFlight /\ FlightCounted /\ NoMissedWakeup
<1> SUFFICES ASSUME FlightInv
             PROVE  FlightTypeOK /\ SingleFlight /\ FlightCounted /\ NoMissedWakeup
  OBVIOUS
<1>1. FlightTypeOK
  <2>1. \A f \in Flights : refs[f] \in 0 .. Cardinality(Callers)
    BY UsersFinite, CallersAssumption, FS_CardinalityType DEF FlightInv, Counts
  <2> QED
    BY <2>1 DEF FlightInv, FTypes, FlightTypeOK
<1>2. SingleFlight
  BY DEF FlightInv, Queue, SingleFlight, Acquiring
<1>3. FlightCounted
  <2>1. ASSUME current # Nobody
        PROVE  refs[current] = Cardinality(Users(current)) /\ refs[current] > 0
    <3>1. current \in Flights /\ Users(current) # {}
      BY <2>1 DEF FlightInv, FTypes, Counts
    <3>2. Cardinality(Users(current)) # 0
      BY <3>1, UsersFinite, FS_EmptySet
    <3> QED
      BY <3>1, <3>2, UsersFinite DEF FlightInv, Counts
  <2> QED
    BY <2>1 DEF FlightInv, Queue, FlightCounted
<1>4. NoMissedWakeup
  BY DEF FlightInv, Wakes, NoMissedWakeup
<1> QED
  BY <1>1, <1>2, <1>3, <1>4

-----------------------------------------------------------------------------
LEMMA FlightInitInv == FlightInit => FlightInv
<1> SUFFICES ASSUME FlightInit PROVE FlightInv
  OBVIOUS
<1>1. FTypes
  <2>1. expired \in BOOLEAN
    BY Zenon DEF FlightInit
  <2> QED
    BY <2>1 DEF FlightInit, FTypes
<1>2. Queue /\ Wakes
  BY CallersAssumption DEF FlightInit, Queue, Wakes, Acquiring
<1>3. Counts
  <2>1. \A f \in Flights : Users(f) = {}
    BY FlightsAssumption DEF FlightInit, Users
  <2> QED
    BY <2>1, FS_EmptySet DEF FlightInit, Counts
<1> QED
  BY <1>1, <1>2, <1>3 DEF FlightInv

\* A step that leaves the flights alone keeps the counts.
LEMMA CountsKept ==
    ASSUME Counts, UNCHANGED <<current, refs, fl>>
    PROVE  Counts'
BY DEF Counts, Users

\* A step of caller c from a place in the queue to another, or between two
\* outside it, that leaves flights and mutexes alone, keeps the queue.
LEMMA QueueKept ==
    ASSUME NEW c \in Callers, NEW there, FTypes, Queue,
           UNCHANGED <<current, fl, mutex>>, Go(c, there),
           \/ pc[c] \in Acquiring /\ there \in Acquiring
           \/ /\ pc[c] \notin Acquiring \cup {"lock", "leave"}
              /\ there \notin Acquiring \cup {"lock", "leave"}
    PROVE  Queue'
<1> SUFFICES ASSUME NEW d \in Callers
             PROVE  /\ fl'[d] \in {Nobody, current'}
                    /\ pc'[d] \in Acquiring \cup {"lock", "leave"} <=> fl'[d] # Nobody
                    /\ pc'[d] \in Acquiring => mutex'[fl'[d]] = d
  BY DEF Queue
<1>1. pc'[d] = IF d = c THEN there ELSE pc[d]
  BY DEF Go, FTypes
<1> QED
  BY <1>1 DEF Queue

-----------------------------------------------------------------------------
\* A caller joins the flight of the key.
LEMMA JoinInv ==
    ASSUME NEW c \in Callers, FlightInv, pc[c] \in {"idle", "failed"}, Join(c)
    PROVE  FlightInv'
<1> USE DEF FlightInv
<1>1. fl[c] = Nobody
  BY DEF Queue, Acquiring
<1> DEFINE g == IF current # Nobody THEN current
                ELSE CHOOSE f \in Flights : Users(f) = {}
<1>2. g \in Flights /\ (current = Nobody => Users(g) = {})
  <2>1. CASE current # Nobody
    BY <2>1 DEF FTypes
  <2>2. CASE current = Nobody
    <3>1. \A f \in Flights : Users(f) = {}
      BY <2>2, FlightsAssumption DEF Users, Queue
    <3> QED
      BY <2>2, <3>1, FlightsAssumption
  <2> QED
    BY <2>1, <2>2
<1>3. PICK f \in Flights :
        /\ current = Nobody => Users(f) = {}
        /\ current # Nobody => current = f
        /\ current' = f
        /\ refs' = [refs EXCEPT ![f] = IF current = f THEN @ + 1 ELSE 1]
        /\ fl' = [fl EXCEPT ![c] = f]
        /\ pc' = [pc EXCEPT ![c] = "lock"]
        /\ outcome' = [outcome EXCEPT ![c] = "none"]
        /\ UNCHANGED <<mutex, holder, expired, woken, fresh, spent>>
  <2> g \in Flights
    BY <1>2
  <2> WITNESS g \in Flights
  <2> QED
    BY <1>2 DEF Join, Settle, Go
<1>4. FTypes'
  BY <1>3 DEF FTypes
<1>5. Queue'
  <2> SUFFICES ASSUME NEW d \in Callers
               PROVE  /\ fl'[d] \in {Nobody, current'}
                      /\ pc'[d] \in Acquiring \cup {"lock", "leave"} <=> fl'[d] # Nobody
                      /\ pc'[d] \in Acquiring => mutex'[fl'[d]] = d
    BY DEF Queue
  <2>1. CASE d = c
    BY <2>1, <1>3, FlightsAssumption DEF FTypes, Acquiring
  <2>2. CASE d # c
    BY <2>2, <1>3 DEF FTypes, Queue
  <2> QED
    BY <2>1, <2>2
<1>6. Counts'
  <2>1. Users(f)' = Users(f) \cup {c} /\ c \notin Users(f)
    BY <1>1, <1>3, FlightsAssumption DEF FTypes, Users
  <2>2. Cardinality(Users(f)') = Cardinality(Users(f)) + 1
    BY Zenon, <2>1, UsersFinite, FS_AddElement
  <2>3. refs'[f] = Cardinality(Users(f)')
    <3>1. CASE current = f
      <4>1. refs'[f] = refs[f] + 1
        BY <3>1, <1>3 DEF FTypes
      <4> QED
        BY <4>1, <2>2 DEF Counts
    <3>2. CASE current # f
      <4>1. refs'[f] = 1 /\ Users(f) = {}
        BY <3>2, <1>3 DEF FTypes
      <4>2. Cardinality(Users(f)) = 0
        BY <4>1, FS_EmptySet
      <4> QED
        BY <4>1, <4>2, <2>2
    <3> QED
      BY <3>1, <3>2
  <2>4. \A h \in Flights : h # f => Users(h)' = Users(h) /\ refs'[h] = refs[h]
    BY <1>1, <1>3, FlightsAssumption DEF FTypes, Users
  <2>5. \A h \in Flights : refs'[h] = Cardinality(Users(h)')
    BY <2>3, <2>4 DEF Counts
  <2> QED
    BY <1>3, <2>1, <2>5 DEF Counts, Users
<1>7. Wakes'
  BY <1>3 DEF Wakes, FTypes
<1> QED
  BY <1>4, <1>5, <1>6, <1>7

LEMMA LockInv ==
    ASSUME NEW c \in Callers, FlightInv, Lock(c)
    PROVE  FlightInv'
<1> USE DEF FlightInv
<1>1. FTypes'
  BY Zenon DEF FTypes, Lock, Go, Acquiring
<1>2. fl[c] # Nobody /\ fl[c] = current /\ fl[c] \in Flights
  BY DEF Lock, FTypes, Queue
<1>3. Queue'
  <2> SUFFICES ASSUME NEW d \in Callers
               PROVE  /\ fl'[d] \in {Nobody, current'}
                      /\ pc'[d] \in Acquiring \cup {"lock", "leave"} <=> fl'[d] # Nobody
                      /\ pc'[d] \in Acquiring => mutex'[fl'[d]] = d
    BY DEF Queue
  <2>1. CASE d = c
    BY <2>1, <1>2 DEF FTypes, Lock, Go, Queue, Acquiring
  <2>2. CASE d # c
    <3>1. pc[d] \notin Acquiring
      BY <1>2, CallersAssumption DEF Lock, Queue, Acquiring
    <3> QED
      BY <2>2, <3>1 DEF FTypes, Lock, Go, Queue
  <2> QED
    BY <2>1, <2>2
<1>4. Counts'
  BY CountsKept DEF Lock
<1>5. Wakes'
  BY DEF Wakes, FTypes, Lock, Go
<1> QED
  BY <1>1, <1>3, <1>4, <1>5

LEMMA CaptureInv ==
    ASSUME NEW c \in Callers, FlightInv, Capture(c)
    PROVE  FlightInv'
<1> USE DEF FlightInv
<1>1. FTypes'
  BY DEF FTypes, Capture, Go, Acquiring
<1>2. Queue'
  BY QueueKept DEF Capture, Acquiring
<1>3. Counts'
  BY CountsKept DEF Capture
<1>4. Wakes'
  BY DEF Wakes, FTypes, Capture, Go
<1> QED
  BY <1>1, <1>2, <1>3, <1>4

\* The read of the record: it is takeable, or it is not, or it fails.
LEMMA GetInv ==
    ASSUME NEW c \in Callers, FlightInv, Get(c)
    PROVE  FlightInv'
<1> USE DEF FlightInv
<1>1. PICK there \in {"cas", "wait", "unlock"} :
        /\ Go(c, there)
        /\ there = "cas" => fresh' = fresh \cup {c}
        /\ there # "cas" => fresh' = fresh
        /\ there = "wait" => holder # "freed"
        /\ outcome' = outcome \/ outcome' = [outcome EXCEPT ![c] = "retry"]
        /\ UNCHANGED <<current, refs, mutex, holder, expired, fl, spent, woken>>
  BY DEF Get, Again, Settle, Takeable
<1>2. FTypes'
  BY <1>1 DEF FTypes, Go, Acquiring
<1>3. Queue'
  BY <1>1, QueueKept DEF Get, Acquiring
<1>4. Counts'
  BY <1>1, CountsKept
<1>5. Wakes'
  BY <1>1 DEF Get, Wakes, FTypes, Go
<1> QED
  BY <1>2, <1>3, <1>4, <1>5

\* The conditional write: it lands, or meets a newer version, or fails.
LEMMA CasInv ==
    ASSUME NEW c \in Callers, FlightInv, Cas(c)
    PROVE  FlightInv'
<1> USE DEF FlightInv
<1>1. PICK there \in {"wait", "unlock"} :
        /\ Go(c, there)
        /\ outcome' = outcome \/ \E o \in {"ok", "retry"} : outcome' = [outcome EXCEPT ![c] = o]
        /\ \/ holder' \in {c, "other"} /\ expired' = FALSE /\ fresh' = {}
           \/ holder' = holder /\ expired' = expired /\ fresh' = fresh /\ c \notin fresh
           \/ /\ holder' = holder /\ expired' = expired /\ fresh' = fresh \ {c}
              /\ there = "unlock"
        /\ UNCHANGED <<current, refs, mutex, fl, spent, woken>>
  BY DEF Cas, Again, Settle, Record
<1>2. FTypes'
  BY Zenon, <1>1 DEF FTypes, Go, Acquiring
<1>3. Queue'
  BY <1>1, QueueKept DEF Cas, Acquiring
<1>4. Counts'
  BY <1>1, CountsKept
<1>5. Wakes'
  BY <1>1, CallersAssumption DEF Cas, Wakes, FTypes, Go
<1> QED
  BY <1>2, <1>3, <1>4, <1>5

LEMMA WaitInv ==
    ASSUME NEW c \in Callers, FlightInv, Wait(c)
    PROVE  FlightInv'
<1> USE DEF FlightInv
<1>1. PICK there \in {"capture", "unlock"} :
        /\ Go(c, there)
        /\ outcome' = outcome \/ outcome' = [outcome EXCEPT ![c] = "final"]
        /\ UNCHANGED <<current, refs, mutex, holder, expired, fl, woken, fresh, spent>>
  BY DEF Wait, Settle
<1>2. FTypes'
  BY <1>1 DEF FTypes, Go, Acquiring
<1>3. Queue'
  BY <1>1, QueueKept DEF Wait, Acquiring
<1>4. Counts'
  BY <1>1, CountsKept
<1>5. Wakes'
  BY <1>1 DEF Wait, Wakes, FTypes, Go
<1> QED
  BY <1>2, <1>3, <1>4, <1>5

LEMMA UnlockInv ==
    ASSUME NEW c \in Callers, FlightInv, Unlock(c)
    PROVE  FlightInv'
<1> USE DEF FlightInv
<1>1. FTypes'
  BY Zenon DEF FTypes, Unlock, Go
<1>2. fl[c] = current /\ fl[c] # Nobody
  BY DEF Unlock, FTypes, Queue, Acquiring
<1>3. Queue'
  <2> SUFFICES ASSUME NEW d \in Callers
               PROVE  /\ fl'[d] \in {Nobody, current'}
                      /\ pc'[d] \in Acquiring \cup {"lock", "leave"} <=> fl'[d] # Nobody
                      /\ pc'[d] \in Acquiring => mutex'[fl'[d]] = d
    BY DEF Queue
  <2>1. CASE d = c
    BY <2>1, <1>2 DEF FTypes, Unlock, Go, Queue, Acquiring
  <2>2. CASE d # c
    <3>1. pc[d] \notin Acquiring
      BY <2>2, <1>2 DEF Unlock, Queue, Acquiring
    <3> QED
      BY <2>2, <3>1 DEF FTypes, Unlock, Go, Queue
  <2> QED
    BY <2>1, <2>2
<1>4. Counts'
  BY CountsKept DEF Unlock
<1>5. Wakes'
  BY DEF Wakes, FTypes, Unlock, Go
<1> QED
  BY <1>1, <1>3, <1>4, <1>5

\* The last user drops the flight; a flight that others use stays.
LEMMA LeaveInv ==
    ASSUME NEW c \in Callers, FlightInv, Leave(c)
    PROVE  FlightInv'
<1> USE DEF FlightInv
<1>1. PICK f \in Flights, there \in {"hold", "failed"} :
        /\ fl[c] = f /\ current = f
        /\ refs' = [refs EXCEPT ![f] = @ - 1]
        /\ current' = IF refs'[f] <= 0 THEN Nobody ELSE f
        /\ fl' = [fl EXCEPT ![c] = Nobody]
        /\ pc' = [pc EXCEPT ![c] = there]
        /\ UNCHANGED <<mutex, holder, expired, woken, fresh, spent, outcome>>
  <2>1. fl[c] \in Flights /\ current = fl[c]
    BY DEF Leave, Queue, FTypes
  <2> DEFINE t == IF outcome[c] = "ok" THEN "hold" ELSE "failed"
  <2>2. t \in {"hold", "failed"}
    OBVIOUS
  <2> QED
    BY Zenon, <2>1, <2>2 DEF Leave, Go
<1>2. FTypes'
  BY <1>1 DEF FTypes
<1>3. Users(f)' = Users(f) \ {c} /\ c \in Users(f)
  BY <1>1, FlightsAssumption DEF FTypes, Users
<1>4. /\ Cardinality(Users(f)') = Cardinality(Users(f)) - 1
      /\ IsFiniteSet(Users(f)')
  BY <1>3, UsersFinite, FS_RemoveElement
<1>5. refs'[f] = Cardinality(Users(f)')
  <2>1. refs'[f] = refs[f] - 1
    BY <1>1 DEF FTypes
  <2> QED
    BY <2>1, <1>4 DEF Counts
<1>6. Users(f)' = {} <=> refs'[f] <= 0
  BY <1>4, <1>5, FS_EmptySet, FS_CardinalityType
<1>7. Queue'
  <2> SUFFICES ASSUME NEW d \in Callers
               PROVE  /\ fl'[d] \in {Nobody, current'}
                      /\ pc'[d] \in Acquiring \cup {"lock", "leave"} <=> fl'[d] # Nobody
                      /\ pc'[d] \in Acquiring => mutex'[fl'[d]] = d
    BY DEF Queue
  <2>1. CASE d = c
    BY Zenon, <2>1, <1>1 DEF FTypes, Acquiring
  <2>2. CASE d # c
    <3>1. fl'[d] = fl[d] /\ pc'[d] = pc[d] /\ mutex' = mutex
      BY <2>2, <1>1 DEF FTypes
    <3>2. fl[d] = f => current' = f
      BY <3>1, <1>1, <1>6 DEF Users
    <3> QED
      BY <3>1, <3>2, <1>1 DEF Queue
  <2> QED
    BY <2>1, <2>2
<1>8. Counts'
  <2>1. \A g \in Flights : g # f => Users(g)' = Users(g) /\ refs'[g] = refs[g]
    BY <1>1, FlightsAssumption DEF FTypes, Users
  <2>2. \A g \in Flights : refs'[g] = Cardinality(Users(g)')
    BY <1>5, <2>1 DEF Counts
  <2>3. current' # Nobody => Users(f)' # {} /\ current' = f
    BY <1>1, <1>6
  <2> QED
    BY Zenon, <2>2, <2>3 DEF Counts, Users
<1>9. Wakes'
  BY <1>1 DEF Leave, Wakes, FTypes
<1> QED
  BY <1>2, <1>7, <1>8, <1>9

\* The holder gives the record up, or leaves it, and goes on to wake the others
\* when it freed the record.
LEMMA ReleaseInv ==
    ASSUME NEW c \in Callers, FlightInv,
           Abandon(c) \/ \E o \in {"ok", "retry", "final"} : Release(c, o)
    PROVE  FlightInv'
<1> USE DEF FlightInv
<1>1. PICK there \in {"notify", "failed"}, o \in {"ok", "retry", "final"} :
        /\ Go(c, there)
        /\ outcome' = [outcome EXCEPT ![c] = o]
        /\ \/ /\ holder' \in {"free", "freed", "other"} /\ expired' = FALSE /\ fresh' = {}
              /\ holder' = "freed" => there = "notify"
           \/ UNCHANGED <<holder, expired, fresh>>
        /\ UNCHANGED <<current, refs, mutex, fl, woken, spent>>
  BY DEF Abandon, Release, Settle, Record
<1>2. pc[c] = "hold"
  BY DEF Abandon, Release
<1>3. FTypes'
  BY Zenon, <1>1 DEF FTypes, Go
<1>4. Queue'
  BY <1>1, <1>2, QueueKept DEF Acquiring
<1>5. Counts'
  BY <1>1, CountsKept
<1>6. Wakes'
  BY <1>1, <1>2 DEF Wakes, FTypes, Go
<1> QED
  BY <1>3, <1>4, <1>5, <1>6

\* Every caller that may have missed the release is woken.
LEMMA NotifyInv ==
    ASSUME NEW c \in Callers, FlightInv, Notify(c)
    PROVE  FlightInv'
<1> USE DEF FlightInv
<1>1. PICK there \in {"idle", "failed"} :
        /\ Go(c, there)
        /\ woken' = IF current = Nobody THEN woken
                    ELSE woken \cup {d \in Users(current) : pc[d] \in {"get", "cas", "wait"}}
        /\ outcome' = outcome \/ outcome' = [outcome EXCEPT ![c] = "none"]
        /\ spent' \subseteq spent
        /\ UNCHANGED <<current, refs, mutex, holder, expired, fl, fresh>>
  BY Zenon DEF Notify, Done, Settle
<1>2. pc[c] = "notify"
  BY DEF Notify
<1>3. FTypes'
  BY <1>1 DEF FTypes, Go, Users
<1>4. Queue'
  BY <1>1, <1>2, QueueKept DEF Acquiring
<1>5. Counts'
  BY <1>1, CountsKept
<1>6. Wakes'
  <2> SUFFICES ASSUME NEW d \in Callers, pc'[d] \in {"wait", "cas"}
               PROVE  d \in woken'
    BY DEF Wakes
  <2>1. pc[d] \in {"wait", "cas"}
    BY <1>1 DEF Go, FTypes
  <2>2. d \in Users(current) /\ current # Nobody
    BY <2>1 DEF Queue, Users, Acquiring
  <2> QED
    BY <2>1, <2>2, <1>1
<1> QED
  BY Zenon, <1>3, <1>4, <1>5, <1>6

\* The call returns after a failed attempt, or tries again.
LEMMA FailedInv ==
    ASSUME NEW c \in Callers, FlightInv, Failed(c)
    PROVE  FlightInv'
<1> USE DEF FlightInv
<1>1. pc[c] = "failed"
  BY DEF Failed
<1>2. CASE Join(c)
  BY <1>1, <1>2, JoinInv
<1>3. CASE Done(c) /\ UNCHANGED <<current, refs, mutex, holder, expired, fl, woken, fresh>>
  <2>1. FTypes'
    BY <1>3 DEF FTypes, Done, Settle, Go
  <2>2. Queue'
    BY <1>1, <1>3, QueueKept DEF Done, Settle, Acquiring
  <2>3. Counts'
    BY <1>3, CountsKept
  <2>4. Wakes'
    BY <1>1, <1>3 DEF Wakes, FTypes, Done, Settle, Go
  <2> QED
    BY <2>1, <2>2, <2>3, <2>4
<1> QED
  BY <1>2, <1>3 DEF Failed

\* The deadline of a call passes; the record changes without a local release.
LEMMA WorldInv ==
    ASSUME FlightInv, Elsewhere \/ \E c \in Callers : Deadline(c)
    PROVE  FlightInv'
<1> USE DEF FlightInv
<1>1. /\ UNCHANGED <<current, refs, mutex, pc, fl, woken, outcome>>
      /\ \/ holder' = holder /\ fresh' = fresh
         \/ holder' # "freed" /\ fresh' = {}
  BY CallersAssumption DEF Elsewhere, Deadline, Record
<1>2. FTypes'
  <2>1. spent' \subseteq Callers
    BY DEF Elsewhere, Deadline, FTypes
  <2>2. holder' \in Callers \cup {"other", "free", "freed"}
    BY DEF Elsewhere, Deadline, Record, FTypes
  <2>3. expired' \in BOOLEAN
    BY Zenon DEF Elsewhere, Deadline, Record, FTypes
  <2> QED
    BY Zenon, <1>1, <2>1, <2>2, <2>3 DEF FTypes
<1>3. Queue' /\ Wakes'
  BY <1>1 DEF Queue, Wakes
<1>4. Counts'
  BY <1>1, CountsKept
<1> QED
  BY <1>2, <1>3, <1>4

-----------------------------------------------------------------------------
LEMMA FlightNextInv == FlightInv /\ [FlightNext]_flightVars => FlightInv'
<1> SUFFICES ASSUME FlightInv, [FlightNext]_flightVars PROVE FlightInv'
  OBVIOUS
<1>1. CASE Elsewhere \/ \E c \in Callers : Deadline(c)
  BY <1>1, WorldInv
<1>2. ASSUME NEW c \in Callers, Call(c) PROVE FlightInv'
  BY <1>2, JoinInv DEF Call
<1>3. ASSUME NEW c \in Callers, AcquireStep(c) PROVE FlightInv'
  BY <1>3, LockInv, CaptureInv, GetInv, CasInv, WaitInv, UnlockInv, LeaveInv,
     NotifyInv, FailedInv DEF AcquireStep
<1>4. ASSUME NEW c \in Callers,
             Abandon(c) \/ \E o \in {"ok", "retry", "final"} : Release(c, o)
      PROVE  FlightInv'
  BY Zenon, <1>4, ReleaseInv
<1>5. CASE UNCHANGED flightVars
  BY <1>5 DEF flightVars, FlightInv, FTypes, Queue, Counts, Wakes, Users
<1> QED
  BY <1>1, <1>2, <1>3, <1>4, <1>5 DEF FlightNext

\* Every step of the composition is a step of the queue, or leaves it alone.
LEMMA LocalStep == [Next]_vars => [FlightNext]_flightVars
<1> SUFFICES ASSUME [Next]_vars PROVE [FlightNext]_flightVars
  OBVIOUS
<1>1. CASE World
  BY <1>1 DEF World, FlightNext
<1>2. ASSUME NEW s \in cast, SessionStep(s) PROVE UNCHANGED flightVars
  BY Zenon, <1>2 DEF SessionStep
<1>3. ASSUME NEW c \in Callers,
             CallerStep(c) \/ BeginSession(c) \/ EndAttempt(c) \/ NoSession(c)
      PROVE  FlightNext \/ UNCHANGED flightVars
  BY Zenon, <1>3 DEF CallerStep, BeginSession, EndAttempt, NoSession, FlightNext
<1>4. CASE UNCHANGED vars
  BY <1>4 DEF vars
<1> QED
  BY <1>1, <1>2, <1>3, <1>4 DEF Next

LEMMA LocalFlightInv == Spec => []FlightInv
<1>1. Init => FlightInv
  BY FlightInitInv DEF Init
<1>2. FlightInv /\ [Next]_vars => FlightInv'
  BY LocalStep, FlightNextInv
<1> QED
  BY <1>1, <1>2, PTL DEF Spec

\* The acquisition queue of lease.go, inside the process that uses it: at most
\* one caller polls the lease, for any number of callers.
THEOREM LocalSingleFlight == Spec => []SingleFlight
BY LocalFlightInv, FlightInvImplies, PTL

\* The reference count of the flight in the map is the number of callers that
\* use it, and no caller uses another flight.
THEOREM LocalFlightCounted == Spec => []FlightCounted
BY LocalFlightInv, FlightInvImplies, PTL

\* No caller waits for the timer when a local release has freed the lease.
THEOREM LocalNoMissedWakeup == Spec => []NoMissedWakeup
BY LocalFlightInv, FlightInvImplies, PTL

-----------------------------------------------------------------------------
\* The write buffers.
Of(w) == {s \in Sessions : Wrapper(s) = w}
OpenOf(w) == {s \in Of(w) : at[s] \in Opened}

\* Sessions of w that may still write without measuring again.
PendingOf(w) ==
    {s \in Of(w) : at[s] = "write" \/ (at[s] = "check" /\ size[s] < limit)}
CastOf(w) == {s \in cast : Wrapper(s) = w}

BTypes ==
    /\ bufferRoot \in [Wrappers -> Dirs \cup {None}]
    /\ activeFiles \in [Wrappers -> Nat]
    /\ accounted \in [Wrappers -> Nat]
    /\ bytes \in [DOMAIN bytes -> Nat]
    /\ DOMAIN bytes \subseteq Dirs
    /\ left \in BOOLEAN
    /\ at \in [Sessions -> Opened \cup {"none", "rooted", "remove", "closing",
                                        "settle", "closed", "discard"}]
    /\ home \in [Sessions -> Dirs \cup {None}]
    /\ doomed \in [Sessions -> Dirs \cup {None}]
    /\ size \in [Sessions -> Nat]

\* The scene does not change, and nobody else is on the stage.
Stage ==
    /\ [cast |-> cast, limit |-> limit] \in Scenes
    /\ limit \in Nat
    /\ cast \subseteq Sessions
    /\ \A s \in Sessions \ cast : at[s] = "none"

Opens == \A w \in Wrappers : activeFiles[w] = Cardinality(OpenOf(w))

\* Whoever is last on a wrapper gives back what it is charged.
Charges ==
    /\ used = accounted["read"] + accounted["write"]
    /\ \A w \in Wrappers : accounted[w] # 0 => \E s \in Of(w) : at[s] # "none"

\* Where a session has a directory, and where it is about to remove one.
Places ==
    \A s \in Sessions :
      /\ at[s] \notin {"remove", "discard"} => doomed[s] = None
      /\ at[s] \notin Opened \cup {"rooted"} => home[s] = None
      /\ at[s] = "rooted" => s \in Writers

\* Every directory is known to somebody; the one of a wrapper is there, is its
\* own, nobody is about to remove it, and somebody will.
Roots ==
    /\ DOMAIN bytes \subseteq InUse
    /\ bufferRoot["read"] = bufferRoot["write"] => bufferRoot["read"] = None
    /\ \A w \in Wrappers :
         bufferRoot[w] # None =>
           /\ bufferRoot[w] \in DOMAIN bytes
           /\ \A s \in Sessions : doomed[s] # bufferRoot[w]
           /\ \E s \in Of(w) : at[s] \notin {"none", "discard"}

\* A session is in the directory of its wrapper, unless its lease ran out.
Homes ==
    /\ \A s \in Sessions :
         home[s] # None => home[s] = bufferRoot[Wrapper(s)] \/ (s \in Writers /\ outlived)
    /\ left => outlived

Bounded ==
    limit > 0 => \A w \in Wrappers :
      BufferSize(w) + Cardinality(PendingOf(w)) <= limit + Cardinality(CastOf(w)) - 1

\* As long as no lease has run out, only the holder of the lease has a session.
Owner(c) == pc[c] = "hold" \/ (pc[c] \in {"unlock", "leave"} /\ outcome[c] = "ok")
Leases ==
    /\ worked \subseteq Callers
    /\ outlived \in BOOLEAN
    /\ expired => outlived
    /\ \A c \in Callers : at[c] # "none" => pc[c] = "hold" /\ c \in worked
    /\ ~outlived => /\ fresh # {} => holder \in {"free", "freed"}
                    /\ \A c \in Callers : Owner(c) => holder = c

LocalInv ==
    /\ BTypes /\ Stage /\ Opens /\ Charges /\ Places /\ Roots /\ Homes
    /\ Bounded /\ Leases
-----------------------------------------------------------------------------
\* Sessions can be counted, all of them or some.
LEMMA SessionsFinite ==
    ASSUME NEW S \in SUBSET Sessions
    PROVE  IsFiniteSet(S) /\ Cardinality(S) \in Nat /\ Cardinality(S) <= Cardinality(Sessions)
BY SessionsAssumption, FS_Subset, FS_CardinalityType

\* A session is of one of the two wrappers.
LEMMA WrapperOf ==
    ASSUME NEW s \in Sessions
    PROVE  /\ Wrapper(s) \in Wrappers
           /\ Wrapper(s) = "read" <=> s \in Readers
           /\ Wrapper(s) = "write" <=> s \in Writers
           /\ s \in Of(Wrapper(s))
BY SessionsAssumption DEF Wrapper, Wrappers, Of, Sessions

\* The values of a function on the sessions are no more than the sessions.
LEMMA ValuesFinite ==
    ASSUME NEW f, NEW T, f \in [Sessions -> T]
    PROVE  LET V == {f[s] : s \in Sessions}
           IN  IsFiniteSet(V) /\ Cardinality(V) <= Cardinality(Sessions)
<1> DEFINE V == {f[s] : s \in Sessions}
<1>1. f \in Surjection(Sessions, V)
  BY DEF Surjection
<1> QED
  BY <1>1, SessionsAssumption, FS_Surjection

\* The directories the process still has a name for, now and after a step.
LEMMA InUseIs ==
    /\ \A d : d \in InUse <=> \/ \E w \in Wrappers : d = bufferRoot[w]
                              \/ \E t \in Sessions : d = home[t] \/ d = doomed[t]
    /\ \A d : d \in InUse' <=> \/ \E w \in Wrappers : d = bufferRoot'[w]
                               \/ \E t \in Sessions : d = home'[t] \/ d = doomed'[t]
<1>1. \A d : d \in InUse <=> \/ \E w \in Wrappers : d = bufferRoot[w]
                             \/ \E t \in Sessions : d = home[t] \/ d = doomed[t]
  BY DEF InUse
<1>2. \A d : d \in InUse' <=> \/ \E w \in Wrappers : d = bufferRoot'[w]
                              \/ \E t \in Sessions : d = home'[t] \/ d = doomed'[t]
  BY DEF InUse
<1> QED BY <1>1, <1>2

\* MkdirTemp finds a name: the sessions and wrappers know fewer directories
\* than there can be.
LEMMA FreeDir == ASSUME BTypes PROVE \E d \in Dirs : d \notin InUse
<1> DEFINE R == {bufferRoot[w] : w \in Wrappers}
           H == {home[s] : s \in Sessions}
           D == {doomed[s] : s \in Sessions}
<1>1. R = {bufferRoot["read"], bufferRoot["write"]}
  BY DEF Wrappers
<1>2. IsFiniteSet(R) /\ Cardinality(R) <= 2
  <2> DEFINE a == bufferRoot["read"]
             b == bufferRoot["write"]
  <2>1. IsFiniteSet({a}) /\ Cardinality({a}) = 1
    BY Zenon, FS_Singleton
  <2>2. R = {a} \cup {b}
    BY <1>1
  <2> HIDE DEF R, a, b
  <2> QED
    BY <2>1, <2>2, FS_AddElement
<1>3. IsFiniteSet(H) /\ Cardinality(H) <= Cardinality(Sessions)
  BY Zenon, ValuesFinite DEF BTypes
<1>4. IsFiniteSet(D) /\ Cardinality(D) <= Cardinality(Sessions)
  BY Zenon, ValuesFinite DEF BTypes
<1>5. InUse = (R \cup H) \cup D
  BY DEF InUse
<1> HIDE DEF R, H, D
<1>6. IsFiniteSet(R \cup H) /\ Cardinality(R \cup H) <= Cardinality(Sessions) + 2
  <2>1. /\ Cardinality(R) \in Nat /\ Cardinality(H) \in Nat
        /\ Cardinality(R \cap H) \in Nat /\ Cardinality(Sessions) \in Nat
    BY <1>2, <1>3, FS_CardinalityType, FS_Intersection, SessionsAssumption
  <2> QED
    BY <2>1, <1>2, <1>3, FS_Union
<1>7. IsFiniteSet(InUse) /\ Cardinality(InUse) <= 2 * Cardinality(Sessions) + 2
  <2>1. /\ Cardinality(R \cup H) \in Nat /\ Cardinality(D) \in Nat
        /\ Cardinality((R \cup H) \cap D) \in Nat /\ Cardinality(Sessions) \in Nat
    BY Zenon, <1>6, <1>4, FS_CardinalityType, FS_Intersection, SessionsAssumption
  <2>2. /\ IsFiniteSet(InUse)
        /\ Cardinality(InUse) = Cardinality(R \cup H) + Cardinality(D)
                                  - Cardinality((R \cup H) \cap D)
    BY <1>4, <1>5, <1>6, FS_Union
  <2> QED
    BY <2>1, <2>2, <1>4, <1>6
<1>8. Cardinality(Dirs) = MaxDirs
  BY DirsAssumption, FS_Interval DEF Dirs
<1>9. ASSUME Dirs \subseteq InUse PROVE FALSE
  <2>1. Cardinality(Dirs) <= Cardinality(InUse)
    BY <1>7, <1>9, FS_Subset
  <2>2. Cardinality(InUse) \in Nat /\ Cardinality(Sessions) \in Nat
    BY <1>7, FS_CardinalityType, SessionsAssumption
  <2> QED
    BY <2>1, <2>2, <1>7, <1>8, DirsAssumption
<1> QED
  BY <1>9

-----------------------------------------------------------------------------
\* A step of session s, on the stage, that leaves the scene alone.
LEMMA StageKept ==
    ASSUME BTypes, Stage, NEW s \in cast, NEW x, Move(s, x), UNCHANGED scene
    PROVE  Stage'
BY DEF BTypes, Stage, Move, scene

\* A step of a session that begins none.
LEMMA LeasesKept ==
    ASSUME Leases, UNCHANGED <<flightVars, worked, outlived>>,
           \A c \in Callers : at'[c] # "none" => at[c] # "none"
    PROVE  Leases'
BY DEF Leases, flightVars, Owner

\* Nobody opens or closes a file.
LEMMA OpensKept ==
    ASSUME BTypes, Opens, NEW s \in Sessions, NEW x, Move(s, x),
           x \in Opened <=> at[s] \in Opened, activeFiles' = activeFiles
    PROVE  Opens'
<1>1. \A w \in Wrappers : OpenOf(w)' = OpenOf(w)
  BY DEF BTypes, Move, OpenOf, Of
<1> QED
  BY <1>1 DEF Opens

\* No buffer grows and nobody is let through, or the buffer is below the limit.
LEMMA BoundedKept ==
    ASSUME Bounded, Stage, Stage', UNCHANGED scene, BTypes, BTypes',
           \A w \in Wrappers :
             \/ BufferSize(w)' <= BufferSize(w) /\ PendingOf(w)' \subseteq PendingOf(w)
             \/ BufferSize(w)' < limit
    PROVE  Bounded'
<1> SUFFICES ASSUME limit > 0, NEW w \in Wrappers
             PROVE  BufferSize(w)' + Cardinality(PendingOf(w)')
                      <= limit + Cardinality(CastOf(w)) - 1
  BY DEF Bounded, scene, CastOf
<1>1. PendingOf(w) \in SUBSET Sessions /\ CastOf(w) \in SUBSET Sessions
  BY DEF PendingOf, Of, CastOf, Stage
<1>2. IsFiniteSet(PendingOf(w)) /\ Cardinality(PendingOf(w)) \in Nat
  BY <1>1, SessionsFinite
<1>3. IsFiniteSet(CastOf(w)) /\ Cardinality(CastOf(w)) \in Nat
  BY <1>1, SessionsFinite
<1>4. BufferSize(w) \in Nat /\ BufferSize(w)' \in Nat
  BY DEF BTypes, BufferSize
<1>5. limit \in Nat
  BY DEF Stage
<1>6. CASE BufferSize(w)' <= BufferSize(w) /\ PendingOf(w)' \subseteq PendingOf(w)
  <2>1. Cardinality(PendingOf(w)') <= Cardinality(PendingOf(w)) /\ Cardinality(PendingOf(w)') \in Nat
    BY <1>2, <1>6, FS_Subset, FS_CardinalityType
  <2>2. BufferSize(w) + Cardinality(PendingOf(w)) <= limit + Cardinality(CastOf(w)) - 1
    BY DEF Bounded
  <2> QED
    BY <2>1, <2>2, <1>2, <1>3, <1>4, <1>5, <1>6
<1>7. CASE BufferSize(w)' < limit
  <2>1. PendingOf(w)' \subseteq CastOf(w)
    BY DEF PendingOf, Of, CastOf, Stage, scene
  <2>2. Cardinality(PendingOf(w)') <= Cardinality(CastOf(w)) /\ Cardinality(PendingOf(w)') \in Nat
    BY <2>1, <1>3, FS_Subset, FS_CardinalityType
  <2> QED
    BY <2>2, <1>3, <1>4, <1>5, <1>7
<1> QED
  BY <1>6, <1>7

\* Who may be let through can be counted.
LEMMA PendingBound ==
    ASSUME Stage, NEW w
    PROVE  /\ IsFiniteSet(PendingOf(w)) /\ Cardinality(PendingOf(w)) \in Nat
           /\ Cardinality(CastOf(w)) \in Nat
<1>1. PendingOf(w) \in SUBSET Sessions /\ CastOf(w) \in SUBSET Sessions
  BY DEF PendingOf, Of, CastOf, Stage
<1> QED
  BY <1>1, SessionsFinite

-----------------------------------------------------------------------------
\* A step of an open or closing session that touches no directory.
LEMMA QuietStep ==
    ASSUME LocalInv, NEW s \in cast, NEW x \in Opened \cup {"settle", "closed"},
           Move(s, x), x \in Opened <=> at[s] \in Opened,
           at[s] \in Opened \cup {"closing", "settle"},
           UNCHANGED <<bufferRoot, activeFiles, bytes, left, home, doomed>>,
           UNCHANGED <<flightVars, scene, worked, outlived>>,
           size' \in [Sessions -> Nat], accounted' \in [Wrappers -> Nat],
           Charges', Bounded'
    PROVE  LocalInv'
<1> USE DEF LocalInv
<1>1. s \in Sessions
  BY DEF Stage
<1>2. BTypes'
  BY Zenon, <1>1 DEF BTypes, Move, Opened
<1>3. Stage'
  BY StageKept
<1>4. Opens'
  BY <1>1, OpensKept
<1>5. \A t \in Sessions : at'[t] = IF t = s THEN x ELSE at[t]
  BY <1>1 DEF Move, BTypes
<1>6. Places'
  BY <1>5 DEF Places, Opened
<1>7. Roots'
  <2>1. InUse' = InUse
    BY DEF InUse
  <2>2. \A t \in Sessions : at[t] \notin {"none", "discard"} => at'[t] \notin {"none", "discard"}
    BY <1>5 DEF Opened
  <2>3. \A w : Of(w) \subseteq Sessions
    BY DEF Of
  <2> QED
    BY <2>1, <2>2, <2>3 DEF Roots, Of
<1>8. Homes'
  BY DEF Homes
<1>9. Leases'
  <2>1. \A c \in Callers : at'[c] # "none" => at[c] # "none"
    BY <1>5, WritersAreCallers DEF Opened, Sessions
  <2> QED
    BY <2>1, LeasesKept
<1> QED
  BY Zenon, <1>2, <1>3, <1>4, <1>6, <1>7, <1>8, <1>9

\* What a wrapper is charged is replaced by what session s measured.
LEMMA ApplyCharges ==
    ASSUME BTypes, Charges, NEW s \in Sessions, Apply(s), NEW x, x # "none", Move(s, x)
    PROVE  /\ Charges'
           /\ accounted' \in [Wrappers -> Nat] /\ size' \in [Sessions -> Nat]
           /\ used' >= size[s]
<1>1. Wrapper(s) \in Wrappers /\ s \in Of(Wrapper(s))
  BY WrapperOf
<1>2. size[s] \in Nat /\ \A w \in Wrappers : accounted[w] \in Nat
  BY DEF BTypes
<1>3. accounted' \in [Wrappers -> Nat] /\ size' \in [Sessions -> Nat]
  BY Zenon, <1>2 DEF BTypes, Apply
<1>4. used' = accounted'["read"] + accounted'["write"] /\ used' >= size[s]
  <2>1. CASE Wrapper(s) = "read"
    <3>1. accounted'["read"] = size[s] /\ accounted'["write"] = accounted["write"]
      BY <2>1 DEF Apply, BTypes, Wrappers
    <3> QED
      BY <2>1, <3>1, <1>2 DEF Apply, NotNegative, Charges, Wrappers
  <2>2. CASE Wrapper(s) = "write"
    <3>1. accounted'["write"] = size[s] /\ accounted'["read"] = accounted["read"]
      BY <2>2 DEF Apply, BTypes, Wrappers
    <3> QED
      BY <2>2, <3>1, <1>2 DEF Apply, NotNegative, Charges, Wrappers
  <2> QED
    BY <1>1, <2>1, <2>2 DEF Wrappers
<1>5. ASSUME NEW w \in Wrappers, accounted'[w] # 0
      PROVE  \E t \in Of(w) : at'[t] # "none"
  <2>1. CASE w = Wrapper(s)
    BY <2>1, <1>1 DEF Move, BTypes
  <2>2. CASE w # Wrapper(s)
    <3>1. accounted'[w] = accounted[w]
      BY <2>2 DEF Apply, BTypes
    <3>2. PICK t \in Of(w) : at[t] # "none"
      BY <3>1, <1>5 DEF Charges
    <3>3. at'[t] # "none"
      BY Zenon, <3>2 DEF Move, BTypes, Of
    <3> QED
      BY <3>3
  <2> QED
    BY <2>1, <2>2
<1> QED
  BY <1>3, <1>4, <1>5 DEF Charges, Of

\* The walk over the directory of the wrapper.
LEMMA MeasureStep ==
    ASSUME LocalInv, NEW s \in cast, UNCHANGED <<flightVars, scene, worked, outlived>>,
           \/ Measure(s, "open", "check")
           \/ Measure(s, "wrote", "reconcile")
           \/ Measure(s, "closing", "settle")
    PROVE  LocalInv'
<1> USE DEF LocalInv
<1>1. s \in Sessions
  BY DEF Stage
<1>2. PICK x \in {"check", "reconcile", "settle"} :
        /\ Move(s, x) /\ at[s] \in Opened \cup {"closing"}
        /\ x \in Opened <=> at[s] \in Opened
  BY DEF Measure, Opened
<1>3. /\ UNCHANGED <<bufferRoot, activeFiles, accounted, used, bytes, left, home, doomed>>
      /\ size' = [size EXCEPT ![s] = BufferSize(Wrapper(s))]
  BY DEF Measure
<1>4. size' \in [Sessions -> Nat]
  BY Zenon, <1>3 DEF BTypes, BufferSize
<1>5. \A t \in Sessions : at'[t] = IF t = s THEN x ELSE at[t]
  BY <1>1, <1>2 DEF Move, BTypes
<1>6. Charges'
  BY <1>3, <1>5 DEF Charges, Of
<1>7. BTypes'
  BY <1>1, <1>2, <1>3, <1>4 DEF BTypes, Move, Opened
<1>8. Stage'
  BY <1>2, StageKept
<1>9. Bounded'
  <2> SUFFICES ASSUME NEW w \in Wrappers
               PROVE  \/ BufferSize(w)' <= BufferSize(w) /\ PendingOf(w)' \subseteq PendingOf(w)
                      \/ BufferSize(w)' < limit
    BY Zenon, <1>7, <1>8, BoundedKept
  <2>1. BufferSize(w)' = BufferSize(w) /\ BufferSize(w) \in Nat /\ limit \in Nat
    BY <1>3 DEF BufferSize, BTypes, Stage
  <2>2. \A t \in Sessions : t # s => size'[t] = size[t]
    BY <1>3 DEF BTypes
  <2>3. ASSUME ~(BufferSize(w) < limit), w = Wrapper(s) PROVE s \notin PendingOf(w)'
    BY Zenon, <2>3, <1>1, <1>2, <1>3, <1>5 DEF PendingOf, BTypes, scene
  <2>4. ASSUME NEW t \in PendingOf(w)', t # s PROVE t \in PendingOf(w)
    BY <2>4, <2>2, <1>5 DEF PendingOf, Of, scene
  <2>5. s \in PendingOf(w)' => w = Wrapper(s)
    BY DEF PendingOf, Of
  <2> QED
    BY <2>1, <2>3, <2>4, <2>5
<1>10. x \in Opened \cup {"settle", "closed"} /\ at[s] \in Opened \cup {"closing", "settle"}
  BY <1>2 DEF Opened
<1>11. accounted' \in [Wrappers -> Nat]
  BY Zenon, <1>3 DEF BTypes
<1> QED
  BY <1>2, <1>3, <1>4, <1>6, <1>9, <1>10, <1>11, QuietStep

\* tempBudget.check, reconcile and tempFileClosed: what was measured is applied,
\* and a write is let through only when the measured size is below the limit.
LEMMA ApplyStep ==
    ASSUME LocalInv, NEW s \in cast, UNCHANGED <<flightVars, scene, worked, outlived>>,
           Check(s) \/ Reconcile(s) \/ CloseTemp(s)
    PROVE  LocalInv'
<1> USE DEF LocalInv
<1>1. s \in Sessions
  BY DEF Stage
<1>2. /\ Apply(s)
      /\ UNCHANGED <<bufferRoot, activeFiles, bytes, left, home, doomed>>
  BY DEF Check, Reconcile, CloseTemp
<1>3. PICK x \in {"open", "write", "closed"} :
        /\ Move(s, x) /\ at[s] \in {"check", "reconcile", "settle"}
        /\ x = "closed" <=> at[s] = "settle"
        /\ x = "write" => at[s] = "check" /\ ~(used' + 1 > limit)
  BY DEF Check, Reconcile, CloseTemp
<1>4. /\ Charges' /\ accounted' \in [Wrappers -> Nat] /\ size' \in [Sessions -> Nat]
      /\ used' >= size[s]
  BY <1>1, <1>2, <1>3, ApplyCharges
<1>5. \A t \in Sessions : at'[t] = IF t = s THEN x ELSE at[t]
  BY <1>1, <1>3 DEF Move, BTypes
<1>6. BTypes'
  BY Zenon, <1>1, <1>2, <1>3, <1>4 DEF BTypes, Move, Opened
<1>7. Stage'
  BY <1>3, StageKept
<1>8. Bounded'
  <2> SUFFICES ASSUME NEW w \in Wrappers
               PROVE  BufferSize(w)' <= BufferSize(w) /\ PendingOf(w)' \subseteq PendingOf(w)
    BY <1>6, <1>7, BoundedKept
  <2>1. BufferSize(w)' = BufferSize(w) /\ BufferSize(w) \in Nat
    BY <1>2 DEF BufferSize, BTypes
  <2>2. \A t \in Sessions : t # s => size'[t] = size[t]
    BY <1>2 DEF BTypes, Apply
  <2>3. x = "write" => size[s] < limit
    <3>1. used' \in Nat /\ size[s] \in Nat /\ limit \in Nat
      BY <1>1, <1>4 DEF Charges, BTypes, Stage, Wrappers
    <3> QED
      BY <3>1, <1>3, <1>4
  <2>4. ASSUME NEW t \in PendingOf(w)' PROVE t \in PendingOf(w)
    BY <2>4, <2>2, <2>3, <1>3, <1>5 DEF PendingOf, Of, scene
  <2> QED
    BY <2>1, <2>4
<1>9. x \in Opened \cup {"settle", "closed"} /\ at[s] \in Opened \cup {"closing", "settle"}
  BY <1>3 DEF Opened
<1>10. x \in Opened <=> at[s] \in Opened
  BY <1>3 DEF Opened
<1> QED
  BY <1>2, <1>3, <1>4, <1>8, <1>9, <1>10, QuietStep

\* The write itself, and a shrinking file.
LEMMA WriteStep ==
    ASSUME LocalInv, NEW s \in cast, UNCHANGED <<flightVars, scene, worked, outlived>>,
           Write(s) \/ Shrink(s)
    PROVE  LocalInv'
<1> USE DEF LocalInv
<1>1. s \in Sessions
  BY Zenon DEF Stage
<1>2. /\ Move(s, "wrote") /\ at[s] \in {"open", "write"}
      /\ UNCHANGED <<bufferRoot, activeFiles, accounted, used, left, home, doomed, size>>
  BY Zenon DEF Write, Shrink
<1>3. /\ DOMAIN bytes' = DOMAIN bytes /\ bytes' \in [DOMAIN bytes -> Nat]
      /\ \A d \in DOMAIN bytes : d # home[s] => bytes'[d] = bytes[d]
  BY DEF Write, Shrink, BTypes
<1>4. BTypes'
  BY <1>1, <1>2, <1>3 DEF BTypes, Move, Opened
<1>5. Stage'
  BY <1>2, StageKept
<1>6. \A t \in Sessions : at'[t] = IF t = s THEN "wrote" ELSE at[t]
  BY <1>1, <1>2 DEF Move, BTypes
<1>7. Opens'
  BY <1>1, <1>2, OpensKept DEF Opened
<1>8. Charges' /\ Places' /\ Homes'
  BY Zenon, <1>2, <1>6 DEF Charges, Places, Homes, Opened, Of
<1>9. Roots'
  <2>1. InUse' = InUse
    BY <1>2 DEF InUse
  <2> QED
    BY Zenon, <2>1, <1>2, <1>3, <1>6 DEF Roots, Of
<1>10. Leases'
  BY Zenon, <1>2, <1>6, LeasesKept, WritersAreCallers DEF Sessions
<1>11. \A w \in Wrappers : PendingOf(w)' \subseteq PendingOf(w)
  BY <1>2, <1>6 DEF PendingOf, Of, scene
<1>12. CASE Shrink(s)
  <2>1. \A w \in Wrappers : BufferSize(w)' <= BufferSize(w)
    BY <1>2, <1>3, <1>12 DEF Shrink, BufferSize, BTypes
  <2>2. Bounded'
    BY Zenon, <2>1, <1>4, <1>5, <1>11, BoundedKept
  <2> QED
    BY Zenon, <2>2, <1>4, <1>5, <1>7, <1>8, <1>9, <1>10
<1>13. CASE Write(s)
  <2> SUFFICES ASSUME limit > 0, NEW w \in Wrappers
               PROVE  BufferSize(w)' + Cardinality(PendingOf(w)')
                        <= limit + Cardinality(CastOf(w)) - 1
    BY <1>4, <1>5, <1>7, <1>8, <1>9, <1>10 DEF Bounded, scene, CastOf
  <2>1. /\ IsFiniteSet(PendingOf(w)) /\ Cardinality(PendingOf(w)) \in Nat
        /\ Cardinality(CastOf(w)) \in Nat
    BY PendingBound
  <2>2. BufferSize(w) + Cardinality(PendingOf(w)) <= limit + Cardinality(CastOf(w)) - 1
    BY DEF Bounded
  <2>3. BufferSize(w) \in Nat /\ BufferSize(w)' \in Nat /\ limit \in Nat
    BY <1>4 DEF BTypes, BufferSize, Stage
  <2>4. CASE w = Wrapper(s)
    <3>1. BufferSize(w)' <= BufferSize(w) + 1
      BY <1>2, <1>3, <1>13 DEF Write, BufferSize, BTypes
    <3>2. s \in PendingOf(w) /\ s \notin PendingOf(w)'
      BY Zenon, <2>4, <1>1, <1>6, <1>13, WrapperOf DEF Write, PendingOf
    <3>3. /\ Cardinality(PendingOf(w)') <= Cardinality(PendingOf(w)) - 1
          /\ Cardinality(PendingOf(w)') \in Nat
      <4>1. PendingOf(w)' \subseteq PendingOf(w) \ {s}
        BY <3>2, <1>11
      <4>2. /\ IsFiniteSet(PendingOf(w) \ {s})
            /\ Cardinality(PendingOf(w) \ {s}) = Cardinality(PendingOf(w)) - 1
        BY Zenon, <2>1, <3>2, FS_RemoveElement
      <4> QED
        BY <4>1, <4>2, FS_Subset, FS_CardinalityType
    <3> QED
      BY <3>1, <3>3, <2>1, <2>2, <2>3
  <2>5. CASE w # Wrapper(s)
    <3>1. home[s] = bufferRoot[Wrapper(s)] => home[s] = None \/ home[s] # bufferRoot[w]
      BY <2>5, <1>1, WrapperOf DEF Roots, Wrappers
    <3>2. None \notin DOMAIN bytes
      BY Zenon, DirsAssumption DEF BTypes
    <3>3. BufferSize(w)' = BufferSize(w)
      BY Zenon, <3>1, <3>2, <1>2, <1>3, <1>13 DEF Write, BufferSize
    <3>4. Cardinality(PendingOf(w)') <= Cardinality(PendingOf(w)) /\ Cardinality(PendingOf(w)') \in Nat
      BY Zenon, <2>1, <1>11, FS_Subset, FS_CardinalityType
    <3> QED
      BY <3>3, <3>4, <2>1, <2>2, <2>3
  <2> QED
    BY <2>4, <2>5
<1> QED
  BY <1>12, <1>13

-----------------------------------------------------------------------------
\* ensureBufferRoot hands out the wrapper's directory, or a new one.
LEMMA EnsureRootFacts ==
    ASSUME BTypes, NEW s \in Sessions, EnsureRoot(s)
    PROVE  \E d \in Dirs :
             /\ home' = [home EXCEPT ![s] = d]
             /\ \/ d = bufferRoot[Wrapper(s)] /\ UNCHANGED <<bufferRoot, bytes>>
                \/ /\ bufferRoot[Wrapper(s)] = None /\ d \notin InUse
                   /\ bufferRoot' = [bufferRoot EXCEPT ![Wrapper(s)] = d]
                   /\ bytes' = WithDir(d)
<1>1. CASE bufferRoot[Wrapper(s)] # None
  <2>1. bufferRoot[Wrapper(s)] \in Dirs
    BY <1>1, WrapperOf DEF BTypes
  <2> QED
    BY <1>1, <2>1 DEF EnsureRoot
<1>2. CASE bufferRoot[Wrapper(s)] = None
  <2> DEFINE e == CHOOSE f \in Dirs : f \notin InUse
  <2>1. e \in Dirs /\ e \notin InUse
    BY FreeDir
  <2>2. /\ home' = [home EXCEPT ![s] = e]
        /\ bufferRoot' = [bufferRoot EXCEPT ![Wrapper(s)] = e]
        /\ bytes' = WithDir(e)
    BY Zenon, <1>2 DEF EnsureRoot
  <2> HIDE DEF e
  <2> QED
    BY Zenon, <1>2, <2>1, <2>2
<1> QED
  BY <1>1, <1>2

\* Session s, which had no directory, gets one.
LEMMA EnsureRootKept ==
    ASSUME BTypes, Roots, Homes, NEW s \in Sessions, EnsureRoot(s), home[s] = None,
           UNCHANGED <<doomed, left, outlived>>,
           NEW x, x \notin {"none", "discard"}, at' = [at EXCEPT ![s] = x]
    PROVE  /\ bufferRoot' \in [Wrappers -> Dirs \cup {None}]
           /\ home' \in [Sessions -> Dirs \cup {None}]
           /\ bytes' \in [DOMAIN bytes' -> Nat] /\ DOMAIN bytes' \subseteq Dirs
           /\ Roots' /\ Homes'
           /\ \A w \in Wrappers : BufferSize(w)' <= BufferSize(w)
           /\ \A t \in Sessions : t # s => home'[t] = home[t]
<1>1. PICK d \in Dirs :
             /\ home' = [home EXCEPT ![s] = d]
             /\ \/ d = bufferRoot[Wrapper(s)] /\ UNCHANGED <<bufferRoot, bytes>>
                \/ /\ bufferRoot[Wrapper(s)] = None /\ d \notin InUse
                   /\ bufferRoot' = [bufferRoot EXCEPT ![Wrapper(s)] = d]
                   /\ bytes' = WithDir(d)
  BY EnsureRootFacts
<1>2. Wrapper(s) \in Wrappers /\ s \in Of(Wrapper(s))
  BY WrapperOf
<1>3. \A t \in Sessions : home'[t] = IF t = s THEN d ELSE home[t]
  BY <1>1 DEF BTypes
<1>4. \A t \in Sessions : at'[t] = IF t = s THEN x ELSE at[t]
  BY DEF BTypes
<1>5. None \notin DOMAIN bytes /\ d # None
  BY DirsAssumption DEF BTypes
<1>6. CASE d = bufferRoot[Wrapper(s)] /\ UNCHANGED <<bufferRoot, bytes>>
  <2>1. /\ bytes' \in [DOMAIN bytes' -> Nat] /\ DOMAIN bytes' \subseteq Dirs
        /\ bufferRoot' \in [Wrappers -> Dirs \cup {None}]
        /\ home' \in [Sessions -> Dirs \cup {None}]
    BY <1>1, <1>6 DEF BTypes
  <2>2. Homes'
    BY Zenon, <1>3, <1>6 DEF Homes
  <2>3. InUse \ {None} \subseteq InUse'
    BY <1>3, <1>6 DEF InUse
  <2>4. Roots'
    <3>1. DOMAIN bytes' \subseteq InUse'
      BY <2>3, <1>5, <1>6 DEF Roots
    <3> QED
      BY <3>1, <1>4, <1>6 DEF Roots, Of
  <2>5. \A w \in Wrappers : BufferSize(w)' <= BufferSize(w)
    BY <1>6 DEF BufferSize, BTypes
  <2> QED
    BY Zenon, <2>1, <2>2, <2>4, <2>5, <1>3
<1>7. CASE /\ bufferRoot[Wrapper(s)] = None /\ d \notin InUse
           /\ bufferRoot' = [bufferRoot EXCEPT ![Wrapper(s)] = d]
           /\ bytes' = WithDir(d)
  <2>1. /\ \A w \in Wrappers : bufferRoot'[w] = IF w = Wrapper(s) THEN d ELSE bufferRoot[w]
        /\ DOMAIN bytes' = DOMAIN bytes \cup {d} /\ d \notin DOMAIN bytes
        /\ bytes'[d] = 0 /\ \A e \in DOMAIN bytes : bytes'[e] = bytes[e]
    BY <1>7 DEF BTypes, WithDir, Roots
  <2>2. /\ \A w \in Wrappers : bufferRoot[w] # d
        /\ \A t \in Sessions : home[t] # d /\ doomed[t] # d
    BY <1>7 DEF InUse
  <2>3. /\ bytes' \in [DOMAIN bytes' -> Nat] /\ DOMAIN bytes' \subseteq Dirs
        /\ bufferRoot' \in [Wrappers -> Dirs \cup {None}]
        /\ home' \in [Sessions -> Dirs \cup {None}]
    <3>1. \A e \in DOMAIN bytes : bytes[e] \in Nat
      BY DEF BTypes
    <3>2. bytes' \in [DOMAIN bytes' -> Nat]
      BY <3>1, <1>7 DEF WithDir
    <3>3. DOMAIN bytes' \subseteq Dirs
      BY <2>1 DEF BTypes
    <3> QED
      BY Zenon, <3>2, <3>3, <1>1, <1>7 DEF BTypes
  <2>4. Homes'
    <3> SUFFICES ASSUME NEW t \in Sessions, home'[t] # None
                 PROVE  home'[t] = bufferRoot'[Wrapper(t)] \/ (t \in Writers /\ outlived)
      BY Zenon DEF Homes
    <3>1. CASE t = s
      BY <3>1, <2>1, <1>2, <1>3
    <3>2. CASE t # s
      <4>1. home[t] = bufferRoot[Wrapper(t)] \/ (t \in Writers /\ outlived)
        BY Zenon, <3>2, <1>3 DEF Homes
      <4> QED
        BY Zenon, <4>1, <3>2, <2>1, <1>3, <1>7, WrapperOf
    <3> QED
      BY Zenon, <3>1, <3>2
  <2>5. InUse \ {None} \subseteq InUse' /\ d \in InUse'
    <3>1. bufferRoot'[Wrapper(s)] = d
      BY <1>2, <2>1
    <3>2. ASSUME NEW e \in InUse, e # None PROVE e \in InUse'
      <4>1. CASE \E w \in Wrappers : e = bufferRoot[w]
        BY Zenon, <4>1, <3>2, <1>7, <2>1, InUseIs
      <4>2. CASE \E t \in Sessions : e = home[t] \/ e = doomed[t]
        BY Zenon, <4>2, <3>2, <1>3, InUseIs
      <4> QED BY Zenon, <4>1, <4>2, InUseIs
    <3> QED
      BY Zenon, <3>1, <3>2, <1>2, InUseIs
  <2>6. Roots'
    <3>1. DOMAIN bytes' \subseteq InUse'
      BY Zenon, <2>1, <2>5, <1>5 DEF Roots
    <3>2. bufferRoot'["read"] = bufferRoot'["write"] => bufferRoot'["read"] = None
      BY Zenon, <2>1, <2>2, <1>2 DEF Roots, Wrappers
    <3>3. ASSUME NEW w \in Wrappers, bufferRoot'[w] # None
          PROVE  /\ bufferRoot'[w] \in DOMAIN bytes'
                 /\ \A t \in Sessions : doomed'[t] # bufferRoot'[w]
                 /\ \E t \in Of(w) : at'[t] \notin {"none", "discard"}
      <4>1. CASE w = Wrapper(s)
        BY <4>1, <2>1, <2>2, <1>2, <1>4 DEF Of
      <4>2. CASE w # Wrapper(s)
        BY <4>2, <3>3, <2>1, <1>4 DEF Roots, Of
      <4> QED
        BY Zenon, <4>1, <4>2
    <3> QED
      BY Zenon, <3>1, <3>2, <3>3 DEF Roots, Of
  <2>7. \A w \in Wrappers : BufferSize(w)' <= BufferSize(w)
    BY <2>1, <2>2 DEF BufferSize, BTypes
  <2> QED
    BY <2>3, <2>4, <2>6, <2>7, <1>3
<1> QED
  BY Zenon, <1>1, <1>6, <1>7

\* OpenWriteWithManifest of the holder of the lease.
LEMMA BeginStep ==
    ASSUME LocalInv, NEW c \in cast \cap Callers, BeginSession(c)
    PROVE  LocalInv'
<1> USE DEF LocalInv
<1>1. c \in Sessions /\ c \in Callers
  BY DEF Stage
<1>2. /\ pc[c] = "hold" /\ at[c] = "none" /\ EnsureRoot(c) /\ Move(c, "rooted") /\ c \in Writers
      /\ UNCHANGED <<activeFiles, accounted, used, left, doomed, size>>
      /\ worked' = worked \cup {c} /\ UNCHANGED <<flightVars, scene, outlived>>
  BY DEF BeginSession, Prepare
<1>3. home[c] = None
  BY <1>1, <1>2 DEF Places, Opened
<1>4. /\ bufferRoot' \in [Wrappers -> Dirs \cup {None}]
      /\ home' \in [Sessions -> Dirs \cup {None}]
      /\ bytes' \in [DOMAIN bytes' -> Nat] /\ DOMAIN bytes' \subseteq Dirs
      /\ Roots' /\ Homes'
      /\ \A w \in Wrappers : BufferSize(w)' <= BufferSize(w)
      /\ \A t \in Sessions : t # c => home'[t] = home[t]
  BY Zenon, <1>1, <1>2, <1>3, EnsureRootKept DEF Move
<1>5. \A t \in Sessions : at'[t] = IF t = c THEN "rooted" ELSE at[t]
  BY <1>1, <1>2 DEF Move, BTypes
<1>6. BTypes'
  BY ZenonT(30), <1>1, <1>2, <1>4 DEF BTypes, Move, Opened
<1>7. Stage'
  BY Zenon, <1>2, StageKept
<1>8. Opens'
  BY Zenon, <1>1, <1>2, OpensKept DEF Opened
<1>9. Charges' /\ Places'
  BY <1>2, <1>4, <1>5 DEF Charges, Places, Of
<1>10. Bounded'
  <2>1. \A w \in Wrappers : PendingOf(w)' \subseteq PendingOf(w)
    BY Zenon, <1>2, <1>5 DEF PendingOf, Of, scene
  <2> QED
    BY Zenon, <2>1, <1>2, <1>4, <1>6, <1>7, BoundedKept
<1>11. Leases'
  <2>1. \A d \in Callers : at'[d] # "none" => pc'[d] = "hold" /\ d \in worked'
    BY <1>2, <1>5, WritersAreCallers DEF Leases, flightVars, Sessions
  <2> QED
    BY Zenon, <2>1, <1>1, <1>2 DEF Leases, flightVars, Owner
<1> QED
  BY Zenon, <1>4, <1>6, <1>7, <1>8, <1>9, <1>10, <1>11

\* openTempFile of a read session.
LEMMA OpenTempStep ==
    ASSUME LocalInv, NEW s \in cast, UNCHANGED <<flightVars, scene, worked, outlived>>,
           OpenTemp(s)
    PROVE  LocalInv'
<1> USE DEF LocalInv
<1>1. s \in Sessions
  BY DEF Stage
<1>2. /\ at[s] = "open" /\ home[s] = None /\ EnsureRoot(s) /\ Move(s, "open")
      /\ UNCHANGED <<activeFiles, accounted, used, left, at, doomed, size>>
  BY <1>1 DEF OpenTemp, Move, BTypes
<1>3. /\ bufferRoot' \in [Wrappers -> Dirs \cup {None}]
      /\ home' \in [Sessions -> Dirs \cup {None}]
      /\ bytes' \in [DOMAIN bytes' -> Nat] /\ DOMAIN bytes' \subseteq Dirs
      /\ Roots' /\ Homes'
      /\ \A w \in Wrappers : BufferSize(w)' <= BufferSize(w)
      /\ \A t \in Sessions : t # s => home'[t] = home[t]
  BY Zenon, <1>1, <1>2, EnsureRootKept DEF Move
<1>4. BTypes'
  BY <1>2, <1>3 DEF BTypes
<1>5. Stage' /\ Opens'
  BY Zenon, <1>2 DEF Stage, scene, Opens, OpenOf, Of
<1>6. Charges' /\ Places'
  BY <1>2, <1>3 DEF Charges, Places, Of, Opened
<1>7. Bounded'
  <2>1. \A w \in Wrappers : PendingOf(w)' \subseteq PendingOf(w)
    BY Zenon, <1>2 DEF PendingOf, Of, scene
  <2> QED
    BY Zenon, <2>1, <1>3, <1>4, <1>5, BoundedKept
<1>8. Leases'
  BY Zenon, <1>2, LeasesKept
<1> QED
  BY Zenon, <1>3, <1>4, <1>5, <1>6, <1>7, <1>8

\* SQLite opens the main database file of session s.
LEMMA OpenMainStep ==
    ASSUME LocalInv, NEW s \in cast, UNCHANGED <<flightVars, scene, worked, outlived>>,
           OpenMain(s)
    PROVE  LocalInv'
<1> USE DEF LocalInv
<1>1. s \in Sessions /\ Wrapper(s) \in Wrappers /\ s \in Of(Wrapper(s))
  BY Zenon, WrapperOf DEF Stage
<1>2. /\ at[s] \in {"rooted", "none"} /\ (s \in Writers => at[s] = "rooted") /\ Move(s, "open")
      /\ activeFiles' = [activeFiles EXCEPT ![Wrapper(s)] = @ + 1]
      /\ UNCHANGED <<bufferRoot, accounted, used, left, home, doomed, size>>
  BY Zenon DEF OpenMain
<1>3. /\ bytes' \in [DOMAIN bytes' -> Nat] /\ DOMAIN bytes' \subseteq Dirs
      /\ DOMAIN bytes \subseteq DOMAIN bytes' /\ DOMAIN bytes' \subseteq DOMAIN bytes \cup {home[s]}
      /\ \A d \in DOMAIN bytes' : bytes'[d] = IF d \in DOMAIN bytes THEN bytes[d] ELSE 0
  <2>1. CASE home[s] = None
    BY Zenon, <2>1 DEF OpenMain, BTypes
  <2>2. CASE home[s] # None
    <3>1. bytes' = WithDir(home[s]) /\ home[s] \in Dirs
      BY <2>2, <1>1 DEF OpenMain, BTypes
    <3>2. \A d \in DOMAIN bytes : bytes[d] \in Nat
      BY DEF BTypes
    <3> QED
      BY Zenon, <3>1, <3>2 DEF WithDir, BTypes
  <2> QED
    BY Zenon, <2>1, <2>2
<1>4. \A t \in Sessions : at'[t] = IF t = s THEN "open" ELSE at[t]
  BY Zenon, <1>1, <1>2 DEF Move, BTypes
<1>5. BTypes'
  <2>1. activeFiles' \in [Wrappers -> Nat]
    BY <1>1, <1>2 DEF BTypes
  <2>2. at' \in [Sessions -> Opened \cup {"none", "rooted", "remove", "closing",
                                          "settle", "closed", "discard"}]
    BY <1>1, <1>2 DEF BTypes, Move, Opened
  <2> QED
    BY Zenon, <2>1, <2>2, <1>2, <1>3 DEF BTypes
<1>6. Stage'
  BY <1>2, StageKept
<1>7. Opens'
  <2> SUFFICES ASSUME NEW w \in Wrappers PROVE activeFiles'[w] = Cardinality(OpenOf(w)')
    BY DEF Opens
  <2>1. IsFiniteSet(OpenOf(w)) /\ activeFiles[w] = Cardinality(OpenOf(w))
    BY SessionsFinite DEF OpenOf, Of, Opens
  <2>2. CASE w = Wrapper(s)
    <3>1. OpenOf(w)' = OpenOf(w) \cup {s} /\ s \notin OpenOf(w)
      BY Zenon, <2>2, <1>1, <1>2, <1>4 DEF OpenOf, Of, Opened
    <3>2. activeFiles'[w] = activeFiles[w] + 1
      BY Zenon, <2>2, <1>2 DEF BTypes
    <3> QED
      BY Zenon, <2>1, <3>1, <3>2, FS_AddElement
  <2>3. CASE w # Wrapper(s)
    <3>1. OpenOf(w)' = OpenOf(w)
      BY <2>3, <1>4 DEF OpenOf, Of
    <3>2. activeFiles'[w] = activeFiles[w]
      BY Zenon, <2>3, <1>2 DEF BTypes
    <3> QED
      BY Zenon, <2>1, <3>1, <3>2
  <2> QED
    BY Zenon, <2>2, <2>3
<1>8. Charges' /\ Places' /\ Homes'
  BY Zenon, <1>2, <1>4 DEF Charges, Places, Homes, Of, Opened
<1>9. Roots'
  <2>1. InUse' = InUse /\ home[s] \in InUse
    BY <1>1, <1>2 DEF InUse
  <2>2. DOMAIN bytes' \subseteq InUse'
    BY <2>1, <1>3 DEF Roots
  <2> QED
    BY <2>2, <1>2, <1>3, <1>4 DEF Roots, Of
<1>10. Bounded'
  <2>1. \A w \in Wrappers : PendingOf(w)' \subseteq PendingOf(w)
    BY Zenon, <1>2, <1>4 DEF PendingOf, Of, scene
  <2>2. \A w \in Wrappers : BufferSize(w)' <= BufferSize(w)
    BY <1>2, <1>3 DEF BufferSize, BTypes
  <2> QED
    BY Zenon, <2>1, <2>2, <1>5, <1>6, BoundedKept
<1>11. Leases'
  BY Zenon, <1>2, <1>4, LeasesKept, WritersAreCallers DEF Sessions
<1> QED
  BY Zenon, <1>5, <1>6, <1>7, <1>8, <1>9, <1>10, <1>11

\* Session s gives up its directory, and may take that of its wrapper to
\* remove it.  Nothing is left that nobody knows, unless a lease ran out.
LEMMA LeaveHomeKept ==
    ASSUME BTypes, Roots, Homes, NEW s \in Sessions, LeaveHome(s), doomed[s] = None,
           UNCHANGED <<bufferRoot, doomed>> \/ Detach(s), outlived' = outlived
    PROVE  /\ bufferRoot' \in [Wrappers -> Dirs \cup {None}]
           /\ home' \in [Sessions -> Dirs \cup {None}]
           /\ doomed' \in [Sessions -> Dirs \cup {None}]
           /\ bytes' \in [DOMAIN bytes' -> Nat] /\ DOMAIN bytes' \subseteq Dirs
           /\ DOMAIN bytes' = DOMAIN bytes \cap InUse'
           /\ \A d \in DOMAIN bytes' : bytes'[d] = bytes[d]
           /\ \A t \in Sessions : home'[t] = IF t = s THEN None ELSE home[t]
           /\ \A t \in Sessions : t # s => doomed'[t] = doomed[t]
           /\ \A w \in Wrappers : /\ bufferRoot'[w] \in {bufferRoot[w], None}
                                  /\ w # Wrapper(s) => bufferRoot'[w] = bufferRoot[w]
           /\ left' \in BOOLEAN /\ (left' => outlived')
           /\ \A w \in Wrappers : BufferSize(w)' <= BufferSize(w)
<1>1. Wrapper(s) \in Wrappers
  BY Zenon, WrapperOf
<1>2. \A t \in Sessions : home'[t] = IF t = s THEN None ELSE home[t]
  BY Zenon DEF LeaveHome, BTypes
<1>3. /\ \A t \in Sessions : t # s => doomed'[t] = doomed[t]
      /\ \A w \in Wrappers : /\ bufferRoot'[w] \in {bufferRoot[w], None}
                             /\ w # Wrapper(s) => bufferRoot'[w] = bufferRoot[w]
      /\ bufferRoot[Wrapper(s)] \in {bufferRoot'[Wrapper(s)], doomed'[s]}
  BY Zenon, <1>1 DEF Detach, BTypes
<1>4. /\ bufferRoot' \in [Wrappers -> Dirs \cup {None}]
      /\ home' \in [Sessions -> Dirs \cup {None}]
      /\ doomed' \in [Sessions -> Dirs \cup {None}]
  BY <1>1 DEF Detach, LeaveHome, BTypes
<1>5. /\ DOMAIN bytes' = DOMAIN bytes \cap InUse'
      /\ \A d \in DOMAIN bytes' : bytes'[d] = bytes[d]
  BY Zenon DEF LeaveHome
<1>6. bytes' \in [DOMAIN bytes' -> Nat] /\ DOMAIN bytes' \subseteq Dirs
  <2>1. \A d \in DOMAIN bytes : bytes[d] \in Nat
    BY DEF BTypes
  <2> QED
    BY <2>1, <1>5 DEF LeaveHome, BTypes
<1>7. None \notin DOMAIN bytes
  BY DirsAssumption DEF BTypes
<1>8. ASSUME NEW d \in DOMAIN bytes, d \notin InUse' PROVE outlived
  <2>1. d # None /\ d \in InUse
    BY Zenon, <1>7 DEF Roots
  <2>2. \A w \in Wrappers : d # bufferRoot[w]
    BY Zenon, <1>1, <1>3, <1>8 DEF InUse
  <2>3. \A t \in Sessions : d # doomed[t]
    BY <2>1, <1>3, <1>8 DEF InUse
  <2>4. \A t \in Sessions : t # s => d # home[t]
    BY Zenon, <1>2, <1>8 DEF InUse
  <2>5. d = home[s]
    BY Zenon, <2>1, <2>2, <2>3, <2>4 DEF InUse
  <2> QED
    BY Zenon, <2>1, <2>2, <2>5, <1>1 DEF Homes
<1>9. left' \in BOOLEAN /\ (left' => outlived')
  BY Zenon, <1>8 DEF LeaveHome, Homes, BTypes
<1>10. \A w \in Wrappers : BufferSize(w)' <= BufferSize(w)
  BY <1>3, <1>5, <1>7 DEF BufferSize, BTypes
<1> QED
  BY Zenon, <1>2, <1>3, <1>4, <1>5, <1>6, <1>9, <1>10

\* As long as no lease ran out there is at most one write session.
LEMMA OneWriter ==
    ASSUME Leases, ~outlived, NEW c \in Writers, NEW d \in Writers,
           at[c] # "none", at[d] # "none"
    PROVE  c = d
BY WritersAreCallers DEF Leases, Owner

\* The count of open files tells who has one.
LEMMA FileCount ==
    ASSUME Opens, NEW s \in Sessions
    PROVE  /\ activeFiles[Wrapper(s)] = 0 => OpenOf(Wrapper(s)) = {}
           /\ activeFiles[Wrapper(s)] = 1 /\ at[s] \in Opened => OpenOf(Wrapper(s)) = {s}
           /\ activeFiles[Wrapper(s)] > 0 => OpenOf(Wrapper(s)) # {}
<1> DEFINE w == Wrapper(s)
<1>1. w \in Wrappers /\ s \in Of(w)
  BY WrapperOf
<1>2. IsFiniteSet(OpenOf(w)) /\ activeFiles[w] = Cardinality(OpenOf(w))
  BY <1>1, SessionsFinite DEF OpenOf, Of, Opens
<1>3. Cardinality({}) = 0
  BY FS_EmptySet
<1>4. Cardinality(OpenOf(w)) = 0 => OpenOf(w) = {}
  BY <1>2, FS_EmptySet
<1>5. ASSUME activeFiles[w] = 1, at[s] \in Opened PROVE OpenOf(w) = {s}
  <2>1. s \in OpenOf(w)
    BY Zenon, <1>1, <1>5 DEF OpenOf
  <2>2. /\ IsFiniteSet(OpenOf(w) \ {s})
        /\ Cardinality(OpenOf(w) \ {s}) = Cardinality(OpenOf(w)) - 1
    BY Zenon, <2>1, <1>2, FS_RemoveElement
  <2>3. Cardinality(OpenOf(w) \ {s}) = 0
    BY <2>2, <1>2, <1>5
  <2>4. OpenOf(w) \ {s} = {}
    BY Zenon, <2>2, <2>3, FS_EmptySet
  <2> QED
    BY <2>1, <2>4
<1> QED
  BY <1>2, <1>3, <1>4, <1>5

\* When session s detaches the directory of its wrapper, only a write session
\* that outlived its lease is still in it.
LEMMA NobodyElse ==
    ASSUME LocalInv, NEW s \in Sessions, at[s] # "none", OpenOf(Wrapper(s)) \subseteq {s},
           NEW t \in Sessions, t # s, Wrapper(t) = Wrapper(s), home[t] # None
    PROVE  t \in Writers /\ outlived
<1> USE DEF LocalInv
<1>1. at[t] \in Opened \cup {"rooted"} /\ at[t] # "none"
  BY DEF Places, Opened
<1>2. at[t] \notin Opened
  BY Zenon, WrapperOf DEF OpenOf
<1>3. t \in Writers /\ s \in Writers
  BY <1>1, <1>2, WrapperOf DEF Places
<1> QED
  BY Zenon, <1>1, <1>3, OneWriter DEF Leases

\* The wrapper's directory is detached, or not.
LEMMA DetachRoots ==
    ASSUME Roots, BTypes, NEW s \in Sessions, doomed[s] = None, NEW x, Move(s, x),
           \/ UNCHANGED <<bufferRoot, doomed>> /\ x \notin {"none", "discard"}
           \/ Detach(s),
           DOMAIN bytes' = DOMAIN bytes \cap InUse'
    PROVE  Roots'
<1>1. Wrapper(s) \in Wrappers /\ s \in Of(Wrapper(s))
  BY WrapperOf
<1>2. \A t \in Sessions : at'[t] = IF t = s THEN x ELSE at[t]
  BY Zenon DEF Move, BTypes
<1>3. CASE UNCHANGED <<bufferRoot, doomed>> /\ x \notin {"none", "discard"}
  <2>1. \A w \in Wrappers : bufferRoot[w] \in InUse'
    BY Zenon, <1>3 DEF InUse
  <2> QED
    BY <2>1, <1>2, <1>3 DEF Roots, Of
<1>4. CASE Detach(s)
  <2>1. /\ \A w \in Wrappers : bufferRoot'[w] = IF w = Wrapper(s) THEN None ELSE bufferRoot[w]
        /\ \A t \in Sessions : doomed'[t] = IF t = s THEN bufferRoot[Wrapper(s)] ELSE doomed[t]
    BY <1>4 DEF Detach, BTypes
  <2>2. bufferRoot'["read"] = bufferRoot'["write"] => bufferRoot'["read"] = None
    BY Zenon, <2>1, <1>1 DEF Wrappers
  <2>3. ASSUME NEW w \in Wrappers, bufferRoot'[w] # None
        PROVE  /\ bufferRoot'[w] \in DOMAIN bytes'
               /\ \A t \in Sessions : doomed'[t] # bufferRoot'[w]
               /\ \E t \in Of(w) : at'[t] \notin {"none", "discard"}
    <3>1. w # Wrapper(s) /\ bufferRoot'[w] = bufferRoot[w]
      BY Zenon, <2>1, <2>3
    <3>2. bufferRoot'[w] \in InUse'
      BY Zenon DEF InUse
    <3>3. bufferRoot[w] # bufferRoot[Wrapper(s)]
      BY Zenon, <3>1, <2>3, <1>1 DEF Roots, Wrappers
    <3>4. PICK t \in Of(w) : at[t] \notin {"none", "discard"}
      BY <3>1, <2>3 DEF Roots
    <3>5. at'[t] \notin {"none", "discard"}
      BY Zenon, <3>1, <3>4, <1>2 DEF Of
    <3>6. \A u \in Sessions : doomed'[u] # bufferRoot'[w]
      BY Zenon, <2>1, <2>3, <3>1, <3>3 DEF Roots
    <3> QED
      BY Zenon, <3>1, <3>2, <3>5, <3>6, <2>3 DEF Roots
  <2> QED
    BY Zenon, <2>2, <2>3 DEF Roots, Of
<1> QED
  BY Zenon, <1>3, <1>4

-----------------------------------------------------------------------------
\* The connection of a write session cannot be opened.
LEMMA OpenFailsStep ==
    ASSUME LocalInv, NEW s \in cast, UNCHANGED <<flightVars, scene, worked, outlived>>,
           OpenFails(s)
    PROVE  LocalInv'
<1> USE DEF LocalInv
<1>1. s \in Sessions
  BY DEF Stage
<1>2. /\ at[s] = "rooted" /\ Move(s, "closing") /\ LeaveHome(s)
      /\ UNCHANGED <<bufferRoot, activeFiles, accounted, used, doomed, size>>
  BY Zenon DEF OpenFails
<1>3. doomed[s] = None
  BY <1>1, <1>2 DEF Places
<1>4. /\ home' \in [Sessions -> Dirs \cup {None}]
      /\ bytes' \in [DOMAIN bytes' -> Nat] /\ DOMAIN bytes' \subseteq Dirs
      /\ DOMAIN bytes' = DOMAIN bytes \cap InUse'
      /\ \A t \in Sessions : home'[t] = IF t = s THEN None ELSE home[t]
      /\ left' \in BOOLEAN /\ (left' => outlived')
      /\ \A w \in Wrappers : BufferSize(w)' <= BufferSize(w)
  BY Zenon, <1>1, <1>2, <1>3, LeaveHomeKept
<1>5. \A t \in Sessions : at'[t] = IF t = s THEN "closing" ELSE at[t]
  BY <1>1, <1>2 DEF Move, BTypes
<1>6. BTypes'
  BY Zenon, <1>1, <1>2, <1>4 DEF BTypes, Move, Opened
<1>7. Stage'
  BY <1>2, StageKept
<1>8. Opens'
  BY Zenon, <1>1, <1>2, OpensKept DEF Opened
<1>9. Charges' /\ Places' /\ Homes'
  BY <1>2, <1>4, <1>5 DEF Charges, Places, Homes, Of
<1>10. Roots'
  BY Zenon, <1>1, <1>2, <1>3, <1>4, DetachRoots
<1>11. Bounded'
  <2>1. \A w \in Wrappers : PendingOf(w)' \subseteq PendingOf(w)
    BY Zenon, <1>2, <1>5 DEF PendingOf, Of, scene
  <2> QED
    BY Zenon, <2>1, <1>4, <1>6, <1>7, BoundedKept
<1>12. Leases'
  BY <1>2, <1>5, LeasesKept, WritersAreCallers DEF Sessions
<1> QED
  BY <1>6, <1>7, <1>8, <1>9, <1>10, <1>11, <1>12

\* The main database file of session s is closed.
LEMMA FileClosedStep ==
    ASSUME LocalInv, NEW s \in cast, UNCHANGED <<flightVars, scene, worked, outlived>>,
           FileClosed(s)
    PROVE  LocalInv'
<1> USE DEF LocalInv
<1>1. s \in Sessions /\ Wrapper(s) \in Wrappers /\ s \in Of(Wrapper(s))
  BY WrapperOf DEF Stage
<1>2. /\ at[s] = "open" /\ LeaveHome(s)
      /\ activeFiles' = [activeFiles EXCEPT ![Wrapper(s)] = @ - 1]
      /\ UNCHANGED <<bufferRoot, doomed>> \/ (activeFiles[Wrapper(s)] = 1 /\ Detach(s))
      /\ UNCHANGED <<accounted, used, size>>
  BY Zenon DEF FileClosed
<1>3. PICK x \in {"remove", "closing"} : Move(s, x) /\ (x = "remove" <=> doomed'[s] # None)
  BY Zenon DEF FileClosed
<1>4. doomed[s] = None /\ at[s] \in Opened
  BY <1>1, <1>2 DEF Places, Opened
<1>5. /\ bufferRoot' \in [Wrappers -> Dirs \cup {None}]
      /\ home' \in [Sessions -> Dirs \cup {None}]
      /\ doomed' \in [Sessions -> Dirs \cup {None}]
      /\ bytes' \in [DOMAIN bytes' -> Nat] /\ DOMAIN bytes' \subseteq Dirs
      /\ DOMAIN bytes' = DOMAIN bytes \cap InUse'
      /\ \A t \in Sessions : home'[t] = IF t = s THEN None ELSE home[t]
      /\ \A t \in Sessions : t # s => doomed'[t] = doomed[t]
      /\ \A w \in Wrappers : w # Wrapper(s) => bufferRoot'[w] = bufferRoot[w]
      /\ left' \in BOOLEAN /\ (left' => outlived')
      /\ \A w \in Wrappers : BufferSize(w)' <= BufferSize(w)
  BY Zenon, <1>1, <1>2, <1>4, LeaveHomeKept
<1>6. \A t \in Sessions : at'[t] = IF t = s THEN x ELSE at[t]
  BY <1>1, <1>3 DEF Move, BTypes
<1>7. \A w \in Wrappers : IsFiniteSet(OpenOf(w)) /\ activeFiles[w] = Cardinality(OpenOf(w))
  BY SessionsFinite DEF OpenOf, Of, Opens
<1>8. /\ OpenOf(Wrapper(s))' = OpenOf(Wrapper(s)) \ {s}
      /\ activeFiles'[Wrapper(s)] = Cardinality(OpenOf(Wrapper(s)) \ {s})
  <2>1. OpenOf(Wrapper(s))' = OpenOf(Wrapper(s)) \ {s} /\ s \in OpenOf(Wrapper(s))
    BY <1>1, <1>4, <1>6 DEF OpenOf, Of, Opened
  <2>2. activeFiles'[Wrapper(s)] = activeFiles[Wrapper(s)] - 1
    BY <1>1, <1>2 DEF BTypes
  <2> QED
    BY ZenonT(30), <2>1, <2>2, <1>1, <1>7, FS_RemoveElement
<1>9. Opens'
  <2>1. ASSUME NEW w \in Wrappers, w # Wrapper(s) PROVE activeFiles'[w] = Cardinality(OpenOf(w)')
    <3>1. OpenOf(w)' = OpenOf(w)
      BY <2>1, <1>6 DEF OpenOf, Of
    <3> QED
      BY <3>1, <2>1, <1>2, <1>7 DEF BTypes
  <2> QED
    BY <2>1, <1>8 DEF Opens
<1>10. BTypes'
  <2>1. activeFiles' \in [Wrappers -> Nat]
    <3>1. activeFiles'[Wrapper(s)] \in Nat
      <4>1. IsFiniteSet(OpenOf(Wrapper(s)) \ {s})
        BY <1>1, <1>7, FS_RemoveElement
      <4>2. Cardinality(OpenOf(Wrapper(s)) \ {s}) \in Nat
        BY Zenon, <4>1, FS_CardinalityType
      <4> QED BY Zenon, <1>8, <4>2
    <3> QED
      BY Zenon, <3>1, <1>1, <1>2 DEF BTypes
  <2>2. at' \in [Sessions -> Opened \cup {"none", "rooted", "remove", "closing",
                                          "settle", "closed", "discard"}]
    BY <1>1, <1>3 DEF BTypes, Move
  <2> QED
    BY Zenon, <2>1, <2>2, <1>2, <1>5 DEF BTypes
<1>11. Stage'
  BY <1>3, StageKept
<1>12. Charges' /\ Places'
  <2>1. Charges'
    BY <1>2, <1>3, <1>5, <1>6 DEF Charges, Of, Opened
  <2>2. Places'
    BY <1>2, <1>3, <1>5, <1>6 DEF Places, Opened
  <2> QED BY Zenon, <2>1, <2>2
<1>13. Homes'
  <2> SUFFICES ASSUME NEW t \in Sessions, home'[t] # None
               PROVE  home'[t] = bufferRoot'[Wrapper(t)] \/ (t \in Writers /\ outlived)
    BY Zenon, <1>5 DEF Homes
  <2>1. t # s /\ home'[t] = home[t] /\ Wrapper(t) \in Wrappers
    BY <1>5, WrapperOf
  <2>2. CASE UNCHANGED <<bufferRoot, doomed>> \/ Wrapper(t) # Wrapper(s)
    BY Zenon, <2>1, <2>2, <1>5 DEF Homes
  <2>3. CASE activeFiles[Wrapper(s)] = 1 /\ Wrapper(t) = Wrapper(s)
    <3>1. OpenOf(Wrapper(s)) = {s}
      BY <2>3, <1>1, <1>4, FileCount
    <3> QED
      BY Zenon, <3>1, <2>1, <2>3, <1>1, <1>2, NobodyElse
  <2> QED
    BY Zenon, <2>2, <2>3, <1>2
<1>14. Roots'
  BY <1>1, <1>2, <1>3, <1>4, <1>5, DetachRoots
<1>15. Bounded'
  <2>1. \A w \in Wrappers : PendingOf(w)' \subseteq PendingOf(w)
    BY Zenon, <1>2, <1>3, <1>6 DEF PendingOf, Of, scene
  <2> QED
    BY Zenon, <2>1, <1>5, <1>10, <1>11, BoundedKept
<1>16. Leases'
  BY Zenon, <1>2, <1>3, <1>6, LeasesKept, WritersAreCallers DEF Sessions
<1> QED
  BY Zenon, <1>9, <1>10, <1>11, <1>12, <1>13, <1>14, <1>15, <1>16

\* The directory that session s detached is removed, and what the wrapper was
\* charged is given back.
LEMMA RemoveStep ==
    ASSUME LocalInv, NEW s \in cast, UNCHANGED <<flightVars, scene, worked, outlived>>,
           Remove(s) \/ Discarded(s)
    PROVE  LocalInv'
<1> USE DEF LocalInv
<1>1. s \in Sessions /\ Wrapper(s) \in Wrappers /\ s \in Of(Wrapper(s))
  BY WrapperOf DEF Stage
<1>2. PICK x \in {"closing", "none"} :
        /\ Move(s, x) /\ at[s] \in {"remove", "discard"}
        /\ x = "none" => at[s] = "discard"
  BY Zenon DEF Remove, Discarded
<1>3. /\ Refund(Wrapper(s)) /\ RemoveAll(s)
      /\ UNCHANGED <<bufferRoot, activeFiles, left, home, size>>
  BY Zenon DEF Remove, Discarded, RemoveAll
<1>4. \A t \in Sessions : at'[t] = IF t = s THEN x ELSE at[t]
  BY Zenon, <1>1, <1>2 DEF Move, BTypes
<1>5. /\ DOMAIN bytes' = DOMAIN bytes \ {doomed[s]}
      /\ \A d \in DOMAIN bytes' : bytes'[d] = bytes[d]
      /\ \A t \in Sessions : doomed'[t] = IF t = s THEN None ELSE doomed[t]
  BY Zenon, <1>3 DEF RemoveAll, BTypes
<1>6. \A w \in Wrappers : accounted[w] \in Nat /\ accounted'[w] = IF w = Wrapper(s) THEN 0 ELSE accounted[w]
  BY Zenon, <1>3 DEF Refund, BTypes
<1>7. BTypes'
  <2>1. bytes' \in [DOMAIN bytes' -> Nat] /\ DOMAIN bytes' \subseteq Dirs
    <3>1. \A d \in DOMAIN bytes : bytes[d] \in Nat
      BY DEF BTypes
    <3> QED
      BY Zenon, <3>1, <1>3, <1>5 DEF RemoveAll, BTypes
  <2>2. accounted' \in [Wrappers -> Nat] /\ doomed' \in [Sessions -> Dirs \cup {None}]
    BY Zenon, <1>3 DEF Refund, RemoveAll, BTypes
  <2>3. at' \in [Sessions -> Opened \cup {"none", "rooted", "remove", "closing",
                                          "settle", "closed", "discard"}]
    BY <1>1, <1>2 DEF BTypes, Move
  <2> QED
    BY Zenon, <2>1, <2>2, <2>3, <1>3 DEF BTypes
<1>8. Stage'
  BY <1>2, StageKept
<1>9. Opens'
  BY Zenon, <1>1, <1>2, <1>3, OpensKept DEF Opened
<1>10. Charges'
  <2>1. used' = accounted'["read"] + accounted'["write"]
    <3>1. "read" \in Wrappers /\ "write" \in Wrappers /\ Wrapper(s) \in {"read", "write"}
      BY Zenon, <1>1 DEF Wrappers
    <3>2. /\ used = accounted["read"] + accounted["write"]
          /\ used' = IF used - accounted[Wrapper(s)] < 0 THEN 0
                     ELSE used - accounted[Wrapper(s)]
      BY Zenon, <1>3 DEF Refund, Charges, NotNegative
    <3>3. CASE Wrapper(s) = "read"
      BY <3>1, <3>2, <3>3, <1>6
    <3>4. CASE Wrapper(s) = "write"
      BY <3>1, <3>2, <3>4, <1>6
    <3> QED
      BY <3>1, <3>3, <3>4
  <2>2. ASSUME NEW w \in Wrappers, accounted'[w] # 0 PROVE \E t \in Of(w) : at'[t] # "none"
    <3>1. w # Wrapper(s) /\ accounted[w] # 0
      BY Zenon, <2>2, <1>6
    <3>2. PICK t \in Of(w) : at[t] # "none"
      BY <3>1 DEF Charges
    <3>3. at'[t] # "none"
      BY <3>1, <3>2, <1>4 DEF Of
    <3> QED
      BY Zenon, <3>3
  <2> QED
    BY <2>1, <2>2 DEF Charges, Of
<1>11. Places' /\ Homes'
  BY ZenonT(30), <1>1, <1>2, <1>3, <1>4, <1>5 DEF Places, Homes, Opened
<1>12. Roots'
  <2>1. DOMAIN bytes' \subseteq InUse'
    <3>1. InUse \ {doomed[s]} \subseteq InUse'
      <4> SUFFICES ASSUME NEW d \in InUse, d # doomed[s] PROVE d \in InUse'
        BY Zenon
      <4>1. \A t \in Sessions : d = doomed[t] => d = doomed'[t]
        BY Zenon, <1>3, <1>5
      <4>2. \/ \E w \in Wrappers : d = bufferRoot[w]
            \/ \E t \in Sessions : d = home[t] \/ d = doomed[t]
        BY Zenon, InUseIs
      <4>3. \/ \E w \in Wrappers : d = bufferRoot'[w]
            \/ \E t \in Sessions : d = home'[t] \/ d = doomed'[t]
        BY Zenon, <1>3, <4>1, <4>2
      <4> QED BY Zenon, <4>3, InUseIs
    <3> QED
      BY ZenonT(30), <3>1, <1>5 DEF Roots
  <2>2. \A t \in Sessions : at[t] \notin {"none", "discard"} => at'[t] \notin {"none", "discard"}
    BY <1>2, <1>4
  <2>3. ASSUME NEW w \in Wrappers, bufferRoot'[w] # None
        PROVE  /\ bufferRoot'[w] \in DOMAIN bytes'
               /\ \A t \in Sessions : doomed'[t] # bufferRoot'[w]
               /\ \E t \in Of(w) : at'[t] \notin {"none", "discard"}
    BY Zenon, <2>2, <2>3, <1>1, <1>3, <1>5 DEF Roots, Of
  <2> QED
    BY <2>1, <2>3, <1>3 DEF Roots, Of
<1>13. Bounded'
  <2>1. \A w \in Wrappers : PendingOf(w)' \subseteq PendingOf(w)
    BY Zenon, <1>2, <1>3, <1>4 DEF PendingOf, Of, scene
  <2>2. \A w \in Wrappers : BufferSize(w)' <= BufferSize(w)
    BY <1>3, <1>5 DEF BufferSize, BTypes
  <2> QED
    BY Zenon, <2>1, <2>2, <1>7, <1>8, BoundedKept
<1>14. Leases'
  BY Zenon, <1>2, <1>4, LeasesKept, WritersAreCallers DEF Sessions
<1> QED
  BY Zenon, <1>7, <1>8, <1>9, <1>10, <1>11, <1>12, <1>13, <1>14

\* discardBuffers up to the unlock.
LEMMA DiscardStep ==
    ASSUME LocalInv, NEW s \in cast, UNCHANGED <<flightVars, scene, worked, outlived>>,
           Discard(s)
    PROVE  LocalInv'
<1> USE DEF LocalInv
<1>1. s \in Sessions /\ Wrapper(s) \in Wrappers /\ s \in Of(Wrapper(s))
  BY WrapperOf DEF Stage
<1>2. PICK x \in {"none", "discard"} :
        /\ Move(s, x) /\ at[s] \in {"closing", "closed"}
        /\ x = "none" => activeFiles[Wrapper(s)] > 0 /\ UNCHANGED <<doomed, bufferRoot>>
        /\ x = "discard" => activeFiles[Wrapper(s)] = 0 /\ Detach(s)
  BY <1>1 DEF Discard, BTypes
<1>3. UNCHANGED <<activeFiles, accounted, used, bytes, left, home, size>>
  BY Zenon DEF Discard
<1>4. \A t \in Sessions : at'[t] = IF t = s THEN x ELSE at[t]
  BY Zenon, <1>1, <1>2 DEF Move, BTypes
<1>5. doomed[s] = None /\ home[s] = None
  BY Zenon, <1>1, <1>2 DEF Places, Opened
<1>6. BTypes'
  <2>1. /\ bufferRoot' \in [Wrappers -> Dirs \cup {None}]
        /\ doomed' \in [Sessions -> Dirs \cup {None}]
    BY Zenon, <1>1, <1>2 DEF Detach, BTypes
  <2>2. at' \in [Sessions -> Opened \cup {"none", "rooted", "remove", "closing",
                                          "settle", "closed", "discard"}]
    BY Zenon, <1>1, <1>2 DEF BTypes, Move
  <2> QED
    BY Zenon, <2>1, <2>2, <1>3 DEF BTypes
<1>7. Stage'
  BY <1>2, StageKept
<1>8. Opens'
  BY Zenon, <1>1, <1>2, <1>3, OpensKept DEF Opened
<1>9. Leases'
  BY Zenon, <1>2, <1>4, LeasesKept, WritersAreCallers DEF Sessions
<1>10. None \notin DOMAIN bytes
  BY Zenon, DirsAssumption DEF BTypes
<1>11. /\ \A w \in Wrappers : bufferRoot'[w] \in {bufferRoot[w], None}
       /\ \A t \in Sessions : t # s => doomed'[t] = doomed[t]
  BY <1>2 DEF Detach, BTypes
<1>12. Bounded'
  <2>1. \A w \in Wrappers : PendingOf(w)' \subseteq PendingOf(w)
    BY Zenon, <1>2, <1>3, <1>4 DEF PendingOf, Of, scene
  <2>2. \A w \in Wrappers : BufferSize(w)' <= BufferSize(w)
    BY <1>3, <1>10, <1>11 DEF BufferSize, BTypes
  <2> QED
    BY Zenon, <2>1, <2>2, <1>6, <1>7, BoundedKept
<1>13. CASE x = "none"
  <2>1. PICK u \in OpenOf(Wrapper(s)) : TRUE
    BY Zenon, <1>1, <1>2, <1>13, FileCount
  <2>2. u \in Of(Wrapper(s)) /\ at'[u] \notin {"none", "discard"}
    BY Zenon, <1>2, <1>4 DEF OpenOf, Of, Opened
  <2>3. \A t \in Sessions : t # s => at'[t] = at[t]
    BY <1>4
  <2>4. Charges'
    <3>1. ASSUME NEW w \in Wrappers, accounted[w] # 0 PROVE \E t \in Of(w) : at'[t] # "none"
      BY Zenon, <2>2, <2>3, <3>1, WrapperOf DEF Charges, Of
    <3> QED
      BY Zenon, <3>1, <1>3 DEF Charges, Of
  <2>5. Places' /\ Homes'
    BY <1>2, <1>3, <1>4, <1>5, <1>13 DEF Places, Homes, Opened
  <2>6. Roots'
    <3>1. InUse' = InUse
      BY <1>2, <1>3, <1>13 DEF InUse
    <3>2. ASSUME NEW w \in Wrappers, bufferRoot[w] # None
          PROVE  \E t \in Of(w) : at'[t] \notin {"none", "discard"}
      BY Zenon, <2>2, <2>3, <3>2, WrapperOf DEF Roots, Of
    <3> QED
      BY ZenonT(30), <3>1, <3>2, <1>2, <1>3, <1>13 DEF Roots, Of
  <2> QED
    BY Zenon, <2>4, <2>5, <2>6, <1>6, <1>7, <1>8, <1>9, <1>12
<1>14. CASE x = "discard"
  <2>1. Detach(s) /\ activeFiles[Wrapper(s)] = 0
    BY <1>2, <1>14
  <2>2. Charges' /\ Places'
    BY Zenon, <1>2, <1>3, <1>4, <1>5, <1>11, <1>14 DEF Charges, Places, Opened, Of
  <2>3. DOMAIN bytes' = DOMAIN bytes \cap InUse'
    <3>1. InUse \ {None} \subseteq InUse'
      <4>1. doomed'[s] = bufferRoot[Wrapper(s)]
        BY <2>1, <1>1 DEF Detach, BTypes
      <4>2. \A w \in Wrappers : bufferRoot'[w] = bufferRoot[w] \/ bufferRoot[w] = doomed'[s]
        BY Zenon, <4>1, <2>1 DEF Detach, BTypes
      <4>3. ASSUME NEW d \in InUse, d # None PROVE d \in InUse'
        <5>1. CASE \E w \in Wrappers : d = bufferRoot[w]
          BY Zenon, <5>1, <4>2, <1>1, InUseIs
        <5>2. CASE \E t \in Sessions : d = home[t]
          BY Zenon, <5>2, <1>3, InUseIs
        <5>3. CASE \E t \in Sessions : d = doomed[t]
          BY Zenon, <5>3, <4>3, <1>5, <1>11, InUseIs
        <5> QED BY Zenon, <5>1, <5>2, <5>3, InUseIs
      <4> QED BY Zenon, <4>3
    <3> QED
      BY Zenon, <3>1, <1>3, <1>10 DEF Roots
  <2>4. Roots'
    BY Zenon, <2>1, <2>3, <1>1, <1>2, <1>5, DetachRoots
  <2>5. Homes'
    <3> SUFFICES ASSUME NEW t \in Sessions, home'[t] # None
                 PROVE  home'[t] = bufferRoot'[Wrapper(t)] \/ (t \in Writers /\ outlived)
      BY Zenon, <1>3 DEF Homes
    <3>1. t # s /\ home'[t] = home[t] /\ Wrapper(t) \in Wrappers
      BY <1>3, <1>5, WrapperOf
    <3>2. CASE Wrapper(t) # Wrapper(s)
      BY Zenon, <3>1, <3>2, <2>1 DEF Homes, Detach, BTypes
    <3>3. CASE Wrapper(t) = Wrapper(s)
      <4>1. OpenOf(Wrapper(s)) = {}
        BY Zenon, <2>1, <1>1, FileCount
      <4> QED
        BY Zenon, <4>1, <3>1, <3>3, <1>1, <1>2, NobodyElse
    <3> QED
      BY Zenon, <3>2, <3>3
  <2> QED
    BY <2>2, <2>4, <2>5, <1>6, <1>7, <1>8, <1>9, <1>12
<1> QED
  BY Zenon, <1>2, <1>13, <1>14

-----------------------------------------------------------------------------
\* A step of the queue leaves the sessions alone; only the holder of the lease
\* changes.
LEMMA SessionsKept ==
    ASSUME LocalInv, UNCHANGED <<bufferVars, scene>>, Leases', outlived => outlived'
    PROVE  LocalInv'
<1> USE DEF LocalInv
<1>1. BTypes'
  BY Zenon DEF BTypes, bufferVars
<1>2. Stage' /\ Opens' /\ Charges' /\ Places'
  BY DEF Stage, Opens, Charges, Places, bufferVars, scene, OpenOf, Of
<1>3. Roots' /\ Homes'
  <2>1. InUse' = InUse
    BY DEF InUse, bufferVars
  <2>2. Roots'
    BY <2>1, Zenon DEF Roots, bufferVars, Of
  <2>3. Homes'
    BY Zenon DEF Homes, bufferVars
  <2> QED BY Zenon, <2>2, <2>3
<1>4. Bounded'
  BY Zenon DEF Bounded, bufferVars, scene, BufferSize, PendingOf, CastOf, Of
<1> QED
  BY <1>1, <1>2, <1>3, <1>4

\* A step of the queue of caller c, which is not in a session.
LEMMA CallerLeases ==
    ASSUME FTypes, Leases, NEW c \in Callers, at[c] = "none",
           \/ Call(c) \/ AcquireStep(c) \/ Deadline(c)
           \/ Abandon(c) \/ \E o \in {"ok", "retry", "final"} : Release(c, o),
           UNCHANGED <<at, outlived>>, worked' \in {worked, worked \ {c}}
    PROVE  Leases'
<1>1. \A d \in Callers : d # c => pc'[d] = pc[d] /\ outcome'[d] = outcome[d]
  BY Zenon
    DEF FTypes, Call, Join, AcquireStep, Deadline, Abandon, Release, Lock, Capture, Get, Cas,
         Again, Wait, Unlock, Leave, Notify, Failed, Settle, Go, Done
<1>2. \A d \in Callers : at'[d] # "none" => pc'[d] = "hold" /\ d \in worked'
  BY Zenon, <1>1 DEF Leases
<1>3. \A d \in Callers : d # c => (Owner(d)' <=> Owner(d))
  BY Zenon, <1>1 DEF Owner
<1> DEFINE Goal == /\ ~expired'
                   /\ fresh' # {} => holder' \in {"free", "freed"}
                   /\ \A d \in Callers : Owner(d)' => holder' = d
<1>4. ASSUME ~outlived PROVE Goal
  <2>1. /\ ~expired /\ (fresh # {} => holder \in {"free", "freed"})
        /\ \A d \in Callers : Owner(d) => holder = d
    BY Zenon, <1>4 DEF Leases
  <2>2. ASSUME holder' = holder, expired' = expired, fresh' \subseteq fresh, Owner(c)' => Owner(c)
        PROVE  Goal
    BY <2>1, <2>2, <1>3
  <2>3. CASE Get(c)
    <3>1. ~(Owner(c)')
      BY <2>3 DEF Get, Again, Settle, Go, Owner, FTypes
    <3>2. holder' = holder /\ expired' = expired /\ (fresh' # fresh => Takeable)
      BY Zenon, <2>3 DEF Get
    <3> QED
      BY Zenon, <2>1, <3>1, <3>2, <1>3 DEF Takeable
  <2>4. CASE Cas(c)
    <3>1. CASE c \in fresh /\ Record(c)
      <4>1. \A d \in Callers : ~Owner(d)
        BY Zenon, <2>1, <3>1, CallersAssumption
      <4> QED
        BY Zenon, <4>1, <3>1, <1>3 DEF Record
    <3>2. CASE c \in fresh /\ Record("other") /\ Settle(c, "retry", "unlock")
      <4>1. \A d \in Callers : ~Owner(d)
        BY Zenon, <2>1, <3>2, CallersAssumption
      <4>2. ~(Owner(c)')
        BY <3>2 DEF Settle, Go, Owner, FTypes
      <4> QED
        BY Zenon, <4>1, <4>2, <3>2, <1>3 DEF Record
    <3>3. CASE /\ holder' = holder /\ expired' = expired /\ fresh' \subseteq fresh
               /\ Again(c) \/ Settle(c, "retry", "unlock")
      <4>1. ~(Owner(c)')
        BY Zenon, <2>4, <3>3 DEF Cas, Again, Settle, Go, Owner, FTypes
      <4> QED
        BY Zenon, <4>1, <3>3, <2>2
    <3> QED
      BY Zenon, <2>4, <3>1, <3>2, <3>3 DEF Cas
  <2>5. CASE Call(c) \/ Lock(c) \/ Capture(c) \/ Wait(c) \/ Unlock(c) \/ Leave(c)
             \/ Notify(c) \/ Failed(c) \/ Deadline(c)
    <3>1. UNCHANGED <<holder, expired, fresh>>
      BY Zenon, <2>5
        DEF Call, Lock, Capture, Wait, Unlock, Leave, Notify, Failed, Deadline, Join
    <3>2. Owner(c)' => Owner(c)
      BY Zenon, <2>5
        DEF Call, Lock, Capture, Wait, Unlock, Leave, Notify, Failed, Deadline, Join,
                  Settle, Go, Done, Owner, FTypes
    <3> QED
      BY <3>1, <3>2, <2>2
  <2>6. CASE Abandon(c) \/ \E o \in {"ok", "retry", "final"} : Release(c, o)
    <3>1. ~(Owner(c)')
      BY Zenon, <2>6 DEF Abandon, Release, Settle, Go, Owner, FTypes
    <3>2. \/ UNCHANGED <<holder, expired, fresh>>
          \/ holder = c /\ expired' = FALSE /\ fresh' = {}
      BY Zenon, <2>6 DEF Abandon, Release, Record
    <3>3. CASE holder = c /\ expired' = FALSE /\ fresh' = {}
      BY Zenon, <3>1, <3>3, <2>1, <1>3
    <3> QED
      BY ZenonT(30), <3>1, <3>2, <3>3, <2>2
  <2> QED
    BY Zenon, <2>3, <2>4, <2>5, <2>6 DEF AcquireStep
<1>5. expired' => outlived'
  BY <1>4
<1> QED
  BY <1>2, <1>4, <1>5 DEF Leases

-----------------------------------------------------------------------------
\* The initial state.
LEMMA LocalInitInv == Init => LocalInv
<1> SUFFICES ASSUME Init PROVE LocalInv
  OBVIOUS
<1> USE DEF Init, BuffersInit
<1>1. PICK sc \in Scenes : cast = sc.cast /\ limit = sc.limit
  OBVIOUS
<1>2. BTypes
  BY Zenon DEF BTypes, Opened
<1>3. Stage
  <2>1. sc \in [cast : SUBSET Sessions, limit : Nat]
    BY Zenon, ScenesAreOfSessions
  <2>2. sc = [cast |-> cast, limit |-> limit]
    BY Zenon, <2>1, <1>1
  <2> QED
    BY Zenon, <2>1, <2>2, <1>1 DEF Stage
<1>4. Opens /\ Charges /\ Places
  <2>1. \A w \in Wrappers : OpenOf(w) = {}
    BY DEF OpenOf, Of, Opened
  <2>2. Opens
    BY Zenon, <2>1, FS_EmptySet DEF Opens
  <2> QED
    BY <2>2 DEF Charges, Places, Wrappers
<1>5. Roots /\ Homes
  BY Zenon DEF Roots, Homes, Wrappers
<1>6. Bounded
  <2> SUFFICES ASSUME limit > 0, NEW w \in Wrappers
               PROVE  BufferSize(w) + Cardinality(PendingOf(w)) <= limit + Cardinality(CastOf(w)) - 1
    BY DEF Bounded
  <2>1. BufferSize(w) = 0
    BY Zenon DEF BufferSize
  <2>2. PendingOf(w) = {}
    BY Zenon DEF PendingOf, Of
  <2>3. Cardinality(PendingOf(w)) = 0
    BY Zenon, <2>2, FS_EmptySet
  <2>4. Cardinality(CastOf(w)) \in Nat /\ limit \in Nat
    BY <1>3, PendingBound DEF Stage
  <2> QED
    BY <2>1, <2>3, <2>4
<1>7. Leases
  BY Zenon, WritersAreCallers DEF Leases, FlightInit, Owner, Sessions
<1> QED
  BY <1>2, <1>3, <1>4, <1>5, <1>6, <1>7 DEF LocalInv

\* Another process, or time, changes the record.
LEMMA WorldStep ==
    ASSUME LocalInv, FTypes, World
    PROVE  LocalInv'
<1> USE DEF LocalInv
<1>1. /\ UNCHANGED <<bufferVars, scene, worked>> /\ Elsewhere
      /\ outlived' = (outlived \/ expired')
  BY Zenon DEF World
<1>2. UNCHANGED <<pc, outcome, at>>
  BY Zenon, <1>1 DEF Elsewhere, bufferVars
<1>3. \A c \in Callers : Owner(c)' <=> Owner(c)
  BY Zenon, <1>2 DEF Owner
<1>4. ASSUME ~outlived'
      PROVE  /\ fresh' # {} => holder' \in {"free", "freed"}
             /\ \A c \in Callers : Owner(c)' => holder' = c
  <2>1. ~outlived /\ ~expired /\ ~expired'
    BY Zenon, <1>1, <1>4 DEF Leases
  <2>2. CASE Takeable /\ Record("other")
    BY Zenon, <2>1, <2>2, <1>3, CallersAssumption DEF Takeable, Record, Leases
  <2>3. CASE holder = "other" /\ Record("free")
    BY <2>1, <2>3, <1>3, CallersAssumption DEF Record, Leases
  <2> QED
    BY <2>1, <2>2, <2>3, <1>1 DEF Elsewhere
<1>5. outlived' \in BOOLEAN
  BY <1>1
<1>6. Leases'
  BY Zenon, <1>1, <1>2, <1>4, <1>5 DEF Leases
<1> QED
  BY Zenon, <1>1, <1>6, SessionsKept

\* Every step preserves the invariant.
LEMMA LocalNextInv == LocalInv /\ FlightInv /\ [Next]_vars => LocalInv'
<1> SUFFICES ASSUME LocalInv, FlightInv, [Next]_vars PROVE LocalInv'
  OBVIOUS
<1>1. FTypes
  BY DEF FlightInv
<1>2. CASE World
  BY Zenon, <1>1, <1>2, WorldStep
<1>3. ASSUME NEW s \in cast, SessionStep(s) PROVE LocalInv'
  BY Zenon, <1>3, OpenMainStep, OpenFailsStep, OpenTempStep, MeasureStep, ApplyStep, WriteStep,
     FileClosedStep, RemoveStep, DiscardStep DEF SessionStep, Work, Close
<1>4. ASSUME NEW c \in cast \cap Callers,
             CallerStep(c) \/ BeginSession(c) \/ EndAttempt(c) \/ NoSession(c)
      PROVE  LocalInv'
  <2>1. CASE BeginSession(c)
    BY <2>1, BeginStep
  <2>2. CASE CallerStep(c) \/ EndAttempt(c) \/ NoSession(c)
    <3>1. at[c] = "none"
      <4>1. CASE CallerStep(c)
        BY Zenon, <4>1 DEF CallerStep, Call, AcquireStep, Deadline, Lock, Capture, Get, Cas, Wait,
                    Unlock, Leave, Notify, Failed, LocalInv, Leases
      <4>2. CASE EndAttempt(c) \/ NoSession(c)
        BY Zenon, <4>2 DEF EndAttempt, NoSession, LocalInv, Leases
      <4> QED
        BY Zenon, <2>2, <4>1, <4>2
    <3>2. UNCHANGED <<bufferVars, scene, outlived>> /\ worked' \in {worked, worked \ {c}}
      BY <2>2 DEF CallerStep, EndAttempt, NoSession
    <3>3. \/ Call(c) \/ AcquireStep(c) \/ Deadline(c)
          \/ Abandon(c) \/ \E o \in {"ok", "retry", "final"} : Release(c, o)
      BY Zenon, <2>2 DEF CallerStep, EndAttempt, NoSession
    <3>4. Leases'
      BY <3>1, <3>2, <3>3, <1>1, CallerLeases DEF LocalInv, bufferVars
    <3> QED
      BY <3>2, <3>4, SessionsKept
  <2> QED
    BY <1>4, <2>1, <2>2
<1>5. CASE UNCHANGED vars
  <2>1. Leases'
    BY <1>5 DEF LocalInv, Leases, vars, flightVars, bufferVars, Owner
  <2> QED
    BY Zenon, <2>1, <1>5, SessionsKept DEF vars
<1> QED
  BY Zenon, <1>2, <1>3, <1>4, <1>5 DEF Next

LEMMA LocalInvariant == Spec => [](LocalInv /\ FlightInv)
<1>1. Init => LocalInv
  BY LocalInitInv
<1>2. LocalInv /\ FlightInv /\ [Next]_vars => LocalInv'
  BY LocalNextInv
<1> QED
  BY <1>1, <1>2, LocalFlightInv, PTL DEF Spec

-----------------------------------------------------------------------------
\* What the invariant says in the words of the properties.
LEMMA LocalInvImplies ==
    LocalInv /\ FlightInv => LocalTypeOK /\ SessionHasBuffer /\ NothingCharged /\ TempBounded
<1> SUFFICES ASSUME LocalInv, FlightInv
             PROVE  LocalTypeOK /\ SessionHasBuffer /\ NothingCharged /\ TempBounded
  BY Zenon
<1> USE DEF LocalInv
<1>1. LocalTypeOK
  <2>1. FlightTypeOK
    BY Zenon, FlightInvImplies
  <2>2. activeFiles \in [Wrappers -> 0 .. Cardinality(Sessions)]
    <3>1. ASSUME NEW w \in Wrappers PROVE activeFiles[w] \in 0 .. Cardinality(Sessions)
      <4>1. OpenOf(w) \in SUBSET Sessions
        BY DEF OpenOf, Of
      <4>2. /\ Cardinality(OpenOf(w)) \in Nat /\ Cardinality(Sessions) \in Nat
            /\ Cardinality(OpenOf(w)) <= Cardinality(Sessions)
        BY Zenon, <4>1, SessionsFinite
      <4> QED
        BY <4>2 DEF Opens
    <3> QED
      BY <3>1 DEF BTypes
  <2>3. used \in Nat
    BY DEF Charges, BTypes, Wrappers
  <2>4. BuffersTypeOK
    BY Zenon, <2>2, <2>3 DEF BTypes, BuffersTypeOK
  <2> QED
    BY <2>1, <2>4 DEF LocalTypeOK, Stage, Leases
<1>2. SessionHasBuffer
  BY WrapperOf DEF SessionHasBuffer, Homes, Roots
<1>3. NothingCharged
  <2> SUFFICES ASSUME \A s \in Sessions : at[s] = "none"
               PROVE  used = 0 /\ DOMAIN bytes = {} /\ (left => outlived)
    BY DEF NothingCharged
  <2>1. \A w \in Wrappers : accounted[w] = 0 /\ bufferRoot[w] = None
    BY DEF Charges, Roots, Of
  <2>2. used = 0
    BY <2>1 DEF Charges, Wrappers
  <2>3. \A s \in Sessions : home[s] = None /\ doomed[s] = None
    BY DEF Places, Opened
  <2>4. InUse \subseteq {None}
    BY <2>1, <2>3 DEF InUse
  <2> QED
    BY ZenonT(30), <2>2, <2>4, DirsAssumption DEF Roots, BTypes, Homes
<1>4. TempBounded
  <2> SUFFICES ASSUME limit > 0, NEW w \in Wrappers
               PROVE  BufferSize(w) <= limit + Cardinality(CastOf(w)) - 1
    BY DEF TempBounded, CastOf
  <2>1. BufferSize(w) + Cardinality(PendingOf(w)) <= limit + Cardinality(CastOf(w)) - 1
    BY DEF Bounded
  <2>2. Cardinality(PendingOf(w)) \in Nat /\ Cardinality(CastOf(w)) \in Nat
    BY PendingBound
  <2>3. BufferSize(w) \in Nat /\ limit \in Nat
    BY DEF BufferSize, BTypes, Stage
  <2> QED
    BY <2>1, <2>2, <2>3
<1> QED
  BY <1>1, <1>2, <1>3, <1>4

\* The variables of the process have their types: no count of callers, files or
\* bytes goes below zero or beyond the callers and sessions there are.
THEOREM LocalTypes == Spec => []LocalTypeOK
BY LocalInvariant, LocalInvImplies, PTL

\* An open session keeps its directory, for any number of sessions of both
\* wrappers, as long as no write session outlives its lease (the session is
\* closed before the lease is released, runtime.go:831).
THEOREM LocalSessionHasBuffer == Spec => []SessionHasBuffer
BY LocalInvariant, LocalInvImplies, PTL

\* When every session is closed, the budget is whole and no directory is left
\* (fileClosed, discardBuffers, tempBudget.release).
THEOREM LocalNothingCharged == Spec => []NothingCharged
BY LocalInvariant, LocalInvImplies, PTL

\* However many sessions pass the check together, the directory of a wrapper
\* exceeds the limit by less than their number (tempBudget.check).
THEOREM LocalTempBounded == Spec => []TempBounded
BY LocalInvariant, LocalInvImplies, PTL
=============================================================================
