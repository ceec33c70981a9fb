------------------------------- MODULE Lease -------------------------------
(***************************************************************************)
(* One write lease of walrusd (src/lease): the record kept in Redis/Valkey *)
(* under one key, and the clients that acquire, renew, release, abandon    *)
(* or lose it.  A client is one call of Manager.Acquire and the Held it    *)
(* returns; every client reads its own wall clock, and the clocks of two   *)
(* clients differ by at most MaxSpread.                                    *)
(*                                                                         *)
(* Every mutation of the record is one compare-and-swap.  A CAS is sent,   *)
(* takes effect at the store and is answered in three separate steps.  Its *)
(* caller may give up in between (a transport error), and then the CAS may *)
(* still take effect later: it has become a stray.                         *)
(*                                                                         *)
(* The record keeps state, epoch and expires_at; format_version,           *)
(* database_id, owner and lease_id decide nothing here (acquireOnce only   *)
(* compares database_id, which is constant for one key).                   *)
(***************************************************************************)
EXTENDS Integers, FiniteSets

CONSTANTS
    Clients,            \* callers of Manager.Acquire on this key
    Duration,           \* Config.Duration, in clock units
    Skew,               \* Config.ClockSkewAllowance
    MaxSpread,          \* largest difference between two clients' clocks
    NoToken,            \* the token of a key that does not exist
    MaxTime,            \* bound: the largest clock value
    MaxMint,            \* bound: tokens minted in all
    AcquireHorizon      \* bound: no acquisition is sent at or after this time

ASSUME DurationAssumption == Duration \in Nat \ {0}
ASSUME SkewAssumption == Skew \in Nat
\* The allowance is applied twice: the holder stops Skew before the expiry and
\* a taker waits until Skew after it.
ASSUME SpreadAssumption == MaxSpread \in Nat /\ MaxSpread <= 2 * Skew
ASSUME TokenAssumption == NoToken \notin Clients \X Nat
ASSUME BoundAssumption == MaxTime \in Nat /\ MaxMint \in Nat /\ AcquireHorizon \in Nat

VARIABLES
    clock,      \* clock[c]: the wall clock c reads (cfg.now)
    store,      \* the record and its CAS token
    mint,       \* tokens minted so far
    pc,         \* where c is in Acquire ... Release/Abandon
    snap,       \* snap[c]: what acquireOnce read
    lease,      \* lease[c]: Held.record, Held.version and Held.maxExpiry
    lost,       \* lost[c]: Held.lost
    renewing,   \* renewing[c]: the renewal loop of c's Held is running
    req,        \* req[c]: the CAS c is waiting for
    stray,      \* CAS requests whose caller gave up before they took effect
    grantExp    \* expiry written by the latest acquisition (history variable)

vars == <<clock, store, mint, pc, snap, lease, lost, renewing, req, stray, grantExp>>

-----------------------------------------------------------------------------
Token == (Clients \X Nat) \cup {NoToken}
State == {"absent", "held", "released"}
Record == [state : State, token : Token, epoch : Nat, exp : Nat]
HeldRecord == [token : Token, epoch : Nat, exp : Nat, maxExp : Nat]
Kind == {"acquire", "renew", "release"}
Status == {"none", "sent", "ok", "conflict"}
Request == [client : Clients, kind : Kind, expect : Token, token : Token,
            state : State, epoch : Nat, exp : Nat, status : Status]
PC == {"idle", "got", "acquiring", "held", "releasing"}

TypeOK ==
    /\ clock \in [Clients -> Nat]
    /\ store \in Record
    /\ mint \in Nat
    /\ pc \in [Clients -> PC]
    /\ snap \in [Clients -> Record]
    /\ lease \in [Clients -> HeldRecord]
    /\ lost \in [Clients -> BOOLEAN]
    /\ renewing \in [Clients -> BOOLEAN]
    /\ req \in [Clients -> Request]
    /\ stray \in SUBSET Request
    /\ grantExp \in Nat

Absent == [state |-> "absent", token |-> NoToken, epoch |-> 0, exp |-> 0]
NoLease == [token |-> NoToken, epoch |-> 0, exp |-> 0, maxExp |-> 0]
NoReq(c) == [client |-> c, kind |-> "acquire", expect |-> NoToken, token |-> NoToken,
             state |-> "absent", epoch |-> 0, exp |-> 0, status |-> "none"]

Init ==
    /\ clock = [c \in Clients |-> 0]
    /\ store = Absent
    /\ mint = 0
    /\ pc = [c \in Clients |-> "idle"]
    /\ snap = [c \in Clients |-> Absent]
    /\ lease = [c \in Clients |-> NoLease]
    /\ lost = [c \in Clients |-> FALSE]
    /\ renewing = [c \in Clients |-> FALSE]
    /\ req = [c \in Clients |-> NoReq(c)]
    /\ stray = {}
    /\ grantExp = 0

-----------------------------------------------------------------------------
\* Clocks move forward, each at its own pace.
Tick(c) ==
    /\ clock[c] < MaxTime
    /\ \A d \in Clients : clock[c] + 1 - clock[d] <= MaxSpread
    /\ clock' = [clock EXCEPT ![c] = @ + 1]
    /\ UNCHANGED <<store, mint, pc, snap, lease, lost, renewing, req, stray, grantExp>>

-----------------------------------------------------------------------------
\* acquireOnce reads the record and its token.
Get(c) ==
    /\ pc[c] = "idle"
    /\ pc' = [pc EXCEPT ![c] = "got"]
    /\ snap' = [snap EXCEPT ![c] = store]
    /\ UNCHANGED <<clock, store, mint, lease, lost, renewing, req, stray, grantExp>>

\* Mutant: the allowance is applied with the wrong sign.
SafelyExpiredEarly(rec, now) == rec.exp < now + Skew

\* The record has expired by more than the skew allowance.
SafelyExpired(rec, now) == rec.exp < now - Skew

MayTake(rec, now) == rec.state = "held" => SafelyExpired(rec, now)

\* Held and unexpired: errRetry, and acquireLocked reads again or gives up.
AcquireBusy(c) ==
    /\ pc[c] = "got"
    /\ ~MayTake(snap[c], clock[c])
    /\ pc' = [pc EXCEPT ![c] = "idle"]
    /\ snap' = [snap EXCEPT ![c] = Absent]
    /\ UNCHANGED <<clock, store, mint, lease, lost, renewing, req, stray, grantExp>>

\* Sends a CAS that writes the given record; the new token is minted by c.
Send(c, kind, expect, state, epoch, exp) ==
    /\ req[c].status = "none"
    /\ mint < MaxMint
    /\ mint' = mint + 1
    /\ req' = [req EXCEPT ![c] =
                 [client |-> c, kind |-> kind, expect |-> expect, token |-> <<c, mint>>,
                  state |-> state, epoch |-> epoch, exp |-> exp, status |-> "sent"]]

\* create (the key was absent, which is the CAS that expects NoToken) or
\* replace.  newRecord reads the clock again after the expiry check; the
\* check stays true as the clock advances, so one reading stands for both.
AcquireSend(c) ==
    /\ pc[c] = "got"
    /\ MayTake(snap[c], clock[c])
    /\ clock[c] < AcquireHorizon
    /\ Send(c, "acquire", snap[c].token, "held", snap[c].epoch + 1, clock[c] + Duration)
    /\ pc' = [pc EXCEPT ![c] = "acquiring"]
    /\ snap' = [snap EXCEPT ![c] = Absent]
    /\ UNCHANGED <<clock, store, lease, lost, renewing, stray, grantExp>>

-----------------------------------------------------------------------------
\* Mutant: only the existence of the key is compared, not its token.
MatchesAnyToken(r) == (store.token = NoToken) <=> (r.expect = NoToken)

\* The store's compare-and-swap: CreateIfAbsent and ReplaceIfToken.
Matches(r) == store.token = r.expect

Write(r) == [state |-> r.state, token |-> r.token, epoch |-> r.epoch, exp |-> r.exp]

Apply(r) ==
    /\ store' = Write(r)
    /\ grantExp' = IF r.kind = "acquire" THEN r.exp ELSE grantExp

\* The CAS c waits for takes effect, or meets another token.
Land(c) ==
    /\ req[c].status = "sent"
    /\ \/ /\ Matches(req[c])
          /\ Apply(req[c])
          /\ req' = [req EXCEPT ![c].status = "ok"]
       \/ /\ ~Matches(req[c])
          /\ req' = [req EXCEPT ![c].status = "conflict"]
          /\ UNCHANGED <<store, grantExp>>
    /\ UNCHANGED <<clock, mint, pc, snap, lease, lost, renewing, stray>>

\* A CAS whose caller gave up takes effect, or is discarded.
LandStray(r) ==
    /\ r \in stray
    /\ stray' = stray \ {r}
    /\ \/ Matches(r) /\ Apply(r)
       \/ UNCHANGED <<store, grantExp>>
    /\ UNCHANGED <<clock, mint, pc, snap, lease, lost, renewing, req>>

\* The reply is lost and the Redis client sends the same script again: its
\* token has rotated by then, so an applied CAS is answered with a conflict.
Redeliver(c) ==
    /\ req[c].status = "ok"
    /\ req' = [req EXCEPT ![c].status = "conflict"]
    /\ UNCHANGED <<clock, store, mint, pc, snap, lease, lost, renewing, stray, grantExp>>

-----------------------------------------------------------------------------
\* Mutant: the expiry is counted from the answer, not from the request.
AcquireOkRestamped(c) ==
    /\ pc[c] = "acquiring"
    /\ req[c].status = "ok"
    /\ pc' = [pc EXCEPT ![c] = "held"]
    /\ lease' = [lease EXCEPT ![c] = [token |-> req[c].token, epoch |-> req[c].epoch,
                                      exp |-> clock[c] + Duration,
                                      maxExp |-> clock[c] + 3 * Duration]]
    /\ lost' = [lost EXCEPT ![c] = FALSE]
    /\ renewing' = [renewing EXCEPT ![c] = TRUE]
    /\ req' = [req EXCEPT ![c] = NoReq(c)]
    /\ UNCHANGED <<clock, store, mint, snap, stray, grantExp>>

\* newHeld: record, token, the cap on renewal, and the renewal loop.
AcquireOk(c) ==
    /\ pc[c] = "acquiring"
    /\ req[c].status = "ok"
    /\ pc' = [pc EXCEPT ![c] = "held"]
    /\ lease' = [lease EXCEPT ![c] = [token |-> req[c].token, epoch |-> req[c].epoch,
                                      exp |-> req[c].exp, maxExp |-> req[c].exp + 2 * Duration]]
    /\ lost' = [lost EXCEPT ![c] = FALSE]
    /\ renewing' = [renewing EXCEPT ![c] = TRUE]
    /\ req' = [req EXCEPT ![c] = NoReq(c)]
    /\ UNCHANGED <<clock, store, mint, snap, stray, grantExp>>

\* Lost the race for the record: errRetry.
AcquireConflict(c) ==
    /\ pc[c] = "acquiring"
    /\ req[c].status = "conflict"
    /\ pc' = [pc EXCEPT ![c] = "idle"]
    /\ req' = [req EXCEPT ![c] = NoReq(c)]
    /\ UNCHANGED <<clock, store, mint, snap, lease, lost, renewing, stray, grantExp>>

\* Mutant: renewal without the cap.
RenewSendUncapped(c) ==
    /\ pc[c] = "held" /\ renewing[c]
    /\ clock[c] + Duration > lease[c].exp
    /\ Send(c, "renew", lease[c].token, "held", lease[c].epoch, clock[c] + Duration)
    /\ UNCHANGED <<clock, store, pc, snap, lease, lost, renewing, stray, grantExp>>

\* A tick of the renewal loop that is still inside the hold window.  The
\* ticker's period is positive, so the clock has moved since the last stamp.
RenewSend(c) ==
    /\ pc[c] = "held" /\ renewing[c]
    /\ clock[c] + Duration > lease[c].exp
    /\ clock[c] + Duration <= lease[c].maxExp
    /\ Send(c, "renew", lease[c].token, "held", lease[c].epoch, clock[c] + Duration)
    /\ UNCHANGED <<clock, store, pc, snap, lease, lost, renewing, stray, grantExp>>

\* The hold window is exhausted: the loop ends, the lease is not marked lost.
RenewExhausted(c) ==
    /\ pc[c] = "held" /\ renewing[c]
    /\ req[c].status = "none"
    /\ clock[c] + Duration > lease[c].maxExp
    /\ renewing' = [renewing EXCEPT ![c] = FALSE]
    /\ UNCHANGED <<clock, store, mint, pc, snap, lease, lost, req, stray, grantExp>>

RenewOk(c) ==
    /\ pc[c] = "held"
    /\ req[c].status = "ok"
    /\ lease' = [lease EXCEPT ![c] = [token |-> req[c].token, epoch |-> lease[c].epoch,
                                      exp |-> req[c].exp, maxExp |-> lease[c].maxExp]]
    /\ req' = [req EXCEPT ![c] = NoReq(c)]
    /\ UNCHANGED <<clock, store, mint, pc, snap, lost, renewing, stray, grantExp>>

\* markLost, and the loop ends.
RenewConflict(c) ==
    /\ pc[c] = "held"
    /\ req[c].status = "conflict"
    /\ lost' = [lost EXCEPT ![c] = TRUE]
    /\ renewing' = [renewing EXCEPT ![c] = FALSE]
    /\ req' = [req EXCEPT ![c] = NoReq(c)]
    /\ UNCHANGED <<clock, store, mint, pc, snap, lease, stray, grantExp>>

\* Mutant: the released record is stamped before the skew allowance.
ReleaseSendBackdated(c) ==
    /\ pc[c] = "held"
    /\ Send(c, "release", lease[c].token, "released", lease[c].epoch, clock[c] - Skew)
    /\ pc' = [pc EXCEPT ![c] = "releasing"]
    /\ renewing' = [renewing EXCEPT ![c] = FALSE]
    /\ UNCHANGED <<clock, store, snap, lease, lost, stray, grantExp>>

\* Release: stopRenewal waits for the renewal in flight, so no request is
\* outstanding.  Held.lost is not consulted.
ReleaseSend(c) ==
    /\ pc[c] = "held"
    /\ Send(c, "release", lease[c].token, "released", lease[c].epoch, clock[c])
    /\ pc' = [pc EXCEPT ![c] = "releasing"]
    /\ renewing' = [renewing EXCEPT ![c] = FALSE]
    /\ UNCHANGED <<clock, store, snap, lease, lost, stray, grantExp>>

Forget(c) ==
    /\ pc' = [pc EXCEPT ![c] = "idle"]
    /\ lease' = [lease EXCEPT ![c] = NoLease]
    /\ lost' = [lost EXCEPT ![c] = FALSE]
    /\ renewing' = [renewing EXCEPT ![c] = FALSE]

\* Released, or LeaseConflict because the token moved: the Held is done.
ReleaseDone(c) ==
    /\ pc[c] = "releasing"
    /\ req[c].status \in {"ok", "conflict"}
    /\ Forget(c)
    /\ req' = [req EXCEPT ![c] = NoReq(c)]
    /\ UNCHANGED <<clock, store, mint, snap, stray, grantExp>>

\* Abandon: stopRenewal and nothing else.
Abandon(c) ==
    /\ pc[c] = "held"
    /\ req[c].status = "none"
    /\ Forget(c)
    /\ UNCHANGED <<clock, store, mint, snap, req, stray, grantExp>>

\* c gives up on its CAS, which may or may not have taken effect.
GiveUp(c) ==
    /\ stray' = IF req[c].status = "sent" THEN stray \cup {req[c]} ELSE stray
    /\ req' = [req EXCEPT ![c] = NoReq(c)]

\* Any other store error.  RemoteUnavailable for an acquisition or a release;
\* a renewal marks the lease lost.
RequestFails(c) ==
    /\ req[c].status # "none"
    /\ GiveUp(c)
    /\ \/ /\ pc[c] = "held"
          /\ lost' = [lost EXCEPT ![c] = TRUE]
          /\ renewing' = [renewing EXCEPT ![c] = FALSE]
          /\ UNCHANGED <<pc, lease>>
       \/ /\ pc[c] \in {"acquiring", "releasing"}
          /\ Forget(c)
    /\ UNCHANGED <<clock, store, mint, snap, grantExp>>

\* The process dies: every local state is gone.
Crash(c) ==
    /\ pc[c] # "idle"
    /\ GiveUp(c)
    /\ Forget(c)
    /\ snap' = [snap EXCEPT ![c] = Absent]
    /\ UNCHANGED <<clock, store, mint, grantExp>>

-----------------------------------------------------------------------------
Next ==
    \/ \E c \in Clients :
         \/ Tick(c)
         \/ Get(c) \/ AcquireBusy(c) \/ AcquireSend(c) \/ AcquireOk(c) \/ AcquireConflict(c)
         \/ Land(c) \/ Redeliver(c) \/ RequestFails(c)
         \/ RenewSend(c) \/ RenewExhausted(c) \/ RenewOk(c) \/ RenewConflict(c)
         \/ ReleaseSend(c) \/ ReleaseDone(c) \/ Abandon(c) \/ Crash(c)
    \/ \E r \in stray : LandStray(r)

Spec == Init /\ [][Next]_vars

-----------------------------------------------------------------------------
\* leaseStale is false for c's Held: c may commit and flush.
Fresh(c) == pc[c] = "held" /\ ~lost[c] /\ clock[c] < lease[c].exp - Skew

\* At most one client at a time has a lease that is not stale, whatever the
\* clocks, lost replies, stray requests and crashes do: the single writer the
\* LTX chain needs (leaseStale, acquireOnce).
MutualExclusion ==
    \A c, d \in Clients : Fresh(c) /\ Fresh(d) => c = d

\* A client whose lease is not stale is the owner the record names, in its
\* latest epoch: no successor has replaced the record, no release has freed it
\* (acquireOnce takes over only past the expiry and the skew allowance).
FreshIsCurrent ==
    \A c \in Clients : Fresh(c) =>
        /\ store.state = "held"
        /\ store.epoch = lease[c].epoch
        /\ store.token # NoToken /\ store.token[1] = c

\* Two clients never believe to hold the same epoch, even after one of them
\* has been overtaken or its acquisition was answered twice (newRecord,
\* ReplaceIfToken with a token minted per request).
EpochsDistinct ==
    \A c, d \in Clients :
        pc[c] \in {"held", "releasing"} /\ pc[d] \in {"held", "releasing"}
        /\ lease[c].epoch = lease[d].epoch => c = d

\* The record only changes by an acquisition that opens the next epoch, or by
\* the client that owns the current epoch while the record still says held: a
\* late renewal or release of an earlier owner never touches a successor's
\* record (ReplaceIfToken).
FencedStep ==
    store' # store =>
        \/ store'.epoch = store.epoch + 1 /\ store'.state = "held"
        \/ /\ store'.epoch = store.epoch
           /\ store.state = "held"
           /\ store'.token[1] = store.token[1]

FencedWrites == [][FencedStep]_vars

\* Renewal never pushes the expiry beyond two durations after the one the
\* acquisition wrote, late renewals included (maxExpiry in renewLoop).
HoldBounded ==
    store.state = "held" => store.exp <= grantExp + 2 * Duration

-----------------------------------------------------------------------------
\* Clocks advance; nothing else is assumed to happen.
LiveSpec == Spec /\ \A c \in Clients : WF_vars(Tick(c))

Takeable == \A c \in Clients : MayTake(store, clock[c])

\* A held lease becomes free for takeover even if its holder stays wedged and
\* keeps renewing: renewLoop stops at maxExpiry.
HeldEventuallyTakeable ==
    \A e \in 1..MaxMint :
        store.epoch = e ~> (store.epoch > e \/ Takeable)

-----------------------------------------------------------------------------
\* The lease as the runtime sees it.
Fence == INSTANCE LeaseSpec WITH
    NoOwner <- NoToken,
    epoch <- store.epoch,
    owner <- IF store.token = NoToken THEN NoToken ELSE store.token[1],
    taken <- store.state = "held",
    safe <- [c \in Clients |-> IF Fresh(c) THEN lease[c].epoch ELSE 0]

\* The lease protocol implements the epochs and the exclusion LeaseSpec states.
ImplementsLeaseSpec == Fence!FenceSpec

=============================================================================
