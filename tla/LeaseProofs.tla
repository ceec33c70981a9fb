----------------------------- MODULE LeaseProofs ----------------------------
(***************************************************************************)
(* The theorems about Lease, for every number of clients, every duration   *)
(* and every skew allowance that covers half the spread of the clocks.     *)
(*                                                                         *)
(* First the inductive invariant IInv and the facts about requests and     *)
(* tokens that its proof uses; then its preservation, by the steps of the  *)
(* clocks, of an acquisition and of a holder, and by those in which a      *)
(* compare-and-swap takes effect, is answered twice or is given up.        *)
(***************************************************************************)
EXTENDS Lease, TLAPS

-----------------------------------------------------------------------------
\* CAS requests that have been sent and have not taken effect.
InFlight == stray \cup {req[c] : c \in {d \in Clients : req[d].status = "sent"}}

Minted(t) == t = NoToken \/ t[2] < mint

\* Every token anywhere has been minted.
MintInv ==
    /\ Minted(store.token)
    /\ \A c \in Clients :
         /\ Minted(snap[c].token) /\ Minted(lease[c].token)
         /\ Minted(req[c].token) /\ Minted(req[c].expect)
    /\ \A r \in stray : Minted(r.token) /\ Minted(r.expect)

Holding(c) == pc[c] \in {"held", "releasing"}

\* What an outstanding request says, by the state of its client.
ReqOK(c) ==
    /\ req[c].client = c
    /\ req[c].status = "none" => req[c].token = NoToken
    /\ req[c].status # "none" =>
         /\ req[c].token # NoToken /\ req[c].token[1] = c
         /\ \/ pc[c] = "acquiring" /\ req[c].kind = "acquire" /\ req[c].state = "held"
            \/ /\ pc[c] = "held" /\ req[c].kind = "renew" /\ req[c].state = "held"
               /\ req[c].expect = lease[c].token /\ req[c].epoch = lease[c].epoch
               /\ lease[c].exp <= req[c].exp /\ req[c].exp <= lease[c].maxExp
            \/ /\ pc[c] = "releasing" /\ req[c].kind = "release" /\ req[c].state = "released"
               /\ req[c].expect = lease[c].token /\ req[c].epoch = lease[c].epoch
    /\ Holding(c) => lease[c].token # NoToken /\ lease[c].token[1] = c
    /\ pc[c] = "held" /\ lost[c] => ~renewing[c]

ReqInv == \A c \in Clients : ReqOK(c)

\* The token of a request in flight has not been seen by anyone.
Unseen(t) ==
    /\ t # store.token
    /\ \A c \in Clients : t # snap[c].token /\ t # lease[c].token /\ t # req[c].expect
    /\ \A q \in stray : t # q.expect

UnseenInv == \A r \in InFlight : Unseen(r.token)

\* A stray request is unlike every other request.
StrayInv ==
    /\ \A r \in stray : r.status = "sent" /\ r.token # NoToken /\ r.token[1] = r.client
    /\ \A r \in stray, c \in Clients : req[c].token # r.token
    /\ \A q, r \in stray : q.token = r.token => q = r

\* Only an acquisition may expect a token that its minter has not adopted, and
\* a stray renewal or release belongs to a lease that is lost or gone.
OwnInv ==
    /\ \A c \in Clients : req[c].status # "none" =>
         \A r \in InFlight : r.kind # "acquire" => r.expect # req[c].token
    /\ \A c \in Clients : pc[c] = "held" /\ ~lost[c] =>
         \A r \in stray : r.kind # "acquire" => r.expect # lease[c].token
    /\ \A r \in InFlight : r.kind # "acquire" => r.expect # NoToken /\ r.expect[1] = r.client

\* What acquireOnce read is the record as long as the token has not moved.
SnapOK(c) == pc[c] = "got" /\ snap[c].token = store.token => snap[c] = store

SnapInv == \A c \in Clients : SnapOK(c)

\* What a request in flight would do if it took effect now.
MatchOK(r) ==
    IF r.kind = "acquire"
    THEN r.state = "held" /\ r.epoch = store.epoch + 1 /\ MayTake(store, clock[r.client])
    ELSE /\ store.state = "held" /\ r.epoch = store.epoch
         /\ r.kind = "renew" => r.state = "held" /\ r.exp <= grantExp + 2 * Duration
         /\ r.kind = "release" => r.state = "released"

MatchInv == \A r \in InFlight : r.expect = store.token => MatchOK(r)

\* A Held whose token is the record's describes the record.
HeldOK(c) ==
    Holding(c) /\ store.token = lease[c].token =>
        /\ store.state = "held" /\ store.epoch = lease[c].epoch /\ store.exp = lease[c].exp
        /\ lease[c].maxExp <= grantExp + 2 * Duration

HeldInv == \A c \in Clients : HeldOK(c)

Answered(c) == req[c].status \in {"ok", "conflict"}

\* An answered request whose token is the record's wrote the record; its
\* expected token is gone.
AnswerOK(c) ==
    Answered(c) =>
        /\ store.token # req[c].expect
        /\ store.token = req[c].token =>
             /\ store = Write(req[c])
             /\ req[c].kind = "acquire" => grantExp = req[c].exp
             /\ req[c].kind = "renew" => lease[c].maxExp <= grantExp + 2 * Duration

AnswerInv == \A c \in Clients : AnswerOK(c)

\* The lease of c has passed to someone else, and c is stale.
Overtaken(c) ==
    /\ store.token # lease[c].token
    /\ clock[c] >= lease[c].exp - Skew
    /\ req[c].status = "ok" => clock[c] >= req[c].exp - Skew

HolderOK(c) ==
    /\ pc[c] = "held" /\ ~lost[c] =>
         \/ store.token = lease[c].token
         \/ Answered(c) /\ store.token = req[c].token
         \/ Overtaken(c)
    /\ pc[c] = "acquiring" /\ req[c].status = "ok" =>
         store.token = req[c].token \/ clock[c] >= req[c].exp - Skew

HolderInv == \A c \in Clients : HolderOK(c)

SpreadInv == \A c, d \in Clients : clock[c] - clock[d] <= MaxSpread

\* The inductive invariant behind the exclusion theorems.
IInv ==
    /\ TypeOK /\ SpreadInv /\ MintInv /\ ReqInv /\ UnseenInv /\ StrayInv /\ OwnInv
    /\ SnapInv /\ MatchInv /\ HeldInv /\ AnswerInv /\ HolderInv /\ HoldBounded

-----------------------------------------------------------------------------
\* A request built by Send has its type.
LEMMA SendType ==
    ASSUME TypeOK, NEW c \in Clients, NEW kind \in Kind, NEW expect \in Token,
           NEW state \in State, NEW epoch \in Nat, NEW exp \in Nat,
           Send(c, kind, expect, state, epoch, exp)
    PROVE  mint' \in Nat /\ req' \in [Clients -> Request]
BY DEF TypeOK, Send, Request, Token, Status

\* An applied request leaves a record of its type.
LEMMA ApplyType ==
    ASSUME TypeOK, NEW r \in Request, Apply(r)
    PROVE  store' \in Record /\ grantExp' \in Nat
BY DEF TypeOK, Apply, Write, Request, Record

\* Forgetting a Held keeps the types.
LEMMA ForgetType ==
    ASSUME TypeOK, NEW c \in Clients, Forget(c)
    PROVE  /\ pc' \in [Clients -> PC] /\ lease' \in [Clients -> HeldRecord]
           /\ lost' \in [Clients -> BOOLEAN] /\ renewing' \in [Clients -> BOOLEAN]
BY DEF TypeOK, Forget, PC, HeldRecord, NoLease, Token

\* So does giving up on a request.
LEMMA GiveUpType ==
    ASSUME TypeOK, NEW c \in Clients, GiveUp(c)
    PROVE  stray' \in SUBSET Request /\ req' \in [Clients -> Request]
BY DEF TypeOK, GiveUp, Request, NoReq, Kind, Token, State, Status

\* Every step of the lease protocol keeps the types.
LEMMA TypeStep == TypeOK /\ [Next]_vars => TypeOK'
<1> SUFFICES ASSUME TypeOK, [Next]_vars PROVE TypeOK'
  OBVIOUS
<1> USE DurationAssumption, SkewAssumption, BoundAssumption
<1>1. ASSUME NEW c \in Clients, Tick(c) PROVE TypeOK'
  BY <1>1 DEF TypeOK, Tick
<1>2. ASSUME NEW c \in Clients, Get(c) PROVE TypeOK'
  BY <1>2 DEF TypeOK, Get, PC
<1>3. ASSUME NEW c \in Clients, AcquireBusy(c) PROVE TypeOK'
  BY <1>3 DEF TypeOK, AcquireBusy, PC, Absent, Record, State, Token
<1>4. ASSUME NEW c \in Clients, AcquireSend(c) PROVE TypeOK'
  <2>1. snap[c].token \in Token /\ snap[c].epoch + 1 \in Nat /\ clock[c] + Duration \in Nat
    BY DEF TypeOK, Record
  <2>2. mint' \in Nat /\ req' \in [Clients -> Request]
    BY <1>4, <2>1, SendType DEF AcquireSend, Kind, State
  <2> QED
    BY Zenon, <1>4, <2>2 DEF TypeOK, AcquireSend, PC, Absent, Record, State, Token
<1>5. ASSUME NEW c \in Clients, AcquireOk(c) PROVE TypeOK'
  BY <1>5 DEF TypeOK, AcquireOk, PC, HeldRecord, Request, NoReq, Kind, Token, State, Status
<1>6. ASSUME NEW c \in Clients, AcquireConflict(c) PROVE TypeOK'
  BY <1>6 DEF TypeOK, AcquireConflict, PC, Request, NoReq, Kind, Token, State, Status
<1>7. ASSUME NEW c \in Clients, Land(c) PROVE TypeOK'
  <2>1. req[c] \in Request
    BY DEF TypeOK
  <2>2. req' \in [Clients -> Request]
    BY <1>7, <2>1 DEF TypeOK, Land, Request, Status
  <2>3. store' \in Record /\ grantExp' \in Nat
    BY <1>7, <2>1, ApplyType DEF TypeOK, Land
  <2> QED
    BY <1>7, <2>2, <2>3 DEF TypeOK, Land
<1>8. ASSUME NEW c \in Clients, Redeliver(c) PROVE TypeOK'
  BY <1>8 DEF TypeOK, Redeliver, Request, Status
<1>9. ASSUME NEW c \in Clients, RequestFails(c) PROVE TypeOK'
  <2>1. stray' \in SUBSET Request /\ req' \in [Clients -> Request]
    BY <1>9, GiveUpType DEF RequestFails
  <2>2. CASE pc[c] = "held" /\ lost' = [lost EXCEPT ![c] = TRUE]
             /\ renewing' = [renewing EXCEPT ![c] = FALSE] /\ UNCHANGED <<pc, lease>>
    BY <1>9, <2>1, <2>2 DEF TypeOK, RequestFails
  <2>3. CASE Forget(c)
    BY <1>9, <2>1, <2>3, ForgetType DEF TypeOK, RequestFails
  <2> QED
    BY <1>9, <2>2, <2>3 DEF RequestFails
<1>10. ASSUME NEW c \in Clients, RenewSend(c) PROVE TypeOK'
  <2>1. lease[c].token \in Token /\ lease[c].epoch \in Nat /\ clock[c] + Duration \in Nat
    BY DEF TypeOK, HeldRecord
  <2>2. mint' \in Nat /\ req' \in [Clients -> Request]
    BY <1>10, <2>1, SendType DEF RenewSend, Kind, State
  <2> QED
    BY <1>10, <2>2 DEF TypeOK, RenewSend
<1>11. ASSUME NEW c \in Clients, RenewExhausted(c) PROVE TypeOK'
  BY <1>11 DEF TypeOK, RenewExhausted
<1>12. ASSUME NEW c \in Clients, RenewOk(c) PROVE TypeOK'
  BY <1>12 DEF TypeOK, RenewOk, HeldRecord, Request, NoReq, Kind, Token, State, Status
<1>13. ASSUME NEW c \in Clients, RenewConflict(c) PROVE TypeOK'
  BY <1>13 DEF TypeOK, RenewConflict, Request, NoReq, Kind, Token, State, Status
<1>14. ASSUME NEW c \in Clients, ReleaseSend(c) PROVE TypeOK'
  <2>1. lease[c].token \in Token /\ lease[c].epoch \in Nat /\ clock[c] \in Nat
    BY DEF TypeOK, HeldRecord
  <2>2. mint' \in Nat /\ req' \in [Clients -> Request]
    BY <1>14, <2>1, SendType DEF ReleaseSend, Kind, State
  <2> QED
    BY Zenon, <1>14, <2>2 DEF TypeOK, ReleaseSend, PC
<1>15. ASSUME NEW c \in Clients, ReleaseDone(c) PROVE TypeOK'
  BY <1>15, ForgetType DEF TypeOK, ReleaseDone, Request, NoReq, Kind, Token, State, Status
<1>16. ASSUME NEW c \in Clients, Abandon(c) PROVE TypeOK'
  BY <1>16, ForgetType DEF TypeOK, Abandon
<1>17. ASSUME NEW c \in Clients, Crash(c) PROVE TypeOK'
  BY <1>17, ForgetType, GiveUpType DEF TypeOK, Crash, Absent, Record, State, Token
<1>18. ASSUME NEW r \in stray, LandStray(r) PROVE TypeOK'
  <2>1. r \in Request
    BY DEF TypeOK
  <2> QED
    BY <1>18, <2>1, ApplyType DEF TypeOK, LandStray
<1>19. CASE UNCHANGED vars
  BY <1>19 DEF TypeOK, vars
<1> QED
  BY <1>1, <1>2, <1>3, <1>4, <1>5, <1>6, <1>7, <1>8, <1>9, <1>10, <1>11, <1>12, <1>13,
     <1>14, <1>15, <1>16, <1>17, <1>18, <1>19 DEF Next

-----------------------------------------------------------------------------
\* What is known of every CAS request in flight: it is a sent request with a
\* token of its own client that no other request carries.
LEMMA FlightFacts ==
    ASSUME IInv, NEW r \in InFlight
    PROVE  /\ r \in Request /\ r.status = "sent"
           /\ r.token # NoToken /\ r.token[1] = r.client /\ Minted(r.token) /\ Minted(r.expect)
           /\ \A c \in Clients : req[c].status # "none" /\ req[c].token = r.token => req[c] = r
<1>1. CASE r \in stray
  BY <1>1 DEF IInv, TypeOK, StrayInv, MintInv
<1>2. CASE r \notin stray
  <2>1. PICK d \in Clients : r = req[d] /\ req[d].status = "sent"
    BY <1>2 DEF InFlight
  <2>2. r \in Request /\ r.status = "sent" /\ Minted(r.token) /\ Minted(r.expect)
    BY <2>1 DEF IInv, TypeOK, MintInv
  <2>3. r.token # NoToken /\ r.token[1] = d /\ r.client = d
    BY <2>1 DEF IInv, ReqInv, ReqOK
  <2>4. \A c \in Clients : req[c].status # "none" /\ req[c].token = r.token => req[c] = r
    BY <2>1, <2>3 DEF IInv, ReqInv, ReqOK
  <2> QED
    BY <2>2, <2>3, <2>4
<1> QED
  BY <1>1, <1>2

\* A token that has been minted is not the next one.
LEMMA FreshToken ==
    ASSUME mint \in Nat, NEW c \in Clients, NEW t \in Token, Minted(t)
    PROVE  t # <<c, mint>>
BY TokenAssumption DEF Minted, Token

\* The next token is new to everyone.
LEMMA NextToken ==
    ASSUME IInv, NEW c \in Clients
    PROVE  /\ <<c, mint>> # NoToken /\ <<c, mint>> # store.token
           /\ \A d \in Clients : /\ <<c, mint>> # snap[d].token /\ <<c, mint>> # lease[d].token
                                 /\ <<c, mint>> # req[d].token /\ <<c, mint>> # req[d].expect
           /\ \A r \in InFlight : <<c, mint>> # r.token /\ <<c, mint>> # r.expect
<1>1. mint \in Nat
  BY DEF IInv, TypeOK
<1>2. <<c, mint>> # NoToken /\ <<c, mint>> # store.token
  <2>1. store.token \in Token /\ Minted(store.token)
    BY DEF IInv, TypeOK, MintInv, Record
  <2>2. <<c, mint>> # store.token
    BY <1>1, <2>1, FreshToken
  <2>3. NoToken \in Token /\ Minted(NoToken)
    BY DEF Token, Minted
  <2> QED
    BY <1>1, <2>2, <2>3, FreshToken
<1>3. ASSUME NEW d \in Clients
      PROVE  /\ <<c, mint>> # snap[d].token /\ <<c, mint>> # lease[d].token
             /\ <<c, mint>> # req[d].token /\ <<c, mint>> # req[d].expect
  <2>1. /\ snap[d].token \in Token /\ lease[d].token \in Token
        /\ req[d].token \in Token /\ req[d].expect \in Token
    BY DEF IInv, TypeOK, Record, HeldRecord, Request
  <2> QED
    BY Zenon, <1>1, <2>1, FreshToken DEF IInv, MintInv
<1>4. ASSUME NEW r \in InFlight
      PROVE  <<c, mint>> # r.token /\ <<c, mint>> # r.expect
  <2>1. r.token \in Token /\ r.expect \in Token /\ Minted(r.token) /\ Minted(r.expect)
    BY FlightFacts DEF Request
  <2> QED
    BY <1>1, <2>1, FreshToken
<1> QED
  BY <1>2, <1>3, <1>4

\* A step that changes the request of one client adds at most that request.
LEMMA FlightAdd ==
    ASSUME NEW c \in Clients, stray' = stray, \A d \in Clients \ {c} : req'[d] = req[d]
    PROVE  InFlight' \subseteq InFlight \cup {req'[c]}
<1> SUFFICES ASSUME NEW r \in InFlight' PROVE r \in InFlight \cup {req'[c]}
  OBVIOUS
<1>1. CASE r \in stray'
  BY <1>1 DEF InFlight
<1>2. CASE r \notin stray'
  <2>1. PICK d \in Clients : r = req'[d] /\ req'[d].status = "sent"
    BY <1>2 DEF InFlight
  <2> QED
    BY <2>1 DEF InFlight
<1> QED
  BY <1>1, <1>2

\* Giving up moves a request in flight from its client to the strays.
LEMMA GiveUpFacts ==
    ASSUME IInv, NEW c \in Clients, GiveUp(c)
    PROVE  /\ InFlight' \subseteq InFlight
           /\ StrayInv'
           /\ \A r \in stray' : r \in stray \/ (r = req[c] /\ req[c].status = "sent")
<1>1. req'[c] = NoReq(c) /\ \A d \in Clients \ {c} : req'[d] = req[d]
  BY DEF IInv, TypeOK, GiveUp
<1>2. \A r \in stray' : r \in stray \/ (r = req[c] /\ req[c].status = "sent")
  BY DEF GiveUp
<1>3. InFlight' \subseteq InFlight
  BY <1>1, <1>2 DEF InFlight, NoReq
<1>4. \A r \in stray' : r.status = "sent" /\ r.token # NoToken /\ r.token[1] = r.client
  BY <1>2 DEF IInv, StrayInv, ReqInv, ReqOK
<1>5. ASSUME NEW r \in stray', NEW d \in Clients PROVE req'[d].token # r.token
  <2>1. CASE d = c
    BY <1>1, <1>4, <2>1 DEF NoReq
  <2>2. CASE d # c /\ r \in stray
    BY <1>1, <2>2 DEF IInv, StrayInv
  <2>3. CASE d # c /\ r = req[c] /\ req[c].status = "sent"
    <3>1. req[c].token # NoToken /\ req[c].token[1] = c
      BY <2>3 DEF IInv, ReqInv, ReqOK
    <3>2. CASE req[d].status # "none"
      BY <1>1, <2>3, <3>1, <3>2 DEF IInv, ReqInv, ReqOK
    <3>3. CASE req[d].status = "none"
      <4>1. req[d].token = NoToken
        BY <3>3 DEF IInv, ReqInv, ReqOK
      <4>2. req'[d] = req[d]
        BY <1>1, <2>3
      <4> QED
        BY <2>3, <3>1, <4>1, <4>2
    <3> QED
      BY <3>2, <3>3
  <2> QED
    BY <1>2, <2>1, <2>2, <2>3
<1>6. \A q, r \in stray' : q.token = r.token => q = r
  BY <1>2 DEF IInv, StrayInv
<1> QED
  BY <1>2, <1>3, <1>4, <1>5, <1>6 DEF StrayInv

\* A token stays minted when more tokens are minted.
LEMMA MintMore ==
    ASSUME IInv, NEW c \in Clients, mint' = mint + 1,
           stray' = stray, store' = store, lease' = lease,
           \A d \in Clients \ {c} : req'[d] = req[d],
           req'[c].token = <<c, mint>>, req'[c].expect \in Token, Minted(req'[c].expect),
           \A d \in Clients : snap'[d].token \in {snap[d].token, NoToken}
    PROVE  MintInv'
<1>1. mint \in Nat
  BY DEF IInv, TypeOK
<1>2. ASSUME NEW t \in Token, Minted(t) PROVE Minted(t)'
  <2>1. CASE t = NoToken
    BY <2>1 DEF Minted
  <2>2. CASE t \in Clients \X Nat
    BY <1>1, <1>2, <2>2 DEF Minted
  <2> QED
    BY <2>1, <2>2 DEF Token
<1>3. ASSUME NEW t, t = <<c, mint>> PROVE t \in Token /\ Minted(t)'
  BY <1>1, <1>3 DEF Token, Minted
<1>4. Minted(store.token)'
  BY <1>2 DEF IInv, TypeOK, MintInv, Record
<1>5. ASSUME NEW d \in Clients
      PROVE  (/\ Minted(snap[d].token) /\ Minted(lease[d].token)
              /\ Minted(req[d].token) /\ Minted(req[d].expect))'
  <2>1. snap[d].token \in Token /\ lease[d].token \in Token
        /\ req[d].token \in Token /\ req[d].expect \in Token /\ NoToken \in Token
    BY Zenon DEF IInv, TypeOK, Record, HeldRecord, Request, Token
  <2>2. Minted(snap[d].token)' /\ Minted(lease[d].token)'
    BY <1>2, <2>1 DEF IInv, MintInv, Minted
  <2>3. Minted(req[d].token)' /\ Minted(req[d].expect)'
    <3>1. CASE d = c
      BY Zenon, <1>2, <1>3, <3>1
    <3>2. CASE d # c
      BY <1>2, <2>1, <3>2 DEF IInv, MintInv
    <3> QED
      BY <3>1, <3>2
  <2> QED
    BY <2>2, <2>3
<1>6. ASSUME NEW r \in stray' PROVE (Minted(r.token) /\ Minted(r.expect))'
  <2>1. r.token \in Token /\ r.expect \in Token
    BY DEF IInv, TypeOK, Request
  <2> QED
    BY <1>2, <2>1 DEF IInv, MintInv
<1> QED
  BY <1>4, <1>5, <1>6 DEF MintInv

\* Sending a request keeps the tokens in flight unseen.
LEMMA SendUnseen ==
    ASSUME IInv, NEW c \in Clients, stray' = stray, store' = store, lease' = lease,
           \A d \in Clients \ {c} : req'[d] = req[d],
           req'[c].token = <<c, mint>>,
           \A d \in Clients : snap'[d].token \in {snap[d].token, NoToken},
           <<c, mint>> # req'[c].expect, \A r \in InFlight : r.token # req'[c].expect
    PROVE  UnseenInv' /\ StrayInv'
<1>1. stray \subseteq InFlight
  BY DEF InFlight
<1>2. ASSUME NEW r \in InFlight' PROVE Unseen(r.token)'
  <2>1. CASE r \in InFlight
    <3>1. r.token # NoToken /\ Unseen(r.token)
      BY <2>1, FlightFacts DEF IInv, UnseenInv
    <3> QED
      BY <2>1, <3>1 DEF Unseen
  <2>2. CASE r = req'[c]
    BY Zenon, <1>1, <2>2, NextToken DEF Unseen
  <2> QED
    BY <2>1, <2>2, FlightAdd
<1>3. ASSUME NEW r \in stray', NEW d \in Clients PROVE req'[d].token # r.token
  BY <1>1, NextToken DEF IInv, StrayInv
<1>4. StrayInv'
  BY <1>3 DEF IInv, StrayInv
<1> QED
  BY <1>2, <1>4 DEF UnseenInv

-----------------------------------------------------------------------------
\* What concerns a client is preserved by a step that touches neither the
\* client nor the record nor the clocks.
LEMMA OtherClient ==
    ASSUME IInv, NEW d \in Clients, UNCHANGED <<clock, store, grantExp>>,
           pc'[d] = pc[d], snap'[d] = snap[d], lease'[d] = lease[d], lost'[d] = lost[d],
           renewing'[d] = renewing[d], req'[d] = req[d]
    PROVE  ReqOK(d)' /\ SnapOK(d)' /\ HeldOK(d)' /\ AnswerOK(d)' /\ HolderOK(d)'
<1>1. ReqOK(d) /\ SnapOK(d) /\ HeldOK(d) /\ AnswerOK(d) /\ HolderOK(d)
  BY Zenon DEF IInv, ReqInv, SnapInv, HeldInv, AnswerInv, HolderInv
<1>2. ReqOK(d)'
  BY Zenon, <1>1 DEF ReqOK, Holding
<1>3. SnapOK(d)' /\ HeldOK(d)'
  BY <1>1 DEF SnapOK, HeldOK, Holding
<1>4. AnswerOK(d)'
  BY Zenon, <1>1 DEF AnswerOK, Answered, Write
<1>5. HolderOK(d)'
  BY <1>1 DEF HolderOK, Answered, Overtaken
<1> QED
  BY <1>2, <1>3, <1>4, <1>5

\* A client that sends nothing adds nothing to what is in flight.
LEMMA NothingSent ==
    ASSUME IInv, NEW c \in Clients, stray' \subseteq stray,
           \A d \in Clients \ {c} : req'[d] = req[d],
           req'[c] = req[c] \/ req'[c].status # "sent",
           req'[c].token \in {req[c].token, NoToken}
    PROVE  InFlight' \subseteq InFlight /\ StrayInv'
<1>1. ASSUME NEW r \in InFlight' PROVE r \in InFlight
  <2>1. CASE r \in stray'
    BY <2>1 DEF InFlight
  <2>2. CASE r \notin stray'
    <3>1. PICK d \in Clients : r = req'[d] /\ req'[d].status = "sent"
      BY <2>2 DEF InFlight
    <3>2. req'[d] = req[d]
      BY <3>1
    <3> QED
      BY <3>1, <3>2 DEF InFlight
  <2> QED
    BY <2>1, <2>2
<1>2. ASSUME NEW r \in stray', NEW d \in Clients PROVE req'[d].token # r.token
  <2>1. r \in stray /\ r.token # NoToken /\ req[d].token # r.token
    BY DEF IInv, StrayInv
  <2>2. req'[d].token \in {req[d].token, NoToken}
    BY d = c \/ d # c
  <2> QED
    BY <2>1, <2>2
<1>3. StrayInv'
  BY <1>2 DEF IInv, StrayInv
<1> QED
  BY <1>1, <1>3

\* A step of c alone, which leaves the record, the clocks and the other clients
\* as they are, and which sends nothing.
Alone(c) ==
    /\ UNCHANGED <<clock, store, mint, grantExp>>
    /\ \A d \in Clients \ {c} :
         /\ pc'[d] = pc[d] /\ snap'[d] = snap[d] /\ lease'[d] = lease[d]
         /\ lost'[d] = lost[d] /\ renewing'[d] = renewing[d] /\ req'[d] = req[d]
    /\ InFlight' \subseteq InFlight
    /\ \A r \in stray' : r \in stray \/ (r = req[c] /\ req[c].status = "sent")

\* The tokens c knows after such a step are ones it could know.
KnownTokens(c) ==
    /\ snap'[c].token \in {snap[c].token, store.token, NoToken}
    /\ \/ lease'[c].token \in {lease[c].token, NoToken}
       \/ Answered(c) /\ lease'[c].token = req[c].token
    /\ \/ req'[c].status = "none" /\ req'[c].token = NoToken /\ req'[c].expect = NoToken
       \/ /\ req'[c].token = req[c].token /\ req'[c].expect = req[c].expect
          /\ req'[c].status # "none" => req[c].status # "none"
    /\ pc'[c] = "held" /\ ~lost'[c] =>
         /\ stray' \subseteq stray
         /\ \/ pc[c] = "held" /\ ~lost[c] /\ lease'[c].token = lease[c].token
            \/ Answered(c) /\ lease'[c].token = req[c].token

\* Such a step preserves the invariant when it preserves what concerns c.
LEMMA AloneStep ==
    ASSUME IInv, TypeOK', NEW c \in Clients, Alone(c), KnownTokens(c), StrayInv',
           ReqOK(c)', SnapOK(c)', HeldOK(c)', AnswerOK(c)', HolderOK(c)'
    PROVE  IInv'
<1>1. ASSUME NEW d \in Clients, d # c
      PROVE  /\ pc'[d] = pc[d] /\ snap'[d] = snap[d] /\ lease'[d] = lease[d]
             /\ lost'[d] = lost[d] /\ renewing'[d] = renewing[d] /\ req'[d] = req[d]
  BY <1>1 DEF Alone
<1>2. UNCHANGED <<clock, store, mint, grantExp>> /\ InFlight' \subseteq InFlight
  BY Zenon DEF Alone
<1>3. ASSUME NEW r \in stray'
      PROVE  r \in InFlight /\ (r \in stray \/ (r = req[c] /\ req[c].status = "sent"))
  BY <1>2 DEF Alone, InFlight
<1>4. SpreadInv' /\ HoldBounded'
  BY Zenon, <1>2 DEF IInv, SpreadInv, HoldBounded
<1>5. MintInv'
  <2>1. ASSUME NEW t PROVE Minted(t)' <=> Minted(t)
    BY <1>2 DEF Minted
  <2>2. Minted(NoToken)
    BY DEF Minted
  <2>3. Minted(store'.token)
    BY <1>2 DEF IInv, MintInv
  <2>4. ASSUME NEW d \in Clients
        PROVE  /\ Minted(snap'[d].token) /\ Minted(lease'[d].token)
               /\ Minted(req'[d].token) /\ Minted(req'[d].expect)
    <3>1. CASE d = c
      BY Zenon, <2>2, <3>1 DEF KnownTokens, IInv, MintInv
    <3>2. CASE d # c
      BY <1>1, <3>2 DEF IInv, MintInv
    <3> QED
      BY Zenon, <3>1, <3>2
  <2>5. ASSUME NEW r \in stray' PROVE Minted(r.token) /\ Minted(r.expect)
    BY <1>3 DEF IInv, MintInv
  <2> QED
    BY <2>1, <2>3, <2>4, <2>5 DEF MintInv
<1>6. UnseenInv'
  <2> SUFFICES ASSUME NEW r \in InFlight' PROVE Unseen(r.token)'
    BY DEF UnseenInv
  <2>1. r \in InFlight
    BY <1>2
  <2>2. Unseen(r.token)
    BY Zenon, <2>1 DEF IInv, UnseenInv
  <2>3. /\ r.token # NoToken /\ r.status = "sent"
        /\ req[c].status # "none" /\ req[c].token = r.token => req[c] = r
    BY <2>1, FlightFacts
  <2>4. r.token # store'.token
    BY <1>2, <2>2 DEF Unseen
  <2>5. ASSUME NEW d \in Clients
        PROVE  r.token # snap'[d].token /\ r.token # lease'[d].token /\ r.token # req'[d].expect
    <3>1. CASE d = c
      <4>1. r.token # snap'[c].token
        BY Zenon, <2>2, <2>3 DEF Unseen, KnownTokens
      <4>2. r.token # lease'[c].token
        BY Zenon, <2>2, <2>3 DEF Unseen, KnownTokens, Answered
      <4>3. r.token # req'[c].expect
        BY <2>2, <2>3 DEF Unseen, KnownTokens
      <4> QED
        BY Zenon, <3>1, <4>1, <4>2, <4>3
    <3>2. CASE d # c
      BY Zenon, <1>1, <2>2, <3>2 DEF Unseen
    <3> QED
      BY <3>1, <3>2
  <2>6. ASSUME NEW q \in stray' PROVE r.token # q.expect
    BY Zenon, <1>3, <2>2 DEF Unseen
  <2> QED
    BY <2>4, <2>5, <2>6 DEF Unseen
<1>7. OwnInv'
  <2>1. ASSUME NEW d \in Clients, req'[d].status # "none",
               NEW r \in InFlight', r.kind # "acquire"
        PROVE  r.expect # req'[d].token
    <3>1. req'[d].token = req[d].token /\ req[d].status # "none"
      BY <1>1, <2>1 DEF KnownTokens
    <3> QED
      BY Zenon, <1>2, <2>1, <3>1 DEF IInv, OwnInv
  <2>2. ASSUME NEW d \in Clients, pc'[d] = "held", ~lost'[d],
               NEW r \in stray', r.kind # "acquire"
        PROVE  r.expect # lease'[d].token
    <3>1. CASE d = c
      <4>1. r \in stray /\ r \in InFlight
        BY Zenon, <1>3, <2>2, <3>1 DEF KnownTokens
      <4>2. CASE pc[c] = "held" /\ ~lost[c] /\ lease'[c].token = lease[c].token
        BY <2>2, <3>1, <4>1, <4>2 DEF IInv, OwnInv
      <4>3. CASE Answered(c) /\ lease'[c].token = req[c].token
        BY Zenon, <2>2, <3>1, <4>1, <4>3 DEF IInv, OwnInv, Answered
      <4> QED
        BY Zenon, <2>2, <3>1, <4>2, <4>3 DEF KnownTokens
    <3>2. CASE d # c
      <4>1. pc[d] = "held" /\ ~lost[d] /\ lease'[d] = lease[d]
        BY <1>1, <2>2, <3>2
      <4>2. CASE r \in stray
        BY <2>2, <4>1, <4>2 DEF IInv, OwnInv
      <4>3. CASE r = req[c] /\ req[c].status = "sent"
        <5>1. r.expect[1] = c
          BY ZenonT(30), <1>3, <2>2, <4>3 DEF IInv, OwnInv, ReqInv, ReqOK
        <5>2. lease[d].token[1] = d
          BY Zenon, <4>1 DEF IInv, ReqInv, ReqOK, Holding
        <5> QED
          BY <3>2, <4>1, <5>1, <5>2
      <4> QED
        BY <1>3, <4>2, <4>3
    <3> QED
      BY Zenon, <3>1, <3>2
  <2>3. ASSUME NEW r \in InFlight', r.kind # "acquire"
        PROVE  r.expect # NoToken /\ r.expect[1] = r.client
    BY Zenon, <1>2, <2>3 DEF IInv, OwnInv
  <2> QED
    BY Zenon, <2>1, <2>2, <2>3 DEF OwnInv
<1>8. MatchInv'
  <2> SUFFICES ASSUME NEW r \in InFlight', r.expect = store'.token PROVE MatchOK(r)'
    BY Zenon DEF MatchInv
  <2>1. MatchOK(r)
    BY <1>2 DEF IInv, MatchInv
  <2> QED
    BY <1>2, <2>1 DEF MatchOK, MayTake, SafelyExpired
<1>9. ASSUME NEW d \in Clients
      PROVE  ReqOK(d)' /\ SnapOK(d)' /\ HeldOK(d)' /\ AnswerOK(d)' /\ HolderOK(d)'
  <2>1. CASE d # c
    BY <1>1, <1>2, <2>1, OtherClient
  <2> QED
    BY Zenon, <2>1
<1>10. ReqInv' /\ SnapInv' /\ HeldInv' /\ AnswerInv' /\ HolderInv'
  BY <1>9 DEF ReqInv, SnapInv, HeldInv, AnswerInv, HolderInv
<1> QED
  BY <1>4, <1>5, <1>6, <1>7, <1>8, <1>10 DEF IInv

-----------------------------------------------------------------------------
\* The clocks, and the steps of an acquisition.

\* A clock tick preserves the invariant.
LEMMA TickStep == ASSUME IInv, NEW c \in Clients, Tick(c) PROVE IInv'
<1> USE DurationAssumption, SkewAssumption, SpreadAssumption
<1>1. TypeOK'
  BY Zenon, TypeStep DEF IInv, Next
<1>2. InFlight' \subseteq InFlight
  BY DEF InFlight, IInv, TypeOK, Request, Tick
<1>3. /\ stray \subseteq InFlight
      /\ \A r \in InFlight :
           /\ r.status = "sent" /\ r.token # NoToken
           /\ \A d \in Clients : req[d].status # "none" /\ req[d].token = r.token => req[d] = r
  BY Zenon, FlightFacts DEF InFlight
<1>4. SpreadInv' /\ MintInv' /\ HoldBounded'
  BY <1>2 DEF IInv, TypeOK, Tick, SpreadInv, MintInv, Minted, HoldBounded, Request, Record, HeldRecord
<1>5. ReqInv'
  BY ZenonT(30), <1>1 DEF IInv, TypeOK, Tick, ReqInv, ReqOK, Holding, Request, HeldRecord
<1>6. UnseenInv' /\ StrayInv'
  BY <1>2, <1>3 DEF IInv, TypeOK, Tick, UnseenInv, Unseen, StrayInv, Request
<1>7. OwnInv'
  BY <1>2, <1>3 DEF IInv, TypeOK, Tick, OwnInv, ReqInv, ReqOK, Request, HeldRecord
<1>8. SnapInv' /\ MatchInv'
  BY <1>2, <1>3 DEF IInv, TypeOK, Tick, SnapInv, SnapOK, MatchInv, MatchOK, MayTake, SafelyExpired, Request, Record
<1>9. HeldInv'
  BY <1>1 DEF IInv, TypeOK, Tick, HeldInv, HeldOK, Holding, AnswerInv, AnswerOK, Answered, Write, ReqInv, ReqOK, HeldRecord, Request
<1>10. AnswerInv'
  BY Zenon, <1>1 DEF IInv, TypeOK, Tick, AnswerInv, AnswerOK, Answered, Write, Request, HeldRecord
<1>11. HolderInv'
  BY <1>1 DEF IInv, TypeOK, Tick, HolderInv, HolderOK, Answered, Overtaken, AnswerInv, AnswerOK, ReqInv, ReqOK, Request, HeldRecord, Record
<1> QED
  BY <1>1, <1>4, <1>5, <1>6, <1>7, <1>8, <1>9, <1>10, <1>11 DEF IInv

\* Reading the record preserves the invariant.
LEMMA GetStep == ASSUME IInv, NEW c \in Clients, Get(c) PROVE IInv'
<1> USE DurationAssumption, SkewAssumption
<1>1. TypeOK'
  BY TypeStep DEF IInv, Next
<1>2. /\ UNCHANGED <<clock, store, mint, lease, lost, renewing, req, stray, grantExp>>
      /\ pc[c] = "idle" /\ pc'[c] = "got" /\ snap'[c] = store
      /\ \A d \in Clients \ {c} : pc'[d] = pc[d] /\ snap'[d] = snap[d]
  BY Zenon DEF IInv, TypeOK, Get
<1>3. Alone(c) /\ StrayInv'
  BY Zenon, <1>2, NothingSent DEF Alone
<1>4. KnownTokens(c)
  BY Zenon, <1>2 DEF KnownTokens
<1>5. ReqOK(c)'
  <2>1. ReqOK(c)
    BY Zenon DEF IInv, ReqInv
  <2> QED
    BY <1>2, <2>1 DEF ReqOK, Holding
<1>6. SnapOK(c)'
  BY <1>2 DEF IInv, SnapInv, SnapOK
<1>7. HeldOK(c)'
  BY Zenon, <1>2 DEF IInv, HeldInv, HeldOK, Holding
<1>8. AnswerOK(c)'
  BY Zenon, <1>2 DEF IInv, AnswerInv, AnswerOK, Answered, Write
<1>9. HolderOK(c)'
  BY <1>2 DEF IInv, HolderInv, HolderOK, Answered, Overtaken
<1> QED
  BY <1>1, <1>3, <1>4, <1>5, <1>6, <1>7, <1>8, <1>9, AloneStep

\* Finding the lease held preserves the invariant.
LEMMA AcquireBusyStep == ASSUME IInv, NEW c \in Clients, AcquireBusy(c) PROVE IInv'
<1> USE DurationAssumption, SkewAssumption
<1>1. TypeOK'
  BY TypeStep DEF IInv, Next
<1>2. /\ UNCHANGED <<clock, store, mint, lease, lost, renewing, req, stray, grantExp>>
      /\ pc[c] = "got" /\ pc'[c] = "idle" /\ snap'[c].token = NoToken
      /\ \A d \in Clients \ {c} : pc'[d] = pc[d] /\ snap'[d] = snap[d]
  BY Zenon DEF IInv, TypeOK, AcquireBusy, Absent
<1>3. Alone(c) /\ StrayInv'
  BY Zenon, <1>2, NothingSent DEF Alone
<1>4. KnownTokens(c)
  BY Zenon, <1>2 DEF KnownTokens
<1>5. ReqOK(c)'
  <2>1. ReqOK(c)
    BY Zenon DEF IInv, ReqInv
  <2> QED
    BY <1>2, <2>1 DEF ReqOK, Holding
<1>6. SnapOK(c)'
  BY Zenon, <1>2 DEF IInv, SnapInv, SnapOK
<1>7. HeldOK(c)'
  BY Zenon, <1>2 DEF IInv, HeldInv, HeldOK, Holding
<1>8. AnswerOK(c)'
  BY Zenon, <1>2 DEF IInv, AnswerInv, AnswerOK, Answered, Write
<1>9. HolderOK(c)'
  BY <1>2 DEF IInv, HolderInv, HolderOK, Answered, Overtaken
<1> QED
  BY <1>1, <1>3, <1>4, <1>5, <1>6, <1>7, <1>8, <1>9, AloneStep

\* Sending an acquisition preserves the invariant.
LEMMA AcquireSendStep == ASSUME IInv, NEW c \in Clients, AcquireSend(c) PROVE IInv'
<1> USE DurationAssumption, SkewAssumption
<1>1. TypeOK'
  BY Zenon, TypeStep DEF IInv, Next
<1>2. /\ UNCHANGED <<clock, store, lease, lost, renewing, stray, grantExp>>
      /\ \A d \in Clients \ {c} : req'[d] = req[d] /\ pc'[d] = pc[d] /\ snap'[d] = snap[d]
      /\ req'[c].token = <<c, mint>> /\ req'[c].expect = snap[c].token
      /\ req'[c].kind = "acquire" /\ req'[c].client = c /\ req'[c].status = "sent"
      /\ req'[c].state = "held" /\ req'[c].epoch = snap[c].epoch + 1
      /\ pc[c] = "got" /\ pc'[c] = "acquiring" /\ snap'[c].token = NoToken
      /\ mint' = mint + 1 /\ MayTake(snap[c], clock[c])
  BY Zenon DEF IInv, TypeOK, AcquireSend, Send, Absent
<1>3. UnseenInv' /\ StrayInv'
  <2>1. <<c, mint>> # snap[c].token
    BY NextToken
  <2>2. \A r \in InFlight : r.token # snap[c].token
    BY Zenon DEF IInv, UnseenInv, Unseen
  <2> QED
    BY Zenon, <1>2, <2>1, <2>2, SendUnseen
<1>4. OwnInv'
  <2>1. ASSUME NEW r \in InFlight', r.kind # "acquire" PROVE r \in InFlight
    BY <1>2, <2>1, FlightAdd
  <2>2. ASSUME NEW d \in Clients, req'[d].status # "none",
               NEW r \in InFlight', r.kind # "acquire"
        PROVE  r.expect # req'[d].token
    <3>1. CASE d = c
      BY Zenon, <1>2, <2>1, <2>2, <3>1, NextToken
    <3>2. CASE d # c
      BY Zenon, <1>2, <2>1, <2>2, <3>2 DEF IInv, OwnInv
    <3> QED
      BY Zenon, <3>1, <3>2
  <2>3. ASSUME NEW d \in Clients, pc'[d] = "held", ~lost'[d]
        PROVE  \A r \in stray' : r.kind # "acquire" => r.expect # lease'[d].token
    BY <1>2, <2>3 DEF IInv, OwnInv
  <2>4. ASSUME NEW r \in InFlight', r.kind # "acquire"
        PROVE  r.expect # NoToken /\ r.expect[1] = r.client
    BY Zenon, <2>1, <2>4 DEF IInv, OwnInv
  <2> QED
    BY Zenon, <2>2, <2>3, <2>4 DEF OwnInv
<1>5. MatchInv'
  <2> SUFFICES ASSUME NEW r \in InFlight', r.expect = store'.token PROVE MatchOK(r)'
    BY Zenon DEF MatchInv
  <2>1. CASE r \in InFlight
    <3>1. MatchOK(r)
      BY Zenon, <1>2, <2>1 DEF IInv, MatchInv
    <3> QED
      BY <1>2, <3>1 DEF MatchOK, MayTake, SafelyExpired
  <2>2. CASE r = req'[c]
    <3>1. snap[c] = store
      BY <1>2, <2>2 DEF IInv, SnapInv, SnapOK
    <3> QED
      BY Zenon, <1>2, <2>2, <3>1 DEF MatchOK, MayTake, SafelyExpired
  <2> QED
    BY <1>2, <2>1, <2>2, FlightAdd
<1>6. MintInv'
  <2>1. snap[c].token \in Token /\ Minted(snap[c].token)
    BY Zenon DEF IInv, TypeOK, Record, MintInv
  <2> QED
    BY Zenon, <1>2, <2>1, MintMore
<1>7. ReqOK(c)' /\ SnapOK(c)' /\ HeldOK(c)' /\ AnswerOK(c)' /\ HolderOK(c)'
  <2>1. req'[c].token # NoToken /\ req'[c].token[1] = c
    <3>1. req'[c].token = <<c, mint>>
      BY Zenon, <1>2
    <3>2. <<c, mint>> # NoToken
      BY Zenon, NextToken
    <3> QED
      BY <3>1, <3>2
  <2>2. ReqOK(c)'
    BY Zenon, <1>2, <2>1 DEF ReqOK, Holding
  <2> QED
    BY Zenon, <1>2, <2>2 DEF SnapOK, HeldOK, Holding, AnswerOK, Answered, HolderOK
<1>8. ASSUME NEW d \in Clients, d # c
      PROVE  ReqOK(d)' /\ SnapOK(d)' /\ HeldOK(d)' /\ AnswerOK(d)' /\ HolderOK(d)'
  BY <1>2, <1>8, OtherClient
<1>9. ReqInv' /\ SnapInv' /\ HeldInv' /\ AnswerInv' /\ HolderInv'
  BY Zenon, <1>7, <1>8 DEF ReqInv, SnapInv, HeldInv, AnswerInv, HolderInv
<1>10. SpreadInv' /\ HoldBounded'
  BY Zenon, <1>2 DEF IInv, SpreadInv, HoldBounded
<1> QED
  BY <1>1, <1>3, <1>4, <1>5, <1>6, <1>9, <1>10 DEF IInv

\* A granted acquisition preserves the invariant.
LEMMA AcquireOkStep == ASSUME IInv, NEW c \in Clients, AcquireOk(c) PROVE IInv'
<1> USE DurationAssumption, SkewAssumption
<1>1. TypeOK'
  BY TypeStep DEF IInv, Next
<1>2. /\ UNCHANGED <<clock, store, mint, snap, stray, grantExp>>
      /\ pc[c] = "acquiring" /\ req[c].status = "ok" /\ pc'[c] = "held" /\ ~lost'[c]
      /\ lease'[c].token = req[c].token /\ lease'[c].epoch = req[c].epoch
      /\ lease'[c].exp = req[c].exp /\ lease'[c].maxExp = req[c].exp + 2 * Duration
      /\ req'[c].client = c /\ req'[c].status = "none"
      /\ req'[c].token = NoToken /\ req'[c].expect = NoToken
      /\ \A d \in Clients \ {c} :
           /\ pc'[d] = pc[d] /\ lease'[d] = lease[d] /\ lost'[d] = lost[d]
           /\ renewing'[d] = renewing[d] /\ req'[d] = req[d]
  BY Zenon DEF IInv, TypeOK, AcquireOk, NoReq
<1>3. Alone(c) /\ StrayInv'
  BY <1>2, NothingSent DEF Alone
<1>4. KnownTokens(c)
  BY Zenon, <1>2 DEF KnownTokens, Answered
<1>5. ReqOK(c)'
  <2>1. ReqOK(c)
    BY DEF IInv, ReqInv
  <2> QED
    BY Zenon, <1>2, <2>1 DEF ReqOK, Holding
<1>6. SnapOK(c)'
  BY Zenon, <1>2 DEF IInv, SnapInv, SnapOK
<1>7. HeldOK(c)'
  <2> SUFFICES ASSUME store.token = req[c].token
               PROVE  /\ store.state = "held" /\ store.epoch = req[c].epoch
                      /\ store.exp = req[c].exp /\ grantExp = req[c].exp
    <3>1. grantExp \in Nat /\ grantExp + 2 * Duration <= grantExp + 2 * Duration
      BY DEF IInv, TypeOK
    <3> QED
      BY ZenonT(30), <1>2, <3>1 DEF HeldOK
  <2>1. req[c].kind = "acquire" /\ req[c].state = "held"
    BY Zenon, <1>2 DEF IInv, ReqInv, ReqOK
  <2>2. store = Write(req[c]) /\ grantExp = req[c].exp
    BY Zenon, <1>2, <2>1 DEF IInv, AnswerInv, AnswerOK, Answered
  <2> QED
    BY Zenon, <2>1, <2>2 DEF Write
<1>8. AnswerOK(c)'
  BY Zenon, <1>2 DEF AnswerOK, Answered
<1>9. HolderOK(c)'
  BY Zenon, <1>2 DEF IInv, HolderInv, HolderOK, Answered, Overtaken
<1> QED
  BY <1>1, <1>3, <1>4, <1>5, <1>6, <1>7, <1>8, <1>9, AloneStep

\* A lost acquisition preserves the invariant.
LEMMA AcquireConflictStep == ASSUME IInv, NEW c \in Clients, AcquireConflict(c) PROVE IInv'
<1> USE DurationAssumption, SkewAssumption
<1>1. TypeOK'
  BY TypeStep DEF IInv, Next
<1>2. /\ UNCHANGED <<clock, store, mint, snap, lease, lost, renewing, stray, grantExp>>
      /\ pc[c] = "acquiring" /\ pc'[c] = "idle"
      /\ req'[c].client = c /\ req'[c].status = "none"
      /\ req'[c].token = NoToken /\ req'[c].expect = NoToken
      /\ \A d \in Clients \ {c} : pc'[d] = pc[d] /\ req'[d] = req[d]
  BY Zenon DEF IInv, TypeOK, AcquireConflict, NoReq
<1>3. Alone(c) /\ StrayInv'
  BY <1>2, NothingSent DEF Alone
<1>4. KnownTokens(c)
  BY Zenon, <1>2 DEF KnownTokens
<1>5. ReqOK(c)'
  <2>1. ReqOK(c)
    BY DEF IInv, ReqInv
  <2> QED
    BY Zenon, <1>2, <2>1 DEF ReqOK, Holding
<1>6. SnapOK(c)'
  BY Zenon, <1>2 DEF IInv, SnapInv, SnapOK
<1>7. HeldOK(c)'
  BY <1>2 DEF IInv, HeldInv, HeldOK, Holding
<1>8. AnswerOK(c)'
  BY Zenon, <1>2 DEF IInv, AnswerInv, AnswerOK, Answered, Write
<1>9. HolderOK(c)'
  BY <1>2 DEF IInv, HolderInv, HolderOK, Answered, Overtaken
<1> QED
  BY <1>1, <1>3, <1>4, <1>5, <1>6, <1>7, <1>8, <1>9, AloneStep

-----------------------------------------------------------------------------
\* The steps of a holder: renewal, release and abandonment.

\* Sending a renew preserves the invariant.
LEMMA RenewSendStep == ASSUME IInv, NEW c \in Clients, RenewSend(c) PROVE IInv'
<1> USE DurationAssumption, SkewAssumption
<1>1. TypeOK'
  BY TypeStep DEF IInv, Next
<1>2. /\ stray' = stray /\ store' = store /\ lease' = lease /\ clock' = clock /\ snap' = snap
      /\ \A d \in Clients \ {c} : /\ req'[d] = req[d] /\ pc'[d] = pc[d]
                                  /\ renewing'[d] = renewing[d]
      /\ req'[c].token = <<c, mint>> /\ req'[c].expect = lease[c].token
      /\ req'[c].kind = "renew" /\ req'[c].state = "held" /\ req'[c].client = c
      /\ req'[c].epoch = lease[c].epoch /\ req'[c].exp = clock[c] + Duration
      /\ req'[c].status = "sent" /\ pc[c] = "held" /\ pc'[c] = "held"
      /\ mint' = mint + 1 /\ lost' = lost /\ grantExp' = grantExp
      /\ req[c].status = "none"
      /\ renewing[c] /\ renewing' = renewing
      /\ lease[c].exp < clock[c] + Duration /\ clock[c] + Duration <= lease[c].maxExp
  BY Zenon DEF IInv, TypeOK, RenewSend, Send
<1>3. lease[c].token # NoToken /\ lease[c].token[1] = c
  BY Zenon, <1>2 DEF IInv, ReqInv, ReqOK, Holding
<1>4. UnseenInv' /\ StrayInv'
  <2>1. <<c, mint>> # lease[c].token
    BY NextToken
  <2>2. \A r \in InFlight : r.token # lease[c].token
    BY Zenon DEF IInv, UnseenInv, Unseen
  <2> QED
    BY ZenonT(30), <1>2, <2>1, <2>2, SendUnseen
<1>5. OwnInv'
  <2>1. ASSUME NEW d \in Clients, req'[d].status # "none",
               NEW r \in InFlight', r.kind # "acquire"
        PROVE  r.expect # req'[d].token
    <3>1. CASE r \in InFlight
      <4>1. CASE d = c
        <5>1. req'[d].token = <<c, mint>>
          BY Zenon, <1>2, <4>1
        <5> QED
          BY Zenon, <3>1, <5>1, NextToken
      <4>2. CASE d # c
        <5>1. req'[d] = req[d]
          BY Zenon, <1>2, <4>2
        <5> QED
          BY Zenon, <2>1, <3>1, <5>1 DEF IInv, OwnInv
      <4> QED
        BY Zenon, <4>1, <4>2
    <3>2. CASE r = req'[c] /\ d = c
      BY Zenon, <1>2, <3>2, NextToken
    <3>3. CASE r = req'[c] /\ d # c
      <4>1. req[d].token[1] = d
        <5>1. req'[d] = req[d]
          BY Zenon, <1>2, <3>3
        <5> QED
          BY Zenon, <2>1, <5>1 DEF IInv, ReqInv, ReqOK
      <4>2. r.expect = lease[c].token /\ req'[d].token = req[d].token
        BY Zenon, <1>2, <3>3
      <4> QED
        BY <1>3, <3>3, <4>1, <4>2
    <3> QED
      BY Zenon, <1>2, <3>1, <3>2, <3>3, FlightAdd
  <2>2. ASSUME NEW d \in Clients, pc'[d] = "held", ~lost'[d]
        PROVE  \A r \in stray' : r.kind # "acquire" => r.expect # lease'[d].token
    BY Zenon, <1>2, <2>2 DEF IInv, OwnInv
  <2>3. ASSUME NEW r \in InFlight', r.kind # "acquire"
        PROVE  r.expect # NoToken /\ r.expect[1] = r.client
    <3>1. CASE r \in InFlight
      BY Zenon, <2>3, <3>1 DEF IInv, OwnInv
    <3>2. CASE r = req'[c]
      BY Zenon, <1>2, <1>3, <3>2
    <3> QED
      BY Zenon, <1>2, <3>1, <3>2, FlightAdd
  <2> QED
    BY <2>1, <2>2, <2>3 DEF OwnInv
<1>6. MatchInv'
  <2>1. ASSUME store.token = lease[c].token
        PROVE  /\ store.state = "held" /\ store.epoch = lease[c].epoch
               /\ lease[c].maxExp <= grantExp + 2 * Duration
    BY Zenon, <1>2, <2>1 DEF IInv, HeldInv, HeldOK, Holding
  <2>2. ASSUME NEW r \in InFlight', r.expect = store.token PROVE MatchOK(r)'
    <3>1. CASE r \in InFlight
      BY Zenon, <1>2, <2>2, <3>1 DEF IInv, MatchInv, MatchOK, MayTake, SafelyExpired
    <3>2. CASE r = req'[c]
      BY <1>2, <2>1, <2>2, <3>2 DEF IInv, TypeOK, HeldRecord, MatchOK
    <3> QED
      BY Zenon, <1>2, <3>1, <3>2, FlightAdd
  <2> QED
    BY <1>2, <2>2 DEF MatchInv
<1>7. MintInv'
  <2>1. lease[c].token \in Token /\ Minted(lease[c].token)
    BY DEF IInv, TypeOK, HeldRecord, MintInv
  <2> QED
    BY Zenon, <1>2, <2>1, MintMore
<1>8. ReqOK(c)' /\ SnapOK(c)' /\ HeldOK(c)' /\ AnswerOK(c)' /\ HolderOK(c)'
  <2>1. req'[c].token # NoToken /\ req'[c].token[1] = c
    <3>1. req'[c].token = <<c, mint>>
      BY Zenon, <1>2
    <3>2. <<c, mint>> # NoToken
      BY Zenon, NextToken
    <3> QED
      BY <3>1, <3>2
  <2>2. ~lost[c] /\ lease[c].exp <= req'[c].exp /\ req'[c].exp <= lease[c].maxExp
    BY <1>2 DEF IInv, TypeOK, HeldRecord, ReqInv, ReqOK
  <2>3. ReqOK(c)'
    BY ZenonT(30), <1>2, <1>3, <2>1, <2>2 DEF ReqOK, Holding
  <2>4. SnapOK(c)' /\ AnswerOK(c)'
    BY Zenon, <1>2 DEF SnapOK, AnswerOK, Answered
  <2>5. HeldOK(c)'
    BY Zenon, <1>2 DEF IInv, HeldInv, HeldOK, Holding
  <2>6. HolderOK(c)'
    BY Zenon, <1>2 DEF IInv, HolderInv, HolderOK, Answered, Overtaken
  <2> QED
    BY Zenon, <2>3, <2>4, <2>5, <2>6
<1>9. ASSUME NEW d \in Clients, d # c
      PROVE  ReqOK(d)' /\ SnapOK(d)' /\ HeldOK(d)' /\ AnswerOK(d)' /\ HolderOK(d)'
  BY ZenonT(30), <1>2, <1>9, OtherClient
<1>10. ReqInv' /\ SnapInv' /\ HeldInv' /\ AnswerInv' /\ HolderInv'
  BY <1>8, <1>9 DEF ReqInv, SnapInv, HeldInv, AnswerInv, HolderInv
<1>11. SpreadInv' /\ HoldBounded'
  BY Zenon, <1>2 DEF IInv, SpreadInv, HoldBounded
<1> QED
  BY <1>1, <1>4, <1>5, <1>6, <1>7, <1>10, <1>11 DEF IInv

\* The end of the hold window preserves the invariant.
LEMMA RenewExhaustedStep == ASSUME IInv, NEW c \in Clients, RenewExhausted(c) PROVE IInv'
<1> USE DurationAssumption, SkewAssumption
<1>1. TypeOK'
  BY TypeStep DEF IInv, Next
<1>2. /\ UNCHANGED <<clock, store, mint, pc, snap, lease, lost, req, stray, grantExp>>
      /\ ~renewing'[c] /\ \A d \in Clients \ {c} : renewing'[d] = renewing[d]
  BY Zenon DEF IInv, TypeOK, RenewExhausted
<1>3. Alone(c) /\ StrayInv'
  BY <1>2, NothingSent DEF Alone
<1>4. KnownTokens(c)
  BY Zenon, <1>2 DEF KnownTokens
<1>5. ReqOK(c)'
  <2>1. ReqOK(c)
    BY DEF IInv, ReqInv
  <2> QED
    BY Zenon, <1>2, <2>1 DEF ReqOK, Holding
<1>6. SnapOK(c)'
  BY Zenon, <1>2 DEF IInv, SnapInv, SnapOK
<1>7. HeldOK(c)'
  BY Zenon, <1>2 DEF IInv, HeldInv, HeldOK, Holding
<1>8. AnswerOK(c)'
  BY Zenon, <1>2 DEF IInv, AnswerInv, AnswerOK, Answered, Write
<1>9. HolderOK(c)'
  BY Zenon, <1>2 DEF IInv, HolderInv, HolderOK, Answered, Overtaken
<1> QED
  BY <1>1, <1>3, <1>4, <1>5, <1>6, <1>7, <1>8, <1>9, AloneStep

\* A renewal that is answered preserves the invariant.
LEMMA RenewOkStep == ASSUME IInv, NEW c \in Clients, RenewOk(c) PROVE IInv'
<1> USE DurationAssumption, SkewAssumption
<1>1. TypeOK'
  BY Zenon, TypeStep DEF IInv, Next
<1>2. /\ UNCHANGED <<clock, store, mint, pc, snap, lost, renewing, stray, grantExp>>
      /\ pc[c] = "held" /\ req[c].status = "ok"
      /\ lease'[c].token = req[c].token /\ lease'[c].epoch = lease[c].epoch
      /\ lease'[c].exp = req[c].exp /\ lease'[c].maxExp = lease[c].maxExp
      /\ req'[c].client = c /\ req'[c].status = "none"
      /\ req'[c].token = NoToken /\ req'[c].expect = NoToken
      /\ \A d \in Clients \ {c} : lease'[d] = lease[d] /\ req'[d] = req[d]
  BY Zenon DEF IInv, TypeOK, RenewOk, NoReq
<1>3. Alone(c) /\ StrayInv'
  BY ZenonT(30), <1>2, NothingSent DEF Alone
<1>4. KnownTokens(c)
  BY ZenonT(30), <1>2 DEF KnownTokens, Answered
<1>5. ReqOK(c)'
  <2>1. ReqOK(c)
    BY DEF IInv, ReqInv
  <2> QED
    BY Zenon, <1>2, <2>1 DEF ReqOK, Holding
<1>6. SnapOK(c)'
  BY Zenon, <1>2 DEF IInv, SnapInv, SnapOK
<1>7. HeldOK(c)'
  BY <1>2
     DEF IInv, AnswerInv, AnswerOK, Answered, Write, ReqInv, ReqOK, HeldOK, Holding
<1>8. AnswerOK(c)'
  BY ZenonT(30), <1>2 DEF AnswerOK, Answered
<1>9. HolderOK(c)'
  BY <1>2
     DEF IInv, HolderInv, HolderOK, Answered, Overtaken, AnswerInv, AnswerOK, ReqInv, ReqOK
<1> QED
  BY <1>1, <1>3, <1>4, <1>5, <1>6, <1>7, <1>8, <1>9, AloneStep

\* A renewal that meets a conflict preserves the invariant.
LEMMA RenewConflictStep == ASSUME IInv, NEW c \in Clients, RenewConflict(c) PROVE IInv'
<1> USE DurationAssumption, SkewAssumption
<1>1. TypeOK'
  BY Zenon, TypeStep DEF IInv, Next
<1>2. /\ UNCHANGED <<clock, store, mint, pc, snap, lease, stray, grantExp>>
      /\ pc[c] = "held" /\ lost'[c] /\ ~renewing'[c]
      /\ req'[c].client = c /\ req'[c].status = "none"
      /\ req'[c].token = NoToken /\ req'[c].expect = NoToken
      /\ \A d \in Clients \ {c} :
           lost'[d] = lost[d] /\ renewing'[d] = renewing[d] /\ req'[d] = req[d]
  BY Zenon DEF IInv, TypeOK, RenewConflict, NoReq
<1>3. Alone(c) /\ StrayInv'
  BY Zenon, <1>2, NothingSent DEF Alone
<1>4. KnownTokens(c)
  BY ZenonT(30), <1>2 DEF KnownTokens
<1>5. ReqOK(c)'
  <2>1. ReqOK(c)
    BY DEF IInv, ReqInv
  <2> QED
    BY ZenonT(30), <1>2, <2>1 DEF ReqOK, Holding
<1>6. SnapOK(c)'
  BY Zenon, <1>2 DEF IInv, SnapInv, SnapOK
<1>7. HeldOK(c)'
  BY Zenon, <1>2 DEF IInv, HeldInv, HeldOK, Holding
<1>8. AnswerOK(c)'
  BY ZenonT(30), <1>2 DEF IInv, AnswerInv, AnswerOK, Answered, Write
<1>9. HolderOK(c)'
  BY <1>2 DEF IInv, HolderInv, HolderOK, Answered, Overtaken
<1> QED
  BY <1>1, <1>3, <1>4, <1>5, <1>6, <1>7, <1>8, <1>9, AloneStep

\* Sending a release preserves the invariant.
LEMMA ReleaseSendStep == ASSUME IInv, NEW c \in Clients, ReleaseSend(c) PROVE IInv'
<1> USE DurationAssumption, SkewAssumption
<1>1. TypeOK'
  BY Zenon, TypeStep DEF IInv, Next
<1>2. /\ stray' = stray /\ store' = store /\ lease' = lease /\ clock' = clock /\ snap' = snap
      /\ \A d \in Clients \ {c} : /\ req'[d] = req[d] /\ pc'[d] = pc[d]
                                  /\ renewing'[d] = renewing[d]
      /\ req'[c].token = <<c, mint>> /\ req'[c].expect = lease[c].token
      /\ req'[c].kind = "release" /\ req'[c].state = "released" /\ req'[c].client = c
      /\ req'[c].epoch = lease[c].epoch /\ req'[c].exp = clock[c]
      /\ req'[c].status = "sent" /\ pc[c] = "held" /\ pc'[c] = "releasing"
      /\ mint' = mint + 1 /\ lost' = lost /\ grantExp' = grantExp
      /\ req[c].status = "none"
  BY Zenon DEF IInv, TypeOK, ReleaseSend, Send
<1>3. lease[c].token # NoToken /\ lease[c].token[1] = c
  BY ZenonT(30), <1>2 DEF IInv, ReqInv, ReqOK, Holding
<1>4. UnseenInv' /\ StrayInv'
  <2>1. <<c, mint>> # lease[c].token
    BY NextToken
  <2>2. \A r \in InFlight : r.token # lease[c].token
    BY Zenon DEF IInv, UnseenInv, Unseen
  <2> QED
    BY ZenonT(30), <1>2, <2>1, <2>2, SendUnseen
<1>5. OwnInv'
  <2>1. ASSUME NEW d \in Clients, req'[d].status # "none",
               NEW r \in InFlight', r.kind # "acquire"
        PROVE  r.expect # req'[d].token
    <3>1. CASE r \in InFlight
      <4>1. CASE d = c
        <5>1. req'[d].token = <<c, mint>>
          BY Zenon, <1>2, <4>1
        <5> QED
          BY Zenon, <3>1, <5>1, NextToken
      <4>2. CASE d # c
        <5>1. req'[d] = req[d]
          BY Zenon, <1>2, <4>2
        <5> QED
          BY Zenon, <2>1, <3>1, <5>1 DEF IInv, OwnInv
      <4> QED
        BY Zenon, <4>1, <4>2
    <3>2. CASE r = req'[c] /\ d = c
      BY ZenonT(30), <1>2, <3>2, NextToken
    <3>3. CASE r = req'[c] /\ d # c
      <4>1. req[d].token[1] = d
        <5>1. req'[d] = req[d]
          BY Zenon, <1>2, <3>3
        <5> QED
          BY Zenon, <2>1, <5>1 DEF IInv, ReqInv, ReqOK
      <4> QED
        BY ZenonT(30), <1>2, <1>3, <3>3, <4>1
    <3> QED
      BY Zenon, <1>2, <3>1, <3>2, <3>3, FlightAdd
  <2>2. ASSUME NEW d \in Clients, pc'[d] = "held", ~lost'[d]
        PROVE  \A r \in stray' : r.kind # "acquire" => r.expect # lease'[d].token
    BY Zenon, <1>2, <2>2 DEF IInv, OwnInv
  <2>3. ASSUME NEW r \in InFlight', r.kind # "acquire"
        PROVE  r.expect # NoToken /\ r.expect[1] = r.client
    <3>1. CASE r \in InFlight
      BY <2>3, <3>1 DEF IInv, OwnInv
    <3>2. CASE r = req'[c]
      BY Zenon, <1>2, <1>3, <3>2
    <3> QED
      BY Zenon, <1>2, <3>1, <3>2, FlightAdd
  <2> QED
    BY <2>1, <2>2, <2>3 DEF OwnInv
<1>6. MatchInv'
  <2>1. ASSUME store.token = lease[c].token
        PROVE  /\ store.state = "held" /\ store.epoch = lease[c].epoch
               /\ lease[c].maxExp <= grantExp + 2 * Duration
    BY Zenon, <1>2, <2>1 DEF IInv, HeldInv, HeldOK, Holding
  <2>2. ASSUME NEW r \in InFlight', r.expect = store.token PROVE MatchOK(r)'
    <3>1. CASE r \in InFlight
      BY Zenon, <1>2, <2>2, <3>1 DEF IInv, MatchInv, MatchOK, MayTake, SafelyExpired
    <3>2. CASE r = req'[c]
      BY Zenon, <1>2, <2>1, <2>2, <3>2 DEF IInv, TypeOK, HeldRecord, MatchOK
    <3> QED
      BY Zenon, <1>2, <3>1, <3>2, FlightAdd
  <2> QED
    BY <1>2, <2>2 DEF MatchInv
<1>7. MintInv'
  <2>1. lease[c].token \in Token /\ Minted(lease[c].token)
    BY DEF IInv, TypeOK, HeldRecord, MintInv
  <2> QED
    BY Zenon, <1>2, <2>1, MintMore
<1>8. ReqOK(c)' /\ SnapOK(c)' /\ HeldOK(c)' /\ AnswerOK(c)' /\ HolderOK(c)'
  <2>1. req'[c].token # NoToken /\ req'[c].token[1] = c
    <3>1. req'[c].token = <<c, mint>>
      BY Zenon, <1>2
    <3>2. <<c, mint>> # NoToken
      BY Zenon, NextToken
    <3> QED
      BY <3>1, <3>2
  <2>3. ReqOK(c)'
    BY Zenon, <1>2, <1>3, <2>1 DEF ReqOK, Holding
  <2>4. SnapOK(c)' /\ AnswerOK(c)'
    BY <1>2 DEF SnapOK, AnswerOK, Answered
  <2>5. HeldOK(c)'
    BY Zenon, <1>2 DEF IInv, HeldInv, HeldOK, Holding
  <2>6. HolderOK(c)'
    BY Zenon, <1>2 DEF IInv, HolderInv, HolderOK, Answered, Overtaken
  <2> QED
    BY <2>3, <2>4, <2>5, <2>6
<1>9. ASSUME NEW d \in Clients, d # c
      PROVE  ReqOK(d)' /\ SnapOK(d)' /\ HeldOK(d)' /\ AnswerOK(d)' /\ HolderOK(d)'
  BY ZenonT(30), <1>2, <1>9, OtherClient
<1>10. ReqInv' /\ SnapInv' /\ HeldInv' /\ AnswerInv' /\ HolderInv'
  BY <1>8, <1>9 DEF ReqInv, SnapInv, HeldInv, AnswerInv, HolderInv
<1>11. SpreadInv' /\ HoldBounded'
  BY Zenon, <1>2 DEF IInv, SpreadInv, HoldBounded
<1> QED
  BY <1>1, <1>4, <1>5, <1>6, <1>7, <1>10, <1>11 DEF IInv

\* An answered release preserves the invariant.
LEMMA ReleaseDoneStep == ASSUME IInv, NEW c \in Clients, ReleaseDone(c) PROVE IInv'
<1> USE DurationAssumption, SkewAssumption
<1>1. TypeOK'
  BY Zenon, TypeStep DEF IInv, Next
<1>2. /\ UNCHANGED <<clock, store, mint, snap, stray, grantExp>>
      /\ pc'[c] = "idle" /\ lease'[c].token = NoToken
      /\ req'[c].client = c /\ req'[c].status = "none"
      /\ req'[c].token = NoToken /\ req'[c].expect = NoToken
      /\ \A d \in Clients \ {c} :
           /\ pc'[d] = pc[d] /\ lease'[d] = lease[d] /\ lost'[d] = lost[d]
           /\ renewing'[d] = renewing[d] /\ req'[d] = req[d]
  BY Zenon DEF IInv, TypeOK, ReleaseDone, Forget, NoReq, NoLease
<1>3. Alone(c) /\ StrayInv'
  BY ZenonT(30), <1>2, NothingSent DEF Alone
<1>4. KnownTokens(c)
  BY ZenonT(30), <1>2 DEF KnownTokens
<1>5. ReqOK(c)'
  <2>1. ReqOK(c)
    BY DEF IInv, ReqInv
  <2> QED
    BY ZenonT(30), <1>2, <2>1 DEF ReqOK, Holding
<1>6. SnapOK(c)'
  BY Zenon, <1>2 DEF IInv, SnapInv, SnapOK
<1>7. HeldOK(c)'
  BY ZenonT(30), <1>2 DEF IInv, HeldInv, HeldOK, Holding
<1>8. AnswerOK(c)'
  BY Zenon, <1>2 DEF IInv, AnswerInv, AnswerOK, Answered, Write
<1>9. HolderOK(c)'
  BY <1>2 DEF IInv, HolderInv, HolderOK, Answered, Overtaken
<1> QED
  BY <1>1, <1>3, <1>4, <1>5, <1>6, <1>7, <1>8, <1>9, AloneStep

\* Abandoning the lease preserves the invariant.
LEMMA AbandonStep == ASSUME IInv, NEW c \in Clients, Abandon(c) PROVE IInv'
<1> USE DurationAssumption, SkewAssumption
<1>1. TypeOK'
  BY Zenon, TypeStep DEF IInv, Next
<1>2. /\ UNCHANGED <<clock, store, mint, snap, req, stray, grantExp>>
      /\ req[c].status = "none" /\ pc'[c] = "idle" /\ lease'[c].token = NoToken
      /\ \A d \in Clients \ {c} :
           /\ pc'[d] = pc[d] /\ lease'[d] = lease[d] /\ lost'[d] = lost[d]
           /\ renewing'[d] = renewing[d]
  BY Zenon DEF IInv, TypeOK, Abandon, Forget, NoLease
<1>3. Alone(c) /\ StrayInv'
  BY ZenonT(30), <1>2, NothingSent DEF Alone
<1>4. KnownTokens(c)
  BY ZenonT(30), <1>2 DEF KnownTokens
<1>5. ReqOK(c)'
  <2>1. ReqOK(c)
    BY DEF IInv, ReqInv
  <2> QED
    BY Zenon, <1>2, <2>1 DEF ReqOK, Holding
<1>6. SnapOK(c)'
  BY Zenon, <1>2 DEF IInv, SnapInv, SnapOK
<1>7. HeldOK(c)'
  BY ZenonT(30), <1>2 DEF IInv, HeldInv, HeldOK, Holding
<1>8. AnswerOK(c)'
  BY ZenonT(30), <1>2 DEF IInv, AnswerInv, AnswerOK, Answered, Write
<1>9. HolderOK(c)'
  BY <1>2 DEF IInv, HolderInv, HolderOK, Answered, Overtaken
<1> QED
  BY <1>1, <1>3, <1>4, <1>5, <1>6, <1>7, <1>8, <1>9, AloneStep


-----------------------------------------------------------------------------
\* A request q takes effect, answering its client if that still waits for it.
Landing(q) ==
    /\ q \in InFlight /\ q.expect = store.token
    /\ store' = Write(q)
    /\ grantExp' = IF q.kind = "acquire" THEN q.exp ELSE grantExp
    /\ InFlight' \subseteq InFlight \ {q} /\ stray' \subseteq stray
    /\ \A d \in Clients :
         /\ req'[d].client = req[d].client /\ req'[d].kind = req[d].kind
         /\ req'[d].expect = req[d].expect /\ req'[d].token = req[d].token
         /\ req'[d].state = req[d].state /\ req'[d].epoch = req[d].epoch
         /\ req'[d].exp = req[d].exp
         /\ req'[d].status = req[d].status \/ (q = req[d] /\ req'[d].status = "ok")
    /\ q \in stray \/ \E d \in Clients : q = req[d] /\ req'[d].status = "ok"
    /\ UNCHANGED <<clock, mint, pc, snap, lease, lost, renewing>>

\* The holder whose record an acquisition replaces is stale by then: the taker
\* waited Skew past the expiry and the clocks differ by at most 2 * Skew.
LEMMA TakenIsStale ==
    ASSUME IInv, NEW q \in InFlight, q.expect = store.token, q.kind = "acquire",
           store.state = "held", NEW d \in Clients
    PROVE  clock[d] >= store.exp - Skew
<1>1. MatchOK(q) /\ q.client \in Clients
  BY FlightFacts DEF IInv, MatchInv, Request
<1>2. store.exp < clock[q.client] - Skew
  BY <1>1 DEF MatchOK, MayTake, SafelyExpired
<1>3. clock[q.client] - clock[d] <= MaxSpread
  BY <1>1 DEF IInv, SpreadInv
<1> QED
  BY <1>1, <1>2, <1>3, SkewAssumption, SpreadAssumption DEF IInv, TypeOK, Record

\* Holders keep their standing when a request takes effect.
LEMMA LandingHolder ==
    ASSUME IInv, NEW q, Landing(q)
    PROVE  HolderInv'
<1>1. q \in InFlight /\ Unseen(q.token) /\ q \in Request /\ q.status = "sent"
  BY FlightFacts DEF Landing, IInv, UnseenInv
<1>2. store'.token = q.token
  BY DEF Landing, Write
<1>3. ASSUME NEW d \in Clients, pc[d] = "held", ~lost[d]
      PROVE  (\/ store.token = lease[d].token
              \/ Answered(d) /\ store.token = req[d].token
              \/ Overtaken(d))'
  <2>1. store'.token # lease[d].token
    BY <1>1, <1>2 DEF Unseen
  <2>2. req[d].status # "none" => req[d].expect = lease[d].token /\ req[d].kind = "renew"
                                  /\ lease[d].exp <= req[d].exp /\ req[d].state = "held"
    BY <1>3 DEF IInv, ReqInv, ReqOK
  <2>3. CASE store.token = lease[d].token
    <3>1. store.state = "held" /\ store.exp = lease[d].exp
      BY <1>3, <2>3 DEF IInv, HeldInv, HeldOK, Holding
    <3>2. req[d].status # "ok"
      BY <2>2, <2>3 DEF IInv, AnswerInv, AnswerOK, Answered
    <3>3. CASE q.kind = "acquire"
      <4>1. clock[d] >= lease[d].exp - Skew
        BY <1>1, <3>1, <3>3, TakenIsStale DEF Landing
      <4>2. req'[d].status # "ok"
        BY <1>1, <2>2, <3>2, <3>3 DEF Landing
      <4> QED
        BY <2>1, <4>1, <4>2 DEF Landing, Overtaken
    <3>4. CASE q.kind # "acquire"
      <4>1. q \notin stray
        BY <1>3, <2>3, <3>4 DEF Landing, IInv, OwnInv
      <4>2. PICK e \in Clients : q = req[e] /\ req'[e].status = "ok"
        BY <4>1 DEF Landing
      <4>3. q.client = e /\ q.expect[1] = q.client /\ lease[d].token[1] = d
        BY Zenon, <1>1, <1>3, <3>4, <4>2 DEF IInv, OwnInv, ReqInv, ReqOK, Holding
      <4>4. e = d
        BY <2>3, <4>3 DEF Landing
      <4> QED
        BY <1>2, <4>2, <4>4 DEF Landing, Answered
    <3> QED
      BY <3>3, <3>4
  <2>4. CASE Answered(d) /\ store.token = req[d].token
    <3>1. req[d].status # "none" /\ store.state = "held" /\ store.exp = req[d].exp
      BY <2>2, <2>4 DEF IInv, AnswerInv, AnswerOK, Answered, Write
    <3>2. q.kind = "acquire"
      BY <1>1, <2>4, <3>1 DEF Landing, IInv, OwnInv
    <3>3. clock[d] >= req[d].exp - Skew
      BY <1>1, <3>1, <3>2, TakenIsStale DEF Landing
    <3>4. clock[d] >= lease[d].exp - Skew
      BY <2>2, <3>1, <3>3, SkewAssumption DEF IInv, TypeOK, HeldRecord, Request
    <3> QED
      BY <2>1, <3>3, <3>4 DEF Landing, Overtaken
  <2>5. CASE Overtaken(d)
    <3>1. req'[d].status = "ok" => req[d].status = "ok"
      BY <1>1, <2>2, <2>5 DEF Landing, Overtaken
    <3> QED
      BY <2>1, <2>5, <3>1 DEF Landing, Overtaken
  <2> QED
    BY <1>3, <2>3, <2>4, <2>5 DEF IInv, HolderInv, HolderOK
<1>4. ASSUME NEW d \in Clients, pc[d] = "acquiring", req'[d].status = "ok"
      PROVE  (store.token = req[d].token \/ clock[d] >= req[d].exp - Skew)'
  <2>1. CASE q = req[d]
    BY <1>2, <2>1 DEF Landing
  <2>2. CASE q # req[d]
    <3>1. req[d].status = "ok"
      BY <1>4, <2>2 DEF Landing
    <3>2. CASE store.token = req[d].token
      <4>1. q.kind = "acquire"
        BY <1>1, <3>1, <3>2 DEF Landing, IInv, OwnInv
      <4>2. store.state = "held" /\ store.exp = req[d].exp
        BY <1>4, <3>1, <3>2 DEF IInv, AnswerInv, AnswerOK, Answered, Write, ReqInv, ReqOK
      <4> QED
        BY <1>1, <4>1, <4>2, TakenIsStale DEF Landing
    <3>3. CASE clock[d] >= req[d].exp - Skew
      BY <3>3 DEF Landing
    <3> QED
      BY <1>4, <3>1, <3>2, <3>3 DEF IInv, HolderInv, HolderOK
  <2> QED
    BY <2>1, <2>2
<1> QED
  BY <1>3, <1>4 DEF HolderInv, HolderOK, Landing

\* A request that takes effect preserves the invariant.
LEMMA LandingStep ==
    ASSUME IInv, TypeOK', NEW q, Landing(q)
    PROVE  IInv'
<1> USE DurationAssumption
<1>1. /\ q \in InFlight /\ Unseen(q.token) /\ q \in Request /\ q.status = "sent"
      /\ Minted(q.token) /\ q.token # NoToken /\ q.token[1] = q.client
      /\ \A d \in Clients : req[d].status # "none" /\ req[d].token = q.token => req[d] = q
  BY FlightFacts DEF Landing, IInv, UnseenInv
<1>2. /\ store'.token = q.token /\ store'.state = q.state /\ store'.exp = q.exp
      /\ store'.epoch = q.epoch
  BY DEF Landing, Write
<1>3. MatchOK(q)
  BY <1>1 DEF Landing, IInv, MatchInv
<1>4. ASSUME NEW r \in InFlight' PROVE r \in InFlight /\ r.token # q.token /\ r.expect # q.token
  <2>1. r \in InFlight /\ r # q
    BY DEF Landing
  <2>2. CASE r \in stray
    <3>1. r.expect # q.token
      BY <1>1, <2>2 DEF Unseen
    <3>2. CASE q \in stray
      BY <2>1, <2>2, <3>1, <3>2 DEF IInv, StrayInv
    <3>3. CASE q \notin stray
      <4>1. PICK d \in Clients : q = req[d]
        BY <1>1, <3>3 DEF InFlight
      <4> QED
        BY <2>1, <2>2, <3>1, <4>1 DEF IInv, StrayInv
    <3> QED
      BY <3>2, <3>3
  <2>3. CASE r \notin stray
    <3>1. PICK d \in Clients : r = req[d] /\ req[d].status = "sent"
      BY <2>1, <2>3 DEF InFlight
    <3> QED
      BY <1>1, <2>1, <3>1 DEF Unseen
  <2> QED
    BY <2>2, <2>3
<1>5. UnseenInv'
  BY <1>2, <1>4 DEF Landing, IInv, UnseenInv, Unseen
<1>6. StrayInv' /\ OwnInv' /\ SpreadInv'
  BY <1>4 DEF Landing, IInv, StrayInv, OwnInv, SpreadInv
<1>7. MintInv'
  BY <1>1, <1>2 DEF Landing, IInv, MintInv, Minted
<1>8. ReqInv'
  <2> SUFFICES ASSUME NEW d \in Clients PROVE ReqOK(d)'
    BY DEF ReqInv
  <2>1. ReqOK(d)
    BY DEF IInv, ReqInv
  <2>2. req'[d].status = "none" <=> req[d].status = "none"
    BY <1>1 DEF Landing
  <2> QED
    BY <2>1, <2>2 DEF Landing, ReqOK, Holding
<1>9. SnapInv' /\ HeldInv' /\ MatchInv'
  BY <1>1, <1>2, <1>4 DEF Landing, Unseen, SnapInv, SnapOK, HeldInv, HeldOK, MatchInv
<1>10. AnswerInv'
  <2> SUFFICES ASSUME NEW d \in Clients, Answered(d)'
               PROVE  (/\ store.token # req[d].expect
                       /\ store.token = req[d].token =>
                            /\ store = Write(req[d])
                            /\ req[d].kind = "acquire" => grantExp = req[d].exp
                            /\ req[d].kind = "renew" =>
                                 lease[d].maxExp <= grantExp + 2 * Duration)'
    BY DEF AnswerInv, AnswerOK
  <2>1. store'.token # req'[d].expect
    BY <1>1, <1>2 DEF Landing, Unseen
  <2>2. ASSUME store'.token = req'[d].token
        PROVE  /\ store' = Write(req[d])'
               /\ req'[d].kind = "acquire" => grantExp' = req'[d].exp
               /\ req'[d].kind = "renew" => lease'[d].maxExp <= grantExp' + 2 * Duration
    <3>1. req[d].status # "none" /\ req[d] = q
      BY <1>1, <1>2, <2>2 DEF Landing, Answered
    <3>2. store' = Write(req[d])'
      BY <3>1 DEF Landing, Write
    <3>3. req'[d].kind = "acquire" => grantExp' = req'[d].exp
      BY <3>1 DEF Landing
    <3>4. req'[d].kind = "renew" => lease'[d].maxExp <= grantExp' + 2 * Duration
      <4>1. CASE q.kind = "renew"
        <5>1. q.expect = lease[d].token /\ pc[d] = "held"
          BY Zenon, <1>1, <3>1, <4>1 DEF IInv, ReqInv, ReqOK
        <5>2. HeldOK(d) /\ store.token = lease[d].token
          BY <5>1 DEF Landing, IInv, HeldInv
        <5>3. lease[d].maxExp <= grantExp + 2 * Duration
          BY <5>1, <5>2 DEF HeldOK, Holding
        <5> QED
          BY Zenon, <4>1, <5>3 DEF Landing
      <4> QED
        BY <3>1, <4>1 DEF Landing
    <3> QED
      BY <3>2, <3>3, <3>4
  <2> QED
    BY <2>1, <2>2
<1>11. HoldBounded'
  <2>1. q.kind \in Kind /\ q.exp \in Nat
    BY <1>1 DEF Request
  <2>2. CASE q.kind = "acquire"
    BY <1>2, <2>1, <2>2 DEF Landing, HoldBounded
  <2>3. CASE q.kind = "renew"
    BY <1>2, <1>3, <2>3 DEF Landing, HoldBounded, MatchOK
  <2>4. CASE q.kind = "release"
    BY <1>2, <1>3, <2>4 DEF HoldBounded, MatchOK
  <2> QED
    BY <2>1, <2>2, <2>3, <2>4 DEF Kind
<1> QED
  BY <1>5, <1>6, <1>7, <1>8, <1>9, <1>10, <1>11, LandingHolder DEF IInv

\* The outstanding request of c takes effect or meets a conflict.
LEMMA LandStep == ASSUME IInv, NEW c \in Clients, Land(c) PROVE IInv'
<1>1. TypeOK'
  BY TypeStep DEF IInv, Next
<1>2. req[c].status = "sent" /\ req[c] \in InFlight /\ req[c] \notin stray
  BY DEF Land, InFlight, IInv, StrayInv
<1>3. /\ \A d \in Clients \ {c} : req'[d] = req[d]
      /\ req'[c].client = req[c].client /\ req'[c].kind = req[c].kind
      /\ req'[c].expect = req[c].expect /\ req'[c].token = req[c].token
      /\ req'[c].state = req[c].state /\ req'[c].epoch = req[c].epoch
      /\ req'[c].exp = req[c].exp
      /\ req'[c].status = IF Matches(req[c]) THEN "ok" ELSE "conflict"
      /\ stray' = stray
  BY DEF Land, IInv, TypeOK, Request
<1>4. InFlight' \subseteq InFlight \ {req[c]}
  <2> SUFFICES ASSUME NEW r \in InFlight' PROVE r \in InFlight /\ r # req[c]
    OBVIOUS
  <2>1. CASE r \in stray
    BY <1>2, <2>1 DEF InFlight
  <2>2. CASE r \notin stray
    <3>1. PICK d \in Clients : r = req'[d] /\ req'[d].status = "sent"
      BY <1>3, <2>2 DEF InFlight
    <3>2. d # c
      BY <1>3, <3>1
    <3> QED
      <4>1. r = req[d] /\ req[d].status = "sent"
        BY Zenon, <1>3, <3>1, <3>2
      <4>2. req[d].client = d /\ req[c].client = c
        BY DEF IInv, ReqInv, ReqOK
      <4> QED
        BY <3>2, <4>1, <4>2 DEF InFlight
  <2> QED
    BY <2>1, <2>2
<1>5. CASE Matches(req[c])
  <2>1. Landing(req[c])
    BY <1>2, <1>3, <1>4, <1>5 DEF Land, Landing, Apply, Matches
  <2> QED
    BY <1>1, <2>1, LandingStep
<1>6. CASE ~Matches(req[c])
  <2>1. store' = store /\ grantExp' = grantExp
    BY <1>6 DEF Land
  <2>2. UNCHANGED <<clock, mint, pc, snap, lease, lost, renewing>>
    BY DEF Land
  <2>3. req'[c].status = "conflict" /\ store.token # req[c].expect
    BY <1>3, <1>6 DEF Matches
  <2>4. Alone(c) /\ StrayInv'
    BY Zenon, <1>3, <1>4, <2>1, <2>2, <2>3, NothingSent DEF Alone
  <2>5. KnownTokens(c)
    BY Zenon, <1>2, <1>3, <2>2 DEF KnownTokens
  <2>6. ReqOK(c)'
    <3>1. ReqOK(c)
      BY Zenon DEF IInv, ReqInv
    <3> QED
      BY <1>2, <1>3, <2>2, <3>1 DEF ReqOK, Holding
  <2>7. SnapOK(c)' /\ HeldOK(c)'
    BY Zenon, <2>1, <2>2 DEF IInv, SnapInv, SnapOK, HeldInv, HeldOK, Holding
  <2>8. AnswerOK(c)'
    BY Zenon, <1>2, <1>3, <2>1, <2>3 DEF IInv, UnseenInv, Unseen, AnswerOK
  <2>9. HolderOK(c)'
    BY <1>2, <1>3, <2>1, <2>2, <2>3 DEF IInv, HolderInv, HolderOK, Answered, Overtaken
  <2> QED
    BY <1>1, <2>4, <2>5, <2>6, <2>7, <2>8, <2>9, AloneStep
<1> QED
  BY <1>5, <1>6

\* So does a stray request.
LEMMA LandStrayStep == ASSUME IInv, NEW r \in stray, LandStray(r) PROVE IInv'
<1>1. TypeOK'
  BY TypeStep DEF IInv, Next
<1>2. r \in InFlight /\ InFlight' \subseteq InFlight \ {r} /\ stray' \subseteq stray
  <2>1. r \in InFlight /\ stray' = stray \ {r} /\ req' = req
    BY DEF LandStray, InFlight
  <2>2. r \notin {req[d] : d \in Clients}
    BY DEF IInv, StrayInv
  <2> QED
    BY <2>1, <2>2 DEF InFlight
<1>3. UNCHANGED <<clock, mint, pc, snap, lease, lost, renewing, req>>
  BY DEF LandStray
<1>4. CASE Matches(r) /\ Apply(r)
  <2>1. Landing(r)
    BY <1>2, <1>3, <1>4 DEF Landing, Apply, Matches
  <2> QED
    BY <1>1, <2>1, LandingStep
<1>5. CASE UNCHANGED <<store, grantExp>>
  <2>1. PICK c \in Clients : c = r.client
    BY DEF IInv, TypeOK, Request
  <2>2. Alone(c) /\ StrayInv'
    BY <1>2, <1>3, <1>5, NothingSent DEF Alone
  <2>3. KnownTokens(c)
    BY <1>2, <1>3 DEF KnownTokens
  <2>4. ReqOK(c)' /\ SnapOK(c)' /\ HeldOK(c)' /\ AnswerOK(c)' /\ HolderOK(c)'
    BY <1>3, <1>5, OtherClient
  <2> QED
    BY <1>1, <2>2, <2>3, <2>4, AloneStep
<1> QED
  BY <1>4, <1>5 DEF LandStray

\* A request answered twice preserves the invariant.
LEMMA RedeliverStep == ASSUME IInv, NEW c \in Clients, Redeliver(c) PROVE IInv'
<1> USE DurationAssumption, SkewAssumption
<1>1. TypeOK'
  BY TypeStep DEF IInv, Next
<1>2. /\ UNCHANGED <<clock, store, mint, pc, snap, lease, lost, renewing, stray, grantExp>>
      /\ req[c].status = "ok" /\ req'[c].status = "conflict"
      /\ req'[c].client = req[c].client /\ req'[c].kind = req[c].kind
      /\ req'[c].expect = req[c].expect /\ req'[c].token = req[c].token
      /\ req'[c].state = req[c].state /\ req'[c].epoch = req[c].epoch
      /\ req'[c].exp = req[c].exp
      /\ \A d \in Clients \ {c} : req'[d] = req[d]
  BY DEF IInv, TypeOK, Request, Redeliver
<1>3. Alone(c) /\ StrayInv'
  BY Zenon, <1>2, NothingSent DEF Alone
<1>4. KnownTokens(c)
  BY Zenon, <1>2 DEF KnownTokens
<1>5. ReqOK(c)'
  <2>1. ReqOK(c)
    BY Zenon DEF IInv, ReqInv
  <2> QED
    BY <1>2, <2>1 DEF ReqOK, Holding
<1>6. SnapOK(c)'
  BY Zenon, <1>2 DEF IInv, SnapInv, SnapOK
<1>7. HeldOK(c)'
  BY Zenon, <1>2 DEF IInv, HeldInv, HeldOK, Holding
<1>8. AnswerOK(c)'
  BY Zenon, <1>2 DEF IInv, AnswerInv, AnswerOK, Answered, Write
<1>9. HolderOK(c)'
  BY <1>2 DEF IInv, HolderInv, HolderOK, Answered, Overtaken
<1> QED
  BY <1>1, <1>3, <1>4, <1>5, <1>6, <1>7, <1>8, <1>9, AloneStep

\* A request that fails preserves the invariant.
LEMMA RequestFailsStep == ASSUME IInv, NEW c \in Clients, RequestFails(c) PROVE IInv'
<1> USE DurationAssumption, SkewAssumption
<1>1. TypeOK'
  BY TypeStep DEF IInv, Next
<1>2. /\ UNCHANGED <<clock, store, mint, snap, grantExp>>
      /\ \/ pc[c] = "held" /\ pc'[c] = "held" /\ lost'[c] /\ lease'[c] = lease[c]
         \/ pc'[c] = "idle" /\ lease'[c].token = NoToken
      /\ ~renewing'[c] /\ req'[c].client = c /\ req'[c].status = "none"
      /\ req'[c].token = NoToken /\ req'[c].expect = NoToken
      /\ \A d \in Clients \ {c} :
           /\ pc'[d] = pc[d] /\ lease'[d] = lease[d] /\ lost'[d] = lost[d]
           /\ renewing'[d] = renewing[d] /\ req'[d] = req[d]
  <2>1. /\ UNCHANGED <<clock, store, mint, snap, grantExp>>
        /\ req'[c] = NoReq(c) /\ \A d \in Clients \ {c} : req'[d] = req[d]
    BY DEF IInv, TypeOK, RequestFails, GiveUp
  <2>2. /\ req'[c].client = c /\ req'[c].status = "none"
        /\ req'[c].token = NoToken /\ req'[c].expect = NoToken
    BY <2>1 DEF NoReq
  <2>3. /\ \/ pc[c] = "held" /\ pc'[c] = "held" /\ lost'[c] /\ lease'[c] = lease[c]
           \/ pc'[c] = "idle" /\ lease'[c].token = NoToken
        /\ ~renewing'[c]
    <3>1. CASE pc[c] = "held" /\ lost' = [lost EXCEPT ![c] = TRUE]
               /\ renewing' = [renewing EXCEPT ![c] = FALSE] /\ UNCHANGED <<pc, lease>>
      BY <3>1 DEF IInv, TypeOK
    <3>2. CASE Forget(c)
      BY <3>2 DEF IInv, TypeOK, Forget, NoLease
    <3> QED
      BY <3>1, <3>2 DEF RequestFails
  <2>4. ASSUME NEW d \in Clients \ {c}
        PROVE  /\ pc'[d] = pc[d] /\ lease'[d] = lease[d] /\ lost'[d] = lost[d]
               /\ renewing'[d] = renewing[d]
    BY DEF IInv, TypeOK, RequestFails, Forget
  <2> QED
    BY <2>1, <2>2, <2>3, <2>4
<1>3. Alone(c) /\ StrayInv'
  <2>1. /\ InFlight' \subseteq InFlight /\ StrayInv'
        /\ \A r \in stray' : r \in stray \/ (r = req[c] /\ req[c].status = "sent")
    BY Zenon, GiveUpFacts DEF RequestFails
  <2> QED
    BY Zenon, <1>2, <2>1 DEF Alone
<1>4. KnownTokens(c)
  BY Zenon, <1>2 DEF KnownTokens
<1>5. ReqOK(c)'
  <2>1. ReqOK(c)
    BY DEF IInv, ReqInv
  <2> QED
    BY Zenon, <1>2, <2>1 DEF ReqOK, Holding
<1>6. SnapOK(c)'
  BY <1>2 DEF IInv, SnapInv, SnapOK
<1>7. HeldOK(c)'
  BY Zenon, <1>2 DEF IInv, HeldInv, HeldOK, Holding
<1>8. AnswerOK(c)'
  BY Zenon, <1>2 DEF IInv, AnswerInv, AnswerOK, Answered, Write
<1>9. HolderOK(c)'
  BY <1>2 DEF IInv, HolderInv, HolderOK, Answered, Overtaken
<1> QED
  BY <1>1, <1>3, <1>4, <1>5, <1>6, <1>7, <1>8, <1>9, AloneStep

\* A crash preserves the invariant.
LEMMA CrashStep == ASSUME IInv, NEW c \in Clients, Crash(c) PROVE IInv'
<1> USE DurationAssumption, SkewAssumption
<1>1. TypeOK'
  BY Zenon, TypeStep DEF IInv, Next
<1>2. /\ UNCHANGED <<clock, store, mint, grantExp>>
      /\ pc'[c] = "idle" /\ snap'[c].token = NoToken /\ lease'[c].token = NoToken
      /\ req'[c].client = c /\ req'[c].status = "none"
      /\ req'[c].token = NoToken /\ req'[c].expect = NoToken
      /\ \A d \in Clients \ {c} :
           /\ pc'[d] = pc[d] /\ snap'[d] = snap[d] /\ lease'[d] = lease[d]
           /\ lost'[d] = lost[d] /\ renewing'[d] = renewing[d] /\ req'[d] = req[d]
  BY DEF IInv, TypeOK, Crash, GiveUp, Forget, NoReq, NoLease, Absent
<1>3. Alone(c) /\ StrayInv'
  <2>1. /\ InFlight' \subseteq InFlight /\ StrayInv'
        /\ \A r \in stray' : r \in stray \/ (r = req[c] /\ req[c].status = "sent")
    BY Zenon, GiveUpFacts DEF Crash
  <2> QED
    BY ZenonT(30), <1>2, <2>1 DEF Alone
<1>4. KnownTokens(c)
  BY Zenon, <1>2 DEF KnownTokens
<1>5. ReqOK(c)'
  <2>1. ReqOK(c)
    BY DEF IInv, ReqInv
  <2> QED
    BY <1>2, <2>1 DEF ReqOK, Holding
<1>6. SnapOK(c)'
  BY ZenonT(30), <1>2 DEF IInv, SnapInv, SnapOK
<1>7. HeldOK(c)'
  BY Zenon, <1>2 DEF IInv, HeldInv, HeldOK, Holding
<1>8. AnswerOK(c)'
  BY Zenon, <1>2 DEF IInv, AnswerInv, AnswerOK, Answered, Write
<1>9. HolderOK(c)'
  BY <1>2 DEF IInv, HolderInv, HolderOK, Answered, Overtaken
<1> QED
  BY <1>1, <1>3, <1>4, <1>5, <1>6, <1>7, <1>8, <1>9, AloneStep

-----------------------------------------------------------------------------
\* The initial state satisfies the invariant.
LEMMA InitInv == Init => IInv
<1> SUFFICES ASSUME Init PROVE IInv
  BY Zenon
<1> USE DurationAssumption, SkewAssumption, SpreadAssumption
<1>1. TypeOK
  BY Zenon DEF Init, TypeOK, Record, HeldRecord, Request, Token, State, Kind, Status, PC,
         Absent, NoLease, NoReq
<1>2. InFlight = {}
  BY Zenon DEF Init, InFlight, NoReq
<1>3. MintInv /\ ReqInv
  BY Zenon DEF Init, MintInv, Minted, ReqInv, ReqOK, Holding, Absent, NoLease, NoReq
<1>4. UnseenInv /\ StrayInv /\ OwnInv /\ MatchInv
  BY Zenon, <1>2 DEF Init, UnseenInv, StrayInv, OwnInv, MatchInv, NoReq
<1>5. SpreadInv /\ SnapInv /\ HeldInv /\ AnswerInv /\ HolderInv /\ HoldBounded
  BY DEF Init, SpreadInv, SnapInv, SnapOK, HeldInv, HeldOK, Holding, AnswerInv, AnswerOK, Answered, HolderInv, HolderOK,
         HoldBounded, Absent, NoReq
<1> QED
  BY <1>1, <1>3, <1>4, <1>5 DEF IInv

\* Every step preserves the invariant.
LEMMA NextInv == IInv /\ [Next]_vars => IInv'
<1> SUFFICES ASSUME IInv, [Next]_vars PROVE IInv'
  OBVIOUS
<1>1. CASE UNCHANGED vars
  <2>1. UNCHANGED <<clock, store, mint, pc, snap, lease, lost, renewing, req, stray, grantExp>>
    BY <1>1 DEF vars
  <2>2. TypeOK' /\ SpreadInv' /\ HoldBounded'
    BY Zenon, <2>1 DEF IInv, TypeOK, SpreadInv, HoldBounded
  <2>3. MintInv'
    BY Zenon, <2>1 DEF IInv, MintInv, Minted
  <2>4. UnseenInv' /\ StrayInv' /\ OwnInv'
    BY <2>1 DEF IInv, InFlight, UnseenInv, Unseen, StrayInv, OwnInv
  <2>5. MatchInv'
    BY Zenon, <2>1 DEF IInv, InFlight, MatchInv, MatchOK, MayTake, SafelyExpired
  <2>6. ReqInv' /\ SnapInv' /\ HeldInv' /\ AnswerInv' /\ HolderInv'
    BY Zenon, <2>1, OtherClient DEF ReqInv, SnapInv, HeldInv, AnswerInv, HolderInv
  <2> QED
    BY <2>2, <2>3, <2>4, <2>5, <2>6 DEF IInv
<1>2. CASE Next
  BY Zenon, <1>2, TickStep, GetStep, AcquireBusyStep, AcquireSendStep, AcquireOkStep,
     AcquireConflictStep, LandStep, RedeliverStep, RequestFailsStep, RenewSendStep,
     RenewExhaustedStep, RenewOkStep, RenewConflictStep, ReleaseSendStep, ReleaseDoneStep,
     AbandonStep, CrashStep, LandStrayStep DEF Next
<1> QED
  BY <1>1, <1>2

\* The invariant IInv holds in every reachable state of the lease protocol.
THEOREM Invariance == Spec => []IInv
  BY InitInv, NextInv, PTL DEF Spec

\* The lease's variables keep their types (Lease!TypeOK).
THEOREM TypeCorrect == Spec => []TypeOK
<1>1. IInv => TypeOK
  BY Zenon DEF IInv
<1> QED
  BY <1>1, Invariance, PTL

\* A client that is not stale is where the record says it is.
LEMMA CurrentFromInv == IInv => FreshIsCurrent
<1> SUFFICES ASSUME IInv, NEW c \in Clients, Fresh(c)
             PROVE  /\ store.state = "held" /\ store.epoch = lease[c].epoch
                    /\ store.token # NoToken /\ store.token[1] = c
  BY DEF FreshIsCurrent
<1>1. pc[c] = "held" /\ ~lost[c] /\ clock[c] < lease[c].exp - Skew
  BY DEF Fresh
<1>2. ~Overtaken(c)
  BY <1>1, SkewAssumption DEF Overtaken, IInv, TypeOK, HeldRecord
<1>3. CASE store.token = lease[c].token
  BY Zenon, <1>1, <1>3 DEF IInv, HeldInv, HeldOK, ReqInv, ReqOK, Holding
<1>4. CASE Answered(c) /\ store.token = req[c].token
  BY <1>1, <1>4 DEF IInv, AnswerInv, AnswerOK, Answered, Write, ReqInv, ReqOK
<1> QED
  BY <1>1, <1>2, <1>3, <1>4 DEF IInv, HolderInv, HolderOK

\* A holder whose lease is not stale owns the latest epoch of a record that
\* says held (leaseStale against acquireOnce and Release).
THEOREM FreshOwnsRecord == Spec => []FreshIsCurrent
  BY Invariance, CurrentFromInv, PTL

\* Two clients are never able to write at the same time, whatever the clocks
\* do within the allowance and whatever requests get lost, late or repeated.
THEOREM SingleWriter == Spec => []MutualExclusion
<1>1. FreshIsCurrent => MutualExclusion
  BY DEF FreshIsCurrent, MutualExclusion
<1> QED
  BY <1>1, FreshOwnsRecord, PTL

\* Renewal cannot extend a hold beyond two durations after the granted expiry.
THEOREM HoldIsBounded == Spec => []HoldBounded
<1>1. IInv => HoldBounded
  BY Zenon DEF IInv
<1> QED
  BY <1>1, Invariance, PTL

-----------------------------------------------------------------------------
\* The record changes only when a request in flight takes effect.
LEMMA StoreChange ==
    ASSUME IInv, [Next]_vars, store' # store
    PROVE  \E q \in InFlight : /\ q.expect = store.token /\ store' = Write(q)
                               /\ UNCHANGED <<clock, pc, lease, lost>>
<1>1. CASE \E c \in Clients : Land(c)
  <2>1. PICK c \in Clients : Land(c)
    BY <1>1
  <2>2. req[c] \in InFlight
    BY <2>1 DEF Land, InFlight
  <2> QED
    BY <2>1, <2>2 DEF Land, Matches, Apply
<1>2. CASE \E r \in stray : LandStray(r)
  BY Zenon, <1>2 DEF LandStray, Matches, Apply, InFlight
<1> QED
  BY <1>1, <1>2 DEF Next, vars, Tick, Get, AcquireBusy, AcquireSend, AcquireOk, AcquireConflict,
     Redeliver, RequestFails, RenewSend, RenewExhausted, RenewOk, RenewConflict, ReleaseSend,
     ReleaseDone, Abandon, Crash

\* What a change of the record does: an acquisition opens the next epoch, and
\* everything else comes from the owner of the current one.
LEMMA ChangeKinds ==
    ASSUME IInv, [Next]_vars, store' # store
    PROVE  /\ UNCHANGED <<clock, pc, lease, lost>>
           /\ store'.token # NoToken /\ store'.token[1] \in Clients
           /\ \/ store'.epoch = store.epoch + 1 /\ store'.state = "held"
              \/ /\ store'.epoch = store.epoch /\ store.state = "held"
                 /\ store'.token[1] = store.token[1] /\ store.token # NoToken
                 /\ store'.state \in {"held", "released"}
<1>1. PICK q \in InFlight : /\ q.expect = store.token /\ store' = Write(q)
                            /\ UNCHANGED <<clock, pc, lease, lost>>
  BY StoreChange
<1>2. /\ store'.token = q.token /\ store'.state = q.state /\ store'.epoch = q.epoch
  BY <1>1 DEF Write
<1>3. q \in Request /\ q.token # NoToken /\ q.token[1] = q.client
  BY FlightFacts
<1>4. q.client \in Clients /\ q.kind \in Kind
  BY <1>3 DEF Request
<1>5. MatchOK(q)
  BY Zenon, <1>1 DEF IInv, MatchInv
<1>6. CASE q.kind = "acquire"
  BY Zenon, <1>1, <1>2, <1>3, <1>4, <1>5, <1>6 DEF MatchOK
<1>7. CASE q.kind # "acquire"
  <2>1. q.expect # NoToken /\ q.expect[1] = q.client
    BY <1>7 DEF IInv, OwnInv
  <2> QED
    BY Zenon, <1>1, <1>2, <1>3, <1>4, <1>5, <1>7, <2>1 DEF MatchOK, Kind
<1> QED
  BY <1>6, <1>7

\* A renewal or release of an earlier owner never touches the record of a
\* successor (ReplaceIfToken with the token of the Held).
THEOREM RecordIsFenced == Spec => FencedWrites
<1>1. IInv /\ [Next]_vars => [FencedStep]_vars
  BY Zenon, ChangeKinds DEF FencedStep
<1> QED
  BY <1>1, Invariance, PTL DEF Spec, FencedWrites

-----------------------------------------------------------------------------
\* At most one client changes its freshness in a step.
LEMMA FreshChange ==
    ASSUME IInv, [Next]_vars, store' = store
    PROVE  \/ \A d \in Clients : Fresh(d)' = Fresh(d)
           \/ \E c \in Clients : \A d \in Clients \ {c} : Fresh(d)' = Fresh(d)
<1>1. CASE UNCHANGED vars
  BY <1>1 DEF vars, Fresh
<1>2. CASE \E r \in stray : LandStray(r)
  BY <1>2 DEF LandStray, Fresh
<1>3. ASSUME NEW c \in Clients, Next, 
             \/ Tick(c) \/ Get(c) \/ AcquireBusy(c) \/ AcquireSend(c) \/ AcquireOk(c)
             \/ AcquireConflict(c) \/ Land(c) \/ Redeliver(c) \/ RequestFails(c) \/ RenewSend(c)
             \/ RenewExhausted(c) \/ RenewOk(c) \/ RenewConflict(c) \/ ReleaseSend(c)
             \/ ReleaseDone(c) \/ Abandon(c) \/ Crash(c)
      PROVE  \A d \in Clients \ {c} : Fresh(d)' = Fresh(d)
  <2> SUFFICES ASSUME NEW d \in Clients \ {c}
               PROVE  /\ pc'[d] = pc[d] /\ lost'[d] = lost[d]
                      /\ clock'[d] = clock[d] /\ lease'[d] = lease[d]
    BY DEF Fresh
  <2> QED
    BY <1>3 DEF IInv, TypeOK, Tick, Get, AcquireBusy, AcquireSend, AcquireOk, AcquireConflict,
       Land, Redeliver, RequestFails, RenewSend, RenewExhausted, RenewOk, RenewConflict,
       ReleaseSend, ReleaseDone, Abandon, Crash, Forget
<1> QED
  BY Zenon, <1>1, <1>2, <1>3 DEF Next

\* The lease protocol implements LeaseSpec: a sequence of epochs with one
\* owner each, and nobody else who may write.
THEOREM Refinement == Spec => ImplementsLeaseSpec
<1>1. Init => Fence!LeaseInit
  BY DEF Init, Fence!LeaseInit, Absent, Fresh
<1>2. ASSUME IInv, FreshIsCurrent, FreshIsCurrent', [Next]_vars
      PROVE  [Fence!LeaseNext]_(Fence!leaseVars)
  <2> DEFINE safe == [c \in Clients |-> IF Fresh(c) THEN lease[c].epoch ELSE 0]
             owner == IF store.token = NoToken THEN NoToken ELSE store.token[1]
             taken == store.state = "held"
  <2>1. FreshIsCurrent /\ FreshIsCurrent'
    BY <1>2
  <2>2. CASE store' # store
    <3>1. /\ UNCHANGED <<clock, pc, lease, lost>>
          /\ store'.token # NoToken /\ store'.token[1] \in Clients
          /\ \/ store'.epoch = store.epoch + 1 /\ store'.state = "held"
             \/ /\ store'.epoch = store.epoch /\ store.state = "held"
                /\ store'.token[1] = store.token[1] /\ store.token # NoToken
                /\ store'.state \in {"held", "released"}
      BY <1>2, <2>2, ChangeKinds
    <3>2. \A d \in Clients : Fresh(d)' = Fresh(d)
      BY <3>1 DEF Fresh
    <3>3. safe' = safe
      BY <3>1, <3>2
    <3>4. CASE store'.epoch = store.epoch + 1 /\ store'.state = "held"
      <4>1. \A d \in Clients : ~Fresh(d)
        BY <1>2, <2>1, <3>1, <3>2, <3>4 DEF FreshIsCurrent, IInv, TypeOK, Record
      <4>2. Fence!Grant(store'.token[1])
        BY Zenon, <3>1, <3>3, <3>4, <4>1 DEF Fence!Grant, Fence!NobodySafe
      <4> QED
        BY Zenon, <3>1, <4>2 DEF Fence!LeaseNext
    <3>5. CASE /\ store'.epoch = store.epoch /\ store.state = "held"
               /\ store'.token[1] = store.token[1] /\ store.token # NoToken
               /\ store'.state = "held"
      BY <3>1, <3>3, <3>5 DEF Fence!leaseVars
    <3>6. CASE /\ store'.epoch = store.epoch /\ store.state = "held"
               /\ store'.token[1] = store.token[1] /\ store.token # NoToken
               /\ store'.state = "released"
      <4>1. \A d \in Clients : ~Fresh(d)
        BY Zenon, <2>1, <3>2, <3>6 DEF FreshIsCurrent
      <4>2. Fence!Free
        BY Zenon, <3>1, <3>3, <3>6, <4>1 DEF Fence!Free, Fence!NobodySafe
      <4> QED
        BY Zenon, <4>2 DEF Fence!LeaseNext
    <3> QED
      BY <3>1, <3>4, <3>5, <3>6
  <2>3. CASE store' = store
    <3>1. owner' = owner /\ taken' = taken
      BY <2>3
    <3>2. ASSUME NEW d \in Clients, Fresh(d)' = Fresh(d) PROVE safe'[d] = safe[d]
      BY Zenon, <2>1, <2>3, <3>2 DEF FreshIsCurrent
    <3>3. CASE \A d \in Clients : Fresh(d)' = Fresh(d)
      <4>1. safe' = safe
        BY <3>2, <3>3
      <4> QED
        BY <2>3, <3>1, <4>1 DEF Fence!leaseVars
    <3>4. ASSUME NEW c \in Clients, \A d \in Clients \ {c} : Fresh(d)' = Fresh(d),
                 Fresh(c)' # Fresh(c)
          PROVE  Fence!LeaseNext \/ safe' = safe
      <4>1. \A d \in Clients \ {c} : safe'[d] = safe[d]
        BY <3>2, <3>4
      <4>2. CASE Fresh(c)'
        <5>1. ~Fresh(c)
          BY <3>4, <4>2 DEF Fresh
        <5>2. owner = c /\ taken /\ lease'[c].epoch = store.epoch
          BY <2>1, <2>3, <4>2 DEF FreshIsCurrent
        <5>3. safe' = [safe EXCEPT ![c] = store.epoch]
          <6>1. safe'[c] = store.epoch
            BY Zenon, <4>2, <5>2
          <6> QED
            BY Zenon, <4>1, <6>1
        <5>4. Fence!Enter(c)
          BY Zenon, <2>3, <3>1, <5>1, <5>2, <5>3 DEF Fence!Enter
        <5> QED
          BY <5>4 DEF Fence!LeaseNext
      <4>3. CASE ~Fresh(c)'
        <5>1. safe' = [safe EXCEPT ![c] = 0]
          BY Zenon, <4>1, <4>3
        <5>2. CASE safe[c] = 0
          BY Zenon, <5>1, <5>2
        <5>3. CASE safe[c] # 0
          BY Zenon, <2>3, <3>1, <5>1, <5>3 DEF Fence!Leave, Fence!LeaseNext
        <5> QED
          BY <5>2, <5>3
      <4> QED
        BY Zenon, <4>2, <4>3
    <3> QED
      BY <1>2, <2>3, <3>1, <3>3, <3>4, FreshChange DEF Fence!leaseVars
  <2> QED
    BY <2>2, <2>3
<1> QED
  BY <1>1, <1>2, Invariance, FreshOwnsRecord, PTL DEF Spec, ImplementsLeaseSpec, Fence!FenceSpec

-----------------------------------------------------------------------------
\* c has been granted epoch e and still holds it, or is about to learn of it.
HasEpoch(c, e) ==
    \/ Holding(c) /\ lease[c].epoch = e
    \/ pc[c] = "acquiring" /\ req[c].status = "ok" /\ req[c].epoch = e

EpochInv ==
    \A c \in Clients, e \in Nat : HasEpoch(c, e) =>
        e <= store.epoch /\ \A d \in Clients : HasEpoch(d, e) => d = c

\* A client comes to an epoch only by the acquisition that opens it.
LEMMA EpochOrigin ==
    ASSUME IInv, [Next]_vars, NEW d \in Clients, NEW e \in Nat, HasEpoch(d, e)'
    PROVE  HasEpoch(d, e) \/ (Land(d) /\ store'.epoch = store.epoch + 1 /\ e = store'.epoch)
<1>1. CASE UNCHANGED vars
  BY Zenon, <1>1 DEF vars, HasEpoch, Holding
<1>2. CASE \E r \in stray : LandStray(r)
  BY Zenon, <1>2 DEF LandStray, HasEpoch, Holding
<1>3. CASE Land(d)
  <2>1. CASE Holding(d)'
    BY Zenon, <1>3, <2>1 DEF Land, HasEpoch, Holding
  <2>2. CASE ~Holding(d)'
    <3>1. pc[d] = "acquiring" /\ req'[d].status = "ok" /\ req'[d].epoch = e
      BY <1>3, <2>2 DEF Land, HasEpoch
    <3>2. req'[d].epoch = req[d].epoch /\ Matches(req[d]) /\ Apply(req[d])
      BY <1>3, <3>1 DEF Land, IInv, TypeOK, Request
    <3>3. req[d] \in InFlight /\ req[d].kind = "acquire"
      BY Zenon, <1>3, <3>1 DEF Land, InFlight, IInv, ReqInv, ReqOK
    <3>4. req[d].epoch = store.epoch + 1
      BY Zenon, <3>2, <3>3 DEF IInv, MatchInv, MatchOK, Matches
    <3>5. store'.epoch = req[d].epoch
      BY Zenon, <3>2 DEF Apply, Write
    <3> QED
      BY <1>3, <3>1, <3>2, <3>4, <3>5
  <2> QED
    BY <2>1, <2>2
<1>4. ASSUME NEW c \in Clients, c # d,
             \/ Tick(c) \/ Get(c) \/ AcquireBusy(c) \/ AcquireSend(c) \/ AcquireOk(c)
             \/ AcquireConflict(c) \/ Land(c) \/ Redeliver(c) \/ RequestFails(c) \/ RenewSend(c)
             \/ RenewExhausted(c) \/ RenewOk(c) \/ RenewConflict(c) \/ ReleaseSend(c)
             \/ ReleaseDone(c) \/ Abandon(c) \/ Crash(c)
      PROVE  HasEpoch(d, e)
  <2>1. pc'[d] = pc[d] /\ lease'[d] = lease[d] /\ req'[d] = req[d]
    BY Zenon, <1>4 DEF IInv, TypeOK, Tick, Get, AcquireBusy, AcquireSend, AcquireOk, AcquireConflict,
       Land, Redeliver, RequestFails, RenewSend, RenewExhausted, RenewOk, RenewConflict,
       ReleaseSend, ReleaseDone, Abandon, Crash, Forget, GiveUp, Send
  <2> QED
    BY Zenon, <2>1 DEF HasEpoch, Holding
<1>5. CASE Tick(d) \/ Get(d) \/ AcquireBusy(d) \/ AcquireConflict(d)
  BY <1>5 DEF IInv, TypeOK, Tick, Get, AcquireBusy, AcquireConflict, HasEpoch, Holding
<1>6. CASE AcquireSend(d) \/ AcquireOk(d)
  <2>1. CASE AcquireSend(d)
    BY Zenon, <2>1 DEF IInv, TypeOK, AcquireSend, Send, HasEpoch, Holding
  <2>2. CASE AcquireOk(d)
    BY Zenon, <2>2 DEF IInv, TypeOK, AcquireOk, HasEpoch, Holding
  <2> QED
    BY Zenon, <1>6, <2>1, <2>2
<1>7. CASE Redeliver(d)
  <2>1. pc' = pc /\ lease' = lease /\ req'[d].status = "conflict"
    BY <1>7 DEF IInv, TypeOK, Request, Redeliver
  <2> QED
    BY <2>1 DEF HasEpoch, Holding
<1>8. CASE \/ RenewSend(d) \/ RenewExhausted(d) \/ RenewOk(d) \/ RenewConflict(d)
           \/ ReleaseSend(d)
  <2>1. pc[d] = "held" /\ pc'[d] \in {"held", "releasing"}
    BY Zenon, <1>8 DEF IInv, TypeOK, RenewSend, RenewExhausted, RenewOk, RenewConflict, ReleaseSend
  <2>2. lease'[d].epoch = lease[d].epoch
    <3>1. CASE RenewOk(d)
      BY Zenon, <3>1 DEF IInv, TypeOK, RenewOk
    <3>2. CASE ~RenewOk(d)
      BY Zenon, <1>8, <3>2 DEF RenewSend, RenewExhausted, RenewConflict, ReleaseSend
    <3> QED
      BY <3>1, <3>2
  <2> QED
    BY Zenon, <2>1, <2>2 DEF HasEpoch, Holding
<1>9. CASE RequestFails(d) \/ ReleaseDone(d) \/ Abandon(d) \/ Crash(d)
  BY <1>9 DEF IInv, TypeOK, RequestFails, ReleaseDone, Abandon, Crash, Forget, HasEpoch, Holding
<1> QED
  BY Zenon, <1>1, <1>2, <1>3, <1>4, <1>5, <1>6, <1>7, <1>8, <1>9 DEF Next

\* No epoch is held twice, not even by an owner that has been overtaken.
THEOREM EpochsNeverShared == Spec => []EpochsDistinct
<1>1. Init => EpochInv
  BY DEF Init, EpochInv, HasEpoch, Holding
<1>2. ASSUME IInv, EpochInv, [Next]_vars PROVE EpochInv'
  <2>1. store.epoch \in Nat /\ store'.epoch \in Nat /\ store.epoch <= store'.epoch
    <3>1. TypeOK /\ TypeOK'
      BY <1>2, TypeStep DEF IInv
    <3> QED
      BY <1>2, <3>1, ChangeKinds DEF TypeOK, Record
  <2> SUFFICES ASSUME NEW c \in Clients, NEW e \in Nat, HasEpoch(c, e)'
               PROVE  e <= store'.epoch /\ \A d \in Clients : HasEpoch(d, e)' => d = c
    BY DEF EpochInv
  <2>2. e <= store'.epoch
    BY <1>2, <2>1, EpochOrigin DEF EpochInv
  <2>3. ASSUME NEW d \in Clients, HasEpoch(d, e)', d # c PROVE FALSE
    <3>1. ~(Land(c) /\ Land(d) /\ store'.epoch = store.epoch + 1)
      BY <1>2, <2>3 DEF Land, IInv, TypeOK, Request
    <3> QED
      BY <1>2, <2>1, <2>3, <3>1, EpochOrigin DEF EpochInv
  <2> QED
    BY Zenon, <2>2, <2>3
<1>3. IInv /\ EpochInv => EpochsDistinct
  BY DEF IInv, TypeOK, HeldRecord, EpochInv, HasEpoch, Holding, EpochsDistinct
<1> QED
  BY <1>1, <1>2, <1>3, Invariance, PTL DEF Spec

=============================================================================
