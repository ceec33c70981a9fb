---------------------------- MODULE WriterProofs ---------------------------
(***************************************************************************)
(* The invariant behind the write protocol.  Without compaction every file *)
(* is of level 0, the files make up a chain without a hole, and every list *)
(* of files, in a manifest, on its way or in the hands of a writer, is a   *)
(* prefix of it.  Only the writer in whose term it is holds the whole of   *)
(* it, and nothing of an earlier term is still on its way then.            *)
(***************************************************************************)
EXTENDS Writer, SequenceTheorems, TLAPS

Prefix(n) == {L0(t) : t \in 1..n}

\* The last TXID of the replica, and the key that a TXID was written for.
Last == Reach(DOMAIN objects)
KeyAt(t) == objects[L0(t)][t].key

Committed(k, t) == t \in 1..Last /\ KeyAt(t) = k
Unused(k) == \A t \in 1..Last : KeyAt(t) # k

\* The lease fences: who may write is in its term, and who writes is.
Fenced ==
    /\ \A c \in Clients : safe[c] # 0 => InTerm(c)
    /\ \A w \in Writers : pc[w] = "flush" => InTerm(w)

\* The objects are a chain of transactions with different keys.
Chained ==
    /\ Last \in 0..MaxTx
    /\ DOMAIN objects = Prefix(Last)
    /\ \A t \in 1..Last : objects[L0(t)][t].txid = t
    /\ \A t, u \in 1..Last : KeyAt(t) = KeyAt(u) => t = u

IsPrefix(files) == \E m \in 0..Last : files = Prefix(m)

Prefixes ==
    /\ IsPrefix(manifest.files)
    /\ \A files \in strayManifest : IsPrefix(files)
    /\ \A w \in Writers : IsPrefix(att[w].files)

\* Where an attempt of the writer is under way.
ActivePC == HeldPC \cup {"granted", "releasing"}

\* A flush that may still take effect is the only one, extends the chain, and
\* the lease it was sent under has not been taken over.
Stray ==
    \A tx \in strayFile :
        /\ taken /\ \A w \in Writers : InTerm(w) => pc[w] \notin ActivePC
        /\ tx.txid = Last + 1 /\ Unused(tx.key)
        /\ strayFile = {tx}

\* What a writer in its term knows of the chain.
Current(w) ==
    /\ pc[w] = "open" /\ att[w].has => att[w].files = Prefix(Last)
    /\ pc[w] = "list" /\ att[w].level # 0 => att[w].files = Prefix(Last)
    /\ pc[w] \in {"put", "index"} => att[w].files = Prefix(Last)
    /\ pc[w] \in {"run", "flush"} =>
         /\ att[w].txid = Last + 1 /\ Unused(att[w].key)
         /\ att[w].has => att[w].files = Prefix(Last)
    /\ pc[w] = "flushed" =>
         /\ att[w].txid = Last
         /\ att[w].has => att[w].files = Prefix(Last - 1)

\* Where the mutation of an attempt is in the chain already.
Written(w) ==
    \/ pc[w] \in {"dedupe", "flushed", "index"}
    \/ pc[w] \in {"list", "put"} /\ att[w].mode # "repair"
    \/ pc[w] = "releasing" /\ att[w].fate = "ack"

Attempts ==
    \A w \in Writers :
        /\ pc[w] \in {"acquire", "granted", "read"} => ~att[w].has
        /\ InTerm(w) => Current(w)
        /\ Written(w) => Committed(att[w].key, att[w].txid)

Acknowledged == \A a \in acked : Committed(a.key, a.txid)

WriterInv ==
    /\ WriterTypeOK
    /\ Fenced
    /\ Chained
    /\ Prefixes
    /\ Stray
    /\ Attempts
    /\ Acknowledged

-----------------------------------------------------------------------------
\* What the operators of Replica give for a prefix of the chain.
LEMMA PrefixFiles ==
    ASSUME NEW n \in 0..MaxTx
    PROVE  Prefix(n) \subseteq File
BY LevelAssumption DEF Prefix, L0, File, Level, TXID

LEMMA PrefixMember ==
    ASSUME NEW n \in Nat, NEW t \in Int
    PROVE  L0(t) \in Prefix(n) <=> t \in 1..n
BY Zenon DEF Prefix, L0

LEMMA PrefixCovering ==
    ASSUME NEW n \in Nat, NEW t \in Int
    PROVE  /\ t \in 1..n => Covering(Prefix(n), t) = {L0(t)}
           /\ ManifestCovers(Prefix(n), t) <=> t \in 1..n
<1>1. t \in 1..n => Covering(Prefix(n), t) = {L0(t)}
  BY DEF Covering, Prefix, L0
<1>2. t \notin 1..n => Covering(Prefix(n), t) = {}
  BY DEF Covering, Prefix, L0
<1> QED
  BY <1>1, <1>2 DEF ManifestCovers

LEMMA PrefixReach ==
    ASSUME NEW n \in 0..MaxTx
    PROVE  Reach(Prefix(n)) = n
<1> DEFINE P(m) == /\ \A t \in 1..m : ManifestCovers(Prefix(n), t)
                   /\ ~ManifestCovers(Prefix(n), m + 1)
<1>0. n \in Nat /\ MaxTx \in Nat
  BY LevelAssumption
<1>1. P(n)
  BY <1>0, PrefixCovering
<1>2. \A m \in 0..MaxTx : P(m) => m = n
  <2> SUFFICES ASSUME NEW m \in 0..MaxTx, P(m) PROVE m = n
    OBVIOUS
  <2>1. m <= n
    <3>1. CASE m = 0
      BY <3>1, <1>0
    <3>2. CASE m # 0
      <4>1. m \in 1..m
        BY <3>2, <1>0
      <4>2. ManifestCovers(Prefix(n), m)
        BY <4>1
      <4> QED
        BY <4>1, <4>2, <1>0, PrefixCovering
    <3> QED
      BY <3>1, <3>2
  <2>2. m + 1 \notin 1..n
    BY <1>0, PrefixCovering
  <2> QED
    BY <2>1, <2>2, <1>0
<1>3. Reach(Prefix(n)) = CHOOSE m \in 0..MaxTx : P(m)
  BY DEF Reach
<1> HIDE DEF P
<1> QED
  BY <1>1, <1>2, <1>3

LEMMA PrefixSource ==
    ASSUME NEW n \in Nat, NEW t \in 1..n
    PROVE  Source(Prefix(n), t) = L0(t)
<1>1. Covering(Prefix(n), t) = {L0(t)}
  BY PrefixCovering
<1>2. L0(t).max = t /\ L0(t).level = 0
  BY DEF L0
<1> QED
  BY <1>1, <1>2 DEF Source

LEMMA PrefixMaxTXID ==
    ASSUME NEW n \in Nat
    PROVE  ManifestMaxTXID(Prefix(n)) = n
<1> DEFINE S == {0} \cup {f.max : f \in Prefix(n)}
<1>1. S = 0..n
  <2>1. \A t \in 1..n : L0(t) \in Prefix(n) /\ L0(t).max = t
    BY DEF Prefix, L0
  <2>2. \A f \in Prefix(n) : f.max \in 1..n
    BY DEF Prefix, L0
  <2>3. \A x \in S : x \in 0..n
    BY <2>2
  <2>4. \A x \in 0..n : x \in S
    <3> SUFFICES ASSUME NEW x \in 0..n, x # 0 PROVE x \in S
      OBVIOUS
    <3>1. L0(x) \in Prefix(n) /\ L0(x).max = x
      BY <2>1
    <3> QED
      BY <3>1
  <2> QED
    BY Zenon, <2>3, <2>4
<1>2. ManifestMaxTXID(Prefix(n)) = CHOOSE x \in 0..n : \A m \in 0..n : m <= x
  BY <1>1 DEF ManifestMaxTXID, Highest
<1>3. \A x \in 0..n : (\A m \in 0..n : m <= x) <=> x = n
  OBVIOUS
<1> QED
  BY <1>2, <1>3

LEMMA PrefixAtLevel ==
    ASSUME NEW n \in Nat, NEW l
    PROVE  AtLevel(Prefix(n), l) = IF l = 0 THEN Prefix(n) ELSE {}
BY DEF AtLevel, Prefix, L0

LEMMA PrefixAdd ==
    ASSUME NEW n \in Nat
    PROVE  Prefix(n) \cup {L0(n + 1)} = Prefix(n + 1)
<1>1. \A t \in 1..n + 1 : t \in 1..n \/ t = n + 1
  OBVIOUS
<1>2. n + 1 \in 1..n + 1 /\ 1..n \subseteq 1..n + 1
  OBVIOUS
<1> QED
  BY <1>1, <1>2 DEF Prefix

LEMMA PrefixZero == Prefix(0) = {}
BY DEF Prefix

LEMMA PrefixRestore ==
    ASSUME NEW n \in 0..MaxTx, NEW o
    PROVE  Restore(Prefix(n), o) = [t \in 1..n |-> o[L0(t)][t]]
<1>1. n \in Nat
  BY LevelAssumption
<1>2. Reach(Prefix(n)) = n
  BY PrefixReach
<1>3. \A t \in 1..n : Source(Prefix(n), t) = L0(t)
  BY <1>1, PrefixSource
<1> QED
  BY <1>2, <1>3 DEF Restore

-----------------------------------------------------------------------------
Stored == \A f \in DOMAIN objects : objects[f] \in [f.min..f.max -> Tx]

LEMMA LastIs ==
    ASSUME Chained
    PROVE  /\ Last \in Nat /\ Last \in 0..MaxTx /\ Last \in 0..Last /\ 0 \in 0..Last
           /\ MaxTx \in Nat /\ DOMAIN objects = Prefix(Last)
<1>1. Last \in 0..MaxTx /\ DOMAIN objects = Prefix(Last) /\ MaxTx \in Nat
  BY LevelAssumption DEF Chained
<1> QED
  BY <1>1

\* The type of the lease is kept when only safe changes.
LEMMA LeaseTypes ==
    ASSUME LeaseTypeOK, UNCHANGED <<epoch, owner, taken>>, NEW c \in Clients,
           safe' = safe \/ safe' = [safe EXCEPT ![c] = 0] \/ safe' = [safe EXCEPT ![c] = epoch]
    PROVE  LeaseTypeOK'
<1>1. safe' \in [Clients -> Nat]
  BY DEF LeaseTypeOK
<1>2. epoch' \in Nat /\ owner' \in Clients \cup {NoOwner}
  BY DEF LeaseTypeOK
<1>3. taken' \in BOOLEAN
  BY DEF LeaseTypeOK
<1> QED
  BY <1>1, <1>2, <1>3 DEF LeaseTypeOK

\* The chain, as a session sees a prefix of it.
LEMMA ChainOf ==
    ASSUME Chained, Stored, NEW n \in 0..Last
    PROVE  LET db == Restore(Prefix(n), objects)
           IN  /\ DOMAIN db = 1..n /\ Len(db) = n
               /\ \A t \in 1..n : db[t] = objects[L0(t)][t] /\ db[t] \in Tx
<1> DEFINE db == Restore(Prefix(n), objects)
<1>1. n \in 0..MaxTx /\ n \in Nat /\ Last \in Nat
  BY LevelAssumption DEF Chained
<1>2. db = [t \in 1..n |-> objects[L0(t)][t]]
  BY <1>1, PrefixRestore
<1>3. ASSUME NEW t \in 1..n PROVE objects[L0(t)][t] \in Tx
  <2>1. L0(t) \in DOMAIN objects
    BY <1>1, PrefixMember DEF Chained
  <2>2. objects[L0(t)] \in [t..t -> Tx]
    BY Zenon, <2>1 DEF Stored, L0
  <2> QED
    BY <2>2
<1>4. db \in Seq(Tx)
  BY <1>1, <1>2, <1>3
<1>5. Len(db) \in Nat /\ DOMAIN db = 1..Len(db)
  BY <1>4, LenProperties
<1>6. DOMAIN db = 1..n
  BY <1>2
<1>7. Len(db) = n
  <2>1. \A a, b \in Nat : 1..a = 1..b => a = b
    OBVIOUS
  <2> QED
    BY Zenon, <1>1, <1>5, <1>6, <2>1
<1> QED
  BY <1>2, <1>3, <1>6, <1>7

\* What a step that leaves the objects alone keeps.
LEMMA ObjectsKept ==
    ASSUME UNCHANGED objects
    PROVE  /\ Last' = Last
           /\ Chained <=> Chained'
           /\ Stored <=> Stored'
           /\ \A files : IsPrefix(files) <=> IsPrefix(files)'
           /\ \A k : Unused(k) <=> Unused(k)'
           /\ \A k, t : Committed(k, t) <=> Committed(k, t)'
BY DEF Last, Chained, Stored, IsPrefix, Unused, Committed, KeyAt

\* A flush of the next TXID with a new key extends the chain, and changes
\* nothing in it.
LEMMA PutExtends ==
    ASSUME Chained, Stored, NEW tx \in Tx, tx.txid = Last + 1, Unused(tx.key), PutFile(tx)
    PROVE  /\ Last' = Last + 1
           /\ Chained'
           /\ Stored' /\ DOMAIN objects' \subseteq File
           /\ \A files : IsPrefix(files) => IsPrefix(files)'
           /\ \A k, t : Committed(k, t) => Committed(k, t)'
           /\ Committed(tx.key, tx.txid)'
           /\ ImmutableStep
<1> DEFINE n == Last
<1>1. n \in Nat /\ n + 1 \in 0..MaxTx /\ n + 1 \in TXID
  BY LevelAssumption DEF Chained, Tx, TXID
<1>2. L0(n + 1) \notin DOMAIN objects /\ DOMAIN objects = Prefix(n)
  BY <1>1, PrefixMember DEF Chained
<1>3. DOMAIN objects' = Prefix(n + 1)
  BY <1>1, <1>2, PrefixAdd DEF PutFile
<1>4. Last' = n + 1
  BY <1>1, <1>3, PrefixReach DEF Last
<1>5. \A f \in Prefix(n) : objects'[f] = objects[f]
  BY <1>2, <1>3 DEF PutFile
<1>6. objects'[L0(n + 1)] = [t \in {n + 1} |-> tx]
  BY <1>3 DEF PutFile
<1> HIDE DEF n
<1>7. \A t \in 1..n : objects'[L0(t)][t] = objects[L0(t)][t]
  BY <1>1, <1>5, PrefixMember
<1>8. objects'[L0(n + 1)][n + 1] = tx
  BY <1>6
<1>9. \A t \in 1..n + 1 : t \in 1..n \/ t = n + 1
  BY <1>1
<1>10. Last = n
  BY DEF n
<1>11. Chained'
  <2>1. \A t \in 1..n + 1 : objects'[L0(t)][t].txid = t
    BY <1>7, <1>8, <1>9, <1>10 DEF Chained
  <2>2. \A t \in 1..n : objects'[L0(t)][t].key = objects[L0(t)][t].key /\ objects[L0(t)][t].key # tx.key
    BY <1>7, <1>10 DEF Unused, KeyAt
  <2>3. \A t, u \in 1..n + 1 : objects'[L0(t)][t].key = objects'[L0(u)][u].key => t = u
    BY <1>8, <1>9, <1>10, <2>2 DEF Chained, KeyAt
  <2> QED
    BY <1>1, <1>3, <1>4, <2>1, <2>3 DEF Chained, KeyAt
<1>12. Stored' /\ DOMAIN objects' \subseteq File
  <2>1. \A f \in Prefix(n + 1) : f \in Prefix(n) \/ f = L0(n + 1)
    BY <1>1, PrefixAdd
  <2>2. objects'[L0(n + 1)] \in [L0(n + 1).min..L0(n + 1).max -> Tx]
    <3>1. L0(n + 1).min..L0(n + 1).max = {n + 1}
      BY <1>1 DEF L0
    <3> QED
      BY <3>1, <1>6
  <2> QED
    BY <1>1, <1>2, <1>3, <1>5, <2>1, <2>2, PrefixFiles DEF Stored
<1>13. \A files : IsPrefix(files) => IsPrefix(files)'
  BY <1>1, <1>4, <1>10 DEF IsPrefix
<1>14. \A k, t : Committed(k, t) => Committed(k, t)'
  BY <1>1, <1>4, <1>7, <1>10 DEF Committed, KeyAt
<1>15. Committed(tx.key, tx.txid)'
  BY <1>1, <1>4, <1>8, <1>10 DEF Committed, KeyAt
<1>16. ImmutableStep
  BY <1>2, <1>5 DEF ImmutableStep
<1> QED
  BY <1>4, <1>10, <1>11, <1>12, <1>13, <1>14, <1>15, <1>16

-----------------------------------------------------------------------------
\* Nobody but w moves, and the objects stay.
OwnStep(w) ==
    /\ pc'[w] \in PC /\ pc' = [pc EXCEPT ![w] = pc'[w]]
    /\ att'[w] \in Attempt /\ att' = [att EXCEPT ![w] = att'[w]]
    /\ UNCHANGED <<objects, strayFile>>
    /\ calls' \in Nat /\ faults' \in Nat

\* What w writes beside the objects: its list of files to the manifest, now or
\* later, and the acknowledgement of its mutation.
Puts(w) ==
    /\ manifest' = manifest \/ manifest' = Manifest(att[w].files)
    /\ strayManifest' \subseteq strayManifest \cup {att[w].files}
    /\ \/ acked' = acked
       \/ Written(w) /\ acked' = acked \cup {[key |-> att[w].key, txid |-> att[w].txid]}

\* The attempt of w after the step fits the objects.
Fits(w) ==
    /\ pc'[w] \in {"acquire", "granted", "read"} => ~att'[w].has
    /\ IsPrefix(att'[w].files)
    /\ InTerm(w)' => Current(w)'
    /\ Written(w)' => Committed(att'[w].key, att'[w].txid)

LEMMA Frame ==
    ASSUME WriterInv, NEW w \in Writers, OwnStep(w), Puts(w), Fits(w),
           LeaseTypeOK', Fenced',
           \A v \in Writers \ {w} : InTerm(v)' => InTerm(v),
           strayFile # {} => taken' /\ (InTerm(w)' => pc'[w] \notin ActivePC)
    PROVE  WriterInv'
<1> USE DEF WriterInv
<1>1. \A v \in Writers \ {w} : pc'[v] = pc[v] /\ att'[v] = att[v]
  BY DEF OwnStep, WriterTypeOK
<1>2. /\ Last' = Last /\ Chained' /\ Stored'
      /\ \A files : IsPrefix(files) <=> IsPrefix(files)'
      /\ \A k : Unused(k) <=> Unused(k)'
      /\ \A k, t : Committed(k, t) <=> Committed(k, t)'
  BY ObjectsKept DEF OwnStep, WriterTypeOK, Stored
<1>3. IsPrefix(att[w].files) /\ att[w] \in Attempt
  BY Zenon DEF Prefixes, WriterTypeOK
<1>4. WriterTypeOK'
  <2>1. att[w].files \subseteq File /\ att[w].key \in Keys
    BY Zenon, <1>3 DEF Attempt
  <2>2. pc' \in [Writers -> PC] /\ att' \in [Writers -> Attempt]
    BY DEF OwnStep, WriterTypeOK
  <2>3. manifest' \in [exists : BOOLEAN, files : SUBSET File] /\ strayManifest' \subseteq SUBSET File
    <3>1. Manifest(att[w].files) \in [exists : BOOLEAN, files : SUBSET File]
      BY <2>1 DEF Manifest
    <3> QED
      BY <2>1, <3>1 DEF Puts, WriterTypeOK
  <2>4. acked' \subseteq [key : Keys, txid : TXID]
    <3>1. Written(w) => att[w].txid \in TXID
      BY LevelAssumption DEF Attempts, Committed, Chained, TXID
    <3> QED
      BY <2>1, <3>1 DEF Puts, WriterTypeOK
  <2>5. DOMAIN objects' \subseteq File /\ strayFile' \subseteq Tx
    BY DEF OwnStep, WriterTypeOK
  <2>6. calls' \in Nat /\ faults' \in Nat
    BY Zenon DEF OwnStep
  <2> QED
    BY Zenon, <1>2, <2>2, <2>3, <2>4, <2>5, <2>6 DEF WriterTypeOK, Stored
<1>5. Prefixes'
  <2>1. IsPrefix(manifest.files)' /\ \A files \in strayManifest' : IsPrefix(files)'
    BY <1>2, <1>3 DEF Puts, Prefixes, Manifest
  <2>2. \A v \in Writers : IsPrefix(att'[v].files)
    BY <1>1 DEF Fits, Prefixes
  <2> QED
    BY Zenon, <1>2, <2>1, <2>2 DEF Prefixes
<1>6. Stray'
  <2>1. \A v \in Writers : strayFile # {} => (InTerm(v)' => pc'[v] \notin ActivePC)
    BY <1>1 DEF Stray
  <2>2. strayFile' = strayFile
    BY DEF OwnStep
  <2> QED
    BY <1>2, <2>1, <2>2 DEF Stray
<1>7. Attempts'
  <2> SUFFICES ASSUME NEW v \in Writers, v # w
               PROVE  /\ pc'[v] \in {"acquire", "granted", "read"} => ~att'[v].has
                      /\ InTerm(v)' => Current(v)'
                      /\ Written(v)' => Committed(att[v].key, att[v].txid)'
    <3>1. Written(w)' => Committed(att[w].key, att[w].txid)'
      <4>1. Committed(att'[w].key, att'[w].txid) => Committed(att[w].key, att[w].txid)'
        BY <1>2, ObjectsKept DEF OwnStep, Committed, KeyAt
      <4> QED
        BY Zenon, <4>1 DEF Fits
    <3> QED
      BY <3>1 DEF Attempts, Fits
  <2>1. pc'[v] = pc[v] /\ att'[v] = att[v]
    BY Zenon, <1>1
  <2>2. Current(v) => Current(v)'
    BY <2>1, <1>2 DEF Current
  <2>3. Written(v)' => Written(v)
    BY Zenon, <2>1 DEF Written
  <2>4. Committed(att[v].key, att[v].txid) => Committed(att[v].key, att[v].txid)'
    BY Zenon, <1>2, <2>1 DEF OwnStep, Committed, KeyAt
  <2> QED
    BY Zenon, <2>1, <2>2, <2>3, <2>4 DEF Attempts
<1>8. Acknowledged'
  <2> DEFINE new == [key |-> att[w].key, txid |-> att[w].txid]
  <2>1. Written(w) => Committed(new.key, new.txid)
    BY DEF Attempts
  <2> HIDE DEF new
  <2>2. \A a \in acked' : Committed(a.key, a.txid)
    BY <2>1 DEF Acknowledged, Puts, new
  <2> QED
    BY <1>2, <2>2 DEF Acknowledged
<1> QED
  BY <1>2, <1>4, <1>5, <1>6, <1>7, <1>8

\* The same for a step that keeps the grant: w may only enter or leave.
LEMMA Steady ==
    ASSUME WriterInv, NEW w \in Writers, OwnStep(w), Puts(w), Fits(w),
           UNCHANGED <<epoch, owner, taken>>,
           \/ safe' = safe
           \/ safe' = [safe EXCEPT ![w] = 0]
           \/ InTerm(w) /\ safe' = [safe EXCEPT ![w] = epoch],
           pc'[w] = "flush" => InTerm(w),
           pc'[w] \in ActivePC => pc[w] \in ActivePC
    PROVE  WriterInv'
<1> USE DEF WriterInv
<1>1. w \in Clients
  BY Zenon, WritersAssumption
<1>2. LeaseTypeOK'
  BY <1>1, LeaseTypes DEF WriterTypeOK
<1>3. \A c : InTerm(c)' <=> InTerm(c)
  BY DEF InTerm
<1>4. Fenced'
  <2>1. \A c \in Clients : safe'[c] # 0 => InTerm(c)
    BY <1>1 DEF Fenced, WriterTypeOK, LeaseTypeOK
  <2>2. \A v \in Writers : pc'[v] = "flush" => InTerm(v)
    BY DEF Fenced, OwnStep, WriterTypeOK
  <2> QED
    BY Zenon, <1>3, <2>1, <2>2 DEF Fenced
<1>5. strayFile # {} => taken' /\ (InTerm(w)' => pc'[w] \notin ActivePC)
  BY <1>3 DEF Stray
<1> QED
  BY <1>2, <1>3, <1>4, <1>5, Frame

-----------------------------------------------------------------------------
\* The forms in which the actions move a writer.
LEMMA Moves ==
    ASSUME WriterTypeOK, NEW w \in Writers, NEW l \in PC, Goto(w, l)
    PROVE  pc'[w] = l /\ pc' = [pc EXCEPT ![w] = pc'[w]]
BY DEF WriterTypeOK, Goto

LEMMA Sets ==
    ASSUME WriterTypeOK, NEW w \in Writers, NEW a \in Attempt, att' = [att EXCEPT ![w] = a]
    PROVE  att'[w] = a /\ att'[w] \in Attempt /\ att' = [att EXCEPT ![w] = att'[w]]
BY DEF WriterTypeOK

LEMMA Stays ==
    ASSUME WriterTypeOK, NEW w \in Writers, UNCHANGED att
    PROVE  att'[w] = att[w] /\ att'[w] \in Attempt /\ att' = [att EXCEPT ![w] = att'[w]]
BY DEF WriterTypeOK

LEMMA NewAttempts ==
    ASSUME NEW k \in Keys
    PROVE  NewAttempt(k) \in Attempt
BY LevelAssumption DEF NewAttempt, Attempt, Mode, Fate

LEMMA Faults ==
    ASSUME WriterTypeOK, Fault \/ UNCHANGED faults
    PROVE  faults' \in Nat
BY DEF WriterTypeOK, Fault

\* A step of w to a place where nothing is claimed of it.
LEMMA Idles ==
    ASSUME WriterInv, NEW w \in Writers,
           NEW l \in {"idle", "acquire", "granted", "read", "retry"}, Goto(w, l),
           \/ att' = att
           \/ \E k \in Keys : att' = [att EXCEPT ![w] = NewAttempt(k)],
           l \in {"acquire", "granted", "read"} => ~att'[w].has
    PROVE  /\ Fits(w)
           /\ pc'[w] = l /\ pc' = [pc EXCEPT ![w] = pc'[w]]
           /\ att'[w] \in Attempt /\ att' = [att EXCEPT ![w] = att'[w]]
<1> USE DEF WriterInv
<1>1. pc'[w] = l /\ pc' = [pc EXCEPT ![w] = pc'[w]]
  BY Moves DEF PC
<1>2. /\ att'[w] \in Attempt /\ att' = [att EXCEPT ![w] = att'[w]]
      /\ IsPrefix(att'[w].files)
  <2>1. CASE att' = att
    BY <2>1, Stays DEF Prefixes
  <2>2. ASSUME NEW k \in Keys, att' = [att EXCEPT ![w] = NewAttempt(k)]
        PROVE  /\ att'[w] \in Attempt /\ att' = [att EXCEPT ![w] = att'[w]]
               /\ IsPrefix(att'[w].files)
    <3>1. NewAttempt(k).files = Prefix(0) /\ 0 \in 0..Last
      BY PrefixZero, LevelAssumption DEF NewAttempt, Chained
    <3>2. att'[w] = NewAttempt(k) /\ att'[w] \in Attempt /\ att' = [att EXCEPT ![w] = att'[w]]
      BY Zenon, <2>2, Sets, NewAttempts
    <3> QED
      BY Zenon, <3>1, <3>2 DEF IsPrefix
  <2> QED
    BY <2>1, <2>2
<1>3. Current(w)' /\ ~Written(w)'
  BY <1>1 DEF Current, Written
<1> QED
  BY <1>1, <1>2, <1>3 DEF Fits

LEMMA IdleSteps ==
    ASSUME WriterInv, NEW w \in Writers,
           \/ \E k \in Keys : Call(w, k)
           \/ Acquired(w) \/ AcquireFails(w) \/ Retry(w) \/ GiveUp(w)
           \/ RunStale(w) \/ FlushedStale(w)
    PROVE  WriterInv'
<1> USE DEF WriterInv
<1>1. att[w] \in Attempt /\ att[w].key \in Keys /\ faults \in Nat /\ calls \in Nat
  BY DEF WriterTypeOK, Attempt
<1>2. CASE \E k \in Keys : Call(w, k)
  <2>1. PICK k \in Keys : Call(w, k)
    BY <1>2
  <2>2. ~NewAttempt(k).has /\ NewAttempt(k) \in Attempt
    BY NewAttempts DEF NewAttempt
  <2>3. att'[w] = NewAttempt(k)
    BY Zenon, <2>1, <2>2, Sets DEF Call
  <2>4. Fits(w) /\ OwnStep(w) /\ pc'[w] = "acquire"
    <3>1. calls' \in Nat /\ faults' \in Nat
      BY <1>1, <2>1 DEF Call
    <3>2. /\ Fits(w)
          /\ pc'[w] = "acquire" /\ pc' = [pc EXCEPT ![w] = pc'[w]]
          /\ att'[w] \in Attempt /\ att' = [att EXCEPT ![w] = att'[w]]
      BY Zenon, <2>1, <2>2, <2>3, Idles DEF Call
    <3> QED
      BY <2>1, <3>1, <3>2 DEF Call, OwnStep, PC, storage
  <2> QED
    BY Zenon, <2>1, <2>4, Steady DEF Call, Puts, ActivePC, HeldPC, leaseVars, storage
<1>3. CASE Acquired(w)
  <2>1. pc[w] = "granted" /\ ~att[w].has
    BY Zenon, <1>3 DEF Acquired, Attempts
  <2>2. Fits(w) /\ OwnStep(w) /\ pc'[w] = "read"
    BY <1>1, <1>3, <2>1, Idles DEF Acquired, OwnStep, PC, storage
  <2> QED
    BY Zenon, <1>3, <2>1, <2>2, Steady DEF Acquired, Enter, Puts, ActivePC, HeldPC, leaseVars, storage
<1>4. CASE AcquireFails(w)
  <2>1. Fits(w) /\ OwnStep(w) /\ pc'[w] = "retry"
    BY <1>1, <1>4, Idles, Faults DEF AcquireFails, OwnStep, PC, storage
  <2> QED
    BY Zenon, <1>4, <2>1, Steady
      DEF AcquireFails, Puts, ActivePC, HeldPC, leaseVars, storage
<1>5. CASE Retry(w)
  <2>1. ~NewAttempt(att[w].key).has /\ NewAttempt(att[w].key) \in Attempt
    BY Zenon, <1>1, NewAttempts DEF NewAttempt
  <2>2. att'[w] = NewAttempt(att[w].key)
    BY Zenon, <1>5, <2>1, Sets DEF Retry
  <2>3. Fits(w) /\ OwnStep(w) /\ pc'[w] = "acquire"
    BY Zenon, <1>1, <1>5, <2>1, <2>2, Idles DEF Retry, OwnStep, PC, storage
  <2> QED
    BY Zenon, <1>5, <2>3, Steady DEF Retry, Puts, ActivePC, HeldPC, leaseVars, storage
<1>6. CASE GiveUp(w)
  <2>1. Fits(w) /\ OwnStep(w) /\ pc'[w] = "idle"
    BY Zenon, <1>1, <1>6, Idles DEF GiveUp, OwnStep, PC, storage
  <2> QED
    BY <1>6, <2>1, Steady DEF GiveUp, Puts, ActivePC, HeldPC, leaseVars, storage
<1>7. CASE RunStale(w) \/ FlushedStale(w)
  <2>1. Fits(w) /\ OwnStep(w) /\ pc'[w] = "retry"
    BY Zenon, <1>1, <1>7, Idles DEF RunStale, FlushedStale, Abandon, OwnStep, PC, storage
  <2> QED
    BY <1>7, <2>1, Steady DEF RunStale, FlushedStale, Abandon, Quit, Puts, ActivePC, HeldPC, storage
<1> QED
  BY Zenon, <1>2, <1>3, <1>4, <1>5, <1>6, <1>7

\* A release is sent; a call that will be acknowledged is in the chain.
LEMMA Releases ==
    ASSUME WriterInv, NEW w \in Writers, NEW fate \in Fate, NEW job \in SUBSET File,
           ReleaseAfter(w, fate, job),
           fate = "ack" => Committed(att[w].key, att[w].txid)
    PROVE  /\ Fits(w)
           /\ pc'[w] = "releasing" /\ pc' = [pc EXCEPT ![w] = pc'[w]]
           /\ att'[w] \in Attempt /\ att' = [att EXCEPT ![w] = att'[w]]
<1> USE DEF WriterInv
<1>1. pc'[w] = "releasing" /\ pc' = [pc EXCEPT ![w] = pc'[w]]
  BY Zenon, Moves DEF PC, ReleaseAfter
<1> DEFINE a == [att[w] EXCEPT !.fate = fate, !.job = job]
<1>2. att[w] \in Attempt /\ IsPrefix(att[w].files)
  BY DEF WriterTypeOK, Prefixes
<1>3. /\ a \in Attempt
      /\ a.key = att[w].key /\ a.txid = att[w].txid /\ a.files = att[w].files /\ a.fate = fate
  BY Zenon, <1>2 DEF Attempt
<1>4. att' = [att EXCEPT ![w] = a]
  BY Zenon DEF ReleaseAfter, WriterTypeOK
<1> HIDE DEF a
<1>5. att'[w] = a /\ att'[w] \in Attempt /\ att' = [att EXCEPT ![w] = att'[w]]
  BY Zenon, <1>3, <1>4, Sets
<1>6. Current(w)' /\ (Written(w)' => fate = "ack")
  BY <1>1, <1>3, <1>5 DEF Current, Written
<1> QED
  BY <1>1, <1>2, <1>3, <1>5, <1>6 DEF Fits

LEMMA ReleaseSteps ==
    ASSUME WriterInv, NEW w \in Writers,
           RemoteFails(w) \/ RunFails(w) \/ Index(w) \/ PutListingFails(w) \/ IndexFails(w)
    PROVE  WriterInv'
<1> USE DEF WriterInv
<1>1. /\ att[w] \in Attempt /\ faults \in Nat /\ calls \in Nat
      /\ att[w].files \in SUBSET File /\ {} \in SUBSET File
  BY DEF WriterTypeOK, Attempt
<1>2. Written(w) => Committed(att[w].key, att[w].txid)
  BY DEF Attempts
<1>3. CASE RemoteFails(w)
  <2> DEFINE fate == IF pc[w] = "list" /\ att[w].mode = "legacy" THEN "ack" ELSE "retry"
  <2>1. fate \in Fate /\ (fate = "ack" => Written(w))
    BY Zenon DEF Fate, Written
  <2>2. ReleaseAfter(w, fate, {})
    BY Zenon, <1>3 DEF RemoteFails, Release
  <2> HIDE DEF fate
  <2>3. faults' \in Nat
    BY Zenon, <1>1, <1>3, Faults DEF RemoteFails, RequestFails
  <2>4. Fits(w) /\ OwnStep(w) /\ pc'[w] = "releasing"
    BY ZenonT(30), <1>1, <1>2, <1>3, <2>1, <2>2, <2>3, Releases
      DEF RemoteFails, OwnStep, PC, storage
  <2>5. pc[w] \in ActivePC
    BY <1>3 DEF RemoteFails, ActivePC, HeldPC
  <2> QED
    BY Zenon, <1>3, <2>2, <2>4, <2>5, Steady
      DEF RemoteFails, ReleaseAfter, Quit, Puts, storage
<1>4. CASE RunFails(w)
  <2>1. PICK fate \in {"retry", "error"} : ReleaseAfter(w, fate, {})
    BY <1>4 DEF RunFails, Release
  <2>2. fate \in Fate /\ fate # "ack"
    BY Zenon, <2>1 DEF Fate
  <2>3. faults' \in Nat
    BY ZenonT(30), <1>1, <1>4, Faults DEF RunFails, RequestFails
  <2>4. Fits(w) /\ OwnStep(w) /\ pc'[w] = "releasing"
    BY Zenon, <1>1, <1>4, <2>1, <2>2, <2>3, Releases DEF RunFails, OwnStep, PC, storage
  <2>5. pc[w] \in ActivePC
    BY <1>4 DEF RunFails, ActivePC, HeldPC
  <2> QED
    BY Zenon, <1>4, <2>1, <2>4, <2>5, Steady
      DEF RunFails, ReleaseAfter, Quit, Puts, storage
<1>5. CASE Index(w)
  <2>1. "ack" \in Fate /\ Written(w)
    BY Zenon, <1>5 DEF Fate, Written, Index
  <2>2. Fits(w) /\ OwnStep(w) /\ pc'[w] = "releasing"
    BY Zenon, <1>1, <1>2, <1>5, <2>1, Releases DEF Index, OwnStep, PC
  <2>3. pc[w] \in ActivePC
    BY Zenon, <1>5 DEF Index, ActivePC, HeldPC
  <2> QED
    BY Zenon, <1>5, <2>2, <2>3, Steady DEF Index, ReleaseAfter, Quit, Puts
<1>6. CASE PutListingFails(w)
  <2> DEFINE fate == IF att[w].mode = "legacy" THEN "ack" ELSE "retry"
  <2>1. fate \in Fate /\ (fate = "ack" => Written(w))
    BY Zenon, <1>6 DEF Fate, Written, PutListingFails
  <2>2. ReleaseAfter(w, fate, {})
    BY Zenon, <1>6 DEF PutListingFails, Release
  <2> HIDE DEF fate
  <2>3. faults' \in Nat
    BY Zenon, <1>1, <1>6, Faults DEF PutListingFails, ManifestUnconfirmed
  <2>4. Fits(w) /\ OwnStep(w) /\ pc'[w] = "releasing"
    BY Zenon, <1>1, <1>2, <1>6, <2>1, <2>2, <2>3, Releases DEF PutListingFails, OwnStep, PC
  <2>5. pc[w] \in ActivePC
    BY <1>6 DEF PutListingFails, ActivePC, HeldPC
  <2>6. Puts(w)
    BY Zenon, <1>6 DEF PutListingFails, ManifestUnconfirmed, Puts
  <2> QED
    BY ZenonT(30), <1>6, <2>2, <2>4, <2>5, <2>6, Steady DEF ReleaseAfter, Quit
<1>7. CASE IndexFails(w)
  <2>1. faults' \in Nat
    BY Zenon, <1>1, <1>7, Faults DEF IndexFails, ManifestUnconfirmed
  <2>2. Fits(w) /\ OwnStep(w) /\ pc'[w] = "retry"
    BY Zenon, <1>1, <1>7, <2>1, Idles DEF IndexFails, Abandon, OwnStep, PC
  <2>3. Puts(w)
    BY <1>7 DEF IndexFails, ManifestUnconfirmed, Puts
  <2> QED
    BY Zenon, <1>7, <2>2, <2>3, Steady DEF IndexFails, Abandon, Quit, ActivePC, HeldPC
<1> QED
  BY Zenon, <1>3, <1>4, <1>5, <1>6, <1>7

LEMMA ReadManifestInv ==
    ASSUME WriterInv, NEW w \in Writers, ReadManifest(w)
    PROVE  WriterInv'
<1> USE DEF WriterInv
<1>1. /\ att[w] \in Attempt /\ faults \in Nat /\ calls \in Nat
      /\ pc[w] = "read" /\ ~att[w].has /\ pc[w] \in ActivePC
  BY DEF WriterTypeOK, ReadManifest, Attempts, ActivePC, HeldPC
<1>2. CASE ~manifest.exists
  <2>1. Goto(w, "open") /\ UNCHANGED att
    BY <1>2 DEF ReadManifest
  <2>2. pc'[w] = "open" /\ pc' = [pc EXCEPT ![w] = pc'[w]]
    BY <2>1, Moves DEF PC
  <2>3. att'[w] = att[w] /\ att'[w] \in Attempt /\ att' = [att EXCEPT ![w] = att'[w]]
    BY Zenon, <2>1, Stays
  <2>4. Fits(w)
    BY <1>1, <2>2, <2>3 DEF Fits, Current, Written, Prefixes
  <2>5. OwnStep(w)
    BY <1>1, <2>2, <2>3 DEF ReadManifest, OwnStep, PC, storage
  <2> QED
    BY <1>1, <2>2, <2>4, <2>5, Steady DEF ReadManifest, Puts, leaseVars, storage
<1>3. CASE manifest.exists
  <2> DEFINE a == [att[w] EXCEPT !.has = TRUE, !.files = manifest.files]
  <2>1. Goto(w, "probe") /\ att' = [att EXCEPT ![w] = a]
    BY Zenon, <1>1, <1>3 DEF ReadManifest, WriterTypeOK
  <2>2. a \in Attempt /\ a.files = manifest.files
    BY Zenon, <1>1 DEF Attempt, WriterTypeOK
  <2> HIDE DEF a
  <2>3. pc'[w] = "probe" /\ pc' = [pc EXCEPT ![w] = pc'[w]]
    BY <2>1, Moves DEF PC
  <2>4. att'[w] = a /\ att'[w] \in Attempt /\ att' = [att EXCEPT ![w] = att'[w]]
    BY Zenon, <2>1, <2>2, Sets
  <2>5. Fits(w)
    BY <2>2, <2>3, <2>4 DEF Fits, Current, Written, Prefixes
  <2>6. OwnStep(w)
    BY Zenon, <1>1, <2>3, <2>4 DEF ReadManifest, OwnStep, PC, storage
  <2> QED
    BY <1>1, <2>3, <2>5, <2>6, Steady DEF ReadManifest, Puts, leaseVars, storage
<1> QED
  BY <1>2, <1>3

\* A listing begins: nothing is listed yet.
LEMMA Lists ==
    ASSUME WriterInv, NEW w \in Writers, NEW mode \in Mode, StartListing(w, mode),
           mode # "repair" => Committed(att[w].key, att[w].txid)
    PROVE  /\ Fits(w)
           /\ pc'[w] = "list" /\ pc' = [pc EXCEPT ![w] = pc'[w]]
           /\ att'[w] \in Attempt /\ att' = [att EXCEPT ![w] = att'[w]]
<1> USE DEF WriterInv
<1> DEFINE a == [att[w] EXCEPT !.files = {}, !.level = 0, !.mode = mode]
<1>1. att[w] \in Attempt
  BY DEF WriterTypeOK
<1>2. /\ a \in Attempt /\ a.files = {} /\ a.level = 0 /\ a.mode = mode
      /\ a.key = att[w].key /\ a.txid = att[w].txid
  BY Zenon, <1>1 DEF Attempt
<1>3. att' = [att EXCEPT ![w] = a] /\ Goto(w, "list")
  BY Zenon DEF StartListing, WriterTypeOK
<1> HIDE DEF a
<1>4. pc'[w] = "list" /\ pc' = [pc EXCEPT ![w] = pc'[w]]
  BY <1>3, Moves DEF PC
<1>5. att'[w] = a /\ att'[w] \in Attempt /\ att' = [att EXCEPT ![w] = att'[w]]
  BY Zenon, <1>2, <1>3, Sets
<1>6. IsPrefix(att'[w].files)
  BY Zenon, <1>2, <1>5, PrefixZero, LastIs DEF IsPrefix
<1>7. Current(w)' /\ (Written(w)' => mode # "repair")
  BY <1>2, <1>4, <1>5 DEF Current, Written
<1> QED
  BY Zenon, <1>2, <1>4, <1>5, <1>6, <1>7 DEF Fits

LEMMA TailTXIDInv ==
    ASSUME WriterInv, NEW w \in Writers, TailTXID(w)
    PROVE  WriterInv'
<1> USE DEF WriterInv
<1>1. /\ att[w] \in Attempt /\ faults \in Nat /\ calls \in Nat
      /\ pc[w] = "probe" /\ pc[w] \in ActivePC
  BY Zenon DEF WriterTypeOK, TailTXID, ActivePC, HeldPC
<1> DEFINE tail == ManifestMaxTXID(AtLevel(DOMAIN objects, 0))
<1>2. CASE NeedsRepair(att[w].files, tail)
  <2>1. StartListing(w, "repair") /\ "repair" \in Mode
    BY Zenon, <1>2 DEF TailTXID, Mode
  <2>2. Fits(w) /\ OwnStep(w) /\ pc'[w] = "list"
    BY <1>1, <2>1, Lists DEF TailTXID, OwnStep, PC, storage
  <2> QED
    BY Zenon, <1>1, <2>2, Steady DEF TailTXID, Puts, leaseVars, storage
<1>3. CASE ~NeedsRepair(att[w].files, tail)
  <2>1. Goto(w, "open") /\ UNCHANGED att
    BY Zenon, <1>3 DEF TailTXID
  <2>2. pc'[w] = "open" /\ pc' = [pc EXCEPT ![w] = pc'[w]]
    BY <2>1, Moves DEF PC
  <2>3. att'[w] = att[w] /\ att'[w] \in Attempt /\ att' = [att EXCEPT ![w] = att'[w]]
    BY <2>1, Stays
  <2>4. att[w].files = Prefix(Last)
    <3>1. Last \in Nat /\ DOMAIN objects = Prefix(Last)
      BY LevelAssumption DEF Chained
    <3>2. tail = Last
      BY <3>1, PrefixAtLevel, PrefixMaxTXID
    <3>3. PICK m \in 0..Last : att[w].files = Prefix(m)
      BY DEF Prefixes, IsPrefix
    <3>4. ManifestMaxTXID(att[w].files) = m
      BY <3>1, <3>3, PrefixMaxTXID
    <3> QED
      BY <1>3, <3>1, <3>2, <3>3, <3>4 DEF NeedsRepair
  <2>5. Last' = Last
    BY Zenon, ObjectsKept DEF TailTXID, storage
  <2>6. Fits(w)
    BY Zenon, <2>2, <2>3, <2>4, <2>5 DEF Fits, Current, Written, Prefixes
  <2>7. OwnStep(w)
    BY <1>1, <2>2, <2>3 DEF TailTXID, OwnStep, PC, storage
  <2> QED
    BY Zenon, <1>1, <2>2, <2>6, <2>7, Steady DEF TailTXID, Puts, leaseVars, storage
<1> QED
  BY <1>2, <1>3

\* After level 0 a listing holds the chain, and the levels above are empty.
LEMMA BuildManifestInv ==
    ASSUME WriterInv, NEW w \in Writers, BuildManifest(w)
    PROVE  WriterInv'
<1> USE DEF WriterInv
<1>1. /\ att[w] \in Attempt /\ faults \in Nat /\ calls \in Nat
      /\ pc[w] = "list" /\ pc[w] \in ActivePC
  BY DEF WriterTypeOK, BuildManifest, ActivePC, HeldPC
<1> DEFINE l == att[w].level
           there == IF l = TopLevel THEN "put" ELSE "list"
           files == att[w].files \cup AtLevel(DOMAIN objects, l)
           level == IF l = TopLevel THEN 0 ELSE l + 1
           a == [att[w] EXCEPT !.files = files, !.level = level]
<1>2. l \in Nat /\ level \in Nat /\ there \in PC
  <2>1. l \in Nat
    BY <1>1 DEF Attempt
  <2>2. there \in PC
    BY DEF PC
  <2> QED
    BY <2>1, <2>2
<1>3. Last \in Nat /\ DOMAIN objects = Prefix(Last) /\ Last \in 0..MaxTx
  BY Zenon, LastIs
<1>4. PICK m \in 0..Last : att[w].files = Prefix(m)
  BY DEF Prefixes, IsPrefix
<1>5. IsPrefix(files) /\ (l = 0 => files = Prefix(Last)) /\ (l # 0 => files = att[w].files)
  <2>1. CASE l = 0
    <3>1. Prefix(m) \subseteq Prefix(Last)
      BY <1>3 DEF Prefix
    <3> QED
      BY <2>1, <3>1, <1>3, <1>4, PrefixAtLevel DEF IsPrefix
  <2>2. CASE l # 0
    BY Zenon, <2>2, <1>3, <1>4, PrefixAtLevel DEF IsPrefix
  <2> QED
    BY Zenon, <2>1, <2>2
<1>6. InTerm(w) => files = Prefix(Last)
  BY <1>1, <1>5 DEF Attempts, Current
<1>7. files \in SUBSET File
  <2>1. PICK n \in 0..Last : files = Prefix(n)
    BY <1>5 DEF IsPrefix
  <2>2. n \in 0..MaxTx
    BY <1>3, LevelAssumption
  <2> QED
    BY Zenon, <2>1, <2>2, PrefixFiles
<1>8. /\ a \in Attempt /\ a.files = files /\ a.level = level /\ a.mode = att[w].mode
      /\ a.key = att[w].key /\ a.txid = att[w].txid
  BY Zenon, <1>1, <1>2, <1>7 DEF Attempt
<1>9. att' = [att EXCEPT ![w] = a] /\ Goto(w, there)
  BY Zenon, <1>1 DEF BuildManifest, WriterTypeOK
<1> HIDE DEF a, files, level, there, l
<1>10. pc'[w] = there /\ pc' = [pc EXCEPT ![w] = pc'[w]] /\ there \in {"put", "list"}
  BY <1>2, <1>9, Moves DEF there
<1>11. att'[w] = a /\ att'[w] \in Attempt /\ att' = [att EXCEPT ![w] = att'[w]]
  BY Zenon, <1>8, <1>9, Sets
<1>12. Last' = Last /\ (InTerm(w)' <=> InTerm(w))
  BY ObjectsKept DEF BuildManifest, storage, leaseVars, InTerm
<1>13. Written(w)' => Written(w)
  BY Zenon, <1>1, <1>8, <1>10, <1>11 DEF Written
<1>14. InTerm(w)' => Current(w)'
  BY Zenon, <1>6, <1>8, <1>10, <1>11, <1>12 DEF Current
<1>15. Fits(w)
  BY Zenon, <1>5, <1>8, <1>10, <1>11, <1>13, <1>14 DEF Fits, Attempts
<1>16. OwnStep(w)
  BY <1>1, <1>2, <1>10, <1>11 DEF BuildManifest, OwnStep, storage
<1>17. pc'[w] # "flush"
  BY Zenon, <1>10
<1> QED
  BY <1>1, <1>15, <1>16, <1>17, Steady DEF BuildManifest, Puts, leaseVars, storage

LEMMA PutListingInv ==
    ASSUME WriterInv, NEW w \in Writers, PutListing(w)
    PROVE  WriterInv'
<1> USE DEF WriterInv
<1>1. /\ att[w] \in Attempt /\ faults \in Nat /\ calls \in Nat
      /\ pc[w] = "put" /\ pc[w] \in ActivePC /\ InTerm(w)
      /\ att[w].files \in SUBSET File
  BY Zenon DEF WriterTypeOK, PutListing, ActivePC, HeldPC, Attempt
<1>2. Puts(w)
  BY Zenon DEF PutListing, Puts
<1>3. CASE att[w].mode = "repair"
  <2>1. Goto(w, "open") /\ UNCHANGED <<att, leaseVars>>
    BY <1>3 DEF PutListing
  <2>2. pc'[w] = "open" /\ pc' = [pc EXCEPT ![w] = pc'[w]]
    BY <2>1, Moves DEF PC
  <2>3. att'[w] = att[w] /\ att'[w] \in Attempt /\ att' = [att EXCEPT ![w] = att'[w]]
    BY <2>1, Stays
  <2>4. Last' = Last /\ att[w].files = Prefix(Last)
    BY ZenonT(30), <1>1, ObjectsKept DEF PutListing, Attempts, Current
  <2>5. Fits(w)
    BY Zenon, <2>2, <2>3, <2>4 DEF Fits, Current, Written, Prefixes
  <2>6. OwnStep(w)
    BY <1>1, <2>2, <2>3 DEF PutListing, OwnStep, PC
  <2> QED
    BY Zenon, <1>1, <1>2, <2>1, <2>2, <2>5, <2>6, Steady DEF leaseVars
<1>4. CASE att[w].mode # "repair"
  <2> DEFINE job == IF att[w].mode = "legacy" THEN att[w].files ELSE {}
  <2>1. ReleaseAfter(w, "ack", job) /\ job \in SUBSET File /\ "ack" \in Fate
    BY <1>1, <1>4 DEF PutListing, Fate
  <2> HIDE DEF job
  <2>2. Committed(att[w].key, att[w].txid)
    BY Zenon, <1>1, <1>4 DEF Attempts, Written
  <2>3. Fits(w) /\ OwnStep(w) /\ pc'[w] = "releasing"
    BY <1>1, <2>1, <2>2, Releases DEF PutListing, OwnStep, PC
  <2> QED
    BY ZenonT(30), <1>1, <1>2, <2>1, <2>3, Steady DEF ReleaseAfter, Quit
<1> QED
  BY Zenon, <1>3, <1>4

\* A session that opens on a prefix of the chain finds a key where it stands;
\* one that opens in its term finds every key, and goes on after the last TXID.
LEMMA OpenWriteInv ==
    ASSUME WriterInv, NEW w \in Writers, OpenWrite(w)
    PROVE  WriterInv'
<1> USE DEF WriterInv
<1>1. /\ att[w] \in Attempt /\ faults \in Nat /\ calls \in Nat
      /\ pc[w] = "open" /\ pc[w] \in ActivePC
  BY DEF WriterTypeOK, OpenWrite, ActivePC, HeldPC
<1>2. /\ Last \in Nat /\ DOMAIN objects = Prefix(Last) /\ Last \in 0..MaxTx /\ MaxTx \in Nat
      /\ Last \in 0..Last
  BY LastIs
<1>3. PICK m \in 0..Last : OpenFiles(w) = Prefix(m) /\ (InTerm(w) => m = Last)
  <2>1. CASE ~att[w].has
    BY <2>1, <1>2 DEF OpenFiles
  <2>2. CASE att[w].has /\ InTerm(w)
    <3>1. att[w].files = Prefix(Last)
      BY <2>2, <1>1 DEF Attempts, Current
    <3> QED
      BY Zenon, <2>2, <3>1, <1>2 DEF OpenFiles
  <2>3. CASE att[w].has /\ ~InTerm(w)
    BY Zenon, <2>3 DEF OpenFiles, Prefixes, IsPrefix
  <2> QED
    BY Zenon, <2>1, <2>2, <2>3
<1> DEFINE db == Restore(OpenFiles(w), objects)
<1>4. /\ DOMAIN db = 1..m /\ Len(db) = m
      /\ \A t \in 1..m : db[t] = objects[L0(t)][t] /\ db[t] \in Tx
  BY <1>3, ChainOf DEF WriterTypeOK, Stored
<1> HIDE DEF db
<1>5. /\ Last' = Last /\ (InTerm(w)' <=> InTerm(w)) /\ UNCHANGED <<objects, strayFile>>
      /\ \A k : Unused(k) <=> Unused(k)'
  BY Zenon, ObjectsKept DEF OpenWrite, storage, leaseVars, InTerm
<1>6. ASSUME NEW t \in 0..MaxTx, NEW l \in {"dedupe", "run"},
             att' = [att EXCEPT ![w].txid = t], Goto(w, l),
             l = "dedupe" => Committed(att[w].key, t),
             l = "run" /\ InTerm(w) => t = Last + 1 /\ Unused(att[w].key)
      PROVE  WriterInv'
  <2> DEFINE a == [att[w] EXCEPT !.txid = t]
  <2>1. /\ a \in Attempt /\ a.files = att[w].files /\ a.has = att[w].has
        /\ a.key = att[w].key /\ a.txid = t
    BY <1>1 DEF Attempt
  <2>2. att' = [att EXCEPT ![w] = a]
    BY <1>6 DEF WriterTypeOK
  <2> HIDE DEF a
  <2>3. pc'[w] = l /\ pc' = [pc EXCEPT ![w] = pc'[w]] /\ l \in PC
    BY <1>6, Moves DEF PC
  <2>4. att'[w] = a /\ att'[w] \in Attempt /\ att' = [att EXCEPT ![w] = att'[w]]
    BY Zenon, <2>1, <2>2, Sets
  <2>5. InTerm(w)' => Current(w)'
    <3>1. InTerm(w) /\ att[w].has => att[w].files = Prefix(Last)
      BY <1>1 DEF Attempts, Current
    <3> QED
      BY Zenon, <1>5, <1>6, <2>1, <2>3, <2>4, <3>1 DEF Current
  <2>6. Fits(w)
    BY <1>6, <2>1, <2>3, <2>4, <2>5 DEF Fits, Written, Prefixes
  <2>7. OwnStep(w)
    BY <1>1, <1>5, <2>3, <2>4 DEF OpenWrite, OwnStep
  <2> QED
    BY <1>1, <1>6, <2>3, <2>6, <2>7, Steady DEF OpenWrite, Puts, leaseVars, storage
<1>7. CASE Holds(db, att[w].key)
  <2> DEFINE t == CHOOSE u \in DOMAIN db : db[u].key = att[w].key
  <2>1. t \in 1..m /\ db[t].key = att[w].key
    BY <1>4, <1>7 DEF Holds
  <2>2. Recorded(db, att[w].key) = db[t].txid
    BY DEF Recorded
  <2> HIDE DEF t
  <2>3. db[t].txid = t /\ t \in 1..Last /\ KeyAt(t) = att[w].key
    <3>1. t \in 1..Last
      BY <1>2, <2>1
    <3>2. db[t] = objects[L0(t)][t] /\ objects[L0(t)][t].txid = t
      BY Zenon, <1>4, <2>1, <3>1 DEF Chained
    <3> QED
      BY <2>1, <3>1, <3>2 DEF KeyAt
  <2>4. t \in 0..MaxTx /\ Committed(att[w].key, t)
    <3>1. t \in 0..MaxTx
      BY <1>2, <2>3
    <3> QED
      BY <2>3, <3>1 DEF Committed
  <2>5. att' = [att EXCEPT ![w].txid = t] /\ Goto(w, "dedupe")
    BY <1>7, <2>2, <2>3 DEF OpenWrite, db
  <2> QED
    BY Zenon, <1>6, <2>4, <2>5
<1>8. CASE ~Holds(db, att[w].key)
  <2>1. Len(db) < MaxTx /\ att' = [att EXCEPT ![w].txid = m + 1] /\ Goto(w, "run")
    BY <1>4, <1>8 DEF OpenWrite, db, NextTXID
  <2>2. m + 1 \in 0..MaxTx
    BY <1>2, <1>4, <2>1
  <2>3. InTerm(w) => m + 1 = Last + 1 /\ Unused(att[w].key)
    BY <1>3, <1>4, <1>8 DEF Holds, Unused, KeyAt
  <2> QED
    BY Zenon, <1>6, <2>1, <2>2, <2>3
<1> QED
  BY <1>7, <1>8

LEMMA DedupeInv ==
    ASSUME WriterInv, NEW w \in Writers, Dedupe(w)
    PROVE  WriterInv'
<1> USE DEF WriterInv
<1>1. /\ att[w] \in Attempt /\ faults \in Nat /\ calls \in Nat
      /\ pc[w] = "dedupe" /\ pc[w] \in ActivePC
  BY DEF WriterTypeOK, Dedupe, ActivePC, HeldPC
<1>2. Committed(att[w].key, att[w].txid)
  BY Zenon, <1>1 DEF Attempts, Written
<1>3. CASE StartListing(w, "dedupe") /\ UNCHANGED leaseVars
  <2>1. "dedupe" \in Mode
    BY Zenon DEF Mode
  <2>2. Fits(w) /\ OwnStep(w) /\ pc'[w] = "list"
    BY <1>1, <1>2, <1>3, <2>1, Lists DEF Dedupe, OwnStep, PC, storage
  <2> QED
    BY <1>1, <1>3, <2>2, Steady DEF Dedupe, Puts, leaseVars, storage
<1>4. CASE Release(w, "ack")
  <2>1. "ack" \in Fate /\ ReleaseAfter(w, "ack", {}) /\ {} \in SUBSET File
    BY Zenon, <1>4 DEF Fate, Release
  <2>2. Fits(w) /\ OwnStep(w) /\ pc'[w] = "releasing"
    BY <1>1, <1>2, <2>1, Releases DEF Dedupe, OwnStep, PC, storage
  <2> QED
    BY Zenon, <1>1, <2>1, <2>2, Steady DEF Dedupe, ReleaseAfter, Quit, Puts, storage
<1> QED
  BY Zenon, <1>3, <1>4 DEF Dedupe

\* A lease that is not stale is in its term.
LEMMA RunInv ==
    ASSUME WriterInv, NEW w \in Writers, Run(w)
    PROVE  WriterInv'
<1> USE DEF WriterInv
<1>1. /\ att[w] \in Attempt /\ faults \in Nat /\ calls \in Nat
      /\ pc[w] = "run" /\ pc[w] \in ActivePC
  BY Zenon DEF WriterTypeOK, Run, ActivePC, HeldPC
<1>2. InTerm(w)
  BY WritersAssumption DEF Fenced, Run
<1>3. pc'[w] = "flush" /\ pc' = [pc EXCEPT ![w] = pc'[w]]
  BY Moves DEF Run, PC
<1>4. att'[w] = att[w] /\ att'[w] \in Attempt /\ att' = [att EXCEPT ![w] = att'[w]]
  BY Zenon, Stays DEF Run
<1>5. Last' = Last /\ \A k : Unused(k) <=> Unused(k)'
  BY Zenon, ObjectsKept DEF Run, storage
<1>6. Current(w)'
  BY ZenonT(30), <1>1, <1>2, <1>3, <1>4, <1>5 DEF Attempts, Current
<1>7. Fits(w)
  BY Zenon, <1>3, <1>4, <1>6 DEF Fits, Written, Prefixes
<1>8. OwnStep(w)
  BY Zenon, <1>1, <1>3, <1>4 DEF Run, OwnStep, PC, storage
<1> QED
  BY ZenonT(30), <1>1, <1>2, <1>7, <1>8, Steady DEF Run, Puts, leaseVars, storage

\* The file that was flushed completes the list of the session.
LEMMA FlushedInv ==
    ASSUME WriterInv, NEW w \in Writers, Flushed(w)
    PROVE  WriterInv'
<1> USE DEF WriterInv
<1>1. /\ att[w] \in Attempt /\ faults \in Nat /\ calls \in Nat
      /\ pc[w] = "flushed" /\ pc[w] \in ActivePC
  BY DEF WriterTypeOK, Flushed, ActivePC, HeldPC
<1>2. InTerm(w)
  BY Zenon, WritersAssumption DEF Fenced, Flushed
<1>3. Committed(att[w].key, att[w].txid) /\ att[w].txid = Last
  BY <1>1, <1>2 DEF Attempts, Written, Current
<1>4. Last \in Nat /\ Last # 0 /\ Last \in 0..MaxTx
  <2>1. Last \in 1..Last
    BY <1>3 DEF Committed
  <2> QED
    BY <2>1, LastIs
<1>5. CASE att[w].has
  <2> DEFINE files == ApplyManifestDelta(att[w].files, {L0(att[w].txid)}, {})
             a == [att[w] EXCEPT !.files = files]
  <2>1. att[w].files = Prefix(Last - 1)
    BY Zenon, <1>1, <1>2, <1>5 DEF Attempts, Current
  <2>2. files = Prefix(Last)
    <3>1. Last - 1 \in Nat /\ (Last - 1) + 1 = Last
      BY <1>4
    <3> QED
      BY <1>3, <2>1, <3>1, PrefixAdd DEF ApplyManifestDelta
  <2>3. Goto(w, "index") /\ att' = [att EXCEPT ![w] = a]
    BY <1>1, <1>5 DEF Flushed, WriterTypeOK
  <2>4. a \in Attempt /\ a.files = Prefix(Last) /\ a.key = att[w].key /\ a.txid = att[w].txid
    BY Zenon, <1>1, <1>4, <2>2, PrefixFiles DEF Attempt
  <2> HIDE DEF a, files
  <2>5. pc'[w] = "index" /\ pc' = [pc EXCEPT ![w] = pc'[w]]
    BY <2>3, Moves DEF PC
  <2>6. att'[w] = a /\ att'[w] \in Attempt /\ att' = [att EXCEPT ![w] = att'[w]]
    BY Zenon, <2>3, <2>4, Sets
  <2>7. Last' = Last
    BY ObjectsKept DEF Flushed, storage
  <2>8. Current(w)' /\ IsPrefix(att'[w].files)
    <3>1. att'[w].files = Prefix(Last) /\ pc'[w] = "index" /\ Last' = Last
      BY Zenon, <2>4, <2>5, <2>6, <2>7
    <3>2. Current(w)'
      BY <3>1 DEF Current
    <3>3. Last \in 0..Last
      BY Zenon, LastIs
    <3> QED
      BY <3>1, <3>2, <3>3 DEF IsPrefix
  <2>9. Fits(w)
    BY <1>3, <2>4, <2>5, <2>6, <2>8 DEF Fits
  <2>10. OwnStep(w)
    BY <1>1, <2>5, <2>6 DEF Flushed, OwnStep, PC, storage
  <2> QED
    BY Zenon, <1>1, <2>5, <2>9, <2>10, Steady DEF Flushed, Puts, leaseVars, storage
<1>6. CASE ~att[w].has
  <2>1. StartListing(w, "legacy") /\ "legacy" \in Mode
    BY <1>6 DEF Flushed, Mode
  <2>2. Fits(w) /\ OwnStep(w) /\ pc'[w] = "list"
    BY <1>1, <1>3, <2>1, Lists DEF Flushed, OwnStep, PC, storage
  <2> QED
    BY <1>1, <2>2, Steady DEF Flushed, Puts, leaseVars, storage
<1> QED
  BY <1>5, <1>6

-----------------------------------------------------------------------------
\* The release was answered: the call returns, or another attempt follows.
LEMMA Ends ==
    ASSUME WriterInv, NEW w \in Writers, pc[w] = "releasing", NEW fate \in Fate,
           Finish(w, fate), fate = "ack" => att[w].fate = "ack", Fault \/ UNCHANGED faults
    PROVE  Fits(w) /\ OwnStep(w) /\ Puts(w) /\ pc'[w] \in {"idle", "retry"}
<1> USE DEF WriterInv
<1> DEFINE l == IF fate = "retry" THEN "retry" ELSE "idle"
<1>1. faults' \in Nat /\ calls \in Nat
  BY Zenon, Faults DEF WriterTypeOK
<1>2. l \in {"idle", "retry"} /\ Goto(w, l) /\ UNCHANGED att
  BY DEF Finish
<1> HIDE DEF l
<1>3. /\ Fits(w) /\ pc'[w] = l
      /\ pc' = [pc EXCEPT ![w] = pc'[w]]
      /\ att'[w] \in Attempt /\ att' = [att EXCEPT ![w] = att'[w]]
  BY <1>2, Idles
<1>4. OwnStep(w)
  BY Zenon, <1>1, <1>2, <1>3 DEF Finish, OwnStep, PC, storage
<1>5. Puts(w)
  BY DEF Finish, Puts, Written, storage
<1> QED
  BY Zenon, <1>2, <1>3, <1>4, <1>5

\* A writer that frees the lease leaves nothing on its way.
LEMMA Frees ==
    ASSUME WriterInv, NEW w \in Writers, pc[w] = "releasing", InTerm(w), Free,
           Fits(w), OwnStep(w), Puts(w), pc'[w] \in {"idle", "retry"}
    PROVE  WriterInv'
<1> USE DEF WriterInv
<1>1. strayFile = {}
  BY DEF Stray, ActivePC
<1>2. LeaseTypeOK' /\ \A v : ~InTerm(v)'
  BY Zenon DEF Free, LeaseTypeOK, WriterTypeOK, InTerm
<1>3. Fenced'
  <2>1. \A v \in Writers : pc[v] # "flush"
    BY Zenon DEF Fenced, InTerm
  <2>2. \A v \in Writers : pc'[v] # "flush"
    BY <2>1 DEF OwnStep, WriterTypeOK
  <2>3. \A c \in Clients : safe'[c] = 0
    BY DEF Free, NobodySafe
  <2> QED
    BY Zenon, <2>2, <2>3 DEF Fenced
<1> QED
  BY ZenonT(30), <1>1, <1>2, <1>3, Frame

LEMMA ReleaseEnds ==
    ASSUME WriterInv, NEW w \in Writers,
           Released(w) \/ ReleaseConflict(w) \/ ReleaseFails(w)
    PROVE  WriterInv'
<1> USE DEF WriterInv
<1>1. att[w].fate \in Fate /\ Unreleased(att[w].fate) \in Fate /\ Unreleased(att[w].fate) # "ack"
  BY DEF WriterTypeOK, Attempt, Fate, Unreleased
<1>2. pc[w] = "releasing"
  BY Zenon DEF Released, ReleaseConflict, ReleaseFails
<1>3. Fits(w) /\ OwnStep(w) /\ Puts(w) /\ pc'[w] \in {"idle", "retry"}
  BY <1>1, <1>2, Ends DEF Released, ReleaseConflict, ReleaseFails
<1>4. CASE InTerm(w) /\ Free
  BY Zenon, <1>2, <1>3, <1>4, Frees
<1>5. CASE UNCHANGED leaseVars
  BY <1>3, <1>5, Steady DEF leaseVars, ActivePC, HeldPC
<1> QED
  BY Zenon, <1>4, <1>5 DEF Released, ReleaseConflict, ReleaseFails

\* The lease of w goes stale or is extended: w stays where it is.
LEMMA LeaseSteps ==
    ASSUME WriterInv, NEW w \in Writers, Expire(w) \/ RenewLate(w)
    PROVE  WriterInv'
<1> USE DEF WriterInv
<1>1. UNCHANGED <<pc, att, acked, calls, storage, epoch, owner, taken>> /\ faults' \in Nat
  BY Faults DEF Expire, RenewLate, Leave, Enter
<1>2. pc'[w] = pc[w] /\ pc'[w] \in PC /\ pc' = [pc EXCEPT ![w] = pc'[w]]
  BY Zenon, <1>1 DEF WriterTypeOK
<1>3. att'[w] = att[w] /\ att'[w] \in Attempt /\ att' = [att EXCEPT ![w] = att'[w]]
  BY <1>1, Stays
<1>4. /\ Last' = Last /\ (InTerm(w)' <=> InTerm(w))
      /\ \A k : Unused(k) <=> Unused(k)'
  BY Zenon, <1>1, ObjectsKept DEF InTerm, storage
<1>5. Fits(w)
  <2>1. Current(w)' <=> Current(w)
    BY ZenonT(30), <1>2, <1>3, <1>4 DEF Current
  <2>2. Written(w)' <=> Written(w)
    BY <1>2, <1>3 DEF Written
  <2> QED
    BY Zenon, <1>2, <1>3, <1>4, <2>1, <2>2 DEF Fits, Attempts, Prefixes
<1>6. OwnStep(w) /\ Puts(w)
  BY Zenon, <1>1, <1>2, <1>3 DEF OwnStep, Puts, storage, WriterTypeOK
<1>7. pc'[w] = "flush" => InTerm(w)
  BY Zenon, <1>2 DEF Fenced
<1>8. \/ safe' = [safe EXCEPT ![w] = 0]
      \/ InTerm(w) /\ safe' = [safe EXCEPT ![w] = epoch]
  BY Zenon DEF Expire, RenewLate, Leave, Enter, InTerm
<1> QED
  BY Zenon, <1>1, <1>2, <1>5, <1>6, <1>7, <1>8, Steady

\* The next grant: the lease is free or its term has run out, and nothing of
\* that term is on its way.
LEMMA AcquireLandsInv ==
    ASSUME WriterInv, NEW w \in Writers, AcquireLands(w)
    PROVE  WriterInv'
<1> USE DEF WriterInv
<1>1. ~att[w].has /\ calls \in Nat /\ faults' \in Nat
  BY Zenon, Faults DEF AcquireLands, Attempts, WriterTypeOK
<1>2. Fits(w) /\ OwnStep(w) /\ pc'[w] = "granted"
  BY <1>1, Idles DEF AcquireLands, OwnStep, PC, storage
<1>3. strayFile = {} /\ \A v \in Writers : pc[v] # "flush"
  BY Zenon DEF AcquireLands, TakeLease, Quiet, Stray, Fenced, InTerm
<1>4. LeaseTypeOK' /\ \A v \in Writers \ {w} : ~InTerm(v)'
  <2>1. /\ w \in Clients /\ epoch' = epoch + 1 /\ owner' = w /\ taken' = TRUE
        /\ safe' = safe
    BY WritersAssumption DEF AcquireLands, TakeLease, Grant
  <2>2. taken' \in BOOLEAN
    BY Zenon, <2>1
  <2>3. LeaseTypeOK'
    BY <2>1, <2>2 DEF WriterTypeOK, LeaseTypeOK
  <2> QED
    BY <2>1, <2>3 DEF InTerm
<1>5. Fenced'
  <2>1. \A v \in Writers : pc'[v] # "flush"
    BY <1>2, <1>3 DEF OwnStep, WriterTypeOK
  <2>2. \A c \in Clients : safe'[c] = 0
    BY DEF AcquireLands, TakeLease, Grant, NobodySafe
  <2> QED
    BY Zenon, <2>1, <2>2 DEF Fenced
<1>6. Puts(w)
  BY Zenon DEF AcquireLands, Puts, storage
<1> QED
  BY Zenon, <1>2, <1>3, <1>4, <1>5, <1>6, Frame

-----------------------------------------------------------------------------
\* The transaction of a writer that flushes is the next one, and nothing else
\* is on its way.
LEMMA FlushNext ==
    ASSUME WriterInv, NEW w \in Writers, pc[w] = "flush"
    PROVE  /\ InTerm(w) /\ strayFile = {}
           /\ \A v \in Writers \ {w} : ~InTerm(v)
           /\ Mutation(w) \in Tx /\ Mutation(w).key = att[w].key
           /\ Mutation(w).txid = att[w].txid
           /\ att[w].txid = Last + 1 /\ Unused(att[w].key)
           /\ att[w].has => att[w].files = Prefix(Last)
<1> USE DEF WriterInv
<1>1. InTerm(w)
  BY DEF Fenced
<1>2. strayFile = {} /\ \A v \in Writers \ {w} : ~InTerm(v)
  BY Zenon, <1>1 DEF Stray, ActivePC, HeldPC, InTerm
<1>3. /\ att[w].txid = Last + 1 /\ Unused(att[w].key)
      /\ att[w].has => att[w].files = Prefix(Last)
  BY Zenon, <1>1 DEF Attempts, Current
<1>4. att[w].key \in Keys /\ att[w].txid \in TXID /\ epoch \in Nat
  <2>1. att[w].key \in Keys /\ att[w].txid \in 0..MaxTx
    BY Zenon DEF WriterTypeOK, Attempt
  <2>2. att[w].txid \in TXID
    BY <1>3, <2>1, LastIs DEF TXID
  <2> QED
    BY <2>1, <2>2 DEF WriterTypeOK, LeaseTypeOK
<1> QED
  BY <1>1, <1>2, <1>3, <1>4 DEF Mutation, Tx

\* The next transaction reaches the replica, of a writer or of a stray.
LEMMA Grows ==
    ASSUME WriterInv, NEW tx \in Tx, tx.txid = Last + 1, Unused(tx.key), PutFile(tx),
           strayFile' = {}, UNCHANGED <<manifest, strayManifest, att, acked, calls>>,
           UNCHANGED <<epoch, owner, taken>>, LeaseTypeOK', Fenced',
           pc' \in [Writers -> PC], faults' \in Nat,
           \A v \in Writers :
             /\ \/ pc'[v] = pc[v] \/ pc'[v] = "retry"
                \/ pc'[v] = "flushed" /\ att[v].txid = tx.txid /\ att[v].key = tx.key
             /\ InTerm(v) => \/ pc'[v] \notin ActivePC
                             \/ /\ pc'[v] = "flushed" /\ att[v].txid = tx.txid
                                /\ att[v].has => att[v].files = Prefix(Last)
    PROVE  WriterInv'
<1> USE DEF WriterInv
<1>1. Stored
  BY ZenonT(30) DEF WriterTypeOK, Stored
<1>2. /\ Last' = Last + 1 /\ Chained' /\ Stored' /\ DOMAIN objects' \subseteq File
      /\ \A files : IsPrefix(files) => IsPrefix(files)'
      /\ \A k, t : Committed(k, t) => Committed(k, t)'
      /\ Committed(tx.key, tx.txid)'
  BY Zenon, <1>1, PutExtends
<1>3. WriterTypeOK'
  BY Zenon, <1>2 DEF WriterTypeOK, Stored
<1>4. Prefixes'
  BY Zenon, <1>2 DEF Prefixes
<1>5. Stray'
  BY ZenonT(30) DEF Stray
<1>6. Attempts'
  <2> SUFFICES ASSUME NEW v \in Writers
               PROVE  /\ pc'[v] \in {"acquire", "granted", "read"} => ~att'[v].has
                      /\ InTerm(v)' => Current(v)'
                      /\ Written(v)' => Committed(att[v].key, att[v].txid)'
    BY ZenonT(30) DEF Attempts
  <2>1. pc'[v] \in {"acquire", "granted", "read"} => ~att'[v].has
    BY Zenon DEF Attempts
  <2>2. ASSUME InTerm(v)' PROVE Current(v)'
    <3>1. InTerm(v)
      BY <2>2 DEF InTerm
    <3>2. CASE pc'[v] \notin ActivePC
      BY Zenon, <3>2 DEF Current, ActivePC, HeldPC
    <3>3. CASE /\ pc'[v] = "flushed" /\ att[v].txid = tx.txid
               /\ att[v].has => att[v].files = Prefix(Last)
      <4>1. Last \in Nat
        BY Zenon, LastIs
      <4>2. (Last + 1) - 1 = Last
        BY ONLY <4>1
      <4> QED
        BY Zenon, <3>3, <4>1, <4>2, <1>2 DEF Current
    <3> QED
      BY Zenon, <3>1, <3>2, <3>3
  <2>3. ASSUME Written(v)' PROVE Committed(att[v].key, att[v].txid)'
    <3>1. CASE pc'[v] = pc[v]
      <4>1. Committed(att[v].key, att[v].txid)
        BY ZenonT(30), <2>3, <3>1 DEF Written, Attempts
      <4>2. \A k, t : k = att[v].key /\ t = att[v].txid /\ Committed(k, t)' =>
                        Committed(att[v].key, att[v].txid)'
        BY Zenon DEF Committed, KeyAt
      <4> QED
        BY Zenon, <1>2, <4>1, <4>2
    <3>2. CASE pc'[v] = "retry"
      BY Zenon, <2>3, <3>2 DEF Written
    <3>3. CASE att[v].txid = tx.txid /\ att[v].key = tx.key
      BY Zenon, <1>2, <3>3 DEF Committed, KeyAt
    <3> QED
      BY Zenon, <3>1, <3>2, <3>3
  <2> QED
    BY Zenon, <2>1, <2>2, <2>3
<1>7. Acknowledged'
  BY Zenon, <1>2 DEF Acknowledged
<1> QED
  BY <1>2, <1>3, <1>4, <1>5, <1>6, <1>7

\* A flush is not confirmed and did not take effect yet.
LEMMA GoesAstray ==
    ASSUME WriterInv, NEW w \in Writers, pc[w] = "flush",
           NEW l \in {"idle", "retry"}, Goto(w, l), Quit(w), faults' \in Nat,
           strayFile' = strayFile \cup {Mutation(w)},
           UNCHANGED <<objects, manifest, strayManifest, att, acked, calls>>
    PROVE  WriterInv'
<1> USE DEF WriterInv
<1>1. /\ InTerm(w) /\ strayFile = {}
      /\ \A v \in Writers \ {w} : ~InTerm(v)
      /\ Mutation(w) \in Tx /\ Mutation(w).key = att[w].key
      /\ Mutation(w).txid = att[w].txid
      /\ att[w].txid = Last + 1 /\ Unused(att[w].key)
  BY Zenon, FlushNext
<1>2. /\ Last' = Last /\ Chained' /\ Stored'
      /\ \A files : IsPrefix(files) <=> IsPrefix(files)'
      /\ \A k : Unused(k) <=> Unused(k)'
      /\ \A k, t : Committed(k, t) <=> Committed(k, t)'
  BY Zenon, ObjectsKept DEF WriterTypeOK, Stored
<1>3. pc'[w] = l /\ pc' \in [Writers -> PC] /\ \A v \in Writers \ {w} : pc'[v] = pc[v]
  BY Zenon DEF Goto, WriterTypeOK, PC
<1>4. \A v : InTerm(v)' <=> InTerm(v)
  BY Zenon DEF Quit, InTerm
<1> DEFINE tx == Mutation(w)
<1>5. strayFile' = {tx}
  BY <1>1
<1> HIDE DEF tx
<1>6. WriterTypeOK'
  <2>1. LeaseTypeOK'
    BY ZenonT(30), WritersAssumption, LeaseTypes DEF Quit, WriterTypeOK
  <2> QED
    BY Zenon, <1>1, <1>2, <1>3, <1>5, <2>1 DEF WriterTypeOK, Stored, tx
<1>7. Fenced'
  BY ZenonT(30), <1>3, <1>4, WritersAssumption
    DEF Fenced, Quit, WriterTypeOK, LeaseTypeOK
<1>8. Prefixes'
  BY Zenon, <1>2 DEF Prefixes
<1>9. Stray'
  <2>1. taken' /\ l \notin ActivePC
    BY ZenonT(30), <1>1 DEF InTerm, Quit, ActivePC, HeldPC
  <2>2. \A v \in Writers : InTerm(v)' => pc'[v] \notin ActivePC
    BY <1>1, <1>3, <1>4, <2>1
  <2>3. tx.txid = Last' + 1 /\ Unused(tx.key)
    BY Zenon, <1>1, <1>2 DEF tx
  <2>4. \A u \in strayFile' : u.txid = Last' + 1 /\ Unused(u.key)'
    <3> SUFFICES ASSUME NEW u \in strayFile' PROVE u.txid = Last' + 1 /\ Unused(u.key)'
      OBVIOUS
    <3>1. u.txid = Last' + 1 /\ Unused(u.key)
      BY <1>5, <2>3
    <3> QED
      BY <1>2, <3>1
  <2> QED
    BY ZenonT(30), <1>5, <2>1, <2>2, <2>4 DEF Stray
<1>10. Attempts'
  <2> SUFFICES ASSUME NEW v \in Writers
               PROVE  /\ pc'[v] \in {"acquire", "granted", "read"} => ~att'[v].has
                      /\ InTerm(v)' => Current(v)'
                      /\ Written(v)' => Committed(att[v].key, att[v].txid)'
    BY Zenon DEF Attempts
  <2>1. CASE v = w
    BY Zenon, <1>3, <2>1 DEF Current, Written
  <2>2. CASE v # w
    <3>1. pc'[v] = pc[v] /\ ~InTerm(v)'
      BY Zenon, <1>1, <1>3, <1>4, <2>2
    <3>2. Written(v)' => Committed(att[v].key, att[v].txid)'
      BY Zenon, <1>2, <3>1 DEF Written, Attempts, Committed, KeyAt
    <3> QED
      BY ZenonT(30), <3>1, <3>2 DEF Attempts
  <2> QED
    BY Zenon, <2>1, <2>2
<1>11. Acknowledged'
  BY <1>2 DEF Acknowledged
<1> QED
  BY <1>2, <1>6, <1>7, <1>8, <1>9, <1>10, <1>11

LEMMA FlushInv ==
    ASSUME WriterInv, NEW w \in Writers, Flush(w) \/ FlushFails(w)
    PROVE  WriterInv'
<1> USE DEF WriterInv
<1>1. pc[w] = "flush" /\ faults' \in Nat
  BY Zenon, Faults DEF Flush, FlushFails
<1>2. /\ InTerm(w) /\ strayFile = {}
      /\ \A v \in Writers \ {w} : ~InTerm(v)
      /\ Mutation(w) \in Tx /\ Mutation(w).key = att[w].key
      /\ Mutation(w).txid = att[w].txid
      /\ att[w].txid = Last + 1 /\ Unused(att[w].key)
      /\ att[w].has => att[w].files = Prefix(Last)
  BY <1>1, FlushNext
<1>3. CASE PutFile(Mutation(w)) /\ UNCHANGED strayFile
  <2> DEFINE tx == Mutation(w)
             l == pc'[w]
  <2>1. /\ l \in {"flushed", "retry"} /\ pc' \in [Writers -> PC]
        /\ \A v \in Writers \ {w} : pc'[v] = pc[v]
    BY Zenon, <1>1 DEF Flush, FlushFails, Abandon, Goto, WriterTypeOK, PC
  <2>2. UNCHANGED <<manifest, strayManifest, att, acked, calls, epoch, owner, taken>>
    BY <1>1 DEF Flush, FlushFails, Abandon, Quit, leaseVars
  <2>3. safe' = safe \/ safe' = [safe EXCEPT ![w] = 0]
    BY Zenon, <1>1 DEF Flush, FlushFails, Abandon, Quit, leaseVars
  <2>4. LeaseTypeOK'
    BY Zenon, <2>2, <2>3, WritersAssumption, LeaseTypes DEF WriterTypeOK
  <2>5. Fenced'
    <3>1. \A c : InTerm(c)' <=> InTerm(c)
      BY Zenon, <2>2 DEF InTerm
    <3>2. \A c \in Clients : safe'[c] # 0 => InTerm(c)
      BY Zenon, <2>3, WritersAssumption DEF Fenced, WriterTypeOK, LeaseTypeOK
    <3>3. \A v \in Writers : pc'[v] = "flush" => InTerm(v)
      BY <2>1 DEF Fenced
    <3> QED
      BY <3>1, <3>2, <3>3 DEF Fenced
  <2>6. "retry" \notin ActivePC
    BY DEF ActivePC, HeldPC
  <2>7. /\ tx \in Tx /\ tx.txid = Last + 1 /\ Unused(tx.key) /\ PutFile(tx)
        /\ att[w].txid = tx.txid /\ att[w].key = tx.key
    BY ZenonT(30), <1>2, <1>3
  <2> HIDE DEF tx, l
  <2>8. \A v \in Writers :
             /\ \/ pc'[v] = pc[v] \/ pc'[v] = "retry"
                \/ pc'[v] = "flushed" /\ att[v].txid = tx.txid /\ att[v].key = tx.key
             /\ InTerm(v) => \/ pc'[v] \notin ActivePC
                             \/ /\ pc'[v] = "flushed" /\ att[v].txid = tx.txid
                                /\ att[v].has => att[v].files = Prefix(Last)
    BY Zenon, <1>2, <2>1, <2>6, <2>7 DEF l
  <2> QED
    BY ZenonT(30), <1>1, <1>2, <1>3, <2>1, <2>2, <2>4, <2>5, <2>7, <2>8, Grows
<1>4. CASE FlushFails(w) /\ strayFile' = strayFile \cup {Mutation(w)} /\ UNCHANGED objects
  BY <1>1, <1>4, GoesAstray DEF FlushFails, Abandon
<1> QED
  BY <1>1, <1>3, <1>4 DEF Flush, FlushFails, FlushUnconfirmed

LEMMA LandFileInv ==
    ASSUME WriterInv, NEW tx \in strayFile, LandFile(tx)
    PROVE  WriterInv'
<1> USE DEF WriterInv
<1>1. /\ tx \in Tx /\ tx.txid = Last + 1 /\ Unused(tx.key) /\ strayFile = {tx}
      /\ \A v \in Writers : InTerm(v) => pc[v] \notin ActivePC
  BY Zenon DEF Stray, WriterTypeOK
<1>2. /\ UNCHANGED <<epoch, owner, taken, safe, manifest, strayManifest, pc, att, acked, calls, faults>>
      /\ strayFile' = {}
  BY Zenon, <1>1 DEF LandFile, leaseVars
<1>3. LeaseTypeOK' /\ Fenced' /\ pc' \in [Writers -> PC] /\ faults' \in Nat
  BY ZenonT(30), <1>2 DEF WriterTypeOK, LeaseTypeOK, Fenced, InTerm
<1>4. CASE PutFile(tx)
  BY Zenon, <1>1, <1>2, <1>3, <1>4, Grows
<1>5. CASE UNCHANGED objects
  <2>1. /\ Last' = Last /\ Chained' /\ Stored'
        /\ \A files : IsPrefix(files) <=> IsPrefix(files)'
        /\ \A k : Unused(k) <=> Unused(k)'
        /\ \A k, t : Committed(k, t) <=> Committed(k, t)'
    BY Zenon, <1>5, ObjectsKept DEF WriterTypeOK, Stored
  <2>2. WriterTypeOK' /\ Prefixes' /\ Stray'
    BY Zenon, <1>2, <1>3, <1>5, <2>1 DEF WriterTypeOK, Prefixes, Stray
  <2>3. Attempts' /\ Acknowledged'
    BY Zenon, <1>2, <1>5, <2>1
      DEF Attempts, Acknowledged, Current, Written, Committed, KeyAt, InTerm
  <2> QED
    BY <1>3, <2>1, <2>2, <2>3
<1> QED
  BY Zenon, <1>4, <1>5 DEF LandFile

LEMMA LandManifestInv ==
    ASSUME WriterInv, NEW files \in strayManifest, LandManifest(files)
    PROVE  WriterInv'
<1> USE DEF WriterInv
<1>1. /\ UNCHANGED <<epoch, owner, taken, safe, objects, strayFile, pc, att, acked, calls, faults>>
      /\ strayManifest' \subseteq strayManifest
  BY DEF LandManifest, leaseVars
<1>2. /\ Last' = Last /\ Chained' /\ Stored'
      /\ \A fs : IsPrefix(fs) <=> IsPrefix(fs)'
      /\ \A k : Unused(k) <=> Unused(k)'
      /\ \A k, t : Committed(k, t) <=> Committed(k, t)'
  BY ZenonT(30), <1>1, ObjectsKept DEF WriterTypeOK, Stored
<1>3. IsPrefix(files) /\ Manifest(files) \in [exists : BOOLEAN, files : SUBSET File]
  BY DEF Prefixes, Manifest, WriterTypeOK
<1>4. manifest' \in [exists : BOOLEAN, files : SUBSET File] /\ IsPrefix(manifest'.files)
  <2>1. manifest' = Manifest(files) \/ manifest' = manifest
    BY DEF LandManifest
  <2>2. Manifest(files).files = files
    BY DEF Manifest
  <2>3. manifest \in [exists : BOOLEAN, files : SUBSET File] /\ IsPrefix(manifest.files)
    BY ZenonT(30) DEF WriterTypeOK, Prefixes
  <2> QED
    BY Zenon, <1>3, <2>1, <2>2, <2>3
<1>5. WriterTypeOK' /\ Fenced'
  BY <1>1, <1>4 DEF WriterTypeOK, LeaseTypeOK, Fenced, InTerm
<1>6. Prefixes'
  BY Zenon, <1>1, <1>2, <1>4 DEF Prefixes
<1>7. Stray'
  BY Zenon, <1>1, <1>2 DEF Stray, InTerm
<1>8. Attempts' /\ Acknowledged'
  <2>1. \A v \in Writers : (InTerm(v)' <=> InTerm(v)) /\ (Written(v)' <=> Written(v))
    BY Zenon, <1>1 DEF InTerm, Written
  <2>2. \A v \in Writers : Current(v) => Current(v)'
    BY ZenonT(30), <1>1, <1>2 DEF Current
  <2>3. \A v \in Writers :
          Committed(att[v].key, att[v].txid) => Committed(att[v].key, att[v].txid)'
    BY <1>1 DEF Committed, KeyAt, Last
  <2>4. Acknowledged'
    BY <1>1, <1>2 DEF Acknowledged
  <2> QED
    BY Zenon, <1>1, <2>1, <2>2, <2>3, <2>4 DEF Attempts
<1> QED
  BY <1>2, <1>5, <1>6, <1>7, <1>8

LEMMA CrashInv ==
    ASSUME WriterInv, NEW w \in Writers, Crash(w)
    PROVE  WriterInv'
<1> USE DEF WriterInv
<1>1. Goto(w, "idle") /\ Quit(w) /\ UNCHANGED <<objects, manifest, att, acked, calls>>
  BY ZenonT(30) DEF Crash
<1>2. faults' \in Nat /\ calls \in Nat
  BY Zenon, Faults DEF Crash, WriterTypeOK
<1>3. CASE /\ pc[w] = "flush" /\ strayFile' = strayFile \cup {Mutation(w)}
           /\ UNCHANGED strayManifest
  BY <1>1, <1>2, <1>3, GoesAstray
<1>4. CASE UNCHANGED strayFile /\ strayManifest' \subseteq strayManifest \cup {att[w].files}
  <2>1. Fits(w) /\ OwnStep(w) /\ pc'[w] = "idle"
    BY Zenon, <1>1, <1>2, <1>4, Idles DEF OwnStep, PC
  <2>2. Puts(w)
    BY <1>1, <1>4 DEF Puts
  <2> QED
    BY ZenonT(30), <1>1, <2>1, <2>2, Steady DEF Quit, ActivePC, HeldPC
<1> QED
  BY Zenon, <1>3, <1>4 DEF Crash

-----------------------------------------------------------------------------
LEMMA InitInv == WriterInit => WriterInv
<1> SUFFICES ASSUME WriterInit PROVE WriterInv
  BY Zenon
<1> USE DEF WriterInit
<1>1. DOMAIN objects = {} /\ MaxTx \in Nat /\ 0 \in 0..MaxTx
  BY LevelAssumption
<1>2. Last = 0 /\ DOMAIN objects = Prefix(Last)
  BY Zenon, <1>1, PrefixZero, PrefixReach DEF Last
<1>3. PICK k \in Keys : k = CHOOSE x \in Keys : TRUE
  BY KeysAssumption
<1>4. \A w \in Writers : att[w] = NewAttempt(k) /\ pc[w] = "idle"
  BY Zenon, <1>3
<1>5. WriterTypeOK
  <2>1. LeaseTypeOK
    BY Zenon DEF LeaseInit, LeaseTypeOK
  <2>2. pc \in [Writers -> PC] /\ att \in [Writers -> Attempt]
    BY Zenon, <1>3, NewAttempts DEF PC
  <2>3. manifest \in [exists : BOOLEAN, files : SUBSET File]
    BY Zenon DEF NoManifest
  <2> QED
    BY <1>1, <2>1, <2>2, <2>3 DEF WriterTypeOK
<1>6. Fenced
  BY Zenon, <1>4 DEF Fenced, LeaseInit
<1>7. Chained
  <2>1. Last \in 0..MaxTx /\ 1..Last = {}
    BY <1>1, <1>2
  <2> QED
    BY <1>2, <2>1 DEF Chained
<1>8. Prefixes
  <2>1. IsPrefix({})
    BY <1>2, PrefixZero DEF IsPrefix
  <2> QED
    BY Zenon, <1>4, <2>1 DEF Prefixes, NoManifest, NewAttempt
<1>9. Stray /\ Acknowledged
  BY Zenon DEF Stray, Acknowledged
<1>10. Attempts
  <2>1. \A w \in Writers : Current(w) /\ ~Written(w)
    BY Zenon, <1>4 DEF Current, Written
  <2> QED
    BY Zenon, <1>4, <2>1 DEF Attempts
<1> QED
  BY Zenon, <1>5, <1>6, <1>7, <1>8, <1>9, <1>10 DEF WriterInv

LEMMA StutterInv ==
    ASSUME WriterInv, UNCHANGED writerVars
    PROVE  WriterInv'
<1> USE DEF WriterInv
<1>1. UNCHANGED <<epoch, owner, taken, safe, objects, manifest, strayFile, strayManifest,
                  pc, att, acked, calls, faults>>
  BY Zenon DEF writerVars
<1>2. /\ Last' = Last /\ Chained' /\ Stored'
      /\ \A fs : IsPrefix(fs) <=> IsPrefix(fs)'
      /\ \A k : Unused(k) <=> Unused(k)'
      /\ \A k, t : Committed(k, t) <=> Committed(k, t)'
  BY Zenon, <1>1, ObjectsKept DEF WriterTypeOK, Stored
<1>3. WriterTypeOK' /\ Fenced'
  BY Zenon, <1>1 DEF WriterTypeOK, LeaseTypeOK, Fenced, InTerm
<1>4. Prefixes' /\ Stray'
  BY Zenon, <1>1, <1>2 DEF Prefixes, Stray, InTerm
<1>5. \A v \in Writers : (InTerm(v)' <=> InTerm(v)) /\ (Written(v)' <=> Written(v))
  BY Zenon, <1>1 DEF InTerm, Written
<1>6. \A v \in Writers : Current(v) => Current(v)'
  BY ZenonT(30), <1>1, <1>2 DEF Current
<1>7. \A v \in Writers :
        Committed(att[v].key, att[v].txid) => Committed(att[v].key, att[v].txid)'
  BY <1>1 DEF Committed, KeyAt, Last
<1>8. Attempts' /\ Acknowledged'
  BY Zenon, <1>1, <1>2, <1>5, <1>6, <1>7 DEF Attempts, Acknowledged
<1> QED
  BY Zenon, <1>2, <1>3, <1>4, <1>8

LEMMA NextInv == WriterInv /\ [WriterNext]_writerVars => WriterInv'
<1> SUFFICES ASSUME WriterInv, [WriterNext]_writerVars PROVE WriterInv'
  OBVIOUS
<1>1. CASE UNCHANGED writerVars
  BY <1>1, StutterInv
<1>2. CASE StrayLands
  BY <1>2, LandFileInv, LandManifestInv DEF StrayLands
<1>3. ASSUME NEW w \in Writers, (\E k \in Keys : Call(w, k)) \/ Progress(w) \/ Failure(w)
      PROVE  WriterInv'
  <2>1. CASE \E k \in Keys : Call(w, k)
    BY <2>1, IdleSteps
  <2>2. CASE Progress(w)
    BY Zenon, <2>2, IdleSteps, AcquireLandsInv, ReadManifestInv, TailTXIDInv, BuildManifestInv,
       PutListingInv, OpenWriteInv, DedupeInv, RunInv, FlushInv, FlushedInv, ReleaseSteps,
       ReleaseEnds DEF Progress
  <2>3. CASE Failure(w)
    BY <2>3, IdleSteps, ReleaseSteps, FlushInv, ReleaseEnds, LeaseSteps, CrashInv DEF Failure
  <2> QED
    BY <1>3, <2>1, <2>2, <2>3
<1> QED
  BY <1>1, <1>2, <1>3 DEF WriterNext

\* The invariant of the write protocol holds in every reachable state.
THEOREM WriterInvariant == WriterSpec => []WriterInv
<1>1. WriterInit => WriterInv
  BY InitInv
<1>2. WriterInv /\ [WriterNext]_writerVars => WriterInv'
  BY Zenon, NextInv
<1> QED
  BY <1>1, <1>2, PTL DEF WriterSpec

-----------------------------------------------------------------------------
\* The chain of the replica is what its level-0 files hold.
LEMMA ChainIs ==
    ASSUME WriterInv
    PROVE  DOMAIN Chain = 1..Last /\ \A t \in 1..Last : Chain[t].key = KeyAt(t)
<1>1. Last \in 0..Last /\ Chained /\ Stored /\ DOMAIN objects = Prefix(Last)
  <2>1. Chained /\ Stored
    BY DEF WriterInv, WriterTypeOK, Stored
  <2> QED
    BY Zenon, <2>1, LastIs
<1> QED
  BY <1>1, ChainOf DEF Chain, KeyAt

\* Every state of the write protocol is well typed.
THEOREM WriterTypes == WriterSpec => []WriterTypeOK
<1>1. WriterInv => WriterTypeOK
  BY DEF WriterInv
<1> QED
  BY <1>1, WriterInvariant, PTL

\* A mutation that WithWrite acknowledged stays in the replica at the TXID its
\* caller was told, whatever fails, crashes or takes over later.
THEOREM WriterDurable == WriterSpec => []AckedDurable
<1>1. WriterInv => AckedDurable
  BY ZenonT(30), ChainIs DEF WriterInv, Acknowledged, Committed, AckedDurable
<1> QED
  BY <1>1, WriterInvariant, PTL

\* No idempotency key is applied twice.
THEOREM WriterAtMostOnce == WriterSpec => []AtMostOnce
<1>1. WriterInv => AtMostOnce
  BY Zenon, ChainIs DEF WriterInv, Chained, AtMostOnce
<1> QED
  BY <1>1, WriterInvariant, PTL

\* A writer that may commit has restored every file that was ever flushed.
THEOREM WriterBaseIsTail == WriterSpec => []BaseIsTail
<1>1. WriterInv => BaseIsTail
  BY Zenon DEF WriterInv, Attempts, Current, BaseIsTail, Last
<1> QED
  BY <1>1, WriterInvariant, PTL

-----------------------------------------------------------------------------
\* What a step does to the chain and to the acknowledgements: nothing, or the
\* next mutation is flushed, or one that is in the chain is acknowledged.
Commits == \E tx \in Tx :
              /\ tx.txid = Last + 1 /\ Unused(tx.key) /\ PutFile(tx)
              /\ UNCHANGED acked

Acknowledges == \E w \in Writers :
              /\ Committed(att[w].key, att[w].txid)
              /\ acked' = acked \cup {[key |-> att[w].key, txid |-> att[w].txid]}
              /\ UNCHANGED objects

LEMMA FinishEffect ==
    ASSUME WriterInv, NEW w \in Writers,
           Released(w) \/ ReleaseConflict(w) \/ ReleaseFails(w)
    PROVE  UNCHANGED <<objects, acked>> \/ Acknowledges
<1>1. UNCHANGED objects
  BY Zenon DEF Released, ReleaseConflict, ReleaseFails, Finish, storage
<1>2. pc[w] = "releasing"
  BY Zenon DEF Released, ReleaseConflict, ReleaseFails
<1>3. \/ UNCHANGED acked
      \/ /\ att[w].fate = "ack"
         /\ acked' = acked \cup {[key |-> att[w].key, txid |-> att[w].txid]}
  BY Zenon DEF Released, ReleaseConflict, ReleaseFails, Finish, Unreleased
<1>4. att[w].fate = "ack" => Committed(att[w].key, att[w].txid)
  BY Zenon, <1>2 DEF WriterInv, Attempts, Written
<1> QED
  BY Zenon, <1>1, <1>3, <1>4 DEF Acknowledges

LEMMA FlushEffect ==
    ASSUME WriterInv, NEW w \in Writers, Flush(w) \/ FlushFails(w)
    PROVE  UNCHANGED <<objects, acked>> \/ Commits
<1>1. pc[w] = "flush" /\ UNCHANGED acked
  BY Zenon DEF Flush, FlushFails
<1>2. /\ Mutation(w) \in Tx /\ Mutation(w).txid = Last + 1
      /\ Unused(Mutation(w).key)
  BY <1>1, FlushNext
<1>3. UNCHANGED objects \/ PutFile(Mutation(w))
  BY DEF Flush, FlushFails, FlushUnconfirmed
<1> QED
  BY <1>1, <1>2, <1>3 DEF Commits

LEMMA Effects ==
    ASSUME WriterInv, [WriterNext]_writerVars
    PROVE  UNCHANGED <<objects, acked>> \/ Commits \/ Acknowledges
<1>1. CASE UNCHANGED writerVars
  BY <1>1 DEF writerVars
<1>2. CASE StrayLands
  <2>1. ASSUME NEW tx \in strayFile, LandFile(tx)
        PROVE  UNCHANGED <<objects, acked>> \/ Commits
    <3>1. tx \in Tx /\ tx.txid = Last + 1 /\ Unused(tx.key)
      BY DEF WriterInv, Stray, WriterTypeOK
    <3> QED
      BY Zenon, <2>1, <3>1 DEF LandFile, Commits
  <2>2. ASSUME NEW files \in strayManifest, LandManifest(files)
        PROVE  UNCHANGED <<objects, acked>>
    BY Zenon, <2>2 DEF LandManifest
  <2> QED
    BY <1>2, <2>1, <2>2 DEF StrayLands
<1>3. ASSUME NEW w \in Writers, (\E k \in Keys : Call(w, k)) \/ Progress(w) \/ Failure(w)
      PROVE  UNCHANGED <<objects, acked>> \/ Commits \/ Acknowledges
  <2>1. CASE Flush(w) \/ FlushFails(w)
    BY <2>1, FlushEffect
  <2>2. CASE Released(w) \/ ReleaseConflict(w) \/ ReleaseFails(w)
    BY Zenon, <2>2, FinishEffect
  <2>3. CASE \/ \E k \in Keys : Call(w, k)
             \/ AcquireLands(w) \/ Acquired(w) \/ AcquireFails(w) \/ Retry(w) \/ GiveUp(w)
             \/ ReadManifest(w) \/ TailTXID(w) \/ BuildManifest(w) \/ OpenWrite(w)
             \/ Dedupe(w) \/ RemoteFails(w)
    BY Zenon, <2>3 DEF Call, AcquireLands, Acquired, AcquireFails, Retry, GiveUp, ReadManifest,
       TailTXID, BuildManifest, OpenWrite, Dedupe, RemoteFails, storage
  <2>4. CASE \/ PutListing(w) \/ PutListingFails(w) \/ Run(w) \/ RunStale(w) \/ RunFails(w)
             \/ Flushed(w) \/ FlushedStale(w) \/ Index(w) \/ IndexFails(w)
             \/ Expire(w) \/ RenewLate(w) \/ Crash(w)
    BY <2>4 DEF PutListing, PutListingFails, Run, RunStale, RunFails, Flushed, FlushedStale,
       Index, IndexFails, Expire, RenewLate, Crash, storage
  <2> QED
    BY <1>3, <2>1, <2>2, <2>3, <2>4 DEF Progress, Failure
<1> QED
  BY <1>1, <1>2, <1>3 DEF WriterNext

\* The bytes of an LTX file never change: a flush that is retried, or lands
\* late, never rewrites a TXID that is in the replica.
THEOREM WriterImmutable == WriterSpec => Immutable
<1>1. WriterInv /\ [WriterNext]_writerVars => [ImmutableStep]_writerVars
  <2> SUFFICES ASSUME WriterInv, [WriterNext]_writerVars PROVE ImmutableStep
    OBVIOUS
  <2>1. CASE UNCHANGED objects
    BY Zenon, <2>1 DEF ImmutableStep
  <2>2. CASE Commits
    BY Zenon, <2>2, PutExtends DEF Commits, WriterInv, WriterTypeOK, Stored
  <2> QED
    BY <2>1, <2>2, Effects DEF Acknowledges
<1> QED
  BY <1>1, WriterInvariant, PTL DEF WriterSpec, Immutable

-----------------------------------------------------------------------------
\* The log that the replica implements.
LogForm ==
    /\ ChainKeys = [t \in 1..Last |-> KeyAt(t)]
    /\ ChainKeys \in Seq(Keys) /\ Len(ChainKeys) = Last /\ Last \in Nat

LEMMA LogIs == WriterInv => LogForm
<1> SUFFICES ASSUME WriterInv PROVE LogForm
  OBVIOUS
<1>1. Last \in 0..Last /\ Last \in Nat /\ Chained /\ Stored /\ DOMAIN objects = Prefix(Last)
  <2>1. Chained /\ Stored
    BY DEF WriterInv, WriterTypeOK, Stored
  <2> QED
    BY <2>1, LastIs
<1>2. ChainKeys = [t \in 1..Last |-> KeyAt(t)]
  BY Zenon, ChainIs DEF ChainKeys
<1>3. \A t \in 1..Last : KeyAt(t) \in Keys
  BY <1>1, ChainOf DEF KeyAt, Tx
<1>4. ChainKeys \in Seq(Keys)
  BY <1>1, <1>2, <1>3
<1>5. Len(ChainKeys) \in Nat /\ DOMAIN ChainKeys = 1..Len(ChainKeys) /\ DOMAIN ChainKeys = 1..Last
  BY Zenon, <1>2, <1>4, LenProperties
<1>6. \A a, b \in Nat : 1..a = 1..b => a = b
  OBVIOUS
<1> QED
  BY Zenon, <1>1, <1>2, <1>4, <1>5, <1>6 DEF LogForm

LEMMA LogCommit ==
    ASSUME WriterInv, WriterInv', Commits
    PROVE  Log!LogNext
<1>1. PICK tx \in Tx : /\ tx.txid = Last + 1 /\ Unused(tx.key) /\ PutFile(tx)
                       /\ UNCHANGED acked
  BY Zenon DEF Commits
<1>2. Chained /\ Stored
  BY DEF WriterInv, WriterTypeOK, Stored
<1>3. /\ ChainKeys = [t \in 1..Last |-> KeyAt(t)]
      /\ ChainKeys \in Seq(Keys) /\ Len(ChainKeys) = Last /\ Last \in Nat
  BY LogIs DEF LogForm
<1>4. /\ ChainKeys' = [t \in 1..Last' |-> KeyAt(t)']
      /\ ChainKeys' \in Seq(Keys) /\ Len(ChainKeys') = Last'
  <2>1. LogForm'
    BY LogIs, PTL
  <2> QED
    BY <2>1 DEF LogForm
<1>5. Last' = Last + 1 /\ Committed(tx.key, tx.txid)'
      /\ \A k, t : Committed(k, t) => Committed(k, t)'
  BY <1>1, <1>2, PutExtends
<1>6. \A t \in 1..Last : ChainKeys'[t] = ChainKeys[t]
  <2> SUFFICES ASSUME NEW t \in 1..Last PROVE ChainKeys'[t] = ChainKeys[t]
    OBVIOUS
  <2>1. Committed(KeyAt(t), t)
    BY DEF Committed
  <2>2. \A k : Committed(k, t)' => KeyAt(t)' = k /\ t \in 1..Last'
    BY DEF Committed
  <2>3. KeyAt(t)' = KeyAt(t) /\ t \in 1..Last'
    BY Zenon, <1>5, <2>1, <2>2
  <2> QED
    BY Zenon, <1>3, <1>4, <2>3
<1>7. ChainKeys'[Last + 1] = tx.key
  BY <1>1, <1>3, <1>4, <1>5 DEF Committed
<1>8. ChainKeys' = Append(ChainKeys, tx.key)
  <2>1. Append(ChainKeys, tx.key)
          = [t \in 1..(Last + 1) |-> IF t = Last + 1 THEN tx.key ELSE ChainKeys[t]]
    BY <1>3
  <2>2. \A t \in 1..(Last + 1) :
          ChainKeys'[t] = IF t = Last + 1 THEN tx.key ELSE ChainKeys[t]
    BY <1>3, <1>6, <1>7
  <2>3. ChainKeys' = [t \in 1..(Last + 1) |-> ChainKeys'[t]]
    BY <1>4, <1>5
  <2> QED
    BY <2>1, <2>2, <2>3
<1>9. tx.key \in Keys /\ \A t \in DOMAIN ChainKeys : ChainKeys[t] # tx.key
  BY Zenon, <1>1, <1>3 DEF Unused, Tx
<1> QED
  BY <1>1, <1>8, <1>9 DEF Log!LogNext, Log!Commit

LEMMA LogAcknowledge ==
    ASSUME WriterInv, Acknowledges
    PROVE  Log!LogNext
<1>1. PICK w \in Writers :
              /\ Committed(att[w].key, att[w].txid)
              /\ acked' = acked \cup {[key |-> att[w].key, txid |-> att[w].txid]}
              /\ UNCHANGED objects
  BY DEF Acknowledges
<1>2. ChainKeys = [t \in 1..Last |-> KeyAt(t)]
  BY Zenon, LogIs DEF LogForm
<1>3. att[w].key \in Keys
  BY Zenon DEF WriterInv, WriterTypeOK, Attempt
<1>4. att[w].txid \in DOMAIN ChainKeys /\ ChainKeys[att[w].txid] = att[w].key
  BY Zenon, <1>1, <1>2 DEF Committed
<1>5. ChainKeys' = ChainKeys
  BY <1>1 DEF ChainKeys, Chain
<1> QED
  BY Zenon, <1>1, <1>3, <1>4, <1>5 DEF Log!LogNext, Log!Acknowledge

\* The write protocol implements the log of at-most-once mutations: a flush
\* appends to it, and a return of WithWrite acknowledges what is in it.
THEOREM WriterImplementsLog == WriterSpec => ImplementsWriteSpec
<1>1. WriterInit => Log!LogInit
  <2> SUFFICES ASSUME WriterInit PROVE Log!LogInit
    OBVIOUS
  <2>1. WriterInv
    BY InitInv
  <2>2. Last = 0
    <3>1. DOMAIN objects = Prefix(0) /\ 0 \in 0..MaxTx
      BY PrefixZero, LevelAssumption DEF WriterInit
    <3> QED
      BY <3>1, PrefixReach DEF Last
  <2>3. ChainKeys \in Seq(Keys) /\ Len(ChainKeys) = 0
    BY <2>1, <2>2, LogIs DEF LogForm
  <2>4. ChainKeys = <<>>
    BY <2>3, EmptySeq
  <2> QED
    BY <2>4 DEF Log!LogInit, WriterInit
<1>2. WriterInv /\ WriterInv' /\ [WriterNext]_writerVars => [Log!LogNext]_<<ChainKeys, acked>>
  <2> SUFFICES ASSUME WriterInv, WriterInv', [WriterNext]_writerVars
               PROVE  [Log!LogNext]_<<ChainKeys, acked>>
    OBVIOUS
  <2>1. CASE UNCHANGED <<objects, acked>>
    BY <2>1 DEF ChainKeys, Chain
  <2>2. CASE Commits
    BY <2>2, LogCommit
  <2>3. CASE Acknowledges
    BY <2>3, LogAcknowledge
  <2> QED
    BY <2>1, <2>2, <2>3, Effects
<1> QED
  BY <1>1, <1>2, WriterInvariant, PTL DEF WriterSpec, ImplementsWriteSpec, Log!LogSpec

=============================================================================
