---------------------------- MODULE ReadsProofs ----------------------------
(***************************************************************************)
(* Proofs about Reads: the reference counts of the registered databases    *)
(* are exact, nothing that was opened is forgotten, and a process that was *)
(* closed and has no call in flight holds nothing, for every number of     *)
(* databases, callers and calls and every capacity of the cache.           *)
(*                                                                         *)
(* The argument.  An entry leaves the registry exactly when it is evicted, *)
(* and from then on it has no new users; whoever then finds its count at   *)
(* zero takes it to tear it down.  A cached session is covered by an entry *)
(* of its key that is resident, used or waiting to be torn down, and the   *)
(* teardown takes it out of the cache before the entry is forgotten.       *)
(***************************************************************************)
EXTENDS Reads, SequenceTheorems, FiniteSetTheorems, TLAPS

-----------------------------------------------------------------------------
\* No element is twice in the list.
Once(seq) == \A i, j \in DOMAIN seq : seq[i] = seq[j] => i = j

\* The cache has one session of a key at most: Cache.entries is a map.
Lists ==
    /\ Once(resident) /\ Once(order)
    /\ \A s, t \in Range(order) : KeyOf(s) = KeyOf(t) => s = t

\* An entry is resident until it is evicted, and keeps its VFS as long; Close
\* evicts all of them.
Registered ==
    /\ \A e \in DOMAIN entry :
          /\ entry[e].evicted <=> e \notin Range(resident)
          /\ ~entry[e].evicted => entry[e].vfs
    /\ closed => resident = <<>>

\* What a caller took to tear down is out of the registry and unused.
Takes(c) == call[c].doomed \cup ({call[c].tearing} \ {0})

Condemned ==
    \A c \in Callers : \A e \in Takes(c) :
        e \in DOMAIN entry /\ entry[e].evicted /\ entry[e].refs = 0

\* The places where a call uses no entry, and those where it owes nothing.
Outside == {"idle", "enter", "shut", "return"}
Settled == {"idle", "enter", "hit", "drop", "running", "evict", "open", "fresh", "shut"}

\* Where a call uses its entry, has its session, and owes nothing.
CarriedBy(c) ==
    /\ pc[c] \in Outside => call[c].entry = 0
    /\ pc[c] \notin Outside =>
          call[c].entry \in DOMAIN entry /\ entry[call[c].entry].key = call[c].key
    /\ pc[c] \in {"hit", "running", "fresh", "put"} => call[c].session \in DOMAIN session
    /\ pc[c] \in {"fresh", "put"} => session[call[c].session].entry = call[c].entry
    /\ pc[c] \in Settled => call[c].closing = {} /\ call[c].tearing = 0
    /\ pc[c] \in Settled \ {"shut"} => call[c].doomed = {}

Carried == \A c \in Callers : CarriedBy(c)

\* The two halves of NothingLeaks.
VFSHeld ==
    \A e \in DOMAIN entry : entry[e].vfs =>
        \/ e \in Range(resident)
        \/ entry[e].refs > 0
        \/ \E c \in Callers : e \in call[c].doomed \cup {call[c].tearing}

SessionsHeld ==
    \A s \in DOMAIN session : session[s].open =>
        \/ s \in Range(order)
        \/ \E c \in Callers : s \in Using(c) \cup call[c].closing

\* Someone will take the key's session out of the cache, or still uses the
\* database.
Covers(k) ==
    \E e \in DOMAIN entry :
        /\ entry[e].key = k
        /\ \/ ~entry[e].evicted
           \/ entry[e].refs > 0
           \/ \E c \in Callers : e \in call[c].doomed

Covered == \A s \in Range(order) : Covers(KeyOf(s))

ReadsInv ==
    /\ ReadsTypeOK /\ Lists /\ Registered /\ Condemned /\ Carried
    /\ RefsExact /\ VFSHeld /\ SessionsHeld /\ Covered

-----------------------------------------------------------------------------
\* What Removed leaves of a list (list.Remove).
LEMMA RemovedParts ==
    ASSUME NEW S, NEW seq \in Seq(S), NEW i \in 1..Len(seq)
    PROVE  /\ Removed(seq, i) \in Seq(S)
           /\ Len(Removed(seq, i)) = Len(seq) - 1
           /\ \A j \in 1..(Len(seq) - 1) :
                 Removed(seq, i)[j] = IF j < i THEN seq[j] ELSE seq[j + 1]
<1> DEFINE a == SubSeq(seq, 1, i - 1)
           b == SubSeq(seq, i + 1, Len(seq))
<1>1. Len(seq) \in Nat /\ i \in Int /\ 1 <= i /\ i <= Len(seq)
  BY LenProperties
<1>2. \A j \in 1..Len(seq) : seq[j] \in S
  BY ElementOfSeq
<1>3. /\ a \in Seq(S) /\ Len(a) = i - 1
      /\ \A j \in 1..(i - 1) : a[j] = seq[j]
  <2>1. \A j \in 1..(i - 1) : seq[j] \in S
    BY <1>1, <1>2
  <2>2. /\ a \in Seq(S)
        /\ Len(a) = IF 1 <= i - 1 THEN (i - 1) - 1 + 1 ELSE 0
        /\ \A j \in 1..((i - 1) - 1 + 1) : a[j] = seq[1 + j - 1]
    BY <1>1, <2>1, SubSeqProperties
  <2> HIDE DEF a
  <2> QED BY <1>1, <2>2
<1>4. /\ b \in Seq(S) /\ Len(b) = Len(seq) - i
      /\ \A j \in 1..(Len(seq) - i) : b[j] = seq[i + j]
  <2>1. \A j \in (i + 1)..Len(seq) : seq[j] \in S
    BY <1>1, <1>2
  <2>2. /\ b \in Seq(S)
        /\ Len(b) = IF i + 1 <= Len(seq) THEN Len(seq) - (i + 1) + 1 ELSE 0
        /\ \A j \in 1..(Len(seq) - (i + 1) + 1) : b[j] = seq[(i + 1) + j - 1]
    BY <1>1, <2>1, SubSeqProperties
  <2> HIDE DEF b
  <2> QED BY <1>1, <2>2
<1>5. Removed(seq, i) = a \o b
  BY DEF Removed
<1> HIDE DEF a, b
<1>6. /\ a \o b \in Seq(S)
      /\ Len(a \o b) = Len(a) + Len(b)
      /\ \A j \in 1..(Len(a) + Len(b)) : (a \o b)[j] = IF j <= Len(a) THEN a[j] ELSE b[j - Len(a)]
  BY Zenon, <1>3, <1>4, ConcatProperties
<1>7. \A j \in 1..(Len(seq) - 1) : (a \o b)[j] = IF j < i THEN seq[j] ELSE seq[j + 1]
  <2> SUFFICES ASSUME NEW j \in 1..(Len(seq) - 1)
               PROVE  (a \o b)[j] = IF j < i THEN seq[j] ELSE seq[j + 1]
    BY Zenon
  <2>1. CASE j < i
    BY <1>1, <1>3, <1>4, <1>6, <2>1
  <2>2. CASE ~(j < i)
    <3>1. (a \o b)[j] = b[j - Len(a)]
      BY <1>1, <1>3, <1>4, <1>6, <2>2
    <3>2. j - Len(a) \in 1..(Len(seq) - i) /\ i + (j - Len(a)) = j + 1
      BY <1>1, <1>3, <2>2
    <3> QED BY Zenon, <1>4, <2>2, <3>1, <3>2
  <2> QED BY Zenon, <2>1, <2>2
<1> QED BY <1>1, <1>3, <1>4, <1>5, <1>6, <1>7

\* Removing an element of a list without repetitions.
LEMMA RemoveOnce ==
    ASSUME NEW S, NEW seq \in Seq(S), NEW i \in DOMAIN seq, Once(seq)
    PROVE  /\ Removed(seq, i) \in Seq(S)
           /\ Len(Removed(seq, i)) = Len(seq) - 1
           /\ Once(Removed(seq, i))
           /\ Range(Removed(seq, i)) = Range(seq) \ {seq[i]}
<1> DEFINE r == Removed(seq, i)
<1>1. Len(seq) \in Nat /\ DOMAIN seq = 1..Len(seq) /\ i \in 1..Len(seq)
  BY Zenon, LenProperties
<1>2. /\ r \in Seq(S) /\ Len(r) = Len(seq) - 1
      /\ \A j \in 1..(Len(seq) - 1) : r[j] = IF j < i THEN seq[j] ELSE seq[j + 1]
  BY Zenon, <1>1, RemovedParts
<1> HIDE DEF r
<1>3. DOMAIN r = 1..(Len(seq) - 1)
  BY <1>2, LenProperties
<1>4. Once(r)
  BY <1>1, <1>2, <1>3 DEF Once
<1>5. ASSUME NEW x \in Range(r) PROVE x \in Range(seq) \ {seq[i]}
  <2>1. PICK j \in 1..(Len(seq) - 1) : x = r[j]
    BY <1>3 DEF Range
  <2>2. CASE j < i
    BY <1>1, <1>2, <2>1, <2>2 DEF Range, Once
  <2>3. CASE ~(j < i)
    <3>1. x = seq[j + 1] /\ j + 1 \in 1..Len(seq) /\ j + 1 # i
      BY <1>1, <1>2, <2>1, <2>3
    <3> QED BY <1>1, <3>1 DEF Range, Once
  <2> QED BY <2>2, <2>3
<1>6. ASSUME NEW x \in Range(seq) \ {seq[i]} PROVE x \in Range(r)
  <2>1. PICK j \in 1..Len(seq) : x = seq[j]
    BY <1>1 DEF Range
  <2>2. j # i
    BY <2>1
  <2>3. CASE j < i
    <3>1. j \in 1..(Len(seq) - 1) /\ r[j] = x
      BY <1>1, <1>2, <2>1, <2>3
    <3> QED BY <1>3, <3>1 DEF Range
  <2>4. CASE j > i
    <3>1. j - 1 \in 1..(Len(seq) - 1) /\ r[j - 1] = x
      BY <1>1, <1>2, <2>1, <2>4
    <3> QED BY <1>3, <3>1 DEF Range
  <2> QED BY <1>1, <2>2, <2>3, <2>4
<1> QED BY <1>2, <1>4, <1>5, <1>6 DEF r

\* Pushing a new element onto the front (list.PushFront).
LEMMA PushOnce ==
    ASSUME NEW S, NEW seq \in Seq(S), NEW x \in S, Once(seq), x \notin Range(seq)
    PROVE  /\ <<x>> \o seq \in Seq(S)
           /\ Len(<<x>> \o seq) = Len(seq) + 1
           /\ Once(<<x>> \o seq)
           /\ Range(<<x>> \o seq) = Range(seq) \cup {x}
<1> DEFINE r == <<x>> \o seq
<1>1. Len(seq) \in Nat /\ DOMAIN seq = 1..Len(seq)
  BY LenProperties
<1>2. <<x>> \in Seq(S) /\ Len(<<x>>) = 1 /\ <<x>>[1] = x
  OBVIOUS
<1>3. /\ r \in Seq(S) /\ Len(r) = Len(<<x>>) + Len(seq)
      /\ \A j \in 1..(Len(<<x>>) + Len(seq)) :
            r[j] = IF j <= Len(<<x>>) THEN <<x>>[j] ELSE seq[j - Len(<<x>>)]
  BY <1>2, ConcatProperties
<1> HIDE DEF r
<1>4. /\ Len(r) = Len(seq) + 1 /\ DOMAIN r = 1..(Len(seq) + 1)
      /\ r[1] = x
      /\ \A j \in 2..(Len(seq) + 1) : r[j] = seq[j - 1]
  <2>1. Len(r) = Len(seq) + 1 /\ DOMAIN r = 1..(Len(seq) + 1)
    BY <1>1, <1>2, <1>3, LenProperties
  <2>2. r[1] = x
    BY <1>1, <1>2, <1>3
  <2>3. \A j \in 2..(Len(seq) + 1) : r[j] = seq[j - 1]
    BY <1>1, <1>2, <1>3
  <2> QED BY <2>1, <2>2, <2>3
<1>5. Once(r)
  <2>1. \A j \in DOMAIN seq : seq[j] # x
    BY DEF Range
  <2> QED BY <1>1, <1>4, <2>1 DEF Once
<1>6. Range(r) \subseteq Range(seq) \cup {x}
  BY <1>1, <1>4 DEF Range
<1>7. ASSUME NEW y \in Range(seq) PROVE y \in Range(r)
  <2>1. PICK j \in 1..Len(seq) : y = seq[j]
    BY <1>1 DEF Range
  <2>2. j + 1 \in DOMAIN r /\ r[j + 1] = y
    BY <1>1, <1>4, <2>1
  <2> QED BY <2>2 DEF Range
<1>8. x \in Range(r)
  BY <1>1, <1>4 DEF Range
<1> QED BY <1>3, <1>4, <1>5, <1>6, <1>7, <1>8 DEF r

\* list.MoveToFront changes the order and nothing else.
LEMMA ToFrontOnce ==
    ASSUME NEW S, NEW seq \in Seq(S), NEW i \in DOMAIN seq, Once(seq)
    PROVE  /\ ToFront(seq, i) \in Seq(S)
           /\ Len(ToFront(seq, i)) = Len(seq)
           /\ Once(ToFront(seq, i))
           /\ Range(ToFront(seq, i)) = Range(seq)
<1> DEFINE r == Removed(seq, i)
<1>1. /\ r \in Seq(S) /\ Len(r) = Len(seq) - 1
      /\ Once(r) /\ Range(r) = Range(seq) \ {seq[i]}
  BY RemoveOnce
<1>2. seq[i] \in S /\ seq[i] \in Range(seq) /\ Len(seq) \in Nat
  BY LenProperties, ElementOfSeq DEF Range
<1>3. ToFront(seq, i) = <<seq[i]>> \o r
  BY DEF ToFront
<1> HIDE DEF r
<1>4. seq[i] \notin Range(r)
  BY <1>1
<1>5. /\ <<seq[i]>> \o r \in Seq(S)
      /\ Len(<<seq[i]>> \o r) = Len(r) + 1
      /\ Once(<<seq[i]>> \o r)
      /\ Range(<<seq[i]>> \o r) = Range(r) \cup {seq[i]}
  BY <1>1, <1>2, <1>4, PushOnce
<1>6. Len(r) + 1 = Len(seq)
  BY <1>1, <1>2
<1>7. Range(r) \cup {seq[i]} = Range(seq)
  BY <1>1, <1>2
<1> QED BY Zenon, <1>3, <1>5, <1>6, <1>7

\* Dropping the last element of a list without repetitions.
LEMMA DropBackOnce ==
    ASSUME NEW S, NEW seq \in Seq(S), Len(seq) > 0, Once(seq)
    PROVE  /\ DropBack(seq) \in Seq(S)
           /\ Len(DropBack(seq)) = Len(seq) - 1
           /\ Once(DropBack(seq))
           /\ Range(DropBack(seq)) = Range(seq) \ {Back(seq)}
           /\ Back(seq) \in Range(seq)
<1> DEFINE r == DropBack(seq)
           n == Len(seq)
<1>1. n \in Nat /\ DOMAIN seq = 1..n /\ n \in DOMAIN seq
  BY LenProperties
<1>2. \A j \in 1..(n - 1) : seq[j] \in S
  BY <1>1, ElementOfSeq
<1>3. /\ r \in Seq(S)
      /\ Len(r) = IF 1 <= n - 1 THEN (n - 1) - 1 + 1 ELSE 0
      /\ \A j \in 1..((n - 1) - 1 + 1) : r[j] = seq[1 + j - 1]
  BY <1>1, <1>2, SubSeqProperties DEF DropBack
<1> HIDE DEF r, n
<1>4. Len(r) = n - 1 /\ DOMAIN r = 1..(n - 1) /\ \A j \in 1..(n - 1) : r[j] = seq[j]
  <2>1. Len(r) = n - 1 /\ \A j \in 1..(n - 1) : r[j] = seq[j]
    BY <1>1, <1>3
  <2> QED BY <2>1, <1>3, LenProperties
<1>5. Once(r)
  BY <1>1, <1>4 DEF Once
<1>6. Back(seq) = seq[n]
  BY DEF Back, n
<1>7. Range(r) \subseteq Range(seq) \ {seq[n]}
  BY <1>1, <1>4 DEF Range, Once
<1>8. ASSUME NEW x \in Range(seq) \ {seq[n]} PROVE x \in Range(r)
  <2>1. PICK j \in 1..n : x = seq[j]
    BY <1>1 DEF Range
  <2>2. j \in DOMAIN r /\ r[j] = x
    BY <1>1, <1>4, <2>1
  <2> QED BY <2>2 DEF Range
<1>9. seq[n] \in Range(seq)
  BY <1>1 DEF Range
<1> QED BY <1>3, <1>4, <1>5, <1>6, <1>7, <1>8, <1>9 DEF r, n
-----------------------------------------------------------------------------
\* Replacing one element of a list of records.
LEMMA SeqUpdate ==
    ASSUME NEW S, NEW seq \in Seq(S), NEW i \in DOMAIN seq, NEW x \in S
    PROVE  /\ [seq EXCEPT ![i] = x] \in Seq(S)
           /\ DOMAIN [seq EXCEPT ![i] = x] = DOMAIN seq
           /\ Len([seq EXCEPT ![i] = x]) = Len(seq)
           /\ [seq EXCEPT ![i] = x][i] = x
           /\ \A j \in DOMAIN seq \ {i} : [seq EXCEPT ![i] = x][j] = seq[j]
<1>1. i \in 1..Len(seq)
  BY LenProperties
<1>2. [seq EXCEPT ![i] = x] \in Seq(S) /\ Len([seq EXCEPT ![i] = x]) = Len(seq)
  BY <1>1, ExceptSeq
<1> QED BY <1>2

\* Adding an element at the end.
LEMMA SeqGrow ==
    ASSUME NEW S, NEW seq \in Seq(S), NEW x \in S
    PROVE  /\ Append(seq, x) \in Seq(S)
           /\ Len(seq) + 1 \notin DOMAIN seq
           /\ Len(seq) + 1 \in Nat \ {0}
           /\ DOMAIN Append(seq, x) = DOMAIN seq \cup {Len(seq) + 1}
           /\ Append(seq, x)[Len(seq) + 1] = x
           /\ \A j \in DOMAIN seq : Append(seq, x)[j] = seq[j]
<1>1. Len(seq) \in Nat /\ DOMAIN seq = 1..Len(seq)
  BY LenProperties
<1>2. /\ Append(seq, x) \in Seq(S)
      /\ Len(Append(seq, x)) = Len(seq) + 1
      /\ \A i \in 1..Len(seq) : Append(seq, x)[i] = seq[i]
      /\ Append(seq, x)[Len(seq) + 1] = x
  BY AppendProperties
<1>3. DOMAIN Append(seq, x) = 1..(Len(seq) + 1)
  BY <1>2, LenProperties
<1> QED BY <1>1, <1>2, <1>3

\* The indices of a list are positive numbers.
LEMMA Indices ==
    ASSUME NEW S, NEW seq \in Seq(S)
    PROVE  /\ DOMAIN seq \subseteq Nat \ {0} /\ Len(seq) \in Nat
           /\ \A i \in DOMAIN seq : seq[i] \in S
           /\ Range(seq) \subseteq S
<1>1. Len(seq) \in Nat /\ DOMAIN seq = 1..Len(seq)
  BY LenProperties
<1>2. \A i \in DOMAIN seq : seq[i] \in S
  BY <1>1, ElementOfSeq
<1> QED BY <1>1, <1>2 DEF Range

\* Taking the session of a key out of the cache (Cache.removeLocked).
LEMMA TakeOut ==
    ASSUME ReadsTypeOK, Lists, NEW k
    PROVE  /\ Cached(k) = {s \in Range(order) : KeyOf(s) = k}
           /\ Cached(k) \subseteq DOMAIN session
           /\ WithoutKey(k) \in Seq(DOMAIN session)
           /\ Once(WithoutKey(k))
           /\ Range(WithoutKey(k)) = Range(order) \ Cached(k)
           /\ Len(WithoutKey(k)) <= Len(order)
           /\ Cached(k) # {} => Len(WithoutKey(k)) < Len(order)
<1>1. order \in Seq(DOMAIN session)
  BY DEF ReadsTypeOK
<1>2. Range(order) \subseteq DOMAIN session /\ Len(order) \in Nat
  BY <1>1, Indices
<1>3. Cached(k) = {s \in Range(order) : KeyOf(s) = k}
  BY DEF Cached, CachedAt, Range
<1>4. CASE CachedAt(k) = {}
  <2>1. Cached(k) = {} /\ WithoutKey(k) = order
    BY <1>4 DEF Cached, WithoutKey
  <2> QED BY <1>1, <1>2, <1>3, <2>1 DEF Lists
<1>5. CASE CachedAt(k) # {}
  <2> DEFINE i == CHOOSE i \in CachedAt(k) : TRUE
  <2>1. i \in DOMAIN order /\ KeyOf(order[i]) = k /\ WithoutKey(k) = Removed(order, i)
    BY <1>5 DEF CachedAt, WithoutKey
  <2> HIDE DEF i
  <2>2. order[i] \in Range(order)
    BY <2>1 DEF Range
  <2>3. Cached(k) = {order[i]}
    BY <1>3, <2>1, <2>2 DEF Lists
  <2>4. /\ Removed(order, i) \in Seq(DOMAIN session)
        /\ Len(Removed(order, i)) = Len(order) - 1
        /\ Once(Removed(order, i))
        /\ Range(Removed(order, i)) = Range(order) \ {order[i]}
    BY <1>1, <2>1, RemoveOnce DEF Lists
  <2>5. Len(WithoutKey(k)) < Len(order)
    BY <1>2, <2>1, <2>4
  <2> QED BY <1>2, <1>3, <2>1, <2>2, <2>3, <2>4, <2>5
<1> QED BY <1>4, <1>5
-----------------------------------------------------------------------------
\* An entry never changes its key, nor a session its entry.
Kept ==
    /\ \A e \in DOMAIN entry : e \in DOMAIN entry' /\ entry'[e].key = entry[e].key
    /\ \A s \in DOMAIN session : s \in DOMAIN session' /\ session'[s].entry = session[s].entry

\* A step of one caller leaves the others where they are.
Others(c) == \A d \in Callers \ {c} : pc'[d] = pc[d] /\ call'[d] = call[d]

LEMMA OthersCarried ==
    ASSUME Carried, Kept, NEW c, Others(c), CarriedBy(c)'
    PROVE  Carried'
<1> SUFFICES ASSUME NEW d \in Callers, d # c PROVE CarriedBy(d)'
  BY Zenon DEF Carried
<1>1. CarriedBy(d) /\ pc'[d] = pc[d] /\ call'[d] = call[d]
  BY DEF Carried, Others
<1> QED BY <1>1 DEF CarriedBy, Kept

LEMMA KeysKept ==
    ASSUME ReadsTypeOK, Kept, NEW s \in DOMAIN session
    PROVE  KeyOf(s)' = KeyOf(s)
<1>1. session[s].entry \in DOMAIN entry
  BY DEF ReadsTypeOK
<1>2. s \in DOMAIN session' /\ session'[s].entry = session[s].entry
  BY DEF Kept
<1> QED BY <1>1, <1>2 DEF KeyOf, Kept

\* A step that leaves the registry, and what the calls use and tear down of it,
\* as they are.
LEMMA RegistryKept ==
    ASSUME Registered, Condemned, RefsExact, VFSHeld,
           UNCHANGED <<resident, entry, closed>>,
           \A d \in Callers : /\ call'[d].entry = call[d].entry
                              /\ call'[d].doomed = call[d].doomed
                              /\ call'[d].tearing = call[d].tearing
    PROVE  /\ Registered' /\ Condemned' /\ RefsExact' /\ VFSHeld'
           /\ \A k : Covers(k) => Covers(k)'
<1>1. Registered'
  BY DEF Registered
<1>2. Condemned'
  BY DEF Condemned, Takes
<1>3. RefsExact'
  <2>1. \A e : Users(e)' = Users(e)
    BY DEF Users
  <2> QED BY <2>1 DEF RefsExact
<1>4. VFSHeld'
  BY DEF VFSHeld
<1>5. \A k : Covers(k) => Covers(k)'
  BY DEF Covers
<1> QED BY <1>1, <1>2, <1>3, <1>4, <1>5

\* A step that adds nothing to the cache and uncovers no key.
LEMMA CacheKept ==
    ASSUME ReadsTypeOK, Lists, Covered, Kept,
           Once(resident'), Once(order'), Range(order') \subseteq Range(order),
           \A k : Covers(k) => Covers(k)'
    PROVE  Lists' /\ Covered'
<1>1. order \in Seq(DOMAIN session)
  BY DEF ReadsTypeOK
<1>2. Range(order) \subseteq DOMAIN session
  BY <1>1, Indices
<1>3. \A s \in Range(order') : s \in Range(order) /\ KeyOf(s)' = KeyOf(s)
  BY <1>2, KeysKept
<1>4. Lists'
  BY <1>3 DEF Lists
<1>5. Covered'
  <2> SUFFICES ASSUME NEW s \in Range(order') PROVE Covers(KeyOf(s))'
    BY Zenon DEF Covered
  <2>1. Covers(KeyOf(s)) /\ KeyOf(s)' = KeyOf(s)
    BY <1>3 DEF Covered
  <2>2. PICK k : k = KeyOf(s)
    OBVIOUS
  <2>3. Covers(k) /\ KeyOf(s)' = k
    BY <2>1, <2>2 DEF Covers
  <2>4. Covers(k)'
    BY <2>3
  <2> QED BY <2>3, <2>4 DEF Covers
<1> QED BY <1>4, <1>5

\* A step after which every open session is still somewhere.
LEMMA SessionsKept ==
    ASSUME SessionsHeld, DOMAIN session' = DOMAIN session,
           \A s \in DOMAIN session : session'[s].open => session[s].open,
           \A s \in Range(order) : session'[s].open =>
              s \in Range(order') \/ \E d \in Callers : s \in (Using(d) \cup call[d].closing)',
           \A d \in Callers : \A s \in Using(d) \cup call[d].closing : session'[s].open =>
              s \in Range(order') \/ s \in (Using(d) \cup call[d].closing)'
    PROVE  SessionsHeld'
<1> SUFFICES ASSUME NEW s \in DOMAIN session, session'[s].open
             PROVE  s \in Range(order') \/ \E d \in Callers : s \in (Using(d) \cup call[d].closing)'
  BY Zenon DEF SessionsHeld
<1>1. \/ s \in Range(order)
      \/ \E d \in Callers : s \in Using(d) \cup call[d].closing
  BY Zenon DEF SessionsHeld
<1> QED BY <1>1, Zenon
\* A step of the read path or the cache that adds no session to the cache.
LEMMA CacheStep ==
    ASSUME ReadsInv, NEW c \in Callers, Others(c), UNCHANGED <<resident, entry, closed>>,
           call'[c].entry = call[c].entry, call'[c].doomed = call[c].doomed,
           call'[c].tearing = call[c].tearing,
           Kept, ReadsTypeOK', CarriedBy(c)', SessionsHeld',
           Once(order'), Range(order') \subseteq Range(order)
    PROVE  ReadsInv'
<1>1. \A d \in Callers : /\ call'[d].entry = call[d].entry
                         /\ call'[d].doomed = call[d].doomed
                         /\ call'[d].tearing = call[d].tearing
  BY DEF Others
<1>2. /\ Registered' /\ Condemned' /\ RefsExact' /\ VFSHeld'
      /\ \A k : Covers(k) => Covers(k)'
  BY <1>1, RegistryKept DEF ReadsInv
<1>3. Once(resident')
  BY DEF ReadsInv, Lists
<1>4. Lists' /\ Covered'
  BY <1>2, <1>3, CacheKept DEF ReadsInv
<1>5. Carried'
  BY OthersCarried DEF ReadsInv
<1> QED BY Zenon, <1>2, <1>4, <1>5 DEF ReadsInv

\* A step that changes neither the cache nor the registry.
LEMMA QuietStep ==
    ASSUME ReadsInv, NEW c \in Callers, Others(c),
           UNCHANGED <<resident, entry, closed, order, session>>,
           call'[c].entry = call[c].entry, call'[c].doomed = call[c].doomed,
           call'[c].tearing = call[c].tearing, call'[c].closing = call[c].closing,
           pc[c] \notin {"fresh", "put"}, ReadsTypeOK', CarriedBy(c)'
    PROVE  ReadsInv'
<1>1. Kept
  BY DEF Kept
<1>2. Once(order') /\ Range(order') = Range(order)
  BY DEF ReadsInv, Lists
<1>3. \A d \in Callers : Using(d) \cup call[d].closing \subseteq (Using(d) \cup call[d].closing)'
  BY DEF Using, Others
<1>4. SessionsHeld'
  BY <1>2, <1>3 DEF ReadsInv, SessionsHeld
<1> QED BY <1>1, <1>2, <1>4, CacheStep

LEMMA StartKeeps ==
    ASSUME ReadsInv, NEW c \in Callers, NEW k \in Keys,
           Start(c, "read", k) \/ Start(c, "write", k)
    PROVE  ReadsInv'
<1>1. PICK kind \in {"read", "write"} : Start(c, kind, k)
  OBVIOUS
<1>2. ReadsTypeOK /\ CarriedBy(c)
  BY DEF ReadsInv, Carried
<1>3. NewCall(kind, k) \in Call
  BY <1>1, <1>2 DEF NewCall, Call, Kind, ReadsTypeOK
<1>4. /\ call' = [call EXCEPT ![c] = NewCall(kind, k)]
      /\ pc' = [pc EXCEPT ![c] = "enter"] /\ pc[c] = "idle"
      /\ calls < MaxCalls /\ calls' = calls + 1
      /\ UNCHANGED <<resident, entry, closed, order, session, head, acked>>
  BY <1>1 DEF Start, Goto, registryVars, cacheVars
<1>5. Others(c) /\ call'[c] = NewCall(kind, k) /\ pc'[c] = "enter"
  BY Zenon, <1>2, <1>4 DEF Others, ReadsTypeOK
<1>6. call'[c].entry = 0 /\ call'[c].doomed = {} /\ call'[c].tearing = 0 /\ call'[c].closing = {}
  BY <1>5 DEF NewCall
<1>7. call[c].entry = 0 /\ call[c].doomed = {} /\ call[c].tearing = 0 /\ call[c].closing = {}
  BY <1>2, <1>4 DEF CarriedBy, Outside, Settled
<1>8. ReadsTypeOK'
  <2>1. call' \in [Callers -> Call] /\ pc' \in [Callers -> PC] /\ calls' \in 0..MaxCalls
    BY <1>2, <1>3, <1>4, CallersAssumption DEF ReadsTypeOK, PC
  <2>2. \A d \in Callers : call'[d].closing \subseteq DOMAIN session'
    BY <1>2, <1>4, <1>5, <1>6 DEF ReadsTypeOK, Others
  <2> QED BY Zenon, <1>2, <1>4, <2>1, <2>2 DEF ReadsTypeOK
<1>9. CarriedBy(c)'
  BY Zenon, <1>5, <1>6 DEF CarriedBy, Outside
<1> QED BY Zenon, <1>4, <1>5, <1>6, <1>7, <1>8, <1>9, QuietStep

\* The calls that move on without touching the cache or the registry.
LEMMA PassesKeeps ==
    ASSUME ReadsInv, NEW c \in Callers,
           EnterFails(c) \/ ReadManifest(c) \/ ReadEndsEarly(c) \/ Commit(c) \/ Return(c)
    PROVE  ReadsInv'
<1>1. ReadsTypeOK /\ CarriedBy(c)
  BY DEF ReadsInv, Carried
<1>2. /\ UNCHANGED <<resident, entry, closed, order, session, calls>>
      /\ pc[c] \in {"enter", "manifest", "open", "commit", "return"}
      /\ \E l \in PC : pc' = [pc EXCEPT ![c] = l]
  BY DEF EnterFails, ReadManifest, ReadEndsEarly, Commit, Return, Goto, registryVars, cacheVars, PC
<1>3. \E v \in Nat : call' = [call EXCEPT ![c].version = v]
  <2>1. call[c].version \in Nat /\ call = [call EXCEPT ![c].version = call[c].version]
    BY <1>1 DEF ReadsTypeOK, Call
  <2>2. head[call[c].key] \in Nat
    BY <1>1 DEF ReadsTypeOK, Call
  <2>3. \/ UNCHANGED call
        \/ call' = [call EXCEPT ![c].version = head[call[c].key]]
        \/ call' = [call EXCEPT ![c].version = head[call[c].key] + 1]
    BY DEF EnterFails, ReadManifest, ReadEndsEarly, Commit, Return
  <2> QED BY <2>1, <2>2, <2>3
<1>4. /\ Others(c) /\ call' \in [Callers -> Call]
      /\ \A d \in Callers : /\ call'[d].entry = call[d].entry /\ call'[d].doomed = call[d].doomed
                            /\ call'[d].tearing = call[d].tearing
                            /\ call'[d].closing = call[d].closing
                            /\ call'[d].key = call[d].key
  <2>1. PICK v \in Nat : call' = [call EXCEPT ![c].version = v]
    BY Zenon, <1>3
  <2>2. call \in [Callers -> Call] /\ pc \in [Callers -> PC]
    BY <1>1 DEF ReadsTypeOK
  <2>3. call' \in [Callers -> Call]
    BY <2>1, <2>2 DEF Call
  <2>4. Others(c)
    BY <1>2, <2>1, <2>2 DEF Others
  <2>5. /\ call'[c].entry = call[c].entry /\ call'[c].doomed = call[c].doomed
        /\ call'[c].tearing = call[c].tearing
        /\ call'[c].closing = call[c].closing
        /\ call'[c].key = call[c].key
    BY <2>1, <2>2 DEF Call
  <2> QED BY <2>3, <2>4, <2>5 DEF Others
<1>5. head' \in [Keys -> Nat] /\ acked' \in [Keys -> Nat]
  <2>1. call[c].key \in Keys /\ call[c].version \in Nat
    BY Zenon, <1>1 DEF ReadsTypeOK, Call
  <2>2. head' \in [Keys -> Nat]
    <3>1. UNCHANGED head \/ head' = [head EXCEPT ![call[c].key] = @ + 1]
      BY DEF EnterFails, ReadManifest, ReadEndsEarly, Commit, Return
    <3>2. head \in [Keys -> Nat]
      BY <1>1 DEF ReadsTypeOK
    <3> QED BY <2>1, <3>1, <3>2
  <2>3. acked' \in [Keys -> Nat]
    BY Zenon, <1>1, <2>1 DEF EnterFails, ReadManifest, ReadEndsEarly, Commit, Return, ReadsTypeOK, Greater
  <2> QED BY Zenon, <2>2, <2>3
<1>6. ReadsTypeOK'
  <2>1. pc' \in [Callers -> PC]
    BY <1>1, <1>2 DEF ReadsTypeOK
  <2> QED BY Zenon, <1>1, <1>2, <1>4, <1>5, <2>1 DEF ReadsTypeOK
<1>7. CarriedBy(c)'
  <2>1. CASE EnterFails(c)
    <3>1. pc[c] = "enter" /\ pc'[c] = "return"
      BY Zenon, <1>1, <2>1 DEF EnterFails, Goto, ReadsTypeOK
    <3> QED BY <1>1, <1>2, <1>4, <3>1 DEF CarriedBy, Outside, Settled
  <2>2. CASE ReadManifest(c)
    <3>1. pc[c] = "manifest" /\ pc'[c] = "open" /\ Ready(c)
      BY Zenon, <1>1, <2>2 DEF ReadManifest, Goto, ReadsTypeOK
    <3> QED BY <1>1, <1>2, <1>4, <3>1 DEF CarriedBy, Outside, Settled, Ready
  <2>3. CASE ReadEndsEarly(c)
    <3>1. pc[c] \in {"manifest", "open"} /\ pc'[c] = "release"
      BY Zenon, <1>1, <2>3 DEF ReadEndsEarly, Goto, ReadsTypeOK
    <3> QED BY Zenon, <1>1, <1>2, <1>4, <3>1 DEF CarriedBy, Outside, Settled
  <2>4. CASE Commit(c)
    <3>1. pc[c] = "commit" /\ pc'[c] \in {"evict", "release"} /\ Ready(c)
      BY Zenon, <1>1, <2>4 DEF Commit, Goto, ReadsTypeOK
    <3> QED BY Zenon, <1>1, <1>2, <1>4, <3>1 DEF CarriedBy, Outside, Settled, Ready
  <2>5. CASE Return(c)
    <3>1. pc[c] = "return" /\ pc'[c] = "idle" /\ Ready(c)
      BY <1>1, <2>5 DEF Return, Goto, ReadsTypeOK
    <3> QED BY Zenon, <1>1, <1>2, <1>4, <3>1 DEF CarriedBy, Outside, Settled, Ready
  <2> QED BY <2>1, <2>2, <2>3, <2>4, <2>5
<1> QED BY <1>2, <1>4, <1>6, <1>7, QuietStep
-----------------------------------------------------------------------------
\* One session changes: it is closed, or its mutex is taken or given back.
LEMMA SessionUpdate ==
    ASSUME ReadsTypeOK, NEW s \in DOMAIN session, NEW x \in Session,
           x.entry = session[s].entry, session' = [session EXCEPT ![s] = x], UNCHANGED entry
    PROVE  /\ session' \in Seq(Session) /\ DOMAIN session' = DOMAIN session
           /\ session'[s] = x
           /\ \A t \in DOMAIN session \ {s} : session'[t] = session[t]
           /\ \A t \in DOMAIN session' : session'[t].entry \in DOMAIN entry'
           /\ Kept
<1>1. session \in Seq(Session)
  BY DEF ReadsTypeOK
<1>2. /\ session' \in Seq(Session) /\ DOMAIN session' = DOMAIN session
      /\ session'[s] = x
      /\ \A t \in DOMAIN session \ {s} : session'[t] = session[t]
  BY <1>1, SeqUpdate
<1>3. \A t \in DOMAIN session : session'[t].entry = session[t].entry
  BY <1>2
<1> QED BY <1>2, <1>3 DEF Kept, ReadsTypeOK

LEMMA CloseSessionKeeps ==
    ASSUME ReadsInv, NEW c \in Callers, CloseSession(c)
    PROVE  ReadsInv'
<1>1. ReadsTypeOK /\ CarriedBy(c) /\ SessionsHeld /\ Lists
  BY DEF ReadsInv, Carried
<1>2. PICK s \in call[c].closing :
        /\ session' = [session EXCEPT ![s].open = FALSE]
        /\ call' = [call EXCEPT ![c].closing = @ \ {s}]
        /\ UNCHANGED <<resident, entry, closed, order, head, acked, pc, calls>>
  BY Zenon DEF CloseSession, registryVars
<1> DEFINE x == [session[s] EXCEPT !.open = FALSE]
<1>3. s \in DOMAIN session /\ session[s] \in Session
  BY <1>1, Indices DEF ReadsTypeOK
<1>4. x \in Session /\ x.entry = session[s].entry /\ ~x.open
  BY Zenon, <1>3 DEF Session
<1>5. session' = [session EXCEPT ![s] = x]
  BY <1>2
<1> HIDE DEF x
<1>6. /\ session' \in Seq(Session) /\ DOMAIN session' = DOMAIN session
      /\ session'[s] = x
      /\ \A t \in DOMAIN session \ {s} : session'[t] = session[t]
      /\ \A t \in DOMAIN session' : session'[t].entry \in DOMAIN entry'
      /\ Kept
  BY Zenon, <1>1, <1>2, <1>3, <1>4, <1>5, SessionUpdate
<1>7. /\ call' \in [Callers -> Call] /\ Others(c)
      /\ call'[c].entry = call[c].entry /\ call'[c].doomed = call[c].doomed
      /\ call'[c].tearing = call[c].tearing /\ call'[c].closing = call[c].closing \ {s}
      /\ call'[c].session = call[c].session /\ call'[c].key = call[c].key
  <2>1. call \in [Callers -> Call]
    BY <1>1 DEF ReadsTypeOK
  <2>2. call' \in [Callers -> Call]
    BY <1>2, <2>1 DEF Call
  <2>3. Others(c)
    BY <1>2, <2>1 DEF Others
  <2> QED BY Zenon, <1>2, <2>1, <2>2, <2>3 DEF Call
<1>8. ReadsTypeOK'
  <2>1. \A d \in Callers : call'[d].closing \subseteq DOMAIN session'
    BY Zenon, <1>1, <1>6, <1>7 DEF ReadsTypeOK, Others
  <2> QED BY Zenon, <1>1, <1>2, <1>6, <1>7, <2>1 DEF ReadsTypeOK
<1>9. CarriedBy(c)'
  BY <1>1, <1>2, <1>6, <1>7 DEF CarriedBy, Kept
<1>10. SessionsHeld'
  <2>1. \A t \in DOMAIN session : session'[t].open => session[t].open /\ t # s
    BY <1>4, <1>6
  <2>2. Range(order') = Range(order)
    BY <1>2
  <2>3. ASSUME NEW d \in Callers, NEW t \in (Using(d) \cup call[d].closing) \ {s}
        PROVE  t \in (Using(d) \cup call[d].closing)'
    <3>1. CASE d = c
      BY <1>2, <1>7, <2>3, <3>1 DEF Using
    <3>2. CASE d # c
      BY <1>2, <1>7, <2>3, <3>2 DEF Using, Others
    <3> QED BY <3>1, <3>2
  <2>4. ASSUME NEW t \in DOMAIN session, session'[t].open
        PROVE  t \in Range(order') \/ \E d \in Callers : t \in (Using(d) \cup call[d].closing)'
    <3>1. t # s /\ (t \in Range(order) \/ \E d \in Callers : t \in Using(d) \cup call[d].closing)
      BY <1>1, <2>1, <2>4 DEF SessionsHeld
    <3> QED BY <2>2, <2>3, <3>1
  <2> QED BY <1>6, <2>4 DEF SessionsHeld
<1>11. Once(order') /\ Range(order') \subseteq Range(order)
  BY Zenon, <1>1, <1>2 DEF Lists
<1> QED BY Zenon, <1>2, <1>6, <1>7, <1>8, <1>9, <1>10, <1>11, CacheStep

\* A callback takes the mutex of its session, or gives it back.
LEMMA CallbackKeeps ==
    ASSUME ReadsInv, NEW c \in Callers, RunHit(c) \/ RunEnds(c) \/ FreshEnds(c)
    PROVE  ReadsInv'
<1>1. ReadsTypeOK /\ CarriedBy(c) /\ SessionsHeld /\ Lists
  BY Zenon DEF ReadsInv, Carried
<1> DEFINE s == call[c].session
<1>2. s \in DOMAIN session /\ pc[c] \in {"hit", "running", "fresh"}
  BY <1>1 DEF RunHit, RunEnds, FreshEnds, CarriedBy
<1>3. session[s] \in Session /\ call \in [Callers -> Call] /\ pc \in [Callers -> PC]
  BY <1>1, <1>2, Indices DEF ReadsTypeOK
<1>4. PICK u \in Callers \cup {Nobody} : session' = [session EXCEPT ![s] = [session[s] EXCEPT !.user = u]]
  <2>1. session[s].user \in Callers \cup {Nobody} /\ session[s] = [session[s] EXCEPT !.user = session[s].user]
    BY <1>3 DEF Session
  <2>2. session = [session EXCEPT ![s] = [session[s] EXCEPT !.user = session[s].user]]
    <3>1. session = [session EXCEPT ![s] = session[s]]
      BY <1>1 DEF ReadsTypeOK
    <3> QED BY <2>1, <3>1
  <2>3. \/ UNCHANGED session
        \/ \E u \in {c, Nobody} : session' = [session EXCEPT ![s].user = u]
    BY DEF RunHit, RunEnds, FreshEnds
  <2> QED BY Zenon, <2>1, <2>2, <2>3
<1> DEFINE x == [session[s] EXCEPT !.user = u]
<1>5. x \in Session /\ x.entry = session[s].entry /\ x.open = session[s].open
  BY <1>3 DEF Session
<1>6. UNCHANGED <<resident, entry, closed, order, head, acked, calls>>
  BY DEF RunHit, RunEnds, FreshEnds, registryVars
<1> HIDE DEF x
<1>7. /\ session' \in Seq(Session) /\ DOMAIN session' = DOMAIN session
      /\ session'[s] = x
      /\ \A t \in DOMAIN session \ {s} : session'[t] = session[t]
      /\ \A t \in DOMAIN session' : session'[t].entry \in DOMAIN entry'
      /\ Kept
  <2>1. session' = [session EXCEPT ![s] = x]
    BY Zenon, <1>4 DEF x
  <2> HIDE DEF s
  <2> QED BY Zenon, <1>1, <1>2, <1>5, <1>6, <2>1, SessionUpdate
<1> HIDE DEF s
<1>8. \/ /\ UNCHANGED call
         /\ \E l \in PC : pc' = [pc EXCEPT ![c] = l]
         /\ \/ pc[c] = "hit" /\ pc'[c] \in {"running", "drop"}
            \/ pc[c] = "running" /\ pc'[c] \in {"release", "evict"}
            \/ pc[c] = "fresh" /\ pc'[c] = "put"
      \/ /\ pc[c] = "fresh" /\ pc' = [pc EXCEPT ![c] = "release"]
         /\ call' = [call EXCEPT ![c].closing = {s}]
  BY <1>3 DEF RunHit, RunEnds, FreshEnds, Goto, PC, s
<1>9. pc'[c] \in PC /\ Others(c) /\ pc' \in [Callers -> PC]
  BY <1>3, <1>8 DEF Others, PC
<1>10. /\ call' \in [Callers -> Call]
       /\ call'[c].entry = call[c].entry /\ call'[c].doomed = call[c].doomed
       /\ call'[c].tearing = call[c].tearing
       /\ call'[c].closing = call[c].closing \/ (pc[c] = "fresh" /\ call'[c].closing = {s})
       /\ call'[c].session = call[c].session /\ call'[c].key = call[c].key
  <2>1. s \in Nat
    BY Zenon, <1>1, <1>2, Indices DEF ReadsTypeOK
  <2>2. CASE UNCHANGED call
    BY <1>3, <2>2
  <2>3. CASE pc[c] = "fresh" /\ call' = [call EXCEPT ![c].closing = {s}]
    BY Zenon, <1>3, <2>1, <2>3 DEF Call
  <2> QED BY <1>8, <2>2, <2>3
<1>11. ReadsTypeOK'
  <2>1. \A d \in Callers : call'[d].closing \subseteq DOMAIN session'
    BY ZenonT(30), <1>1, <1>2, <1>7, <1>9, <1>10 DEF ReadsTypeOK, Others
  <2> QED BY Zenon, <1>1, <1>6, <1>7, <1>9, <1>10, <2>1 DEF ReadsTypeOK
<1>12. CarriedBy(c)'
  <2>1. \/ pc[c] = "hit" /\ pc'[c] \in {"running", "drop"}
        \/ pc[c] = "running" /\ pc'[c] \in {"release", "evict"}
        \/ pc[c] = "fresh" /\ pc'[c] \in {"put", "release"}
    BY <1>3, <1>8
  <2>2. pc[c] # "fresh" => call'[c].closing = call[c].closing
    BY Zenon, <1>10
  <2>3. call[c].entry \in DOMAIN entry /\ entry[call[c].entry].key = call[c].key
    BY Zenon, <1>1, <2>1 DEF CarriedBy, Outside
  <2>4. pc[c] = "fresh" => session[s].entry = call[c].entry
    BY <1>1 DEF CarriedBy, s
  <2>5. pc'[c] \notin Outside /\ (pc'[c] \in Settled => pc[c] # "fresh")
    BY Zenon, <2>1 DEF Outside, Settled
  <2>6. pc[c] # "fresh" => call[c].closing = {} /\ call[c].tearing = 0 /\ call[c].doomed = {}
    BY <1>1, <2>1 DEF CarriedBy, Settled
  <2> QED BY Zenon, <1>2, <1>5, <1>6, <1>7, <1>10, <2>1, <2>2, <2>3, <2>4, <2>5, <2>6 DEF CarriedBy, s
<1>13. SessionsHeld'
  <2>1. \A t \in DOMAIN session : session'[t].open => session[t].open
    BY <1>5, <1>7
  <2>2. Range(order') = Range(order)
    BY Zenon, <1>6
  <2>3. \A d \in Callers : Using(d) \cup call[d].closing \subseteq (Using(d) \cup call[d].closing)'
    <3>1. call[c].closing = {}
      BY Zenon, <1>1, <1>2 DEF CarriedBy, Settled
    <3>2. Using(c) \subseteq (Using(c) \cup call[c].closing)'
      <4>1. CASE pc[c] # "fresh"
        BY Zenon, <1>8, <4>1 DEF Using
      <4>2. CASE pc[c] = "fresh" /\ pc'[c] = "put"
        BY Zenon, <1>10, <4>2 DEF Using
      <4>3. CASE pc[c] = "fresh" /\ pc'[c] # "put"
        <5>1. call' = [call EXCEPT ![c].closing = {s}]
          BY <1>8, <4>3
        <5>2. call'[c].closing = {s}
          BY <1>3, <5>1 DEF Call
        <5> QED BY <4>3, <5>2 DEF Using, s
      <4> QED BY <4>1, <4>2, <4>3
    <3> QED BY Zenon, <1>9, <3>1, <3>2 DEF Others, Using
  <2> QED BY Zenon, <1>1, <1>7, <2>1, <2>2, <2>3, SessionsKept
<1>14. Once(order') /\ Range(order') \subseteq Range(order)
  BY <1>1, <1>6 DEF Lists
<1> QED BY Zenon, <1>6, <1>7, <1>9, <1>10, <1>11, <1>12, <1>13, <1>14, CacheStep
LEMMA OpenReadKeeps ==
    ASSUME ReadsInv, NEW c \in Callers, OpenRead(c)
    PROVE  ReadsInv'
<1>1. ReadsTypeOK /\ CarriedBy(c) /\ SessionsHeld /\ Lists
  BY DEF ReadsInv, Carried
<1> DEFINE n == Len(session) + 1
           x == [entry |-> call[c].entry, version |-> call[c].version, open |-> TRUE, user |-> c]
<1>2. /\ pc[c] = "open" /\ session' = Append(session, x)
      /\ call' = [call EXCEPT ![c].session = n] /\ pc' = [pc EXCEPT ![c] = "fresh"]
      /\ UNCHANGED <<resident, entry, closed, order, head, acked, calls>>
  BY DEF OpenRead, Goto, registryVars
<1>3. call \in [Callers -> Call] /\ pc \in [Callers -> PC] /\ session \in Seq(Session)
  BY <1>1 DEF ReadsTypeOK
<1>4. /\ call[c].entry \in DOMAIN entry /\ entry[call[c].entry].key = call[c].key
      /\ call[c].closing = {} /\ call[c].tearing = 0 /\ call[c].doomed = {}
  BY <1>1, <1>2 DEF CarriedBy, Outside, Settled
<1>5. x \in Session /\ x.entry = call[c].entry
  BY <1>3 DEF Session, Call
<1> HIDE DEF x
<1>6. /\ session' \in Seq(Session)
      /\ n \notin DOMAIN session /\ n \in Nat \ {0}
      /\ DOMAIN session' = DOMAIN session \cup {n}
      /\ session'[n] = x
      /\ \A t \in DOMAIN session : session'[t] = session[t]
  BY <1>2, <1>3, <1>5, SeqGrow
<1> HIDE DEF n
<1>7. Kept
  BY <1>2, <1>6 DEF Kept
<1>8. /\ call' \in [Callers -> Call] /\ pc' \in [Callers -> PC] /\ pc'[c] = "fresh"
      /\ call'[c].entry = call[c].entry /\ call'[c].doomed = call[c].doomed
      /\ call'[c].tearing = call[c].tearing /\ call'[c].closing = call[c].closing
      /\ call'[c].session = n /\ call'[c].key = call[c].key
  BY ZenonT(30), <1>2, <1>3, <1>6 DEF Call, PC
<1>9. Others(c)
  BY <1>2, <1>3 DEF Others
<1>10. ReadsTypeOK'
  <2>1. \A d \in Callers : call'[d].closing \subseteq DOMAIN session'
    BY Zenon, <1>1, <1>6, <1>8, <1>9 DEF ReadsTypeOK, Others
  <2>2. \A t \in DOMAIN session' : session'[t].entry \in DOMAIN entry'
    BY <1>1, <1>2, <1>4, <1>5, <1>6 DEF ReadsTypeOK
  <2>3. order' \in Seq(DOMAIN session') /\ Len(order') <= Limit
    BY <1>1, <1>2, <1>6, SeqMonotonic DEF ReadsTypeOK
  <2> QED BY Zenon, <1>1, <1>2, <1>6, <1>8, <2>1, <2>2, <2>3 DEF ReadsTypeOK
<1>11. CarriedBy(c)'
  BY <1>2, <1>4, <1>5, <1>6, <1>8 DEF CarriedBy, Outside, Settled
<1>12. SessionsHeld'
  <2>1. \A d \in Callers : Using(d) \cup call[d].closing \subseteq (Using(d) \cup call[d].closing)'
    BY <1>2, <1>4, <1>9 DEF Others, Using
  <2>2. n \in Using(c)'
    BY <1>8 DEF Using
  <2>3. ASSUME NEW t \in DOMAIN session', session'[t].open
        PROVE  t \in Range(order') \/ \E d \in Callers : t \in (Using(d) \cup call[d].closing)'
    <3>1. CASE t = n
      BY <2>2, <3>1
    <3>2. CASE t \in DOMAIN session
      <4>1. t \in Range(order) \/ \E d \in Callers : t \in Using(d) \cup call[d].closing
        BY <1>1, <1>6, <2>3, <3>2 DEF SessionsHeld
      <4> QED BY Zenon, <1>2, <2>1, <4>1
    <3> QED BY <1>6, <3>1, <3>2
  <2> QED BY <2>3 DEF SessionsHeld
<1>13. Once(order') /\ Range(order') \subseteq Range(order)
  BY <1>1, <1>2 DEF Lists
<1> QED BY Zenon, <1>2, <1>7, <1>8, <1>9, <1>10, <1>11, <1>12, <1>13, CacheStep

\* A call takes sessions out of the cache, or moves one to the front, and
\* closes those it took afterwards.
LEMMA TakesSessions ==
    ASSUME ReadsInv, NEW c \in Callers, NEW x \in Call, NEW l \in PC,
           pc' = [pc EXCEPT ![c] = l], call' = [call EXCEPT ![c] = x],
           x.entry = call[c].entry, x.doomed = call[c].doomed, x.tearing = call[c].tearing,
           call[c].closing = {},
           pc[c] \notin {"fresh", "put"} \/ (l = pc[c] /\ x.session = call[c].session),
           UNCHANGED <<resident, entry, closed, session, head, acked, calls>>,
           order' \in Seq(DOMAIN session), Len(order') <= Len(order), Once(order'),
           Range(order') \subseteq Range(order), Range(order) \ Range(order') = x.closing,
           CarriedBy(c)'
    PROVE  ReadsInv'
<1>1. ReadsTypeOK /\ SessionsHeld
  BY DEF ReadsInv
<1>2. /\ call \in [Callers -> Call] /\ pc \in [Callers -> PC]
      /\ order \in Seq(DOMAIN session) /\ Len(order) <= Limit
  BY <1>1 DEF ReadsTypeOK
<1>3. /\ Others(c) /\ call'[c] = x /\ pc'[c] = l
      /\ call' \in [Callers -> Call] /\ pc' \in [Callers -> PC]
  BY <1>2 DEF Others
<1>4. Range(order) \subseteq DOMAIN session /\ Len(order) \in Nat /\ Len(order') \in Nat
  BY Zenon, <1>2, Indices
<1>5. Kept
  BY Zenon DEF Kept
<1>6. ReadsTypeOK'
  <2>1. \A d \in Callers : call'[d].closing \subseteq DOMAIN session'
    BY Zenon, <1>1, <1>3, <1>4 DEF ReadsTypeOK, Others
  <2>2. Len(order') <= Limit
    BY <1>2, <1>4, LimitAssumption
  <2> QED BY Zenon, <1>1, <1>3, <2>1, <2>2 DEF ReadsTypeOK
<1>7. SessionsHeld'
  <2>1. \A d \in Callers : Using(d) \cup call[d].closing \subseteq (Using(d) \cup call[d].closing)'
    <3>1. Using(c) \subseteq Using(c)'
      BY Zenon, <1>3 DEF Using
    <3> QED BY Zenon, <1>3, <3>1 DEF Others, Using
  <2>2. \A s \in Range(order) : s \in Range(order') \/ s \in call'[c].closing
    BY <1>3
  <2> QED BY Zenon, <1>1, <2>1, <2>2, SessionsKept
<1> QED BY Zenon, <1>3, <1>5, <1>6, <1>7, CacheStep

LEMMA GetKeeps ==
    ASSUME ReadsInv, NEW c \in Callers, Get(c)
    PROVE  ReadsInv'
<1>1. ReadsTypeOK /\ CarriedBy(c) /\ Lists
  BY DEF ReadsInv, Carried
<1>2. /\ pc[c] = "get" /\ Ready(c)
      /\ UNCHANGED <<resident, entry, closed, session, head, acked, calls>>
  BY Zenon DEF Get, registryVars
<1>3. /\ call \in [Callers -> Call] /\ pc \in [Callers -> PC] /\ call[c] \in Call
      /\ order \in Seq(DOMAIN session) /\ Once(order)
  BY Zenon, <1>1 DEF ReadsTypeOK, Lists
<1>4. /\ call[c].entry \in DOMAIN entry /\ entry[call[c].entry].key = call[c].key
      /\ call[c].closing = {} /\ call[c].tearing = 0 /\ call[c].doomed = {}
  BY <1>1, <1>2 DEF CarriedBy, Outside, Ready
<1>5. "manifest" \in PC /\ "hit" \in PC /\ Len(order) \in Nat /\ Range(order) \subseteq DOMAIN session
  BY <1>3, Indices DEF PC
<1>6. CASE UNCHANGED <<order, call>> /\ Goto(c, "manifest")
  <2>1. pc' = [pc EXCEPT ![c] = "manifest"] /\ call' = [call EXCEPT ![c] = call[c]] /\ pc'[c] = "manifest"
    BY Zenon, <1>3, <1>6 DEF Goto
  <2>2. CarriedBy(c)'
    BY <1>2, <1>4, <1>6, <2>1 DEF CarriedBy, Outside, Settled
  <2>3. order' = order
    BY <1>6
  <2>4. Range(order') = Range(order) /\ Len(order') <= Len(order)
    BY <1>5, <2>3
  <2> QED BY Zenon, <1>2, <1>3, <1>4, <1>5, <2>1, <2>2, <2>3, <2>4, TakesSessions
<1>7. ASSUME NEW i \in CachedAt(call[c].key), order' = ToFront(order, i),
             call' = [call EXCEPT ![c].session = order[i]], Goto(c, "hit")
      PROVE  ReadsInv'
  <2> DEFINE x == [call[c] EXCEPT !.session = order[i]]
  <2>1. i \in DOMAIN order /\ order[i] \in Range(order)
    BY Zenon DEF CachedAt, Range
  <2>2. order[i] \in DOMAIN session /\ order[i] \in Nat
    BY <1>1, <1>5, <2>1, Indices DEF ReadsTypeOK
  <2>3. /\ x \in Call /\ x.session = order[i] /\ x.entry = call[c].entry /\ x.key = call[c].key
        /\ x.doomed = call[c].doomed /\ x.tearing = call[c].tearing /\ x.closing = {}
    BY Zenon, <1>3, <1>4, <2>2 DEF Call
  <2>4. pc' = [pc EXCEPT ![c] = "hit"] /\ call' = [call EXCEPT ![c] = x]
    BY <1>7 DEF Goto
  <2> HIDE DEF x
  <2>5. pc'[c] = "hit" /\ call'[c] = x
    BY Zenon, <1>3, <2>4
  <2>6. CarriedBy(c)'
    BY <1>2, <1>4, <2>2, <2>3, <2>5 DEF CarriedBy, Outside, Settled
  <2>7. /\ order' \in Seq(DOMAIN session) /\ Len(order') = Len(order)
        /\ Once(order') /\ Range(order') = Range(order)
    BY <1>3, <1>7, <2>1, ToFrontOnce
  <2>8. Len(order') <= Len(order)
    BY <1>5, <2>7
  <2>9. Range(order) \ Range(order') = x.closing /\ Range(order') \subseteq Range(order)
    BY Zenon, <2>3, <2>7
  <2>10. pc[c] \notin {"fresh", "put"}
    BY <1>2
  <2> QED BY Zenon, <1>2, <1>4, <1>5, <2>3, <2>4, <2>6, <2>7, <2>8, <2>9, <2>10, TakesSessions
<1>8. ASSUME NEW i \in CachedAt(call[c].key), order' = Removed(order, i),
             call' = [call EXCEPT ![c].closing = {order[i]}], Goto(c, "manifest")
      PROVE  ReadsInv'
  <2> DEFINE x == [call[c] EXCEPT !.closing = {order[i]}]
  <2>1. i \in DOMAIN order /\ order[i] \in Range(order)
    BY DEF CachedAt, Range
  <2>2. order[i] \in Nat
    BY <1>1, <1>5, <2>1, Indices DEF ReadsTypeOK
  <2>3. /\ x \in Call /\ x.entry = call[c].entry /\ x.key = call[c].key
        /\ x.doomed = call[c].doomed /\ x.tearing = call[c].tearing /\ x.closing = {order[i]}
    BY Zenon, <1>3, <2>2 DEF Call
  <2>4. pc' = [pc EXCEPT ![c] = "manifest"] /\ call' = [call EXCEPT ![c] = x]
    BY <1>8 DEF Goto
  <2> HIDE DEF x
  <2>5. pc'[c] = "manifest" /\ call'[c] = x
    BY Zenon, <1>3, <2>4
  <2>6. CarriedBy(c)'
    BY <1>2, <1>4, <2>3, <2>5 DEF CarriedBy, Outside, Settled
  <2>7. /\ order' \in Seq(DOMAIN session) /\ Len(order') = Len(order) - 1
        /\ Once(order') /\ Range(order') = Range(order) \ {order[i]}
    BY Zenon, <1>3, <1>8, <2>1, RemoveOnce
  <2>8. Len(order') <= Len(order)
    BY <1>5, <2>7
  <2>9. Range(order) \ Range(order') = x.closing /\ Range(order') \subseteq Range(order)
    BY Zenon, <2>1, <2>3, <2>7
  <2>10. pc[c] \notin {"fresh", "put"}
    BY <1>2
  <2> QED BY Zenon, <1>2, <1>4, <1>5, <2>3, <2>4, <2>6, <2>7, <2>8, <2>9, <2>10, TakesSessions
<1> QED BY <1>6, <1>7, <1>8 DEF Get
LEMMA EvictKeeps ==
    ASSUME ReadsInv, NEW c \in Callers, Evict(c)
    PROVE  ReadsInv'
<1>1. ReadsTypeOK /\ CarriedBy(c) /\ Lists
  BY DEF ReadsInv, Carried
<1> DEFINE k == call[c].key
           x == [call[c] EXCEPT !.closing = Cached(k)]
           l == IF pc[c] = "drop" THEN "manifest" ELSE "release"
<1>2. /\ pc[c] \in {"drop", "evict"} /\ order' = WithoutKey(k)
      /\ call' = [call EXCEPT ![c] = x] /\ pc' = [pc EXCEPT ![c] = l]
      /\ UNCHANGED <<resident, entry, closed, session, head, acked, calls>>
  BY Zenon DEF Evict, Goto, registryVars
<1>3. call \in [Callers -> Call] /\ pc \in [Callers -> PC] /\ call[c] \in Call
  BY Zenon, <1>1 DEF ReadsTypeOK
<1>4. /\ call[c].entry \in DOMAIN entry /\ entry[call[c].entry].key = call[c].key
      /\ call[c].closing = {} /\ call[c].tearing = 0 /\ call[c].doomed = {}
  BY <1>1, <1>2 DEF CarriedBy, Outside, Settled
<1>5. /\ Cached(k) \subseteq DOMAIN session /\ Cached(k) \subseteq Range(order)
      /\ order' \in Seq(DOMAIN session)
      /\ Once(order') /\ Range(order') = Range(order) \ Cached(k)
      /\ Len(order') <= Len(order)
  BY Zenon, <1>1, <1>2, TakeOut
<1>6. Cached(k) \subseteq Nat
  BY <1>1, <1>5, Indices DEF ReadsTypeOK
<1>7. /\ x \in Call /\ x.entry = call[c].entry /\ x.key = call[c].key
      /\ x.doomed = call[c].doomed /\ x.tearing = call[c].tearing /\ x.closing = Cached(k)
  BY <1>3, <1>6 DEF Call
<1>8. l \in PC /\ l \in {"manifest", "release"} /\ pc[c] \notin {"fresh", "put"}
  BY Zenon, <1>2 DEF PC
<1> HIDE DEF x, l, k
<1>9. CarriedBy(c)'
  <2>1. call'[c] = x /\ pc'[c] = l
    BY Zenon, <1>2, <1>3
  <2> QED BY <1>2, <1>4, <1>7, <1>8, <2>1 DEF CarriedBy, Outside, Settled
<1>10. Range(order) \ Range(order') = x.closing /\ Range(order') \subseteq Range(order)
  BY <1>5, <1>7
<1> QED BY Zenon, <1>2, <1>4, <1>5, <1>7, <1>8, <1>9, <1>10, TakesSessions

LEMMA CloseCacheKeeps ==
    ASSUME ReadsInv, NEW c \in Callers, CloseCache(c)
    PROVE  ReadsInv'
<1>1. ReadsTypeOK /\ CarriedBy(c)
  BY DEF ReadsInv, Carried
<1> DEFINE x == [call[c] EXCEPT !.closing = Range(order)]
<1>2. /\ pc[c] = "shut" /\ order' = <<>>
      /\ call' = [call EXCEPT ![c] = x] /\ pc' = [pc EXCEPT ![c] = "return"]
      /\ UNCHANGED <<resident, entry, closed, session, head, acked, calls>>
  BY DEF CloseCache, Goto, registryVars
<1>3. /\ call \in [Callers -> Call] /\ pc \in [Callers -> PC] /\ call[c] \in Call
      /\ order \in Seq(DOMAIN session)
  BY <1>1 DEF ReadsTypeOK
<1>4. call[c].entry = 0 /\ call[c].closing = {}
  BY <1>1, <1>2 DEF CarriedBy, Outside, Settled
<1>5. /\ Range(order') = {} /\ Once(order')
      /\ order' \in Seq(DOMAIN session) /\ Len(order') = 0
  BY <1>2 DEF Range, Once
<1>6. Range(order) \subseteq Nat /\ Len(order) \in Nat
  BY <1>1, <1>3, Indices DEF ReadsTypeOK
<1>7. /\ x \in Call /\ x.entry = call[c].entry
      /\ x.doomed = call[c].doomed /\ x.tearing = call[c].tearing /\ x.closing = Range(order)
  BY Zenon, <1>3, <1>6 DEF Call
<1>8. "return" \in PC /\ pc[c] \notin {"fresh", "put"} /\ Len(order') <= Len(order)
  BY <1>2, <1>5, <1>6 DEF PC
<1> HIDE DEF x
<1>9. CarriedBy(c)'
  <2>1. call'[c] = x /\ pc'[c] = "return"
    BY <1>2, <1>3
  <2> QED BY <1>4, <1>7, <2>1 DEF CarriedBy, Outside, Settled
<1>10. Range(order) \ Range(order') = x.closing /\ Range(order') \subseteq Range(order)
  BY <1>5, <1>7
<1> QED BY Zenon, <1>2, <1>4, <1>5, <1>7, <1>8, <1>9, <1>10, TakesSessions

\* Cache.Put makes room and tries again.
LEMMA PutMakesRoom ==
    ASSUME ReadsInv, NEW c \in Callers, pc[c] = "put", Ready(c), Len(order) = Limit,
           order' = DropBack(order), call' = [call EXCEPT ![c].closing = {Back(order)}], UNCHANGED pc,
           UNCHANGED <<registryVars, session, head, acked, calls>>
    PROVE  ReadsInv'
<1>1. ReadsTypeOK /\ CarriedBy(c) /\ Lists
  BY DEF ReadsInv, Carried
<1> DEFINE x == [call[c] EXCEPT !.closing = {Back(order)}]
<1>2. /\ call \in [Callers -> Call] /\ pc \in [Callers -> PC] /\ call[c] \in Call
      /\ order \in Seq(DOMAIN session) /\ Once(order) /\ Len(order) > 0
  BY <1>1, LimitAssumption DEF ReadsTypeOK, Lists
<1>3. /\ call' = [call EXCEPT ![c] = x] /\ pc' = [pc EXCEPT ![c] = "put"]
      /\ UNCHANGED <<resident, entry, closed, session, head, acked, calls>>
  BY <1>2 DEF registryVars
<1>4. /\ order' \in Seq(DOMAIN session) /\ Len(order') = Len(order) - 1
      /\ Once(order') /\ Range(order') = Range(order) \ {Back(order)}
      /\ Back(order) \in Range(order)
  BY <1>2, DropBackOnce
<1>5. Len(order) \in Nat /\ Range(order) \subseteq Nat
  BY <1>1, <1>2, Indices DEF ReadsTypeOK
<1>6. call[c].closing = {} /\ Len(order') <= Len(order)
  BY <1>4, <1>5 DEF Ready
<1>7. /\ x \in Call /\ x.entry = call[c].entry /\ x.key = call[c].key /\ x.session = call[c].session
      /\ x.doomed = call[c].doomed /\ x.tearing = call[c].tearing /\ x.closing = {Back(order)}
  BY Zenon, <1>2, <1>4, <1>5 DEF Call
<1>8. "put" \in PC /\ "put" = pc[c]
  BY Zenon DEF PC
<1> HIDE DEF x
<1>9. CarriedBy(c)'
  <2>1. call'[c] = x /\ pc'[c] = "put"
    BY <1>2, <1>3
  <2> QED BY <1>1, <1>3, <1>7, <2>1 DEF CarriedBy, Outside, Settled
<1>10. Range(order) \ Range(order') = x.closing /\ Range(order') \subseteq Range(order)
  BY <1>4, <1>7
<1> QED BY Zenon, <1>3, <1>4, <1>6, <1>7, <1>8, <1>9, <1>10, TakesSessions

\* Cache.Put adds the session; the database it belongs to is in use.
LEMMA PutAdds ==
    ASSUME ReadsInv, NEW c \in Callers, pc[c] = "put", Ready(c),
           Cached(call[c].key) # {} \/ Len(order) < Limit,
           order' = <<call[c].session>> \o WithoutKey(call[c].key),
           call' = [call EXCEPT ![c].closing = Cached(call[c].key)], Goto(c, "release"),
           UNCHANGED <<registryVars, session, head, acked, calls>>
    PROVE  ReadsInv'
<1>1. /\ ReadsTypeOK /\ CarriedBy(c) /\ Lists /\ Registered /\ Condemned /\ RefsExact /\ VFSHeld
      /\ SessionsHeld /\ Covered /\ Carried
  BY DEF ReadsInv, Carried
<1> DEFINE k == call[c].key
           s == call[c].session
           w == WithoutKey(k)
<1>2. /\ call \in [Callers -> Call] /\ pc \in [Callers -> PC] /\ call[c] \in Call
      /\ order \in Seq(DOMAIN session) /\ Len(order) <= Limit
  BY <1>1 DEF ReadsTypeOK
<1>3. /\ call' = [call EXCEPT ![c].closing = Cached(k)] /\ pc' = [pc EXCEPT ![c] = "release"]
      /\ order' = <<s>> \o w
      /\ UNCHANGED <<resident, entry, closed, session, head, acked, calls>>
  BY DEF registryVars, Goto
<1>4. /\ Cached(k) = {t \in Range(order) : KeyOf(t) = k}
      /\ Cached(k) \subseteq DOMAIN session
      /\ w \in Seq(DOMAIN session) /\ Once(w) /\ Range(w) = Range(order) \ Cached(k)
      /\ Len(w) <= Len(order) /\ (Cached(k) # {} => Len(w) < Len(order))
  BY Zenon, <1>1, TakeOut
<1>5. /\ s \in DOMAIN session /\ session[s].entry = call[c].entry
      /\ call[c].entry \in DOMAIN entry /\ entry[call[c].entry].key = k
      /\ call[c].closing = {} /\ call[c].tearing = 0 /\ call[c].doomed = {}
  BY <1>1 DEF CarriedBy, Outside, Ready
<1>6. KeyOf(s) = k
  BY <1>5 DEF KeyOf
<1>7. s \notin Range(w) /\ \A t \in Range(w) : t \in Range(order) /\ KeyOf(t) # k
  BY <1>4, <1>6
<1> HIDE DEF w, s
<1>8. /\ order' \in Seq(DOMAIN session) /\ Len(order') = Len(w) + 1
      /\ Once(order') /\ Range(order') = Range(w) \cup {s}
  <2>1. w \in Seq(DOMAIN session) /\ Once(w) /\ s \in DOMAIN session /\ s \notin Range(w)
    BY <1>4, <1>5, <1>7
  <2>2. /\ <<s>> \o w \in Seq(DOMAIN session) /\ Len(<<s>> \o w) = Len(w) + 1
        /\ Once(<<s>> \o w) /\ Range(<<s>> \o w) = Range(w) \cup {s}
    BY <2>1, PushOnce
  <2> QED BY Zenon, <1>3, <2>2
<1>9. Len(order') <= Limit
  <2>1. Len(w) \in Nat /\ Len(order) \in Nat /\ Limit \in Nat
    BY <1>2, <1>4, Indices, LimitAssumption
  <2>2. Cached(k) # {} \/ Len(order) < Limit
    OBVIOUS
  <2> QED BY <1>2, <1>4, <1>8, <2>1, <2>2
<1>10. /\ call' \in [Callers -> Call] /\ pc' \in [Callers -> PC] /\ pc'[c] = "release"
       /\ call'[c].entry = call[c].entry /\ call'[c].doomed = call[c].doomed
       /\ call'[c].tearing = call[c].tearing /\ call'[c].closing = Cached(k)
       /\ call'[c].key = call[c].key
  <2>1. Cached(k) \subseteq Nat
    BY <1>1, <1>4, Indices DEF ReadsTypeOK
  <2>2. pc' \in [Callers -> PC] /\ pc'[c] = "release"
    BY <1>2, <1>3 DEF PC
  <2>3. call' \in [Callers -> Call]
    BY Zenon, <1>2, <1>3, <2>1 DEF Call
  <2> QED BY ZenonT(30), <1>2, <1>3, <2>2, <2>3 DEF Call
<1>11. Others(c)
  BY <1>2, <1>3 DEF Others
<1>12. ReadsTypeOK'
  <2>1. \A d \in Callers : call'[d].closing \subseteq DOMAIN session'
    BY <1>1, <1>3, <1>4, <1>10, <1>11 DEF ReadsTypeOK, Others
  <2> QED BY Zenon, <1>1, <1>3, <1>8, <1>9, <1>10, <2>1 DEF ReadsTypeOK
<1>13. Carried'
  <2>1. Kept
    BY <1>3 DEF Kept
  <2>2. CarriedBy(c)'
    BY Zenon, <1>3, <1>5, <1>10 DEF CarriedBy, Outside, Settled
  <2> QED BY <1>1, <1>11, <2>1, <2>2, OthersCarried
<1>14. Registered' /\ Condemned' /\ RefsExact' /\ VFSHeld' /\ \A h : Covers(h) => Covers(h)'
  <2>1. \A d \in Callers : /\ call'[d].entry = call[d].entry
                           /\ call'[d].doomed = call[d].doomed
                           /\ call'[d].tearing = call[d].tearing
    BY <1>10, <1>11 DEF Others
  <2> QED BY Zenon, <1>1, <1>3, <2>1, RegistryKept
<1>15. \A t : KeyOf(t)' = KeyOf(t)
  BY Zenon, <1>3 DEF KeyOf
<1>16. Lists'
  <2>1. \A t, u \in Range(order') : KeyOf(t) = KeyOf(u) => t = u
    BY Zenon, <1>1, <1>6, <1>7, <1>8 DEF Lists
  <2> QED BY Zenon, <1>1, <1>3, <1>8, <1>15, <2>1 DEF Lists
<1>17. Covered'
  <2>1. Covers(k)
    <3>1. c \in Users(call[c].entry) /\ Users(call[c].entry) \subseteq Callers
      BY DEF Users
    <3>2. entry[call[c].entry].refs = Cardinality(Users(call[c].entry))
      BY <1>1, <1>5 DEF RefsExact
    <3>3. IsFiniteSet(Users(call[c].entry))
      BY Zenon, <3>1, FS_Subset, CallersAssumption
    <3>4. Cardinality(Users(call[c].entry)) \in Nat /\ Cardinality(Users(call[c].entry)) # 0
      BY Zenon, <3>1, <3>3, FS_CardinalityType, FS_EmptySet
    <3>5. entry[call[c].entry].refs > 0
      BY <3>2, <3>4
    <3> QED BY <1>5, <3>5 DEF Covers
  <2>2. \A t \in Range(order') : Covers(KeyOf(t))
    <3>1. \A t \in Range(order') : t = s \/ t \in Range(order)
      BY <1>7, <1>8
    <3>2. Covers(KeyOf(s))
      BY <1>6, <2>1
    <3> QED BY Zenon, <1>1, <3>1, <3>2 DEF Covered
  <2>3. ASSUME NEW t \in Range(order') PROVE Covers(KeyOf(t))'
    <3>1. PICK h : h = KeyOf(t)
      OBVIOUS
    <3>2. Covers(h) /\ KeyOf(t)' = h
      BY <1>15, <2>2, <3>1 DEF Covers
    <3>3. Covers(h)'
      BY Zenon, <1>14, <3>2
    <3> QED BY <3>2, <3>3 DEF Covers
  <2> QED BY <2>3 DEF Covered
<1>18. SessionsHeld'
  <2>1. \A t \in Range(order) : t \in Range(order') \/ t \in call'[c].closing
    BY Zenon, <1>4, <1>8, <1>10
  <2>2. ASSUME NEW d \in Callers, NEW t \in Using(d) \cup call[d].closing
        PROVE  t \in Range(order') \/ t \in (Using(d) \cup call[d].closing)'
    <3>1. CASE d = c
      BY Zenon, <1>5, <1>8, <2>2, <3>1 DEF Using, s
    <3>2. CASE d # c
      BY Zenon, <1>11, <2>2, <3>2 DEF Using, Others
    <3> QED BY Zenon, <3>1, <3>2
  <2>3. session' = session
    BY <1>3
  <2> QED BY Zenon, <1>1, <2>1, <2>2, <2>3, SessionsKept
<1> QED BY Zenon, <1>12, <1>13, <1>14, <1>16, <1>17, <1>18 DEF ReadsInv

LEMMA PutKeeps ==
    ASSUME ReadsInv, NEW c \in Callers, Put(c)
    PROVE  ReadsInv'
BY Zenon, PutAdds, PutMakesRoom DEF Put
-----------------------------------------------------------------------------
\* The first half of a teardown takes the key's session out of the cache, so
\* that the entry need not cover it any more.
LEMMA TearEvictKeeps ==
    ASSUME ReadsInv, NEW c \in Callers, TearEvict(c)
    PROVE  ReadsInv'
<1>1. /\ ReadsTypeOK /\ CarriedBy(c) /\ Lists /\ Registered /\ Condemned /\ RefsExact /\ VFSHeld
      /\ SessionsHeld /\ Covered /\ Carried
  BY Zenon DEF ReadsInv, Carried
<1>2. PICK e \in call[c].doomed :
        /\ order' = WithoutKey(entry[e].key)
        /\ call' = [call EXCEPT ![c].doomed = @ \ {e}, ![c].tearing = e,
                                ![c].closing = Cached(entry[e].key)]
  BY Zenon DEF TearEvict
<1>3. /\ call[c].closing = {} /\ call[c].tearing = 0 /\ pc[c] # "shut"
      /\ UNCHANGED <<resident, entry, closed, session, head, acked, pc, calls>>
  BY DEF TearEvict, registryVars
<1>4. /\ call \in [Callers -> Call] /\ call[c] \in Call
      /\ order \in Seq(DOMAIN session) /\ Len(order) <= Limit
  BY <1>1 DEF ReadsTypeOK
<1>5. e \in DOMAIN entry /\ e \in Nat \ {0}
  <2>1. e \in DOMAIN entry
    BY <1>1 DEF Condemned, Takes
  <2> QED BY <1>1, <2>1, Indices DEF ReadsTypeOK
<1>6. PICK k : k = entry[e].key
  OBVIOUS
<1>7. /\ Cached(k) = {t \in Range(order) : KeyOf(t) = k}
      /\ Cached(k) \subseteq DOMAIN session
      /\ order' \in Seq(DOMAIN session) /\ Once(order') /\ Range(order') = Range(order) \ Cached(k)
      /\ Len(order') <= Len(order)
  BY <1>1, <1>2, <1>6, TakeOut
<1>8. /\ call' \in [Callers -> Call]
      /\ call'[c].entry = call[c].entry /\ call'[c].key = call[c].key
      /\ call'[c].session = call[c].session
      /\ call'[c].doomed = call[c].doomed \ {e} /\ call'[c].tearing = e
      /\ call'[c].closing = Cached(k)
  <2>1. Cached(k) \subseteq Nat
    BY <1>1, <1>7, Indices DEF ReadsTypeOK
  <2>2. call' = [call EXCEPT ![c] = [call[c] EXCEPT !.doomed = @ \ {e}, !.tearing = e,
                                                    !.closing = Cached(k)]]
    BY Zenon, <1>2, <1>6
  <2>3. [call[c] EXCEPT !.doomed = @ \ {e}, !.tearing = e, !.closing = Cached(k)] \in Call
    BY Zenon, <1>4, <1>5, <2>1 DEF Call
  <2> QED BY Zenon, <1>4, <2>2, <2>3 DEF Call
<1>9. Others(c)
  BY Zenon, <1>2, <1>3, <1>4 DEF Others
<1>10. Kept /\ \A t : KeyOf(t)' = KeyOf(t)
  BY Zenon, <1>3 DEF Kept, KeyOf
<1>11. ReadsTypeOK'
  <2>1. \A d \in Callers : call'[d].closing \subseteq DOMAIN session'
    BY Zenon, <1>1, <1>3, <1>7, <1>8, <1>9 DEF ReadsTypeOK, Others
  <2>2. Len(order') <= Limit
    <3>1. Len(order) \in Nat /\ Len(order') \in Nat /\ Limit \in Nat
      BY <1>4, <1>7, Indices, LimitAssumption
    <3> QED BY <1>4, <1>7, <3>1
  <2>3. /\ entry' \in Seq(Entry) /\ resident' \in Seq(DOMAIN entry') /\ Len(resident') <= Limit
        /\ session' \in Seq(Session) /\ \A t \in DOMAIN session' : session'[t].entry \in DOMAIN entry'
        /\ head' \in [Keys -> Nat] /\ acked' \in [Keys -> Nat] /\ closed' \in BOOLEAN
        /\ pc' \in [Callers -> PC] /\ calls' \in 0..MaxCalls
    BY Zenon, <1>1, <1>3 DEF ReadsTypeOK
  <2>4. order' \in Seq(DOMAIN session')
    BY <1>3, <1>7
  <2> QED BY Zenon, <1>8, <2>1, <2>2, <2>3, <2>4 DEF ReadsTypeOK
<1>12. Carried'
  <2>1. pc[c] \notin Settled
    BY Zenon, <1>1, <1>2, <1>3 DEF CarriedBy
  <2>2. CarriedBy(c)'
    BY Zenon, <1>1, <1>3, <1>8, <2>1 DEF CarriedBy, Settled
  <2> QED BY Zenon, <1>1, <1>9, <1>10, <2>2, OthersCarried
<1>13. Registered'
  BY Zenon, <1>1, <1>3 DEF Registered
<1>14. \A d \in Callers : Takes(d)' = Takes(d) /\ call'[d].entry = call[d].entry
  <2>1. Takes(c)' = Takes(c)
    BY <1>2, <1>3, <1>5, <1>8 DEF Takes
  <2> QED BY <1>8, <1>9, <2>1 DEF Takes, Others
<1>15. Condemned'
  BY Zenon, <1>1, <1>3, <1>14 DEF Condemned
<1>16. RefsExact'
  <2>1. \A g : Users(g)' = Users(g)
    BY Zenon, <1>14 DEF Users
  <2> QED BY Zenon, <1>1, <1>3, <2>1 DEF RefsExact
<1>17. VFSHeld'
  <2>1. \A d \in Callers : \A g \in Nat \ {0} : g \in call[d].doomed \cup {call[d].tearing} =>
                                                g \in call'[d].doomed \cup {call'[d].tearing}
    BY <1>14 DEF Takes
  <2>2. DOMAIN entry \subseteq Nat \ {0}
    BY Zenon, <1>1, Indices DEF ReadsTypeOK
  <2> QED BY Zenon, <1>1, <1>3, <2>1, <2>2 DEF VFSHeld
<1>18. Lists'
  BY Zenon, <1>1, <1>3, <1>7, <1>10 DEF Lists
<1>19. ASSUME NEW h, h # k, Covers(h) PROVE Covers(h)'
  <2>1. PICK g \in DOMAIN entry :
           /\ entry[g].key = h
           /\ ~entry[g].evicted \/ entry[g].refs > 0 \/ \E d \in Callers : g \in call[d].doomed
    BY <1>19 DEF Covers
  <2>2. g # e
    BY Zenon, <1>6, <1>19, <2>1
  <2>3. \A d \in Callers : g \in call[d].doomed => g \in call'[d].doomed
    BY Zenon, <1>8, <1>9, <2>2 DEF Others
  <2> QED BY Zenon, <1>3, <2>1, <2>3 DEF Covers
<1>20. Covered'
  <2> SUFFICES ASSUME NEW t \in Range(order') PROVE Covers(KeyOf(t))'
    BY Zenon DEF Covered
  <2>1. PICK h : h = KeyOf(t)
    OBVIOUS
  <2>2. t \in Range(order) /\ h # k
    BY Zenon, <1>7, <2>1
  <2>3. Covers(h) /\ KeyOf(t)' = h
    BY Zenon, <1>1, <1>10, <2>1, <2>2 DEF Covered, Covers
  <2>4. Covers(h)'
    BY Zenon, <1>19, <2>2, <2>3
  <2> QED BY <2>3, <2>4 DEF Covers
<1>21. SessionsHeld'
  <2>1. \A t \in Range(order) : t \in Range(order') \/ t \in call'[c].closing
    BY Zenon, <1>7, <1>8
  <2>2. \A d \in Callers : Using(d) \cup call[d].closing \subseteq (Using(d) \cup call[d].closing)'
    BY Zenon, <1>3, <1>8, <1>9 DEF Using, Others
  <2>3. session' = session
    BY <1>3
  <2> QED BY Zenon, <1>1, <2>1, <2>2, <2>3, SessionsKept
<1> QED BY Zenon, <1>11, <1>12, <1>13, <1>15, <1>16, <1>17, <1>18, <1>20, <1>21 DEF ReadsInv

\* One entry changes; it keeps its key.
LEMMA EntryUpdate ==
    ASSUME ReadsTypeOK, NEW e \in DOMAIN entry, NEW x \in Entry,
           x.key = entry[e].key, entry' = [entry EXCEPT ![e] = x], UNCHANGED session
    PROVE  /\ entry' \in Seq(Entry) /\ DOMAIN entry' = DOMAIN entry
           /\ entry'[e] = x
           /\ \A g \in DOMAIN entry \ {e} : entry'[g] = entry[g]
           /\ Kept
<1>1. entry \in Seq(Entry)
  BY DEF ReadsTypeOK
<1>2. /\ entry' \in Seq(Entry) /\ DOMAIN entry' = DOMAIN entry
      /\ entry'[e] = x
      /\ \A g \in DOMAIN entry \ {e} : entry'[g] = entry[g]
  BY Zenon, <1>1, SeqUpdate
<1> QED BY <1>2 DEF Kept

\* A step of the registry, which leaves the cache alone.
LEMMA RegistryStep ==
    ASSUME ReadsInv, NEW c \in Callers, Others(c), UNCHANGED <<order, session>>, Kept,
           ReadsTypeOK', Once(resident'), Registered', Condemned', CarriedBy(c)', RefsExact', VFSHeld',
           call'[c].closing = call[c].closing,
           pc[c] \notin {"fresh", "put"} \/ (pc'[c] = pc[c] /\ call'[c].session = call[c].session),
           \A k : Covers(k) => Covers(k)'
    PROVE  ReadsInv'
<1>1. ReadsTypeOK /\ Lists /\ Covered /\ SessionsHeld /\ Carried
  BY Zenon DEF ReadsInv
<1>2. Once(order') /\ Range(order') = Range(order)
  BY Zenon, <1>1 DEF Lists
<1>3. Lists' /\ Covered'
  BY <1>1, <1>2, CacheKept
<1>4. \A d \in Callers : Using(d) \cup call[d].closing \subseteq (Using(d) \cup call[d].closing)'
  BY Zenon DEF Using, Others
<1>5. SessionsHeld'
  BY Zenon, <1>1, <1>2, <1>4 DEF SessionsHeld
<1>6. Carried'
  BY <1>1, OthersCarried
<1> QED BY Zenon, <1>3, <1>5, <1>6 DEF ReadsInv

LEMMA TearCloseKeeps ==
    ASSUME ReadsInv, NEW c \in Callers, TearClose(c)
    PROVE  ReadsInv'
<1>1. /\ ReadsTypeOK /\ CarriedBy(c) /\ Lists /\ Registered /\ Condemned /\ RefsExact /\ VFSHeld
  BY DEF ReadsInv, Carried
<1> DEFINE e == call[c].tearing
           x == [entry[e] EXCEPT !.vfs = FALSE]
<1>2. /\ call[c].closing = {} /\ e # 0
      /\ entry' = [entry EXCEPT ![e] = x]
      /\ call' = [call EXCEPT ![c].tearing = 0]
      /\ UNCHANGED <<resident, closed, order, session, head, acked, pc, calls>>
  BY DEF TearClose, cacheVars
<1>3. call \in [Callers -> Call] /\ call[c] \in Call /\ pc \in [Callers -> PC]
  BY Zenon, <1>1 DEF ReadsTypeOK
<1>4. e \in DOMAIN entry /\ entry[e].evicted /\ entry[e].refs = 0
  BY Zenon, <1>1, <1>2 DEF Condemned, Takes
<1>5. entry[e] \in Entry
  BY <1>1, <1>4, Indices DEF ReadsTypeOK
<1>6. /\ x \in Entry /\ x.key = entry[e].key /\ x.evicted = entry[e].evicted /\ x.refs = entry[e].refs
      /\ ~x.vfs
  BY Zenon, <1>5 DEF Entry
<1> HIDE DEF x
<1>7. /\ entry' \in Seq(Entry) /\ DOMAIN entry' = DOMAIN entry
      /\ entry'[e] = x
      /\ \A g \in DOMAIN entry \ {e} : entry'[g] = entry[g]
      /\ Kept
  BY Zenon, <1>1, <1>2, <1>4, <1>6, EntryUpdate
<1>8. /\ call' \in [Callers -> Call]
      /\ call'[c].entry = call[c].entry /\ call'[c].key = call[c].key
      /\ call'[c].session = call[c].session /\ call'[c].doomed = call[c].doomed
      /\ call'[c].tearing = 0 /\ call'[c].closing = call[c].closing
  BY Zenon, <1>2, <1>3 DEF Call
<1>9. Others(c)
  BY <1>2, <1>3 DEF Others
<1>10. ReadsTypeOK'
  <2>1. \A d \in Callers : call'[d].closing \subseteq DOMAIN session'
    BY <1>1, <1>2, <1>8, <1>9 DEF ReadsTypeOK, Others
  <2> QED BY Zenon, <1>1, <1>2, <1>7, <1>8, <2>1 DEF ReadsTypeOK
<1>11. Once(resident')
  BY Zenon, <1>1, <1>2 DEF Lists
<1>12. \A g \in DOMAIN entry : /\ entry'[g].evicted = entry[g].evicted
                               /\ entry'[g].refs = entry[g].refs /\ entry'[g].key = entry[g].key
                               /\ entry'[g].vfs = entry[g].vfs \/ g = e
  BY <1>6, <1>7
<1>13. Registered'
  BY Zenon, <1>1, <1>2, <1>4, <1>7, <1>12 DEF Registered
<1>14. Condemned'
  <2>1. \A d \in Callers : Takes(d)' \subseteq Takes(d)
    BY Zenon, <1>8, <1>9 DEF Takes, Others
  <2> QED BY Zenon, <1>1, <1>7, <1>12, <2>1 DEF Condemned
<1>15. CarriedBy(c)'
  BY <1>1, <1>2, <1>7, <1>8 DEF CarriedBy, Kept
<1>16. RefsExact'
  <2>1. \A g : Users(g)' = Users(g)
    BY <1>8, <1>9 DEF Users, Others
  <2>2. Users(e) = {}
    <3>1. Cardinality(Users(e)) = 0 /\ Users(e) \subseteq Callers
      BY <1>1, <1>4 DEF RefsExact, Users
    <3>2. IsFiniteSet(Users(e))
      BY <3>1, FS_Subset, CallersAssumption
    <3> QED BY Zenon, <3>1, <3>2, FS_EmptySet
  <2> QED BY Zenon, <1>1, <1>7, <1>12, <2>1, <2>2 DEF RefsExact
<1>17. VFSHeld'
  <2>1. \A d \in Callers : \A g \in DOMAIN entry \ {e} :
           g \in call[d].doomed \cup {call[d].tearing} => g \in call'[d].doomed \cup {call'[d].tearing}
    BY <1>8, <1>9 DEF Others
  <2>2. \A g \in DOMAIN entry' : entry'[g].vfs => g # e /\ entry[g].vfs
    BY Zenon, <1>6, <1>7
  <2> QED BY Zenon, <1>1, <1>2, <1>7, <1>12, <2>1, <2>2 DEF VFSHeld
<1>18. \A k : Covers(k) => Covers(k)'
  <2>1. \A d \in Callers : call'[d].doomed = call[d].doomed
    BY <1>8, <1>9 DEF Others
  <2> QED BY Zenon, <1>7, <1>12, <2>1 DEF Covers
<1>19. pc[c] \notin {"fresh", "put"} \/ pc'[c] = pc[c]
  BY <1>2
<1> QED BY Zenon, <1>2, <1>7, <1>8, <1>9, <1>10, <1>11, <1>13, <1>14, <1>15, <1>16, <1>17, <1>18, <1>19,
           RegistryStep
\* The callers are finitely many, and so are the users of an entry.
LEMMA UsersFinite ==
    ASSUME NEW e
    PROVE  /\ IsFiniteSet(Users(e)) /\ Cardinality(Users(e)) \in Nat
           /\ Cardinality(Users(e)) = 0 <=> Users(e) = {}
<1>1. Users(e) \subseteq Callers
  BY DEF Users
<1>2. IsFiniteSet(Users(e))
  BY Zenon, <1>1, FS_Subset, CallersAssumption
<1> QED BY <1>2, FS_CardinalityType, FS_EmptySet

\* A caller that used no entry now uses e, and e counts it.
LEMMA CountUp ==
    ASSUME RefsExact, NEW c \in Callers, NEW e \in Nat \ {0}, Others(c),
           call[c].entry = 0, call'[c].entry = e,
           0 \notin DOMAIN entry, e \in DOMAIN entry', DOMAIN entry' = DOMAIN entry \cup {e},
           \A g \in DOMAIN entry \ {e} : entry'[g].refs = entry[g].refs /\ entry'[g].vfs = entry[g].vfs,
           entry'[e].refs = IF e \in DOMAIN entry THEN entry[e].refs + 1 ELSE 1,
           e \notin DOMAIN entry => Users(e) = {},
           entry'[e].vfs
    PROVE  RefsExact'
<1>1. Users(e)' = Users(e) \cup {c} /\ c \notin Users(e)
  BY DEF Users, Others
<1>2. \A g \in DOMAIN entry \ {e} : Users(g)' = Users(g)
  BY DEF Users, Others
<1>3. IsFiniteSet(Users(e)) /\ Cardinality(Users(e)) \in Nat
  BY UsersFinite
<1>4. Cardinality(Users(e) \cup {c}) = Cardinality(Users(e)) + 1
  BY Zenon, <1>1, <1>3, FS_AddElement
<1>5. e \notin DOMAIN entry => Cardinality(Users(e)) = 0
  BY Zenon, FS_EmptySet
<1>6. entry'[e].refs = Cardinality(Users(e)')
  <2>1. e \in DOMAIN entry => entry[e].refs = Cardinality(Users(e))
    BY Zenon DEF RefsExact
  <2>2. entry'[e].refs = Cardinality(Users(e)) + 1
    BY <1>3, <1>5, <2>1
  <2> QED BY Zenon, <1>1, <1>4, <2>2
<1> QED BY <1>2, <1>6 DEF RefsExact

LEMMA EnterHitKeeps ==
    ASSUME ReadsInv, NEW c \in Callers, EnterHit(c)
    PROVE  ReadsInv'
<1>1. /\ ReadsTypeOK /\ CarriedBy(c) /\ Lists /\ Registered /\ Condemned /\ RefsExact /\ VFSHeld
  BY DEF ReadsInv, Carried
<1>2. PICK i \in DOMAIN resident :
        /\ entry[resident[i]].key = call[c].key
        /\ resident' = ToFront(resident, i)
        /\ entry' = [entry EXCEPT ![resident[i]].refs = @ + 1]
        /\ call' = [call EXCEPT ![c].entry = resident[i]]
  BY Zenon DEF EnterHit
<1>3. /\ pc[c] = "enter" /\ ~closed /\ pc' = [pc EXCEPT ![c] = AfterEnter(c)]
      /\ UNCHANGED <<closed, order, session, head, acked, calls>>
  BY Zenon DEF EnterHit, Goto, cacheVars
<1> DEFINE e == resident[i]
           x == [entry[e] EXCEPT !.refs = @ + 1]
<1>4. /\ call \in [Callers -> Call] /\ call[c] \in Call /\ pc \in [Callers -> PC]
      /\ resident \in Seq(DOMAIN entry) /\ Len(resident) <= Limit
      /\ DOMAIN entry \subseteq Nat \ {0}
  BY Zenon, <1>1, Indices DEF ReadsTypeOK
<1>5. e \in DOMAIN entry /\ e \in Range(resident)
  BY Zenon, <1>4, Indices DEF Range
<1>6. entry[e] \in Entry
  BY Zenon, <1>1, <1>5, Indices DEF ReadsTypeOK
<1>7. /\ x \in Entry /\ x.key = entry[e].key /\ x.evicted = entry[e].evicted
      /\ x.refs = entry[e].refs + 1 /\ x.vfs = entry[e].vfs
  BY <1>6 DEF Entry
<1>8. entry' = [entry EXCEPT ![e] = x] /\ call' = [call EXCEPT ![c].entry = e]
  BY <1>2
<1>9. /\ resident' \in Seq(DOMAIN entry) /\ Len(resident') = Len(resident)
      /\ Once(resident') /\ Range(resident') = Range(resident)
  BY Zenon, <1>1, <1>2, <1>4, ToFrontOnce DEF Lists
<1>10. entry[e].key = call[c].key
  BY <1>2
<1> HIDE DEF e, x
<1>11. /\ entry' \in Seq(Entry) /\ DOMAIN entry' = DOMAIN entry
       /\ entry'[e] = x
       /\ \A g \in DOMAIN entry \ {e} : entry'[g] = entry[g]
       /\ Kept
  BY Zenon, <1>1, <1>3, <1>5, <1>7, <1>8, EntryUpdate
<1>12. call[c].entry = 0 /\ call[c].closing = {} /\ call[c].tearing = 0 /\ call[c].doomed = {}
  BY <1>1, <1>3 DEF CarriedBy, Outside, Settled
<1>13. /\ call' \in [Callers -> Call]
       /\ call'[c].entry = e /\ call'[c].key = call[c].key
       /\ call'[c].session = call[c].session /\ call'[c].doomed = call[c].doomed
       /\ call'[c].tearing = call[c].tearing /\ call'[c].closing = call[c].closing
  <2>1. e \in Nat
    BY <1>4, <1>5
  <2> QED BY Zenon, <1>4, <1>8, <2>1 DEF Call
<1>14. pc' \in [Callers -> PC] /\ pc'[c] \in {"get", "commit"}
  <2>1. AfterEnter(c) \in {"get", "commit"}
    BY DEF AfterEnter
  <2> QED BY <1>3, <1>4, <2>1 DEF PC
<1>15. Others(c)
  BY Zenon, <1>3, <1>4, <1>8 DEF Others
<1>16. ReadsTypeOK'
  <2>1. \A d \in Callers : call'[d].closing \subseteq DOMAIN session'
    BY ZenonT(30), <1>1, <1>3, <1>13, <1>15 DEF ReadsTypeOK, Others
  <2>2. resident' \in Seq(DOMAIN entry') /\ Len(resident') <= Limit
    BY Zenon, <1>4, <1>9, <1>11
  <2> QED BY Zenon, <1>1, <1>3, <1>11, <1>13, <1>14, <2>1, <2>2 DEF ReadsTypeOK
<1>17. \A g \in DOMAIN entry : /\ entry'[g].evicted = entry[g].evicted
                               /\ entry'[g].vfs = entry[g].vfs /\ entry'[g].key = entry[g].key
                               /\ entry'[g].refs = IF g = e THEN entry[g].refs + 1 ELSE entry[g].refs
  BY <1>7, <1>11
<1>18. Registered'
  <2>1. DOMAIN entry' = DOMAIN entry /\ Range(resident') = Range(resident) /\ ~closed'
    BY Zenon, <1>3, <1>9, <1>11
  <2>2. \A g \in DOMAIN entry :
          (entry'[g].evicted <=> entry[g].evicted) /\ (entry'[g].vfs <=> entry[g].vfs)
    BY <1>17
  <2>3. \A g \in DOMAIN entry :
          (entry[g].evicted <=> g \notin Range(resident)) /\ (~entry[g].evicted => entry[g].vfs)
    BY <1>1 DEF Registered
  <2>4. \A g \in DOMAIN entry' :
          (entry'[g].evicted <=> g \notin Range(resident')) /\ (~entry'[g].evicted => entry'[g].vfs)
    BY Zenon, <2>1, <2>2, <2>3
  <2> QED BY Zenon, <2>1, <2>4 DEF Registered
<1>19. ~entry[e].evicted /\ entry[e].vfs
  BY Zenon, <1>1, <1>5 DEF Registered
<1>20. \A d \in Callers : Takes(d)' = Takes(d) /\ e \notin Takes(d) /\ call'[d].doomed = call[d].doomed
                          /\ call'[d].tearing = call[d].tearing
  BY Zenon, <1>1, <1>13, <1>15, <1>19 DEF Takes, Others, Condemned
<1>21. Condemned'
  BY Zenon, <1>1, <1>11, <1>20 DEF Condemned
<1>22. CarriedBy(c)'
  BY Zenon, <1>5, <1>10, <1>11, <1>13, <1>14, <1>17 DEF CarriedBy, Outside, Settled
<1>23. RefsExact'
  <2>1. e \in Nat \ {0} /\ 0 \notin DOMAIN entry /\ DOMAIN entry' = DOMAIN entry \cup {e}
    BY Zenon, <1>4, <1>5, <1>11
  <2>2. \A g \in DOMAIN entry \ {e} : entry'[g].refs = entry[g].refs /\ entry'[g].vfs = entry[g].vfs
    BY Zenon, <1>11
  <2>3. e \in DOMAIN entry /\ entry'[e].refs = entry[e].refs + 1 /\ entry'[e].vfs
    BY Zenon, <1>5, <1>17, <1>19
  <2> QED BY Zenon, <1>1, <1>12, <1>13, <1>15, <2>1, <2>2, <2>3, CountUp
<1>24. \A g \in DOMAIN entry : entry[g].refs \in Nat
  <2>1. \A g \in DOMAIN entry : entry[g] \in Entry
    BY <1>1, Indices DEF ReadsTypeOK
  <2> QED BY Zenon, <2>1 DEF Entry
<1>25. VFSHeld'
  <2>1. \A g \in DOMAIN entry : entry[g].refs > 0 => entry'[g].refs > 0
    BY <1>17, <1>24
  <2> QED BY Zenon, <1>1, <1>9, <1>11, <1>17, <1>20, <2>1 DEF VFSHeld
<1>26. \A k : Covers(k) => Covers(k)'
  <2>1. \A g \in DOMAIN entry : entry[g].refs > 0 => entry'[g].refs > 0
    BY <1>17, <1>24
  <2> QED BY Zenon, <1>11, <1>17, <1>20, <2>1 DEF Covers
<1>27. pc[c] \notin {"fresh", "put"}
  BY <1>3
<1> QED BY Zenon, <1>3, <1>9, <1>11, <1>13, <1>15, <1>16, <1>18, <1>21, <1>22, <1>23, <1>25, <1>26, <1>27,
           RegistryStep

\* The call gives its entry back; the last user of an evicted entry takes it.
LEMMA ReleaseKeeps ==
    ASSUME ReadsInv, NEW c \in Callers, Release(c)
    PROVE  ReadsInv'
<1>1. /\ ReadsTypeOK /\ CarriedBy(c) /\ Lists /\ Registered /\ Condemned /\ RefsExact /\ VFSHeld
  BY DEF ReadsInv, Carried
<1>0. PICK e : e = call[c].entry
  OBVIOUS
<1> DEFINE x == [entry[e] EXCEPT !.refs = @ - 1]
           D == IF LastUser(e) THEN {e} ELSE {}
<1>2. /\ pc[c] = "release" /\ Ready(c) /\ pc' = [pc EXCEPT ![c] = "return"]
      /\ entry' = [entry EXCEPT ![e] = x]
      /\ call' = [call EXCEPT ![c].entry = 0, ![c].doomed = D]
      /\ UNCHANGED <<resident, closed, order, session, head, acked, calls>>
  BY Zenon, <1>0 DEF Release, Goto, cacheVars
<1>3. /\ call \in [Callers -> Call] /\ call[c] \in Call /\ pc \in [Callers -> PC]
      /\ DOMAIN entry \subseteq Nat \ {0}
  BY Zenon, <1>1, Indices DEF ReadsTypeOK
<1>4. e \in DOMAIN entry /\ call[c].closing = {} /\ call[c].tearing = 0 /\ call[c].doomed = {}
  BY Zenon, <1>0, <1>1, <1>2 DEF CarriedBy, Outside, Ready
<1>5. \A g \in DOMAIN entry : entry[g] \in Entry
  BY Zenon, <1>1, Indices DEF ReadsTypeOK
<1>6. c \in Users(e) /\ entry[e].refs = Cardinality(Users(e)) /\ entry[e].vfs
  <2>1. c \in Users(e)
    BY Zenon, <1>0 DEF Users
  <2> QED BY Zenon, <1>1, <1>4, <2>1 DEF RefsExact
<1>7. entry[e].refs \in Nat /\ entry[e].refs > 0
  <2>1. Cardinality(Users(e)) \in Nat /\ Cardinality(Users(e)) # 0
    BY <1>6, UsersFinite
  <2> QED BY <1>6, <2>1
<1>8. /\ x \in Entry /\ x.key = entry[e].key /\ x.evicted = entry[e].evicted
      /\ x.refs = entry[e].refs - 1 /\ x.vfs = entry[e].vfs
  BY <1>4, <1>5, <1>7 DEF Entry
<1>9. D \subseteq {e} /\ (e \in D <=> entry[e].evicted /\ entry[e].refs = 1)
  BY DEF LastUser
<1> HIDE DEF x, D
<1>10. /\ entry' \in Seq(Entry) /\ DOMAIN entry' = DOMAIN entry
       /\ entry'[e] = x
       /\ \A g \in DOMAIN entry \ {e} : entry'[g] = entry[g]
       /\ Kept
  BY Zenon, <1>1, <1>2, <1>4, <1>8, EntryUpdate
<1>11. /\ call' \in [Callers -> Call]
       /\ call'[c].entry = 0 /\ call'[c].doomed = D
       /\ call'[c].tearing = call[c].tearing /\ call'[c].closing = call[c].closing
  <2>1. D \subseteq Nat
    BY Zenon, <1>3, <1>4, <1>9
  <2>2. call' = [call EXCEPT ![c] = [call[c] EXCEPT !.entry = 0, !.doomed = D]]
    BY Zenon, <1>2
  <2>3. [call[c] EXCEPT !.entry = 0, !.doomed = D] \in Call
    BY Zenon, <1>3, <2>1 DEF Call
  <2> QED BY Zenon, <1>3, <2>2, <2>3 DEF Call
<1>12. pc' \in [Callers -> PC] /\ pc'[c] = "return"
  BY <1>2, <1>3 DEF PC
<1>13. Others(c)
  BY <1>2, <1>3 DEF Others
<1>14. ReadsTypeOK'
  <2>1. \A d \in Callers : call'[d].closing \subseteq DOMAIN session'
    BY Zenon, <1>1, <1>2, <1>11, <1>13 DEF ReadsTypeOK, Others
  <2> QED BY Zenon, <1>1, <1>2, <1>10, <1>11, <1>12, <2>1 DEF ReadsTypeOK
<1>15. \A g \in DOMAIN entry : /\ entry'[g].evicted = entry[g].evicted
                               /\ entry'[g].vfs = entry[g].vfs /\ entry'[g].key = entry[g].key
                               /\ entry'[g].refs = IF g = e THEN entry[g].refs - 1 ELSE entry[g].refs
  BY <1>8, <1>10
<1>16. Once(resident')
  BY Zenon, <1>1, <1>2 DEF Lists
<1>17. Registered'
  BY Zenon, <1>1, <1>2, <1>10, <1>15 DEF Registered
<1>18. \A d \in Callers : e \notin Takes(d)
  BY <1>1, <1>7 DEF Condemned
<1>19. \A d \in Callers \ {c} : Takes(d)' = Takes(d)
  BY <1>13 DEF Takes, Others
<1>20. Takes(c)' = D
  BY Zenon, <1>4, <1>11 DEF Takes
<1>21. Condemned'
  <2>1. \A g \in D : g = e /\ entry'[g].evicted /\ entry'[g].refs = 0
    BY <1>4, <1>9, <1>15
  <2>2. \A d \in Callers \ {c} : \A g \in Takes(d)' : g \in DOMAIN entry' /\ entry'[g].evicted /\ entry'[g].refs = 0
    BY ZenonT(30), <1>1, <1>10, <1>15, <1>18, <1>19 DEF Condemned
  <2> QED BY ZenonT(30), <1>4, <1>10, <1>20, <2>1, <2>2 DEF Condemned
<1>22. CarriedBy(c)'
  BY <1>11, <1>12 DEF CarriedBy, Outside, Settled
<1>23. RefsExact'
  <2>1. Users(e)' = Users(e) \ {c}
    <3>1. e # 0 /\ call[c].entry = e
      BY Zenon, <1>0, <1>3, <1>4
    <3> QED BY <1>11, <1>13, <3>1 DEF Users, Others
  <2>2. \A g \in DOMAIN entry \ {e} : Users(g)' = Users(g)
    <3>1. call[c].entry = e /\ 0 \notin DOMAIN entry
      BY <1>0, <1>3
    <3> QED BY Zenon, <1>11, <1>13, <3>1 DEF Users, Others
  <2>3. Cardinality(Users(e) \ {c}) = Cardinality(Users(e)) - 1
    BY Zenon, <1>6, UsersFinite, FS_RemoveElement
  <2>4. entry'[e].refs = Cardinality(Users(e)') /\ entry'[e].vfs
    BY Zenon, <1>4, <1>6, <1>15, <2>1, <2>3
  <2> QED BY Zenon, <1>1, <1>10, <1>15, <2>2, <2>4 DEF RefsExact
<1>24. e \in Range(resident) \/ entry'[e].refs > 0 \/ e \in call'[c].doomed
  <2>1. e \notin Range(resident) => entry[e].evicted
    BY Zenon, <1>1, <1>4 DEF Registered
  <2>2. entry'[e].refs = entry[e].refs - 1
    BY Zenon, <1>4, <1>15
  <2> QED BY <1>7, <1>9, <1>11, <2>1, <2>2
<1>25. \A d \in Callers : /\ call[d].doomed \subseteq call'[d].doomed
                          /\ call'[d].tearing = call[d].tearing
  BY Zenon, <1>4, <1>11, <1>13 DEF Others
<1>26. VFSHeld'
  <2>1. \A g \in DOMAIN entry \ {e} : entry'[g].vfs => \/ g \in Range(resident')
                                                       \/ entry'[g].refs > 0
                                                       \/ \E d \in Callers : g \in call'[d].doomed \cup {call'[d].tearing}
    BY Zenon, <1>1, <1>2, <1>15, <1>25 DEF VFSHeld
  <2>2. \A g \in DOMAIN entry' : g = e \/ g \in DOMAIN entry \ {e}
    BY <1>10
  <2>3. e \in Range(resident') \/ entry'[e].refs > 0 \/ \E d \in Callers : e \in call'[d].doomed \cup {call'[d].tearing}
    BY Zenon, <1>2, <1>24
  <2> QED BY Zenon, <2>1, <2>2, <2>3 DEF VFSHeld
<1>27. \A k : Covers(k) => Covers(k)'
  <2>1. ~entry'[e].evicted \/ entry'[e].refs > 0 \/ \E d \in Callers : e \in call'[d].doomed
    BY Zenon, <1>1, <1>4, <1>15, <1>24 DEF Registered
  <2> SUFFICES ASSUME NEW k, Covers(k) PROVE Covers(k)'
    OBVIOUS
  <2>2. PICK g \in DOMAIN entry :
          /\ entry[g].key = k
          /\ ~entry[g].evicted \/ entry[g].refs > 0 \/ \E d \in Callers : g \in call[d].doomed
    BY Zenon DEF Covers
  <2>3. g \in DOMAIN entry' /\ entry'[g].key = k
    BY Zenon, <1>10, <1>15, <2>2
  <2>4. ~entry'[g].evicted \/ entry'[g].refs > 0 \/ \E d \in Callers : g \in call'[d].doomed
    BY Zenon, <1>15, <1>25, <2>1, <2>2
  <2> QED BY Zenon, <2>3, <2>4 DEF Covers
<1>28. pc[c] \notin {"fresh", "put"}
  BY <1>2
<1> QED BY Zenon, <1>2, <1>10, <1>11, <1>13, <1>14, <1>16, <1>17, <1>21, <1>22, <1>23, <1>26, <1>27, <1>28,
           RegistryStep
\* A new database is registered; the least recently used one makes room.
LEMMA EnterMissKeeps ==
    ASSUME ReadsInv, NEW c \in Callers, EnterMiss(c)
    PROVE  ReadsInv'
<1>1. /\ ReadsTypeOK /\ CarriedBy(c) /\ Lists /\ Registered /\ Condemned /\ RefsExact /\ VFSHeld
      /\ Carried
  BY DEF ReadsInv, Carried
<1> DEFINE full == Len(resident) = Limit
           last == Back(resident)
           new == [key |-> call[c].key, refs |-> 1, evicted |-> FALSE, vfs |-> TRUE]
           kept == IF full THEN DropBack(resident) ELSE resident
           old == IF full THEN [entry EXCEPT ![last].evicted = TRUE] ELSE entry
           D == IF full /\ Evictable(last) THEN {last} ELSE {}
<1>2. PICK n : n = Len(entry) + 1
  BY Zenon
<1>3. /\ pc[c] = "enter" /\ ~closed /\ pc' = [pc EXCEPT ![c] = AfterEnter(c)]
      /\ resident' = <<n>> \o kept
      /\ entry' = Append(old, new)
      /\ call' = [call EXCEPT ![c].entry = n, ![c].doomed = D]
      /\ UNCHANGED <<closed, order, session, head, acked, calls>>
  BY Zenon, <1>2 DEF EnterMiss, Goto, cacheVars
<1>4. /\ call \in [Callers -> Call] /\ call[c] \in Call /\ pc \in [Callers -> PC]
      /\ resident \in Seq(DOMAIN entry) /\ Len(resident) <= Limit /\ entry \in Seq(Entry)
      /\ DOMAIN entry \subseteq Nat \ {0} /\ Limit \in Nat \ {0} /\ Once(resident)
      /\ Len(resident) \in Nat
  BY Zenon, <1>1, Indices, LimitAssumption DEF ReadsTypeOK, Lists
<1>5. \A g \in DOMAIN entry : entry[g] \in Entry
  BY Zenon, <1>4, Indices
<1>6. call[c].entry = 0 /\ call[c].closing = {} /\ call[c].tearing = 0 /\ call[c].doomed = {}
  BY Zenon, <1>1, <1>3 DEF CarriedBy, Outside, Settled
<1>7. full => last \in Range(resident) /\ last \in DOMAIN entry
  <2>1. ASSUME full PROVE last \in Range(resident)
    <3>1. Len(resident) > 0
      BY <1>4, <2>1
    <3> QED BY Zenon, <1>4, <3>1, DropBackOnce
  <2> QED BY Zenon, <1>4, <2>1, Indices
\* What is left of the registry.
<1>8. /\ kept \in Seq(DOMAIN entry) /\ Once(kept) /\ Len(kept) < Limit /\ Len(kept) \in Nat
      /\ Range(kept) = IF full THEN Range(resident) \ {last} ELSE Range(resident)
  <2>1. CASE full
    <3>1. /\ DropBack(resident) \in Seq(DOMAIN entry) /\ Len(DropBack(resident)) = Len(resident) - 1
          /\ Once(DropBack(resident)) /\ Range(DropBack(resident)) = Range(resident) \ {last}
      BY <1>4, <2>1, DropBackOnce
    <3>2. kept = DropBack(resident)
      BY <2>1
    <3>3. Len(DropBack(resident)) < Limit /\ Len(DropBack(resident)) \in Nat
      BY <1>4, <2>1, <3>1
    <3> HIDE DEF kept, last
    <3> QED BY Zenon, <2>1, <3>1, <3>2, <3>3
  <2>2. CASE ~full
    BY <1>4, <2>2
  <2> QED BY Zenon, <2>1, <2>2
\* The entries there were.
<1>9. /\ old \in Seq(Entry) /\ DOMAIN old = DOMAIN entry /\ Len(old) = Len(entry)
      /\ \A g \in DOMAIN entry : /\ old[g].key = entry[g].key /\ old[g].refs = entry[g].refs
                                 /\ old[g].vfs = entry[g].vfs
                                 /\ old[g].evicted = (entry[g].evicted \/ (full /\ g = last))
  <2>1. CASE full
    <3> DEFINE x == [entry[last] EXCEPT !.evicted = TRUE]
    <3>1. last \in DOMAIN entry /\ entry[last] \in Entry
      BY <1>5, <1>7, <2>1
    <3>2. /\ x \in Entry /\ x.key = entry[last].key /\ x.refs = entry[last].refs
          /\ x.vfs = entry[last].vfs /\ x.evicted = TRUE
      BY Zenon, <3>1 DEF Entry
    <3>3. old = [entry EXCEPT ![last] = x]
      BY Zenon, <2>1
    <3> HIDE DEF x, last, old
    <3>4. /\ old \in Seq(Entry) /\ DOMAIN old = DOMAIN entry /\ Len(old) = Len(entry) /\ old[last] = x
          /\ \A g \in DOMAIN entry \ {last} : old[g] = entry[g]
      BY <1>4, <3>1, <3>2, <3>3, SeqUpdate
    <3>5. \A g \in DOMAIN entry : entry[g].evicted \in BOOLEAN
      BY Zenon, <1>5 DEF Entry
    <3> QED BY Zenon, <2>1, <3>2, <3>4, <3>5
  <2>2. CASE ~full
    <3>1. old = entry
      BY Zenon, <2>2
    <3>2. \A g \in DOMAIN entry : entry[g].evicted \in BOOLEAN
      BY <1>5 DEF Entry
    <3> HIDE DEF old
    <3> QED BY <1>4, <2>2, <3>1, <3>2
  <2> QED BY Zenon, <2>1, <2>2
<1>10. new \in Entry /\ new.key = call[c].key /\ new.refs = 1 /\ new.evicted = FALSE /\ new.vfs = TRUE
  BY <1>4 DEF Entry, Call
<1>11. D \subseteq {last} /\ (last \in D <=> full /\ entry[last].refs = 0)
  BY DEF Evictable
<1>12. n = Len(old) + 1
  BY <1>2, <1>9
<1> HIDE DEF old, kept, last, new, D, full
<1>13. /\ entry' \in Seq(Entry) /\ n \notin DOMAIN entry /\ n \in Nat \ {0}
       /\ DOMAIN entry' = DOMAIN entry \cup {n}
       /\ entry'[n] = new
       /\ \A g \in DOMAIN entry : entry'[g] = old[g]
  BY <1>3, <1>9, <1>10, <1>12, SeqGrow
<1>14. \A g \in DOMAIN entry : /\ entry'[g].key = entry[g].key /\ entry'[g].refs = entry[g].refs
                               /\ entry'[g].vfs = entry[g].vfs
                               /\ entry'[g].evicted = (entry[g].evicted \/ (full /\ g = last))
  BY <1>9, <1>13
<1>15. /\ resident' \in Seq(DOMAIN entry') /\ Len(resident') <= Limit
       /\ Once(resident') /\ Range(resident') = Range(kept) \cup {n}
  <2>1. kept \in Seq(DOMAIN entry')
    BY Zenon, <1>8, <1>13, SeqMonotonic
  <2>2. n \notin Range(kept) /\ n \in DOMAIN entry'
    BY Zenon, <1>8, <1>13, Indices
  <2>3. /\ <<n>> \o kept \in Seq(DOMAIN entry') /\ Len(<<n>> \o kept) = Len(kept) + 1
        /\ Once(<<n>> \o kept) /\ Range(<<n>> \o kept) = Range(kept) \cup {n}
    BY <1>8, <2>1, <2>2, PushOnce
  <2>4. Len(kept) + 1 <= Limit
    BY <1>4, <1>8
  <2> QED BY Zenon, <1>3, <2>3, <2>4
<1>16. Kept
  BY <1>3, <1>13, <1>14 DEF Kept
<1>17. /\ call' \in [Callers -> Call]
       /\ call'[c].entry = n /\ call'[c].key = call[c].key /\ call'[c].doomed = D
       /\ call'[c].tearing = call[c].tearing /\ call'[c].closing = call[c].closing
  <2>1. D \subseteq Nat
    BY <1>4, <1>7, <1>11
  <2>2. call' = [call EXCEPT ![c] = [call[c] EXCEPT !.entry = n, !.doomed = D]]
    BY Zenon, <1>3
  <2>3. [call[c] EXCEPT !.entry = n, !.doomed = D] \in Call
    BY Zenon, <1>4, <1>13, <2>1 DEF Call
  <2> QED BY Zenon, <1>4, <2>2, <2>3 DEF Call
<1>18. pc' \in [Callers -> PC] /\ pc'[c] \in {"get", "commit"}
  <2>1. AfterEnter(c) \in {"get", "commit"}
    BY DEF AfterEnter
  <2> QED BY Zenon, <1>3, <1>4, <2>1 DEF PC
<1>19. Others(c)
  BY <1>3, <1>4 DEF Others
<1>20. ReadsTypeOK'
  <2>1. \A d \in Callers : call'[d].closing \subseteq DOMAIN session'
    BY Zenon, <1>1, <1>3, <1>17, <1>19 DEF ReadsTypeOK, Others
  <2>2. \A s \in DOMAIN session' : session'[s].entry \in DOMAIN entry'
    BY Zenon, <1>1, <1>3, <1>13 DEF ReadsTypeOK
  <2> QED BY Zenon, <1>1, <1>3, <1>13, <1>15, <1>17, <1>18, <2>1, <2>2 DEF ReadsTypeOK
<1>21. Registered'
  <2>1. ASSUME NEW g \in DOMAIN entry'
        PROVE  /\ entry'[g].evicted <=> g \notin Range(resident')
               /\ ~entry'[g].evicted => entry'[g].vfs
    <3>1. CASE g = n
      BY Zenon, <1>10, <1>13, <1>15, <3>1
    <3>2. CASE g \in DOMAIN entry
      <4>1. g # n /\ (entry[g].evicted <=> g \notin Range(resident)) /\ (~entry[g].evicted => entry[g].vfs)
        BY Zenon, <1>1, <1>13, <3>2 DEF Registered
      <4>2. g \in Range(resident') <=> g \in Range(resident) /\ ~(full /\ g = last)
        BY Zenon, <1>8, <1>15, <4>1
      <4> QED BY Zenon, <1>14, <3>2, <4>1, <4>2
    <3> QED BY Zenon, <1>13, <3>1, <3>2
  <2> QED BY <1>3, <2>1 DEF Registered
<1>22. \A d \in Callers \ {c} : Takes(d)' = Takes(d)
  BY <1>19 DEF Takes, Others
<1>23. Takes(c)' = D
  BY Zenon, <1>6, <1>17 DEF Takes
<1>24. Condemned'
  <2>1. \A g \in D : g = last /\ full /\ g \in DOMAIN entry' /\ entry'[g].evicted /\ entry'[g].refs = 0
    BY Zenon, <1>7, <1>11, <1>13, <1>14
  <2>2. \A d \in Callers \ {c} : \A g \in Takes(d)' : g \in DOMAIN entry' /\ entry'[g].evicted /\ entry'[g].refs = 0
    BY ZenonT(30), <1>1, <1>13, <1>14, <1>22 DEF Condemned
  <2> QED BY <1>23, <2>1, <2>2 DEF Condemned
<1>25. CarriedBy(c)'
  BY Zenon, <1>10, <1>13, <1>17, <1>18 DEF CarriedBy, Outside, Settled
<1>26. RefsExact'
  <2>1. 0 \notin DOMAIN entry /\ n \in DOMAIN entry' /\ entry'[n].vfs
    BY Zenon, <1>4, <1>10, <1>13
  <2>2. Users(n) = {}
    <3>1. \A d \in Callers : call[d].entry = 0 \/ call[d].entry \in DOMAIN entry
      BY <1>1 DEF Carried, CarriedBy
    <3> QED BY Zenon, <1>13, <3>1 DEF Users
  <2>3. entry'[n].refs = 1
    BY Zenon, <1>10, <1>13
  <2>4. call[c].entry = 0 /\ call'[c].entry = n /\ n \in Nat \ {0}
    BY Zenon, <1>6, <1>13, <1>17
  <2>5. n \notin DOMAIN entry /\ DOMAIN entry' = DOMAIN entry \cup {n}
    BY <1>13
  <2>6. \A g \in DOMAIN entry \ {n} : entry'[g].refs = entry[g].refs /\ entry'[g].vfs = entry[g].vfs
    BY Zenon, <1>14
  <2> QED BY Zenon, <1>1, <1>19, <2>1, <2>2, <2>3, <2>4, <2>5, <2>6, CountUp
<1>27. \A d \in Callers : call[d].doomed \subseteq call'[d].doomed /\ call'[d].tearing = call[d].tearing
  BY Zenon, <1>6, <1>17, <1>19 DEF Others
<1>28. full => entry'[last].refs > 0 \/ last \in call'[c].doomed
  <2>1. full => entry[last].refs \in Nat
    BY Zenon, <1>5, <1>7 DEF Entry
  <2> QED BY <1>7, <1>11, <1>14, <1>17, <2>1
<1>29. VFSHeld'
  <2> SUFFICES ASSUME NEW g \in DOMAIN entry', entry'[g].vfs
               PROVE  \/ g \in Range(resident') \/ entry'[g].refs > 0
                      \/ \E d \in Callers : g \in call'[d].doomed \cup {call'[d].tearing}
    BY Zenon DEF VFSHeld
  <2>1. CASE g = n
    BY Zenon, <1>15, <2>1
  <2>2. CASE full /\ g = last
    BY <1>28, <2>2
  <2>3. CASE g \in DOMAIN entry /\ ~(full /\ g = last)
    <3>1. entry[g].vfs /\ entry'[g].refs = entry[g].refs
      BY Zenon, <1>14, <2>3
    <3>2. g \in Range(resident) => g \in Range(resident')
      BY <1>8, <1>15, <2>3
    <3> QED BY Zenon, <1>1, <1>27, <2>3, <3>1, <3>2 DEF VFSHeld
  <2> QED BY Zenon, <1>13, <2>1, <2>2, <2>3
<1>30. \A k : Covers(k) => Covers(k)'
  <2> SUFFICES ASSUME NEW k, NEW g \in DOMAIN entry, entry[g].key = k,
                      ~entry[g].evicted \/ entry[g].refs > 0 \/ \E d \in Callers : g \in call[d].doomed
               PROVE  ~entry'[g].evicted \/ entry'[g].refs > 0 \/ \E d \in Callers : g \in call'[d].doomed
    BY <1>13, <1>14 DEF Covers
  <2>1. CASE full /\ g = last
    BY <1>28, <2>1
  <2>2. CASE ~(full /\ g = last)
    BY ZenonT(30), <1>14, <1>27, <2>2
  <2> QED BY Zenon, <2>1, <2>2
<1>31. pc[c] \notin {"fresh", "put"}
  BY <1>3
<1> QED BY Zenon, <1>3, <1>15, <1>16, <1>17, <1>19, <1>20, <1>21, <1>24, <1>25, <1>26, <1>29, <1>30, <1>31,
           RegistryStep
\* Close evicts every entry and takes those nobody uses.
LEMMA CloseKeeps ==
    ASSUME ReadsInv, NEW c \in Callers, Close(c)
    PROVE  ReadsInv'
<1>1. /\ ReadsTypeOK /\ CarriedBy(c) /\ Lists /\ Registered /\ Condemned /\ RefsExact /\ VFSHeld
  BY DEF ReadsInv, Carried
<1> DEFINE R == Range(resident)
           D == {e \in R : Evictable(e)}
<1>2. /\ pc[c] = "idle" /\ pc' = [pc EXCEPT ![c] = "shut"]
      /\ closed' = TRUE /\ resident' = <<>>
      /\ entry' = [e \in DOMAIN entry |->
                      IF e \in R THEN [entry[e] EXCEPT !.evicted = TRUE] ELSE entry[e]]
      /\ call' = [call EXCEPT ![c].kind = "close", ![c].doomed = D]
      /\ UNCHANGED <<order, session, head, acked, calls>>
  BY Zenon DEF Close, Goto, cacheVars
<1>3. /\ call \in [Callers -> Call] /\ call[c] \in Call /\ pc \in [Callers -> PC]
      /\ resident \in Seq(DOMAIN entry) /\ entry \in Seq(Entry)
  BY <1>1 DEF ReadsTypeOK
<1>4. /\ DOMAIN entry \subseteq Nat \ {0} /\ R \subseteq DOMAIN entry
      /\ \A g \in DOMAIN entry : entry[g] \in Entry
  BY <1>3, Indices
<1>5. call[c].entry = 0 /\ call[c].closing = {} /\ call[c].tearing = 0 /\ call[c].doomed = {}
  BY <1>1, <1>2 DEF CarriedBy, Outside, Settled
<1>6. D \subseteq R /\ \A e \in R : e \in D <=> entry[e].refs = 0
  BY DEF Evictable
<1> HIDE DEF R, D
<1>7. DOMAIN entry' = DOMAIN entry
  BY Zenon, <1>2
<1>8. \A g \in DOMAIN entry : entry'[g] \in Entry /\ entry'[g].key = entry[g].key
                              /\ entry'[g].refs = entry[g].refs /\ entry'[g].vfs = entry[g].vfs
                              /\ entry'[g].evicted = (entry[g].evicted \/ g \in R)
  <2> SUFFICES ASSUME NEW g \in DOMAIN entry
               PROVE  entry'[g] \in Entry /\ entry'[g].key = entry[g].key
                              /\ entry'[g].refs = entry[g].refs /\ entry'[g].vfs = entry[g].vfs
                              /\ entry'[g].evicted = (entry[g].evicted \/ g \in R)
    OBVIOUS
  <2>1. entry[g] \in Entry
    BY <1>4
  <2>2. CASE g \in R
    BY Zenon, <1>2, <2>1, <2>2 DEF Entry
  <2>3. CASE g \notin R
    BY <1>2, <2>1, <2>3 DEF Entry
  <2> QED BY Zenon, <2>2, <2>3
<1>9. \A g \in DOMAIN entry : entry'[g].evicted
  <2>1. \A g \in DOMAIN entry : entry[g].evicted \/ g \in R
    BY <1>1 DEF Registered, R
  <2> QED BY Zenon, <1>8, <2>1
<1>10. entry' \in Seq(Entry)
  <2>1. Len(entry) \in Nat /\ DOMAIN entry = 1..Len(entry)
    BY <1>3, LenProperties
  <2>2. entry' \in [1..Len(entry) -> Entry]
    BY Zenon, <1>2, <1>7, <1>8, <2>1
  <2> QED BY <2>1, <2>2, SeqDef
<1>11. Kept
  BY <1>2, <1>7, <1>8 DEF Kept
<1>12. /\ call' \in [Callers -> Call]
       /\ call'[c].entry = call[c].entry /\ call'[c].doomed = D
       /\ call'[c].tearing = call[c].tearing /\ call'[c].closing = call[c].closing
  <2>1. D \subseteq Nat
    BY <1>4, <1>6
  <2>2. call' = [call EXCEPT ![c] = [call[c] EXCEPT !.kind = "close", !.doomed = D]]
    BY Zenon, <1>2
  <2>3. [call[c] EXCEPT !.kind = "close", !.doomed = D] \in Call
    BY Zenon, <1>3, <2>1 DEF Call, Kind
  <2> QED BY Zenon, <1>3, <2>2, <2>3 DEF Call
<1>13. pc' \in [Callers -> PC] /\ pc'[c] = "shut"
  BY <1>2, <1>3 DEF PC
<1>14. Others(c)
  BY <1>2, <1>3 DEF Others
<1>15. /\ resident' \in Seq(DOMAIN entry') /\ Len(resident') = 0
       /\ Once(resident') /\ Range(resident') = {}
  BY <1>2 DEF Once, Range
<1>16. ReadsTypeOK'
  <2>1. \A d \in Callers : call'[d].closing \subseteq DOMAIN session'
    BY Zenon, <1>1, <1>2, <1>12, <1>14 DEF ReadsTypeOK, Others
  <2>2. Len(resident') <= Limit
    BY <1>15, LimitAssumption
  <2> QED BY Zenon, <1>1, <1>2, <1>7, <1>10, <1>12, <1>13, <1>15, <2>1, <2>2 DEF ReadsTypeOK
<1>17. Registered'
  BY Zenon, <1>2, <1>7, <1>9, <1>15 DEF Registered
<1>18. \A d \in Callers \ {c} : Takes(d)' = Takes(d)
  BY <1>14 DEF Takes, Others
<1>19. Takes(c)' = D
  BY Zenon, <1>5, <1>12 DEF Takes
<1>20. Condemned'
  <2>1. \A g \in D : g \in DOMAIN entry' /\ entry'[g].evicted /\ entry'[g].refs = 0
    BY Zenon, <1>4, <1>6, <1>7, <1>8, <1>9
  <2>2. \A d \in Callers \ {c} : \A g \in Takes(d)' : g \in DOMAIN entry' /\ entry'[g].evicted /\ entry'[g].refs = 0
    BY ZenonT(30), <1>1, <1>7, <1>8, <1>9, <1>18 DEF Condemned
  <2> QED BY <1>19, <2>1, <2>2 DEF Condemned
<1>21. CarriedBy(c)'
  BY Zenon, <1>5, <1>12, <1>13 DEF CarriedBy, Outside, Settled
<1>22. RefsExact'
  <2>1. \A g : Users(g)' = Users(g)
    BY <1>12, <1>14 DEF Users, Others
  <2> QED BY Zenon, <1>1, <1>7, <1>8, <2>1 DEF RefsExact
<1>23. \A d \in Callers : call[d].doomed \subseteq call'[d].doomed /\ call'[d].tearing = call[d].tearing
  BY Zenon, <1>5, <1>12, <1>14 DEF Others
<1>24. \A g \in R : entry'[g].refs > 0 \/ g \in call'[c].doomed
  <2>1. \A g \in R : entry[g].refs \in Nat
    BY <1>4 DEF Entry
  <2> QED BY <1>4, <1>6, <1>8, <1>12, <2>1
<1>25. VFSHeld'
  <2> SUFFICES ASSUME NEW g \in DOMAIN entry, entry'[g].vfs
               PROVE  \/ entry'[g].refs > 0
                      \/ \E d \in Callers : g \in call'[d].doomed \cup {call'[d].tearing}
    BY <1>7, Zenon DEF VFSHeld
  <2>1. CASE g \in R
    BY <1>24, <2>1
  <2>2. CASE g \notin R
    <3>1. entry[g].refs > 0 \/ \E d \in Callers : g \in call[d].doomed \cup {call[d].tearing}
      BY Zenon, <1>1, <1>8, <2>2 DEF VFSHeld, R
    <3> QED BY Zenon, <1>8, <1>23, <3>1
  <2> QED BY <2>1, <2>2
<1>26. \A k : Covers(k) => Covers(k)'
  <2> SUFFICES ASSUME NEW k, NEW g \in DOMAIN entry, entry[g].key = k,
                      ~entry[g].evicted \/ entry[g].refs > 0 \/ \E d \in Callers : g \in call[d].doomed
               PROVE  entry'[g].refs > 0 \/ \E d \in Callers : g \in call'[d].doomed
    BY <1>7, <1>8 DEF Covers
  <2>1. CASE g \in R
    BY <1>24, <2>1
  <2>2. CASE g \notin R
    <3>1. entry[g].evicted
      BY <1>1, <2>2 DEF Registered, R
    <3> QED BY Zenon, <1>8, <1>23, <3>1
  <2> QED BY Zenon, <2>1, <2>2
<1>27. pc[c] \notin {"fresh", "put"}
  BY <1>2
<1> QED BY Zenon, <1>2, <1>11, <1>12, <1>14, <1>15, <1>16, <1>17, <1>20, <1>21, <1>22, <1>25, <1>26, <1>27,
           RegistryStep

-----------------------------------------------------------------------------
LEMMA ReadsInitInv == Init => ReadsInv
<1> SUFFICES ASSUME Init PROVE ReadsInv
  OBVIOUS
<1> USE DEF Init
<1>1. /\ entry = <<>> /\ session = <<>> /\ resident = <<>> /\ order = <<>>
      /\ DOMAIN entry = {} /\ DOMAIN session = {} /\ Range(order) = {} /\ Range(resident) = {}
  BY DEF Range
<1>2. (CHOOSE k \in Keys : TRUE) \in Keys
  BY Zenon, KeysAssumption
<1>3. NewCall("read", CHOOSE k \in Keys : TRUE) \in Call
  BY Zenon, <1>2 DEF NewCall, Call, Kind
<1>4. \A c \in Callers : /\ call[c].entry = 0 /\ call[c].closing = {}
                         /\ call[c].tearing = 0 /\ call[c].doomed = {}
                         /\ pc[c] = "idle"
  BY Zenon DEF NewCall
<1>5. ReadsTypeOK
  <2>1. call \in [Callers -> Call] /\ pc \in [Callers -> PC]
    BY <1>3 DEF PC
  <2>2. Limit \in Nat /\ MaxCalls \in Nat
    BY LimitAssumption, CallersAssumption
  <2>3. head \in [Keys -> Nat] /\ acked \in [Keys -> Nat] /\ closed \in BOOLEAN /\ calls \in 0..MaxCalls
    <3>1. head \in [Keys -> Nat] /\ acked \in [Keys -> Nat]
      OBVIOUS
    <3>2. calls \in 0..MaxCalls
      BY <2>2
    <3>3. closed \in BOOLEAN
      BY Zenon
    <3> QED BY <3>1, <3>2, <3>3
  <2>4. /\ entry \in Seq(Entry) /\ session \in Seq(Session) /\ resident \in Seq(DOMAIN entry)
        /\ order \in Seq(DOMAIN session) /\ Len(resident) <= Limit /\ Len(order) <= Limit
    BY <1>1, <2>2
  <2> QED BY Zenon, <1>1, <1>4, <2>1, <2>3, <2>4 DEF ReadsTypeOK
<1>6. Lists
  BY Zenon, <1>1 DEF Lists, Once
<1>7. Registered /\ RefsExact /\ VFSHeld /\ SessionsHeld /\ Covered
  BY Zenon, <1>1 DEF Registered, RefsExact, VFSHeld, SessionsHeld, Covered
<1>8. Condemned
  BY Zenon, <1>4 DEF Condemned, Takes
<1>9. Carried
  BY Zenon, <1>4 DEF Carried, CarriedBy, Outside, Settled
<1> QED BY <1>5, <1>6, <1>7, <1>8, <1>9 DEF ReadsInv

LEMMA ReadsNextInv == ReadsInv /\ [Next]_vars => ReadsInv'
<1> SUFFICES ASSUME ReadsInv, [Next]_vars PROVE ReadsInv'
  OBVIOUS
<1>1. CASE UNCHANGED vars
  <2> USE <1>1 DEF vars, ReadsInv
  <2>1. ReadsTypeOK' /\ Lists'
    BY Zenon DEF ReadsTypeOK, Lists, Once, KeyOf
  <2>2. Registered' /\ Condemned' /\ Carried'
    BY Zenon DEF Registered, Condemned, Takes, Carried, CarriedBy
  <2>3. RefsExact' /\ VFSHeld'
    BY Zenon DEF RefsExact, Users, VFSHeld
  <2>4. SessionsHeld' /\ Covered'
    BY Zenon DEF SessionsHeld, Using, Covered, Covers, KeyOf
  <2> QED BY <2>1, <2>2, <2>3, <2>4
<1>2. CASE Next
  <2>1. PICK c \in Callers : \/ \E k \in Keys : Start(c, "read", k) \/ Start(c, "write", k)
                             \/ Close(c) \/ Step(c)
    BY <1>2 DEF Next
  <2>2. CASE \E k \in Keys : Start(c, "read", k) \/ Start(c, "write", k)
    BY <2>2, StartKeeps
  <2>3. CASE Close(c)
    BY <2>3, CloseKeeps
  <2>4. CASE Step(c)
    <3>1. CASE CloseSession(c) \/ TearEvict(c) \/ TearClose(c)
      BY Zenon, <3>1, CloseSessionKeeps, TearEvictKeeps, TearCloseKeeps
    <3>2. CASE EnterHit(c) \/ EnterMiss(c) \/ Release(c)
      BY <3>2, EnterHitKeeps, EnterMissKeeps, ReleaseKeeps
    <3>3. CASE Get(c) \/ Evict(c) \/ Put(c) \/ CloseCache(c) \/ OpenRead(c)
      BY Zenon, <3>3, GetKeeps, EvictKeeps, PutKeeps, CloseCacheKeeps, OpenReadKeeps
    <3>4. CASE RunHit(c) \/ RunEnds(c) \/ FreshEnds(c)
      BY <3>4, CallbackKeeps
    <3>5. CASE EnterFails(c) \/ ReadManifest(c) \/ ReadEndsEarly(c) \/ Commit(c) \/ Return(c)
      BY <3>5, PassesKeeps
    <3> QED BY Zenon, <2>4, <3>1, <3>2, <3>3, <3>4, <3>5 DEF Step
  <2> QED BY Zenon, <2>1, <2>2, <2>3, <2>4
<1> QED BY <1>1, <1>2

LEMMA ReadsInvariant == ReadsSpec => []ReadsInv
<1>1. Init => ReadsInv
  BY ReadsInitInv
<1>2. ReadsInv /\ [Next]_vars => ReadsInv'
  BY ReadsNextInv
<1> QED BY <1>1, <1>2, PTL DEF ReadsSpec

\* The registry and the cache never exceed MaxReadInstances, and every list,
\* entry and session has its type (database, Cache.Put).
THEOREM ReadsTypes == ReadsSpec => []ReadsTypeOK
<1>1. ReadsInv => ReadsTypeOK
  BY DEF ReadsInv
<1> QED BY <1>1, ReadsInvariant, PTL

\* The reference count of a database is the number of calls that use it, and
\* its VFS stays registered as long as there is one (database,
\* releaseDatabase, teardownDatabase).
THEOREM ReadsRefsExact == ReadsSpec => []RefsExact
<1>1. ReadsInv => RefsExact
  BY Zenon DEF ReadsInv
<1> QED BY <1>1, ReadsInvariant, PTL

\* A registered VFS is resident, in use or about to be torn down, and an open
\* session is cached, in the hands of the call that opened it or about to be
\* closed (teardownDatabase, Cache.Put, Cache.Close).
THEOREM ReadsNothingLeaks == ReadsSpec => []NothingLeaks
<1>1. ReadsInv => NothingLeaks
  BY DEF ReadsInv, NothingLeaks, VFSHeld, SessionsHeld
<1> QED BY <1>1, ReadsInvariant, PTL

\* Once Close and the calls that were in flight have returned, no session is
\* open and no VFS is registered (Close, releaseDatabase).
THEOREM ReadsShutdownClean == ReadsSpec => []ShutdownClean
<1>1. ReadsInv => ShutdownClean
  <2> SUFFICES ASSUME ReadsInv, closed, \A c \in Callers : pc[c] = "idle"
               PROVE  /\ \A s \in DOMAIN session : ~session[s].open
                      /\ \A e \in DOMAIN entry : ~entry[e].vfs
    BY DEF ShutdownClean
  <2>1. ReadsTypeOK /\ Registered /\ Carried /\ RefsExact /\ VFSHeld /\ SessionsHeld /\ Covered
    BY Zenon DEF ReadsInv
  <2>2. \A c \in Callers : /\ call[c].entry = 0 /\ call[c].closing = {} /\ call[c].tearing = 0
                           /\ call[c].doomed = {} /\ Using(c) = {}
    BY Zenon, <2>1 DEF Carried, CarriedBy, Outside, Settled, Using
  <2>3. DOMAIN entry \subseteq Nat \ {0} /\ DOMAIN session \subseteq Nat \ {0}
    BY <2>1, Indices DEF ReadsTypeOK
  <2>4. Range(resident) = {}
    BY <2>1 DEF Registered, Range
  <2>5. \A e \in DOMAIN entry : entry[e].refs = 0 /\ entry[e].evicted
    <3>1. \A e \in DOMAIN entry : Users(e) = {}
      BY <2>2, <2>3 DEF Users
    <3>2. Cardinality({}) = 0
      BY FS_EmptySet
    <3> QED BY Zenon, <2>1, <2>4, <3>1, <3>2 DEF RefsExact, Registered
  <2>6. \A e \in DOMAIN entry : ~entry[e].vfs
    <3> SUFFICES ASSUME NEW e \in DOMAIN entry, entry[e].vfs PROVE FALSE
      OBVIOUS
    <3>1. e \notin Range(resident) /\ ~(entry[e].refs > 0) /\ e # 0
      BY <2>3, <2>4, <2>5
    <3>2. \A c \in Callers : e \notin call[c].doomed \cup {call[c].tearing}
      BY Zenon, <2>2, <3>1
    <3> QED BY Zenon, <2>1, <3>1, <3>2 DEF VFSHeld
  <2>7. \A k : ~Covers(k)
    BY <2>2, <2>5 DEF Covers
  <2>8. Range(order) = {}
    BY Zenon, <2>1, <2>7 DEF Covered
  <2>9. \A s \in DOMAIN session : ~session[s].open
    BY <2>1, <2>2, <2>8 DEF SessionsHeld
  <2> QED BY <2>6, <2>9
<1> QED BY <1>1, ReadsInvariant, PTL
=============================================================================
