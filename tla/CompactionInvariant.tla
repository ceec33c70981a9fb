------------------------ MODULE CompactionInvariant ------------------------
(***************************************************************************)
(* The inductive invariant of Compaction, beside any number of writers and *)
(* passes, and its preservation by the steps of writers and by the PUTs of *)
(* theirs that take effect late.                                           *)
(*                                                                         *)
(* Types come first, and hold without a hypothesis; CompactionInv is about *)
(* behaviours in which a PUT ends before the next grant (~LatePut), no     *)
(* garbage is collected (~WithGC) and a pass drops only files that a       *)
(* higher level covers (SupersededCovered).  The runs writer_late and      *)
(* compaction_gc show what goes wrong without the first two, and README.md *)
(* the sequence that goes wrong without the third.                         *)
(***************************************************************************)
EXTENDS Compaction, SequenceTheorems, WellFoundedInduction, TLAPS

-----------------------------------------------------------------------------
\* Least and greatest elements.
LEMMA LeastNat ==
    ASSUME NEW T \in SUBSET Nat, T # {}
    PROVE  \E x \in T : \A y \in T : x <= y
<1> DEFINE R == {ss \in Nat \X Nat : ss[1] < ss[2]}
<1>1. IsWellFoundedOn(R, Nat)
  BY NatLessThanWellFounded DEF OpToRel
<1>2. PICK x \in T : \A y \in T : ~(<<y, x>> \in R)
  <2> HIDE DEF R
  <2> QED
    BY Zenon, <1>1, WFMin
<1>3. \A y \in T : ~(y < x)
  BY Zenon, <1>2
<1> QED
  BY <1>3

LEMMA GreatestNat ==
    ASSUME NEW n \in Nat, NEW T \in SUBSET (0..n), T # {}
    PROVE  \E x \in T : \A y \in T : y <= x
<1> DEFINE U == {m \in Nat : m <= n /\ n - m \in T}
<1>1. PICK z \in T : TRUE
  BY Zenon
<1>2. n - z \in U
  BY <1>1
<1>3. U \in SUBSET Nat /\ U # {}
  BY Zenon, <1>2
<1> HIDE DEF U
<1>4. PICK m \in U : \A k \in U : m <= k
  BY <1>3, LeastNat
<1>5. m \in Nat /\ n - m \in T
  BY <1>4 DEF U
<1>6. \A y \in T : n - y \in U
  BY DEF U
<1>7. \A y \in T : y <= n - m
  BY <1>4, <1>5, <1>6
<1> QED
  BY <1>5, <1>7

-----------------------------------------------------------------------------
\* What the operators of Replica give for a list of files.
LEMMA FileIs ==
    ASSUME NEW f \in File
    PROVE  /\ f.level \in 0..TopLevel /\ f.min \in 1..MaxTx /\ f.max \in 1..MaxTx
           /\ f.level \in Nat /\ f.min \in Nat /\ f.max \in Nat
           /\ f.min <= f.max /\ 1 <= f.min /\ f.max <= MaxTx
           /\ f = [level |-> f.level, min |-> f.min, max |-> f.max]
BY LevelAssumption DEF File, Level, TXID

LEMMA MaxTXIDIs ==
    ASSUME NEW X \in SUBSET File
    PROVE  /\ ManifestMaxTXID(X) \in 0..MaxTx
           /\ \A f \in X : f.max <= ManifestMaxTXID(X)
           /\ ManifestMaxTXID(X) = 0 \/ \E f \in X : f.max = ManifestMaxTXID(X)
           /\ X # {} => \E f \in X : f.max = ManifestMaxTXID(X)
<1> DEFINE T == {0} \cup {f.max : f \in X}
<1>1. T \in SUBSET (0..MaxTx) /\ 0 \in T /\ MaxTx \in Nat
  BY LevelAssumption, FileIs
<1>2. \E x \in T : \A y \in T : y <= x
  BY Zenon, <1>1, GreatestNat
<1>3. ManifestMaxTXID(X) \in T /\ \A y \in T : y <= ManifestMaxTXID(X)
  <2> HIDE DEF T
  <2>1. ManifestMaxTXID(X) = CHOOSE n \in T : \A m \in T : m <= n
    BY DEF ManifestMaxTXID, Highest, T
  <2> QED
    BY <1>2, <2>1
<1>4. \A f \in X : f.max <= ManifestMaxTXID(X) /\ f.max >= 1
  BY <1>3, FileIs
<1> QED
  BY <1>1, <1>3, <1>4, FileIs

\* The TXIDs of a file.
Within(t, f) == f.min <= t /\ t <= f.max

LEMMA CoversIs ==
    ASSUME NEW X, NEW t
    PROVE  ManifestCovers(X, t) <=> \E f \in X : Within(t, f)
BY DEF ManifestCovers, Covering, Within

LEMMA ReachIs ==
    ASSUME NEW X \in SUBSET File
    PROVE  /\ Reach(X) \in 0..MaxTx
           /\ \A t \in 1..Reach(X) : ManifestCovers(X, t)
           /\ ~ManifestCovers(X, Reach(X) + 1)
<1> DEFINE T == {n \in Nat : ~ManifestCovers(X, n + 1)}
<1>1. MaxTx \in T /\ MaxTx \in Nat
  BY LevelAssumption, FileIs, CoversIs DEF Within
<1>2. PICK n \in T : \A m \in T : n <= m
  BY Zenon, <1>1, LeastNat
<1>3. \A t \in 1..n : ManifestCovers(X, t)
  <2> SUFFICES ASSUME NEW t \in 1..n, ~ManifestCovers(X, t) PROVE FALSE
    OBVIOUS
  <2>1. t - 1 \in Nat /\ (t - 1) + 1 = t
    OBVIOUS
  <2>2. t - 1 \in T
    BY <2>1
  <2> QED
    BY <1>2, <2>2
<1>4. n \in 0..MaxTx /\ ~ManifestCovers(X, n + 1)
  BY <1>1, <1>2
<1> QED
  BY <1>3, <1>4 DEF Reach

LEMMA SourceIs ==
    ASSUME NEW X \in SUBSET File, NEW t, ManifestCovers(X, t)
    PROVE  /\ Source(X, t) \in X /\ Within(t, Source(X, t))
           /\ \A g \in X : Within(t, g) =>
                 g.max < Source(X, t).max \/ (g.max = Source(X, t).max /\ g.level <= Source(X, t).level)
<1> DEFINE S == Covering(X, t)
           Best(f) == \A g \in S : g.max < f.max \/ (g.max = f.max /\ g.level <= f.level)
<1>1. S \in SUBSET File /\ S # {}
  BY DEF ManifestCovers, Covering
<1> HIDE DEF S
<1>2. PICK e \in S : \A g \in S : g.max <= e.max
  <2> DEFINE T == {g.max : g \in S}
  <2>1. T \in SUBSET (0..MaxTx) /\ T # {} /\ MaxTx \in Nat
    BY <1>1, FileIs, LevelAssumption
  <2>2. PICK x \in T : \A y \in T : y <= x
    BY Zenon, <2>1, GreatestNat
  <2> QED
    BY <2>2
<1>3. PICK f \in S : f.max = e.max /\ \A g \in S : g.max = e.max => g.level <= f.level
  <2> DEFINE T == {g.level : g \in {h \in S : h.max = e.max}}
  <2>1. T \in SUBSET (0..TopLevel) /\ T # {} /\ TopLevel \in Nat
    BY <1>1, FileIs, LevelAssumption
  <2>2. PICK x \in T : \A y \in T : y <= x
    BY Zenon, <2>1, GreatestNat
  <2> QED
    BY <2>2
<1>4. Best(f)
  BY <1>1, <1>2, <1>3, FileIs
<1>5. Source(X, t) = CHOOSE g \in S : Best(g)
  BY DEF Source, S
<1> HIDE DEF Best
<1>6. Source(X, t) \in S /\ Best(Source(X, t))
  BY <1>4, <1>5
<1> QED
  BY <1>6 DEF Best, S, Covering, Within

LEMMA MergedFileIs ==
    ASSUME NEW s \in SUBSET File, s # {}, NEW l \in Level
    PROVE  LET m == MergedFile(s, l)
           IN  /\ m \in File /\ m.level = l
               /\ \E f \in s : m.min = f.min
               /\ \E f \in s : m.max = f.max
               /\ \A f \in s : m.min <= f.min /\ f.max <= m.max
               /\ m.min = MergedFile(s, 0).min /\ m.max = MergedFile(s, 0).max
<1> DEFINE m == MergedFile(s, l)
           T == {f.min : f \in s}
<1>1. T \in SUBSET Nat /\ T # {}
  BY FileIs
<1>2. PICK f \in s : \A g \in s : f.min <= g.min
  <2>1. PICK x \in T : \A y \in T : x <= y
    BY Zenon, <1>1, LeastNat
  <2> QED
    BY <2>1
<1>3. m.min = CHOOSE n \in T : \A g \in s : n <= g.min
  BY DEF MergedFile
<1>4. m.min \in T /\ \A g \in s : m.min <= g.min
  <2> DEFINE P(n) == \A g \in s : n <= g.min
  <2>1. f.min \in T /\ P(f.min)
    BY <1>2
  <2>2. m.min = CHOOSE n \in T : P(n)
    BY <1>3
  <2> HIDE DEF P, T, m
  <2>3. m.min \in T /\ P(m.min)
    BY <2>1, <2>2
  <2> QED
    BY <2>3 DEF P
<1>5. m.max = ManifestMaxTXID(s) /\ m.level = l
  BY DEF MergedFile
<1>6. m.min = MergedFile(s, 0).min /\ m.max = MergedFile(s, 0).max
  BY DEF MergedFile
<1>7. m = [level |-> m.level, min |-> m.min, max |-> m.max]
  BY DEF MergedFile
<1> HIDE DEF m
<1>8. PICK h \in s : h.max = m.max
  BY <1>5, MaxTXIDIs
<1>9. PICK e \in s : m.min = e.min
  BY <1>4
<1>10. \A g \in s : g.max <= m.max
  BY <1>5, MaxTXIDIs
<1>11. m.min \in TXID /\ m.max \in TXID /\ m.min <= m.max
  <2>1. e \in File /\ h \in File
    BY <1>8, <1>9
  <2>2. m.min <= h.min
    BY <1>4
  <2> QED
    BY <1>8, <1>9, <2>1, <2>2, FileIs DEF TXID
<1>12. m \in File
  BY <1>5, <1>7, <1>11 DEF File
<1> QED
  BY <1>4, <1>5, <1>6, <1>8, <1>9, <1>10, <1>12 DEF m

-----------------------------------------------------------------------------
\* Where the mutation of an attempt is in the chain already.
Written(w) ==
    \/ pc[w] \in {"dedupe", "flushed", "index"}
    \/ pc[w] \in {"list", "put"} /\ att[w].mode # "repair"
    \/ pc[w] = "releasing" /\ att[w].fate = "ack"

\* A mutation that is in the chain, or on its way into it, has a TXID.
Numbered(w) == Written(w) \/ pc[w] \in {"run", "flush"} => att[w].txid \in TXID

Typed == CompactionTypeOK /\ \A w \in Writers : Numbered(w)

\* Nobody but w moves.
OwnStep(w) ==
    /\ pc'[w] \in PC /\ pc' = [pc EXCEPT ![w] = pc'[w]]
    /\ att'[w] \in Attempt /\ att' = [att EXCEPT ![w] = att'[w]]

\* What the attempt of w keeps whatever else the step sets.
Same(w) == att'[w].key = att[w].key /\ att'[w].has = att[w].has

LEMMA Typeds ==
    ASSUME Typed
    PROVE  /\ pc \in [Writers -> PC] /\ att \in [Writers -> Attempt]
           /\ \A w \in Writers : att[w] \in Attempt /\ Numbered(w)
           /\ DOMAIN objects \in SUBSET File /\ manifest.files \in SUBSET File
           /\ manifest.exists \in BOOLEAN
           /\ cpc \in [Compactors -> PassPC] /\ pass \in [Compactors -> Pass]
           /\ \A c \in Compactors : pass[c] \in Pass
           /\ calls \in Nat /\ faults \in Nat /\ passes \in Nat /\ LeaseTypeOK
BY Zenon DEF Typed, CompactionTypeOK, WriterTypeOK

LEMMA AttemptIs ==
    ASSUME NEW a \in Attempt
    PROVE  /\ a.key \in Keys /\ a.has \in BOOLEAN /\ a.files \in SUBSET File /\ a.level \in Nat
           /\ a.mode \in Mode /\ a.txid \in 0..MaxTx /\ a.fate \in Fate /\ a.job \in SUBSET File
BY Zenon DEF Attempt

LEMMA Moves ==
    ASSUME Typed, NEW w \in Writers, NEW l \in PC, Goto(w, l)
    PROVE  pc'[w] = l /\ pc'[w] \in PC /\ pc' = [pc EXCEPT ![w] = pc'[w]]
BY Zenon, Typeds DEF Goto

LEMMA Sets ==
    ASSUME Typed, NEW w \in Writers, NEW a \in Attempt, att' = [att EXCEPT ![w] = a]
    PROVE  att'[w] = a /\ att'[w] \in Attempt /\ att' = [att EXCEPT ![w] = att'[w]]
BY Zenon, Typeds

LEMMA PlainMoves ==
    ASSUME Typed, NEW w \in Writers, NEW l \in PC, Goto(w, l), UNCHANGED att
    PROVE  OwnStep(w) /\ pc'[w] = l /\ att'[w] = att[w]
<1>1. att' = [att EXCEPT ![w] = att[w]] /\ att[w] \in Attempt
  BY Typeds
<1> QED
  BY Zenon, <1>1, Moves, Sets DEF OwnStep

LEMMA NewMoves ==
    ASSUME Typed, NEW w \in Writers, NEW k \in Keys, att' = [att EXCEPT ![w] = NewAttempt(k)],
           Goto(w, "acquire")
    PROVE  OwnStep(w) /\ pc'[w] = "acquire" /\ ~att'[w].has
<1>1. NewAttempt(k) \in Attempt /\ ~NewAttempt(k).has
  BY LevelAssumption DEF NewAttempt, Attempt, Mode, Fate
<1>2. att'[w] = NewAttempt(k) /\ att'[w] \in Attempt /\ att' = [att EXCEPT ![w] = att'[w]]
  BY Zenon, <1>1, Sets
<1>3. pc'[w] = "acquire" /\ pc'[w] \in PC /\ pc' = [pc EXCEPT ![w] = pc'[w]]
  BY Zenon, Moves DEF PC
<1> QED
  BY Zenon, <1>1, <1>2, <1>3 DEF OwnStep

LEMMA ReleaseMoves ==
    ASSUME Typed, NEW w \in Writers, NEW fate \in Fate, NEW job \in SUBSET File,
           ReleaseAfter(w, fate, job)
    PROVE  /\ OwnStep(w) /\ Same(w) /\ pc'[w] = "releasing"
           /\ att'[w].fate = fate /\ att'[w].txid = att[w].txid
<1> DEFINE a == [att[w] EXCEPT !.fate = fate, !.job = job]
<1>1. att[w] \in Attempt
  BY Zenon, Typeds
<1>2. /\ a \in Attempt /\ a.fate = fate
      /\ a.key = att[w].key /\ a.has = att[w].has /\ a.txid = att[w].txid
  BY Zenon, <1>1 DEF Attempt
<1>3. att' = [att EXCEPT ![w] = a]
  BY Zenon, Typeds DEF ReleaseAfter
<1> HIDE DEF a
<1>4. att'[w] = a /\ att'[w] \in Attempt /\ att' = [att EXCEPT ![w] = att'[w]]
  BY Zenon, <1>2, <1>3, Sets
<1>5. pc'[w] = "releasing" /\ pc'[w] \in PC /\ pc' = [pc EXCEPT ![w] = pc'[w]]
  BY Zenon, Moves DEF PC, ReleaseAfter
<1> QED
  BY Zenon, <1>2, <1>4, <1>5 DEF OwnStep, Same

LEMMA ListingMoves ==
    ASSUME Typed, NEW w \in Writers, NEW mode \in Mode, StartListing(w, mode)
    PROVE  /\ OwnStep(w) /\ Same(w) /\ pc'[w] = "list" /\ att'[w].mode = mode
           /\ att'[w].files = {} /\ att'[w].level = 0 /\ att'[w].txid = att[w].txid
<1> DEFINE a == [att[w] EXCEPT !.files = {}, !.level = 0, !.mode = mode]
<1>1. att[w] \in Attempt /\ 0 \in Nat /\ {} \in SUBSET File
  BY Zenon, Typeds, LevelAssumption
<1>2. /\ a \in Attempt /\ a.files = {} /\ a.level = 0 /\ a.mode = mode
      /\ a.key = att[w].key /\ a.has = att[w].has /\ a.txid = att[w].txid
  BY Zenon, <1>1 DEF Attempt
<1>3. att' = [att EXCEPT ![w] = a]
  BY Zenon, Typeds DEF StartListing
<1> HIDE DEF a
<1>4. att'[w] = a /\ att'[w] \in Attempt /\ att' = [att EXCEPT ![w] = att'[w]]
  BY Zenon, <1>2, <1>3, Sets
<1>5. pc'[w] = "list" /\ pc'[w] \in PC /\ pc' = [pc EXCEPT ![w] = pc'[w]]
  BY Zenon, Moves DEF PC, StartListing
<1> QED
  BY Zenon, <1>2, <1>4, <1>5 DEF OwnStep, Same

LEMMA ReadMoves ==
    ASSUME Typed, NEW w \in Writers, ReadManifest(w)
    PROVE  /\ OwnStep(w)
           /\ \/ ~manifest.exists /\ pc'[w] = "open" /\ att'[w] = att[w]
              \/ /\ manifest.exists /\ pc'[w] = "probe"
                 /\ att'[w].has /\ att'[w].files = manifest.files
<1>1. CASE ~manifest.exists
  BY Zenon, <1>1, PlainMoves DEF ReadManifest, PC
<1>2. CASE manifest.exists
  <2> DEFINE a == [att[w] EXCEPT !.has = TRUE, !.files = manifest.files]
  <2>1. att[w] \in Attempt /\ manifest.files \in SUBSET File
    BY Zenon, Typeds
  <2>2. a \in Attempt /\ a.has = TRUE /\ a.files = manifest.files
    BY Zenon, <2>1 DEF Attempt
  <2>3. att' = [att EXCEPT ![w] = a] /\ Goto(w, "probe")
    BY Zenon, Typeds, <1>2 DEF ReadManifest
  <2> HIDE DEF a
  <2>4. att'[w] = a /\ att'[w] \in Attempt /\ att' = [att EXCEPT ![w] = att'[w]]
    BY Zenon, <2>2, <2>3, Sets
  <2>5. pc'[w] = "probe" /\ pc'[w] \in PC /\ pc' = [pc EXCEPT ![w] = pc'[w]]
    BY Zenon, <2>3, Moves DEF PC
  <2> QED
    BY Zenon, <1>2, <2>2, <2>4, <2>5 DEF OwnStep
<1> QED
  BY <1>1, <1>2

LEMMA BuildMoves ==
    ASSUME Typed, NEW w \in Writers, BuildManifest(w)
    PROVE  /\ OwnStep(w) /\ Same(w) /\ att'[w].txid = att[w].txid /\ att'[w].mode = att[w].mode
           /\ att'[w].files = att[w].files \cup AtLevel(DOMAIN objects, att[w].level)
           /\ \/ att[w].level = TopLevel /\ pc'[w] = "put"
              \/ att[w].level # TopLevel /\ pc'[w] = "list" /\ att'[w].level = att[w].level + 1
<1> DEFINE X == att[w].files \cup AtLevel(DOMAIN objects, att[w].level)
           l == IF att[w].level = TopLevel THEN 0 ELSE att[w].level + 1
           a == [att[w] EXCEPT !.files = X, !.level = l]
           p == IF att[w].level = TopLevel THEN "put" ELSE "list"
<1>1. att[w] \in Attempt /\ att[w].level \in Nat
  BY Zenon, Typeds, AttemptIs
<1>2. X \in SUBSET File
  BY Zenon, <1>1, Typeds, AttemptIs DEF AtLevel
<1>3. l \in Nat /\ p \in PC
  BY <1>1 DEF PC
<1>4. att' = [att EXCEPT ![w] = a] /\ Goto(w, p)
  BY Zenon, Typeds DEF BuildManifest
<1>5. l = IF att[w].level = TopLevel THEN 0 ELSE att[w].level + 1
  OBVIOUS
<1>6. X = att[w].files \cup AtLevel(DOMAIN objects, att[w].level)
  OBVIOUS
<1> HIDE DEF X, l
<1>7. /\ a \in Attempt /\ a.files = X /\ a.level = l /\ a.mode = att[w].mode
      /\ a.key = att[w].key /\ a.has = att[w].has /\ a.txid = att[w].txid
  BY Zenon, <1>1, <1>2, <1>3 DEF Attempt
<1> HIDE DEF a
<1>8. att'[w] = a /\ att'[w] \in Attempt /\ att' = [att EXCEPT ![w] = att'[w]]
  BY Zenon, <1>4, <1>7, Sets
<1>9. pc'[w] = p /\ pc'[w] \in PC /\ pc' = [pc EXCEPT ![w] = pc'[w]]
  BY Zenon, <1>3, <1>4, Moves
<1> QED
  BY Zenon, <1>5, <1>6, <1>7, <1>8, <1>9 DEF OwnStep, Same

LEMMA FlushedMoves ==
    ASSUME Typed, NEW w \in Writers, pc[w] = "flushed", Goto(w, "index"),
           att' = [att EXCEPT ![w].files = ApplyManifestDelta(@, {L0(att[w].txid)}, {})]
    PROVE  /\ OwnStep(w) /\ Same(w) /\ pc'[w] = "index" /\ att'[w].txid = att[w].txid
           /\ att'[w].files = att[w].files \cup {L0(att[w].txid)}
<1> DEFINE X == att[w].files \cup {L0(att[w].txid)}
           a == [att[w] EXCEPT !.files = X]
<1>1. att[w] \in Attempt /\ att[w].files \in SUBSET File /\ att[w].txid \in TXID
  BY Zenon, Typeds, AttemptIs DEF Numbered, Written
<1>2. L0(att[w].txid) \in File
  BY <1>1, LevelAssumption DEF L0, File, Level, TXID
<1>3. X \in SUBSET File
  BY Zenon, <1>1, <1>2
<1>4. att' = [att EXCEPT ![w] = a]
  <2>1. ApplyManifestDelta(att[w].files, {L0(att[w].txid)}, {}) = X
    BY DEF ApplyManifestDelta
  <2> HIDE DEF X
  <2> QED
    BY Zenon, <2>1, Typeds
<1>5. X = att[w].files \cup {L0(att[w].txid)}
  OBVIOUS
<1> HIDE DEF X
<1>6. a \in Attempt /\ a.files = X /\ a.key = att[w].key /\ a.has = att[w].has /\ a.txid = att[w].txid
  BY Zenon, <1>1, <1>3 DEF Attempt
<1> HIDE DEF a
<1>7. att'[w] = a /\ att'[w] \in Attempt /\ att' = [att EXCEPT ![w] = att'[w]]
  BY Zenon, <1>4, <1>6, Sets
<1>8. pc'[w] = "index" /\ pc'[w] \in PC /\ pc' = [pc EXCEPT ![w] = pc'[w]]
  BY Zenon, Moves DEF PC
<1> QED
  BY Zenon, <1>5, <1>6, <1>7, <1>8 DEF OwnStep, Same

LEMMA TXIDMoves ==
    ASSUME Typed, NEW w \in Writers, NEW n \in TXID, NEW l \in PC, Goto(w, l),
           att' = [att EXCEPT ![w].txid = n]
    PROVE  /\ OwnStep(w) /\ Same(w) /\ pc'[w] = l /\ att'[w].txid = n
           /\ att'[w].files = att[w].files
<1> DEFINE a == [att[w] EXCEPT !.txid = n]
<1>1. att[w] \in Attempt /\ n \in 0..MaxTx
  BY Typeds DEF TXID
<1>2. a \in Attempt /\ a.files = att[w].files /\ a.key = att[w].key /\ a.has = att[w].has /\ a.txid = n
  BY Zenon, <1>1 DEF Attempt
<1>3. att' = [att EXCEPT ![w] = a]
  BY Zenon, Typeds
<1> HIDE DEF a
<1>4. att'[w] = a /\ att'[w] \in Attempt /\ att' = [att EXCEPT ![w] = att'[w]]
  BY Zenon, <1>2, <1>3, Sets
<1> QED
  BY Zenon, <1>2, <1>4, Moves DEF OwnStep, Same
-----------------------------------------------------------------------------
\* What a session shows that opens on files it can read.
LEMMA RestoreIs ==
    ASSUME Typed, NEW X \in SUBSET File, Plan(X) \subseteq DOMAIN objects
    PROVE  LET db == Restore(X, objects)
           IN  /\ DOMAIN db = 1..Reach(X) /\ Len(db) = Reach(X)
               /\ \A t \in 1..Reach(X) :
                     /\ Source(X, t) \in X \cap DOMAIN objects /\ Within(t, Source(X, t))
                     /\ db[t] = objects[Source(X, t)][t] /\ db[t] \in Tx
<1> DEFINE db == Restore(X, objects)
           n == Reach(X)
<1>1. n \in Nat /\ \A t \in 1..n : ManifestCovers(X, t)
  BY ReachIs
<1>2. db = [t \in 1..n |-> objects[Source(X, t)][t]]
  BY DEF Restore
<1>3. \A t \in 1..n : Source(X, t) \in DOMAIN objects
  BY Zenon DEF Plan
<1> HIDE DEF n
<1>4. ASSUME NEW t \in 1..n
      PROVE  /\ Source(X, t) \in X /\ Within(t, Source(X, t))
             /\ objects[Source(X, t)][t] \in Tx
  <2>1. Source(X, t) \in X /\ Within(t, Source(X, t))
    BY Zenon, <1>1, SourceIs
  <2>2. Source(X, t) \in File /\ t \in Nat
    BY <1>1, <2>1
  <2>3. t \in Source(X, t).min..Source(X, t).max
    BY <2>1, <2>2, FileIs DEF Within
  <2>4. objects[Source(X, t)] \in [Source(X, t).min..Source(X, t).max -> Tx]
    BY Zenon, <1>3 DEF Typed, CompactionTypeOK, WriterTypeOK
  <2> QED
    BY Zenon, <2>1, <2>3, <2>4
<1>5. db \in Seq(Tx)
  BY <1>1, <1>2, <1>4
<1>6. Len(db) \in Nat /\ DOMAIN db = 1..Len(db)
  BY <1>5, LenProperties
<1>7. DOMAIN db = 1..n
  BY <1>2
<1>8. Len(db) = n
  <2>1. \A a, b \in Nat : 1..a = 1..b => a = b
    OBVIOUS
  <2> QED
    BY Zenon, <1>1, <1>6, <1>7, <2>1
<1> QED
  BY Zenon, <1>2, <1>3, <1>4, <1>7, <1>8 DEF n

LEMMA OpenMoves ==
    ASSUME Typed, NEW w \in Writers, OpenWrite(w)
    PROVE  LET X == OpenFiles(w)
           IN  /\ X \in SUBSET File /\ Plan(X) \subseteq DOMAIN objects
               /\ OwnStep(w) /\ Same(w) /\ att'[w].files = att[w].files /\ att'[w].txid \in TXID
               /\ \/ /\ pc'[w] = "dedupe"
                     /\ \E t \in 1..Reach(X) : /\ objects[Source(X, t)][t].key = att[w].key
                                               /\ att'[w].txid = objects[Source(X, t)][t].txid
                  \/ /\ pc'[w] = "run" /\ att'[w].txid = Reach(X) + 1
                     /\ \A t \in 1..Reach(X) : objects[Source(X, t)][t].key # att[w].key
<1> DEFINE X == OpenFiles(w)
           db == Restore(X, objects)
<1>1. att[w].files \in SUBSET File /\ DOMAIN objects \in SUBSET File
  BY Zenon, Typeds, AttemptIs
<1>2. X \in SUBSET File /\ Plan(X) \subseteq DOMAIN objects
  BY <1>1 DEF OpenFiles, OpenWrite, Openable
<1>3. \/ /\ Holds(db, att[w].key)
         /\ att' = [att EXCEPT ![w].txid = Recorded(db, att[w].key)]
         /\ Goto(w, "dedupe")
      \/ /\ ~Holds(db, att[w].key)
         /\ Len(db) < MaxTx
         /\ att' = [att EXCEPT ![w].txid = NextTXID(db)]
         /\ Goto(w, "run")
  BY Zenon DEF OpenWrite
<1> HIDE DEF X
<1>4. /\ DOMAIN db = 1..Reach(X) /\ Len(db) = Reach(X)
      /\ \A t \in 1..Reach(X) : db[t] = objects[Source(X, t)][t] /\ db[t] \in Tx
  BY Zenon, <1>2, RestoreIs
<1>5. Reach(X) \in 0..MaxTx /\ MaxTx \in Nat
  BY Zenon, <1>2, ReachIs, LevelAssumption
<1> HIDE DEF db
<1>6. CASE /\ Holds(db, att[w].key)
           /\ att' = [att EXCEPT ![w].txid = Recorded(db, att[w].key)]
           /\ Goto(w, "dedupe")
  <2> DEFINE t == CHOOSE u \in DOMAIN db : db[u].key = att[w].key
  <2>1. t \in DOMAIN db /\ db[t].key = att[w].key
    BY <1>6 DEF Holds
  <2>2. Recorded(db, att[w].key) = db[t].txid
    BY DEF Recorded
  <2> HIDE DEF t
  <2>3. db[t].txid \in TXID
    BY Zenon, <1>4, <2>1 DEF Tx
  <2>4. /\ OwnStep(w) /\ Same(w) /\ pc'[w] = "dedupe" /\ att'[w].txid = db[t].txid
        /\ att'[w].files = att[w].files
    BY Zenon, <1>6, <2>2, <2>3, TXIDMoves DEF PC
  <2> QED
    BY Zenon, <1>2, <1>4, <2>1, <2>3, <2>4 DEF X
<1>7. CASE /\ ~Holds(db, att[w].key)
           /\ Len(db) < MaxTx
           /\ att' = [att EXCEPT ![w].txid = NextTXID(db)]
           /\ Goto(w, "run")
  <2>1. NextTXID(db) = Reach(X) + 1 /\ NextTXID(db) \in TXID
    BY <1>4, <1>5, <1>7 DEF NextTXID, TXID
  <2>2. /\ OwnStep(w) /\ Same(w) /\ pc'[w] = "run" /\ att'[w].txid = NextTXID(db)
        /\ att'[w].files = att[w].files
    BY Zenon, <1>7, <2>1, TXIDMoves DEF PC
  <2>3. \A t \in 1..Reach(X) : db[t].key # att[w].key
    BY Zenon, <1>4, <1>7 DEF Holds
  <2> QED
    BY Zenon, <1>2, <1>4, <2>1, <2>2, <2>3 DEF X
<1> QED
  BY Zenon, <1>3, <1>6, <1>7

-----------------------------------------------------------------------------
\* What a step of c does to the lease.
LeaseStep(c) ==
    \/ UNCHANGED leaseVars
    \/ Grant(c)
    \/ Enter(c)
    \/ Quit(c)
    \/ Free

LEMMA LeaseTypes ==
    ASSUME LeaseTypeOK, NEW c \in Clients, LeaseStep(c)
    PROVE  LeaseTypeOK'
<1>1. epoch' \in Nat /\ safe' \in [Clients -> Nat]
  BY DEF LeaseTypeOK, LeaseStep, leaseVars, Grant, Enter, Quit, Free
<1>2. owner' \in Clients \cup {NoOwner}
  BY DEF LeaseTypeOK, LeaseStep, leaseVars, Grant, Enter, Quit, Free
<1>3. taken' \in BOOLEAN
  BY Zenon DEF LeaseTypeOK, LeaseStep, leaseVars, Grant, Enter, Quit, Free
<1> QED
  BY Zenon, <1>1, <1>2, <1>3 DEF LeaseTypeOK

LEMMA Faults ==
    ASSUME faults \in Nat, Fault \/ UNCHANGED faults
    PROVE  faults' \in Nat
BY DEF Fault

\* What a step of w does to the storage and to the acknowledgements.
Stores(w) ==
    /\ UNCHANGED objects \/ (pc[w] = "flush" /\ PutFile(Mutation(w)))
    /\ UNCHANGED strayFile \/ (pc[w] = "flush" /\ strayFile' = strayFile \cup {Mutation(w)})
    /\ UNCHANGED manifest \/ manifest' = Manifest(att[w].files)
    /\ UNCHANGED strayManifest \/ strayManifest' = strayManifest \cup {att[w].files}
    /\ \/ UNCHANGED acked
       \/ /\ pc[w] = "releasing" /\ att[w].fate = "ack"
          /\ acked' = acked \cup {[key |-> att[w].key, txid |-> att[w].txid]}

LEMMA StoresSteps ==
    ASSUME Typed, NEW w \in Writers,
           (\E k \in Keys : Call(w, k)) \/ Progress(w) \/ Failure(w)
    PROVE  Stores(w) /\ LeaseStep(w) /\ calls' \in Nat /\ faults' \in Nat
<1>1. calls \in Nat /\ faults \in Nat
  BY Zenon, Typeds
<1>2. CASE \E k \in Keys : Call(w, k)
  BY <1>1, <1>2 DEF Call, Stores, LeaseStep, leaseVars, storage
<1>3. CASE AcquireLands(w) \/ Acquired(w) \/ Retry(w) \/ AcquireFails(w) \/ GiveUp(w)
  BY Zenon, <1>1, <1>3, Faults
    DEF AcquireLands, Acquired, Retry, AcquireFails, GiveUp, TakeLease,
     Stores, LeaseStep, leaseVars, storage
<1>4. CASE ReadManifest(w) \/ TailTXID(w) \/ BuildManifest(w) \/ OpenWrite(w) \/ Run(w) \/ Flushed(w)
  BY Zenon, <1>1, <1>4
    DEF ReadManifest, TailTXID, BuildManifest, OpenWrite, Run, Flushed,
     Stores, LeaseStep, leaseVars, storage
<1>5. CASE Dedupe(w) \/ RunStale(w) \/ FlushedStale(w) \/ RemoteFails(w) \/ RunFails(w)
  BY Zenon, <1>1, <1>5, Faults
    DEF Dedupe, RunStale, FlushedStale, RemoteFails, RunFails, Abandon,
     Release, ReleaseAfter, RequestFails, Stores, LeaseStep, leaseVars, storage
<1>6. CASE PutListing(w) \/ Index(w)
  BY Zenon, <1>1, <1>6 DEF PutListing, Index, ReleaseAfter, Stores, LeaseStep, leaseVars
<1>7. CASE PutListingFails(w) \/ IndexFails(w)
  BY Zenon, <1>1, <1>7, Faults
    DEF PutListingFails, IndexFails, ManifestUnconfirmed, Abandon,
     Release, ReleaseAfter, Stores, LeaseStep
<1>8. CASE Flush(w) \/ FlushFails(w)
  BY Zenon, <1>1, <1>8, Faults
    DEF Flush, FlushFails, FlushUnconfirmed, Abandon, Stores, LeaseStep, leaseVars
<1>9. CASE Released(w) \/ ReleaseConflict(w) \/ ReleaseFails(w)
  BY Zenon, <1>1, <1>9, Faults
    DEF Released, ReleaseConflict, ReleaseFails, Finish, Unreleased,
     Stores, LeaseStep, leaseVars, storage
<1>10. CASE Expire(w) \/ RenewLate(w)
  BY <1>1, <1>10, Faults DEF Expire, RenewLate, Leave, Quit, Stores, LeaseStep, storage
<1>11. CASE Crash(w)
  BY <1>1, <1>11, Faults DEF Crash, Stores, LeaseStep
<1> QED
  BY Zenon, <1>2, <1>3, <1>4, <1>5, <1>6, <1>7, <1>8, <1>9, <1>10, <1>11
    DEF Progress, Failure
\* Only w moves in its steps, and its mutation stays numbered.
LEMMA OwnSteps ==
    ASSUME Typed, NEW w \in Writers,
           (\E k \in Keys : Call(w, k)) \/ Progress(w) \/ Failure(w)
    PROVE  OwnStep(w) /\ Numbered(w)'
<1>1. att[w] \in Attempt /\ att[w].key \in Keys /\ att[w].files \in SUBSET File /\ Numbered(w)
  BY Zenon, Typeds, AttemptIs
<1>2. ASSUME NEW l \in {"idle", "granted", "read", "open", "retry"}, Goto(w, l), UNCHANGED att
      PROVE  OwnStep(w) /\ Numbered(w)'
  <2>1. OwnStep(w) /\ pc'[w] = l
    BY Zenon, <1>2, PlainMoves DEF PC
  <2> QED
    BY Zenon, <1>2, <2>1 DEF Numbered, Written
<1>3. ASSUME NEW fate \in Fate, NEW job \in SUBSET File, ReleaseAfter(w, fate, job),
             fate = "ack" => Written(w)
      PROVE  OwnStep(w) /\ Numbered(w)'
  <2>1. OwnStep(w) /\ pc'[w] = "releasing" /\ att'[w].fate = fate /\ att'[w].txid = att[w].txid
    BY Zenon, <1>3, ReleaseMoves
  <2> QED
    BY Zenon, <1>1, <1>3, <2>1 DEF Numbered, Written
<1>4. ASSUME NEW mode \in Mode, StartListing(w, mode), mode # "repair" => Written(w)
      PROVE  OwnStep(w) /\ Numbered(w)'
  <2>1. OwnStep(w) /\ pc'[w] = "list" /\ att'[w].mode = mode /\ att'[w].txid = att[w].txid
    BY Zenon, <1>4, ListingMoves
  <2> QED
    BY Zenon, <1>1, <1>4, <2>1 DEF Numbered, Written
<1>5. ASSUME NEW k \in Keys, att' = [att EXCEPT ![w] = NewAttempt(k)], Goto(w, "acquire")
      PROVE  OwnStep(w) /\ Numbered(w)'
  <2>1. OwnStep(w) /\ pc'[w] = "acquire"
    BY Zenon, <1>5, NewMoves
  <2> QED
    BY Zenon, <2>1 DEF Numbered, Written
<1>6. CASE (\E k \in Keys : Call(w, k)) \/ Retry(w)
  BY Zenon, <1>1, <1>5, <1>6 DEF Call, Retry
<1>7. CASE AcquireLands(w) \/ Acquired(w) \/ AcquireFails(w) \/ GiveUp(w) \/ RunStale(w) \/ FlushedStale(w)
           \/ FlushFails(w) \/ IndexFails(w) \/ Crash(w)
  BY Zenon, <1>2, <1>7
    DEF AcquireLands, Acquired, AcquireFails, GiveUp, RunStale, FlushedStale,
     FlushFails, IndexFails, Crash, Abandon
<1>8. CASE Released(w) \/ ReleaseConflict(w) \/ ReleaseFails(w)
  <2>1. PICK fate : Finish(w, fate)
    BY Zenon, <1>8 DEF Released, ReleaseConflict, ReleaseFails
  <2> QED
    BY Zenon, <1>2, <2>1 DEF Finish
<1>9. CASE ReadManifest(w)
  BY <1>9, ReadMoves, <1>2 DEF Numbered, Written
<1>10. CASE TailTXID(w)
  BY Zenon, <1>2, <1>4, <1>10 DEF TailTXID, Mode
<1>11. CASE BuildManifest(w)
  <2>1. pc[w] = "list" /\ OwnStep(w) /\ att'[w].txid = att[w].txid /\ att'[w].mode = att[w].mode
        /\ pc'[w] \in {"list", "put"}
    BY Zenon, <1>11, BuildMoves DEF BuildManifest
  <2> QED
    BY Zenon, <1>1, <2>1 DEF Numbered, Written
<1>12. CASE PutListing(w)
  <2>1. CASE att[w].mode = "repair"
    BY Zenon, <1>2, <1>12, <2>1 DEF PutListing
  <2>2. CASE att[w].mode # "repair"
    <3>1. PICK job \in SUBSET File : ReleaseAfter(w, "ack", job)
      BY Zenon, <1>1, <1>12, <2>2 DEF PutListing
    <3> QED
      BY Zenon, <1>3, <1>12, <2>2, <3>1 DEF PutListing, Written, Fate
  <2> QED
    BY Zenon, <2>1, <2>2
<1>13. CASE PutListingFails(w) \/ RemoteFails(w)
  <2>1. PICK fate \in Fate : ReleaseAfter(w, fate, {}) /\ (fate = "ack" => Written(w))
    BY <1>13 DEF PutListingFails, RemoteFails, Release, Written, Fate
  <2> QED
    BY Zenon, <1>3, <2>1
<1>14. CASE RunFails(w)
  <2>1. PICK fate \in Fate : ReleaseAfter(w, fate, {}) /\ fate # "ack"
    BY <1>14 DEF RunFails, Release, Fate
  <2> QED
    BY Zenon, <1>3, <2>1
<1>15. CASE OpenWrite(w)
  <2>1. OwnStep(w) /\ att'[w].txid \in TXID
    BY Zenon, <1>15, OpenMoves
  <2> QED
    BY Zenon, <2>1 DEF Numbered
<1>16. CASE Dedupe(w)
  <2>1. Written(w) /\ {} \in SUBSET File
    BY Zenon, <1>16 DEF Dedupe, Written
  <2>2. (\E mode \in Mode : StartListing(w, mode)) \/ ReleaseAfter(w, "ack", {})
    BY Zenon, <1>16 DEF Dedupe, Mode, Release
  <2> QED
    BY Zenon, <1>3, <1>4, <2>1, <2>2 DEF Fate
<1>17. CASE Run(w) \/ Flush(w)
  <2>1. /\ \/ pc[w] = "run" /\ Goto(w, "flush")
           \/ pc[w] = "flush" /\ Goto(w, "flushed")
        /\ UNCHANGED att
    BY Zenon, <1>17 DEF Run, Flush
  <2>2. OwnStep(w) /\ pc'[w] \in {"flush", "flushed"} /\ att'[w] = att[w]
    BY Zenon, <2>1, PlainMoves DEF PC
  <2> QED
    BY Zenon, <1>1, <2>1, <2>2 DEF Numbered
<1>18. CASE Flushed(w)
  <2>1. Written(w)
    BY Zenon, <1>18 DEF Flushed, Written
  <2>2. CASE att[w].has
    <3>1. OwnStep(w) /\ pc'[w] = "index" /\ att'[w].txid = att[w].txid
      BY Zenon, <1>18, <2>2, FlushedMoves DEF Flushed
    <3> QED
      BY Zenon, <1>1, <2>1, <3>1 DEF Numbered
  <2>3. CASE ~att[w].has
    BY Zenon, <1>4, <1>18, <2>1, <2>3 DEF Flushed, Mode
  <2> QED
    BY Zenon, <2>2, <2>3
<1>19. CASE Index(w)
  BY Zenon, <1>1, <1>3, <1>19 DEF Index, Written, Fate
<1>20. CASE Expire(w) \/ RenewLate(w)
  <2>1. UNCHANGED <<pc, att>>
    BY Zenon, <1>20 DEF Expire, RenewLate
  <2>2. OwnStep(w)
    BY <2>1, Typeds DEF OwnStep
  <2> QED
    BY <1>1, <2>1, <2>2 DEF Numbered, Written
<1> QED
  BY Zenon, <1>6, <1>7, <1>8, <1>9, <1>10, <1>11, <1>12, <1>13, <1>14, <1>15, <1>16, <1>17,
     <1>18, <1>19, <1>20 DEF Progress, Failure

\* The type of the bodies of the objects.
Stored == DOMAIN objects \subseteq File /\ \A f \in DOMAIN objects : objects[f] \in [f.min..f.max -> Tx]

LEMMA L0Is ==
    ASSUME NEW t \in TXID
    PROVE  /\ L0(t) \in File /\ L0(t).level = 0 /\ L0(t).min = t /\ L0(t).max = t
           /\ L0(t).min..L0(t).max = {t}
BY LevelAssumption DEF L0, File, Level, TXID

LEMMA PutStored ==
    ASSUME Stored, NEW tx \in Tx, PutFile(tx)
    PROVE  Stored'
<1>1. tx.txid \in TXID
  BY Zenon DEF Tx
<1>2. /\ L0(tx.txid) \in File
      /\ [t \in {tx.txid} |-> tx] \in [L0(tx.txid).min..L0(tx.txid).max -> Tx]
  BY <1>1, L0Is
<1>3. DOMAIN objects' = DOMAIN objects \cup {L0(tx.txid)}
  BY DEF PutFile
<1>4. \A f \in DOMAIN objects' : objects'[f] =
          IF f = L0(tx.txid) THEN [t \in {tx.txid} |-> tx] ELSE objects[f]
  BY DEF PutFile
<1> QED
  BY Zenon, <1>2, <1>3, <1>4 DEF Stored

LEMMA WriterTypeStep ==
    ASSUME Typed, NEW w \in Writers,
           (\E k \in Keys : Call(w, k)) \/ Progress(w) \/ Failure(w)
    PROVE  WriterTypeOK' /\ \A v \in Writers : Numbered(v)'
<1>1. OwnStep(w) /\ Numbered(w)' /\ Stores(w) /\ LeaseStep(w) /\ calls' \in Nat /\ faults' \in Nat
  BY Zenon, OwnSteps, StoresSteps
<1>2. att[w].key \in Keys /\ att[w].files \in SUBSET File /\ Numbered(w)
  BY Zenon, Typeds, AttemptIs
<1>3. pc' \in [Writers -> PC] /\ att' \in [Writers -> Attempt]
  BY Zenon, <1>1, Typeds DEF OwnStep
<1>4. \A v \in Writers : Numbered(v)'
  BY <1>1, Typeds DEF OwnStep, Numbered, Written
<1>5. LeaseTypeOK'
  BY Zenon, <1>1, LeaseTypes, Typeds, WritersAssumption
<1>6. pc[w] = "flush" => Mutation(w) \in Tx
  BY <1>2, Typeds DEF Mutation, Numbered, Tx, LeaseTypeOK
<1>7. Stored'
  <2>1. Stored
    BY Zenon DEF Stored, Typed, CompactionTypeOK, WriterTypeOK
  <2>2. CASE UNCHANGED objects
    BY Zenon, <2>1, <2>2 DEF Stored
  <2> QED
    BY Zenon, <1>1, <1>6, <2>1, <2>2, PutStored DEF Stores
<1>8. strayFile' \subseteq Tx
  BY <1>1, <1>6 DEF Stores, Typed, CompactionTypeOK, WriterTypeOK
<1>9. manifest' \in [exists : BOOLEAN, files : SUBSET File]
  <2>1. Manifest(att[w].files) \in [exists : BOOLEAN, files : SUBSET File]
    BY Zenon, <1>2 DEF Manifest
  <2> QED
    BY Zenon, <1>1, <2>1 DEF Stores, Typed, CompactionTypeOK, WriterTypeOK
<1>10. strayManifest' \subseteq SUBSET File
  BY Zenon, <1>1, <1>2 DEF Stores, Typed, CompactionTypeOK, WriterTypeOK
<1>11. acked' \subseteq [key : Keys, txid : TXID]
  <2>1. Written(w) => [key |-> att[w].key, txid |-> att[w].txid] \in [key : Keys, txid : TXID]
    BY <1>2 DEF Numbered
  <2> QED
    BY <1>1, <2>1 DEF Stores, Written, Typed, CompactionTypeOK, WriterTypeOK
<1> QED
  BY Zenon, <1>1, <1>3, <1>4, <1>5, <1>7, <1>8, <1>9, <1>10, <1>11
    DEF WriterTypeOK, Stored

LEMMA LandTypeStep ==
    ASSUME Typed, StrayLands
    PROVE  WriterTypeOK' /\ \A v \in Writers : Numbered(v)'
<1>1. Stored /\ WriterTypeOK
  BY Zenon DEF Stored, Typed, CompactionTypeOK, WriterTypeOK
<1>2. UNCHANGED <<leaseVars, pc, att, acked, calls, faults>>
  BY Zenon DEF StrayLands, LandFile, LandManifest
<1>3. \A v \in Writers : Numbered(v)'
  BY <1>2, Typeds DEF Numbered, Written
<1>4. Stored'
  <2>1. CASE UNCHANGED objects
    BY Zenon, <1>1, <2>1 DEF Stored
  <2>2. ASSUME NEW tx \in strayFile, PutFile(tx) PROVE Stored'
    BY Zenon, <1>1, <2>2, PutStored DEF WriterTypeOK
  <2> QED
    BY Zenon, <2>1, <2>2 DEF StrayLands, LandFile, LandManifest
<1>5. strayFile' \subseteq Tx /\ strayManifest' \subseteq SUBSET File
  BY <1>1 DEF StrayLands, LandFile, LandManifest, WriterTypeOK
<1>6. manifest' \in [exists : BOOLEAN, files : SUBSET File]
  <2>1. \A X \in strayManifest : Manifest(X) \in [exists : BOOLEAN, files : SUBSET File]
    BY <1>1 DEF Manifest, WriterTypeOK
  <2> QED
    BY Zenon, <1>1, <2>1 DEF StrayLands, LandFile, LandManifest, WriterTypeOK
<1>7. LeaseTypeOK'
  BY <1>1, <1>2 DEF WriterTypeOK, LeaseTypeOK, leaseVars
<1>8. pc' \in [Writers -> PC] /\ att' \in [Writers -> Attempt] /\ acked' \subseteq [key : Keys, txid : TXID]
      /\ calls' \in Nat /\ faults' \in Nat
  BY Zenon, <1>1, <1>2 DEF WriterTypeOK
<1> QED
  BY Zenon, <1>3, <1>4, <1>5, <1>6, <1>7, <1>8 DEF WriterTypeOK, Stored
-----------------------------------------------------------------------------
\* Nobody but c moves, among the compactors.
OwnPass(c) ==
    /\ cpc'[c] \in PassPC /\ cpc' = [cpc EXCEPT ![c] = cpc'[c]]
    /\ pass'[c] \in Pass /\ pass' = [pass EXCEPT ![c] = pass'[c]]
    /\ lock' = lock \/ lock' = c \/ lock' = Nobody

LEMMA PassIs ==
    ASSUME NEW p \in Pass
    PROVE  /\ p.files \in SUBSET File /\ p.merged \in SUBSET File /\ p.level \in Nat
           /\ p.base \in SUBSET File /\ p.doomed \in SUBSET File
BY Zenon DEF Pass

LEMMA CMoves ==
    ASSUME Typed, NEW c \in Compactors, NEW l \in PassPC, CGoto(c, l)
    PROVE  cpc'[c] = l /\ cpc'[c] \in PassPC /\ cpc' = [cpc EXCEPT ![c] = cpc'[c]]
BY Zenon, Typeds DEF CGoto

LEMMA CSets ==
    ASSUME Typed, NEW c \in Compactors, NEW p \in Pass, pass' = [pass EXCEPT ![c] = p]
    PROVE  pass'[c] = p /\ pass'[c] \in Pass /\ pass' = [pass EXCEPT ![c] = pass'[c]]
BY Zenon, Typeds

LEMMA CPlain ==
    ASSUME Typed, NEW c \in Compactors, NEW l \in PassPC, CGoto(c, l), UNCHANGED pass,
           lock' = lock \/ lock' = c
    PROVE  OwnPass(c) /\ cpc'[c] = l /\ pass'[c] = pass[c]
<1>1. pass' = [pass EXCEPT ![c] = pass[c]] /\ pass[c] \in Pass
  BY Typeds
<1> QED
  BY Zenon, <1>1, CMoves, CSets DEF OwnPass

LEMMA CEnds ==
    ASSUME Typed, NEW c \in Compactors, EndPass(c)
    PROVE  /\ OwnPass(c) /\ cpc'[c] = "idle" /\ pass'[c] = NoPass
           /\ lock' = IF lock = c THEN Nobody ELSE lock
<1>1. NoPass \in Pass
  BY DEF NoPass, Pass
<1> QED
  BY Zenon, <1>1, CMoves, CSets DEF OwnPass, EndPass, PassPC

LEMMA CStarts ==
    ASSUME Typed, NEW c \in Compactors, StartPass(c)
    PROVE  /\ OwnPass(c) /\ cpc'[c] = "lock" /\ pass'[c].files = manifest.files
           /\ pass'[c].merged = pass[c].merged
<1> DEFINE p == [pass[c] EXCEPT !.files = manifest.files]
<1>1. pass[c] \in Pass /\ manifest.files \in SUBSET File
  BY Zenon, Typeds
<1>2. p \in Pass /\ p.files = manifest.files /\ p.merged = pass[c].merged
  BY Zenon, <1>1 DEF Pass
<1>3. pass' = [pass EXCEPT ![c] = p]
  BY Zenon, Typeds DEF StartPass
<1> HIDE DEF p
<1>4. pass'[c] = p /\ pass'[c] \in Pass /\ pass' = [pass EXCEPT ![c] = pass'[c]]
  BY Zenon, <1>2, <1>3, CSets
<1> QED
  BY Zenon, <1>2, <1>4, CMoves DEF OwnPass, StartPass, PassPC

LEMMA CRereads ==
    ASSUME Typed, NEW c \in Compactors, RereadManifest(c)
    PROVE  /\ OwnPass(c) /\ cpc'[c] = "put"
           /\ pass'[c].files = pass[c].files /\ pass'[c].merged = pass[c].merged
           /\ manifest.exists => pass'[c].base = manifest.files
<1> DEFINE X == IF manifest.exists THEN manifest.files ELSE pass[c].files
           p == [pass[c] EXCEPT !.base = X]
<1>1. pass[c] \in Pass /\ X \in SUBSET File /\ (manifest.exists => X = manifest.files)
  BY Zenon, Typeds, PassIs
<1>2. pass' = [pass EXCEPT ![c] = p]
  BY Zenon, Typeds DEF RereadManifest
<1> HIDE DEF X
<1>3. p \in Pass /\ p.base = X /\ p.files = pass[c].files /\ p.merged = pass[c].merged
  BY Zenon, <1>1 DEF Pass
<1> HIDE DEF p
<1>4. pass'[c] = p /\ pass'[c] \in Pass /\ pass' = [pass EXCEPT ![c] = pass'[c]]
  BY Zenon, <1>2, <1>3, CSets
<1> QED
  BY Zenon, <1>1, <1>3, <1>4, CMoves DEF OwnPass, RereadManifest, PassPC

\* GC reads the manifest, or settles what it deletes.
LEMMA CCollects ==
    ASSUME Typed, NEW c \in Compactors, GCRead(c) \/ GCList(c)
    PROVE  OwnPass(c)
<1>1. /\ pass[c] \in Pass /\ manifest.files \in SUBSET File
      /\ (DOMAIN objects \ pass[c].base) \cap aged \in SUBSET File
  BY Zenon, Typeds
<1>2. PICK p \in Pass : pass' = [pass EXCEPT ![c] = p]
  <2>1. CASE GCRead(c)
    <3> DEFINE p == [pass[c] EXCEPT !.base = manifest.files]
    <3>1. pass' = [pass EXCEPT ![c] = p]
      BY Zenon, <2>1, Typeds DEF GCRead
    <3>2. p \in Pass
      BY Zenon, <1>1 DEF Pass
    <3> QED
      BY Zenon, <3>1, <3>2
  <2>2. CASE GCList(c)
    <3> DEFINE X == (DOMAIN objects \ pass[c].base) \cap aged
               p == [pass[c] EXCEPT !.doomed = X]
    <3>1. pass' = [pass EXCEPT ![c] = p]
      BY Zenon, <2>2, Typeds DEF GCList
    <3>2. X \in SUBSET File
      BY Zenon, <1>1
    <3> HIDE DEF X
    <3>3. p \in Pass
      BY Zenon, <1>1, <3>2 DEF Pass
    <3> QED
      BY Zenon, <3>1, <3>3
  <2> QED
    BY <2>1, <2>2
<1>3. pass'[c] \in Pass /\ pass' = [pass EXCEPT ![c] = pass'[c]]
  BY Zenon, <1>2, CSets
<1> QED
  BY Zenon, <1>3, CMoves DEF OwnPass, GCRead, GCList, PassPC

\* A level of a pass: nothing to merge, or the files s of the pass are merged
\* into m.
MergesInto(c, s, m) ==
    /\ s \in SUBSET Current(c) /\ s \subseteq DOMAIN objects
    /\ m \in File /\ \A f \in s : f.level = m.level - 1
    /\ \E f \in s : m.max = f.max
    /\ \A t \in m.min..m.max : Source(s, t) \in s /\ Within(t, Source(s, t))
    /\ objects' = [f \in DOMAIN objects \cup {m} |-> IF f = m THEN MergedBody(s, m) ELSE objects[f]]

LEMMA CMerges ==
    ASSUME Typed, NEW c \in Compactors, MergeLevel(c)
    PROVE  /\ OwnPass(c) /\ UNCHANGED cpc /\ pass'[c].files = pass[c].files
           /\ \/ UNCHANGED objects /\ pass'[c].merged = pass[c].merged
              \/ \E s, m : MergesInto(c, s, m) /\ pass'[c].merged = pass[c].merged \cup {m}
<1> DEFINE l == pass[c].level
           s == Mergeable(Current(c), l)
           m == MergedFile(s, l)
<1>1. pass[c] \in Pass /\ l \in Level /\ l \in Nat /\ Current(c) \in SUBSET File /\ 0 \in Level
  <2>1. pass[c] \in Pass /\ l \in Nat /\ Current(c) \in SUBSET File
    BY Zenon, Typeds, PassIs DEF Current
  <2> QED
    BY <2>1, LevelAssumption DEF MergeLevel, Level
<1>2. s \in SUBSET Current(c) /\ \A f \in s : f.level = l - 1
  BY Zenon DEF Mergeable, AtLevel
<1>3. \/ /\ s # {} /\ CanMerge(s)
         /\ objects' = [f \in DOMAIN objects \cup {m} |-> IF f = m THEN MergedBody(s, m) ELSE objects[f]]
         /\ pass' = [pass EXCEPT ![c].merged = @ \cup {m}, ![c].level = l + 1]
      \/ /\ pass' = [pass EXCEPT ![c].level = l + 1]
         /\ UNCHANGED objects
  BY Zenon DEF MergeLevel
<1>4. cpc'[c] \in PassPC /\ cpc' = [cpc EXCEPT ![c] = cpc'[c]] /\ UNCHANGED <<lock, cpc>>
  BY Typeds DEF MergeLevel
<1> HIDE DEF s
<1>5. CASE /\ s # {} /\ CanMerge(s)
           /\ objects' = [f \in DOMAIN objects \cup {m} |-> IF f = m THEN MergedBody(s, m) ELSE objects[f]]
           /\ pass' = [pass EXCEPT ![c].merged = @ \cup {m}, ![c].level = l + 1]
  <2>1. s \in SUBSET File /\ s # {}
    BY Zenon, <1>1, <1>2, <1>5
  <2>2. /\ m \in File /\ m.level = l /\ \E f \in s : m.max = f.max
        /\ m.min = MergedFile(s, 0).min /\ m.max = MergedFile(s, 0).max
    BY Zenon, <1>1, <2>1, MergedFileIs
  <2>3. ASSUME NEW t \in m.min..m.max PROVE Source(s, t) \in s /\ Within(t, Source(s, t))
    BY Zenon, <1>5, <2>1, <2>2, <2>3, SourceIs DEF CanMerge
  <2> DEFINE X == pass[c].merged \cup {m}
             n == l + 1
             p == [pass[c] EXCEPT !.merged = X, !.level = n]
  <2>4. pass' = [pass EXCEPT ![c] = p]
    BY Zenon, <1>5, Typeds
  <2>5. MergesInto(c, s, m)
    BY Zenon, <1>2, <1>5, <2>2, <2>3 DEF MergesInto, CanMerge
  <2> HIDE DEF m
  <2>6. X \in SUBSET File /\ n \in Nat
    BY <1>1, <2>2, PassIs
  <2>7. X = pass[c].merged \cup {m}
    OBVIOUS
  <2> HIDE DEF X, n
  <2>8. p \in Pass /\ p.files = pass[c].files /\ p.merged = X
    BY Zenon, <1>1, <2>6 DEF Pass
  <2> HIDE DEF p
  <2>9. pass'[c] = p /\ pass'[c] \in Pass /\ pass' = [pass EXCEPT ![c] = pass'[c]]
    BY Zenon, <2>4, <2>8, CSets
  <2> QED
    BY Zenon, <1>4, <2>5, <2>7, <2>8, <2>9 DEF OwnPass
<1>6. CASE pass' = [pass EXCEPT ![c].level = l + 1] /\ UNCHANGED objects
  <2> DEFINE n == l + 1
             p == [pass[c] EXCEPT !.level = n]
  <2>1. pass' = [pass EXCEPT ![c] = p]
    BY Zenon, <1>6, Typeds
  <2>2. n \in Nat
    BY <1>1
  <2> HIDE DEF n
  <2>3. p \in Pass /\ p.files = pass[c].files /\ p.merged = pass[c].merged
    BY Zenon, <1>1, <2>2 DEF Pass
  <2> HIDE DEF p
  <2>4. pass'[c] = p /\ pass'[c] \in Pass /\ pass' = [pass EXCEPT ![c] = pass'[c]]
    BY Zenon, <2>1, <2>3, CSets
  <2> QED
    BY Zenon, <1>4, <1>6, <2>3, <2>4 DEF OwnPass
<1> QED
  BY Zenon, <1>3, <1>5, <1>6

LEMMA MergeStored ==
    ASSUME Stored, NEW c \in Compactors, NEW s, NEW m, MergesInto(c, s, m)
    PROVE  Stored'
<1>1. m \in File /\ DOMAIN objects' = DOMAIN objects \cup {m}
  BY DEF MergesInto
<1>2. \A f \in DOMAIN objects' : objects'[f] = IF f = m THEN MergedBody(s, m) ELSE objects[f]
  BY DEF MergesInto
<1>3. MergedBody(s, m) \in [m.min..m.max -> Tx]
  <2> SUFFICES ASSUME NEW t \in m.min..m.max PROVE objects[Source(s, t)][t] \in Tx
    BY DEF MergedBody
  <2>1. Source(s, t) \in DOMAIN objects /\ Within(t, Source(s, t))
    BY Zenon DEF MergesInto
  <2>2. t \in Nat /\ Source(s, t) \in File
    BY <1>1, <2>1, FileIs DEF Stored
  <2>3. t \in Source(s, t).min..Source(s, t).max
    BY <2>1, <2>2, FileIs DEF Within
  <2> QED
    BY Zenon, <2>1, <2>3 DEF Stored
<1> QED
  BY Zenon, <1>1, <1>2, <1>3 DEF Stored
\* What a step of c does to the storage.
PassStores(c) ==
    /\ UNCHANGED <<strayFile, pc, att, acked, calls>>
    /\ UNCHANGED manifest \/ manifest' = Manifest(Final(c))
    /\ UNCHANGED strayManifest \/ strayManifest' = strayManifest \cup {Final(c)}
    /\ \/ UNCHANGED objects
       \/ \E s, m : MergesInto(c, s, m)
       \/ \E gone : objects' = [f \in DOMAIN objects \ gone |-> objects[f]]
    /\ aged' \subseteq aged /\ queued' \subseteq queued

LEMMA PassStoresSteps ==
    ASSUME Typed, NEW c \in Compactors, PassProgress(c) \/ PassFailure(c)
    PROVE  PassStores(c) /\ LeaseStep(c) /\ passes' \in Nat /\ faults' \in Nat
<1>1. passes \in Nat /\ faults \in Nat
  BY Zenon, Typeds
<1>2. CASE StartPass(c) \/ AcquireKey(c) \/ MergeEnds(c) \/ Merged(c)
  BY <1>1, <1>2 DEF StartPass, AcquireKey, MergeEnds, Merged, PassStores, LeaseStep, leaseVars, storage
<1>3. CASE MergeLevel(c)
  <2>1. UNCHANGED objects \/ \E s, m : MergesInto(c, s, m)
    BY Zenon, <1>3, CMerges
  <2> QED
    BY <1>1, <1>3, <2>1 DEF MergeLevel, PassStores, LeaseStep, leaseVars
<1>4. CASE CAcquireLands(c) \/ CAcquired(c) \/ RereadManifest(c) \/ CReleased(c)
  BY Zenon, <1>1, <1>4, Faults
    DEF CAcquireLands, CAcquired, RereadManifest, CReleased, TakeLease,
     PassStores, LeaseStep, leaseVars, storage
<1>5. CASE PutFinal(c) \/ PutFinalFails(c)
  BY <1>1, <1>5, Faults DEF PutFinal, PutFinalFails, ManifestUnconfirmed,
     PassStores, LeaseStep, leaseVars
<1>6. CASE DeleteFiles(c)
  <2>1. PICK gone : Delete(gone) /\ (UNCHANGED faults \/ Fault)
    BY Zenon, <1>6 DEF DeleteFiles
  <2>2. aged' \subseteq aged /\ objects' = [f \in DOMAIN objects \ gone |-> objects[f]] /\ faults' \in Nat
    BY Zenon, <1>1, <2>1, Faults DEF Delete
  <2>3. \E X : objects' = [f \in DOMAIN objects \ X |-> objects[f]]
    BY Zenon, <2>2
  <2> HIDE <2>1
  <2> QED
    BY Zenon, <1>1, <1>6, <2>2, <2>3 DEF DeleteFiles, PassStores, LeaseStep, leaseVars
<1>7. CASE GCRead(c) \/ GCList(c)
  BY <1>1, <1>7 DEF GCRead, GCList, PassStores, LeaseStep, leaseVars, storage
<1>8. CASE GCDelete(c)
  <2>1. aged' \subseteq aged /\ \E X : objects' = [f \in DOMAIN objects \ X |-> objects[f]]
    BY Zenon, <1>8 DEF GCDelete, Delete
  <2> QED
    BY Zenon, <1>1, <1>8, <2>1 DEF GCDelete, PassStores, LeaseStep, leaseVars
<1>9. CASE PassFails(c) \/ RereadFails(c) \/ PassCrash(c)
  BY Zenon, <1>1, <1>9, Faults
    DEF PassFails, RereadFails, PassCrash, RequestFails, PassStores,
     LeaseStep, leaseVars, storage
<1>10. CASE PassExpire(c)
  BY <1>1, <1>10, Faults DEF PassExpire, Leave, Quit, PassStores, LeaseStep, leaseVars, storage, passVars
<1> QED
  BY Zenon, <1>2, <1>3, <1>4, <1>5, <1>6, <1>7, <1>8, <1>9, <1>10
    DEF PassProgress, PassFailure

LEMMA OwnPasses ==
    ASSUME Typed, NEW c \in Compactors, PassProgress(c) \/ PassFailure(c)
    PROVE  OwnPass(c)
<1>1. ASSUME NEW l \in PassPC, CGoto(c, l), UNCHANGED pass, lock' = lock \/ lock' = c
      PROVE  OwnPass(c)
  BY Zenon, <1>1, CPlain
<1>2. CASE EndPass(c)
  BY Zenon, <1>2, CEnds
<1>3. CASE StartPass(c) \/ RereadManifest(c) \/ GCRead(c) \/ GCList(c) \/ MergeLevel(c)
  BY Zenon, <1>3, CStarts, CRereads, CCollects, CMerges
<1>4. CASE MergeEnds(c) \/ GCDelete(c) \/ PassFails(c) \/ PassCrash(c)
  BY Zenon, <1>2, <1>4 DEF MergeEnds, GCDelete, PassFails, PassCrash
<1>5. CASE AcquireKey(c) \/ Merged(c) \/ CAcquireLands(c) \/ CAcquired(c)
           \/ PutFinal(c) \/ PutFinalFails(c) \/ RereadFails(c)
  BY Zenon, <1>1, <1>5 DEF AcquireKey, Merged, CAcquireLands, CAcquired,
     PutFinal, PutFinalFails, RereadFails, PassPC
<1>6. CASE CReleased(c) \/ DeleteFiles(c)
  <2>1. EndPass(c) \/ \E l \in PassPC : CGoto(c, l) /\ UNCHANGED <<pass, lock>>
    BY Zenon, <1>6 DEF CReleased, DeleteFiles, PassPC
  <2> QED
    BY Zenon, <1>1, <1>2, <2>1
<1>7. CASE PassExpire(c)
  BY <1>7, Typeds DEF PassExpire, passVars, OwnPass
<1> QED
  BY Zenon, <1>3, <1>4, <1>5, <1>6, <1>7 DEF PassProgress, PassFailure

LEMMA PassTypeStep ==
    ASSUME Typed, NEW c \in Compactors, PassProgress(c) \/ PassFailure(c)
    PROVE  Typed'
<1>1. OwnPass(c) /\ PassStores(c) /\ LeaseStep(c) /\ passes' \in Nat /\ faults' \in Nat
  BY Zenon, OwnPasses, PassStoresSteps
<1>2. CompactionTypeOK /\ WriterTypeOK /\ Stored
  BY Zenon DEF Typed, CompactionTypeOK, WriterTypeOK, Stored
<1>3. cpc' \in [Compactors -> PassPC] /\ pass' \in [Compactors -> Pass]
  BY <1>1, Typeds DEF OwnPass
<1>4. LeaseTypeOK'
  BY Zenon, <1>1, LeaseTypes, Typeds, CompactorsAssumption
<1>5. Final(c) \in SUBSET File
  BY Zenon, Typeds, PassIs DEF Final, ApplyManifestDelta
<1>6. manifest' \in [exists : BOOLEAN, files : SUBSET File] /\ strayManifest' \subseteq SUBSET File
  <2>1. Manifest(Final(c)) \in [exists : BOOLEAN, files : SUBSET File]
    BY <1>5 DEF Manifest
  <2>2. manifest' \in [exists : BOOLEAN, files : SUBSET File]
    BY Zenon, <1>1, <1>2, <2>1 DEF PassStores, WriterTypeOK
  <2> QED
    BY Zenon, <1>1, <1>2, <1>5, <2>2 DEF PassStores, WriterTypeOK
<1>7. Stored'
  <2>1. CASE UNCHANGED objects
    BY Zenon, <1>2, <2>1 DEF Stored
  <2>2. ASSUME NEW s, NEW m, MergesInto(c, s, m) PROVE Stored'
    BY Zenon, <1>2, <2>2, MergeStored
  <2>3. ASSUME NEW gone, objects' = [f \in DOMAIN objects \ gone |-> objects[f]] PROVE Stored'
    BY Zenon, <1>2, <2>3 DEF Stored
  <2> QED
    BY Zenon, <1>1, <2>1, <2>2, <2>3 DEF PassStores
<1>8. /\ strayFile' \subseteq Tx /\ pc' \in [Writers -> PC] /\ att' \in [Writers -> Attempt]
      /\ acked' \subseteq [key : Keys, txid : TXID] /\ calls' \in Nat
  BY Zenon, <1>1, <1>2 DEF PassStores, WriterTypeOK
<1>9. aged' \subseteq File /\ queued' \subseteq Compactors
  BY Zenon, <1>1, <1>2 DEF PassStores, CompactionTypeOK
<1>10. lock' \in Compactors \cup {Nobody}
  BY Zenon, <1>1, <1>2 DEF OwnPass, CompactionTypeOK
<1>11. \A v \in Writers : Numbered(v)'
  BY Zenon, <1>1, Typeds DEF PassStores, Numbered, Written
<1> QED
  BY Zenon, <1>1, <1>3, <1>4, <1>6, <1>7, <1>8, <1>9, <1>10, <1>11
     DEF Typed, CompactionTypeOK, WriterTypeOK, Stored

LEMMA TypedInit == CompactionInit => Typed
<1> SUFFICES ASSUME CompactionInit PROVE Typed
  OBVIOUS
<1>1. WriterTypeOK
  <2>1. LeaseTypeOK
    BY Zenon DEF CompactionInit, WriterInit, LeaseInit, LeaseTypeOK
  <2>2. (CHOOSE k \in Keys : TRUE) \in Keys
    BY Zenon, KeysAssumption
  <2>3. NewAttempt(CHOOSE k \in Keys : TRUE) \in Attempt
    BY <2>2, LevelAssumption DEF NewAttempt, Attempt, Mode, Fate
  <2>4. pc \in [Writers -> PC] /\ att \in [Writers -> Attempt]
    BY Zenon, <2>3 DEF CompactionInit, WriterInit, PC
  <2>5. manifest \in [exists : BOOLEAN, files : SUBSET File]
    BY DEF CompactionInit, WriterInit, NoManifest
  <2>6. DOMAIN objects = {} /\ strayFile = {} /\ strayManifest = {} /\ acked = {} /\ calls = 0 /\ faults = 0
    BY DEF CompactionInit, WriterInit
  <2> QED
    BY <2>1, <2>4, <2>5, <2>6 DEF WriterTypeOK
<1>2. pass \in [Compactors -> Pass]
  <2>1. NoPass \in Pass
    BY DEF NoPass, Pass
  <2> QED
    BY Zenon, <2>1 DEF CompactionInit
<1>3. cpc \in [Compactors -> PassPC] /\ lock \in Compactors \cup {Nobody} /\ aged = {} /\ queued = {} /\ passes = 0
  BY DEF CompactionInit, PassPC
<1>4. \A w \in Writers : Numbered(w)
  BY DEF CompactionInit, WriterInit, Numbered, Written
<1> QED
  BY <1>1, <1>2, <1>3, <1>4 DEF Typed, CompactionTypeOK

LEMMA TypedNext == Typed /\ [CompactionNext]_compactionVars => Typed'
<1> SUFFICES ASSUME Typed, [CompactionNext]_compactionVars PROVE Typed'
  OBVIOUS
<1>1. CompactionTypeOK
  BY Zenon DEF Typed
<1>2. ASSUME WriterNext,
             aged' \subseteq File, lock' = lock, cpc' = cpc, pass' = pass,
           queued' \subseteq Compactors, passes' = passes
      PROVE  Typed'
  <2>1. WriterTypeOK' /\ \A v \in Writers : Numbered(v)'
    BY Zenon, <1>2, WriterTypeStep, LandTypeStep DEF WriterNext
  <2> QED
    BY Zenon, <1>1, <1>2, <2>1 DEF Typed, CompactionTypeOK
<1>3. CASE WriterNext /\ UNCHANGED passVars
  BY Zenon, <1>1, <1>2, <1>3 DEF passVars, CompactionTypeOK
<1>4. CASE \E w \in Writers : Released(w) /\ Enqueue(w)
  <2>1. PICK w \in Writers : Released(w) /\ Enqueue(w)
    BY Zenon, <1>4
  <2>2. queued' \subseteq Compactors /\ UNCHANGED <<aged, lock, cpc, pass, passes>>
    BY <1>1, <2>1 DEF Enqueue, CompactionTypeOK
  <2>3. WriterNext
    BY Zenon, <2>1 DEF WriterNext, Progress
  <2> QED
    BY Zenon, <1>1, <1>2, <2>2, <2>3 DEF CompactionTypeOK
<1>5. CASE \E c \in Compactors : PassProgress(c) \/ PassFailure(c)
  BY Zenon, <1>5, PassTypeStep
<1>6. CASE UNCHANGED <<leaseVars, storage, pc, att, acked, calls, faults, lock, cpc, pass, queued, passes>>
           /\ aged' \subseteq aged \cup DOMAIN objects
  <2>1. aged' \subseteq File
    BY Zenon, <1>1, <1>6 DEF CompactionTypeOK, WriterTypeOK
  <2>2. WriterTypeOK'
    BY <1>1, <1>6 DEF CompactionTypeOK, WriterTypeOK, LeaseTypeOK, leaseVars, storage
  <2>3. \A v \in Writers : Numbered(v)'
    BY Zenon, <1>6, Typeds DEF Numbered, Written
  <2> QED
    BY Zenon, <1>1, <1>6, <2>1, <2>2, <2>3 DEF Typed, CompactionTypeOK
<1>7. CASE \E f \in DOMAIN objects : Age(f)
  <2>1. UNCHANGED <<leaseVars, storage, pc, att, acked, calls, faults, lock, cpc, pass, queued, passes>>
        /\ aged' \subseteq aged \cup DOMAIN objects
    BY Zenon, <1>7 DEF Age
  <2> QED
    BY Zenon, <1>6, <2>1
<1>8. CASE UNCHANGED compactionVars
  BY <1>6, <1>8 DEF compactionVars, leaseVars, storage
<1> QED
  BY Zenon, <1>3, <1>4, <1>5, <1>7, <1>8 DEF CompactionNext

\* Every state of compaction beside the write protocol is well typed: a merged
\* file has a TXID range and a transaction at every TXID of it.
THEOREM CompactionTypes == CompactionSpec => []CompactionTypeOK
<1>1. Typed => CompactionTypeOK
  BY DEF Typed
<1> QED
  BY <1>1, TypedInit, TypedNext, PTL DEF CompactionSpec
-----------------------------------------------------------------------------
\* The last TXID of the replica, and what is committed in it.
Last == ManifestMaxTXID(DOMAIN objects)

Committed(k, t) == \E f \in DOMAIN objects : t \in f.min..f.max /\ objects[f][t].key = k
Unused(k) == \A f \in DOMAIN objects : \A t \in f.min..f.max : objects[f][t].key # k

\* A read sees the TXID: no manifest, or one that reaches it.
Visible(t) == manifest.exists => \E f \in manifest.files : t <= f.max

\* One list of files reaches as far as another; it covers the whole replica.
Under(X, Y) == \A f \in X : \E g \in Y : f.max <= g.max
Whole(X) == \A t \in 1..Last : ManifestCovers(X, t)

\* The lease fences: who may write is in its term, and who writes is.
Fenced ==
    /\ \A c \in Clients : safe[c] # 0 => InTerm(c)
    /\ \A w \in Writers : pc[w] = "flush" => InTerm(w)

\* The files cover the TXIDs without a hole, agree where they overlap, and hold
\* every key at one TXID.
Chained ==
    /\ Whole(DOMAIN objects)
    /\ FilesAgree
    /\ \A f \in DOMAIN objects : f.level = 0 => f.min = f.max
    /\ \A f \in DOMAIN objects : \A t \in f.min..f.max : objects[f][t].txid = t
    /\ \A f, g \in DOMAIN objects : \A t \in f.min..f.max : \A u \in g.min..g.max :
          objects[f][t].key = objects[g][u].key => t = u

\* A file that makes another one superfluous.
Above(g, f) == g.level > f.level /\ Contains(g, f)

\* A pass has swapped the manifest and may delete what it superseded; the files
\* it keeps for that.
Deleting(c) == cpc[c] \in {"releasing", "delete"}
Kept(c) == (Final(c) \ Sources(c)) \cap DOMAIN objects

\* A list of files, complete below level l, stays readable whatever a pass
\* deletes: a file of it that is gone is below one that exists, the TXIDs it
\* reaches are covered, and it has the files that a pass keeps.  What it lacks
\* is in a level that is not listed yet.
Shown(X, l, t) == ManifestCovers(X, t) \/ \E g \in DOMAIN objects : g.level >= l /\ Within(t, g)
Sound(X, l) ==
    /\ \A f \in X : f \in DOMAIN objects \/ \E g \in DOMAIN objects : Above(g, f) /\ (g \in X \/ g.level >= l)
    /\ \A f \in X : f.max <= Last /\ \A t \in 1..f.max : Shown(X, l, t)
    /\ \A c \in Compactors : Deleting(c) => \A g \in Kept(c) : g \in X \/ g.level >= l
Full(X) == Sound(X, TopLevel + 1)

Indexed ==
    /\ Full(manifest.files)
    /\ ~manifest.exists => manifest.files = {}
    /\ \A g \in DOMAIN objects : g.level > 0 => \E f \in manifest.files : g.max <= f.max

\* Who works under the lease.
Holding(w) == InTerm(w) /\ pc[w] \in HeldPC \cup {"granted"}
Swapping(c) == InTerm(c) /\ cpc[c] \in {"granted", "reread", "put"}

\* A PUT that may still take effect is the only one, nobody works under the
\* lease meanwhile, and it fits the replica.
Strays ==
    /\ strayFile # {} \/ strayManifest # {} =>
          (\A w \in Writers : ~Holding(w)) /\ (\A c \in Compactors : ~Swapping(c))
    /\ strayFile = {} \/ strayManifest = {}
    /\ \A tx \in strayFile : tx.txid = Last + 1 /\ Unused(tx.key) /\ strayFile = {tx}
    /\ \A X \in strayManifest :
          /\ Full(X) /\ Under(manifest.files, X) /\ (~manifest.exists => Whole(X))
          /\ strayManifest = {X}

\* What a writer in its term knows of the replica.
Knows(w) ==
    LET a == att[w] IN
    /\ pc[w] = "probe" => a.has /\ a.files = manifest.files
    /\ pc[w] \in {"open", "run", "flush"} =>
             IF a.has THEN Full(a.files) /\ Whole(a.files) ELSE ~manifest.exists
    /\ pc[w] = "dedupe" => a.has \/ ~manifest.exists
    /\ pc[w] \in {"list", "put"} /\ a.mode = "legacy" => ~manifest.exists
    /\ pc[w] \in {"list", "put"} /\ a.mode # "legacy" => a.has
    /\ pc[w] = "list" => Sound(a.files, a.level) /\ \A t \in 1..Last : Shown(a.files, a.level, t)
    /\ pc[w] \in {"put", "index"} => Full(a.files) /\ Whole(a.files)
    /\ pc[w] \in {"run", "flush"} => a.txid = Last + 1 /\ Unused(a.key)
    /\ pc[w] = "flushed" =>
         /\ a.txid = Last
         /\ IF a.has THEN /\ Full(a.files)
                          /\ \A t \in 1..(Last - 1) : ManifestCovers(a.files, t)
                          /\ \A f \in manifest.files : f.max < Last
                     ELSE ~manifest.exists
    /\ pc[w] = "releasing" /\ a.fate = "ack" => Visible(a.txid)

Attempts ==
    \A w \in Writers :
        /\ pc[w] \in {"acquire", "granted", "read"} => ~att[w].has
        /\ InTerm(w) => Knows(w)
        /\ Written(w) => Committed(att[w].key, att[w].txid)

Acknowledged == \A a \in acked : Committed(a.key, a.txid) /\ Visible(a.txid)

\* What a pass rests on.
Grounded(c) ==
    /\ cpc[c] \notin {"gcread", "gclist", "gcdelete"}
    /\ cpc[c] \notin {"idle", "lock"} => lock = c
    /\ cpc[c] \in {"idle", "lock"} => pass[c].merged = {}
    /\ cpc[c] # "idle" => manifest.exists /\ Under(Current(c), manifest.files)
    /\ cpc[c] \notin {"idle", "failing", "delete"} => pass[c].merged \subseteq DOMAIN objects
    /\ cpc[c] = "put" /\ InTerm(c) => pass[c].base = manifest.files
    /\ Deleting(c) =>
         /\ \A f \in Sources(c) : \E g \in Kept(c) : Above(g, f)
         /\ \A f \in Final(c) : f.max <= Last

Passes == \A c \in Compactors : Grounded(c)

CompactionInv ==
    /\ Typed
    /\ Fenced
    /\ Chained
    /\ Indexed
    /\ Strays
    /\ Attempts
    /\ Acknowledged
    /\ Passes
-----------------------------------------------------------------------------
LEMMA LevelNat ==
    TopLevel + 1 \in Nat
BY LevelAssumption

LEMMA InNat ==
    \A n \in Nat : \A u \in 1..n : u \in Nat
OBVIOUS

\* A maximum TXID over a list of files, 0 for an empty list, is a number.
LEMMA UpToNat ==
    \A u \in 0..MaxTx : u \in Nat
BY LevelAssumption

LEMMA LastIs ==
    ASSUME Typed
    PROVE  /\ Last \in Nat /\ Last \in 0..MaxTx /\ MaxTx \in Nat
           /\ \A f \in DOMAIN objects : f.max <= Last
           /\ Last = 0 \/ \E f \in DOMAIN objects : f.max = Last
<1>1. DOMAIN objects \in SUBSET File
  BY Zenon, Typeds
<1> QED
  BY <1>1, MaxTXIDIs, LevelAssumption DEF Last

\* What a step that leaves the objects and the passes alone keeps.
LEMMA DataKept ==
    ASSUME UNCHANGED <<objects, cpc, pass>>
    PROVE  /\ Last' = Last
           /\ Chained <=> Chained'
           /\ \A X, l : Sound(X, l) <=> Sound(X, l)'
           /\ \A X : Full(X) <=> Full(X)'
           /\ \A X, l, t : Shown(X, l, t) <=> Shown(X, l, t)'
           /\ \A X : Whole(X) <=> Whole(X)'
           /\ \A k : Unused(k) <=> Unused(k)'
           /\ \A k, t : Committed(k, t) <=> Committed(k, t)'
           /\ \A c : Deleting(c)' = Deleting(c) /\ Kept(c)' = Kept(c) /\ Final(c)' = Final(c)
                     /\ Sources(c)' = Sources(c) /\ Current(c)' = Current(c)
<1>1. /\ Last' = Last
      /\ \A X : Whole(X) <=> Whole(X)'
      /\ \A k : Unused(k) <=> Unused(k)'
      /\ \A k, t : Committed(k, t) <=> Committed(k, t)'
      /\ \A X, l, t : Shown(X, l, t) <=> Shown(X, l, t)'
  BY Zenon DEF Last, Whole, Unused, Committed, Shown
<1>2. Chained <=> Chained'
  BY <1>1 DEF Chained, FilesAgree
<1>3. \A c : Deleting(c)' = Deleting(c) /\ Kept(c)' = Kept(c) /\ Final(c)' = Final(c)
             /\ Sources(c)' = Sources(c) /\ Current(c)' = Current(c)
  BY Zenon DEF Deleting, Kept, Final, Sources, Current
<1>4. \A X, l : Sound(X, l) <=> Sound(X, l)'
  BY <1>1, <1>3 DEF Sound
<1> QED
  BY Zenon, <1>1, <1>2, <1>3, <1>4 DEF Full

\* Being in a term, or safe, over the steps of the lease.
Fences(c) ==
    /\ \A d \in Clients : safe'[d] # 0 => InTerm(d)'
    /\ \A d : d # c /\ InTerm(d)' => InTerm(d)
    /\ \A d \in Writers : d # c /\ pc[d] = "flush" => InTerm(d)'

LEMMA FencesKeep ==
    ASSUME Fenced, LeaseTypeOK, NEW c \in Clients, UNCHANGED leaseVars \/ Quit(c) \/ Enter(c)
    PROVE  Fences(c) /\ \A d : InTerm(d)' <=> InTerm(d)
<1>1. \A d : InTerm(d)' <=> InTerm(d)
  BY Zenon DEF InTerm, leaseVars, Quit, Enter
<1>2. \A d \in Clients : safe'[d] # 0 => InTerm(d)
  BY DEF Fenced, LeaseTypeOK, leaseVars, Quit, Enter, InTerm
<1> QED
  BY Zenon, <1>1, <1>2 DEF Fences, Fenced

LEMMA FencesFree ==
    ASSUME Fenced, NEW c \in Clients, InTerm(c), Free
    PROVE  Fences(c) /\ \A d : ~InTerm(d)'
<1>1. \A d : ~InTerm(d)'
  BY Zenon DEF InTerm, Free
<1>2. \A d \in Clients : safe'[d] = 0
  BY Zenon DEF Free, NobodySafe
<1>3. \A d \in Writers : pc[d] = "flush" => d = c
  BY Zenon DEF Fenced, InTerm
<1> QED
  BY Zenon, <1>1, <1>2, <1>3 DEF Fences

LEMMA FencesGrant ==
    ASSUME NEW c \in Clients, TakeLease(c), ~LatePut
    PROVE  Fences(c) /\ strayFile = {} /\ strayManifest = {}
<1>1. Quiet /\ Grant(c)
  BY Zenon DEF TakeLease
<1>2. \A d \in Clients : safe'[d] = 0
  BY Zenon, <1>1 DEF Grant, NobodySafe
<1>3. \A d : InTerm(d)' => d = c
  BY Zenon, <1>1 DEF Grant, InTerm
<1> QED
  BY Zenon, <1>1, <1>2, <1>3 DEF Fences, Quiet

\* Two clients are not in their term at once, and no client is both.
LEMMA OneInTerm ==
    ASSUME NEW c, NEW d, InTerm(c), InTerm(d)
    PROVE  c = d
BY Zenon DEF InTerm

LEMMA Clientele ==
    /\ \A w \in Writers : w \in Clients /\ w \notin Compactors
    /\ \A c \in Compactors : c \in Clients /\ c \notin Writers
BY Zenon, WritersAssumption, CompactorsAssumption

\* A list that covers the whole replica reaches as far as anything committed.
LEMMA WholeReaches ==
    ASSUME Typed, NEW X \in SUBSET File, Whole(X), NEW t \in 1..Last
    PROVE  \E f \in X : t <= f.max
<1>1. Last \in Nat /\ Last \in 1..Last
  BY LastIs
<1>2. PICK f \in X : Within(Last, f)
  BY Zenon, <1>1, CoversIs DEF Whole
<1>3. f \in File
  OBVIOUS
<1> QED
  BY <1>1, <1>2, <1>3, FileIs DEF Within

LEMMA CommittedIs ==
    ASSUME Typed, NEW k, NEW t, Committed(k, t)
    PROVE  t \in 1..Last /\ t \in TXID
<1>1. PICK f \in DOMAIN objects : t \in f.min..f.max
  BY DEF Committed
<1>2. f \in File /\ f.max <= Last /\ Last \in Nat
  BY Zenon, Typeds, LastIs
<1>3. f.min \in Nat /\ f.max \in Nat /\ 1 <= f.min /\ f.max <= MaxTx /\ MaxTx \in Nat
  BY <1>2, FileIs, LevelAssumption
<1> QED
  BY <1>1, <1>2, <1>3 DEF TXID

\* The manifest is replaced by a list that reaches as far.
LEMMA Replaces ==
    ASSUME Typed, Indexed, Chained, NEW X \in SUBSET File,
           Under(manifest.files, X), ~manifest.exists => Whole(X),
           UNCHANGED objects, manifest' = Manifest(X), Full(X)'
    PROVE  /\ Indexed'
           /\ \A k, t : Committed(k, t) /\ Visible(t) => Visible(t)'
           /\ \A Y \in SUBSET File : Under(Y, manifest.files) => Under(Y, manifest.files)'
           /\ manifest'.exists
<1>1. manifest'.exists /\ manifest'.files = X /\ manifest.files \in SUBSET File
  BY Zenon, Typeds DEF Manifest
<1>2. ASSUME NEW f \in File, NEW g \in manifest.files, f.max <= g.max PROVE \E h \in X : f.max <= h.max
  <2>1. PICK h \in X : g.max <= h.max
    BY Zenon DEF Under
  <2>2. g \in File /\ h \in File
    BY Zenon, <1>1
  <2> QED
    BY <1>2, <2>1, <2>2, FileIs
<1>3. \A Y \in SUBSET File : Under(Y, manifest.files) => Under(Y, manifest.files)'
  BY Zenon, <1>1, <1>2 DEF Under
<1>4. Indexed'
  <2>1. DOMAIN objects \in SUBSET File
    BY Zenon, Typeds
  <2>2. \A g \in DOMAIN objects' : g.level > 0 => \E f \in manifest'.files : g.max <= f.max
    BY Zenon, <1>1, <1>2, <2>1 DEF Indexed
  <2> QED
    BY Zenon, <1>1, <2>2 DEF Indexed
<1>5. ASSUME NEW k, NEW t, Committed(k, t), Visible(t) PROVE Visible(t)'
  <2>1. t \in 1..Last /\ t \in TXID /\ Last \in Nat
    BY Zenon, <1>5, CommittedIs, LastIs
  <2>2. CASE ~manifest.exists
    BY Zenon, <1>1, <2>1, <2>2, WholeReaches DEF Visible
  <2>3. CASE manifest.exists
    <3>1. PICK g \in manifest.files : t <= g.max
      BY Zenon, <1>5, <2>3 DEF Visible
    <3>2. PICK h \in X : g.max <= h.max
      BY Zenon DEF Under
    <3>3. g \in File /\ h \in File
      BY Zenon, <1>1
    <3>4. t <= h.max
      BY <2>1, <3>1, <3>2, <3>3, FileIs
    <3> QED
      BY Zenon, <1>1, <3>4 DEF Visible
  <2> QED
    BY <2>2, <2>3
<1> QED
  BY Zenon, <1>1, <1>3, <1>4, <1>5

LEMMA WholeUnder ==
    ASSUME Typed, NEW X \in SUBSET File, Whole(X), NEW Y \in SUBSET File, Full(Y)
    PROVE  Under(Y, X)
<1> SUFFICES ASSUME NEW f \in Y PROVE \E g \in X : f.max <= g.max
  BY Zenon DEF Under
<1>1. f.max <= Last /\ f \in File /\ Last \in Nat
  BY LastIs DEF Full, Sound
<1>2. f.max \in 1..Last
  BY <1>1, FileIs
<1> QED
  BY <1>2, WholeReaches
-----------------------------------------------------------------------------
\* What the attempt of w rests on.
Rests(w) ==
    /\ pc[w] \in {"acquire", "granted", "read"} => ~att[w].has
    /\ InTerm(w) => Knows(w)
    /\ Written(w) => Committed(att[w].key, att[w].txid)

\* How a step of w writes to the storage beside the objects.
Sends(w) ==
    \/ /\ UNCHANGED <<manifest, strayFile, strayManifest>>
       /\ strayFile # {} \/ strayManifest # {} => ~Holding(w)'
    \/ /\ InTerm(w) /\ pc[w] \in {"put", "index"}
       /\ manifest' = Manifest(att[w].files)
       /\ UNCHANGED <<strayFile, strayManifest>>
    \/ /\ InTerm(w) /\ pc[w] \in {"put", "index"} /\ ~Holding(w)'
       /\ strayManifest' = strayManifest \cup {att[w].files}
       /\ UNCHANGED <<manifest, strayFile>>
    \/ /\ pc[w] = "flush" /\ ~Holding(w)'
       /\ strayFile' = strayFile \cup {Mutation(w)}
       /\ UNCHANGED <<manifest, strayManifest>>

\* A writer that works under the lease has no stray beside it.
LEMMA HoldingQuiet ==
    ASSUME Strays, NEW w \in Writers, InTerm(w), pc[w] \in HeldPC \cup {"granted"}
    PROVE  strayFile = {} /\ strayManifest = {}
BY Zenon DEF Strays, Holding

LEMMA WriterFrame ==
    ASSUME CompactionInv, Typed', NEW w \in Writers, OwnStep(w), Fences(w), Sends(w), Rests(w)',
           UNCHANGED <<objects, lock, cpc, pass>>,
           pc'[w] = "flush" => InTerm(w)',
           \/ UNCHANGED acked
           \/ /\ pc[w] = "releasing" /\ att[w].fate = "ack" /\ InTerm(w)
              /\ acked' = acked \cup {[key |-> att[w].key, txid |-> att[w].txid]}
    PROVE  CompactionInv'
<1> USE DEF CompactionInv
<1>1. \A v \in Writers \ {w} : pc'[v] = pc[v] /\ att'[v] = att[v]
  BY Typeds DEF OwnStep
<1>2. /\ Last' = Last /\ Chained'
      /\ \A X, l : Sound(X, l) <=> Sound(X, l)'
      /\ \A X : Full(X) <=> Full(X)'
      /\ \A X, l, t : Shown(X, l, t) <=> Shown(X, l, t)'
      /\ \A X : Whole(X) <=> Whole(X)'
      /\ \A k : Unused(k) <=> Unused(k)'
      /\ \A k, t : Committed(k, t) <=> Committed(k, t)'
      /\ \A c : Deleting(c)' = Deleting(c) /\ Kept(c)' = Kept(c) /\ Final(c)' = Final(c)
                /\ Sources(c)' = Sources(c) /\ Current(c)' = Current(c)
  BY Zenon, DataKept
<1>3. Fenced'
  <2>1. \A v \in Writers : pc'[v] = "flush" => InTerm(v)'
    BY Zenon, <1>1 DEF Fences
  <2> QED
    BY Zenon, <2>1 DEF Fences, Fenced
<1>4. att[w].files \in SUBSET File /\ att[w] \in Attempt
  BY Zenon, Typeds, AttemptIs
<1>5. InTerm(w) /\ pc[w] \in {"put", "index"} =>
        /\ Full(att[w].files) /\ Whole(att[w].files) /\ Under(manifest.files, att[w].files)
  <2>1. InTerm(w) /\ pc[w] \in {"put", "index"} => Full(att[w].files) /\ Whole(att[w].files)
    BY Zenon DEF Attempts, Knows
  <2>2. manifest.files \in SUBSET File /\ Full(manifest.files)
    BY Zenon, Typeds DEF Indexed
  <2> QED
    BY Zenon, <1>4, <2>1, <2>2, WholeUnder
<1>6. /\ Indexed'
      /\ \A k, t : Committed(k, t) /\ Visible(t) => Visible(t)'
      /\ \A Y \in SUBSET File : Under(Y, manifest.files) => Under(Y, manifest.files)'
      /\ manifest.exists => manifest'.exists
  <2>1. CASE UNCHANGED manifest
    BY Zenon, <1>2, <2>1 DEF Indexed, Visible, Under
  <2>2. CASE InTerm(w) /\ pc[w] \in {"put", "index"} /\ manifest' = Manifest(att[w].files)
    BY Zenon, <1>2, <1>4, <1>5, <2>2, Replaces
  <2> QED
    BY Zenon, <2>1, <2>2 DEF Sends
<1>7. UNCHANGED manifest \/ InTerm(w)
  BY Zenon DEF Sends
<1>8. Attempts'
  <2> SUFFICES ASSUME NEW v \in Writers, v # w PROVE Rests(v)'
    BY Zenon DEF Attempts, Rests
  <2>1. pc'[v] = pc[v] /\ att'[v] = att[v]
    BY Zenon, <1>1
  <2>2. ASSUME InTerm(v)' PROVE Knows(v)'
    <3>1. InTerm(v) /\ Knows(v)
      BY Zenon, <2>2 DEF Fences, Attempts
    <3>2. UNCHANGED manifest
      BY Zenon, <1>7, <3>1, OneInTerm
    <3> QED
      BY Zenon, <1>2, <2>1, <3>1, <3>2 DEF Knows, Visible
  <2>3. Written(v)' => Committed(att[v].key, att[v].txid)'
    <3>1. Written(v)' => Written(v)
      BY Zenon, <2>1 DEF Written
    <3>2. Committed(att[v].key, att[v].txid) => Committed(att[v].key, att[v].txid)'
      BY Zenon, <2>1 DEF Committed
    <3> QED
      BY Zenon, <3>1, <3>2 DEF Attempts
  <2> QED
    BY Zenon, <2>1, <2>2, <2>3 DEF Attempts, Rests
<1>9. Acknowledged'
  <2>1. \A a \in acked : Committed(a.key, a.txid) /\ Visible(a.txid)
    BY Zenon DEF Acknowledged
  <2>2. ASSUME pc[w] = "releasing", att[w].fate = "ack", InTerm(w)
        PROVE  Committed(att[w].key, att[w].txid) /\ Visible(att[w].txid)
    BY Zenon, <2>2 DEF Attempts, Knows, Written
  <2> DEFINE new == [key |-> att[w].key, txid |-> att[w].txid]
  <2>3. new.key = att[w].key /\ new.txid = att[w].txid
    OBVIOUS
  <2> HIDE DEF new
  <2>4. \A a \in acked' : Committed(a.key, a.txid) /\ Visible(a.txid)
    <3>1. CASE UNCHANGED acked
      BY Zenon, <2>1, <3>1
    <3>2. CASE /\ pc[w] = "releasing" /\ att[w].fate = "ack" /\ InTerm(w)
               /\ acked' = acked \cup {[key |-> att[w].key, txid |-> att[w].txid]}
      BY ZenonT(30), <2>1, <2>2, <2>3, <3>2 DEF new
    <3> QED
      BY Zenon, <3>1, <3>2
  <2> QED
    BY Zenon, <1>2, <1>6, <2>4 DEF Acknowledged
<1>10. Passes'
  <2> SUFFICES ASSUME NEW c \in Compactors PROVE Grounded(c)'
    BY Zenon DEF Passes
  <2>1. Grounded(c) /\ Current(c) \in SUBSET File
    BY ZenonT(30), Typeds, PassIs DEF Passes, Current
  <2>2. cpc'[c] = cpc[c] /\ pass'[c] = pass[c] /\ lock' = lock /\ DOMAIN objects' = DOMAIN objects
    OBVIOUS
  <2>3. InTerm(c)' => InTerm(c) /\ UNCHANGED manifest
    <3>1. c # w
      BY Zenon, Clientele
    <3> QED
      BY Zenon, <1>7, <3>1, OneInTerm DEF Fences
  <2>4. cpc[c] # "idle" => manifest'.exists /\ Under(Current(c), manifest.files)'
    <3>1. Current(c)' = Current(c) /\ (cpc[c] # "idle" => manifest.exists /\ Under(Current(c), manifest.files))
      BY Zenon, <1>2, <2>1 DEF Grounded
    <3>2. PICK Y \in SUBSET File : Y = Current(c)
      BY Zenon, <2>1
    <3>3. Under(Y, manifest.files) => Under(Y, manifest.files)'
      BY Zenon, <1>6
    <3> QED
      BY Zenon, <1>6, <3>1, <3>2, <3>3 DEF Under
  <2>6. Deleting(c)' => /\ \A f \in Sources(c)' : \E g \in Kept(c)' : Above(g, f)
                        /\ \A f \in Final(c)' : f.max <= Last'
    BY Zenon, <1>2, <2>1 DEF Grounded
  <2> QED
    BY Zenon, <2>1, <2>2, <2>3, <2>4, <2>6 DEF Grounded
<1>11. Strays'
  <2>1. \A v \in Writers \ {w} : Holding(v)' => Holding(v)
    BY Zenon, <1>1 DEF Holding, Fences
  <2>2. \A c \in Compactors : Swapping(c)' => Swapping(c)
    BY ZenonT(30), Clientele DEF Swapping, Fences
  <2>3. CASE /\ UNCHANGED <<manifest, strayFile, strayManifest>>
             /\ strayFile # {} \/ strayManifest # {} => ~Holding(w)'
    <3>1. strayFile' # {} \/ strayManifest' # {} =>
            (\A v \in Writers : ~Holding(v)') /\ (\A c \in Compactors : ~Swapping(c)')
      BY Zenon, <2>1, <2>2, <2>3 DEF Strays
    <3> QED
      BY <1>2, <2>3, <3>1 DEF Strays, Under
  <2>4. ASSUME InTerm(w), pc[w] \in HeldPC
        PROVE  /\ strayFile = {} /\ strayManifest = {}
               /\ (\A v \in Writers \ {w} : ~Holding(v)') /\ (\A c \in Compactors : ~Swapping(c)')
    <3>1. \A v : InTerm(v) => v = w
      BY Zenon, <2>4, OneInTerm
    <3>2. w \notin Compactors
      BY Zenon, Clientele
    <3> QED
      BY Zenon, <2>1, <2>2, <2>4, <3>1, <3>2, HoldingQuiet DEF Holding, Swapping
  <2>5. CASE /\ InTerm(w) /\ pc[w] \in {"put", "index"}
             /\ UNCHANGED <<strayFile, strayManifest>>
    BY Zenon, <2>4, <2>5 DEF Strays, HeldPC
  <2>6. CASE /\ InTerm(w) /\ pc[w] \in {"put", "index"} /\ ~Holding(w)'
             /\ strayManifest' = strayManifest \cup {att[w].files}
             /\ UNCHANGED <<manifest, strayFile>>
    <3>1. /\ strayFile' = {} /\ strayManifest' = {att[w].files}
          /\ (\A v \in Writers : ~Holding(v)') /\ (\A c \in Compactors : ~Swapping(c)')
      BY Zenon, <2>4, <2>6 DEF HeldPC
    <3>2. PICK X : X = att[w].files
      OBVIOUS
    <3>3. Full(X) /\ Whole(X) /\ Under(manifest.files, X)
      BY Zenon, <1>5, <2>6, <3>2
    <3>4. Full(X)' /\ Whole(X)' /\ Under(manifest.files, X)'
      BY Zenon, <1>2, <2>6, <3>3 DEF Under
    <3>5. strayManifest' = {X}
      BY Zenon, <3>1, <3>2
    <3> QED
      BY Zenon, <3>1, <3>4, <3>5 DEF Strays
  <2>7. CASE /\ pc[w] = "flush" /\ ~Holding(w)'
             /\ strayFile' = strayFile \cup {Mutation(w)}
             /\ UNCHANGED <<manifest, strayManifest>>
    <3>1. InTerm(w) /\ Knows(w)
      BY Zenon, <2>7 DEF Fenced, Attempts
    <3>2. /\ strayFile' = {Mutation(w)} /\ strayManifest' = {}
          /\ (\A v \in Writers : ~Holding(v)') /\ (\A c \in Compactors : ~Swapping(c)')
      BY Zenon, <2>4, <2>7, <3>1 DEF HeldPC
    <3>3. Mutation(w).txid = Last + 1 /\ Unused(Mutation(w).key)
      BY Zenon, <2>7, <3>1 DEF Knows, Mutation
    <3> QED
      BY Zenon, <1>2, <3>2, <3>3 DEF Strays
  <2> QED
    BY Zenon, <2>3, <2>5, <2>6, <2>7 DEF Sends
<1> QED
  BY Zenon, <1>2, <1>3, <1>6, <1>8, <1>9, <1>10, <1>11
-----------------------------------------------------------------------------
\* Lists of files.
LEMMA AboveTop ==
    ASSUME Typed, NEW g \in DOMAIN objects
    PROVE  ~(g.level >= TopLevel + 1)
<1>1. g \in File
  BY Zenon, Typeds
<1> QED
  BY <1>1, FileIs, LevelAssumption

LEMMA FullIs ==
    ASSUME Typed, NEW X, Full(X)
    PROVE  /\ \A f \in X : f \in DOMAIN objects \/ \E g \in DOMAIN objects : Above(g, f) /\ g \in X
           /\ \A f \in X : f.max <= Last /\ \A t \in 1..f.max : ManifestCovers(X, t)
           /\ \A c \in Compactors : Deleting(c) => \A g \in Kept(c) : g \in X
BY Zenon, AboveTop DEF Full, Sound, Shown, Kept

\* A listing begins with nothing, and goes on a level at a time.
LEMMA ListBegins ==
    ASSUME Typed, Chained
    PROVE  Sound({}, 0) /\ \A t \in 1..Last : Shown({}, 0, t)
<1>1. \A g \in DOMAIN objects : g.level >= 0
  BY Typeds, FileIs
<1>2. \A t \in 1..Last : Shown({}, 0, t)
  BY Zenon, <1>1, CoversIs DEF Chained, Whole, Shown
<1> QED
  BY Zenon, <1>1, <1>2 DEF Sound, Kept

LEMMA ListGoesOn ==
    ASSUME Typed, NEW X \in SUBSET File, NEW l \in Nat,
           Sound(X, l), \A t \in 1..Last : Shown(X, l, t)
    PROVE  LET Y == X \cup AtLevel(DOMAIN objects, l)
           IN  Sound(Y, l + 1) /\ \A t \in 1..Last : Shown(Y, l + 1, t)
<1> DEFINE Y == X \cup AtLevel(DOMAIN objects, l)
<1>1. \A g \in DOMAIN objects : g.level >= l => g \in Y \/ g.level >= l + 1
  BY Typeds, FileIs DEF AtLevel
<1>2. X \subseteq Y /\ \A f \in Y : f \in X \/ f \in DOMAIN objects
  BY DEF AtLevel
<1> HIDE DEF Y
<1>3. ASSUME NEW t, Shown(X, l, t) PROVE Shown(Y, l + 1, t)
  BY Zenon, <1>1, <1>2, <1>3, CoversIs DEF Shown
<1>4. \A f \in Y : f.max <= Last
  BY Zenon, <1>2, LastIs DEF Sound
<1>5. \A f \in Y : \A t \in 1..f.max : t \in 1..Last
  BY <1>2, <1>4, LastIs, Typeds, FileIs
<1>6. \A f \in Y : f \in DOMAIN objects \/
          \E g \in DOMAIN objects : Above(g, f) /\ (g \in Y \/ g.level >= l + 1)
  BY Zenon, <1>1, <1>2 DEF Sound
<1>7. \A c \in Compactors : Deleting(c) => \A g \in Kept(c) : g \in Y \/ g.level >= l + 1
  BY Zenon, <1>1, <1>2 DEF Sound, Kept
<1> QED
  BY Zenon, <1>3, <1>4, <1>5, <1>6, <1>7 DEF Sound, Y

\* The listing that has seen every level.
LEMMA ListEnds ==
    ASSUME Typed, NEW X, Sound(X, TopLevel + 1), \A t \in 1..Last : Shown(X, TopLevel + 1, t)
    PROVE  Full(X) /\ Whole(X)
BY Zenon, AboveTop DEF Full, Whole, Shown

\* A manifest that reaches the last TXID covers the replica.
LEMMA ReachesWhole ==
    ASSUME Typed, NEW X, Full(X), Last = 0 \/ \E f \in X : Last <= f.max, X \in SUBSET File
    PROVE  Whole(X)
<1> SUFFICES ASSUME NEW t \in 1..Last PROVE ManifestCovers(X, t)
  BY DEF Whole
<1>1. Last \in Nat
  BY LastIs
<1>2. PICK f \in X : Last <= f.max
  BY <1>1
<1>3. t \in 1..f.max
  <2>1. f \in File
    OBVIOUS
  <2> QED
    BY <1>1, <1>2, <2>1, FileIs
<1> QED
  BY Zenon, <1>2, <1>3, FullIs

\* The tail probe: a manifest that no level-0 file goes beyond is complete.
LEMMA ProbeWhole ==
    ASSUME Typed, Indexed, ~NeedsRepair(manifest.files, ManifestMaxTXID(AtLevel(DOMAIN objects, 0)))
    PROVE  Whole(manifest.files)
<1> DEFINE M == manifest.files
           Z == AtLevel(DOMAIN objects, 0)
<1>1. M \in SUBSET File /\ Z \in SUBSET File /\ Last \in Nat
  BY Zenon, Typeds, LastIs DEF AtLevel
<1>2. ManifestMaxTXID(Z) \in Nat /\ ManifestMaxTXID(M) \in Nat /\ ManifestMaxTXID(Z) <= ManifestMaxTXID(M)
  BY <1>1, MaxTXIDIs DEF NeedsRepair
<1>3. ASSUME NEW f \in DOMAIN objects, f.max = Last, Last # 0 PROVE \E g \in M : Last <= g.max
  <2>1. f \in File
    BY Zenon, Typeds
  <2>2. CASE f.level > 0
    BY Zenon, <1>3, <2>2 DEF Indexed
  <2>3. CASE f.level = 0
    <3>1. f.max <= ManifestMaxTXID(Z)
      BY Zenon, <1>1, <2>3, MaxTXIDIs DEF AtLevel
    <3>2. ManifestMaxTXID(M) # 0
      BY <1>2, <1>3, <2>1, <3>1, FileIs
    <3>3. PICK g \in M : g.max = ManifestMaxTXID(M)
      BY Zenon, <1>1, <3>2, MaxTXIDIs
    <3> QED
      BY <1>2, <1>3, <2>1, <3>1, <3>3, FileIs
  <2> QED
    BY <2>1, <2>2, <2>3, FileIs
<1> HIDE DEF M, Z
<1>4. Last = 0 \/ \E f \in M : Last <= f.max
  BY Zenon, <1>3, LastIs
<1> QED
  BY Zenon, <1>1, <1>4, ReachesWhole DEF Indexed, M

\* A session on a list that covers the whole replica shows all of it.
LEMMA WholeReach ==
    ASSUME Typed, NEW X \in SUBSET File, Whole(X), \A f \in X : f.max <= Last
    PROVE  Reach(X) = Last
<1>1. Last \in Nat /\ Reach(X) \in Nat /\ ~ManifestCovers(X, Reach(X) + 1)
  BY LastIs, ReachIs
<1>2. ~(Reach(X) + 1 \in 1..Last)
  BY Zenon, <1>1 DEF Whole
<1>3. Reach(X) = 0 \/ ManifestCovers(X, Reach(X))
  BY <1>1, ReachIs
<1>4. Reach(X) <= Last
  <2>1. CASE Reach(X) = 0
    BY <1>1, <2>1
  <2>2. ASSUME NEW f \in X, Within(Reach(X), f) PROVE Reach(X) <= Last
    <3>1. f \in File /\ f.max <= Last
      OBVIOUS
    <3> QED
      BY <1>1, <2>2, <3>1, FileIs DEF Within
  <2> QED
    BY Zenon, <1>3, <2>1, <2>2, CoversIs
<1> QED
  BY <1>1, <1>2, <1>4

\* The file that was flushed last is in level 0, before the manifest reaches it.
LEMMA FlushedStored ==
    ASSUME Typed, Chained, Indexed, Last # 0, \A f \in manifest.files : f.max < Last
    PROVE  L0(Last) \in DOMAIN objects
<1>1. PICK f \in DOMAIN objects : f.max = Last
  BY Zenon, LastIs
<1>2. f \in File /\ Last \in Nat /\ manifest.files \in SUBSET File
  BY Zenon, Typeds, LastIs
<1>3. ~(f.level > 0)
  <2>1. ASSUME NEW g \in manifest.files, f.max <= g.max PROVE FALSE
    <3>1. g \in File /\ g.max < Last
      BY Zenon, <1>2
    <3> QED
      BY <1>1, <1>2, <2>1, <3>1, FileIs
  <2> QED
    BY Zenon, <2>1 DEF Indexed
<1>4. f.level = 0
  BY <1>2, <1>3, FileIs
<1>5. f.min = f.max
  BY Zenon, <1>4 DEF Chained
<1>6. f = L0(Last)
  BY <1>1, <1>2, <1>4, <1>5, FileIs DEF L0
<1> QED
  BY Zenon, <1>6

\* The flushed file is added to a list that covers what was before it.
LEMMA ListAdds ==
    ASSUME Typed, NEW X \in SUBSET File, Full(X), Last # 0, L0(Last) \in DOMAIN objects,
           \A t \in 1..(Last - 1) : ManifestCovers(X, t)
    PROVE  Full(X \cup {L0(Last)}) /\ Whole(X \cup {L0(Last)})
<1> DEFINE Y == X \cup {L0(Last)}
<1>1. Last \in Nat /\ L0(Last).min = Last /\ L0(Last).max = Last
  BY LastIs DEF L0
<1>2. \A t : ManifestCovers(X, t) => ManifestCovers(Y, t)
  BY Zenon, CoversIs
<1>3. ManifestCovers(Y, Last)
  BY <1>1, CoversIs DEF Within
<1>4. \A t \in 1..Last : t = Last \/ t \in 1..(Last - 1)
  BY <1>1
<1>5. Whole(Y)
  BY Zenon, <1>2, <1>3, <1>4 DEF Whole
<1>6. \A f \in Y : f.max <= Last
  BY <1>1, FullIs
<1>7. \A f \in Y : \A t \in 1..f.max : t \in 1..Last
  <2> SUFFICES ASSUME NEW f \in Y, NEW t \in 1..f.max PROVE t \in 1..Last
    OBVIOUS
  <2>1. f.max \in Nat /\ f.max <= Last
    BY Zenon, <1>1, <1>6, FileIs
  <2> QED
    BY <1>1, <2>1
<1>8. \A f \in Y : f \in DOMAIN objects \/ \E g \in DOMAIN objects : Above(g, f) /\ g \in Y
  BY Zenon, FullIs
<1>9. \A c \in Compactors : Deleting(c) => \A g \in Kept(c) : g \in Y
  BY Zenon, FullIs
<1> HIDE DEF Y
<1> QED
  BY Zenon, <1>5, <1>6, <1>7, <1>8, <1>9 DEF Full, Sound, Shown, Whole, Y
-----------------------------------------------------------------------------
\* A step of w that keeps the grant and the storage.
LEMMA Steady ==
    ASSUME CompactionInv, Typed', NEW w \in Writers, OwnStep(w), Rests(w)',
           UNCHANGED <<storage, acked, lock, cpc, pass>>,
           UNCHANGED leaseVars \/ Quit(w) \/ Enter(w),
           pc'[w] \in HeldPC \cup {"granted"} => pc[w] \in HeldPC \cup {"granted"},
           pc'[w] = "flush" => InTerm(w)
    PROVE  CompactionInv'
<1> USE DEF CompactionInv
<1>1. Fences(w) /\ \A d : InTerm(d)' <=> InTerm(d)
  BY Zenon, Clientele, Typeds, FencesKeep
<1>2. Holding(w)' => Holding(w)
  BY Zenon, <1>1 DEF Holding
<1>3. strayFile # {} \/ strayManifest # {} => ~Holding(w)'
  BY Zenon, <1>2 DEF Strays
<1>4. Sends(w)
  BY Zenon, <1>3 DEF Sends, storage
<1> QED
  BY Zenon, <1>1, <1>4, WriterFrame DEF storage

\* The steps after which nothing is claimed of w.
LEMMA IdleSteps ==
    ASSUME CompactionInv, Typed', NEW w \in Writers, UNCHANGED <<lock, cpc, pass>>,
           \/ \E k \in Keys : Call(w, k)
           \/ Acquired(w) \/ AcquireFails(w) \/ Retry(w) \/ GiveUp(w)
           \/ RunStale(w) \/ FlushedStale(w)
    PROVE  CompactionInv'
<1> USE DEF CompactionInv
<1>1. att[w].key \in Keys
  BY Zenon, Typeds, AttemptIs
<1>2. \/ /\ OwnStep(w) /\ pc'[w] = "acquire" /\ ~att'[w].has
         /\ UNCHANGED leaseVars
      \/ /\ OwnStep(w) /\ pc'[w] = "read" /\ ~att'[w].has /\ pc[w] = "granted"
         /\ UNCHANGED leaseVars \/ Enter(w)
      \/ /\ OwnStep(w) /\ pc'[w] \in {"retry", "idle"}
         /\ UNCHANGED leaseVars \/ Quit(w)
  <2>1. CASE (\E k \in Keys : Call(w, k)) \/ Retry(w)
    BY Zenon, <1>1, <2>1, NewMoves DEF Call, Retry
  <2>2. CASE Acquired(w)
    <3>1. OwnStep(w) /\ pc'[w] = "read" /\ att'[w] = att[w]
      BY Zenon, <2>2, PlainMoves DEF Acquired, PC
    <3> QED
      BY Zenon, <2>2, <3>1 DEF Acquired, Attempts
  <2>3. CASE AcquireFails(w) \/ GiveUp(w) \/ RunStale(w) \/ FlushedStale(w)
    <3>1. (Goto(w, "retry") \/ Goto(w, "idle")) /\ UNCHANGED att /\ (UNCHANGED leaseVars \/ Quit(w))
      BY Zenon, <2>3 DEF AcquireFails, GiveUp, RunStale, FlushedStale, Abandon
    <3> QED
      BY Zenon, <3>1, PlainMoves DEF PC
  <2> QED
    BY Zenon, <2>1, <2>2, <2>3
<1>3. UNCHANGED <<storage, acked>>
  BY Zenon DEF Call, Acquired, AcquireFails, Retry, GiveUp, RunStale, FlushedStale
<1>4. Rests(w)'
  BY Zenon, <1>2 DEF Rests, Knows, Written
<1> QED
  BY Zenon, <1>2, <1>3, <1>4, Steady DEF HeldPC

LEMMA AcquireLandsInv ==
    ASSUME CompactionInv, Typed', NEW w \in Writers, UNCHANGED <<lock, cpc, pass>>, ~LatePut,
           AcquireLands(w)
    PROVE  CompactionInv'
<1> USE DEF CompactionInv
<1>1. OwnStep(w) /\ pc'[w] = "granted" /\ att'[w] = att[w]
  BY Zenon, PlainMoves DEF AcquireLands, PC
<1>2. Fences(w) /\ strayFile = {} /\ strayManifest = {}
  BY Zenon, Clientele, FencesGrant DEF AcquireLands
<1>3. Rests(w)'
  <2>1. ~att[w].has
    BY Zenon DEF AcquireLands, Attempts
  <2> QED
    BY Zenon, <1>1, <2>1 DEF Rests, Knows, Written
<1>4. UNCHANGED <<storage, acked>>
  BY Zenon DEF AcquireLands
<1>5. Sends(w)
  BY Zenon, <1>2, <1>4 DEF Sends, storage
<1> QED
  BY Zenon, <1>1, <1>2, <1>3, <1>4, <1>5, WriterFrame DEF storage

\* The lease goes stale, or a late renewal extends it.
LEMMA RenewSteps ==
    ASSUME CompactionInv, Typed', NEW w \in Writers, UNCHANGED <<lock, cpc, pass>>,
           Expire(w) \/ RenewLate(w)
    PROVE  CompactionInv'
<1> USE DEF CompactionInv
<1>1. UNCHANGED <<pc, att, storage, acked>> /\ (Quit(w) \/ Enter(w))
  BY Zenon DEF Expire, RenewLate, Leave, Quit
<1>2. OwnStep(w)
  BY <1>1, Typeds DEF OwnStep
<1>3. \A d : InTerm(d)' <=> InTerm(d)
  BY Zenon, <1>1, Clientele, Typeds, FencesKeep
<1>4. Rests(w)'
  <2>1. Rests(w)
    BY Zenon DEF Attempts, Rests
  <2>2. UNCHANGED <<objects, cpc, pass, manifest>>
    BY Zenon, <1>1 DEF storage
  <2>3. /\ Last' = Last
        /\ \A X, l : Sound(X, l) <=> Sound(X, l)'
        /\ \A X : Full(X) <=> Full(X)'
        /\ \A X, l, t : Shown(X, l, t) <=> Shown(X, l, t)'
        /\ \A X : Whole(X) <=> Whole(X)'
        /\ \A k : Unused(k) <=> Unused(k)'
    BY Zenon, <2>2, DataKept
  <2>4. Knows(w) => Knows(w)'
    BY Zenon, <1>1, <2>2, <2>3 DEF Knows, Visible
  <2> QED
    BY Zenon, <1>1, <1>3, <2>1, <2>2, <2>4 DEF Rests, Written, Committed
<1>5. pc'[w] = "flush" => InTerm(w)
  BY Zenon, <1>1 DEF Fenced
<1> QED
  BY Zenon, <1>1, <1>2, <1>4, <1>5, Steady

LEMMA ReadManifestInv ==
    ASSUME CompactionInv, Typed', NEW w \in Writers, UNCHANGED <<lock, cpc, pass>>, ReadManifest(w)
    PROVE  CompactionInv'
<1> USE DEF CompactionInv
<1>1. pc[w] = "read" /\ ~att[w].has /\ UNCHANGED <<leaseVars, storage, acked>>
  BY Zenon DEF ReadManifest, Attempts
<1>2. /\ OwnStep(w)
      /\ \/ ~manifest.exists /\ pc'[w] = "open" /\ att'[w] = att[w]
         \/ /\ manifest.exists /\ pc'[w] = "probe"
            /\ att'[w].has /\ att'[w].files = manifest.files
  BY Zenon, ReadMoves
<1>3. Rests(w)'
  BY <1>1, <1>2 DEF Rests, Knows, Written, storage
<1> QED
  BY Zenon, <1>1, <1>2, <1>3, Steady DEF HeldPC

\* A listing begins, for a call that is in the chain already or for a repair.
LEMMA ListingRests ==
    ASSUME CompactionInv, NEW w \in Writers, NEW mode \in Mode, StartListing(w, mode),
           UNCHANGED <<objects, manifest, cpc, pass>>, InTerm(w)' => InTerm(w),
           mode # "repair" => Written(w),
           InTerm(w) => IF mode = "legacy" THEN ~manifest.exists ELSE att[w].has
    PROVE  OwnStep(w) /\ Rests(w)' /\ pc'[w] = "list"
<1> USE DEF CompactionInv
<1>1. /\ OwnStep(w) /\ Same(w) /\ pc'[w] = "list" /\ att'[w].mode = mode
      /\ att'[w].files = {} /\ att'[w].level = 0 /\ att'[w].txid = att[w].txid
  BY Zenon, ListingMoves
<1>2. Sound({}, 0)' /\ \A t \in 1..Last' : Shown({}, 0, t)'
  <2>1. Sound({}, 0) /\ \A t \in 1..Last : Shown({}, 0, t)
    BY ZenonT(30), ListBegins
  <2> QED
    BY Zenon, <2>1, DataKept
<1>3. Sound(att[w].files, att[w].level)' /\ \A t \in 1..Last' : Shown(att[w].files, att[w].level, t)'
  BY <1>1, <1>2 DEF Sound, Shown
<1>4. Written(w)' => Committed(att[w].key, att[w].txid)'
  BY Zenon, <1>1 DEF Written, Attempts, Committed, Same
<1> QED
  BY Zenon, <1>1, <1>3, <1>4 DEF Rests, Knows, Same

LEMMA TailTXIDInv ==
    ASSUME CompactionInv, Typed', NEW w \in Writers, UNCHANGED <<lock, cpc, pass>>, TailTXID(w)
    PROVE  CompactionInv'
<1> USE DEF CompactionInv
<1>1. /\ pc[w] = "probe" /\ UNCHANGED <<leaseVars, storage, acked>>
      /\ UNCHANGED <<objects, manifest>> /\ InTerm(w)' = InTerm(w)
  BY Zenon DEF TailTXID, storage, InTerm, leaseVars
<1>2. InTerm(w) => att[w].has /\ att[w].files = manifest.files
  BY Zenon, <1>1 DEF Attempts, Knows
<1>3. CASE NeedsRepair(att[w].files, ManifestMaxTXID(AtLevel(DOMAIN objects, 0)))
  <2>1. StartListing(w, "repair") /\ "repair" \in Mode
    BY Zenon, <1>3 DEF TailTXID, Mode
  <2>2. OwnStep(w) /\ Rests(w)' /\ pc'[w] = "list"
    BY Zenon, <1>1, <1>2, <2>1, ListingRests
  <2> QED
    BY Zenon, <1>1, <2>2, Steady DEF HeldPC
<1>4. CASE ~NeedsRepair(att[w].files, ManifestMaxTXID(AtLevel(DOMAIN objects, 0)))
  <2>1. OwnStep(w) /\ pc'[w] = "open" /\ att'[w] = att[w]
    BY Zenon, <1>4, PlainMoves DEF TailTXID, PC
  <2>2. InTerm(w) => Full(manifest.files) /\ Whole(manifest.files)
    BY Zenon, <1>2, <1>4, ProbeWhole DEF Indexed
  <2>3. PICK X : X = att[w].files
    OBVIOUS
  <2>4. InTerm(w) => Full(X)' /\ Whole(X)'
    BY Zenon, <1>1, <1>2, <2>2, <2>3, DataKept
  <2>5. Rests(w)'
    BY Zenon, <1>1, <1>2, <2>1, <2>3, <2>4 DEF Rests, Knows, Written
  <2> QED
    BY Zenon, <1>1, <2>1, <2>5, Steady DEF HeldPC
<1> QED
  BY Zenon, <1>3, <1>4

LEMMA BuildManifestInv ==
    ASSUME CompactionInv, Typed', NEW w \in Writers, UNCHANGED <<lock, cpc, pass>>, BuildManifest(w)
    PROVE  CompactionInv'
<1> USE DEF CompactionInv
<1>1. /\ pc[w] = "list" /\ UNCHANGED <<leaseVars, storage, acked>>
      /\ UNCHANGED <<objects, manifest>> /\ InTerm(w)' = InTerm(w)
  BY Zenon DEF BuildManifest, storage, InTerm, leaseVars
<1>2. /\ OwnStep(w) /\ Same(w) /\ att'[w].txid = att[w].txid /\ att'[w].mode = att[w].mode
      /\ att'[w].files = att[w].files \cup AtLevel(DOMAIN objects, att[w].level)
      /\ \/ att[w].level = TopLevel /\ pc'[w] = "put"
         \/ att[w].level # TopLevel /\ pc'[w] = "list" /\ att'[w].level = att[w].level + 1
  BY Zenon, BuildMoves
<1>3. PICK Y, l : Y = att[w].files \cup AtLevel(DOMAIN objects, att[w].level) /\ l = att[w].level
  BY Zenon
<1>4. InTerm(w) => Sound(Y, l + 1) /\ \A t \in 1..Last : Shown(Y, l + 1, t)
  <2>1. att[w].files \in SUBSET File /\ att[w].level \in Nat
    BY Zenon, Typeds, AttemptIs
  <2>2. InTerm(w) => Sound(att[w].files, att[w].level) /\ \A t \in 1..Last : Shown(att[w].files, att[w].level, t)
    BY Zenon, <1>1 DEF Attempts, Knows
  <2> QED
    BY Zenon, <1>3, <2>1, <2>2, ListGoesOn
<1>5. InTerm(w) => Sound(Y, l + 1)' /\ \A t \in 1..Last' : Shown(Y, l + 1, t)'
  BY Zenon, <1>1, <1>4, DataKept
<1>6. InTerm(w) /\ l = TopLevel => Full(Y)' /\ Whole(Y)'
  <2>1. InTerm(w) /\ l = TopLevel => Full(Y) /\ Whole(Y)
    BY Zenon, <1>4, ListEnds
  <2> QED
    BY Zenon, <1>1, <2>1, DataKept
<1>7. InTerm(w)' => Knows(w)'
  <2>1. InTerm(w) => /\ att[w].mode = "legacy" => ~manifest.exists
                     /\ att[w].mode # "legacy" => att[w].has
    BY Zenon, <1>1 DEF Attempts, Knows
  <2>2. CASE l = TopLevel
    <3>1. pc'[w] = "put" /\ att'[w].files = Y
      BY Zenon, <1>2, <1>3, <2>2
    <3> QED
      BY Zenon, <1>1, <1>2, <1>6, <2>1, <2>2, <3>1 DEF Knows, Same
  <2>3. CASE l # TopLevel
    <3>1. pc'[w] = "list" /\ att'[w].files = Y /\ att'[w].level = l + 1
      BY Zenon, <1>2, <1>3, <2>3
    <3> QED
      BY Zenon, <1>1, <1>2, <1>5, <2>1, <3>1 DEF Knows, Same
  <2> QED
    BY Zenon, <2>2, <2>3
<1>8. Written(w)' => Committed(att[w].key, att[w].txid)'
  BY Zenon, <1>1, <1>2 DEF Written, Attempts, Committed, Same
<1>9. Rests(w)' /\ pc'[w] \in {"list", "put"}
  BY Zenon, <1>2, <1>7, <1>8 DEF Rests
<1> QED
  BY Zenon, <1>1, <1>2, <1>9, Steady DEF HeldPC
-----------------------------------------------------------------------------
\* A release is sent; a call that will be acknowledged is committed, and a
\* writer in its term has seen that a read would find it.
LEMMA ReleaseRests ==
    ASSUME CompactionInv, NEW w \in Writers, NEW fate \in Fate, NEW job \in SUBSET File,
           ReleaseAfter(w, fate, job), UNCHANGED objects,
           fate = "ack" => Written(w),
           fate = "ack" /\ InTerm(w) => \A t : t = att[w].txid => Visible(t)'
    PROVE  /\ OwnStep(w) /\ Rests(w)' /\ pc'[w] = "releasing" /\ ~Holding(w)'
           /\ Quit(w) /\ Fences(w)
<1> USE DEF CompactionInv
<1>1. /\ OwnStep(w) /\ Same(w) /\ pc'[w] = "releasing"
      /\ att'[w].fate = fate /\ att'[w].txid = att[w].txid
  BY Zenon, ReleaseMoves
<1>2. Quit(w)
  BY Zenon DEF ReleaseAfter
<1>3. Fences(w) /\ \A d : InTerm(d)' <=> InTerm(d)
  BY Zenon, <1>2, Clientele, Typeds, FencesKeep
<1>4. Written(w)' => Committed(att[w].key, att[w].txid)'
  BY Zenon, <1>1 DEF Written, Attempts, Committed, Same
<1>5. InTerm(w)' => Knows(w)'
  <2>1. fate = "ack" /\ InTerm(w) => Visible(att[w].txid)'
    BY Zenon, <1>1 DEF Visible
  <2> QED
    BY Zenon, <1>1, <1>3, <2>1 DEF Knows
<1>6. ~Holding(w)'
  BY <1>1 DEF Holding, HeldPC
<1> QED
  BY Zenon, <1>1, <1>2, <1>3, <1>4, <1>5, <1>6 DEF Rests

\* What a put of the whole list of w makes visible.
LEMMA PutShows ==
    ASSUME CompactionInv, NEW w \in Writers, InTerm(w), pc[w] \in {"put", "index"},
           manifest' = Manifest(att[w].files), NEW t \in 1..Last
    PROVE  Visible(t)'
<1> USE DEF CompactionInv
<1>1. Whole(att[w].files) /\ att[w].files \in SUBSET File
  BY Zenon, Typeds, AttemptIs DEF Attempts, Knows
<1>2. \E f \in att[w].files : t <= f.max
  BY Zenon, <1>1, WholeReaches
<1> QED
  BY Zenon, <1>2 DEF Visible, Manifest

LEMMA PutInv ==
    ASSUME CompactionInv, Typed', NEW w \in Writers, UNCHANGED <<lock, cpc, pass>>,
           PutListing(w) \/ Index(w)
    PROVE  CompactionInv'
<1> USE DEF CompactionInv
<1>1. /\ pc[w] \in {"put", "index"} /\ InTerm(w) /\ manifest' = Manifest(att[w].files)
      /\ UNCHANGED <<objects, strayFile, strayManifest, acked>>
  BY Zenon DEF PutListing, Index
<1>2. Sends(w)
  BY Zenon, <1>1 DEF Sends
<1>3. att[w].files \in SUBSET File /\ {} \in SUBSET File
  BY Zenon, Typeds, AttemptIs
<1>4. Written(w) => \A t : t = att[w].txid => Visible(t)'
  BY Zenon, <1>1, PutShows, CommittedIs DEF Attempts
<1>5. CASE pc[w] = "put" /\ att[w].mode = "repair"
  <2>1. Goto(w, "open") /\ UNCHANGED <<leaseVars, att>>
    BY Zenon, <1>5 DEF PutListing, Index
  <2>2. OwnStep(w) /\ pc'[w] = "open" /\ att'[w] = att[w]
    BY Zenon, <2>1, PlainMoves DEF PC
  <2>3. Fences(w) /\ \A d : InTerm(d)' <=> InTerm(d)
    BY Zenon, <2>1, Clientele, Typeds, FencesKeep
  <2>4. PICK X : X = att[w].files
    OBVIOUS
  <2>5. att[w].has /\ Full(X) /\ Whole(X)
    BY Zenon, <1>1, <1>5, <2>4 DEF Attempts, Knows
  <2>6. Full(X)' /\ Whole(X)'
    BY Zenon, <1>1, <2>5, DataKept
  <2>7. Rests(w)'
    BY Zenon, <2>2, <2>4, <2>5, <2>6 DEF Rests, Knows, Written
  <2> QED
    BY Zenon, <1>1, <1>2, <2>2, <2>3, <2>7, WriterFrame
<1>6. CASE ~(pc[w] = "put" /\ att[w].mode = "repair")
  <2>1. Written(w)
    BY Zenon, <1>1, <1>6 DEF Written
  <2>2. PICK job \in SUBSET File : ReleaseAfter(w, "ack", job)
    BY Zenon, <1>3, <1>6 DEF PutListing, Index
  <2>3. OwnStep(w) /\ Rests(w)' /\ pc'[w] = "releasing" /\ Fences(w)
    BY Zenon, <1>1, <1>4, <2>1, <2>2, ReleaseRests DEF Fate
  <2> QED
    BY Zenon, <1>1, <1>2, <2>3, WriterFrame
<1> QED
  BY Zenon, <1>5, <1>6

LEMMA PutListingFailsInv ==
    ASSUME CompactionInv, Typed', NEW w \in Writers, UNCHANGED <<lock, cpc, pass>>, PutListingFails(w)
    PROVE  CompactionInv'
<1> USE DEF CompactionInv
<1> DEFINE fate == IF att[w].mode = "legacy" THEN "ack" ELSE "retry"
<1>1. pc[w] = "put" /\ UNCHANGED <<objects, strayFile, acked>> /\ ManifestUnconfirmed(w, att[w].files)
  BY Zenon DEF PutListingFails
<1>2. ReleaseAfter(w, fate, {}) /\ {} \in SUBSET File
  BY Zenon DEF PutListingFails, Release
<1>3. fate \in Fate /\ (fate = "ack" => att[w].mode = "legacy" /\ Written(w))
  BY Zenon, <1>1 DEF Fate, Written
<1> HIDE DEF fate
<1>4. fate = "ack" /\ InTerm(w) => \A t : t = att[w].txid => Visible(t)'
  <2> SUFFICES ASSUME fate = "ack", InTerm(w), NEW t, t = att[w].txid PROVE Visible(t)'
    OBVIOUS
  <2>1. CASE UNCHANGED manifest
    BY Zenon, <1>1, <1>3, <2>1 DEF Attempts, Knows, Visible
  <2>2. CASE manifest' = Manifest(att[w].files)
    BY Zenon, <1>1, <1>3, <2>2, PutShows, CommittedIs DEF Attempts
  <2> QED
    BY Zenon, <1>1, <2>1, <2>2 DEF ManifestUnconfirmed
<1>5. OwnStep(w) /\ Rests(w)' /\ pc'[w] = "releasing" /\ ~Holding(w)' /\ Fences(w)
  BY Zenon, <1>1, <1>2, <1>3, <1>4, ReleaseRests
<1>6. Sends(w)
  BY Zenon, <1>1, <1>5 DEF Sends, ManifestUnconfirmed
<1> QED
  BY Zenon, <1>1, <1>5, <1>6, WriterFrame

LEMMA RemoteFailsInv ==
    ASSUME CompactionInv, Typed', NEW w \in Writers, UNCHANGED <<lock, cpc, pass>>,
           RemoteFails(w) \/ RunFails(w)
    PROVE  CompactionInv'
<1> USE DEF CompactionInv
<1>1. UNCHANGED <<storage, acked>> /\ UNCHANGED <<objects, manifest>>
  BY Zenon DEF RemoteFails, RunFails, storage
<1>2. PICK fate \in Fate : /\ ReleaseAfter(w, fate, {})
                           /\ fate = "ack" => pc[w] = "list" /\ att[w].mode = "legacy"
  BY DEF RemoteFails, RunFails, Release, Fate
<1>3. fate = "ack" => Written(w)
  BY Zenon, <1>2 DEF Written
<1>4. fate = "ack" /\ InTerm(w) => \A t : t = att[w].txid => Visible(t)'
  BY Zenon, <1>1, <1>2 DEF Attempts, Knows, Visible
<1>5. {} \in SUBSET File
  BY Zenon
<1>6. OwnStep(w) /\ Rests(w)' /\ pc'[w] = "releasing" /\ Quit(w)
  BY Zenon, <1>1, <1>2, <1>3, <1>4, <1>5, ReleaseRests
<1> QED
  BY Zenon, <1>1, <1>6, Steady DEF HeldPC

LEMMA DedupeInv ==
    ASSUME CompactionInv, Typed', NEW w \in Writers, UNCHANGED <<lock, cpc, pass>>, Dedupe(w)
    PROVE  CompactionInv'
<1> USE DEF CompactionInv
<1>1. /\ pc[w] = "dedupe" /\ Written(w) /\ UNCHANGED <<storage, acked>>
      /\ UNCHANGED <<objects, manifest>>
  BY Zenon DEF Dedupe, storage, Written
<1>2. CASE att[w].has /\ StartListing(w, "dedupe") /\ UNCHANGED leaseVars
  <2>1. OwnStep(w) /\ Rests(w)' /\ pc'[w] = "list"
    BY Zenon, <1>1, <1>2, ListingRests DEF Mode, InTerm, leaseVars
  <2> QED
    BY Zenon, <1>1, <1>2, <2>1, Steady DEF HeldPC
<1>3. CASE /\ ~(att[w].has /\ (~manifest.exists \/ ~ManifestCovers(manifest.files, att[w].txid)))
           /\ ReleaseAfter(w, "ack", {})
  <2>1. ASSUME InTerm(w), NEW t, t = att[w].txid PROVE Visible(t)'
    <3>1. CASE ~manifest.exists
      BY Zenon, <1>1, <3>1 DEF Visible
    <3>2. CASE manifest.exists
      <4>1. att[w].has
        BY Zenon, <1>1, <2>1, <3>2 DEF Attempts, Knows
      <4>2. \E f \in manifest.files : t <= f.max
        BY Zenon, <1>3, <2>1, <3>2, <4>1, CoversIs DEF Within
      <4> QED
        BY Zenon, <1>1, <4>2 DEF Visible
    <3> QED
      BY Zenon, <3>1, <3>2
  <2>2. {} \in SUBSET File
    BY Zenon
  <2>3. OwnStep(w) /\ Rests(w)' /\ pc'[w] = "releasing" /\ Quit(w)
    BY Zenon, <1>1, <1>3, <2>1, <2>2, ReleaseRests DEF Fate
  <2> QED
    BY Zenon, <1>1, <2>3, Steady DEF HeldPC
<1> QED
  BY Zenon, <1>2, <1>3 DEF Dedupe, Release

LEMMA OpenWriteInv ==
    ASSUME CompactionInv, Typed', NEW w \in Writers, UNCHANGED <<lock, cpc, pass>>, OpenWrite(w)
    PROVE  CompactionInv'
<1> USE DEF CompactionInv
<1>1. /\ pc[w] = "open" /\ UNCHANGED <<leaseVars, storage, acked>>
      /\ UNCHANGED <<objects, manifest>> /\ InTerm(w)' = InTerm(w)
  BY Zenon DEF OpenWrite, storage, InTerm, leaseVars
<1> DEFINE X == OpenFiles(w)
<1>2. /\ X \in SUBSET File /\ Plan(X) \subseteq DOMAIN objects
      /\ OwnStep(w) /\ Same(w) /\ att'[w].files = att[w].files /\ att'[w].txid \in TXID
      /\ \/ /\ pc'[w] = "dedupe"
            /\ \E t \in 1..Reach(X) : /\ objects[Source(X, t)][t].key = att[w].key
                                      /\ att'[w].txid = objects[Source(X, t)][t].txid
         \/ /\ pc'[w] = "run" /\ att'[w].txid = Reach(X) + 1
            /\ \A t \in 1..Reach(X) : objects[Source(X, t)][t].key # att[w].key
  BY Zenon, OpenMoves
<1>3. InTerm(w) => /\ Whole(X) /\ \A f \in X : f.max <= Last
                   /\ IF att[w].has THEN Full(att[w].files) /\ Whole(att[w].files) ELSE ~manifest.exists
  <2>1. InTerm(w) => IF att[w].has THEN Full(att[w].files) /\ Whole(att[w].files) ELSE ~manifest.exists
    BY Zenon, <1>1 DEF Attempts, Knows
  <2>2. Whole(DOMAIN objects) /\ \A f \in DOMAIN objects : f.max <= Last
    BY Zenon, LastIs DEF Chained
  <2> QED
    BY Zenon, <2>1, <2>2, FullIs DEF OpenFiles
<1> HIDE DEF X
<1>4. \A t \in 1..Reach(X) : /\ Source(X, t) \in DOMAIN objects
                             /\ t \in Source(X, t).min..Source(X, t).max
  <2> SUFFICES ASSUME NEW t \in 1..Reach(X)
               PROVE  Source(X, t) \in DOMAIN objects /\ t \in Source(X, t).min..Source(X, t).max
    OBVIOUS
  <2>1. Source(X, t) \in X \cap DOMAIN objects /\ Within(t, Source(X, t))
    BY Zenon, <1>2, RestoreIs
  <2>2. t \in Nat /\ Source(X, t) \in File
    BY <1>2, <2>1, ReachIs
  <2> QED
    BY <2>1, <2>2, FileIs DEF Within
<1>5. PICK Y, k : Y = att[w].files /\ k = att[w].key
  OBVIOUS
<1>6. InTerm(w) => IF att[w].has THEN Full(Y)' /\ Whole(Y)' ELSE ~manifest'.exists
  BY Zenon, <1>1, <1>3, <1>5, DataKept
<1>7. CASE /\ pc'[w] = "dedupe"
           /\ \E t \in 1..Reach(X) : /\ objects[Source(X, t)][t].key = att[w].key
                                     /\ att'[w].txid = objects[Source(X, t)][t].txid
  <2>1. PICK t \in 1..Reach(X) : /\ objects[Source(X, t)][t].key = k
                                 /\ att'[w].txid = objects[Source(X, t)][t].txid
    BY Zenon, <1>5, <1>7
  <2>2. att'[w].txid = t
    BY Zenon, <1>4, <2>1 DEF Chained
  <2>3. Committed(k, t)'
    BY Zenon, <1>1, <1>4, <2>1 DEF Committed
  <2>4. Committed(att[w].key, att[w].txid)'
    BY Zenon, <1>2, <1>5, <2>2, <2>3 DEF Same
  <2>5. InTerm(w)' => Knows(w)'
    BY Zenon, <1>1, <1>2, <1>6, <1>7 DEF Knows, Same
  <2>6. Rests(w)'
    BY Zenon, <1>7, <2>4, <2>5 DEF Rests
  <2> QED
    BY Zenon, <1>1, <1>2, <1>7, <2>6, Steady DEF HeldPC
<1>8. CASE /\ pc'[w] = "run" /\ att'[w].txid = Reach(X) + 1
           /\ \A t \in 1..Reach(X) : objects[Source(X, t)][t].key # att[w].key
  <2>1. InTerm(w) => Reach(X) = Last
    BY Zenon, <1>2, <1>3, WholeReach
  <2>2. InTerm(w) => Unused(k)
    <3> SUFFICES ASSUME InTerm(w), NEW f \in DOMAIN objects, NEW t \in f.min..f.max
                 PROVE  objects[f][t].key # k
      BY Zenon DEF Unused
    <3>1. Committed(objects[f][t].key, t)
      BY Zenon DEF Committed
    <3>2. t \in 1..Reach(X)
      BY Zenon, <2>1, <3>1, CommittedIs
    <3>3. objects[f][t] = objects[Source(X, t)][t]
      <4>1. /\ Source(X, t) \in DOMAIN objects
            /\ t \in (f.min..f.max) \cap (Source(X, t).min..Source(X, t).max)
        BY Zenon, <1>4, <3>2
      <4> QED
        BY ZenonT(30), <4>1 DEF Chained, FilesAgree
    <3> QED
      BY Zenon, <1>5, <1>8, <3>2, <3>3
  <2>3. InTerm(w) => att'[w].txid = Last' + 1 /\ Unused(k)'
    BY Zenon, <1>1, <1>8, <2>1, <2>2, DataKept
  <2>4. InTerm(w)' => Knows(w)'
    BY Zenon, <1>1, <1>2, <1>5, <1>6, <1>8, <2>3 DEF Knows, Same
  <2>5. Rests(w)'
    BY Zenon, <1>8, <2>4 DEF Rests, Written
  <2> QED
    BY Zenon, <1>1, <1>2, <1>8, <2>5, Steady DEF HeldPC
<1> QED
  BY Zenon, <1>2, <1>7, <1>8
-----------------------------------------------------------------------------
LEMMA RunInv ==
    ASSUME CompactionInv, Typed', NEW w \in Writers, UNCHANGED <<lock, cpc, pass>>, Run(w)
    PROVE  CompactionInv'
<1> USE DEF CompactionInv
<1>1. /\ pc[w] = "run" /\ safe[w] # 0 /\ Goto(w, "flush") /\ UNCHANGED <<leaseVars, storage, att, acked>>
      /\ UNCHANGED <<objects, manifest>>
  BY Zenon DEF Run, storage
<1>2. InTerm(w) /\ InTerm(w)' = InTerm(w)
  BY Zenon, <1>1, Clientele DEF Fenced, InTerm, leaseVars
<1>3. OwnStep(w) /\ pc'[w] = "flush" /\ att'[w] = att[w]
  BY Zenon, <1>1, PlainMoves DEF PC
<1>4. PICK X, k : X = att[w].files /\ k = att[w].key
  OBVIOUS
<1>5. /\ IF att[w].has THEN Full(X) /\ Whole(X) ELSE ~manifest.exists
      /\ att[w].txid = Last + 1 /\ Unused(k)
  BY Zenon, <1>1, <1>2, <1>4 DEF Attempts, Knows
<1>6. /\ IF att[w].has THEN Full(X)' /\ Whole(X)' ELSE ~manifest'.exists
      /\ att[w].txid = Last' + 1 /\ Unused(k)'
  BY Zenon, <1>1, <1>5, DataKept
<1>7. Rests(w)'
  BY Zenon, <1>3, <1>4, <1>6 DEF Rests, Knows, Written
<1> QED
  BY Zenon, <1>1, <1>2, <1>3, <1>7, Steady DEF HeldPC

LEMMA FlushedInv ==
    ASSUME CompactionInv, Typed', NEW w \in Writers, UNCHANGED <<lock, cpc, pass>>, Flushed(w)
    PROVE  CompactionInv'
<1> USE DEF CompactionInv
<1>1. /\ pc[w] = "flushed" /\ safe[w] # 0 /\ UNCHANGED <<leaseVars, storage, acked>>
      /\ UNCHANGED <<objects, manifest>>
  BY Zenon DEF Flushed, storage
<1>2. InTerm(w) /\ InTerm(w)' = InTerm(w) /\ Written(w)
  BY Zenon, <1>1, Clientele DEF Fenced, InTerm, leaseVars, Written
<1>3. Knows(w) /\ Committed(att[w].key, att[w].txid)
  BY Zenon, <1>2 DEF Attempts
<1>4. att[w].files \in SUBSET File
  BY Zenon, Typeds, AttemptIs
<1>5. CASE ~att[w].has
  <2>1. StartListing(w, "legacy") /\ ~manifest.exists
    BY Zenon, <1>1, <1>3, <1>5 DEF Flushed, Knows
  <2>2. OwnStep(w) /\ Rests(w)' /\ pc'[w] = "list"
    BY Zenon, <1>1, <1>2, <2>1, ListingRests DEF Mode
  <2> QED
    BY Zenon, <1>1, <1>2, <2>2, Steady DEF HeldPC
<1>6. CASE att[w].has
  <2>1. /\ OwnStep(w) /\ Same(w) /\ pc'[w] = "index" /\ att'[w].txid = att[w].txid
        /\ att'[w].files = att[w].files \cup {L0(att[w].txid)}
    BY Zenon, <1>1, <1>6, FlushedMoves DEF Flushed
  <2>2. /\ att[w].txid = Last /\ Full(att[w].files)
        /\ \A t \in 1..(Last - 1) : ManifestCovers(att[w].files, t)
        /\ \A f \in manifest.files : f.max < Last
    BY Zenon, <1>1, <1>3, <1>6 DEF Knows
  <2>3. Last # 0
    <3>1. Last \in 1..Last
      BY Zenon, <1>3, <2>2, CommittedIs
    <3> QED
      BY <3>1
  <2>4. PICK X, k, t : X = att[w].files \cup {L0(Last)} /\ k = att[w].key /\ t = att[w].txid
    BY Zenon
  <2>5. Full(X) /\ Whole(X) /\ Committed(k, t)
    BY Zenon, <1>3, <1>4, <2>2, <2>3, <2>4, FlushedStored, ListAdds
  <2>6. Full(X)' /\ Whole(X)' /\ Committed(k, t)'
    BY Zenon, <1>1, <2>5, DataKept
  <2>7. Rests(w)'
    BY Zenon, <2>1, <2>2, <2>4, <2>6 DEF Rests, Knows, Same
  <2> QED
    BY Zenon, <1>1, <1>2, <2>1, <2>7, Steady DEF HeldPC
<1> QED
  BY Zenon, <1>5, <1>6

\* The attempt ends without an answer; a PUT may be left behind.
LEMMA AttemptEnds ==
    ASSUME CompactionInv, Typed', NEW w \in Writers, UNCHANGED <<lock, cpc, pass>>,
           UNCHANGED <<objects, acked, att>>, Quit(w), Goto(w, "retry") \/ Goto(w, "idle"),
           \/ UNCHANGED <<manifest, strayFile, strayManifest>>
           \/ /\ InTerm(w) /\ pc[w] \in {"put", "index"} /\ UNCHANGED strayFile
              /\ \/ manifest' = Manifest(att[w].files) /\ UNCHANGED strayManifest
                 \/ strayManifest' = strayManifest \cup {att[w].files} /\ UNCHANGED manifest
           \/ /\ pc[w] = "flush" /\ UNCHANGED <<manifest, strayManifest>>
              /\ strayFile' = strayFile \cup {Mutation(w)}
    PROVE  CompactionInv'
<1> USE DEF CompactionInv
<1>1. OwnStep(w) /\ pc'[w] \in {"retry", "idle"}
  BY Zenon, PlainMoves DEF PC
<1>2. Fences(w)
  BY Zenon, Clientele, Typeds, FencesKeep
<1>3. Rests(w)'
  BY Zenon, <1>1 DEF Rests, Knows, Written
<1>4. ~Holding(w)'
  BY Zenon, <1>1 DEF Holding, HeldPC
<1>5. Sends(w)
  BY Zenon, <1>4 DEF Sends
<1> QED
  BY Zenon, <1>1, <1>2, <1>3, <1>5, WriterFrame

LEMMA EndSteps ==
    ASSUME CompactionInv, Typed', NEW w \in Writers, UNCHANGED <<lock, cpc, pass>>,
           IndexFails(w) \/ Crash(w) \/ (FlushFails(w) /\ UNCHANGED objects)
    PROVE  CompactionInv'
<1>1. CASE IndexFails(w)
  <2>1. /\ pc[w] = "index" /\ ManifestUnconfirmed(w, att[w].files) /\ Quit(w) /\ Goto(w, "retry")
        /\ UNCHANGED <<objects, strayFile, att, acked>>
    BY Zenon, <1>1 DEF IndexFails, Abandon
  <2> QED
    BY Zenon, <2>1, AttemptEnds DEF ManifestUnconfirmed
<1>2. CASE Crash(w)
  BY Zenon, <1>2, AttemptEnds DEF Crash
<1>3. CASE FlushFails(w) /\ UNCHANGED objects /\ strayFile' = strayFile \cup {Mutation(w)}
  BY Zenon, <1>3, AttemptEnds DEF FlushFails, Abandon
<1>4. CASE FlushFails(w) /\ UNCHANGED <<objects, strayFile>>
  BY Zenon, <1>4, AttemptEnds DEF FlushFails, Abandon
<1> QED
  BY Zenon, <1>1, <1>2, <1>3, <1>4 DEF FlushFails, FlushUnconfirmed

LEMMA ReleaseEnds ==
    ASSUME CompactionInv, Typed', NEW w \in Writers, UNCHANGED <<lock, cpc, pass>>,
           Released(w) \/ ReleaseConflict(w) \/ ReleaseFails(w)
    PROVE  CompactionInv'
<1> USE DEF CompactionInv
<1>1. /\ pc[w] = "releasing" /\ UNCHANGED <<storage, att>>
      /\ Goto(w, "retry") \/ Goto(w, "idle")
      /\ \/ UNCHANGED acked
         \/ /\ att[w].fate = "ack" /\ InTerm(w)
            /\ acked' = acked \cup {[key |-> att[w].key, txid |-> att[w].txid]}
      /\ (InTerm(w) /\ Free) \/ UNCHANGED leaseVars
  <2>1. CASE Released(w)
    BY Zenon, <2>1 DEF Released, Finish
  <2>2. CASE ReleaseConflict(w) \/ ReleaseFails(w)
    <3>1. PICK fate : fate # "ack" /\ Finish(w, fate)
      BY <2>2 DEF ReleaseConflict, ReleaseFails, Unreleased
    <3> QED
      BY Zenon, <2>2, <3>1 DEF Finish, ReleaseConflict, ReleaseFails
  <2> QED
    BY Zenon, <2>1, <2>2
<1>2. OwnStep(w) /\ pc'[w] \in {"retry", "idle"}
  BY Zenon, <1>1, PlainMoves DEF PC
<1>3. Fences(w)
  BY Zenon, <1>1, Clientele, Typeds, FencesKeep, FencesFree
<1>4. Rests(w)'
  BY Zenon, <1>2 DEF Rests, Knows, Written
<1>5. ~Holding(w)'
  BY Zenon, <1>2 DEF Holding, HeldPC
<1>6. Sends(w)
  BY Zenon, <1>1, <1>5 DEF Sends, storage
<1>7. UNCHANGED objects
  BY Zenon, <1>1 DEF storage
<1> QED
  BY Zenon, <1>1, <1>2, <1>3, <1>4, <1>6, <1>7, WriterFrame

-----------------------------------------------------------------------------
\* A file of level 0 extends the replica by one transaction.
LEMMA PutExtends ==
    ASSUME Typed, Chained, Typed', NEW tx \in Tx, tx.txid = Last + 1, Unused(tx.key), PutFile(tx)
    PROVE  /\ DOMAIN objects' = DOMAIN objects \cup {L0(tx.txid)}
           /\ L0(tx.txid) \notin DOMAIN objects
           /\ Last' = Last + 1 /\ Chained'
           /\ \A k, t : Committed(k, t) => Committed(k, t)'
           /\ Committed(tx.key, tx.txid)'
           /\ \A f \in DOMAIN objects : objects'[f] = objects[f]
<1> DEFINE n == tx.txid
           N == L0(n)
<1>1. n \in TXID /\ N \in File /\ N.level = 0 /\ N.min = n /\ N.max = n /\ N.min..N.max = {n}
  BY Zenon, L0Is DEF Tx
<1>2. Last \in Nat /\ n = Last + 1 /\ DOMAIN objects \in SUBSET File
  BY Zenon, Typeds, LastIs
<1>3. \A f \in DOMAIN objects : f.max <= Last /\ f \in File
  BY Zenon, <1>2, LastIs
<1>4. \A f \in DOMAIN objects : n \notin f.min..f.max /\ f # N
  BY <1>1, <1>2, <1>3, FileIs
<1>5. DOMAIN objects' = DOMAIN objects \cup {N}
  BY Zenon DEF PutFile
<1>6. objects'[N] = [t \in {n} |-> tx] /\ \A f \in DOMAIN objects : objects'[f] = objects[f]
  BY Zenon, <1>4, <1>5 DEF PutFile
<1>7. objects'[N][n] = tx
  BY Zenon, <1>6
<1> HIDE DEF n, N
<1>8. Last' = Last + 1
  <2>1. /\ Last' \in Nat /\ \A f \in DOMAIN objects' : f.max <= Last'
        /\ Last' = 0 \/ \E f \in DOMAIN objects' : f.max = Last'
    <3>1. DOMAIN objects' \in SUBSET File
      BY Zenon, <1>1, <1>2, <1>5
    <3> QED
      BY <3>1, MaxTXIDIs, LevelAssumption DEF Last
  <2>2. \A f \in DOMAIN objects' : f.max <= Last + 1 /\ f.max \in Nat
    BY <1>1, <1>2, <1>3, <1>5, FileIs
  <2>3. Last + 1 <= Last'
    BY Zenon, <1>1, <1>2, <1>5, <2>1
  <2> QED
    BY <1>2, <2>1, <2>2, <2>3
<1>9. \A k, t : Committed(k, t) => Committed(k, t)'
  BY Zenon, <1>5, <1>6 DEF Committed
<1>10. Committed(tx.key, n)'
  BY Zenon, <1>1, <1>5, <1>7 DEF Committed
<1>11. Whole(DOMAIN objects)'
  <2> SUFFICES ASSUME NEW t \in 1..(Last + 1) PROVE ManifestCovers(DOMAIN objects', t)
    BY Zenon, <1>8 DEF Whole
  <2>1. CASE t = n
    <3>1. Within(n, N)
      BY <1>1, <1>2 DEF Within
    <3> QED
      BY Zenon, <1>5, <2>1, <3>1, CoversIs
  <2>2. CASE t # n
    <3>1. t \in 1..Last
      BY <1>2, <2>2
    <3>2. ManifestCovers(DOMAIN objects, t)
      BY Zenon, <3>1 DEF Chained, Whole
    <3> QED
      BY Zenon, <1>5, <3>2, CoversIs
  <2> QED
    BY Zenon, <2>1, <2>2
\* A transaction of the new state is an old one, or the new one.
<1>12. ASSUME NEW f \in DOMAIN objects', NEW t \in f.min..f.max
       PROVE  \/ f \in DOMAIN objects /\ t # n /\ objects'[f][t] = objects[f][t]
              \/ f = N /\ t = n /\ objects'[f][t] = tx
  BY Zenon, <1>1, <1>4, <1>5, <1>6, <1>7
<1>13. FilesAgree'
  <2> SUFFICES ASSUME NEW f \in DOMAIN objects', NEW g \in DOMAIN objects',
                      NEW t \in (f.min..f.max) \cap (g.min..g.max)
               PROVE  objects'[f][t] = objects'[g][t]
    BY Zenon DEF FilesAgree
  <2>1. t \in f.min..f.max /\ t \in g.min..g.max
    BY Zenon
  <2>2. CASE t = n
    BY Zenon, <1>12, <2>1, <2>2
  <2>3. CASE t # n
    <3>1. /\ f \in DOMAIN objects /\ objects'[f][t] = objects[f][t]
          /\ g \in DOMAIN objects /\ objects'[g][t] = objects[g][t]
      BY Zenon, <1>12, <2>1, <2>3
    <3>2. objects[f][t] = objects[g][t]
      BY Zenon, <3>1 DEF Chained, FilesAgree
    <3> QED
      BY Zenon, <3>1, <3>2
  <2> QED
    BY Zenon, <2>2, <2>3
<1>14. \A f \in DOMAIN objects' : f.level = 0 => f.min = f.max
  BY Zenon, <1>1, <1>5 DEF Chained
<1>15. \A f \in DOMAIN objects' : \A t \in f.min..f.max : objects'[f][t].txid = t
  BY Zenon, <1>12 DEF Chained, n
<1>16. ASSUME NEW f \in DOMAIN objects', NEW g \in DOMAIN objects',
              NEW t \in f.min..f.max, NEW u \in g.min..g.max,
              objects'[f][t].key = objects'[g][u].key
       PROVE  t = u
  <2>1. CASE t # n /\ u # n
    <3>1. /\ f \in DOMAIN objects /\ objects'[f][t] = objects[f][t]
          /\ g \in DOMAIN objects /\ objects'[g][u] = objects[g][u]
      BY Zenon, <1>12, <2>1
    <3>2. objects[f][t].key = objects[g][u].key
      BY Zenon, <1>16, <3>1
    <3> QED
      BY Zenon, <3>1, <3>2 DEF Chained
  <2>2. CASE t = n /\ u # n
    <3>1. objects'[f][t] = tx
      BY Zenon, <1>12, <2>2
    <3>2. g \in DOMAIN objects /\ objects'[g][u] = objects[g][u]
      BY Zenon, <1>12, <2>2
    <3> QED
      BY Zenon, <1>16, <3>1, <3>2 DEF Unused
  <2>3. CASE t # n /\ u = n
    <3>1. objects'[g][u] = tx
      BY Zenon, <1>12, <2>3
    <3>2. f \in DOMAIN objects /\ objects'[f][t] = objects[f][t]
      BY Zenon, <1>12, <2>3
    <3> QED
      BY Zenon, <1>16, <3>1, <3>2 DEF Unused
  <2> QED
    BY Zenon, <2>1, <2>2, <2>3
<1>17. Chained'
  BY Zenon, <1>11, <1>13, <1>14, <1>15, <1>16 DEF Chained
<1> QED
  BY Zenon, <1>4, <1>5, <1>6, <1>8, <1>9, <1>10, <1>17 DEF n, N

\* A list stays sound while files are only added.
LEMMA SoundKept ==
    ASSUME Typed, Typed', DOMAIN objects \subseteq DOMAIN objects', Last <= Last',
           \A c \in Compactors : Deleting(c)' => Deleting(c) /\ Kept(c)' \subseteq Kept(c)
    PROVE  /\ \A X \in SUBSET File : \A l : Sound(X, l) => Sound(X, l)'
           /\ \A X \in SUBSET File : Full(X) => Full(X)'
           /\ \A X, l, t : Shown(X, l, t) => Shown(X, l, t)'
<1>1. \A X, l, t : Shown(X, l, t) => Shown(X, l, t)'
  BY Zenon DEF Shown
<1>2. Last \in Nat /\ Last' \in Nat
  <2>1. DOMAIN objects \in SUBSET File /\ DOMAIN objects' \in SUBSET File
    BY Zenon, Typeds DEF Typed, CompactionTypeOK, WriterTypeOK
  <2> QED
    BY <2>1, MaxTXIDIs DEF Last
<1>3. ASSUME NEW X \in SUBSET File, NEW l, Sound(X, l) PROVE Sound(X, l)'
  <2>1. \A f \in X : f \in DOMAIN objects' \/
            \E g \in DOMAIN objects' : Above(g, f) /\ (g \in X \/ g.level >= l)
    BY Zenon, <1>3 DEF Sound
  <2>2. \A f \in X : f.max <= Last'
    <3> SUFFICES ASSUME NEW f \in X PROVE f.max <= Last'
      OBVIOUS
    <3>1. f.max <= Last /\ f \in File
      BY Zenon, <1>3 DEF Sound
    <3> QED
      BY <1>2, <3>1, FileIs
  <2>3. \A f \in X : \A t \in 1..f.max : Shown(X, l, t)'
    BY Zenon, <1>1, <1>3 DEF Sound
  <2>4. \A c \in Compactors : Deleting(c)' => \A g \in Kept(c)' : g \in X \/ g.level >= l
    BY Zenon, <1>3 DEF Sound
  <2> QED
    BY Zenon, <2>1, <2>2, <2>3, <2>4 DEF Sound
<1> QED
  BY Zenon, <1>1, <1>3 DEF Full

\* The lists of a pass.
LEMMA CurrentIs ==
    ASSUME Typed, NEW c \in Compactors
    PROVE  Current(c) \in SUBSET File
<1>1. pass[c].files \in SUBSET File /\ pass[c].merged \in SUBSET File
  BY Zenon, Typeds, PassIs
<1> QED
  BY Zenon, <1>1 DEF Current

LEMMA FinalIs ==
    ASSUME Typed, NEW c \in Compactors
    PROVE  Final(c) \in SUBSET File
<1>1. pass[c].base \in SUBSET File /\ pass[c].merged \in SUBSET File
  BY Zenon, Typeds, PassIs
<1> QED
  BY Zenon, <1>1 DEF Final, ApplyManifestDelta
-----------------------------------------------------------------------------
\* A transaction is added: by the writer that flushes, or late.
LEMMA GrowFrame ==
    ASSUME CompactionInv, Typed', NEW tx \in Tx, tx.txid = Last + 1, Unused(tx.key), PutFile(tx),
           UNCHANGED <<manifest, acked, lock, cpc, pass>>,
           strayFile' = {}, strayManifest' = {}, Fenced',
           \A c \in Compactors : InTerm(c)' => InTerm(c)
    PROVE  /\ Last' = Last + 1 /\ Chained' /\ Indexed' /\ Strays' /\ Acknowledged' /\ Passes'
           /\ \A X \in SUBSET File : Full(X) => Full(X)'
           /\ \A k, t : Committed(k, t) => Committed(k, t)'
           /\ Committed(tx.key, tx.txid)'
<1> USE DEF CompactionInv
<1>1. /\ DOMAIN objects' = DOMAIN objects \cup {L0(tx.txid)}
      /\ Last' = Last + 1 /\ Chained'
      /\ \A k, t : Committed(k, t) => Committed(k, t)'
      /\ Committed(tx.key, tx.txid)'
  BY Zenon, PutExtends
<1>2. Last \in Nat /\ L0(tx.txid).max = Last + 1 /\ L0(tx.txid).level = 0
  BY Zenon, LastIs DEF L0
<1>3. Last <= Last'
  BY <1>1, <1>2
<1>4. \A c : Deleting(c)' = Deleting(c) /\ Final(c)' = Final(c) /\ Sources(c)' = Sources(c)
             /\ Current(c)' = Current(c)
  BY Zenon DEF Deleting, Final, Sources, Current
<1>5. ASSUME NEW c \in Compactors, Deleting(c) PROVE Kept(c)' = Kept(c)
  <2>1. \A f \in Final(c) : f.max <= Last
    BY Zenon, <1>5 DEF Passes, Grounded
  <2>2. L0(tx.txid) \notin Final(c)
    BY <1>2, <2>1
  <2> QED
    BY Zenon, <1>1, <1>4, <2>2 DEF Kept
<1>6. /\ \A X \in SUBSET File : Full(X) => Full(X)'
  BY Zenon, <1>1, <1>3, <1>4, <1>5, SoundKept
<1>7. Indexed'
  <2>1. Full(manifest.files)'
    BY Zenon, <1>6, Typeds DEF Indexed
  <2>2. \A g \in DOMAIN objects' : g.level > 0 => \E f \in manifest'.files : g.max <= f.max
    <3>1. ~(L0(tx.txid).level > 0)
      BY <1>2
    <3> QED
      BY Zenon, <1>1, <3>1 DEF Indexed
  <2> QED
    BY Zenon, <2>1, <2>2 DEF Indexed
<1>8. Strays'
  BY Zenon DEF Strays
<1>9. Acknowledged'
  BY Zenon, <1>1 DEF Acknowledged, Visible
<1>10. ASSUME NEW c \in Compactors PROVE Grounded(c)'
  <2>1. Grounded(c)
    BY Zenon DEF Passes
  <2>2. cpc'[c] # "idle" => manifest'.exists /\ Under(Current(c)', manifest'.files)
    BY Zenon, <1>4, <2>1 DEF Grounded, Under
  <2>3. cpc'[c] \notin {"idle", "failing", "delete"} => pass'[c].merged \subseteq DOMAIN objects'
    BY Zenon, <1>1, <2>1 DEF Grounded
  <2>4. ASSUME Deleting(c)'
        PROVE  /\ \A f \in Sources(c)' : \E g \in Kept(c)' : Above(g, f)
               /\ \A f \in Final(c)' : f.max <= Last'
    <3>1. Deleting(c) /\ Kept(c)' = Kept(c)
      BY Zenon, <1>4, <1>5, <2>4
    <3>2. ASSUME NEW f \in Final(c) PROVE f.max <= Last'
      <4>1. f.max <= Last
        BY Zenon, <2>1, <3>1, <3>2 DEF Grounded
      <4>2. f.max \in Nat
        <5>1. Final(c) \in SUBSET File
          BY Zenon, FinalIs
        <5> QED
          BY Zenon, <3>2, <5>1, FileIs
      <4> QED
        BY <1>1, <1>2, <4>1, <4>2
    <3> QED
      BY Zenon, <1>4, <2>1, <3>1, <3>2 DEF Grounded
  <2> QED
    BY Zenon, <2>1, <2>2, <2>3, <2>4 DEF Grounded, Under
<1> QED
  BY Zenon, <1>1, <1>6, <1>7, <1>8, <1>9, <1>10 DEF Passes

LEMMA FlushInv ==
    ASSUME CompactionInv, Typed', NEW w \in Writers, UNCHANGED <<lock, cpc, pass>>,
           \/ Flush(w)
           \/ FlushFails(w) /\ PutFile(Mutation(w)) /\ UNCHANGED strayFile
    PROVE  CompactionInv'
<1> USE DEF CompactionInv
<1>1. /\ pc[w] = "flush" /\ PutFile(Mutation(w))
      /\ UNCHANGED <<manifest, strayFile, strayManifest, att, acked>>
      /\ (Goto(w, "flushed") /\ UNCHANGED leaseVars) \/ (Goto(w, "retry") /\ Quit(w))
  BY Zenon DEF Flush, FlushFails, Abandon
<1>2. InTerm(w) /\ Knows(w)
  BY Zenon, <1>1 DEF Fenced, Attempts
<1>3. strayFile' = {} /\ strayManifest' = {}
  BY Zenon, <1>1, <1>2, HoldingQuiet DEF HeldPC
<1>4. OwnStep(w) /\ pc'[w] \in {"flushed", "retry"} /\ att'[w] = att[w]
  BY Zenon, <1>1, PlainMoves DEF PC
<1>5. Fences(w) /\ \A d : InTerm(d)' <=> InTerm(d)
  BY Zenon, <1>1, Clientele, Typeds, FencesKeep
<1>6. \A v \in Writers \ {w} : pc'[v] = pc[v] /\ att'[v] = att[v]
  BY <1>4, Typeds DEF OwnStep
<1>7. Fenced'
  BY Zenon, <1>4, <1>5, <1>6 DEF Fenced, Fences
<1>8. PICK tx : tx = Mutation(w)
  OBVIOUS
<1>9. tx \in Tx /\ tx.txid = att[w].txid /\ tx.key = att[w].key
  <2>1. att[w].key \in Keys /\ att[w].txid \in TXID /\ epoch \in Nat
    BY Zenon, <1>1, Typeds, AttemptIs DEF Numbered, LeaseTypeOK
  <2> QED
    BY <1>8, <2>1 DEF Mutation, Tx
<1>10. tx.txid = Last + 1 /\ Unused(tx.key) /\ PutFile(tx)
  BY Zenon, <1>1, <1>2, <1>8, <1>9 DEF Knows
<1>11. /\ Last' = Last + 1 /\ Chained' /\ Indexed' /\ Strays' /\ Acknowledged' /\ Passes'
       /\ \A X \in SUBSET File : Full(X) => Full(X)'
       /\ \A k, t : Committed(k, t) => Committed(k, t)'
       /\ Committed(tx.key, tx.txid)'
  BY Zenon, <1>1, <1>3, <1>5, <1>7, <1>9, <1>10, GrowFrame
<1>12. ASSUME NEW v \in Writers \ {w} PROVE Rests(v)'
  <2>1. ~InTerm(v)'
    BY Zenon, <1>2, <1>5, <1>12, OneInTerm
  <2>2. Written(v)' => Committed(att[v].key, att[v].txid)
    BY Zenon, <1>6 DEF Attempts, Written
  <2>3. PICK k, t : k = att[v].key /\ t = att[v].txid
    OBVIOUS
  <2>4. Written(v)' => Committed(k, t)'
    BY Zenon, <1>11, <2>2, <2>3
  <2> QED
    BY Zenon, <1>6, <2>1, <2>3, <2>4 DEF Rests, Attempts
<1>13. Rests(w)'
  <2>1. PICK X : X = att[w].files
    OBVIOUS
  <2>2. X \in SUBSET File /\ Last \in Nat /\ manifest.files \in SUBSET File
    BY Zenon, <2>1, Typeds, AttemptIs, LastIs
  <2>3. Last' - 1 = Last /\ \A f \in manifest.files : f.max < Last'
    <3>1. \A f \in manifest.files : f.max <= Last
      BY Zenon, FullIs DEF Indexed
    <3> QED
      BY <1>11, <2>2, <3>1, FileIs
  <2>4. IF att[w].has THEN /\ Full(X)'
                           /\ \A t \in 1..(Last' - 1) : ManifestCovers(X, t)
                           /\ \A f \in manifest.files : f.max < Last'
                      ELSE ~manifest.exists
    BY Zenon, <1>1, <1>2, <1>11, <2>1, <2>2, <2>3 DEF Knows, Whole
  <2>5. Knows(w)'
    BY Zenon, <1>1, <1>4, <1>9, <1>10, <1>11, <2>1, <2>4 DEF Knows
  <2>6. Committed(att[w].key, att[w].txid)'
    BY Zenon, <1>1, <1>9, <1>11 DEF Committed
  <2> QED
    BY Zenon, <1>4, <2>5, <2>6 DEF Rests
<1>14. Attempts'
  BY Zenon, <1>12, <1>13 DEF Attempts, Rests
<1> QED
  BY Zenon, <1>7, <1>11, <1>14

\* What was left behind takes effect, or is lost.
LEMMA StrayLandsInv ==
    ASSUME CompactionInv, Typed', StrayLands, UNCHANGED <<lock, cpc, pass>>
    PROVE  CompactionInv'
<1> USE DEF CompactionInv
<1>1. UNCHANGED <<leaseVars, pc, att, acked>>
  BY Zenon DEF StrayLands, LandFile, LandManifest
<1>2. /\ (\A w \in Writers : ~Holding(w)) /\ (\A c \in Compactors : ~Swapping(c))
      /\ strayFile' = {} /\ strayManifest' = {}
  <2>1. CASE \E tx \in strayFile : LandFile(tx)
    BY Zenon, <2>1 DEF LandFile, Strays
  <2>2. CASE \E X \in strayManifest : LandManifest(X)
    BY Zenon, <2>2 DEF LandManifest, Strays
  <2> QED
    BY Zenon, <2>1, <2>2 DEF StrayLands
<1>3. \A d : InTerm(d)' <=> InTerm(d)
  BY Zenon, <1>1 DEF InTerm, leaseVars
<1>4. Fenced'
  BY Zenon, <1>1, <1>3 DEF Fenced, leaseVars
<1>5. Strays'
  BY Zenon, <1>2 DEF Strays
\* Nobody that knows anything is in its term.
<1>6. ASSUME \A k, t : Committed(k, t) => Committed(k, t)',
             \A k, t : Committed(k, t) /\ Visible(t) => Visible(t)'
      PROVE  Attempts' /\ Acknowledged'
  <2>1. ASSUME NEW w \in Writers PROVE Rests(w)'
    <3>1. PICK k, t : k = att[w].key /\ t = att[w].txid
      OBVIOUS
    <3>2. Written(w) => Committed(k, t) /\ Committed(k, t)'
      BY Zenon, <1>6, <3>1 DEF Attempts
    <3>3. InTerm(w) /\ pc[w] = "releasing" /\ att[w].fate = "ack" => Visible(t)'
      BY Zenon, <1>6, <3>1, <3>2 DEF Attempts, Knows, Written
    <3>4. InTerm(w) => pc[w] \notin HeldPC
      BY Zenon, <1>2 DEF Holding
    <3>5. InTerm(w)' => Knows(w)'
      BY Zenon, <1>1, <1>3, <3>1, <3>3, <3>4 DEF Knows, HeldPC
    <3> QED
      BY Zenon, <1>1, <3>1, <3>2, <3>5 DEF Rests, Attempts, Written
  <2>2. Acknowledged'
    BY Zenon, <1>1, <1>6 DEF Acknowledged
  <2> QED
    BY Zenon, <2>1, <2>2 DEF Attempts, Rests
<1>7. ASSUME NEW tx \in strayFile, PutFile(tx), UNCHANGED manifest PROVE CompactionInv'
  <2>1. tx \in Tx /\ tx.txid = Last + 1 /\ Unused(tx.key)
    BY Zenon DEF Strays, Typed, CompactionTypeOK, WriterTypeOK
  <2>2. /\ Chained' /\ Indexed' /\ Passes'
        /\ \A k, t : Committed(k, t) => Committed(k, t)'
    BY Zenon, <1>1, <1>2, <1>3, <1>4, <1>7, <2>1, GrowFrame
  <2>3. Attempts' /\ Acknowledged'
    BY Zenon, <1>6, <1>7, <2>2 DEF Visible
  <2> QED
    BY Zenon, <1>4, <1>5, <2>2, <2>3
<1>8. ASSUME UNCHANGED objects PROVE Chained' /\ \A k, t : Committed(k, t) => Committed(k, t)'
  BY Zenon, <1>8, DataKept
<1>9. ASSUME UNCHANGED <<objects, manifest>> PROVE CompactionInv'
  <2>1. Indexed'
    BY Zenon, <1>9, DataKept DEF Indexed
  <2>2. Passes'
    BY Zenon, <1>3, <1>9, DataKept DEF Passes, Grounded, Under
  <2>3. Attempts' /\ Acknowledged'
    BY Zenon, <1>6, <1>8, <1>9 DEF Visible
  <2> QED
    BY Zenon, <1>4, <1>5, <1>8, <1>9, <2>1, <2>2, <2>3
<1>10. ASSUME NEW X \in strayManifest, manifest' = Manifest(X), UNCHANGED objects PROVE CompactionInv'
  <2>1. /\ X \in SUBSET File
        /\ Full(X) /\ Under(manifest.files, X) /\ (~manifest.exists => Whole(X))
    BY Zenon DEF Strays, Typed, CompactionTypeOK, WriterTypeOK
  <2>2. Full(X)'
    BY Zenon, <1>10, <2>1, DataKept
  <2>3. /\ Indexed'
        /\ \A k, t : Committed(k, t) /\ Visible(t) => Visible(t)'
        /\ \A Y \in SUBSET File : Under(Y, manifest.files) => Under(Y, manifest.files)'
        /\ manifest'.exists
    BY Zenon, <1>10, <2>1, <2>2, Replaces
  <2>4. ASSUME NEW c \in Compactors PROVE Grounded(c)'
    <3>1. Grounded(c) /\ Current(c) \in SUBSET File
      BY Zenon, CurrentIs DEF Passes
    <3>2. ~(cpc[c] = "put" /\ InTerm(c))
      BY Zenon, <1>2 DEF Swapping
    <3>3. cpc[c] # "idle" => Under(Current(c), manifest.files)'
      BY Zenon, <1>10, <2>3, <3>1, DataKept DEF Grounded, Under
    <3>4. /\ Deleting(c)' = Deleting(c) /\ Kept(c)' = Kept(c) /\ Final(c)' = Final(c)
          /\ Sources(c)' = Sources(c) /\ Last' = Last
      BY Zenon, <1>10, DataKept
    <3> QED
      BY Zenon, <1>3, <1>10, <2>3, <3>1, <3>2, <3>3, <3>4 DEF Grounded
  <2>5. Attempts' /\ Acknowledged'
    BY Zenon, <1>6, <1>8, <1>10, <2>3
  <2> QED
    BY Zenon, <1>4, <1>5, <1>8, <1>10, <2>3, <2>4, <2>5 DEF Passes
<1> QED
  BY Zenon, <1>7, <1>9, <1>10 DEF StrayLands, LandFile, LandManifest
-----------------------------------------------------------------------------
\* Files are merged or deleted, and every transaction stays.
Rewrites ==
    /\ \A f \in DOMAIN objects' : \A t \in f.min..f.max :
          \E g \in DOMAIN objects : t \in g.min..g.max /\ objects'[f][t] = objects[g][t]
    /\ \A g \in DOMAIN objects : \A t \in g.min..g.max : \E f \in DOMAIN objects' : t \in f.min..f.max
    /\ \A f \in DOMAIN objects' : f \in DOMAIN objects \/ f.level # 0

LEMMA RewritesKeep ==
    ASSUME Typed, Typed', Chained, Rewrites
    PROVE  /\ Last' = Last /\ Chained'
           /\ \A k, t : Committed(k, t) <=> Committed(k, t)'
           /\ \A k : Unused(k) <=> Unused(k)'
           /\ \A X : Whole(X) <=> Whole(X)'
<1>1. DOMAIN objects \in SUBSET File /\ DOMAIN objects' \in SUBSET File
  BY Zenon, Typeds DEF Typed, CompactionTypeOK, WriterTypeOK
\* A transaction of a file, before or after, is the one of a file after or before.
<1>2. ASSUME NEW f \in DOMAIN objects', NEW t \in f.min..f.max, NEW g \in DOMAIN objects, t \in g.min..g.max
      PROVE  objects'[f][t] = objects[g][t]
  <2>1. PICK h \in DOMAIN objects : t \in h.min..h.max /\ objects'[f][t] = objects[h][t]
    BY Zenon DEF Rewrites
  <2>2. t \in (h.min..h.max) \cap (g.min..g.max)
    BY Zenon, <1>2, <2>1
  <2>3. FilesAgree
    BY Zenon DEF Chained
  <2>4. objects[h][t] = objects[g][t]
    BY Zenon, <2>2, <2>3 DEF FilesAgree
  <2> QED
    BY Zenon, <2>1, <2>4
<1>3. \A f \in DOMAIN objects' : \A t \in f.min..f.max : \E g \in DOMAIN objects : t \in g.min..g.max
  BY Zenon DEF Rewrites
<1>4. \A g \in DOMAIN objects : \A t \in g.min..g.max : \E f \in DOMAIN objects' : t \in f.min..f.max
  BY Zenon DEF Rewrites
<1>5. \A k, t : Committed(k, t) <=> Committed(k, t)'
  <2> SUFFICES ASSUME NEW k, NEW t PROVE Committed(k, t) <=> Committed(k, t)'
    OBVIOUS
  <2>1. ASSUME Committed(k, t) PROVE Committed(k, t)'
    BY ZenonT(30), <1>2, <1>4, <2>1 DEF Committed
  <2>2. ASSUME Committed(k, t)' PROVE Committed(k, t)
    BY Zenon, <1>2, <1>3, <2>2 DEF Committed
  <2> QED
    BY Zenon, <2>1, <2>2
<1>6. \A k : Unused(k) <=> Unused(k)'
  <2> SUFFICES ASSUME NEW k PROVE Unused(k) <=> Unused(k)'
    OBVIOUS
  <2>1. ASSUME Unused(k) PROVE Unused(k)'
    <3> SUFFICES ASSUME NEW f \in DOMAIN objects', NEW t \in f.min..f.max PROVE objects'[f][t].key # k
      BY Zenon DEF Unused
    <3>1. PICK g \in DOMAIN objects : t \in g.min..g.max /\ objects'[f][t] = objects[g][t]
      BY Zenon DEF Rewrites
    <3> QED
      BY Zenon, <2>1, <3>1 DEF Unused
  <2>2. ASSUME Unused(k)' PROVE Unused(k)
    <3> SUFFICES ASSUME NEW g \in DOMAIN objects, NEW t \in g.min..g.max PROVE objects[g][t].key # k
      BY Zenon DEF Unused
    <3>1. PICK f \in DOMAIN objects' : t \in f.min..f.max
      BY Zenon, <1>4
    <3>2. objects'[f][t] = objects[g][t] /\ objects'[f][t].key # k
      BY Zenon, <1>2, <2>2, <3>1 DEF Unused
    <3> QED
      BY Zenon, <3>2
  <2> QED
    BY Zenon, <2>1, <2>2
<1>7. Last' = Last
  <2>1. /\ Last \in Nat /\ \A f \in DOMAIN objects : f.max <= Last
        /\ Last = 0 \/ \E f \in DOMAIN objects : f.max = Last
    BY Zenon, LastIs
  <2>2. /\ Last' \in Nat /\ \A f \in DOMAIN objects' : f.max <= Last'
        /\ Last' = 0 \/ \E f \in DOMAIN objects' : f.max = Last'
    BY <1>1, MaxTXIDIs, LevelAssumption DEF Last
  <2>3. ASSUME NEW g \in DOMAIN objects PROVE g.max <= Last'
    <3>1. g \in File /\ g.max \in g.min..g.max
      BY <1>1, FileIs
    <3>2. PICK f \in DOMAIN objects' : g.max \in f.min..f.max
      BY Zenon, <1>4, <3>1
    <3>3. f \in File /\ f.max <= Last'
      BY Zenon, <1>1, <2>2
    <3> QED
      BY <2>2, <3>1, <3>2, <3>3, FileIs
  <2>4. ASSUME NEW f \in DOMAIN objects' PROVE f.max <= Last
    <3>1. f \in File /\ f.max \in f.min..f.max
      BY <1>1, FileIs
    <3>2. PICK g \in DOMAIN objects : f.max \in g.min..g.max
      BY Zenon, <1>3, <3>1
    <3>3. g \in File /\ g.max <= Last
      BY Zenon, <1>1, <2>1
    <3> QED
      BY <2>1, <3>1, <3>2, <3>3, FileIs
  <2>5. Last <= Last'
    BY <2>1, <2>2, <2>3
  <2>6. Last' <= Last
    BY <2>1, <2>2, <2>4
  <2> QED
    BY <2>1, <2>2, <2>5, <2>6
<1>8. \A X : Whole(X) <=> Whole(X)'
  BY Zenon, <1>7 DEF Whole
<1>9. ASSUME NEW t \in 1..Last PROVE ManifestCovers(DOMAIN objects', t)
  <2>1. PICK g \in DOMAIN objects : Within(t, g)
    BY Zenon, CoversIs DEF Chained, Whole
  <2>2. g \in File /\ t \in Nat
    BY <1>1, LastIs
  <2>3. t \in g.min..g.max
    BY <2>1, <2>2, FileIs DEF Within
  <2>4. PICK f \in DOMAIN objects' : t \in f.min..f.max
    BY Zenon, <1>4, <2>3
  <2>5. Within(t, f)
    BY <1>1, <2>4, FileIs DEF Within
  <2> QED
    BY Zenon, <2>5, CoversIs
<1>10. Whole(DOMAIN objects)'
  BY Zenon, <1>7, <1>9 DEF Whole
<1>11. FilesAgree'
  <2> SUFFICES ASSUME NEW f \in DOMAIN objects', NEW g \in DOMAIN objects',
                      NEW t \in (f.min..f.max) \cap (g.min..g.max)
               PROVE  objects'[f][t] = objects'[g][t]
    BY Zenon DEF FilesAgree
  <2>1. t \in f.min..f.max /\ t \in g.min..g.max
    BY Zenon
  <2>2. PICK h \in DOMAIN objects : t \in h.min..h.max
    BY Zenon, <1>3, <2>1
  <2>3. objects'[f][t] = objects[h][t] /\ objects'[g][t] = objects[h][t]
    BY Zenon, <1>2, <2>1, <2>2
  <2> QED
    BY Zenon, <2>3
<1>12. \A f \in DOMAIN objects' : f.level = 0 => f.min = f.max
  BY Zenon DEF Rewrites, Chained
<1>13. \A f \in DOMAIN objects' : \A t \in f.min..f.max : objects'[f][t].txid = t
  <2> SUFFICES ASSUME NEW f \in DOMAIN objects', NEW t \in f.min..f.max PROVE objects'[f][t].txid = t
    OBVIOUS
  <2>1. PICK g \in DOMAIN objects : t \in g.min..g.max /\ objects'[f][t] = objects[g][t]
    BY Zenon DEF Rewrites
  <2> QED
    BY Zenon, <2>1 DEF Chained
<1>14. ASSUME NEW f \in DOMAIN objects', NEW g \in DOMAIN objects',
              NEW t \in f.min..f.max, NEW u \in g.min..g.max,
              objects'[f][t].key = objects'[g][u].key
       PROVE  t = u
  <2>1. PICK d \in DOMAIN objects : t \in d.min..d.max /\ objects'[f][t] = objects[d][t]
    BY Zenon DEF Rewrites
  <2>2. PICK e \in DOMAIN objects : u \in e.min..e.max /\ objects'[g][u] = objects[e][u]
    BY Zenon DEF Rewrites
  <2>3. objects[d][t].key = objects[e][u].key
    BY Zenon, <1>14, <2>1, <2>2
  <2> QED
    BY Zenon, <2>1, <2>2, <2>3 DEF Chained
<1>15. Chained'
  BY Zenon, <1>10, <1>11, <1>12, <1>13, <1>14 DEF Chained
<1> QED
  BY Zenon, <1>5, <1>6, <1>7, <1>8, <1>15

LEMMA StillRewrites ==
    ASSUME UNCHANGED objects
    PROVE  Rewrites
BY Zenon DEF Rewrites

LEMMA MergeRewrites ==
    ASSUME Typed, NEW c \in Compactors, NEW s, NEW m, MergesInto(c, s, m)
    PROVE  Rewrites /\ DOMAIN objects' = DOMAIN objects \cup {m}
<1>1. m \in File /\ DOMAIN objects \in SUBSET File /\ s \subseteq DOMAIN objects
  BY Zenon, Typeds DEF MergesInto
<1>2. DOMAIN objects' = DOMAIN objects \cup {m}
  BY DEF MergesInto
<1>3. \A f \in DOMAIN objects' : objects'[f] = IF f = m THEN MergedBody(s, m) ELSE objects[f]
  BY DEF MergesInto
<1>4. ASSUME NEW t \in m.min..m.max
      PROVE  \E g \in DOMAIN objects : t \in g.min..g.max /\ objects'[m][t] = objects[g][t]
  <2>1. Source(s, t) \in DOMAIN objects /\ Within(t, Source(s, t))
    BY Zenon, <1>1 DEF MergesInto
  <2>2. t \in Nat /\ Source(s, t) \in File
    BY <1>1, <2>1, FileIs
  <2>3. t \in Source(s, t).min..Source(s, t).max
    BY <2>1, <2>2, FileIs DEF Within
  <2>4. objects'[m] = MergedBody(s, m)
    BY Zenon, <1>2, <1>3
  <2>5. objects'[m][t] = objects[Source(s, t)][t]
    BY Zenon, <2>4 DEF MergedBody
  <2> QED
    BY Zenon, <2>1, <2>3, <2>5
<1>5. m.level # 0
  <2>1. PICK f \in s : f.level = m.level - 1
    BY Zenon DEF MergesInto
  <2>2. f \in File
    BY Zenon, <1>1
  <2> QED
    BY <1>1, <2>1, <2>2, FileIs
<1> QED
  BY Zenon, <1>2, <1>3, <1>4, <1>5 DEF Rewrites

=============================================================================
