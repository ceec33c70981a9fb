---------------------------- MODULE VisibleProofs --------------------------
(***************************************************************************)
(* What a read sees of an acknowledged mutation, when a PUT does not take  *)
(* effect after the lease was released to a successor.  A manifest that is *)
(* written, at once or late, names every file there is; a writer that      *)
(* found no manifest is right until it writes one itself.                  *)
(***************************************************************************)
EXTENDS WriterProofs

Visible(t) == manifest.exists => L0(t) \in manifest.files

Sees(w) ==
    /\ pc[w] = "releasing" /\ att[w].fate = "ack" => Visible(att[w].txid)
    /\ pc[w] \in HeldPC \ {"read"} /\ ~att[w].has => ~manifest.exists
    /\ pc[w] \in {"list", "put"} => (att[w].mode = "legacy" <=> ~att[w].has)
    /\ pc[w] = "probe" => att[w].has

LateWhole ==
    strayManifest # {} =>
        /\ \A files \in strayManifest : files = Prefix(Last)
        /\ strayFile = {}
        /\ \A w \in Writers : InTerm(w) => pc[w] \notin HeldPC \cup {"granted"}

IndexInv ==
    /\ \A a \in acked : Visible(a.txid)
    /\ LateWhole
    /\ \A w \in Writers : InTerm(w) => Sees(w)

\* Only a writer in its term writes the manifest, and what it writes is whole.
MayIndex(w) == InTerm(w) /\ pc[w] \in {"put", "index"}

OwnIndex(w) ==
    /\ pc' = [pc EXCEPT ![w] = pc'[w]] /\ att' = [att EXCEPT ![w] = att'[w]]
    /\ \/ manifest' = manifest
       \/ MayIndex(w) /\ manifest' = Manifest(att[w].files)
    /\ \/ strayManifest' = strayManifest
       \/ /\ MayIndex(w) /\ pc'[w] \notin HeldPC \cup {"granted"}
          /\ strayManifest' = strayManifest \cup {att[w].files}
    /\ \/ acked' = acked
       \/ /\ InTerm(w) /\ pc[w] = "releasing" /\ att[w].fate = "ack"
          /\ acked' = acked \cup {[key |-> att[w].key, txid |-> att[w].txid]}

\* What is visible stays visible when the whole chain is indexed.
LEMMA IndexWhole ==
    ASSUME WriterInv, NEW t, t \in 1..Last, manifest' = Manifest(Prefix(Last))
    PROVE  Visible(t)'
<1>1. Last \in Nat /\ t \in Int
  <2>1. Chained
    BY DEF WriterInv
  <2> QED
    BY <2>1, LastIs
<1>2. L0(t) \in Prefix(Last)
  BY <1>1, PrefixMember
<1>3. manifest'.files = Prefix(Last)
  BY DEF Manifest
<1> QED
  BY <1>2, <1>3 DEF Visible, L0

\* A writer that may write the manifest has the whole chain, and nothing else
\* is on its way.
LEMMA IndexHolds ==
    ASSUME WriterInv, IndexInv, NEW w \in Writers, MayIndex(w)
    PROVE  att[w].files = Prefix(Last) /\ strayManifest = {} /\ strayFile = {}
<1>1. InTerm(w) /\ pc[w] \in {"put", "index"} /\ pc[w] \in HeldPC
  BY DEF MayIndex, HeldPC
<1>2. att[w].files = Prefix(Last)
  BY <1>1 DEF WriterInv, Attempts, Current
<1>3. strayManifest = {}
  BY <1>1 DEF IndexInv, LateWhole
<1>4. strayFile = {}
  BY <1>1 DEF WriterInv, Stray, ActivePC
<1> QED
  BY <1>2, <1>3, <1>4

LEMMA IndexFrame ==
    ASSUME WriterInv, IndexInv, NEW w \in Writers, OwnIndex(w),
           manifest' # manifest \/ strayManifest' # {} => UNCHANGED <<objects, strayFile>>,
           \A v \in Writers \ {w} : InTerm(v)' => InTerm(v),
           strayManifest # {} => (InTerm(w)' => pc'[w] \notin HeldPC \cup {"granted"}),
           InTerm(w)' => Sees(w)'
    PROVE  IndexInv'
<1>1. \A v \in Writers \ {w} : pc'[v] = pc[v] /\ att'[v] = att[v]
  BY DEF OwnIndex, WriterInv, WriterTypeOK
<1>2. MayIndex(w) => att[w].files = Prefix(Last) /\ strayManifest = {} /\ strayFile = {}
  BY IndexHolds
<1>3. \A t : t \in 1..Last /\ Visible(t) => Visible(t)'
  <2> SUFFICES ASSUME NEW t, t \in 1..Last, Visible(t) PROVE Visible(t)'
    OBVIOUS
  <2>1. CASE manifest' = manifest
    BY <2>1 DEF Visible, L0
  <2>2. CASE manifest' = Manifest(Prefix(Last))
    BY <2>2, IndexWhole
  <2> QED
    BY <1>2, <2>1, <2>2 DEF OwnIndex
<1>4. \A a \in acked' : Visible(a.txid)'
  <2>1. \A a \in acked : a.txid \in 1..Last /\ Visible(a.txid)
    BY Zenon DEF WriterInv, Acknowledged, Committed, IndexInv
  <2>2. /\ InTerm(w) /\ pc[w] = "releasing" /\ att[w].fate = "ack"
        => att[w].txid \in 1..Last /\ Visible(att[w].txid)
    BY DEF WriterInv, Attempts, Written, Committed, IndexInv, Sees
  <2>3. \A a \in acked' : a.txid \in 1..Last /\ Visible(a.txid)
    <3> SUFFICES ASSUME NEW a \in acked' PROVE a.txid \in 1..Last /\ Visible(a.txid)
      OBVIOUS
    <3>1. CASE a \in acked
      BY <2>1, <3>1
    <3>2. CASE /\ InTerm(w) /\ pc[w] = "releasing" /\ att[w].fate = "ack"
               /\ a = [key |-> att[w].key, txid |-> att[w].txid]
      <4>1. a.txid = att[w].txid
        BY <3>2
      <4> QED
        BY Zenon, <2>2, <3>2, <4>1
    <3> QED
      BY <3>1, <3>2 DEF OwnIndex
  <2> QED
    BY <1>3, <2>3
<1>5. LateWhole'
  <2> SUFFICES ASSUME strayManifest' # {}
               PROVE  /\ \A files \in strayManifest' : files = Prefix(Last)'
                      /\ strayFile' = {}
                      /\ \A v \in Writers : InTerm(v)' => pc'[v] \notin HeldPC \cup {"granted"}
    BY DEF LateWhole
  <2>1. UNCHANGED <<objects, strayFile>>
    OBVIOUS
  <2>2. Prefix(Last)' = Prefix(Last)
    BY <2>1 DEF Last, Prefix
  <2>3. CASE strayManifest' = strayManifest
    <3>1. \A v \in Writers : InTerm(v)' => pc'[v] \notin HeldPC \cup {"granted"}
      BY <1>1, <2>3 DEF IndexInv, LateWhole
    <3> QED
      BY <2>1, <2>2, <2>3, <3>1 DEF IndexInv, LateWhole
  <2>4. CASE /\ MayIndex(w) /\ pc'[w] \notin HeldPC \cup {"granted"}
             /\ strayManifest' = strayManifest \cup {att[w].files}
    <3>1. \A v \in Writers \ {w} : ~InTerm(v)
      BY Zenon, <2>4 DEF MayIndex, InTerm
    <3> QED
      BY Zenon, <1>2, <2>1, <2>2, <2>4, <3>1
  <2> QED
    BY <2>3, <2>4 DEF OwnIndex
<1>6. \A v \in Writers : InTerm(v)' => Sees(v)'
  <2> SUFFICES ASSUME NEW v \in Writers \ {w}, InTerm(v)' PROVE Sees(v)'
    OBVIOUS
  <2>1. InTerm(v) /\ ~InTerm(w) /\ Sees(v)
    BY DEF InTerm, IndexInv
  <2>2. manifest' = manifest
    BY <2>1 DEF OwnIndex, MayIndex
  <2>3. pc'[v] = pc[v] /\ att'[v] = att[v]
    BY <1>1
  <2> QED
    BY <2>1, <2>2, <2>3 DEF Sees, Visible, L0
<1> QED
  BY Zenon, <1>4, <1>5, <1>6 DEF IndexInv

\* The same for a step that keeps the grant.
LEMMA IndexSteady ==
    ASSUME WriterInv, IndexInv, NEW w \in Writers, OwnIndex(w),
           manifest' # manifest \/ strayManifest' # {} => UNCHANGED <<objects, strayFile>>,
           UNCHANGED <<owner, taken>>,
           pc'[w] \in HeldPC \cup {"granted"} => pc[w] \in HeldPC \cup {"granted"},
           InTerm(w) => Sees(w)'
    PROVE  IndexInv'
<1>1. \A v : InTerm(v)' <=> InTerm(v)
  BY DEF InTerm
<1>2. strayManifest # {} => (InTerm(w)' => pc'[w] \notin HeldPC \cup {"granted"})
  BY Zenon, <1>1 DEF IndexInv, LateWhole
<1> QED
  BY <1>1, <1>2, IndexFrame

\* A step of w to a place where nothing is claimed of it, and no write.
LEMMA IndexIdles ==
    ASSUME WriterInv, IndexInv, NEW w \in Writers,
           NEW l \in {"idle", "acquire", "read", "retry"}, Goto(w, l),
           l = "read" => pc[w] = "granted",
           \/ att' = att
           \/ \E k \in Keys : att' = [att EXCEPT ![w] = NewAttempt(k)],
           UNCHANGED <<owner, taken, storage, acked>>
    PROVE  IndexInv'
<1>1. pc'[w] = l /\ pc' = [pc EXCEPT ![w] = pc'[w]]
  BY Moves DEF PC, WriterInv
<1>2. att' = [att EXCEPT ![w] = att'[w]]
  BY DEF WriterInv, WriterTypeOK
<1>3. OwnIndex(w) /\ UNCHANGED <<objects, strayFile>>
  BY <1>1, <1>2 DEF OwnIndex, storage
<1>4. Sees(w)'
  BY <1>1 DEF Sees, HeldPC
<1>5. pc'[w] \in HeldPC \cup {"granted"} => pc[w] \in HeldPC \cup {"granted"}
  BY <1>1 DEF HeldPC
<1> QED
  BY <1>3, <1>4, <1>5, IndexSteady

LEMMA IndexIdleSteps ==
    ASSUME WriterInv, IndexInv, NEW w \in Writers,
           \/ \E k \in Keys : Call(w, k)
           \/ Acquired(w) \/ AcquireFails(w) \/ Retry(w) \/ GiveUp(w)
           \/ RunStale(w) \/ FlushedStale(w) \/ ReleaseConflict(w)
    PROVE  IndexInv'
<1>1. att[w].key \in Keys /\ att[w].fate \in Fate
  BY DEF WriterInv, WriterTypeOK, Attempt
<1>2. ASSUME NEW k \in Keys, Call(w, k) PROVE IndexInv'
  BY ZenonT(30), <1>2, IndexIdles DEF Call, leaseVars
<1>3. CASE Acquired(w)
  BY <1>3, IndexIdles DEF Acquired, leaseVars, Enter
<1>4. CASE AcquireFails(w)
  BY <1>4, IndexIdles DEF AcquireFails, leaseVars
<1>5. CASE Retry(w)
  BY ZenonT(30), <1>1, <1>5, IndexIdles DEF Retry, leaseVars
<1>6. CASE GiveUp(w)
  BY Zenon, <1>6, IndexIdles DEF GiveUp, leaseVars
<1>7. CASE RunStale(w) \/ FlushedStale(w)
  BY <1>7, IndexIdles DEF RunStale, FlushedStale, Abandon, Quit
<1>8. CASE ReleaseConflict(w)
  <2>1. Unreleased(att[w].fate) # "ack"
    BY DEF Unreleased
  <2>2. PICK l \in {"idle", "retry"} : Goto(w, l)
    BY Zenon, <1>8 DEF ReleaseConflict, Finish
  <2>3. UNCHANGED <<owner, taken, storage, acked, att>>
    BY <1>8, <2>1 DEF ReleaseConflict, Finish, leaseVars
  <2> QED
    BY Zenon, <2>2, <2>3, IndexIdles
<1> QED
  BY Zenon, <1>2, <1>3, <1>4, <1>5, <1>6, <1>7, <1>8

\* The next grant waits until nothing is on its way.
LEMMA IndexAcquire ==
    ASSUME WriterInv, IndexInv, ~LatePut, NEW w \in Writers, AcquireLands(w)
    PROVE  IndexInv'
<1>1. strayManifest = {} /\ strayManifest' = {}
  BY DEF AcquireLands, TakeLease, Quiet, storage
<1>2. pc'[w] = "granted" /\ pc' = [pc EXCEPT ![w] = pc'[w]]
  BY Zenon, Moves DEF PC, WriterInv, AcquireLands
<1>3. OwnIndex(w) /\ manifest' = manifest
  BY <1>2 DEF AcquireLands, OwnIndex, storage, WriterInv, WriterTypeOK
<1>4. \A v \in Writers \ {w} : ~InTerm(v)'
  BY DEF AcquireLands, TakeLease, Grant, InTerm
<1>5. Sees(w)'
  BY Zenon, <1>2 DEF Sees, HeldPC
<1> QED
  BY <1>1, <1>3, <1>4, <1>5, IndexFrame

\* An attempt ends with a release.
LEMMA IndexReleases ==
    ASSUME WriterInv, IndexInv, NEW w \in Writers, NEW fate \in Fate, NEW job \in SUBSET File,
           ReleaseAfter(w, fate, job),
           \/ UNCHANGED <<manifest, strayManifest>>
           \/ MayIndex(w) /\ manifest' = Manifest(att[w].files) /\ UNCHANGED strayManifest
           \/ /\ MayIndex(w) /\ UNCHANGED manifest
              /\ strayManifest' = strayManifest \cup {att[w].files},
           UNCHANGED <<objects, strayFile, acked>>,
           InTerm(w) /\ fate = "ack" =>
             /\ att[w].txid \in 1..Last
             /\ manifest' = manifest => Visible(att[w].txid)
    PROVE  IndexInv'
<1>1. pc'[w] = "releasing" /\ pc' = [pc EXCEPT ![w] = pc'[w]] /\ UNCHANGED <<owner, taken>>
  BY Moves DEF PC, WriterInv, ReleaseAfter, Quit
<1>2. /\ att'[w].txid = att[w].txid /\ att'[w].fate = fate
      /\ att' = [att EXCEPT ![w] = att'[w]]
  BY ZenonT(30) DEF ReleaseAfter, WriterInv, WriterTypeOK, Attempt
<1>3. pc'[w] \notin HeldPC \cup {"granted"}
  BY <1>1 DEF HeldPC
<1>4. OwnIndex(w)
  BY Zenon, <1>1, <1>2, <1>3 DEF OwnIndex
<1>5. InTerm(w) /\ fate = "ack" => Visible(att[w].txid)'
  <2> SUFFICES ASSUME InTerm(w), fate = "ack" PROVE Visible(att[w].txid)'
    OBVIOUS
  <2>1. PICK t : t = att[w].txid
    OBVIOUS
  <2>2. t \in 1..Last
    BY <2>1
  <2>3. Visible(t)'
    <3>1. CASE manifest' = manifest
      BY Zenon, <2>1, <3>1 DEF Visible, L0
    <3>2. CASE MayIndex(w) /\ manifest' = Manifest(att[w].files)
      BY Zenon, <2>2, <3>2, IndexHolds, IndexWhole
    <3> QED
      BY Zenon, <3>1, <3>2
  <2> QED
    BY <1>2, <2>1, <2>3 DEF Visible
<1>6. InTerm(w) => Sees(w)'
  BY <1>1, <1>2, <1>5 DEF Sees, HeldPC
<1> QED
  BY Zenon, <1>1, <1>3, <1>4, <1>6, IndexSteady

LEMMA IndexReleaseSteps ==
    ASSUME WriterInv, IndexInv, NEW w \in Writers,
           \/ RemoteFails(w) \/ RunFails(w) \/ PutListingFails(w) \/ Index(w)
           \/ PutListing(w) /\ att[w].mode # "repair"
           \/ Dedupe(w) /\ Release(w, "ack")
    PROVE  IndexInv'
<1>1. /\ "ack" \in Fate /\ "retry" \in Fate /\ "error" \in Fate /\ {} \in SUBSET File
      /\ att[w].files \in SUBSET File
  BY DEF Fate, WriterInv, WriterTypeOK, Attempt
<1>2. Written(w) => att[w].txid \in 1..Last
  BY DEF WriterInv, Attempts, Committed
<1>3. Last \in Nat
  <2>1. Chained
    BY Zenon DEF WriterInv
  <2> QED
    BY <2>1, LastIs
<1>4. /\ InTerm(w) /\ pc[w] \in {"list", "put"} /\ att[w].mode = "legacy"
      => Visible(att[w].txid) /\ att[w].txid \in 1..Last
  BY Zenon, <1>2 DEF IndexInv, Sees, Visible, HeldPC, Written
<1>5. CASE RemoteFails(w)
  <2>1. CASE pc[w] = "list" /\ att[w].mode = "legacy"
    BY Zenon, <1>1, <1>4, <1>5, <2>1, IndexReleases DEF RemoteFails, Release, storage
  <2>2. CASE ~(pc[w] = "list" /\ att[w].mode = "legacy")
    BY Zenon, <1>1, <1>5, <2>2, IndexReleases DEF RemoteFails, Release, storage
  <2> QED
    BY Zenon, <2>1, <2>2
<1>6. CASE RunFails(w)
  <2>1. PICK fate \in {"retry", "error"} : Release(w, fate)
    BY <1>6 DEF RunFails
  <2> QED
    BY Zenon, <1>1, <1>6, <2>1, IndexReleases DEF RunFails, Release, storage
<1>7. CASE PutListingFails(w)
  <2>1. \/ UNCHANGED <<manifest, strayManifest>>
        \/ MayIndex(w) /\ manifest' = Manifest(att[w].files) /\ UNCHANGED strayManifest
        \/ /\ MayIndex(w) /\ UNCHANGED manifest
           /\ strayManifest' = strayManifest \cup {att[w].files}
    BY <1>7 DEF PutListingFails, ManifestUnconfirmed, MayIndex
  <2>2. pc[w] = "put" /\ UNCHANGED <<objects, strayFile, acked>>
    BY Zenon, <1>7 DEF PutListingFails
  <2>3. CASE att[w].mode = "legacy"
    <3>1. ReleaseAfter(w, "ack", {})
      BY Zenon, <1>7, <2>3 DEF PutListingFails, Release
    <3> QED
      BY Zenon, <1>1, <1>4, <2>1, <2>2, <2>3, <3>1, IndexReleases
  <2>4. CASE att[w].mode # "legacy"
    <3>1. ReleaseAfter(w, "retry", {})
      BY Zenon, <1>7, <2>4 DEF PutListingFails, Release
    <3> QED
      BY Zenon, <1>1, <2>1, <2>2, <3>1, IndexReleases
  <2> QED
    BY Zenon, <2>3, <2>4
<1>8. CASE Index(w) \/ (PutListing(w) /\ att[w].mode # "repair")
  <2>1. /\ MayIndex(w) /\ manifest' = Manifest(att[w].files) /\ Written(w)
        /\ UNCHANGED <<objects, strayFile, strayManifest, acked>>
    BY Zenon, <1>8 DEF Index, PutListing, MayIndex, Written
  <2>2. PICK job \in SUBSET File : ReleaseAfter(w, "ack", job)
    BY Zenon, <1>1, <1>8 DEF Index, PutListing
  <2>3. manifest' = manifest => Visible(att[w].txid)
    <3> SUFFICES ASSUME manifest' = manifest PROVE Visible(att[w].txid)
      OBVIOUS
    <3>1. L0(att[w].txid) \in Prefix(Last)
      <4>1. att[w].txid \in 1..Last /\ att[w].txid \in Int
        BY <1>2, <1>3, <2>1
      <4> QED
        BY Zenon, <1>3, <4>1, PrefixMember
    <3>2. att[w].files = Prefix(Last)
      BY Zenon, <2>1, IndexHolds
    <3>3. manifest.files = Prefix(Last)
      <4>1. manifest = Manifest(att[w].files)
        BY Zenon, <2>1
      <4> QED
        BY <3>2, <4>1 DEF Manifest
    <3> QED
      BY Zenon, <3>1, <3>3 DEF Visible
  <2> QED
    BY Zenon, <1>1, <1>2, <2>1, <2>2, <2>3, IndexReleases
<1>9. CASE Dedupe(w) /\ Release(w, "ack")
  <2>1. pc[w] = "dedupe" /\ Written(w) /\ UNCHANGED <<storage, acked>>
    BY <1>9 DEF Dedupe, Written
  <2>2. ReleaseAfter(w, "ack", {}) /\ pc'[w] = "releasing"
    BY <1>9 DEF Release, ReleaseAfter, Goto, WriterInv, WriterTypeOK
  <2>3. ~att[w].has \/ (manifest.exists /\ ManifestCovers(manifest.files, att[w].txid))
    BY <1>9, <2>2 DEF Dedupe, StartListing, Goto, WriterInv, WriterTypeOK
  <2>4. InTerm(w) => Visible(att[w].txid)
    <3>1. CASE ~att[w].has
      BY Zenon, <2>1, <3>1 DEF IndexInv, Sees, Visible, HeldPC
    <3>2. CASE ManifestCovers(manifest.files, att[w].txid)
      <4>1. PICK m \in 0..Last : manifest.files = Prefix(m)
        BY DEF WriterInv, Prefixes, IsPrefix
      <4>2. att[w].txid \in Int /\ m \in Nat
        BY <1>2, <1>3, <2>1
      <4> QED
        BY Zenon, <3>2, <4>1, <4>2, PrefixCovering, PrefixMember DEF Visible
    <3> QED
      BY Zenon, <2>3, <3>1, <3>2
  <2> QED
    BY Zenon, <1>1, <1>2, <2>1, <2>2, <2>4, IndexReleases DEF storage
<1> QED
  BY ZenonT(30), <1>5, <1>6, <1>7, <1>8, <1>9
\* A step inside an attempt that writes nothing.
LEMMA IndexMoves ==
    ASSUME WriterInv, IndexInv, NEW w \in Writers, pc[w] \in HeldPC,
           NEW l \in HeldPC \ {"read"}, Goto(w, l), att' = [att EXCEPT ![w] = att'[w]],
           UNCHANGED <<leaseVars, storage, acked>>,
           InTerm(w) =>
             /\ ~att'[w].has => ~att[w].has /\ (pc[w] = "read" => ~manifest.exists)
             /\ l \in {"list", "put"} => (att'[w].mode = "legacy" <=> ~att'[w].has)
             /\ l = "probe" => att'[w].has
    PROVE  IndexInv'
<1>1. pc'[w] = l /\ pc' = [pc EXCEPT ![w] = pc'[w]] /\ UNCHANGED <<owner, taken>>
  BY Zenon, Moves DEF HeldPC, PC, WriterInv, leaseVars
<1>2. OwnIndex(w) /\ UNCHANGED <<objects, strayFile, manifest>>
  BY Zenon, <1>1 DEF OwnIndex, storage
<1>3. InTerm(w) => Sees(w)'
  <2> SUFFICES ASSUME InTerm(w), ~att'[w].has PROVE ~manifest.exists
    BY <1>1, <1>2 DEF Sees, HeldPC
  <2> QED
    BY Zenon DEF IndexInv, Sees
<1> QED
  BY Zenon, <1>1, <1>2, <1>3, IndexSteady

LEMMA IndexAttempts ==
    ASSUME WriterInv, IndexInv, NEW w \in Writers,
           \/ ReadManifest(w) \/ TailTXID(w) \/ BuildManifest(w) \/ OpenWrite(w)
           \/ Dedupe(w) /\ StartListing(w, "dedupe") /\ UNCHANGED leaseVars /\ att[w].has
           \/ Run(w) \/ Flushed(w)
    PROVE  IndexInv'
<1>1. att \in [Writers -> Attempt] /\ att[w] \in Attempt
  BY DEF WriterInv, WriterTypeOK
<1>2. CASE ReadManifest(w)
  <2>1. CASE ~manifest.exists
    BY Zenon, <1>1, <1>2, <2>1, IndexMoves DEF ReadManifest, HeldPC
  <2>2. CASE manifest.exists
    <3>1. att'[w].has /\ att' = [att EXCEPT ![w] = att'[w]]
      BY Zenon, <1>1, <1>2, <2>2 DEF ReadManifest, Attempt
    <3> QED
      BY <1>2, <2>2, <3>1, IndexMoves DEF ReadManifest, HeldPC
  <2> QED
    BY <2>1, <2>2
<1>3. CASE TailTXID(w)
  <2>1. InTerm(w) => att[w].has
    BY Zenon, <1>3 DEF TailTXID, IndexInv, Sees
  <2>2. pc[w] = "probe" /\ UNCHANGED <<leaseVars, storage, acked>>
    BY <1>3 DEF TailTXID
  <2>3. CASE StartListing(w, "repair")
    <3>1. /\ att'[w].has = att[w].has /\ att'[w].mode = "repair"
          /\ att' = [att EXCEPT ![w] = att'[w]]
      BY ZenonT(30), <1>1, <2>3 DEF StartListing, Attempt
    <3> QED
      BY ZenonT(30), <2>1, <2>2, <2>3, <3>1, IndexMoves DEF StartListing, HeldPC
  <2>4. CASE Goto(w, "open") /\ UNCHANGED att
    BY Zenon, <1>1, <2>1, <2>2, <2>4, IndexMoves DEF HeldPC
  <2> QED
    BY Zenon, <1>3, <2>3, <2>4 DEF TailTXID
<1>4. CASE BuildManifest(w)
  <2>1. pc[w] = "list" /\ UNCHANGED <<leaseVars, storage, acked>>
    BY <1>4 DEF BuildManifest
  <2>2. /\ att'[w].has = att[w].has /\ att'[w].mode = att[w].mode
        /\ att' = [att EXCEPT ![w] = att'[w]]
    BY ZenonT(30), <1>1, <1>4 DEF BuildManifest, Attempt
  <2>3. PICK l \in {"list", "put"} : Goto(w, l)
    BY Zenon, <1>4 DEF BuildManifest
  <2>4. InTerm(w) => (att[w].mode = "legacy" <=> ~att[w].has)
    BY Zenon, <2>1 DEF IndexInv, Sees
  <2> QED
    BY Zenon, <2>1, <2>2, <2>3, <2>4, IndexMoves DEF HeldPC
<1>5. CASE OpenWrite(w)
  <2>1. pc[w] = "open" /\ UNCHANGED <<leaseVars, storage, acked>>
    BY <1>5 DEF OpenWrite
  <2>2. PICK t : att' = [att EXCEPT ![w].txid = t]
    BY <1>5 DEF OpenWrite
  <2>3. att'[w].has = att[w].has /\ att' = [att EXCEPT ![w] = att'[w]]
    BY <1>1, <2>2 DEF Attempt
  <2>4. PICK l \in {"dedupe", "run"} : Goto(w, l)
    BY <1>5 DEF OpenWrite
  <2> QED
    BY Zenon, <2>1, <2>3, <2>4, IndexMoves DEF HeldPC
<1>6. CASE Dedupe(w) /\ StartListing(w, "dedupe") /\ UNCHANGED leaseVars /\ att[w].has
  <2>1. pc[w] = "dedupe" /\ UNCHANGED <<leaseVars, storage, acked>>
    BY <1>6 DEF Dedupe
  <2>2. /\ att'[w].has = att[w].has /\ att'[w].mode = "dedupe"
        /\ att' = [att EXCEPT ![w] = att'[w]]
    BY ZenonT(30), ZenonT(30), <1>1, <1>6 DEF StartListing, Attempt
  <2> QED
    BY ZenonT(30), ZenonT(30), <1>6, <2>1, <2>2, IndexMoves DEF StartListing, HeldPC
<1>7. CASE Run(w)
  BY <1>1, <1>7, IndexMoves DEF Run, HeldPC
<1>8. CASE Flushed(w)
  <2>1. pc[w] = "flushed" /\ UNCHANGED <<leaseVars, storage, acked>>
    BY <1>8 DEF Flushed
  <2>2. CASE att[w].has
    <3>1. att'[w].has = att[w].has /\ att' = [att EXCEPT ![w] = att'[w]]
      BY ZenonT(30), <1>1, <1>8, <2>2 DEF Flushed, Attempt
    <3> QED
      BY ZenonT(30), <1>8, <2>1, <2>2, <3>1, IndexMoves DEF Flushed, HeldPC
  <2>3. CASE ~att[w].has
    <3>1. /\ att'[w].has = att[w].has /\ att'[w].mode = "legacy"
          /\ att' = [att EXCEPT ![w] = att'[w]]
      BY <1>1, <1>8, <2>3 DEF Flushed, StartListing, Attempt
    <3> QED
      BY Zenon, <1>8, <2>1, <2>3, <3>1, IndexMoves DEF Flushed, StartListing, HeldPC
  <2> QED
    BY <2>2, <2>3
<1> QED
  BY ZenonT(30), <1>2, <1>3, <1>4, <1>5, <1>6, <1>7, <1>8

\* A repaired manifest is written, and the attempt goes on.
LEMMA IndexRepair ==
    ASSUME WriterInv, IndexInv, NEW w \in Writers, PutListing(w), att[w].mode = "repair"
    PROVE  IndexInv'
<1>1. MayIndex(w) /\ manifest' = Manifest(att[w].files) /\ att[w].has
  BY DEF PutListing, MayIndex, IndexInv, Sees
<1>2. /\ Goto(w, "open") /\ UNCHANGED <<leaseVars, att>>
      /\ UNCHANGED <<objects, strayFile, strayManifest, acked>>
  BY DEF PutListing
<1>3. /\ pc'[w] = "open" /\ pc' = [pc EXCEPT ![w] = pc'[w]]
      /\ att'[w] = att[w] /\ att' = [att EXCEPT ![w] = att'[w]]
  BY Zenon, <1>2, Moves, Stays DEF PC, WriterInv
<1>4. OwnIndex(w)
  BY Zenon, <1>1, <1>2, <1>3 DEF OwnIndex
<1>5. Sees(w)'
  BY <1>1, <1>3 DEF Sees
<1>6. pc[w] \in HeldPC /\ UNCHANGED <<owner, taken>>
  BY Zenon, <1>1, <1>2 DEF MayIndex, HeldPC, leaseVars
<1> QED
  BY Zenon, <1>2, <1>4, <1>5, <1>6, IndexSteady

\* A transaction is flushed, at once or late: the writer is in its term, so no
\* manifest is on its way.
LEMMA IndexFlush ==
    ASSUME WriterInv, IndexInv, NEW w \in Writers, pc[w] = "flush",
           NEW l \in {"flushed", "retry", "idle"}, Goto(w, l),
           UNCHANGED <<owner, taken, manifest, strayManifest, att, acked>>
    PROVE  IndexInv'
<1>1. InTerm(w) /\ pc[w] \in HeldPC
  BY FlushNext DEF HeldPC
<1>2. strayManifest' = {}
  BY <1>1 DEF IndexInv, LateWhole
<1>3. pc'[w] = l /\ pc' = [pc EXCEPT ![w] = pc'[w]]
  BY Moves DEF PC, WriterInv
<1>4. att'[w] = att[w] /\ att' = [att EXCEPT ![w] = att'[w]]
  BY Stays DEF WriterInv
<1>5. OwnIndex(w)
  BY Zenon, <1>3, <1>4 DEF OwnIndex
<1>6. ~att[w].has => ~manifest.exists
  BY <1>1 DEF IndexInv, Sees
<1>7. Sees(w)'
  BY Zenon, <1>3, <1>4, <1>6 DEF Sees, HeldPC
<1> QED
  BY Zenon, <1>1, <1>2, <1>5, <1>7, IndexSteady

\* An attempt ends without a release; what it was writing may be on its way.
LEMMA IndexEnds ==
    ASSUME WriterInv, IndexInv, NEW w \in Writers, IndexFails(w) \/ Crash(w), pc[w] # "flush"
    PROVE  IndexInv'
<1>1. PICK l \in {"retry", "idle"} : Goto(w, l)
  BY DEF IndexFails, Crash, Abandon
<1>2. pc'[w] = l /\ pc' = [pc EXCEPT ![w] = pc'[w]]
  BY Zenon, <1>1, Moves DEF PC, WriterInv
<1>3. UNCHANGED <<owner, taken, objects, strayFile, att, acked>>
  BY DEF IndexFails, Crash, Abandon, Quit
<1>4. att' = [att EXCEPT ![w] = att'[w]]
  BY Zenon, <1>3, Stays DEF WriterInv
<1>5. pc'[w] \notin HeldPC \cup {"granted"} /\ Sees(w)'
  BY Zenon, <1>2 DEF HeldPC, Sees
<1>6. \/ UNCHANGED <<manifest, strayManifest>>
      \/ MayIndex(w) /\ manifest' = Manifest(att[w].files) /\ UNCHANGED strayManifest
      \/ /\ MayIndex(w) /\ UNCHANGED manifest
         /\ strayManifest' = strayManifest \cup {att[w].files}
  BY DEF IndexFails, Crash, ManifestUnconfirmed, MayIndex
<1>7. OwnIndex(w)
  BY Zenon, <1>2, <1>3, <1>4, <1>5, <1>6 DEF OwnIndex
<1> QED
  BY Zenon, <1>3, <1>5, <1>7, IndexSteady

\* The lease is released, and a call whose mutation is visible is acknowledged.
LEMMA IndexFinish ==
    ASSUME WriterInv, IndexInv, NEW w \in Writers, Released(w) \/ ReleaseFails(w)
    PROVE  IndexInv'
<1>1. pc[w] = "releasing" /\ InTerm(w) /\ owner' = owner /\ (taken' => taken)
  BY DEF Released, ReleaseFails, Free, leaseVars
<1>2. PICK l \in {"retry", "idle"} : Goto(w, l)
  BY DEF Released, ReleaseFails, Finish
<1>3. pc'[w] = l /\ pc' = [pc EXCEPT ![w] = pc'[w]]
  BY Zenon, <1>2, Moves DEF PC, WriterInv
<1>4. UNCHANGED <<storage, att>> /\ att' = [att EXCEPT ![w] = att'[w]]
  BY Zenon, Stays DEF Released, ReleaseFails, Finish, WriterInv
<1>5. \/ acked' = acked
      \/ /\ att[w].fate = "ack"
         /\ acked' = acked \cup {[key |-> att[w].key, txid |-> att[w].txid]}
  BY Zenon DEF Released, ReleaseFails, Finish, Unreleased
<1>6. pc'[w] \notin HeldPC \cup {"granted"} /\ Sees(w)'
  BY Zenon, <1>3 DEF HeldPC, Sees
<1>7. OwnIndex(w) /\ UNCHANGED <<objects, strayFile>>
  BY <1>1, <1>3, <1>4, <1>5 DEF OwnIndex, storage
<1>8. \A v : InTerm(v)' => InTerm(v)
  BY <1>1 DEF InTerm
<1> QED
  BY Zenon, <1>6, <1>7, <1>8, IndexFrame

\* The lease of w goes stale or is extended, or nothing happens.
LEMMA IndexStays ==
    ASSUME WriterInv, IndexInv,
           UNCHANGED <<owner, taken, objects, manifest, strayFile, strayManifest, pc, att, acked>>
    PROVE  IndexInv'
<1>1. \A v : (InTerm(v)' <=> InTerm(v)) /\ (Sees(v)' <=> Sees(v))
  BY DEF InTerm, Sees, Visible, L0
<1>2. Prefix(Last)' = Prefix(Last) /\ \A t : Visible(t)' <=> Visible(t)
  BY DEF Last, Prefix, Visible, L0
<1>3. LateWhole'
  BY <1>1, <1>2 DEF IndexInv, LateWhole
<1> QED
  BY Zenon, <1>1, <1>2, <1>3 DEF IndexInv
\* A flush or a manifest lands late, or is lost.
LEMMA IndexLands ==
    ASSUME WriterInv, IndexInv, StrayLands
    PROVE  IndexInv'
<1>1. ASSUME NEW tx \in strayFile, LandFile(tx) PROVE IndexInv'
  <2>1. strayManifest' = {} /\ UNCHANGED <<owner, taken, manifest, pc, att, acked>>
    BY Zenon, <1>1 DEF LandFile, IndexInv, LateWhole, leaseVars
  <2>2. \A v : (InTerm(v)' <=> InTerm(v)) /\ (Sees(v)' <=> Sees(v))
    BY <2>1 DEF InTerm, Sees, Visible, L0
  <2>3. \A t : Visible(t)' <=> Visible(t)
    BY <2>1 DEF Visible, L0
  <2> QED
    BY Zenon, <2>1, <2>2, <2>3 DEF IndexInv, LateWhole
<1>2. ASSUME NEW files \in strayManifest, LandManifest(files) PROVE IndexInv'
  <2>1. /\ UNCHANGED <<owner, taken, objects, strayFile, pc, att, acked>>
        /\ strayManifest' \subseteq strayManifest
    BY <1>2 DEF LandManifest, leaseVars
  <2>2. manifest' = manifest \/ manifest' = Manifest(Prefix(Last))
    BY <1>2 DEF LandManifest, IndexInv, LateWhole
  <2>3. \A t : t \in 1..Last /\ Visible(t) => Visible(t)'
    <3> SUFFICES ASSUME NEW t, t \in 1..Last, Visible(t) PROVE Visible(t)'
      BY Zenon
    <3>1. CASE manifest' = manifest
      BY <3>1 DEF Visible, L0
    <3>2. CASE manifest' = Manifest(Prefix(Last))
      BY <3>2, IndexWhole
    <3> QED
      BY Zenon, <2>2, <3>1, <3>2
  <2>4. \A v : InTerm(v)' <=> InTerm(v)
    BY <2>1 DEF InTerm
  <2>5. \A a \in acked' : Visible(a.txid)'
    BY <2>1, <2>3 DEF WriterInv, Acknowledged, Committed, IndexInv
  <2>6. Prefix(Last)' = Prefix(Last)
    BY <2>1 DEF Last, Prefix
  <2>7. LateWhole'
    BY Zenon, <2>1, <2>4, <2>6 DEF IndexInv, LateWhole
  <2>8. ASSUME NEW v \in Writers, InTerm(v)' PROVE Sees(v)'
    <3>1. pc'[v] = pc[v] /\ att'[v] = att[v] /\ pc[v] \notin HeldPC \cup {"granted"} /\ InTerm(v)
      BY Zenon, <2>1, <2>4, <2>8 DEF IndexInv, LateWhole
    <3>2. /\ pc[v] = "releasing" /\ att[v].fate = "ack"
          => Visible(att[v].txid) /\ att[v].txid \in 1..Last
      BY <3>1 DEF IndexInv, Sees, WriterInv, Attempts, Written, Committed
    <3>3. PICK t : t = att[v].txid
      OBVIOUS
    <3>4. pc[v] = "releasing" /\ att[v].fate = "ack" => Visible(t)'
      BY <2>3, <3>2, <3>3
    <3> QED
      BY Zenon, <3>1, <3>3, <3>4 DEF Sees, Visible, HeldPC
  <2> QED
    BY <2>5, <2>7, <2>8 DEF IndexInv
<1> QED
  BY Zenon, <1>1, <1>2 DEF StrayLands

LEMMA IndexNext ==
    ASSUME ~LatePut, WriterInv, IndexInv, [WriterNext]_writerVars
    PROVE  IndexInv'
<1>1. CASE UNCHANGED writerVars
  BY <1>1, IndexStays DEF writerVars
<1>2. CASE StrayLands
  BY <1>2, IndexLands
<1>3. ASSUME NEW w \in Writers, (\E k \in Keys : Call(w, k)) \/ Progress(w) \/ Failure(w)
      PROVE  IndexInv'
  <2>1. CASE PutListing(w)
    BY Zenon, <2>1, IndexRepair, IndexReleaseSteps
  <2>2. CASE Dedupe(w)
    <3>1. CASE StartListing(w, "dedupe") /\ UNCHANGED leaseVars /\ att[w].has
      BY Zenon, <2>2, <3>1, IndexAttempts
    <3>2. CASE Release(w, "ack")
      BY <2>2, <3>2, IndexReleaseSteps
    <3> QED
      BY <2>2, <3>1, <3>2 DEF Dedupe
  <2>3. CASE Flush(w) \/ FlushFails(w)
    <3>1. pc[w] = "flush" /\ UNCHANGED <<owner, taken, manifest, strayManifest, att, acked>>
      BY <2>3 DEF Flush, FlushFails, Abandon, Quit, leaseVars
    <3>2. Goto(w, "flushed") \/ Goto(w, "retry")
      BY <2>3 DEF Flush, FlushFails, Abandon
    <3> QED
      BY Zenon, <3>1, <3>2, IndexFlush
  <2>4. CASE Crash(w)
    <3>1. CASE pc[w] = "flush"
      <4>1. Goto(w, "idle") /\ UNCHANGED <<owner, taken, manifest, strayManifest, att, acked>>
        BY <2>4, <3>1 DEF Crash, Quit
      <4> QED
        BY Zenon, <3>1, <4>1, IndexFlush
    <3> QED
      BY <2>4, <3>1, IndexEnds
  <2>5. CASE IndexFails(w)
    <3>1. pc[w] # "flush"
      BY Zenon, <2>5 DEF IndexFails
    <3> QED
      BY Zenon, <2>5, <3>1, IndexEnds
  <2>6. CASE Expire(w) \/ RenewLate(w)
    BY <2>6, IndexStays DEF Expire, RenewLate, Leave, Enter, storage
  <2> QED
    BY ZenonT(30), ZenonT(30), <1>3, <2>1, <2>2, <2>3, <2>4, <2>5, <2>6, IndexIdleSteps, IndexAcquire, IndexAttempts,
       IndexReleaseSteps, IndexFinish DEF Progress, Failure
<1> QED
  BY <1>1, <1>2, <1>3 DEF WriterNext

LEMMA IndexShows ==
    ASSUME WriterInv, IndexInv
    PROVE  AckedVisible
<1> SUFFICES ASSUME NEW a \in acked PROVE a.txid <= Reach(ReaderFiles)
  BY DEF AckedVisible
<1>1. a.txid \in 1..Last /\ Visible(a.txid) /\ Last \in 0..MaxTx
  <2>1. Chained
    BY DEF WriterInv
  <2>2. a.txid \in 1..Last /\ Visible(a.txid)
    BY DEF WriterInv, Acknowledged, Committed, IndexInv
  <2> QED
    BY Zenon, <2>1, <2>2, LastIs
<1>2. CASE ~manifest.exists
  BY <1>1, <1>2 DEF ReaderFiles, Last
<1>3. CASE manifest.exists
  <2>1. PICK m \in 0..Last : manifest.files = Prefix(m)
    BY DEF WriterInv, Prefixes, IsPrefix
  <2>2. m \in 0..MaxTx /\ m \in Nat /\ a.txid \in Int
    BY <1>1, LevelAssumption
  <2>3. a.txid \in 1..m
    BY Zenon, <1>1, <1>3, <2>1, <2>2, PrefixMember DEF Visible
  <2>4. Reach(ReaderFiles) = m
    BY <1>3, <2>1, <2>2, PrefixReach DEF ReaderFiles
  <2> QED
    BY <2>2, <2>3, <2>4
<1> QED
  BY <1>2, <1>3

\* Unless a PUT may take effect after the lease was released, every read that
\* starts after an acknowledgement finds the mutation in the manifest, after
\* any later failure, crash and takeover.
THEOREM WriterVisible == WriterSpec => [](~LatePut => AckedVisible)
<1> DEFINE Inv == ~LatePut => IndexInv
<1>1. WriterInit => Inv
  BY DEF WriterInit, IndexInv, LateWhole, Sees, LeaseInit, HeldPC
<1>2. WriterInv /\ Inv /\ [WriterNext]_writerVars => Inv'
  BY IndexNext
<1>3. WriterInv /\ Inv => (~LatePut => AckedVisible)
  BY IndexShows
<1> HIDE DEF Inv
<1> QED
  BY <1>1, <1>2, <1>3, WriterInvariant, PTL DEF WriterSpec

=============================================================================
