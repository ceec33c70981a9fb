-------------------------- MODULE CompactionProofs -------------------------
(***************************************************************************)
(* The theorems about Compaction, for any number of writers, passes,       *)
(* levels and TXIDs; before them the preservation of CompactionInv by the  *)
(* steps of a pass (merge, swap of the manifest, deletion of what it       *)
(* superseded), what the invariant says of the plan of a read, and which   *)
(* steps change the log.                                                   *)
(***************************************************************************)
EXTENDS CompactionInvariant

-----------------------------------------------------------------------------
\* A step of c, whatever it writes.
LEMMA PassFrame ==
    ASSUME CompactionInv, Typed', NEW c \in Compactors, OwnPass(c), Fences(c),
           UNCHANGED <<pc, att, acked>>, Rewrites, Grounded(c)', Indexed', Strays',
           lock' = lock \/ lock = c \/ lock = Nobody,
           DOMAIN objects \subseteq DOMAIN objects' \/ lock = c,
           InTerm(c) \/ /\ UNCHANGED manifest
                        /\ \A X \in SUBSET File : \A l \in Nat : Sound(X, l) => Sound(X, l)'
                        /\ \A X \in SUBSET File : \A l \in Nat : \A t \in Nat : Shown(X, l, t) => Shown(X, l, t)',
           \A k, t : Committed(k, t) /\ Visible(t) => Visible(t)',
           \A Y \in SUBSET File : Under(Y, manifest.files) => Under(Y, manifest.files)',
           manifest.exists => manifest'.exists
    PROVE  CompactionInv'
<1> USE DEF CompactionInv
<1>1. /\ Last' = Last /\ Chained'
      /\ \A k, t : Committed(k, t) <=> Committed(k, t)'
      /\ \A k : Unused(k) <=> Unused(k)'
      /\ \A X : Whole(X) <=> Whole(X)'
  BY Zenon, RewritesKeep
<1>2. \A d \in Compactors \ {c} : cpc'[d] = cpc[d] /\ pass'[d] = pass[d]
  BY Typeds DEF OwnPass
<1>3. \A w \in Writers : w # c
  BY Zenon, Clientele
<1>4. Fenced'
  BY Zenon, <1>3 DEF Fenced, Fences
<1>5. ASSUME NEW w \in Writers PROVE Rests(w)'
  <2>1. PICK k, t, X : k = att[w].key /\ t = att[w].txid /\ X = att[w].files
    BY Zenon
  <2>2. X \in SUBSET File /\ att[w].level \in Nat /\ TopLevel + 1 \in Nat
    BY <2>1, Typeds, AttemptIs, LevelAssumption
  <2>3. Written(w) => Committed(k, t) /\ Committed(k, t)'
    BY Zenon, <1>1, <2>1 DEF Attempts
  <2>4. ASSUME InTerm(w)' PROVE Knows(w)'
    <3>1. InTerm(w) /\ ~InTerm(c)
      BY Zenon, <1>3, <2>4, OneInTerm DEF Fences
    <3>2. /\ UNCHANGED manifest /\ (Full(X) => Full(X)') /\ (Whole(X) => Whole(X)')
          /\ (Unused(k) => Unused(k)')
          /\ Sound(X, att[w].level) => Sound(X, att[w].level)'
          /\ \A u \in 1..Last : Shown(X, att[w].level, u) => Shown(X, att[w].level, u)'
      <4>1. \A u \in 1..Last : u \in Nat
        BY Zenon, LastIs, InNat
      <4> QED
        BY ZenonT(30), <1>1, <2>2, <3>1, <4>1 DEF Full
    <3>3. Knows(w)
      BY Zenon, <3>1 DEF Attempts
    <3> HIDE DEF CompactionInv
    <3> QED
      BY Zenon, <1>1, <2>1, <3>2, <3>3 DEF Knows, Visible
  <2> QED
    BY Zenon, <2>1, <2>3, <2>4 DEF Rests, Attempts, Written
<1>6. Attempts'
  BY Zenon, <1>5 DEF Attempts, Rests
<1>7. Acknowledged'
  BY Zenon, <1>1 DEF Acknowledged
<1>8. ASSUME NEW d \in Compactors \ {c} PROVE Grounded(d)'
  <2>1. Grounded(d) /\ Current(d) \in SUBSET File /\ d # Nobody
    BY Zenon, CurrentIs, CompactorsAssumption DEF Passes
  <2>2. /\ Current(d)' = Current(d) /\ Sources(d)' = Sources(d) /\ Final(d)' = Final(d)
        /\ Deleting(d)' = Deleting(d)
    BY Zenon, <1>2 DEF Current, Sources, Final, Deleting
  <2>3. cpc'[d] \notin {"idle", "lock"} => lock' = d /\ DOMAIN objects \subseteq DOMAIN objects'
    BY Zenon, <1>2, <2>1 DEF Grounded
  <2>4. cpc'[d] # "idle" => manifest'.exists /\ Under(Current(d), manifest.files)'
    <3>1. PICK Y \in SUBSET File : Y = Current(d)
      BY Zenon, <2>1
    <3>2. cpc'[d] # "idle" => manifest'.exists /\ Under(Y, manifest.files)'
      BY Zenon, <1>2, <2>1, <3>1 DEF Grounded
    <3> QED
      BY Zenon, <2>2, <3>1, <3>2 DEF Under
  <2>5. cpc'[d] \notin {"idle", "failing", "delete"} => pass'[d].merged \subseteq DOMAIN objects'
    BY Zenon, <1>2, <2>1, <2>3 DEF Grounded
  <2>6. cpc'[d] = "put" /\ InTerm(d)' => pass'[d].base = manifest'.files
    <3>1. InTerm(d)' => InTerm(d) /\ UNCHANGED manifest
      BY Zenon, <1>8, OneInTerm DEF Fences
    <3> QED
      BY Zenon, <1>2, <2>1, <3>1 DEF Grounded
  <2>7. ASSUME Deleting(d)'
        PROVE  /\ \A f \in Sources(d)' : \E g \in Kept(d)' : Above(g, f)
               /\ \A f \in Final(d)' : f.max <= Last'
    <3>1. Deleting(d) /\ cpc'[d] \notin {"idle", "lock"}
      BY Zenon, <1>2, <2>2, <2>7 DEF Deleting
    <3>2. Kept(d) \subseteq Kept(d)'
      BY Zenon, <2>2, <2>3, <3>1 DEF Kept
    <3> QED
      BY Zenon, <1>1, <2>1, <2>2, <3>1, <3>2 DEF Grounded
  <2> QED
    BY Zenon, <1>2, <2>1, <2>3, <2>4, <2>5, <2>6, <2>7 DEF Grounded
<1>9. Passes'
  BY Zenon, <1>8 DEF Passes
<1> QED
  BY Zenon, <1>1, <1>4, <1>6, <1>7, <1>9

\* A step of c that does not touch the manifest.
LEMMA PassQuiet ==
    ASSUME CompactionInv, Typed', NEW c \in Compactors, OwnPass(c), Fences(c),
           UNCHANGED <<pc, att, acked, manifest, strayFile, strayManifest>>, Rewrites, Grounded(c)',
           lock' = lock \/ lock = c \/ lock = Nobody,
           DOMAIN objects \subseteq DOMAIN objects' \/ lock = c,
           \A X \in SUBSET File : \A l \in Nat : Sound(X, l) => Sound(X, l)',
           \A X \in SUBSET File : \A l \in Nat : \A t \in Nat : Shown(X, l, t) => Shown(X, l, t)',
           \A g \in DOMAIN objects' : g.level > 0 => \E f \in manifest.files : g.max <= f.max,
           Swapping(c)' => Swapping(c) \/ (strayFile = {} /\ strayManifest = {})
    PROVE  CompactionInv'
<1> USE DEF CompactionInv
<1>1. /\ Last' = Last /\ (\A k : Unused(k) <=> Unused(k)') /\ (\A X : Whole(X) <=> Whole(X)')
  BY Zenon, RewritesKeep
<1>2. \A X \in SUBSET File : Full(X) => Full(X)'
  <2>1. TopLevel + 1 \in Nat
    BY Zenon, LevelNat
  <2> QED
    BY Zenon, <2>1 DEF Full
<1>3. \A d \in Compactors \ {c} : cpc'[d] = cpc[d]
  BY Typeds DEF OwnPass
<1>4. Indexed'
  BY Zenon, <1>2, Typeds DEF Indexed
<1>5. Strays'
  <2>1. \A w \in Writers : Holding(w)' => Holding(w)
    BY Zenon, Clientele DEF Fences, Holding
  <2>2. \A d \in Compactors : Swapping(d)' => Swapping(d) \/ (strayFile = {} /\ strayManifest = {})
    BY Zenon, <1>3 DEF Fences, Swapping
  <2>3. \A X \in strayManifest : X \in SUBSET File
    BY Zenon DEF Typed, CompactionTypeOK, WriterTypeOK
  <2>4. \A X \in strayManifest : Full(X)' /\ Under(manifest.files, X)' /\ (~manifest'.exists => Whole(X)')
    BY Zenon, <1>1, <1>2, <2>3 DEF Strays, Under
  <2>5. strayFile # {} \/ strayManifest # {} =>
          (\A w \in Writers : ~Holding(w)') /\ (\A d \in Compactors : ~Swapping(d)')
    BY Zenon, <2>1, <2>2 DEF Strays
  <2>6. \A tx \in strayFile : tx.txid = Last' + 1 /\ Unused(tx.key)' /\ strayFile = {tx}
    BY Zenon, <1>1 DEF Strays
  <2> QED
    BY Zenon, <2>4, <2>5, <2>6 DEF Strays
<1>6. \A k, t : Committed(k, t) /\ Visible(t) => Visible(t)'
  BY Zenon DEF Visible
<1>7. \A Y \in SUBSET File : Under(Y, manifest.files) => Under(Y, manifest.files)'
  BY Zenon DEF Under
<1> QED
  BY Zenon, <1>4, <1>5, <1>6, <1>7, PassFrame

\* One that leaves the objects alone too.
LEMMA PassStill ==
    ASSUME CompactionInv, Typed', NEW c \in Compactors, OwnPass(c), Fences(c), Grounded(c)',
           UNCHANGED <<pc, att, acked>>, UNCHANGED storage,
           lock' = lock \/ lock = c \/ lock = Nobody,
           Deleting(c)' => Deleting(c) /\ pass'[c] = pass[c],
           Swapping(c)' => Swapping(c) \/ (strayFile = {} /\ strayManifest = {})
    PROVE  CompactionInv'
<1> USE DEF CompactionInv
<1>1. UNCHANGED <<objects, manifest, strayFile, strayManifest>>
  BY Zenon DEF storage
<1>2. \A d \in Compactors \ {c} : cpc'[d] = cpc[d] /\ pass'[d] = pass[d]
  BY Typeds DEF OwnPass
<1>3. \A d \in Compactors : Deleting(d)' => Deleting(d) /\ pass'[d] = pass[d]
  BY Zenon, <1>2 DEF Deleting
<1>4. \A d \in Compactors : Deleting(d)' => Deleting(d) /\ Kept(d)' \subseteq Kept(d)
  BY Zenon, <1>1, <1>3 DEF Kept, Final, Sources
<1>5. Last' = Last /\ Last <= Last'
  <2>1. Last' = Last
    BY Zenon, <1>1 DEF Last
  <2> QED
    BY <2>1, LastIs
<1>6. DOMAIN objects \subseteq DOMAIN objects'
  BY Zenon, <1>1
<1>7. /\ \A X \in SUBSET File : \A l : Sound(X, l) => Sound(X, l)'
      /\ \A X, l, t : Shown(X, l, t) => Shown(X, l, t)'
  BY Zenon, <1>4, <1>5, <1>6, SoundKept
<1>8. \A g \in DOMAIN objects' : g.level > 0 => \E f \in manifest.files : g.max <= f.max
  BY Zenon, <1>1 DEF Indexed
<1>9. Rewrites
  BY Zenon, <1>1, StillRewrites
<1> QED
  BY Zenon, <1>1, <1>6, <1>7, <1>8, <1>9, PassQuiet
-----------------------------------------------------------------------------
\* The pass ends.
LEMMA EndedGrounded ==
    ASSUME Typed, NEW c \in Compactors, EndPass(c)
    PROVE  /\ OwnPass(c) /\ Grounded(c)' /\ ~Deleting(c)' /\ ~Swapping(c)'
           /\ lock' = lock \/ lock = c
<1>1. /\ OwnPass(c) /\ cpc'[c] = "idle" /\ pass'[c] = NoPass
      /\ lock' = IF lock = c THEN Nobody ELSE lock
  BY Zenon, CEnds
<1>2. pass'[c].merged = {}
  BY <1>1 DEF NoPass
<1> QED
  BY Zenon, <1>1, <1>2 DEF Grounded, Deleting, Swapping

LEMMA PassEnds ==
    ASSUME CompactionInv, Typed', NEW c \in Compactors, EndPass(c), UNCHANGED <<pc, att, acked>>,
           UNCHANGED storage, Fences(c)
    PROVE  CompactionInv'
<1>1. /\ OwnPass(c) /\ Grounded(c)' /\ ~Deleting(c)' /\ ~Swapping(c)'
      /\ lock' = lock \/ lock = c
  BY Zenon, EndedGrounded DEF CompactionInv
<1> QED
  BY Zenon, <1>1, PassStill

\* What a list reaches, it reaches.
LEMMA UnderSelf ==
    ASSUME NEW X \in SUBSET File
    PROVE  Under(X, X)
BY FileIs DEF Under

LEMMA StartPassInv ==
    ASSUME CompactionInv, Typed', NEW c \in Compactors, StartPass(c)
    PROVE  CompactionInv'
<1> USE DEF CompactionInv
<1>1. /\ OwnPass(c) /\ cpc'[c] = "lock" /\ pass'[c].files = manifest.files
      /\ pass'[c].merged = pass[c].merged
  BY Zenon, CStarts
<1>2. /\ cpc[c] = "idle" /\ manifest.exists /\ UNCHANGED <<leaseVars, storage, lock>>
      /\ UNCHANGED <<pc, att, acked>> /\ UNCHANGED <<manifest, objects>>
  BY Zenon DEF StartPass, storage
<1>3. pass'[c].merged = {}
  BY Zenon, <1>1, <1>2 DEF Passes, Grounded
<1>4. Current(c)' = manifest.files
  BY Zenon, <1>1, <1>3 DEF Current
<1>5. Under(Current(c), manifest.files)'
  BY Zenon, <1>2, <1>4, UnderSelf, Typeds DEF Under
<1>6. Grounded(c)'
  BY Zenon, <1>1, <1>2, <1>3, <1>5 DEF Grounded, Deleting
<1>7. Fences(c)
  BY Zenon, <1>2, Clientele, Typeds, FencesKeep
<1> QED
  BY Zenon, <1>1, <1>2, <1>6, <1>7, PassStill DEF Deleting, Swapping

\* Steps of a pass that go on with the variables of the pass as they are.
LEMMA PassGoes ==
    ASSUME CompactionInv, Typed', NEW c \in Compactors, NEW l \in PassPC, CGoto(c, l), UNCHANGED pass,
           UNCHANGED <<pc, att, acked>>, UNCHANGED storage, Fences(c),
           lock' = lock \/ (lock = Nobody /\ lock' = c), lock' = c, cpc[c] # "idle",
           l \notin {"idle", "lock", "put", "gcread", "gclist", "gcdelete"},
           l \in {"failing", "delete"} \/ cpc[c] \notin {"failing", "delete"},
           l \in {"releasing", "delete"} => Deleting(c),
           \/ l \notin {"granted", "reread"}
           \/ Swapping(c)' => Swapping(c) \/ (strayFile = {} /\ strayManifest = {})
    PROVE  CompactionInv'
<1> USE DEF CompactionInv
<1>1. OwnPass(c) /\ cpc'[c] = l /\ pass'[c] = pass[c]
  BY Zenon, CPlain
<1>2. UNCHANGED <<objects, manifest>>
  BY Zenon DEF storage
<1>3. Grounded(c)
  BY Zenon DEF Passes
<1>4. /\ Current(c)' = Current(c) /\ Sources(c)' = Sources(c) /\ Final(c)' = Final(c)
      /\ Kept(c)' = Kept(c) /\ Last' = Last
  BY Zenon, <1>1, <1>2 DEF Current, Sources, Final, Kept, Last
<1>5. Deleting(c)' => Deleting(c)
  BY Zenon, <1>1 DEF Deleting
<1>6. manifest'.exists /\ Under(Current(c)', manifest'.files)
  BY Zenon, <1>2, <1>3, <1>4 DEF Grounded
<1>7. l \notin {"failing", "delete"} => pass'[c].merged \subseteq DOMAIN objects'
  BY Zenon, <1>1, <1>2, <1>3 DEF Grounded
<1>8. Deleting(c)' => /\ \A f \in Sources(c)' : \E g \in Kept(c)' : Above(g, f)
                      /\ \A f \in Final(c)' : f.max <= Last'
  BY Zenon, <1>3, <1>4, <1>5 DEF Grounded
<1>9. Grounded(c)'
  BY Zenon, <1>1, <1>6, <1>7, <1>8 DEF Grounded, Under
<1>10. Swapping(c)' => Swapping(c) \/ (strayFile = {} /\ strayManifest = {})
  BY Zenon, <1>1 DEF Swapping
<1> QED
  BY Zenon, <1>1, <1>5, <1>9, <1>10, PassStill

\* c holds the compaction lease.
LEMMA Locked ==
    ASSUME CompactionInv, NEW c \in Compactors, cpc[c] \notin {"idle", "lock"}
    PROVE  /\ lock = c /\ \A d \in Compactors \ {c} : ~Deleting(d)
BY Zenon DEF CompactionInv, Passes, Grounded, Deleting

LEMMA PassGoesSteps ==
    ASSUME CompactionInv, Typed', ~LatePut, NEW c \in Compactors,
           \/ AcquireKey(c) \/ Merged(c) \/ CAcquireLands(c) \/ CAcquired(c) \/ RereadFails(c)
           \/ CReleased(c)
    PROVE  CompactionInv'
<1> USE DEF CompactionInv
<1>1. c \in Clients /\ LeaseTypeOK
  BY Zenon, Clientele, Typeds
<1>2. CASE AcquireKey(c) \/ Merged(c)
  <2>1. Fences(c)
    BY Zenon, <1>1, <1>2, FencesKeep DEF AcquireKey, Merged
  <2>2. CASE AcquireKey(c)
    BY Zenon, <2>1, <2>2, PassGoes DEF AcquireKey, PassPC
  <2>3. CASE Merged(c)
    BY Zenon, <2>1, <2>3, PassGoes, Locked DEF Merged, PassPC
  <2> QED
    BY Zenon, <1>2, <2>2, <2>3
<1>3. CASE CAcquireLands(c)
  <2>1. Fences(c) /\ strayFile = {} /\ strayManifest = {}
    BY Zenon, <1>1, <1>3, FencesGrant DEF CAcquireLands
  <2> QED
    BY Zenon, <1>3, <2>1, PassGoes, Locked DEF CAcquireLands, PassPC
<1>4. CASE CAcquired(c)
  <2>1. Fences(c) /\ \A d : InTerm(d)' <=> InTerm(d)
    BY Zenon, <1>1, <1>4, FencesKeep DEF CAcquired
  <2>2. cpc[c] = "granted" /\ (Swapping(c)' => Swapping(c))
    BY Zenon, <1>4, <2>1 DEF CAcquired, Swapping
  <2> QED
    BY Zenon, <1>4, <2>1, <2>2, PassGoes, Locked DEF CAcquired, PassPC
<1>5. CASE RereadFails(c)
  <2>1. Fences(c)
    BY Zenon, <1>1, <1>5, FencesKeep DEF RereadFails
  <2> QED
    BY Zenon, <1>5, <2>1, PassGoes, Locked DEF RereadFails, PassPC
<1>6. CASE CReleased(c)
  <2>1. (InTerm(c) /\ Free) \/ UNCHANGED leaseVars
    BY Zenon, <1>6 DEF CReleased
  <2>2. Fences(c)
    BY Zenon, <1>1, <2>1, FencesKeep, FencesFree
  <2>3. CASE cpc[c] = "releasing"
    <3>1. CGoto(c, "delete") /\ UNCHANGED <<pass, lock>> /\ UNCHANGED <<pc, att, acked>> /\ UNCHANGED storage
      BY Zenon, <1>6, <2>3 DEF CReleased
    <3> QED
      BY Zenon, <2>2, <2>3, <3>1, PassGoes, Locked DEF PassPC, Deleting
  <2>4. CASE cpc[c] # "releasing"
    BY Zenon, <1>6, <2>2, <2>4, PassEnds DEF CReleased
  <2> QED
    BY Zenon, <2>3, <2>4
<1> QED
  BY Zenon, <1>2, <1>3, <1>4, <1>5, <1>6

LEMMA PassEndsSteps ==
    ASSUME CompactionInv, Typed', NEW c \in Compactors, MergeEnds(c) \/ PassFails(c) \/ PassCrash(c)
    PROVE  CompactionInv'
<1>1. Fences(c)
  BY Zenon, Clientele, Typeds, FencesKeep
    DEF CompactionInv, MergeEnds, PassFails, PassCrash
<1> QED
  BY Zenon, <1>1, PassEnds DEF MergeEnds, PassFails, PassCrash

LEMMA PassExpireInv ==
    ASSUME CompactionInv, Typed', NEW c \in Compactors, PassExpire(c)
    PROVE  CompactionInv'
<1> USE DEF CompactionInv
<1>1. /\ Quit(c) /\ UNCHANGED <<pc, att, acked>> /\ UNCHANGED storage
      /\ UNCHANGED <<lock, cpc, pass>> /\ UNCHANGED <<objects, manifest>>
  BY Zenon DEF PassExpire, Leave, Quit, passVars, storage
<1>2. Fences(c) /\ \A d : InTerm(d)' <=> InTerm(d)
  BY Zenon, <1>1, Clientele, Typeds, FencesKeep
<1>3. OwnPass(c)
  BY <1>1, Typeds DEF OwnPass
<1>4. Grounded(c)'
  BY Zenon, <1>1, <1>2, DataKept DEF Passes, Grounded, Under
<1>5. Swapping(c)' => Swapping(c)
  BY Zenon, <1>1, <1>2 DEF Swapping
<1>6. Deleting(c)' => Deleting(c)
  BY Zenon, <1>1 DEF Deleting
<1> QED
  BY Zenon, <1>1, <1>2, <1>3, <1>4, <1>5, <1>6, PassStill

LEMMA RereadManifestInv ==
    ASSUME CompactionInv, Typed', NEW c \in Compactors, RereadManifest(c)
    PROVE  CompactionInv'
<1> USE DEF CompactionInv
<1>1. /\ OwnPass(c) /\ cpc'[c] = "put"
      /\ pass'[c].files = pass[c].files /\ pass'[c].merged = pass[c].merged
      /\ manifest.exists => pass'[c].base = manifest.files
  BY Zenon, CRereads
<1>2. /\ cpc[c] = "reread" /\ UNCHANGED <<leaseVars, storage, lock>>
      /\ UNCHANGED <<pc, att, acked>> /\ UNCHANGED <<manifest, objects>>
  BY Zenon DEF RereadManifest, storage
<1>3. Grounded(c)
  BY Zenon DEF Passes
<1>4. Current(c)' = Current(c)
  BY Zenon, <1>1 DEF Current
<1>5. Grounded(c)'
  BY Zenon, <1>1, <1>2, <1>3, <1>4 DEF Grounded, Under, Deleting
<1>6. Fences(c) /\ \A d : InTerm(d)' <=> InTerm(d)
  BY Zenon, <1>2, Clientele, Typeds, FencesKeep
<1>7. Swapping(c)' => Swapping(c)
  BY Zenon, <1>2, <1>6 DEF Swapping
<1> QED
  BY Zenon, <1>1, <1>2, <1>5, <1>6, <1>7, PassStill DEF Deleting
-----------------------------------------------------------------------------
LEMMA MergeLevelInv ==
    ASSUME CompactionInv, Typed', NEW c \in Compactors, MergeLevel(c)
    PROVE  CompactionInv'
<1> USE DEF CompactionInv
<1>1. /\ OwnPass(c) /\ UNCHANGED cpc /\ pass'[c].files = pass[c].files
      /\ \/ UNCHANGED objects /\ pass'[c].merged = pass[c].merged
         \/ \E s, m : MergesInto(c, s, m) /\ pass'[c].merged = pass[c].merged \cup {m}
  BY Zenon, CMerges
<1>2. /\ cpc[c] = "merge" /\ UNCHANGED <<leaseVars, lock>>
      /\ UNCHANGED <<pc, att, acked, manifest, strayFile, strayManifest>>
  BY Zenon DEF MergeLevel
<1>3. Grounded(c) /\ lock = c /\ \A d \in Compactors \ {c} : ~Deleting(d)
  BY Zenon, <1>2, Locked DEF Passes
<1>4. Fences(c)
  BY Zenon, <1>2, Clientele, Typeds, FencesKeep
<1>5. \A d \in Compactors : ~Deleting(d)'
  BY Zenon, <1>1, <1>2, <1>3 DEF Deleting
<1>6. ~Swapping(c)'
  BY Zenon, <1>1, <1>2 DEF Swapping
<1>7. CASE UNCHANGED objects /\ pass'[c].merged = pass[c].merged
  <2>1. Current(c)' = Current(c)
    BY Zenon, <1>1, <1>7 DEF Current
  <2>2. Grounded(c)'
    BY Zenon, <1>1, <1>2, <1>3, <1>5, <1>7, <2>1 DEF Grounded, Under
  <2> QED
    BY Zenon, <1>1, <1>2, <1>3, <1>4, <1>5, <1>6, <1>7, <2>2, PassStill DEF storage
<1>8. ASSUME NEW s, NEW m, MergesInto(c, s, m), pass'[c].merged = pass[c].merged \cup {m}
      PROVE  CompactionInv'
  <2>1. Rewrites /\ DOMAIN objects' = DOMAIN objects \cup {m}
    BY Zenon, <1>8, MergeRewrites
  <2>2. Last' = Last /\ Last <= Last'
    <3>1. Last' = Last
      BY Zenon, <2>1, RewritesKeep
    <3> QED
      BY <3>1, LastIs
  <2>3. /\ \A X \in SUBSET File : \A l : Sound(X, l) => Sound(X, l)'
        /\ \A X, l, t : Shown(X, l, t) => Shown(X, l, t)'
    BY Zenon, <1>5, <2>1, <2>2, SoundKept
  <2>4. \E g \in manifest.files : m.max <= g.max
    <3>1. PICK f \in Current(c) : m.max = f.max
      BY Zenon, <1>8 DEF MergesInto
    <3>2. PICK g \in manifest.files : f.max <= g.max
      BY Zenon, <1>2, <1>3 DEF Grounded, Under
    <3> QED
      BY Zenon, <3>1, <3>2
  <2>5. \A g \in DOMAIN objects' : g.level > 0 => \E f \in manifest.files : g.max <= f.max
    BY Zenon, <2>1, <2>4 DEF Indexed
  <2>6. Current(c)' = Current(c) \cup {m}
    BY Zenon, <1>1, <1>8 DEF Current
  <2>7. Under(Current(c), manifest.files)'
    BY Zenon, <1>2, <1>3, <2>4, <2>6 DEF Grounded, Under
  <2>8. pass'[c].merged \subseteq DOMAIN objects'
    BY Zenon, <1>2, <1>3, <1>8, <2>1 DEF Grounded
  <2>9. Grounded(c)'
    BY Zenon, <1>1, <1>2, <1>3, <1>5, <2>7, <2>8 DEF Grounded
  <2>10. DOMAIN objects \subseteq DOMAIN objects'
    BY Zenon, <2>1
  <2> QED
    BY Zenon, <1>1, <1>2, <1>4, <1>6, <2>1, <2>3, <2>5, <2>9, <2>10, PassQuiet
<1> QED
  BY Zenon, <1>1, <1>7, <1>8

\* What contains a file that contains another contains the other.
LEMMA AboveAbove ==
    ASSUME NEW f \in File, NEW g \in File, NEW h \in File, Above(h, g), Above(g, f)
    PROVE  Above(h, f)
BY FileIs DEF Above, Contains

LEMMA AboveWithin ==
    ASSUME NEW f \in File, NEW g \in File, Above(g, f), NEW t \in Nat, Within(t, f)
    PROVE  Within(t, g)
BY FileIs DEF Above, Contains, Within

\* The list a pass puts in place of the manifest is sound and reaches as far.
LEMMA FinalFits ==
    ASSUME CompactionInv, SupersededCovered, NEW c \in Compactors, cpc[c] = "put", InTerm(c)
    PROVE  /\ Full(Final(c)) /\ Under(manifest.files, Final(c)) /\ manifest.exists
           /\ \A f \in Final(c) : f.max <= Last
           /\ \A f \in Sources(c) : \E g \in Kept(c) : Above(g, f)
<1> USE DEF CompactionInv
<1> DEFINE M == manifest.files
           F == Final(c)
<1>1. Grounded(c) /\ lock = c /\ \A d \in Compactors : ~Deleting(d)
  BY Zenon, Locked DEF Passes, Deleting
<1>2. /\ pass[c].base = M /\ pass[c].merged \subseteq DOMAIN objects /\ manifest.exists
      /\ Under(Current(c), M)
  BY Zenon, <1>1 DEF Grounded
<1>3. F = (M \ Sources(c)) \cup pass[c].merged
  BY Zenon, <1>2 DEF Final, ApplyManifestDelta
<1>4. \A f \in Sources(c) : \E g \in Kept(c) : Above(g, f)
  BY Zenon DEF SupersededCovered, Kept, Above
<1>5. Kept(c) \subseteq F /\ Kept(c) \subseteq DOMAIN objects
  BY Zenon DEF Kept
<1>6. M \in SUBSET File /\ F \in SUBSET File /\ DOMAIN objects \in SUBSET File
  BY Zenon, Typeds, FinalIs
<1>7. /\ \A f \in M : f \in DOMAIN objects \/ \E g \in DOMAIN objects : Above(g, f) /\ g \in M
      /\ \A f \in M : f.max <= Last /\ \A t \in 1..f.max : ManifestCovers(M, t)
  BY Zenon, FullIs DEF Indexed
<1> HIDE DEF F, M
<1>8. \A f \in F : f.max <= Last
  BY Zenon, <1>2, <1>3, <1>7, LastIs
\* A file of the manifest is in the list, or below one that the pass keeps.
<1>9. \A f \in M : f \in F \/ \E g \in Kept(c) : Above(g, f)
  BY Zenon, <1>3, <1>4
<1>10. Under(M, F)
  <2> SUFFICES ASSUME NEW f \in M PROVE \E g \in F : f.max <= g.max
    BY Zenon DEF Under
  <2>1. CASE f \in F
    <3>1. f.max <= f.max
      BY <1>6, FileIs
    <3> QED
      BY Zenon, <2>1, <3>1
  <2>2. CASE \E g \in Kept(c) : Above(g, f)
    BY Zenon, <1>5, <2>2 DEF Above, Contains
  <2> QED
    BY Zenon, <1>9, <2>1, <2>2
<1>11. ASSUME NEW f \in F, f \notin DOMAIN objects
       PROVE  \E g \in DOMAIN objects : Above(g, f) /\ g \in F
  <2>1. PICK g \in DOMAIN objects : Above(g, f) /\ g \in M
    BY Zenon, <1>2, <1>3, <1>7, <1>11
  <2>2. CASE g \in F
    BY Zenon, <2>1, <2>2
  <2>3. CASE g \notin F
    <3>1. PICK h \in Kept(c) : Above(h, g)
      BY Zenon, <1>9, <2>1, <2>3
    <3>2. Above(h, f)
      BY Zenon, <1>5, <1>6, <2>1, <3>1, AboveAbove
    <3> QED
      BY Zenon, <1>5, <3>2
  <2> QED
    BY Zenon, <2>2, <2>3
<1>12. ASSUME NEW f \in M, NEW t \in 1..f.max PROVE ManifestCovers(F, t)
  <2>1. PICK g \in M : Within(t, g)
    BY Zenon, <1>7, <1>12, CoversIs
  <2>2. CASE g \in F
    BY Zenon, <2>1, <2>2, CoversIs
  <2>3. CASE g \notin F
    <3>1. PICK h \in Kept(c) : Above(h, g)
      BY Zenon, <1>9, <2>3
    <3>2. t \in Nat
      BY <1>6, FileIs
    <3>3. Within(t, h)
      BY Zenon, <1>5, <1>6, <2>1, <3>1, <3>2, AboveWithin
    <3> QED
      BY Zenon, <1>5, <3>3, CoversIs
  <2> QED
    BY Zenon, <2>2, <2>3
<1>13. ASSUME NEW f \in F, NEW t \in 1..f.max PROVE ManifestCovers(F, t)
  <2>1. CASE f \in M
    BY Zenon, <1>12, <1>13, <2>1
  <2>2. CASE f \notin M
    <3>1. f \in Current(c)
      BY Zenon, <1>3, <2>2 DEF Current
    <3>2. PICK g \in M : f.max <= g.max
      BY Zenon, <1>2, <3>1 DEF Under
    <3>3. f \in File /\ g \in File
      BY Zenon, <1>6
    <3>4. t \in 1..g.max
      BY <3>2, <3>3, FileIs
    <3> QED
      BY Zenon, <1>12, <3>4
  <2> QED
    BY Zenon, <2>1, <2>2
<1>14. Full(F)
  BY Zenon, <1>1, <1>8, <1>11, <1>13 DEF Full, Sound, Shown
<1> QED
  BY Zenon, <1>2, <1>4, <1>8, <1>10, <1>14 DEF F, M

\* A list that is sound stays so when c comes to delete, if it has what c keeps.
LEMMA FullSwaps ==
    ASSUME CompactionInv, Typed', NEW c \in Compactors, lock = c, OwnPass(c), UNCHANGED <<objects, pass>>,
           NEW X, Full(X), Kept(c) \subseteq X
    PROVE  Full(X)'
<1> USE DEF CompactionInv
<1>1. \A d \in Compactors \ {c} : cpc'[d] = cpc[d]
  BY Typeds DEF OwnPass
<1>2. \A d \in Compactors \ {c} : ~Deleting(d)'
  BY Zenon, <1>1 DEF Passes, Grounded, Deleting
<1>3. Last' = Last /\ Kept(c)' = Kept(c)
  BY Zenon DEF Last, Kept, Final, Sources
<1>4. \A t : Shown(X, TopLevel + 1, t) => Shown(X, TopLevel + 1, t)'
  BY Zenon DEF Shown
<1> QED
  BY Zenon, <1>2, <1>3, <1>4 DEF Full, Sound

LEMMA SwapInv ==
    ASSUME CompactionInv, SupersededCovered, Typed', NEW c \in Compactors, InTerm(c),
           PutFinal(c) \/ PutFinalFails(c)
    PROVE  CompactionInv'
<1> USE DEF CompactionInv
<1>1. /\ cpc[c] = "put" /\ Quit(c) /\ UNCHANGED <<objects, strayFile, pc, att, acked, lock, pass>>
      /\ \/ CGoto(c, "releasing") /\ manifest' = Manifest(Final(c)) /\ UNCHANGED strayManifest
         \/ /\ CGoto(c, "failing")
            /\ \/ manifest' = Manifest(Final(c)) /\ UNCHANGED strayManifest
               \/ strayManifest' = strayManifest \cup {Final(c)} /\ UNCHANGED manifest
  BY Zenon DEF PutFinal, PutFinalFails, ManifestUnconfirmed
<1>2. /\ Full(Final(c)) /\ Under(manifest.files, Final(c)) /\ manifest.exists
      /\ \A f \in Final(c) : f.max <= Last
      /\ \A f \in Sources(c) : \E g \in Kept(c) : Above(g, f)
  BY Zenon, <1>1, FinalFits
<1>3. OwnPass(c) /\ cpc'[c] \in {"releasing", "failing"} /\ pass'[c] = pass[c]
  BY Zenon, <1>1, CPlain DEF PassPC
<1>4. Grounded(c) /\ lock = c
  BY Zenon, <1>1, Locked DEF Passes
<1>5. Fences(c) /\ \A d : InTerm(d)' <=> InTerm(d)
  BY Zenon, <1>1, Clientele, Typeds, FencesKeep
<1>6. strayFile = {} /\ strayManifest = {}
  BY Zenon, <1>1 DEF Strays, Swapping
<1>7. /\ Current(c)' = Current(c) /\ Sources(c)' = Sources(c) /\ Final(c)' = Final(c)
      /\ Kept(c)' = Kept(c) /\ Last' = Last
  BY Zenon, <1>1, <1>3 DEF Current, Sources, Final, Kept, Last
<1>8. PICK F \in SUBSET File : F = Final(c)
  BY Zenon, FinalIs
<1>9. Kept(c) \subseteq F
  BY Zenon, <1>8 DEF Kept
<1>10. Full(F)'
  BY Zenon, <1>1, <1>2, <1>3, <1>4, <1>8, <1>9, FullSwaps
<1>11. (\A w \in Writers : ~Holding(w)') /\ (\A d \in Compactors : ~Swapping(d)')
  <2>1. \A w \in Writers : ~InTerm(w)'
    BY Zenon, <1>5, OneInTerm, Clientele
  <2>2. ~Swapping(c)'
    BY Zenon, <1>3 DEF Swapping
  <2>3. \A d \in Compactors \ {c} : ~InTerm(d)'
    BY Zenon, <1>5, OneInTerm
  <2> QED
    BY Zenon, <2>1, <2>2, <2>3 DEF Holding, Swapping
<1>12. Rewrites
  BY Zenon, <1>1, StillRewrites
<1>13. ASSUME \A Y \in SUBSET File : Under(Y, manifest.files) => Under(Y, manifest.files)', manifest'.exists
       PROVE  Grounded(c)'
  <2>1. Under(Current(c), manifest.files)'
    <3>1. PICK Y \in SUBSET File : Y = Current(c)
      BY Zenon, CurrentIs
    <3>2. Under(Y, manifest.files)'
      BY Zenon, <1>1, <1>4, <1>13, <3>1 DEF Grounded
    <3> QED
      BY Zenon, <1>7, <3>1, <3>2 DEF Under
  <2>2. pass'[c].merged \subseteq DOMAIN objects'
    BY Zenon, <1>1, <1>3, <1>4 DEF Grounded
  <2> QED
    BY Zenon, <1>1, <1>2, <1>3, <1>4, <1>7, <1>13, <2>1, <2>2 DEF Grounded
<1>14. CASE manifest' = Manifest(Final(c)) /\ UNCHANGED strayManifest
  <2>1. /\ Indexed'
        /\ \A k, t : Committed(k, t) /\ Visible(t) => Visible(t)'
        /\ \A Y \in SUBSET File : Under(Y, manifest.files) => Under(Y, manifest.files)'
        /\ manifest'.exists
    BY Zenon, <1>1, <1>2, <1>8, <1>10, <1>14, Replaces
  <2>2. Grounded(c)'
    BY Zenon, <1>13, <2>1
  <2>3. Strays'
    BY Zenon, <1>1, <1>6, <1>14 DEF Strays
  <2> QED
    BY Zenon, <1>1, <1>3, <1>5, <1>12, <2>1, <2>2, <2>3, PassFrame
<1>15. CASE /\ CGoto(c, "failing") /\ strayManifest' = strayManifest \cup {Final(c)} /\ UNCHANGED manifest
  <2>1. cpc'[c] = "failing"
    BY Zenon, <1>15, CMoves DEF PassPC
  <2>2. \A Y \in SUBSET File : Under(Y, manifest.files) => Under(Y, manifest.files)'
    BY Zenon, <1>15 DEF Under
  <2>3. Grounded(c)' /\ manifest'.exists
    BY Zenon, <1>2, <1>13, <1>15, <2>2
  <2>4. \A k, t : Committed(k, t) /\ Visible(t) => Visible(t)'
    BY Zenon, <1>15 DEF Visible
  <2>5. strayFile' = {} /\ strayManifest' = {F}
    BY Zenon, <1>1, <1>6, <1>8, <1>15
  <2>6. Under(manifest.files, F)'
    BY Zenon, <1>2, <1>8, <1>15 DEF Under
  <2>7. Strays'
    BY Zenon, <1>10, <1>11, <2>3, <2>5, <2>6 DEF Strays
  <2>8. Indexed'
    <3>1. \A d \in Compactors : ~Deleting(d)'
      <4>1. \A d \in Compactors \ {c} : cpc'[d] = cpc[d]
        BY Zenon, <1>3, Typeds DEF OwnPass
      <4> QED
        BY Zenon, <1>1, <2>1, <4>1, Locked DEF Deleting
    <3>2. Last' = Last /\ Last <= Last' /\ DOMAIN objects \subseteq DOMAIN objects'
      BY <1>1, <1>7, LastIs
    <3>3. \A X \in SUBSET File : Full(X) => Full(X)'
      BY Zenon, <3>1, <3>2, SoundKept
    <3>4. Full(manifest.files)'
      BY Zenon, <1>15, <3>3, Typeds DEF Indexed
    <3> QED
      BY Zenon, <1>1, <1>15, <3>4 DEF Indexed
  <2> QED
    BY Zenon, <1>1, <1>3, <1>5, <1>12, <2>2, <2>3, <2>4, <2>7, <2>8, PassFrame
<1> QED
  BY Zenon, <1>1, <1>14, <1>15

LEMMA PutFinalInv ==
    ASSUME CompactionInv, SupersededCovered, Typed', NEW c \in Compactors, PutFinal(c) \/ PutFinalFails(c)
    PROVE  CompactionInv'
<1>1. CASE InTerm(c)
  BY Zenon, <1>1, SwapInv
<1>2. CASE ~InTerm(c)
  <2>1. /\ cpc[c] = "put" /\ Quit(c) /\ CGoto(c, "failing") /\ UNCHANGED pass
        /\ UNCHANGED <<pc, att, acked>> /\ UNCHANGED storage /\ UNCHANGED lock
    BY Zenon, <1>2 DEF PutFinal, PutFinalFails, ManifestUnconfirmed, storage
  <2>2. Fences(c)
    BY Zenon, <2>1, Clientele, Typeds, FencesKeep DEF CompactionInv
  <2> QED
    BY Zenon, <2>1, <2>2, PassGoes, Locked DEF PassPC
<1> QED
  BY Zenon, <1>1, <1>2
-----------------------------------------------------------------------------
\* What a pass deletes is below what it keeps.
LEMMA DeleteRewrites ==
    ASSUME CompactionInv, NEW c \in Compactors, cpc[c] = "delete", NEW gone,
           gone \subseteq Sources(c), Delete(gone)
    PROVE  /\ Rewrites /\ DOMAIN objects' = DOMAIN objects \ gone
           /\ \A f \in DOMAIN objects' : objects'[f] = objects[f]
           /\ \A f \in gone : \E g \in Kept(c) : g \in DOMAIN objects' /\ Above(g, f)
<1> USE DEF CompactionInv
<1>1. DOMAIN objects' = DOMAIN objects \ gone /\ DOMAIN objects \in SUBSET File
  BY Zenon, Typeds DEF Delete
<1>2. \A f \in DOMAIN objects' : objects'[f] = objects[f]
  BY DEF Delete
<1>3. \A f \in gone : \E g \in Kept(c) : g \in DOMAIN objects' /\ Above(g, f)
  BY Zenon, <1>1 DEF Passes, Grounded, Deleting, Kept
<1>4. ASSUME NEW g \in DOMAIN objects, NEW t \in g.min..g.max
      PROVE  \E f \in DOMAIN objects' : t \in f.min..f.max
  <2>1. CASE g \notin gone
    BY Zenon, <1>1, <2>1
  <2>2. CASE g \in gone
    <3>1. PICK h \in DOMAIN objects' : Above(h, g)
      BY Zenon, <1>3, <2>2
    <3>2. h \in File /\ g \in File
      BY Zenon, <1>1
    <3>3. t \in h.min..h.max
      BY <3>1, <3>2, FileIs DEF Above, Contains
    <3> QED
      BY Zenon, <3>3
  <2> QED
    BY Zenon, <2>1, <2>2
<1> QED
  BY Zenon, <1>1, <1>2, <1>3, <1>4 DEF Rewrites

LEMMA DeleteFilesInv ==
    ASSUME CompactionInv, Typed', ~WithGC, NEW c \in Compactors, DeleteFiles(c)
    PROVE  CompactionInv'
<1> USE DEF CompactionInv
<1>1. /\ cpc[c] = "delete" /\ EndPass(c) /\ UNCHANGED leaseVars
      /\ UNCHANGED <<pc, att, acked, manifest, strayFile, strayManifest>>
  BY Zenon DEF DeleteFiles
<1>2. PICK gone : gone \subseteq Sources(c) /\ Delete(gone)
  <2>1. \E gone \in SUBSET (Sources(c) \cap aged) : Delete(gone)
    BY Zenon DEF DeleteFiles
  <2> QED
    BY Zenon, <2>1
<1>3. /\ Rewrites /\ DOMAIN objects' = DOMAIN objects \ gone
      /\ \A f \in gone : \E g \in Kept(c) : g \in DOMAIN objects' /\ Above(g, f)
  BY Zenon, <1>1, <1>2, DeleteRewrites
<1>4. lock = c /\ Deleting(c) /\ \A d \in Compactors \ {c} : ~Deleting(d)
  BY Zenon, <1>1, Locked DEF Deleting
<1>5. OwnPass(c) /\ Grounded(c)' /\ ~Deleting(c)' /\ ~Swapping(c)'
  BY Zenon, <1>1, EndedGrounded
<1>6. \A d \in Compactors : ~Deleting(d)'
  <2>1. \A d \in Compactors \ {c} : cpc'[d] = cpc[d]
    BY Zenon, <1>5, Typeds DEF OwnPass
  <2> QED
    BY Zenon, <1>4, <1>5, <2>1 DEF Deleting
<1>7. Fences(c)
  BY Zenon, <1>1, Clientele, Typeds, FencesKeep
<1>8. Last' = Last /\ DOMAIN objects \in SUBSET File
  BY Zenon, <1>3, RewritesKeep, Typeds
\* A file is there still, or one above it that every sound list has.
<1>9. ASSUME NEW f \in DOMAIN objects, f \notin DOMAIN objects'
      PROVE  \E g \in Kept(c) : g \in DOMAIN objects' /\ Above(g, f)
  BY Zenon, <1>3, <1>9
<1>10. ASSUME NEW X \in SUBSET File, NEW l \in Nat, NEW t \in Nat, Shown(X, l, t) PROVE Shown(X, l, t)'
  <2>1. CASE ManifestCovers(X, t)
    BY Zenon, <2>1 DEF Shown
  <2>2. ASSUME NEW g \in DOMAIN objects, g.level >= l, Within(t, g) PROVE Shown(X, l, t)'
    <3>1. CASE g \in DOMAIN objects'
      BY Zenon, <2>2, <3>1 DEF Shown
    <3>2. CASE g \notin DOMAIN objects'
      <4>1. PICK h \in DOMAIN objects' : Above(h, g)
        BY Zenon, <1>9, <3>2
      <4>2. h \in File /\ g \in File
        BY Zenon, <1>3, <1>8
      <4>3. h.level >= l
        BY <2>2, <4>1, <4>2, FileIs DEF Above
      <4>4. Within(t, h)
        BY <2>2, <4>1, <4>2, FileIs DEF Above, Contains, Within
      <4> QED
        BY Zenon, <4>3, <4>4 DEF Shown
    <3> QED
      BY Zenon, <3>1, <3>2
  <2> QED
    BY Zenon, <1>10, <2>1, <2>2 DEF Shown
<1>11. ASSUME NEW X \in SUBSET File, NEW l \in Nat, Sound(X, l) PROVE Sound(X, l)'
  <2>1. \A g \in Kept(c) : g \in X \/ g.level >= l
    BY Zenon, <1>4, <1>11 DEF Sound
  <2>2. ASSUME NEW f \in X, f \notin DOMAIN objects'
        PROVE  \E g \in DOMAIN objects' : Above(g, f) /\ (g \in X \/ g.level >= l)
    <3>1. CASE f \in DOMAIN objects
      BY Zenon, <1>9, <2>1, <2>2, <3>1
    <3>2. CASE f \notin DOMAIN objects
      <4>1. PICK g \in DOMAIN objects : Above(g, f) /\ (g \in X \/ g.level >= l)
        BY Zenon, <1>11, <3>2 DEF Sound
      <4>2. CASE g \in DOMAIN objects'
        BY Zenon, <4>1, <4>2
      <4>3. CASE g \notin DOMAIN objects'
        <5>1. PICK h \in Kept(c) : h \in DOMAIN objects' /\ Above(h, g)
          BY Zenon, <1>9, <4>3
        <5>2. f \in File /\ g \in File /\ h \in File
          BY Zenon, <1>3, <1>8, <5>1
        <5>3. Above(h, f)
          BY Zenon, <4>1, <5>1, <5>2, AboveAbove
        <5> QED
          BY Zenon, <2>1, <5>1, <5>3
      <4> QED
        BY Zenon, <4>2, <4>3
    <3> QED
      BY Zenon, <3>1, <3>2
  <2>3. \A f \in X : f.max <= Last' /\ \A t \in 1..f.max : Shown(X, l, t)'
    <3>1. \A f \in X : \A t \in 1..f.max : t \in Nat
      BY FileIs
    <3> QED
      BY Zenon, <1>8, <1>10, <1>11, <3>1 DEF Sound
  <2> QED
    BY Zenon, <1>6, <2>2, <2>3 DEF Sound
<1>12. \A g \in DOMAIN objects' : g.level > 0 => \E f \in manifest.files : g.max <= f.max
  BY Zenon, <1>3 DEF Indexed
<1>13. lock' = lock \/ lock = c \/ lock = Nobody
  BY Zenon, <1>4
<1> QED
  BY Zenon, <1>1, <1>3, <1>4, <1>5, <1>7, <1>10, <1>11, <1>12, <1>13, PassQuiet

-----------------------------------------------------------------------------
LEMMA CompactionInvInit ==
    ASSUME CompactionInit
    PROVE  CompactionInv
<1>1. Typed
  BY Zenon, TypedInit
<1>2. /\ DOMAIN objects = {} /\ ~manifest.exists /\ manifest.files = {}
      /\ strayFile = {} /\ strayManifest = {} /\ acked = {}
      /\ \A c : ~InTerm(c)
  BY DEF CompactionInit, WriterInit, LeaseInit, NoManifest, InTerm
<1>3. /\ \A w \in Writers : pc[w] = "idle"
      /\ \A c \in Compactors : cpc[c] = "idle" /\ pass[c] = NoPass
      /\ \A c \in Clients : safe[c] = 0
  BY DEF CompactionInit, WriterInit, LeaseInit
<1>4. Fenced
  BY Zenon, <1>3 DEF Fenced
<1>5. Last = 0
  BY Zenon, <1>1, <1>2, LastIs
<1>6. 1..Last = {}
  BY <1>5
<1>7. Chained
  BY Zenon, <1>2, <1>6 DEF Chained, Whole, FilesAgree
<1>8. Indexed
  BY Zenon, <1>2, <1>3 DEF Indexed, Full, Sound, Deleting
<1>9. Strays
  BY Zenon, <1>2 DEF Strays
<1>10. Attempts
  BY Zenon, <1>2, <1>3 DEF Attempts, Written
<1>11. Acknowledged
  BY Zenon, <1>2 DEF Acknowledged
<1>12. Passes
  <2>1. NoPass.merged = {}
    BY DEF NoPass
  <2> QED
    BY Zenon, <1>3, <2>1 DEF Passes, Grounded, Deleting
<1> QED
  BY Zenon, <1>1, <1>4, <1>7, <1>8, <1>9, <1>10, <1>11, <1>12 DEF CompactionInv

LEMMA WriterKeeps ==
    ASSUME CompactionInv, Typed', ~LatePut, WriterNext, UNCHANGED <<lock, cpc, pass>>
    PROVE  CompactionInv'
<1>1. CASE StrayLands
  BY Zenon, <1>1, StrayLandsInv
<1>2. ASSUME NEW w \in Writers, (\E k \in Keys : Call(w, k)) \/ Progress(w) \/ Failure(w)
      PROVE  CompactionInv'
  <2>1. CASE \/ \E k \in Keys : Call(w, k)
             \/ Acquired(w) \/ AcquireFails(w) \/ Retry(w) \/ GiveUp(w)
             \/ RunStale(w) \/ FlushedStale(w)
    BY Zenon, <2>1, IdleSteps
  <2>2. CASE AcquireLands(w) \/ ReadManifest(w) \/ TailTXID(w) \/ BuildManifest(w)
    BY Zenon, <2>2, AcquireLandsInv, ReadManifestInv, TailTXIDInv, BuildManifestInv
  <2>3. CASE Expire(w) \/ RenewLate(w) \/ PutListing(w) \/ Index(w) \/ PutListingFails(w)
    BY Zenon, <2>3, RenewSteps, PutInv, PutListingFailsInv
  <2>4. CASE RemoteFails(w) \/ RunFails(w) \/ Dedupe(w) \/ OpenWrite(w) \/ Run(w) \/ Flushed(w)
    BY Zenon, <2>4, RemoteFailsInv, DedupeInv, OpenWriteInv, RunInv, FlushedInv
  <2>5. CASE IndexFails(w) \/ Crash(w) \/ Released(w) \/ ReleaseConflict(w) \/ ReleaseFails(w)
    BY Zenon, <2>5, EndSteps, ReleaseEnds
  <2>6. CASE Flush(w) \/ FlushFails(w)
    BY Zenon, <2>6, FlushInv, EndSteps DEF FlushFails, FlushUnconfirmed
  <2> QED
    BY Zenon, <1>2, <2>1, <2>2, <2>3, <2>4, <2>5, <2>6 DEF Progress, Failure
<1> QED
  BY Zenon, <1>1, <1>2 DEF WriterNext

LEMMA PassKeeps ==
    ASSUME CompactionInv, SupersededCovered, Typed', ~LatePut, ~WithGC, NEW c \in Compactors,
           PassProgress(c) \/ PassFailure(c)
    PROVE  CompactionInv'
<1>1. ~(GCRead(c) \/ GCList(c) \/ GCDelete(c))
  BY Zenon DEF GCRead, GCList, GCDelete, CompactionInv, Passes, Grounded
<1>2. CASE StartPass(c) \/ MergeLevel(c) \/ RereadManifest(c) \/ DeleteFiles(c)
  BY Zenon, <1>2, StartPassInv, MergeLevelInv, RereadManifestInv, DeleteFilesInv
<1>3. CASE \/ AcquireKey(c) \/ Merged(c) \/ CAcquireLands(c) \/ CAcquired(c) \/ RereadFails(c)
           \/ CReleased(c)
  BY Zenon, <1>3, PassGoesSteps
<1>4. CASE MergeEnds(c) \/ PassFails(c) \/ PassCrash(c) \/ PassExpire(c)
  BY Zenon, <1>4, PassEndsSteps, PassExpireInv
<1>5. CASE PutFinal(c) \/ PutFinalFails(c)
  BY Zenon, <1>5, PutFinalInv
<1> QED
  BY Zenon, <1>1, <1>2, <1>3, <1>4, <1>5 DEF PassProgress, PassFailure

\* A step that leaves everything alone that the invariant is about.
LEMMA AsideKeeps ==
    ASSUME CompactionInv, Typed', UNCHANGED <<leaseVars, storage, pc, att, acked, lock, cpc, pass>>
    PROVE  CompactionInv'
<1> USE DEF CompactionInv
<1>1. UNCHANGED <<objects, manifest, strayFile, strayManifest>>
  BY Zenon DEF storage
<1>2. \A d : InTerm(d)' <=> InTerm(d)
  BY Zenon DEF InTerm, leaseVars
<1>3. Fenced'
  BY Zenon, <1>2 DEF Fenced, leaseVars
<1>4. Chained' /\ Indexed'
  BY Zenon, <1>1, DataKept DEF Indexed
<1>5. Strays'
  BY ZenonT(30), <1>1, <1>2, DataKept DEF Strays, Holding, Swapping, Under
<1>6. ASSUME NEW w \in Writers, Knows(w) PROVE Knows(w)'
  <2>1. /\ Last' = Last
        /\ \A X, l : Sound(X, l) <=> Sound(X, l)'
        /\ \A X : Full(X) <=> Full(X)'
        /\ \A X, l, t : Shown(X, l, t) <=> Shown(X, l, t)'
        /\ \A X : Whole(X) <=> Whole(X)'
        /\ \A k : Unused(k) <=> Unused(k)'
    BY Zenon, <1>1, DataKept
  <2> HIDE DEF CompactionInv
  <2> QED
    BY Zenon, <1>1, <1>6, <2>1 DEF Knows, Visible
<1>7. Attempts'
  BY Zenon, <1>1, <1>2, <1>6, DataKept DEF Attempts, Written
<1>8. Acknowledged'
  BY Zenon, <1>1, DataKept DEF Acknowledged, Visible
<1>9. Passes'
  BY Zenon, <1>1, <1>2, DataKept DEF Passes, Grounded, Under
<1> QED
  BY Zenon, <1>3, <1>4, <1>5, <1>7, <1>8, <1>9

LEMMA CompactionInvNext ==
    ASSUME ~LatePut, ~WithGC, CompactionInv, SupersededCovered, [CompactionNext]_compactionVars
    PROVE  CompactionInv'
<1>1. Typed'
  BY Zenon, TypedNext DEF CompactionInv
<1>2. CASE UNCHANGED compactionVars
  BY Zenon, <1>1, <1>2, AsideKeeps DEF compactionVars, leaseVars, storage
<1>3. CASE WriterNext /\ UNCHANGED passVars
  BY Zenon, <1>1, <1>3, WriterKeeps DEF passVars
<1>4. ASSUME NEW w \in Writers, Released(w) /\ Enqueue(w) PROVE CompactionInv'
  BY Zenon, <1>1, <1>4, ReleaseEnds DEF Enqueue
<1>5. ASSUME NEW c \in Compactors, PassProgress(c) \/ PassFailure(c) PROVE CompactionInv'
  BY Zenon, <1>1, <1>5, PassKeeps
<1>6. ASSUME NEW f \in DOMAIN objects, Age(f) PROVE CompactionInv'
  BY Zenon, <1>1, <1>6, AsideKeeps DEF Age
<1> QED
  BY Zenon, <1>2, <1>3, <1>4, <1>5, <1>6 DEF CompactionNext
-----------------------------------------------------------------------------
\* What the invariant says of the chain.
LEMMA ChainIs ==
    ASSUME CompactionInv
    PROVE  /\ Reach(DOMAIN objects) = Last /\ Last \in Nat
           /\ Chain = [t \in 1..Last |-> objects[Source(DOMAIN objects, t)][t]]
           /\ \A t \in 1..Last : Chain[t].key \in Keys /\ Committed(Chain[t].key, t)
           /\ \A k, t : Committed(k, t) => t \in 1..Last /\ Chain[t].key = k
<1> USE DEF CompactionInv
<1> DEFINE D == DOMAIN objects
<1>1. D \in SUBSET File /\ Whole(D) /\ \A f \in D : f.max <= Last
  BY Zenon, Typeds, LastIs DEF Chained
<1>2. Reach(D) = Last /\ Last \in Nat
  BY Zenon, <1>1, WholeReach, LastIs
<1>3. Chain = [t \in 1..Last |-> objects[Source(D, t)][t]]
  BY Zenon, <1>2 DEF Chain, Restore
<1>4. \A f \in D : objects[f] \in [f.min..f.max -> Tx]
  BY Zenon DEF Typed, CompactionTypeOK, WriterTypeOK
<1> HIDE DEF D
<1>5. ASSUME NEW t \in 1..Last PROVE Source(D, t) \in D /\ t \in Source(D, t).min..Source(D, t).max
  <2>1. Source(D, t) \in D /\ Within(t, Source(D, t))
    BY Zenon, <1>1, SourceIs DEF Whole
  <2>2. t \in Nat /\ Source(D, t) \in File
    BY <1>1, <1>2, <2>1
  <2> QED
    BY <2>1, <2>2, FileIs DEF Within
<1>6. ASSUME NEW t \in 1..Last PROVE Chain[t].key \in Keys /\ Committed(Chain[t].key, t)
  <2>1. Chain[t] = objects[Source(D, t)][t]
    BY Zenon, <1>3
  <2>2. Chain[t] \in Tx
    BY Zenon, <1>4, <1>5, <2>1
  <2>3. Chain[t].key \in Keys
    BY <2>2 DEF Tx
  <2> QED
    BY Zenon, <1>5, <2>1, <2>3 DEF Committed, D
<1>7. ASSUME NEW k, NEW t, Committed(k, t) PROVE t \in 1..Last /\ Chain[t].key = k
  <2>1. t \in 1..Last
    BY Zenon, <1>7, CommittedIs
  <2>2. PICK f \in D : t \in f.min..f.max /\ objects[f][t].key = k
    BY Zenon, <1>7 DEF Committed, D
  <2>3. Source(D, t) \in D /\ t \in (f.min..f.max) \cap (Source(D, t).min..Source(D, t).max)
    BY Zenon, <1>5, <2>1, <2>2
  <2>4. FilesAgree
    BY Zenon DEF Chained
  <2>5. objects[f][t] = objects[Source(D, t)][t]
    BY Zenon, <2>2, <2>3, <2>4 DEF FilesAgree, D
  <2> QED
    BY Zenon, <1>3, <2>1, <2>2, <2>5
<1> QED
  BY Zenon, <1>2, <1>3, <1>6, <1>7 DEF D

\* What the invariant says of a read.
LEMMA ReadIs ==
    ASSUME CompactionInv
    PROVE  /\ ReaderFiles \in SUBSET File /\ Full(ReaderFiles)
           /\ Reach(ReaderFiles) = ManifestMaxTXID(ReaderFiles)
<1> USE DEF CompactionInv
<1> DEFINE R == ReaderFiles
<1>1. DOMAIN objects \in SUBSET File /\ manifest.files \in SUBSET File
  BY Zenon, Typeds
<1>2. Full(DOMAIN objects)
  <2>1. \A f \in DOMAIN objects : \A t \in 1..f.max : t \in 1..Last
    <3> SUFFICES ASSUME NEW f \in DOMAIN objects, NEW t \in 1..f.max PROVE t \in 1..Last
      OBVIOUS
    <3>1. f \in File /\ f.max <= Last /\ Last \in Nat
      BY Zenon, <1>1, LastIs
    <3> QED
      BY <3>1, FileIs
  <2> QED
    BY Zenon, <2>1, LastIs DEF Full, Sound, Shown, Chained, Whole, Kept
<1>3. R \in SUBSET File /\ Full(R)
  BY Zenon, <1>1, <1>2 DEF ReaderFiles, Indexed
<1> HIDE DEF R
<1>4. /\ Reach(R) \in 0..MaxTx /\ ManifestMaxTXID(R) \in 0..MaxTx /\ MaxTx \in Nat
      /\ ~ManifestCovers(R, Reach(R) + 1)
      /\ \A f \in R : f.max <= ManifestMaxTXID(R)
      /\ ManifestMaxTXID(R) = 0 \/ \E f \in R : f.max = ManifestMaxTXID(R)
  BY Zenon, <1>3, ReachIs, MaxTXIDIs, LevelAssumption
<1>5. Reach(R) <= ManifestMaxTXID(R)
  <2>1. CASE Reach(R) = 0
    BY <1>4, <2>1
  <2>2. CASE Reach(R) # 0
    <3>1. Reach(R) \in 1..Reach(R)
      BY <1>4, <2>2
    <3>2. PICK f \in R : Within(Reach(R), f)
      BY Zenon, <1>3, <3>1, ReachIs, CoversIs
    <3>3. f \in File /\ f.max <= ManifestMaxTXID(R)
      BY Zenon, <1>3, <1>4
    <3> QED
      BY <1>4, <3>2, <3>3, FileIs DEF Within
  <2> QED
    BY Zenon, <2>1, <2>2
<1>6. ~(Reach(R) < ManifestMaxTXID(R))
  <2> SUFFICES ASSUME Reach(R) < ManifestMaxTXID(R) PROVE FALSE
    BY Zenon
  <2>1. PICK f \in R : f.max = ManifestMaxTXID(R)
    BY <1>4
  <2>2. Reach(R) + 1 \in 1..f.max
    BY <1>4, <2>1
  <2> QED
    BY Zenon, <1>3, <1>4, <2>2, FullIs
<1>7. Reach(R) = ManifestMaxTXID(R)
  BY <1>4, <1>5, <1>6
<1> QED
  BY Zenon, <1>3, <1>7 DEF R

\* A plan does not use a file that is below another file of the list.
LEMMA PlanOnTop ==
    ASSUME NEW X \in SUBSET File, NEW f \in Plan(X), NEW g \in X, Above(g, f)
    PROVE  FALSE
<1>1. PICK t \in 1..Reach(X) : f = Source(X, t)
  BY Zenon DEF Plan
<1>2. ManifestCovers(X, t) /\ t \in Nat
  BY <1>1, ReachIs
<1>3. /\ f \in X /\ Within(t, f)
      /\ Within(t, g) => g.max < f.max \/ (g.max = f.max /\ g.level <= f.level)
  BY Zenon, <1>1, <1>2, SourceIs
<1>4. f \in File /\ g \in File
  BY Zenon, <1>3
<1>5. Within(t, g)
  BY Zenon, <1>2, <1>3, <1>4, AboveWithin
<1> QED
  BY <1>3, <1>4, <1>5, FileIs DEF Above, Contains

LEMMA PlanStored ==
    ASSUME CompactionInv, NEW f \in Plan(ReaderFiles)
    PROVE  f \in DOMAIN objects
<1> DEFINE R == ReaderFiles
<1>1. R \in SUBSET File /\ Full(R)
  BY Zenon, ReadIs
<1>2. f \in R
  <2>1. PICK t \in 1..Reach(R) : f = Source(R, t)
    BY Zenon DEF Plan
  <2> QED
    BY Zenon, <1>1, <2>1, ReachIs, SourceIs
<1> HIDE DEF R
<1>3. f \in DOMAIN objects \/ \E g \in R : Above(g, f)
  BY Zenon, <1>1, <1>2, FullIs DEF CompactionInv
<1> QED
  BY Zenon, <1>1, <1>3, PlanOnTop DEF R

\* What the invariant implies.
LEMMA InvGives ==
    ASSUME CompactionInv
    PROVE  FilesAgree /\ ManifestReadable /\ AckedVisible /\ AckedDurable /\ AtMostOnce /\ BaseIsTail
<1> USE DEF CompactionInv
<1>1. FilesAgree
  BY Zenon DEF Chained
<1>2. ManifestReadable
  BY Zenon, ReadIs, PlanStored DEF ManifestReadable
<1>3. /\ Reach(DOMAIN objects) = Last /\ Last \in Nat
      /\ Chain = [t \in 1..Last |-> objects[Source(DOMAIN objects, t)][t]]
      /\ \A t \in 1..Last : Committed(Chain[t].key, t)
      /\ \A k, t : Committed(k, t) => t \in 1..Last /\ Chain[t].key = k
  BY Zenon, ChainIs
<1>4. DOMAIN Chain = 1..Last
  BY Zenon, <1>3
<1>5. AckedDurable
  BY Zenon, <1>3, <1>4 DEF AckedDurable, Acknowledged
<1>6. AckedVisible
  <2> SUFFICES ASSUME NEW a \in acked PROVE a.txid <= Reach(ReaderFiles)
    BY Zenon DEF AckedVisible
  <2>1. Committed(a.key, a.txid) /\ Visible(a.txid)
    BY Zenon DEF Acknowledged
  <2>2. a.txid \in 1..Last
    BY Zenon, <1>3, <2>1
  <2>3. CASE ~manifest.exists
    BY <1>3, <2>2, <2>3 DEF ReaderFiles
  <2>4. CASE manifest.exists
    <3>1. ReaderFiles = manifest.files
      BY Zenon, <2>4 DEF ReaderFiles
    <3>2. PICK f \in manifest.files : a.txid <= f.max
      BY Zenon, <2>1, <2>4 DEF Visible
    <3>3. /\ manifest.files \in SUBSET File /\ Reach(manifest.files) = ManifestMaxTXID(manifest.files)
          /\ f.max <= ManifestMaxTXID(manifest.files) /\ ManifestMaxTXID(manifest.files) \in 0..MaxTx
          /\ f \in File
      BY Zenon, <3>1, ReadIs, MaxTXIDIs
    <3>4. PICK t \in Nat, m \in Nat, r \in Nat :
            /\ t = a.txid /\ m = f.max /\ r = ManifestMaxTXID(manifest.files)
      BY Zenon, <1>3, <2>2, <3>3, FileIs, InNat, UpToNat
    <3>5. t <= m /\ m <= r
      BY Zenon, <3>2, <3>3, <3>4
    <3>6. t <= r
      BY <3>5
    <3> QED
      BY Zenon, <3>1, <3>3, <3>4, <3>6
  <2> QED
    BY Zenon, <2>3, <2>4
<1>7. AtMostOnce
  <2> SUFFICES ASSUME NEW t \in 1..Last, NEW u \in 1..Last, Chain[t].key = Chain[u].key PROVE t = u
    BY Zenon, <1>4 DEF AtMostOnce
  <2>1. PICK k : k = Chain[t].key
    OBVIOUS
  <2>2. Committed(k, t) /\ Committed(k, u)
    BY Zenon, <1>3, <2>1
  <2>3. PICK f \in DOMAIN objects : t \in f.min..f.max /\ objects[f][t].key = k
    BY Zenon, <2>2 DEF Committed
  <2>4. PICK g \in DOMAIN objects : u \in g.min..g.max /\ objects[g][u].key = k
    BY Zenon, <2>2 DEF Committed
  <2>5. objects[f][t].key = objects[g][u].key
    BY Zenon, <2>3, <2>4
  <2> QED
    BY Zenon, <2>3, <2>4, <2>5 DEF Chained
<1>8. BaseIsTail
  BY Zenon, <1>3 DEF BaseIsTail, Attempts, Knows
<1> QED
  BY Zenon, <1>1, <1>2, <1>5, <1>6, <1>7, <1>8
-----------------------------------------------------------------------------
\* What a step does to the chain and to the acknowledgements: nothing, or the
\* next mutation is flushed, or one that is in the chain is acknowledged, or
\* files are merged or deleted.
Commits == \E tx \in Tx :
              /\ tx.txid = Last + 1 /\ Unused(tx.key) /\ PutFile(tx)
              /\ UNCHANGED acked

Acknowledges == \E w \in Writers :
              /\ Committed(att[w].key, att[w].txid)
              /\ acked' = acked \cup {[key |-> att[w].key, txid |-> att[w].txid]}
              /\ UNCHANGED objects

DeletesSpare == DOMAIN objects \ DOMAIN objects' \subseteq aged \ Plan(ReaderFiles)

Compacts == Rewrites /\ UNCHANGED acked /\ ImmutableStep /\ DeletesSpare

LEMMA FinishEffect ==
    ASSUME CompactionInv, NEW w \in Writers, Released(w) \/ ReleaseConflict(w) \/ ReleaseFails(w)
    PROVE  UNCHANGED <<objects, acked>> \/ Acknowledges
<1>1. UNCHANGED objects
  BY Zenon DEF Released, ReleaseConflict, ReleaseFails, Finish, storage
<1>2. pc[w] = "releasing"
  BY Zenon DEF Released, ReleaseConflict, ReleaseFails
<1>3. \/ UNCHANGED acked
      \/ /\ att[w].fate = "ack"
         /\ acked' = acked \cup {[key |-> att[w].key, txid |-> att[w].txid]}
  BY Zenon DEF Released, ReleaseConflict, ReleaseFails, Finish, Unreleased
<1>4. att[w].fate = "ack" => Committed(att[w].key, att[w].txid)
  BY Zenon, <1>2 DEF CompactionInv, Attempts, Written
<1> QED
  BY Zenon, <1>1, <1>3, <1>4 DEF Acknowledges

LEMMA FlushEffect ==
    ASSUME CompactionInv, NEW w \in Writers, Flush(w) \/ FlushFails(w)
    PROVE  UNCHANGED <<objects, acked>> \/ Commits
<1>1. pc[w] = "flush" /\ UNCHANGED acked
  BY Zenon DEF Flush, FlushFails
<1>2. att[w].txid = Last + 1 /\ Unused(att[w].key)
  BY Zenon, <1>1 DEF CompactionInv, Fenced, Attempts, Knows
<1>3. att[w].key \in Keys /\ att[w].txid \in TXID /\ epoch \in Nat
  BY Zenon, <1>1, Typeds, AttemptIs DEF CompactionInv, Numbered, LeaseTypeOK
<1>4. Mutation(w) \in Tx /\ Mutation(w).txid = att[w].txid /\ Mutation(w).key = att[w].key
  BY <1>3 DEF Mutation, Tx
<1>5. UNCHANGED objects \/ PutFile(Mutation(w))
  BY Zenon DEF Flush, FlushFails, FlushUnconfirmed
<1> QED
  BY Zenon, <1>1, <1>2, <1>4, <1>5 DEF Commits

LEMMA WriterEffects ==
    ASSUME CompactionInv, WriterNext
    PROVE  UNCHANGED <<objects, acked>> \/ Commits \/ Acknowledges
<1>1. CASE StrayLands
  <2>1. ASSUME NEW tx \in strayFile, LandFile(tx)
        PROVE  UNCHANGED <<objects, acked>> \/ Commits
    <3>1. tx \in Tx /\ tx.txid = Last + 1 /\ Unused(tx.key)
      BY Zenon DEF CompactionInv, Strays, Typed, CompactionTypeOK, WriterTypeOK
    <3> QED
      BY Zenon, <2>1, <3>1 DEF LandFile, Commits
  <2>2. ASSUME NEW files \in strayManifest, LandManifest(files)
        PROVE  UNCHANGED <<objects, acked>>
    BY Zenon, <2>2 DEF LandManifest
  <2> QED
    BY Zenon, <1>1, <2>1, <2>2 DEF StrayLands
<1>2. ASSUME NEW w \in Writers, (\E k \in Keys : Call(w, k)) \/ Progress(w) \/ Failure(w)
      PROVE  UNCHANGED <<objects, acked>> \/ Commits \/ Acknowledges
  <2>1. CASE Flush(w) \/ FlushFails(w)
    BY Zenon, <2>1, FlushEffect
  <2>2. CASE Released(w) \/ ReleaseConflict(w) \/ ReleaseFails(w)
    BY Zenon, <2>2, FinishEffect
  <2>3. CASE \/ \E k \in Keys : Call(w, k)
             \/ AcquireLands(w) \/ Acquired(w) \/ AcquireFails(w) \/ Retry(w) \/ GiveUp(w)
             \/ ReadManifest(w) \/ TailTXID(w) \/ BuildManifest(w) \/ OpenWrite(w)
             \/ Dedupe(w) \/ RemoteFails(w)
    BY Zenon, <2>3
      DEF Call, AcquireLands, Acquired, AcquireFails, Retry, GiveUp, ReadManifest,
       TailTXID, BuildManifest, OpenWrite, Dedupe, RemoteFails, storage
  <2>4. CASE \/ PutListing(w) \/ PutListingFails(w) \/ Run(w) \/ RunStale(w) \/ RunFails(w)
             \/ Flushed(w) \/ FlushedStale(w) \/ Index(w) \/ IndexFails(w)
             \/ Expire(w) \/ RenewLate(w) \/ Crash(w)
    BY Zenon, <2>4
      DEF PutListing, PutListingFails, Run, RunStale, RunFails, Flushed, FlushedStale,
       Index, IndexFails, Expire, RenewLate, Crash, storage
  <2> QED
    BY Zenon, <1>2, <2>1, <2>2, <2>3, <2>4 DEF Progress, Failure
<1> QED
  BY Zenon, <1>1, <1>2 DEF WriterNext

\* A merged file that exists already is written with the content it has.
LEMMA MergeImmutable ==
    ASSUME CompactionInv, Typed', NEW c \in Compactors, NEW s, NEW m, MergesInto(c, s, m)
    PROVE  ImmutableStep
<1> USE DEF CompactionInv
<1>1. Rewrites /\ FilesAgree
  BY Zenon, MergeRewrites DEF Chained
<1> SUFFICES ASSUME NEW f \in DOMAIN objects, f \in DOMAIN objects' PROVE objects'[f] = objects[f]
  BY Zenon DEF ImmutableStep
<1>2. objects[f] \in [f.min..f.max -> Tx] /\ objects'[f] \in [f.min..f.max -> Tx]
  BY Zenon DEF Typed, CompactionTypeOK, WriterTypeOK
<1>3. ASSUME NEW t \in f.min..f.max PROVE objects'[f][t] = objects[f][t]
  <2>1. PICK g \in DOMAIN objects : t \in g.min..g.max /\ objects'[f][t] = objects[g][t]
    BY Zenon, <1>1 DEF Rewrites
  <2>2. t \in (g.min..g.max) \cap (f.min..f.max)
    BY Zenon, <2>1
  <2>3. objects[g][t] = objects[f][t]
    BY Zenon, <1>1, <2>2 DEF FilesAgree
  <2> QED
    BY Zenon, <2>1, <2>3
<1>4. PICK a, b, S : a = objects[f] /\ b = objects'[f] /\ S = f.min..f.max
  OBVIOUS
<1>5. a \in [S -> Tx] /\ b \in [S -> Tx] /\ \A t \in S : b[t] = a[t]
  BY Zenon, <1>2, <1>3, <1>4
<1>6. b = a
  BY <1>5
<1> QED
  BY Zenon, <1>4, <1>6

LEMMA PassEffects ==
    ASSUME CompactionInv, Typed', ~WithGC, NEW c \in Compactors, PassProgress(c) \/ PassFailure(c)
    PROVE  Compacts
<1> USE DEF CompactionInv
<1>1. UNCHANGED acked
  BY Zenon, PassStoresSteps DEF PassStores
<1>2. CASE UNCHANGED objects
  BY Zenon, <1>1, <1>2, StillRewrites DEF Compacts, ImmutableStep, DeletesSpare
<1>3. CASE MergeLevel(c)
  <2>1. UNCHANGED objects \/ \E s, m : MergesInto(c, s, m)
    BY Zenon, <1>3, CMerges
  <2>2. ASSUME NEW s, NEW m, MergesInto(c, s, m) PROVE Compacts
    BY Zenon, <1>1, <2>2, MergeRewrites, MergeImmutable DEF Compacts, DeletesSpare
  <2> QED
    BY Zenon, <1>2, <2>1, <2>2
<1>4. CASE DeleteFiles(c)
  <2>1. cpc[c] = "delete" /\ UNCHANGED manifest
    BY Zenon, <1>4 DEF DeleteFiles
  <2>2. PICK gone \in SUBSET (Sources(c) \cap aged) : Delete(gone)
    BY Zenon, <1>4 DEF DeleteFiles
  <2>3. /\ Rewrites /\ DOMAIN objects' = DOMAIN objects \ gone
        /\ \A f \in DOMAIN objects' : objects'[f] = objects[f]
        /\ \A f \in gone : \E g \in Kept(c) : g \in DOMAIN objects' /\ Above(g, f)
    <3>1. gone \subseteq Sources(c)
      BY Zenon, <2>2
    <3> QED
      BY Zenon, <2>1, <2>2, <3>1, DeleteRewrites
  <2>4. ReaderFiles = manifest.files /\ ReaderFiles \in SUBSET File
    BY Zenon, <2>1, ReadIs DEF Passes, Grounded, ReaderFiles
  <2>5. \A g \in Kept(c) : g \in ReaderFiles
    BY Zenon, <2>1, <2>4, FullIs DEF Indexed, Deleting
  <2>6. \A f \in gone : f \in aged /\ f \notin Plan(ReaderFiles)
    BY Zenon, <2>2, <2>3, <2>4, <2>5, PlanOnTop
  <2> QED
    BY Zenon, <1>1, <2>3, <2>6 DEF Compacts, ImmutableStep, DeletesSpare
<1>5. ~(GCRead(c) \/ GCList(c) \/ GCDelete(c))
  BY Zenon DEF GCRead, GCList, GCDelete, Passes, Grounded
<1>6. CASE \/ StartPass(c) \/ AcquireKey(c) \/ MergeEnds(c) \/ Merged(c)
           \/ CAcquireLands(c) \/ CAcquired(c) \/ RereadManifest(c) \/ PutFinal(c) \/ CReleased(c)
  BY Zenon, <1>2, <1>6
    DEF StartPass, AcquireKey, MergeEnds, Merged, CAcquireLands, CAcquired,
     RereadManifest, PutFinal, CReleased, storage
<1>7. CASE PassFailure(c)
  BY Zenon, <1>2, <1>7
    DEF PassFailure, PassFails, RereadFails, PutFinalFails, PassCrash, PassExpire, storage
<1> QED
  BY Zenon, <1>3, <1>4, <1>5, <1>6, <1>7 DEF PassProgress

LEMMA Effects ==
    ASSUME ~WithGC, CompactionInv, [CompactionNext]_compactionVars
    PROVE  UNCHANGED <<objects, acked>> \/ Commits \/ Acknowledges \/ Compacts
<1>1. Typed'
  BY Zenon, TypedNext DEF CompactionInv
<1>2. CASE UNCHANGED compactionVars
  BY Zenon, <1>2 DEF compactionVars
<1>3. CASE WriterNext
  BY Zenon, <1>3, WriterEffects
<1>4. ASSUME NEW w \in Writers, Released(w) PROVE UNCHANGED <<objects, acked>> \/ Acknowledges
  BY Zenon, <1>4, FinishEffect
<1>5. ASSUME NEW c \in Compactors, PassProgress(c) \/ PassFailure(c) PROVE Compacts
  BY Zenon, <1>1, <1>5, PassEffects
<1>6. ASSUME NEW f \in DOMAIN objects, Age(f) PROVE UNCHANGED <<objects, acked>>
  BY Zenon, <1>6 DEF Age, storage
<1> QED
  BY Zenon, <1>2, <1>3, <1>4, <1>5, <1>6 DEF CompactionNext

\* No step changes a file that stays, and none deletes a file that a read needs.
LEMMA StepGives ==
    ASSUME ~WithGC, CompactionInv, [CompactionNext]_compactionVars
    PROVE  ImmutableStep /\ DeletesSpare
<1>1. CASE UNCHANGED objects
  BY Zenon, <1>1 DEF ImmutableStep, DeletesSpare
<1>2. CASE Commits
  <2>1. PICK tx \in Tx : tx.txid = Last + 1 /\ Unused(tx.key) /\ PutFile(tx)
    BY Zenon, <1>2 DEF Commits
  <2>2. Typed'
    BY Zenon, TypedNext DEF CompactionInv
  <2>3. /\ DOMAIN objects' = DOMAIN objects \cup {L0(tx.txid)}
        /\ \A f \in DOMAIN objects : objects'[f] = objects[f]
    BY Zenon, <2>1, <2>2, PutExtends DEF CompactionInv
  <2> QED
    BY Zenon, <2>3 DEF ImmutableStep, DeletesSpare
<1>3. CASE Acknowledges
  BY Zenon, <1>1, <1>3 DEF Acknowledges
<1>4. CASE Compacts
  BY Zenon, <1>4 DEF Compacts
<1> QED
  BY Zenon, <1>1, <1>2, <1>3, <1>4, Effects
-----------------------------------------------------------------------------
\* Facts on sequences.
LEMMA SeqEq ==
    ASSUME NEW S, NEW a \in Seq(S), NEW b \in Seq(S), Len(a) = Len(b),
           \A t \in 1..Len(a) : b[t] = a[t]
    PROVE  a = b
BY SeqEqual

LEMMA AppendIs ==
    ASSUME NEW S, NEW a \in Seq(S), NEW b \in Seq(S), NEW n \in Nat, NEW k,
           Len(a) = n, Len(b) = n + 1, b[n + 1] = k, \A t \in 1..n : b[t] = a[t]
    PROVE  b = Append(a, k)
<1>1. n + 1 \in 1..Len(b)
  OBVIOUS
<1>2. k \in S
  BY Zenon, <1>1, ElementOfSeq
<1>3. /\ Append(a, k) \in Seq(S) /\ Len(Append(a, k)) = n + 1
      /\ \A i \in 1..n : Append(a, k)[i] = a[i]
      /\ Append(a, k)[n + 1] = k
  BY <1>2, AppendProperties
<1>4. \A t \in 1..Len(b) : t \in 1..n \/ t = n + 1
  OBVIOUS
<1>5. \A t \in 1..Len(b) : Append(a, k)[t] = b[t]
  BY Zenon, <1>3, <1>4
<1> QED
  BY Zenon, <1>3, <1>5, SeqEq
-----------------------------------------------------------------------------
\* The log that the replica implements.
LogForm ==
    /\ ChainKeys \in Seq(Keys) /\ Len(ChainKeys) = Last /\ Last \in Nat
    /\ DOMAIN ChainKeys = 1..Last
    /\ \A t \in 1..Last : Committed(ChainKeys[t], t)
    /\ \A k, t : Committed(k, t) => t \in 1..Last /\ ChainKeys[t] = k

LEMMA LogIs == CompactionInv => LogForm
<1> SUFFICES ASSUME CompactionInv PROVE LogForm
  OBVIOUS
<1>1. /\ Last \in Nat /\ DOMAIN Chain = 1..Last
      /\ \A t \in 1..Last : Chain[t].key \in Keys /\ Committed(Chain[t].key, t)
      /\ \A k, t : Committed(k, t) => t \in 1..Last /\ Chain[t].key = k
  BY Zenon, ChainIs
<1>2. ChainKeys = [t \in 1..Last |-> Chain[t].key]
  BY Zenon, <1>1 DEF ChainKeys
<1>3. ChainKeys \in [1..Last -> Keys]
  BY Zenon, <1>1, <1>2
<1>4. ChainKeys \in Seq(Keys)
  BY <1>1, <1>3
<1>5. Len(ChainKeys) \in Nat /\ DOMAIN ChainKeys = 1..Len(ChainKeys) /\ DOMAIN ChainKeys = 1..Last
  BY Zenon, <1>2, <1>4, LenProperties
<1>6. \A a, b \in Nat : 1..a = 1..b => a = b
  OBVIOUS
<1>7. Len(ChainKeys) = Last
  BY Zenon, <1>1, <1>5, <1>6
<1>8. \A t \in 1..Last : ChainKeys[t] = Chain[t].key
  BY Zenon, <1>2
<1> QED
  BY Zenon, <1>1, <1>4, <1>5, <1>7, <1>8 DEF LogForm

LEMMA LogCommit ==
    ASSUME CompactionInv, CompactionInv', Commits
    PROVE  Log!LogNext
<1>1. PICK tx \in Tx : /\ tx.txid = Last + 1 /\ Unused(tx.key) /\ PutFile(tx)
                       /\ UNCHANGED acked
  BY Zenon DEF Commits
<1>2. LogForm
  BY Zenon, LogIs
<1>3. LogForm'
  BY LogIs, PTL
<1>4. Last' = Last + 1 /\ Committed(tx.key, tx.txid)'
      /\ \A k, t : Committed(k, t) => Committed(k, t)'
  BY Zenon, <1>1, PutExtends DEF CompactionInv
<1>5. \A t \in 1..Last : ChainKeys'[t] = ChainKeys[t]
  <2> SUFFICES ASSUME NEW t \in 1..Last PROVE ChainKeys'[t] = ChainKeys[t]
    OBVIOUS
  <2>1. Committed(ChainKeys[t], t)
    BY Zenon, <1>2 DEF LogForm
  <2>2. \A k : Committed(k, t) => Committed(k, t)'
    BY Zenon, <1>4
  <2>3. PICK k : k = ChainKeys[t]
    OBVIOUS
  <2>4. Committed(k, t)'
    BY Zenon, <2>1, <2>2, <2>3
  <2>5. ChainKeys'[t] = k
    BY Zenon, <1>3, <2>4 DEF LogForm
  <2> QED
    BY Zenon, <2>3, <2>5
<1>6. ChainKeys'[tx.txid] = tx.key
  <2>1. PICK k, t : k = tx.key /\ t = tx.txid
    OBVIOUS
  <2>2. Committed(k, t)'
    BY Zenon, <1>4, <2>1
  <2>3. ChainKeys'[t] = k
    BY Zenon, <1>3, <2>2 DEF LogForm
  <2> QED
    BY Zenon, <2>1, <2>3
<1>7. ChainKeys' = Append(ChainKeys, tx.key)
  <2>1. /\ ChainKeys \in Seq(Keys) /\ Len(ChainKeys) = Last /\ Last \in Nat
        /\ ChainKeys' \in Seq(Keys) /\ Len(ChainKeys') = Last + 1
    BY Zenon, <1>2, <1>3, <1>4 DEF LogForm
  <2>2. ChainKeys'[Last + 1] = tx.key
    BY Zenon, <1>1, <1>6
  <2>3. PICK a, b, n, k : a = ChainKeys /\ b = ChainKeys' /\ n = Last /\ k = tx.key
    OBVIOUS
  <2>4. /\ a \in Seq(Keys) /\ Len(a) = n /\ n \in Nat /\ b \in Seq(Keys) /\ Len(b) = n + 1
        /\ b[n + 1] = k /\ \A t \in 1..n : b[t] = a[t]
    BY Zenon, <1>5, <2>1, <2>2, <2>3
  <2>5. b = Append(a, k)
    BY <2>4, AppendIs
  <2> QED
    BY Zenon, <2>3, <2>5
<1>8. tx.key \in Keys /\ \A t \in DOMAIN ChainKeys : ChainKeys[t] # tx.key
  <2>1. tx.key \in Keys
    BY Zenon, <1>1 DEF Tx
  <2>2. ASSUME NEW t \in DOMAIN ChainKeys, ChainKeys[t] = tx.key PROVE FALSE
    <3>1. Committed(tx.key, t)
      BY Zenon, <1>2, <2>2 DEF LogForm
    <3> QED
      BY Zenon, <1>1, <3>1 DEF Unused, Committed
  <2> QED
    BY Zenon, <2>1, <2>2
<1> QED
  BY Zenon, <1>1, <1>7, <1>8 DEF Log!LogNext, Log!Commit

LEMMA LogAcknowledge ==
    ASSUME CompactionInv, Acknowledges
    PROVE  Log!LogNext
<1>1. PICK w \in Writers :
              /\ Committed(att[w].key, att[w].txid)
              /\ acked' = acked \cup {[key |-> att[w].key, txid |-> att[w].txid]}
              /\ UNCHANGED objects
  BY Zenon DEF Acknowledges
<1>2. att[w].txid \in DOMAIN ChainKeys /\ ChainKeys[att[w].txid] = att[w].key
  BY Zenon, <1>1, LogIs DEF LogForm
<1>3. DOMAIN ChainKeys = 1..Last /\ \A t \in 1..Last : ChainKeys[t] \in Keys
  BY Zenon, LogIs, ChainIs DEF LogForm, ChainKeys
<1>4. att[w].key \in Keys
  BY Zenon, <1>2, <1>3
<1>5. ChainKeys' = ChainKeys
  BY Zenon, <1>1 DEF ChainKeys, Chain
<1> QED
  BY Zenon, <1>1, <1>2, <1>4, <1>5 DEF Log!LogNext, Log!Acknowledge

\* Merging files and deleting merged ones leaves the log as it is.
LEMMA LogCompact ==
    ASSUME CompactionInv, CompactionInv', Rewrites
    PROVE  ChainKeys' = ChainKeys
<1>1. LogForm
  BY Zenon, LogIs
<1>2. LogForm'
  BY LogIs, PTL
<1>3. Last' = Last /\ \A k, t : Committed(k, t) <=> Committed(k, t)'
  BY Zenon, RewritesKeep DEF CompactionInv
<1>4. \A t \in 1..Last : ChainKeys'[t] = ChainKeys[t]
  <2> SUFFICES ASSUME NEW t \in 1..Last PROVE ChainKeys'[t] = ChainKeys[t]
    OBVIOUS
  <2>1. Committed(ChainKeys[t], t)
    BY Zenon, <1>1 DEF LogForm
  <2>2. \A k : Committed(k, t) => Committed(k, t)'
    BY Zenon, <1>3
  <2>3. PICK k : k = ChainKeys[t]
    OBVIOUS
  <2>4. Committed(k, t)'
    BY Zenon, <2>1, <2>2, <2>3
  <2>5. ChainKeys'[t] = k
    BY Zenon, <1>2, <2>4 DEF LogForm
  <2> QED
    BY Zenon, <2>3, <2>5
<1>5. PICK a, b, n : a = ChainKeys /\ b = ChainKeys' /\ n = Last
  OBVIOUS
<1>6. /\ a \in Seq(Keys) /\ Len(a) = n /\ n \in Nat /\ b \in Seq(Keys) /\ Len(b) = n
      /\ \A t \in 1..n : b[t] = a[t]
  BY Zenon, <1>1, <1>2, <1>3, <1>4, <1>5 DEF LogForm
<1>7. a = b
  BY Zenon, <1>6, SeqEq
<1> QED
  BY Zenon, <1>5, <1>7
-----------------------------------------------------------------------------
\* When no manifest lands late, no collector runs, and passes drop only files that
\* a higher level covers (SupersededCovered), the invariant holds of every state.
LEMMA InvariantHolds ==
    ASSUME ~LatePut, ~WithGC
    PROVE  CompactionSpec /\ []SupersededCovered => []CompactionInv
<1>1. CompactionInit => CompactionInv
  BY Zenon, CompactionInvInit
<1>2. CompactionInv /\ SupersededCovered /\ [CompactionNext]_compactionVars => CompactionInv'
  BY CompactionInvNext
<1> QED
  BY <1>1, <1>2, PTL DEF CompactionSpec

\* Files that cover a TXID hold the same transaction there: a merged file has the
\* content of its sources, whatever writers and other passes did meanwhile
\* (runCompaction's merge of the listed files).
THEOREM CompactionAgrees ==
    ASSUME ~LatePut, ~WithGC
    PROVE  CompactionSpec /\ []SupersededCovered => []FilesAgree
<1>1. CompactionInv => FilesAgree
  BY InvGives
<1> QED
  BY <1>1, InvariantHolds, PTL

\* Whoever opens the database on the current manifest finds every file of its
\* plan, and the plan has no hole.
THEOREM CompactionReadable ==
    ASSUME ~LatePut, ~WithGC
    PROVE  CompactionSpec /\ []SupersededCovered => []ManifestReadable
<1>1. CompactionInv => ManifestReadable
  BY InvGives
<1> QED
  BY <1>1, InvariantHolds, PTL

\* A read that starts after an acknowledgement sees the mutation, also when the
\* manifest is a pass's final one.
THEOREM CompactionVisible ==
    ASSUME ~LatePut, ~WithGC
    PROVE  CompactionSpec /\ []SupersededCovered => []AckedVisible
<1>1. CompactionInv => AckedVisible
  BY InvGives
<1> QED
  BY <1>1, InvariantHolds, PTL

\* An acknowledged mutation stays in the replica at its TXID, also after the
\* files that it was merged from are deleted.
THEOREM CompactionDurable ==
    ASSUME ~LatePut, ~WithGC
    PROVE  CompactionSpec /\ []SupersededCovered => []AckedDurable
<1>1. CompactionInv => AckedDurable
  BY Zenon, InvGives
<1> QED
  BY <1>1, InvariantHolds, PTL

\* A key is in the chain once, also beside passes that merge its file.
THEOREM CompactionAtMostOnce ==
    ASSUME ~LatePut, ~WithGC
    PROVE  CompactionSpec /\ []SupersededCovered => []AtMostOnce
<1>1. CompactionInv => AtMostOnce
  BY InvGives
<1> QED
  BY <1>1, InvariantHolds, PTL

\* A writer that may commit has restored the whole chain, also when a pass
\* replaced the manifest that it read.
THEOREM CompactionBaseIsTail ==
    ASSUME ~LatePut, ~WithGC
    PROVE  CompactionSpec /\ []SupersededCovered => []BaseIsTail
<1>1. CompactionInv => BaseIsTail
  BY InvGives
<1> QED
  BY <1>1, InvariantHolds, PTL

\* A file is deleted only once it is old and no read of the current manifest
\* needs it (runCompaction's deletion of superseded files).
THEOREM CompactionSparesReads ==
    ASSUME ~LatePut, ~WithGC
    PROVE  CompactionSpec /\ []SupersededCovered => DeletesSpareReads
<1>1. CompactionInv /\ [CompactionNext]_compactionVars
        => [DOMAIN objects \ DOMAIN objects' \subseteq aged \ Plan(ReaderFiles)]_compactionVars
  BY Zenon, StepGives DEF DeletesSpare
<1> QED
  BY <1>1, InvariantHolds, PTL DEF CompactionSpec, DeletesSpareReads

\* The bytes of an LTX file never change: passes that merge the same files write
\* the same file.
THEOREM CompactionImmutable ==
    ASSUME ~LatePut, ~WithGC
    PROVE  CompactionSpec /\ []SupersededCovered => Immutable
<1>1. CompactionInv /\ [CompactionNext]_compactionVars => [ImmutableStep]_writerVars
  BY Zenon, StepGives
<1> QED
  BY <1>1, InvariantHolds, PTL DEF CompactionSpec, Immutable

\* The write protocol with compaction beside it implements the log of
\* at-most-once mutations: merges and deletions leave the log as it is.
THEOREM CompactionImplementsLog ==
    ASSUME ~LatePut, ~WithGC
    PROVE  CompactionSpec /\ []SupersededCovered => ImplementsWriteSpec
<1>1. CompactionInit => Log!LogInit
  <2> SUFFICES ASSUME CompactionInit PROVE Log!LogInit
    BY Zenon
  <2>1. CompactionInv /\ DOMAIN objects = {} /\ acked = {}
    BY Zenon, CompactionInvInit DEF CompactionInit, WriterInit
  <2>2. ChainKeys \in Seq(Keys) /\ Len(ChainKeys) = Last /\ DOMAIN ChainKeys = 1..Last /\ Last \in Nat
    BY Zenon, <2>1, LogIs DEF LogForm
  <2>3. Last = 0
    <3> SUFFICES ASSUME Last # 0 PROVE FALSE
      OBVIOUS
    <3>1. Last \in 1..Last
      BY <2>2
    <3>2. Committed(ChainKeys[Last], Last)
      BY Zenon, <2>1, <3>1, LogIs DEF LogForm
    <3> QED
      BY Zenon, <2>1, <3>2 DEF Committed
  <2>4. ChainKeys = <<>>
    BY Zenon, <2>2, <2>3, EmptySeq
  <2> QED
    BY Zenon, <2>1, <2>4 DEF Log!LogInit
<1>2. CompactionInv /\ CompactionInv' /\ [CompactionNext]_compactionVars
        => [Log!LogNext]_<<ChainKeys, acked>>
  <2> SUFFICES ASSUME CompactionInv, CompactionInv', [CompactionNext]_compactionVars
               PROVE  Log!LogNext \/ UNCHANGED <<ChainKeys, acked>>
    OBVIOUS
  <2>1. CASE UNCHANGED <<objects, acked>>
    BY Zenon, <2>1 DEF ChainKeys, Chain
  <2>2. CASE Commits
    BY Zenon, <2>2, LogCommit
  <2>3. CASE Acknowledges
    BY Zenon, <2>3, LogAcknowledge
  <2>4. CASE Compacts
    BY Zenon, <2>4, LogCompact DEF Compacts
  <2> QED
    BY Zenon, <2>1, <2>2, <2>3, <2>4, Effects
<1> QED
  BY <1>1, <1>2, InvariantHolds, PTL DEF CompactionSpec, ImplementsWriteSpec, Log!LogSpec
=============================================================================
