------------------------------ MODULE Replica ------------------------------
(***************************************************************************)
(* The replica of one database: LTX files in object storage and the file   *)
(* lists (manifest.json, level listings) that name them.                   *)
(*                                                                         *)
(* A file is named by its level and TXID range; its body gives the         *)
(* transaction at each TXID of the range.  A transaction is the mutation   *)
(* of one idempotency key, together with the row that records the key and  *)
(* the TXID (idempotency.go).  Sizes, checksums and creation times are     *)
(* left out.                                                               *)
(***************************************************************************)
EXTENDS Integers, FiniteSets

CONSTANTS
    Keys,               \* idempotency keys
    TopLevel,           \* compactionTopLevel
    Threshold,          \* CompactionConfig.Threshold
    MaxTx               \* bound: the largest TXID

ASSUME KeysAssumption == Keys # {}
ASSUME LevelAssumption == TopLevel \in Nat /\ Threshold \in Nat /\ MaxTx \in Nat

Level == 0..TopLevel
TXID == 1..MaxTx
File == {f \in [level : Level, min : TXID, max : TXID] : f.min <= f.max}
Tx == [key : Keys, txid : TXID, epoch : Nat]

L0(t) == [level |-> 0, min |-> t, max |-> t]

-----------------------------------------------------------------------------
\* manifestHasTXID: the files whose range holds a TXID.
Covering(files, t) == {f \in files : f.min <= t /\ t <= f.max}
ManifestCovers(files, t) == Covering(files, t) # {}

Highest(S) == CHOOSE n \in S : \A m \in S : m <= n

ManifestMaxTXID(files) == Highest({0} \cup {f.max : f \in files})

AtLevel(files, l) == {f \in files : f.level = l}

\* applyManifestDelta; a list of files is a set, its order is left out.
ApplyManifestDelta(base, written, deleted) == (base \ deleted) \cup written

-----------------------------------------------------------------------------
\* The restore plan Litestream computes from a file list: it extends the
\* position by the file that reaches furthest, the higher level first, and
\* stops at the first TXID no file holds.
Reach(files) ==
    CHOOSE n \in 0..MaxTx :
        /\ \A t \in 1..n : ManifestCovers(files, t)
        /\ ~ManifestCovers(files, n + 1)

Source(files, t) ==
    LET candidates == Covering(files, t)
    IN  CHOOSE f \in candidates :
            \A g \in candidates : g.max < f.max \/ (g.max = f.max /\ g.level <= f.level)

Plan(files) == {Source(files, t) : t \in 1..Reach(files)}

\* The database a session opened on this file list shows.
Restore(files, objects) ==
    [t \in 1..Reach(files) |-> objects[Source(files, t)][t]]

\* A transaction list holds the key (lookupIdempotent).
Holds(db, key) == \E t \in DOMAIN db : db[t].key = key

-----------------------------------------------------------------------------
\* A level is merged upward once it holds more files than the threshold; a
\* threshold that is not positive counts as 1.
OverThreshold(files, l) ==
    Cardinality(AtLevel(files, l)) > (IF Threshold = 0 THEN 1 ELSE Threshold)

ManifestNeedsCompaction(files) ==
    \E l \in 0..TopLevel - 1 : OverThreshold(files, l)

\* Compactor.Compact(l) of Litestream merges the files of the level below that
\* start after the last TXID of level l.
Mergeable(files, l) ==
    {f \in AtLevel(files, l - 1) : f.min > ManifestMaxTXID(AtLevel(files, l))}

MergedFile(s, l) ==
    [level |-> l, min |-> CHOOSE n \in {f.min : f \in s} : \A f \in s : n <= f.min,
     max |-> ManifestMaxTXID(s)]

\* The files a pass supersedes, level by level: those below a merged file that
\* end where it ends or before (the loop of CompactManifest).
CompactSources(files, merged) ==
    LET fold[l \in Level] ==
          IF l = 0 THEN [updated |-> files, sources |-> {}]
          ELSE LET p == fold[l - 1]
                   m == AtLevel(merged, l)
                   gone == {f \in AtLevel(p.updated, l - 1) : \E i \in m : f.max <= i.max}
               IN  [updated |-> ApplyManifestDelta(p.updated, m, gone),
                    sources |-> p.sources \cup gone]
    IN  fold[TopLevel].sources

=============================================================================
