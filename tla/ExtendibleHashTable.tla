------------------------ MODULE ExtendibleHashTable ------------------------
(***************************************************************************)
(* ExtendibleHashTable (src/container/hash/extendible_hash_table.cpp): the *)
(* buffer pool's page table.  Find and Remove are one action each.  Insert *)
(* is a loop under latch_ that splits one bucket per round until the pair  *)
(* fits; each round is an action, and while a call is in its loop no other *)
(* call starts.                                                            *)
(*                                                                         *)
(* A bucket's list_ is a map (Bucket::Insert replaces the value of a key   *)
(* it finds, so a key occurs once), and shared_ptr identity is a bucket    *)
(* number, given in the order of creation.                                 *)
(*                                                                         *)
(* A definition under a comment "Fault:" is no part of the model: it is a  *)
(* plausible mistake in the definition below it, kept to show that the     *)
(* properties notice it.                                                   *)
(***************************************************************************)
EXTENDS Integers, FiniteSets, UnorderedMap

CONSTANTS
  Keys,
  Values,
  Hash,        \* std::hash of each key
  BucketSize,  \* bucket_size_
  MaxDepth,    \* bound on global_depth_: a run's directory has 2^MaxDepth entries
  Absent       \* "not found"

ASSUME HashAssumption == Hash \in [Keys -> Nat]
ASSUME SizeAssumption == BucketSize \in Nat /\ MaxDepth \in Nat
ASSUME AbsentAssumption == Absent \notin Values

VARIABLES
  global_depth,  \* global_depth_
  dir,           \* dir_: directory index -> bucket
  buckets,       \* bucket -> its depth_ and list_
  num_buckets,   \* num_buckets_
  inserting,     \* the arguments of the Insert call in its loop, or none
  result         \* what the last Find or Remove reported

vars == <<global_depth, dir, buckets, num_buckets, inserting, result>>

Idle == <<>>

\* 1UL << n
PowerOfTwo[n \in Nat] == IF n = 0 THEN 1 ELSE 2 * PowerOfTwo[n - 1]

Indices == 0 .. PowerOfTwo[global_depth] - 1

\* hash & mask, with the low `depth` bits set in mask.
Suffix(n, depth) == n % PowerOfTwo[depth]

IndexOf(k) == Suffix(Hash[k], global_depth)

BucketOf(k) == dir[IndexOf(k)]

\* Fault: the mask is `1UL << new_local_depth`.
DistinguishingBitShifted(i, depth) == (i \div PowerOfTwo[depth]) % 2

\* Bit depth - 1 of i, the one that tells the two halves of a split apart.
DistinguishingBit(i, depth) == (i \div PowerOfTwo[depth - 1]) % 2

-----------------------------------------------------------------------------

Init ==
  /\ global_depth = 0
  /\ dir = [i \in {0} |-> 0]
  /\ buckets = [b \in {0} |-> [depth |-> 0, list |-> <<>>]]
  /\ num_buckets = 1
  /\ inserting = Idle
  /\ result = Absent

Find(k) ==
  /\ inserting = Idle
  /\ LET list == buckets[BucketOf(k)].list
     IN  result' = IF k \in DOMAIN list THEN list[k] ELSE Absent
  /\ UNCHANGED <<global_depth, dir, buckets, num_buckets, inserting>>

Remove(k) ==
  /\ inserting = Idle
  /\ result' = (k \in DOMAIN buckets[BucketOf(k)].list)
  /\ buckets' = [buckets EXCEPT ![BucketOf(k)].list = Erase(@, k)]
  /\ UNCHANGED <<global_depth, dir, num_buckets, inserting>>

(***************************************************************************)
(* Insert.                                                                 *)
(***************************************************************************)

CallInsert(k, v) ==
  /\ inserting = Idle
  /\ inserting' = [key |-> k, value |-> v]
  /\ UNCHANGED <<global_depth, dir, buckets, num_buckets, result>>

\* Bucket::Insert replaces the value of a key or uses a free place; otherwise it
\* reports that the bucket is full.
Fits(list, k) == k \in DOMAIN list \/ Cardinality(DOMAIN list) < BucketSize

\* Fault: the loop goes on after the pair was inserted.
InsertPairNoReturn ==
  /\ inserting # Idle
  /\ Fits(buckets[BucketOf(inserting.key)].list, inserting.key)
  /\ buckets' = [buckets EXCEPT ![BucketOf(inserting.key)].list =
                   Put(@, inserting.key, inserting.value)]
  /\ UNCHANGED <<global_depth, dir, num_buckets, inserting, result>>

InsertPair ==
  /\ inserting # Idle
  /\ Fits(buckets[BucketOf(inserting.key)].list, inserting.key)
  /\ buckets' = [buckets EXCEPT ![BucketOf(inserting.key)].list =
                   Put(@, inserting.key, inserting.value)]
  /\ inserting' = Idle
  /\ UNCHANGED <<global_depth, dir, num_buckets, result>>

\* Fault: the directory doubles one split too late.
DoublesLate(b) == buckets[b].depth > global_depth

\* Fault: every split doubles the directory.
DoublesAlways(b) == TRUE

\* A bucket as deep as the directory is pointed to by one index only.
Doubles(b) == buckets[b].depth = global_depth

\* Fault: each entry is doubled in place instead of the whole old half.
GrownDirInterleaved(b) ==
  IF Doubles(b)
  THEN [i \in 0 .. PowerOfTwo[global_depth + 1] - 1 |-> dir[i \div 2]]
  ELSE dir

\* The directory the split starts from: doubled, the old half copied to the high
\* indices, when the bucket is as deep as the directory.
GrownDir(b) ==
  IF Doubles(b)
  THEN [i \in 0 .. PowerOfTwo[global_depth + 1] - 1 |-> dir[Suffix(i, global_depth)]]
  ELSE dir

\* Fault: entries of other buckets are redirected, too.
RedirectedAll(b, new_bucket) ==
  LET grown == GrownDir(b)
  IN  [i \in DOMAIN grown |->
         IF DistinguishingBit(i, buckets[b].depth + 1) = 1
         THEN new_bucket ELSE grown[i]]

\* Of the indices that point to b, those with the distinguishing bit set move.
Redirected(b, new_bucket) ==
  LET grown == GrownDir(b)
  IN  [i \in DOMAIN grown |->
         IF grown[i] = b /\ DistinguishingBit(i, buckets[b].depth + 1) = 1
         THEN new_bucket ELSE grown[i]]

\* The cleared list of b is inserted again, each pair where the new directory
\* sends it.  The code ignores the result of that Insert.  It cannot fail: there
\* are no more pairs than fit into one bucket, and no two with the same key.
Redistributed(b, new_bucket) ==
  LET items == buckets[b].list
      depth == buckets[b].depth + 1
      Kept(x) == IF x \in DOMAIN buckets \ {b} THEN buckets[x].list ELSE <<>>
      Sent(x) == {k \in DOMAIN items : BucketOf(k)' = x}
      Deeper(x) == IF x \in {b, new_bucket} THEN depth ELSE buckets[x].depth
  IN  [x \in DOMAIN buckets \cup {new_bucket} |->
         [depth |-> Deeper(x),
          list |-> [k \in DOMAIN Kept(x) \cup Sent(x) |->
                      IF k \in Sent(x) THEN items[k] ELSE Kept(x)[k]]]]

SplitBucket(b) ==
  /\ global_depth' = IF Doubles(b) THEN global_depth + 1 ELSE global_depth
  /\ dir' = Redirected(b, num_buckets)
  /\ buckets' = Redistributed(b, num_buckets)
  /\ num_buckets' = num_buckets + 1

Split ==
  /\ inserting # Idle
  /\ LET b == BucketOf(inserting.key)
     IN  /\ ~Fits(buckets[b].list, inserting.key)
         /\ Doubles(b) => global_depth < MaxDepth
         /\ SplitBucket(b)
  /\ UNCHANGED <<inserting, result>>

Next ==
  \/ InsertPair
  \/ Split
  \/ \E k \in Keys :
       \/ Find(k)
       \/ Remove(k)
       \/ \E v \in Values : CallInsert(k, v)

\* A call that is in its loop keeps running: it holds latch_ and never blocks.
Fairness == WF_vars(InsertPair \/ Split)

Spec == Init /\ [][Next]_vars /\ Fairness

-----------------------------------------------------------------------------

TypeOK ==
  /\ global_depth \in 0 .. MaxDepth
  /\ dir \in [Indices -> DOMAIN buckets]
  /\ DOMAIN buckets = 0 .. num_buckets - 1
  /\ \A b \in DOMAIN buckets :
       /\ buckets[b].depth \in 0 .. MaxDepth
       /\ DOMAIN buckets[b].list \subseteq Keys
       /\ Range(buckets[b].list) \subseteq Values
  /\ inserting = Idle \/ inserting \in [key : Keys, value : Values]
  /\ result \in Values \cup BOOLEAN \cup {Absent}

\* A bucket of depth d is shared by exactly the indices with the same d low bits:
\* doubling and redirecting together keep the directory a partition, however the
\* splits of different buckets alternate.
DirectoryIsPartition ==
  \A i, j \in Indices :
    dir[i] = dir[j] <=> Suffix(i, buckets[dir[i]].depth) = Suffix(j, buckets[dir[i]].depth)

\* No bucket is lost: num_buckets_ counts the buckets the directory reaches.
AllBucketsReachable == Cardinality(Range(dir)) = num_buckets

\* The directory is as deep as its deepest bucket and no deeper: it doubled only
\* when the bucket being split could not be told apart otherwise.
DepthIsNeeded ==
  /\ \A b \in DOMAIN buckets : buckets[b].depth <= global_depth
  /\ \E b \in DOMAIN buckets : buckets[b].depth = global_depth

\* All pairs of all buckets, whether the directory finds them or not.
Stored == UNION {DOMAIN buckets[b].list : b \in DOMAIN buckets}

Contents ==
  [k \in Stored |-> buckets[CHOOSE b \in DOMAIN buckets :
                              k \in DOMAIN buckets[b].list].list[k]]

Map == INSTANCE KVMap WITH map <- Contents

\* The table is a map: a split neither loses nor duplicates a pair, and Find and
\* Remove, which look in one bucket only, find every pair that is in the table.
ImplementsMap == Map!Spec

\* Every Insert returns, provided MaxDepth low bits tell the hashes of any
\* BucketSize + 1 keys apart.
InsertReturns == inserting # Idle ~> inserting = Idle

=============================================================================
