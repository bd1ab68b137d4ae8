---------------------- MODULE ExtendibleHashTableProofs ----------------------
(***************************************************************************)
(* The directory of the hash table stays a partition of the hash suffixes, *)
(* every pair stays where Find looks for it, and the table implements      *)
(* KVMap, for any keys, any hash function, any bucket size and depth.      *)
(***************************************************************************)
EXTENDS ExtendibleHashTable, DataLemmas

-----------------------------------------------------------------------------
(***************************************************************************)
(* Powers of two.                                                          *)
(***************************************************************************)

\* The first n + 1 powers of two.
IsPowers(g, n) ==
  /\ g \in [0 .. n -> Nat]
  /\ g[0] = 1
  /\ \A i \in 1 .. n : g[i] = 2 * g[i - 1]

LEMMA PowersExist ==
  ASSUME NEW n \in Nat
  PROVE  \E g : IsPowers(g, n)
<1> DEFINE S == {m \in Nat : \E g : IsPowers(g, m)}
<1>1. 0 \in S
  <2>1. IsPowers([i \in 0 .. 0 |-> 1], 0)
    BY DEF IsPowers
  <2> QED
    BY <2>1
<1>2. ASSUME NEW m \in S
      PROVE  m + 1 \in S
  <2>1. PICK g : IsPowers(g, m)
    OBVIOUS
  <2> DEFINE h == [i \in 0 .. m + 1 |-> IF i = m + 1 THEN 2 * g[m] ELSE g[i]]
  <2>2. h \in [0 .. m + 1 -> Nat] /\ h[0] = 1
    BY <2>1 DEF IsPowers
  <2>3. \A i \in 1 .. m + 1 : h[i] = 2 * h[i - 1]
    BY <2>1 DEF IsPowers
  <2>4. IsPowers(h, m + 1)
    BY <2>2, <2>3 DEF IsPowers
  <2> QED
    BY <2>4
<1> HIDE DEF S
<1>3. S = Nat
  <2>1. S \in SUBSET Nat
    BY DEF S
  <2> QED
    BY <1>1, <1>2, <2>1, NatInductionSet
<1> QED
  BY <1>3 DEF S

LEMMA PowersUnique ==
  ASSUME NEW n \in Nat, NEW m \in Nat, NEW g, NEW h, IsPowers(g, n), IsPowers(h, m),
         NEW i \in 0 .. n, i <= m
  PROVE  g[i] = h[i]
<1> DEFINE S == {j \in Nat : j <= n /\ j <= m => g[j] = h[j]}
<1>1. 0 \in S
  BY DEF IsPowers
<1>2. ASSUME NEW j \in S
      PROVE  j + 1 \in S
  <2> SUFFICES ASSUME j + 1 <= n, j + 1 <= m
               PROVE  g[j + 1] = h[j + 1]
    OBVIOUS
  <2>1. g[j + 1] = 2 * g[j] /\ h[j + 1] = 2 * h[j]
    <3>1. j + 1 \in 1 .. n /\ j + 1 \in 1 .. m /\ (j + 1) - 1 = j
      OBVIOUS
    <3> QED
      BY <3>1 DEF IsPowers
  <2> QED
    BY <2>1
<1> HIDE DEF S
<1>3. S = Nat
  <2>1. S \in SUBSET Nat
    BY DEF S
  <2> QED
    BY <1>1, <1>2, <2>1, NatInductionSet
<1> QED
  BY <1>3 DEF S

\* The recursive definition has a solution, and it is the one meant.
LEMMA PowerOfTwoDef ==
  /\ PowerOfTwo \in [Nat -> Nat]
  /\ PowerOfTwo[0] = 1
  /\ \A n \in Nat : PowerOfTwo[n + 1] = 2 * PowerOfTwo[n]
<1> DEFINE Powers(n) == CHOOSE g : IsPowers(g, n)
           F == [n \in Nat |-> Powers(n)[n]]
<1>1. \A n \in Nat : IsPowers(Powers(n), n)
  BY PowersExist
<1> HIDE DEF Powers
<1>2. F \in [Nat -> Nat] /\ F[0] = 1
  BY <1>1 DEF IsPowers
<1>3. \A n \in Nat : F[n + 1] = 2 * F[n]
  <2> TAKE n \in Nat
  <2>1. Powers(n + 1)[n + 1] = 2 * Powers(n + 1)[n]
    <3>1. n + 1 \in 1 .. n + 1 /\ (n + 1) - 1 = n
      OBVIOUS
    <3> QED
      BY <1>1, <3>1 DEF IsPowers
  <2>2. Powers(n + 1)[n] = Powers(n)[n]
    BY <1>1, PowersUnique
  <2> QED
    BY <2>1, <2>2
<1>4. F = [n \in Nat |-> IF n = 0 THEN 1 ELSE 2 * F[n - 1]]
  <2>1. \A n \in Nat \ {0} : n - 1 \in Nat /\ (n - 1) + 1 = n
    OBVIOUS
  <2> HIDE DEF F
  <2>2. \A n \in Nat : F[n] = IF n = 0 THEN 1 ELSE 2 * F[n - 1]
    BY <1>2, <1>3, <2>1
  <2>3. F = [n \in Nat |-> F[n]]
    BY <1>2
  <2> QED
    BY <2>2, <2>3
<1> HIDE DEF F
<1>5. PowerOfTwo = [n \in Nat |-> IF n = 0 THEN 1 ELSE 2 * PowerOfTwo[n - 1]]
  BY <1>4 DEF PowerOfTwo
<1>6. PowerOfTwo[0] = 1 /\ \A n \in Nat : PowerOfTwo[n + 1] = 2 * PowerOfTwo[n]
  BY <1>5
<1>7. \A n \in Nat : PowerOfTwo[n] \in Nat
  <2> DEFINE S == {n \in Nat : PowerOfTwo[n] \in Nat}
  <2>1. 0 \in S /\ \A n \in S : n + 1 \in S
    BY <1>6
  <2>2. S \in SUBSET Nat
    OBVIOUS
  <2> HIDE DEF S
  <2>3. S = Nat
    BY <2>1, <2>2, NatInductionSet
  <2> QED
    BY <2>3 DEF S
<1> QED
  BY <1>5, <1>6, <1>7

LEMMA PowerPositive ==
  ASSUME NEW n \in Nat
  PROVE  PowerOfTwo[n] \in Nat \ {0}
<1> DEFINE S == {m \in Nat : PowerOfTwo[m] # 0}
<1>1. 0 \in S /\ \A m \in S : m + 1 \in S
  BY PowerOfTwoDef
<1>2. S \in SUBSET Nat
  OBVIOUS
<1> HIDE DEF S
<1>3. S = Nat
  BY <1>1, <1>2, NatInductionSet
<1> QED
  BY <1>3, PowerOfTwoDef DEF S

\* A larger power of two is a multiple of a smaller one.
LEMMA PowerDivides ==
  ASSUME NEW e \in Nat, NEW g \in Nat, e <= g
  PROVE  \E m \in Nat \ {0} : PowerOfTwo[g] = m * PowerOfTwo[e]
<1> DEFINE S == {n \in Nat : \E m \in Nat \ {0} :
                   PowerOfTwo[e + n] = m * PowerOfTwo[e]}
<1>1. 0 \in S
  <2>1. e + 0 = e /\ PowerOfTwo[e] = 1 * PowerOfTwo[e]
    BY PowerPositive
  <2> QED
    BY <2>1
<1>2. ASSUME NEW n \in S
      PROVE  n + 1 \in S
  <2>1. PICK m \in Nat \ {0} : PowerOfTwo[e + n] = m * PowerOfTwo[e]
    OBVIOUS
  <2>2. PowerOfTwo[(e + n) + 1] = 2 * PowerOfTwo[e + n] /\ (e + n) + 1 = e + (n + 1)
    BY PowerOfTwoDef
  <2>3. PowerOfTwo[e + (n + 1)] = (2 * m) * PowerOfTwo[e]
    BY <2>1, <2>2, PowerPositive
  <2> QED
    BY <2>3
<1>3. S \in SUBSET Nat
  OBVIOUS
<1> HIDE DEF S
<1>4. g - e \in S /\ e + (g - e) = g
  BY <1>1, <1>2, <1>3, NatInductionSet
<1> QED
  BY <1>4 DEF S

LEMMA PowerMonotone ==
  ASSUME NEW e \in Nat, NEW g \in Nat, e <= g
  PROVE  PowerOfTwo[e] <= PowerOfTwo[g]
<1>1. PICK m \in Nat \ {0} : PowerOfTwo[g] = m * PowerOfTwo[e]
  BY PowerDivides
<1>2. m \in Int /\ m >= 1 /\ PowerOfTwo[e] \in Nat
  BY PowerPositive
<1>3. PowerOfTwo[e] * m >= PowerOfTwo[e]
  BY <1>2, ProductMonotone
<1> QED
  BY <1>1, <1>2, <1>3

(***************************************************************************)
(* Suffixes: the low bits of a hash or of a directory index.               *)
(***************************************************************************)

LEMMA SuffixType ==
  ASSUME NEW i \in Nat, NEW d \in Nat
  PROVE  /\ Suffix(i, d) \in Nat
         /\ Suffix(i, d) \in 0 .. PowerOfTwo[d] - 1
BY PowerPositive DEF Suffix

LEMMA SuffixOfSmall ==
  ASSUME NEW d \in Nat, NEW i \in 0 .. PowerOfTwo[d] - 1
  PROVE  Suffix(i, d) = i
BY PowerPositive DEF Suffix

\* The low e bits of the low g bits are the low e bits.
LEMMA SuffixOfSuffix ==
  ASSUME NEW i \in Nat, NEW e \in Nat, NEW g \in Nat, e <= g
  PROVE  Suffix(Suffix(i, g), e) = Suffix(i, e)
<1>1. PICK m \in Nat \ {0} : PowerOfTwo[g] = m * PowerOfTwo[e]
  BY PowerDivides
<1>2. PowerOfTwo[e] \in Nat \ {0}
  BY PowerPositive
<1> DEFINE a == PowerOfTwo[e]
<1> HIDE DEF a
<1>3. (i % (m * a)) % a = i % a
  BY <1>2, RemainderOfRemainder DEF a
<1> QED
  BY <1>1, <1>3 DEF Suffix, a

\* Bit d of i, the one that the halves of a bucket of depth d are told apart by.
Bit(i, d) == DistinguishingBit(i, d + 1)

\* The low d + 1 bits are the low d bits with bit d on top.
LEMMA SuffixNext ==
  ASSUME NEW i \in Nat, NEW d \in Nat
  PROVE  /\ Bit(i, d) \in {0, 1}
         /\ Suffix(i, d + 1) = Suffix(i, d) + PowerOfTwo[d] * Bit(i, d)
<1>1. PowerOfTwo[d] \in Nat \ {0} /\ PowerOfTwo[d + 1] = 2 * PowerOfTwo[d]
  BY PowerPositive, PowerOfTwoDef
<1>2. (d + 1) - 1 = d
  OBVIOUS
<1>3. Bit(i, d) = (i \div PowerOfTwo[d]) % 2
  BY <1>2 DEF Bit, DistinguishingBit
<1> QED
  BY <1>1, <1>3, NextBit DEF Suffix

\* Two indices agree in d + 1 bits when they agree in d bits and in bit d.
LEMMA SuffixSplits ==
  ASSUME NEW i \in Nat, NEW j \in Nat, NEW d \in Nat
  PROVE  Suffix(i, d + 1) = Suffix(j, d + 1)
           <=> Suffix(i, d) = Suffix(j, d) /\ Bit(i, d) = Bit(j, d)
<1>1. /\ Bit(i, d) \in {0, 1} /\ Bit(j, d) \in {0, 1}
      /\ Suffix(i, d + 1) = Suffix(i, d) + PowerOfTwo[d] * Bit(i, d)
      /\ Suffix(j, d + 1) = Suffix(j, d) + PowerOfTwo[d] * Bit(j, d)
      /\ Suffix(i, d) \in 0 .. PowerOfTwo[d] - 1
      /\ Suffix(j, d) \in 0 .. PowerOfTwo[d] - 1
      /\ PowerOfTwo[d] \in Nat
  BY SuffixNext, SuffixType, PowerPositive
<1>2. \A a, b \in {0, 1} : PowerOfTwo[d] * a = IF a = 0 THEN 0 ELSE PowerOfTwo[d]
  BY <1>1
<1> QED
  BY <1>1, <1>2

\* Each half of the indices with a given suffix s of d bits has a first index:
\* s itself, and s with bit d set.
LEMMA FirstOfHalves ==
  ASSUME NEW d \in Nat, NEW s \in 0 .. PowerOfTwo[d] - 1, NEW n \in {0, 1}
  PROVE  LET i == s + n * PowerOfTwo[d]
         IN  /\ i \in 0 .. PowerOfTwo[d + 1] - 1
             /\ Suffix(i, d) = s
             /\ Bit(i, d) = n
<1> DEFINE i == s + n * PowerOfTwo[d]
<1>1. PowerOfTwo[d] \in Nat \ {0} /\ PowerOfTwo[d + 1] = 2 * PowerOfTwo[d]
  BY PowerPositive, PowerOfTwoDef
<1>2. i \in 0 .. PowerOfTwo[d + 1] - 1 /\ i \in Nat
  BY <1>1
<1>3. i % PowerOfTwo[d] = s /\ i \div PowerOfTwo[d] = n
  <2> DEFINE a == PowerOfTwo[d]
  <2>1. a \in Nat /\ s \in 0 .. a - 1 /\ i = a * n + s /\ n \in Int /\ i \in Int
    BY <1>1
  <2> HIDE DEF i, a
  <2>2. i % a = s /\ i \div a = n
    BY <2>1, DivisionUnique
  <2> QED
    BY <2>2 DEF a
<1>4. (d + 1) - 1 = d /\ n % 2 = n
  OBVIOUS
<1> HIDE DEF i
<1>5. Suffix(i, d) = s /\ Bit(i, d) = n
  BY <1>3, <1>4 DEF Suffix, Bit, DistinguishingBit
<1> QED
  BY <1>2, <1>5 DEF i

-----------------------------------------------------------------------------
(***************************************************************************)
(* The inductive invariant.  DirectoryIsPartition alone says nothing of a  *)
(* bucket the directory does not reach, nor of where the pairs are.        *)
(***************************************************************************)

\* Every bucket is a depth and a list.
WellFormed ==
  /\ num_buckets \in Nat
  /\ buckets = [b \in DOMAIN buckets |-> buckets[b]]
  /\ \A b \in DOMAIN buckets :
       buckets[b] = [depth |-> buckets[b].depth, list |-> buckets[b].list]

EveryBucketReached == \A b \in DOMAIN buckets : \E i \in Indices : dir[i] = b

\* A pair is in the bucket that Find looks in.
PairsInPlace ==
  \A b \in DOMAIN buckets : \A k \in DOMAIN buckets[b].list : BucketOf(k) = b

IInv ==
  /\ TypeOK
  /\ WellFormed
  /\ DirectoryIsPartition
  /\ EveryBucketReached
  /\ DepthIsNeeded
  /\ PairsInPlace

LEMMA DepthType ==
  ASSUME IInv
  PROVE  /\ global_depth \in Nat /\ global_depth <= MaxDepth
         /\ \A b \in DOMAIN buckets : /\ buckets[b].depth \in Nat
                                      /\ buckets[b].depth <= global_depth
BY SizeAssumption DEF IInv, TypeOK, DepthIsNeeded

LEMMA KeyIndex ==
  ASSUME IInv, NEW k \in Keys
  PROVE  /\ Hash[k] \in Nat
         /\ IndexOf(k) \in Indices
         /\ BucketOf(k) \in DOMAIN buckets
<1>1. Hash[k] \in Nat /\ global_depth \in Nat
  BY HashAssumption, DepthType
<1>2. IndexOf(k) \in Indices
  BY <1>1, SuffixType DEF IndexOf, Indices
<1> QED
  BY <1>1, <1>2 DEF BucketOf, IInv, TypeOK

LEMMA InitInvariant == Init => IInv
<1> SUFFICES ASSUME Init
             PROVE  IInv
  OBVIOUS
<1>1. Indices = {0} /\ global_depth = 0
  BY PowerOfTwoDef DEF Init, Indices
<1>2. /\ DOMAIN buckets = {0} /\ num_buckets = 1
      /\ buckets[0] = [depth |-> 0, list |-> <<>>]
      /\ buckets = [b \in {0} |-> buckets[b]]
      /\ dir = [i \in {0} |-> 0]
  BY DEF Init
<1>3. TypeOK
  <2>1. inserting = Idle /\ result = Absent
    BY DEF Init
  <2>2. DOMAIN buckets[0].list = {} /\ Range(buckets[0].list) = {}
    BY <1>2 DEF Range
  <2>3. DOMAIN buckets = 0 .. num_buckets - 1 /\ buckets[0].depth \in 0 .. MaxDepth
    BY <1>2, SizeAssumption
  <2>4. dir \in [Indices -> DOMAIN buckets] /\ global_depth \in 0 .. MaxDepth
    BY <1>1, <1>2, SizeAssumption
  <2> QED
    BY <1>2, <2>1, <2>2, <2>3, <2>4 DEF TypeOK
<1>4. WellFormed
  BY <1>2 DEF WellFormed
<1>5. DirectoryIsPartition /\ EveryBucketReached
  BY <1>1, <1>2 DEF DirectoryIsPartition, EveryBucketReached
<1>6. DepthIsNeeded /\ PairsInPlace
  BY <1>1, <1>2 DEF DepthIsNeeded, PairsInPlace
<1> QED
  BY <1>3, <1>4, <1>5, <1>6 DEF IInv

(***************************************************************************)
(* Calls that change the list of one bucket only.                          *)
(***************************************************************************)

LEMMA ListInvariant ==
  ASSUME IInv, NEW b \in DOMAIN buckets, NEW list,
         buckets' = [buckets EXCEPT ![b].list = list],
         DOMAIN list \subseteq Keys, Range(list) \subseteq Values,
         \A k \in DOMAIN list : BucketOf(k) = b,
         UNCHANGED <<global_depth, dir, num_buckets>>,
         inserting' = Idle \/ inserting' \in [key : Keys, value : Values],
         result' \in Values \cup BOOLEAN \cup {Absent}
  PROVE  IInv'
<1>1. /\ DOMAIN buckets' = DOMAIN buckets
      /\ buckets'[b] = [depth |-> buckets[b].depth, list |-> list]
      /\ \A x \in DOMAIN buckets : x # b => buckets'[x] = buckets[x]
      /\ buckets' = [x \in DOMAIN buckets |-> buckets'[x]]
  <2> DEFINE old == buckets[b]
             new == [depth |-> old.depth, list |-> list]
  <2>1. old = [depth |-> old.depth, list |-> old.list]
    BY DEF IInv, WellFormed
  <2>2. [old EXCEPT !.list = list] = new
    BY <2>1
  <2>3. buckets' = [buckets EXCEPT ![b] = new]
    BY <2>2
  <2>4. buckets = [x \in DOMAIN buckets |-> buckets[x]]
    BY DEF IInv, WellFormed
  <2> HIDE DEF old, new
  <2>5. /\ DOMAIN buckets' = DOMAIN buckets
        /\ buckets'[b] = new
        /\ \A x \in DOMAIN buckets : x # b => buckets'[x] = buckets[x]
        /\ buckets' = [x \in DOMAIN buckets |-> buckets'[x]]
    BY <2>3, <2>4
  <2> QED
    BY <2>5 DEF old, new
<1>2. \A x \in DOMAIN buckets : buckets'[x].depth = buckets[x].depth
  BY ZenonT(40), <1>1
<1>3. Indices' = Indices /\ dir' = dir
  BY DEF Indices
<1>4. TypeOK'
  BY <1>1, <1>2, <1>3 DEF IInv, TypeOK
<1>5. WellFormed'
  BY <1>1 DEF IInv, WellFormed
<1>6. DirectoryIsPartition'
  <2>1. \A i \in Indices : buckets'[dir[i]].depth = buckets[dir[i]].depth
    BY <1>2 DEF IInv, TypeOK
  <2> QED
    BY <1>3, <2>1 DEF IInv, DirectoryIsPartition
<1>7. EveryBucketReached'
  BY <1>1, <1>3 DEF IInv, EveryBucketReached
<1>8. DepthIsNeeded'
  BY <1>1, <1>2 DEF IInv, DepthIsNeeded
<1>9. PairsInPlace'
  <2>1. \A k : BucketOf(k)' = BucketOf(k)
    BY DEF BucketOf, IndexOf
  <2> QED
    BY <1>1, <2>1 DEF IInv, PairsInPlace
<1> QED
  BY <1>4, <1>5, <1>6, <1>7, <1>8, <1>9 DEF IInv

LEMMA ErasedList ==
  ASSUME NEW list, NEW k
  PROVE  /\ DOMAIN Erase(list, k) = DOMAIN list \ {k}
         /\ \A x \in DOMAIN list \ {k} : Erase(list, k)[x] = list[x]
         /\ Range(Erase(list, k)) \subseteq Range(list)
<1>1. /\ DOMAIN Erase(list, k) = DOMAIN list \ {k}
      /\ \A x \in DOMAIN list \ {k} : Erase(list, k)[x] = list[x]
  BY DEF Erase, Restrict
<1> QED
  BY <1>1 DEF Range

LEMMA PutList ==
  ASSUME NEW list, NEW k, NEW v
  PROVE  /\ DOMAIN Put(list, k, v) = DOMAIN list \cup {k}
         /\ Put(list, k, v)[k] = v
         /\ \A x \in DOMAIN list \ {k} : Put(list, k, v)[x] = list[x]
         /\ Range(Put(list, k, v)) \subseteq Range(list) \cup {v}
<1>1. /\ DOMAIN Put(list, k, v) = DOMAIN list \cup {k}
      /\ Put(list, k, v)[k] = v
      /\ \A x \in DOMAIN list \ {k} : Put(list, k, v)[x] = list[x]
  BY DEF Put
<1> QED
  BY <1>1 DEF Range

\* Calls that leave the table alone.
LEMMA SameTableInvariant ==
  ASSUME IInv, UNCHANGED <<global_depth, dir, buckets, num_buckets>>,
         inserting' = Idle \/ inserting' \in [key : Keys, value : Values],
         result' \in Values \cup BOOLEAN \cup {Absent}
  PROVE  IInv'
<1>1. Indices' = Indices
  BY DEF Indices
<1>2. TypeOK' /\ WellFormed'
  BY <1>1 DEF IInv, TypeOK, WellFormed
<1>3. DirectoryIsPartition' /\ EveryBucketReached' /\ DepthIsNeeded'
  BY <1>1 DEF IInv, DirectoryIsPartition, EveryBucketReached, DepthIsNeeded
<1>4. PairsInPlace'
  BY DEF IInv, PairsInPlace, BucketOf, IndexOf
<1> QED
  BY <1>2, <1>3, <1>4 DEF IInv

LEMMA RemoveInvariant ==
  ASSUME IInv, NEW k \in Keys, Remove(k)
  PROVE  IInv'
<1> DEFINE b == BucketOf(k)
           old == buckets[b].list
           list == Erase(old, k)
<1>1. b \in DOMAIN buckets
  BY KeyIndex
<1>2. /\ buckets' = [buckets EXCEPT ![b].list = list]
      /\ UNCHANGED <<global_depth, dir, num_buckets, inserting>>
      /\ result' \in BOOLEAN
  BY DEF Remove
<1>3. DOMAIN list \subseteq DOMAIN old /\ Range(list) \subseteq Range(old)
  <2> HIDE DEF old
  <2> QED
    BY ErasedList
<1>4. /\ DOMAIN buckets[b].list \subseteq Keys /\ Range(buckets[b].list) \subseteq Values
      /\ \A x \in DOMAIN buckets[b].list : BucketOf(x) = b
  BY <1>1 DEF IInv, TypeOK, PairsInPlace
<1>5. inserting' = Idle \/ inserting' \in [key : Keys, value : Values]
  BY <1>2 DEF IInv, TypeOK
<1> HIDE DEF b, list
<1> QED
  BY <1>1, <1>2, <1>3, <1>4, <1>5, ListInvariant

\* The call that is in its loop.
LEMMA InsertingType ==
  ASSUME IInv, inserting # Idle
  PROVE  inserting.key \in Keys /\ inserting.value \in Values
BY DEF IInv, TypeOK

LEMMA InsertPairInvariant ==
  ASSUME IInv, InsertPair
  PROVE  IInv'
<1> DEFINE k == inserting.key
           b == BucketOf(k)
           v == inserting.value
           old == buckets[b].list
           list == Put(old, k, v)
<1>1. k \in Keys /\ inserting.value \in Values /\ b \in DOMAIN buckets
  BY InsertingType, KeyIndex DEF InsertPair
<1>2. /\ buckets' = [buckets EXCEPT ![b].list = list]
      /\ UNCHANGED <<global_depth, dir, num_buckets, result>>
      /\ inserting' = Idle
  BY DEF InsertPair
<1>3. /\ DOMAIN list = DOMAIN old \cup {k}
      /\ Range(list) \subseteq Range(old) \cup {v}
  <2> HIDE DEF old, v, k
  <2> QED
    BY PutList
<1>4. /\ DOMAIN buckets[b].list \subseteq Keys /\ Range(buckets[b].list) \subseteq Values
      /\ \A x \in DOMAIN buckets[b].list : BucketOf(x) = b
  BY <1>1 DEF IInv, TypeOK, PairsInPlace
<1>5. DOMAIN list \subseteq Keys /\ Range(list) \subseteq Values
  BY <1>1, <1>3, <1>4
<1>6. \A x \in DOMAIN list : BucketOf(x) = b
  BY <1>3, <1>4
<1>7. result' \in Values \cup BOOLEAN \cup {Absent}
  BY <1>2 DEF IInv, TypeOK
<1> HIDE DEF b, k, list
<1> QED
  BY <1>1, <1>2, <1>5, <1>6, <1>7, ListInvariant

(***************************************************************************)
(* A split.                                                                *)
(***************************************************************************)

\* The depths after the split: the halves are one bit deeper, and the directory
\* grows exactly when they would not fit under it.
LEMMA SplitDepths ==
  ASSUME IInv, NEW b \in DOMAIN buckets, Doubles(b) => global_depth < MaxDepth,
         SplitBucket(b)
  PROVE  /\ global_depth' \in 0 .. MaxDepth
         /\ global_depth <= global_depth'
         /\ buckets[b].depth + 1 <= global_depth'
         /\ buckets[b].depth = global_depth => global_depth' = global_depth + 1
         /\ buckets[b].depth # global_depth => global_depth' = global_depth
         /\ Indices \subseteq Indices'
         /\ \A i \in Indices' : i \in Nat /\ Suffix(i, global_depth) \in Indices
<1>1. /\ global_depth \in Nat /\ global_depth <= MaxDepth
      /\ buckets[b].depth \in Nat /\ buckets[b].depth <= global_depth
  BY DepthType
<1>2. global_depth' = IF buckets[b].depth = global_depth THEN global_depth + 1
                                                         ELSE global_depth
  BY DEF SplitBucket, Doubles
<1>3. buckets[b].depth = global_depth => global_depth < MaxDepth
  BY DEF Doubles
<1>4. /\ global_depth' \in 0 .. MaxDepth
      /\ global_depth <= global_depth'
      /\ buckets[b].depth + 1 <= global_depth'
  BY <1>1, <1>2, <1>3, SizeAssumption
<1>5. Indices \subseteq Indices'
  <2>1. PowerOfTwo[global_depth] <= PowerOfTwo[global_depth']
    BY <1>1, <1>4, PowerMonotone
  <2>2. PowerOfTwo[global_depth] \in Nat /\ PowerOfTwo[global_depth'] \in Nat
    BY <1>1, <1>4, PowerPositive
  <2> QED
    BY <2>1, <2>2 DEF Indices
<1>6. ASSUME NEW i \in Indices'
      PROVE  i \in Nat /\ Suffix(i, global_depth) \in Indices
  <2>1. i \in Nat
    BY DEF Indices
  <2>2. Suffix(i, global_depth) \in 0 .. PowerOfTwo[global_depth] - 1
    BY <1>1, <2>1, SuffixType
  <2> QED
    BY <2>1, <2>2 DEF Indices
<1> QED
  BY <1>2, <1>4, <1>5, <1>6

\* The directory after the split: each index is looked up by its old suffix, and
\* those that led to b and have the new bit set lead to the new bucket.
LEMMA SplitDirectory ==
  ASSUME IInv, NEW b \in DOMAIN buckets, Doubles(b) => global_depth < MaxDepth,
         SplitBucket(b)
  PROVE  /\ dir' = [i \in Indices' |-> dir'[i]]
         /\ \A i \in Indices' :
              /\ dir[Suffix(i, global_depth)] = b /\ Bit(i, buckets[b].depth) = 1
                   => dir'[i] = num_buckets
              /\ ~(dir[Suffix(i, global_depth)] = b /\ Bit(i, buckets[b].depth) = 1)
                   => dir'[i] = dir[Suffix(i, global_depth)]
<1> DEFINE grown == GrownDir(b)
<1>1. /\ buckets[b].depth = global_depth => global_depth' = global_depth + 1
      /\ buckets[b].depth # global_depth => global_depth' = global_depth
  BY SplitDepths
<1>2. dir = [i \in Indices |-> dir[i]]
  BY DEF IInv, TypeOK
<1>3. DOMAIN grown = Indices'
      /\ \A i \in Indices' : grown[i] = dir[Suffix(i, global_depth)]
  <2>1. CASE buckets[b].depth = global_depth
    <3>1. grown = [i \in 0 .. PowerOfTwo[global_depth + 1] - 1 |->
                     dir[Suffix(i, global_depth)]]
      BY <2>1 DEF GrownDir, Doubles
    <3>2. Indices' = 0 .. PowerOfTwo[global_depth + 1] - 1
      BY <1>1, <2>1 DEF Indices
    <3> QED
      BY <3>1, <3>2
  <2>2. CASE buckets[b].depth # global_depth
    <3>1. grown = dir /\ Indices' = Indices
      BY <1>1, <2>2 DEF GrownDir, Doubles, Indices
    <3>2. \A i \in Indices : Suffix(i, global_depth) = i
      BY DepthType, SuffixOfSmall DEF Indices
    <3> QED
      BY <1>2, <3>1, <3>2
  <2> QED
    BY <2>1, <2>2
<1>4. dir' = [i \in DOMAIN grown |->
                IF grown[i] = b /\ Bit(i, buckets[b].depth) = 1
                THEN num_buckets ELSE grown[i]]
  BY DEF SplitBucket, Redirected, Bit
<1> HIDE DEF grown
<1> QED
  BY <1>3, <1>4

\* The buckets after the split: b and the new one share the pairs of b by the new
\* directory, the others are as before.
LEMMA SplitBuckets ==
  ASSUME IInv, NEW b \in DOMAIN buckets, SplitBucket(b)
  PROVE  /\ num_buckets \notin DOMAIN buckets
         /\ num_buckets' = num_buckets + 1
         /\ DOMAIN buckets' = DOMAIN buckets \cup {num_buckets}
         /\ DOMAIN buckets' = 0 .. num_buckets' - 1
         /\ WellFormed'
         /\ \A x \in DOMAIN buckets \ {b} :
              /\ buckets'[x].depth = buckets[x].depth
              /\ DOMAIN buckets'[x].list =
                   DOMAIN buckets[x].list
                     \cup {k \in DOMAIN buckets[b].list : BucketOf(k)' = x}
              /\ \A k \in DOMAIN buckets[x].list :
                   \/ buckets'[x].list[k] = buckets[x].list[k]
                   \/ k \in DOMAIN buckets[b].list /\ BucketOf(k)' = x
         /\ \A x \in {b, num_buckets} :
              /\ buckets'[x].depth = buckets[b].depth + 1
              /\ DOMAIN buckets'[x].list =
                   {k \in DOMAIN buckets[b].list : BucketOf(k)' = x}
         /\ \A x \in DOMAIN buckets' :
              \A k \in DOMAIN buckets[b].list :
                BucketOf(k)' = x => buckets'[x].list[k] = buckets[b].list[k]
<1> DEFINE items == buckets[b].list
           Kept(x) == IF x \in DOMAIN buckets \ {b} THEN buckets[x].list ELSE <<>>
           Sent(x) == {k \in DOMAIN items : BucketOf(k)' = x}
           Deeper(x) == IF x \in {b, num_buckets} THEN buckets[b].depth + 1
                                                  ELSE buckets[x].depth
           List(x) == [k \in DOMAIN Kept(x) \cup Sent(x) |->
                         IF k \in Sent(x) THEN items[k] ELSE Kept(x)[k]]
<1>1. /\ num_buckets \in Nat /\ DOMAIN buckets = 0 .. num_buckets - 1
      /\ num_buckets' = num_buckets + 1
  BY DEF IInv, TypeOK, WellFormed, SplitBucket
<1>2. /\ num_buckets \notin DOMAIN buckets
      /\ DOMAIN buckets \cup {num_buckets} = 0 .. num_buckets' - 1
      /\ num_buckets' \in Nat
  BY <1>1
<1>3. buckets' = [x \in DOMAIN buckets \cup {num_buckets} |->
                    [depth |-> Deeper(x), list |-> List(x)]]
  BY DEF SplitBucket, Redistributed
<1>4. /\ DOMAIN buckets' = DOMAIN buckets \cup {num_buckets}
      /\ buckets' = [x \in DOMAIN buckets' |-> buckets'[x]]
      /\ \A x \in DOMAIN buckets' :
           buckets'[x] = [depth |-> Deeper(x), list |-> List(x)]
  <2> HIDE DEF Deeper, List
  <2> QED
    BY <1>3
<1>5. ASSUME NEW x \in DOMAIN buckets'
      PROVE  /\ buckets'[x].depth = Deeper(x)
             /\ buckets'[x].list = List(x)
             /\ buckets'[x] = [depth |-> buckets'[x].depth, list |-> buckets'[x].list]
  <2> DEFINE depth == Deeper(x)
             list == List(x)
  <2>1. buckets'[x] = [depth |-> depth, list |-> list]
    BY <1>4
  <2> HIDE DEF depth, list
  <2>2. /\ buckets'[x].depth = depth
        /\ buckets'[x].list = list
        /\ buckets'[x] = [depth |-> buckets'[x].depth, list |-> buckets'[x].list]
    BY <2>1
  <2> QED
    BY <2>2 DEF depth, list
<1>6. WellFormed'
  BY <1>2, <1>4, <1>5 DEF WellFormed
<1>7. \A x : /\ DOMAIN List(x) = DOMAIN Kept(x) \cup Sent(x)
             /\ \A k \in Sent(x) : List(x)[k] = items[k]
             /\ \A k \in DOMAIN Kept(x) \ Sent(x) : List(x)[k] = Kept(x)[k]
  <2> HIDE DEF Kept, Sent, items
  <2> QED
    OBVIOUS
<1> HIDE DEF List
<1>8. ASSUME NEW x \in DOMAIN buckets \ {b}
      PROVE  /\ buckets'[x].depth = buckets[x].depth
             /\ DOMAIN buckets'[x].list = DOMAIN buckets[x].list \cup Sent(x)
             /\ \A k \in DOMAIN buckets[x].list :
                  \/ buckets'[x].list[k] = buckets[x].list[k]
                  \/ k \in Sent(x)
  <2>1. Kept(x) = buckets[x].list /\ Deeper(x) = buckets[x].depth
    BY <1>2, <1>8
  <2>2. x \in DOMAIN buckets'
    BY <1>4, <1>8
  <2> HIDE DEF Kept, Sent, Deeper
  <2>3. buckets'[x].depth = buckets[x].depth /\ buckets'[x].list = List(x)
    BY <1>5, <2>1, <2>2
  <2>4. DOMAIN buckets'[x].list = DOMAIN buckets[x].list \cup Sent(x)
    BY <1>7, <2>1, <2>3
  <2>5. \A k \in DOMAIN buckets[x].list :
          buckets'[x].list[k] = buckets[x].list[k] \/ k \in Sent(x)
    BY <1>7, <2>1, <2>3
  <2> QED
    BY <2>3, <2>4, <2>5
<1>9. ASSUME NEW x \in {b, num_buckets}
      PROVE  /\ buckets'[x].depth = buckets[b].depth + 1
             /\ DOMAIN buckets'[x].list = Sent(x)
  <2>1. DOMAIN Kept(x) = {} /\ Deeper(x) = buckets[b].depth + 1
    BY <1>2, <1>9
  <2> HIDE DEF Kept, Sent, Deeper
  <2> QED
    BY ZenonT(40), <1>4, <1>5, <1>7, <2>1
<1>10. \A x \in DOMAIN buckets' : \A k \in Sent(x) :
         buckets'[x].list[k] = buckets[b].list[k]
  <2> HIDE DEF Kept, Sent, Deeper
  <2> QED
    BY <1>5, <1>7
<1> QED
  BY <1>1, <1>2, <1>4, <1>6, <1>8, <1>9, <1>10

\* Where a key is looked for after the split: keys of b in b or the new bucket,
\* other keys where they were.
LEMMA KeyAfterSplit ==
  ASSUME IInv, NEW b \in DOMAIN buckets, Doubles(b) => global_depth < MaxDepth,
         SplitBucket(b), NEW k \in Keys
  PROVE  /\ BucketOf(k) # b => BucketOf(k)' = BucketOf(k)
         /\ BucketOf(k) = b => BucketOf(k)' \in {b, num_buckets}
<1> DEFINE i == Suffix(Hash[k], global_depth')
<1>1. /\ Hash[k] \in Nat /\ global_depth \in Nat /\ global_depth' \in Nat
      /\ global_depth <= global_depth'
  BY HashAssumption, DepthType, SplitDepths
<1>2. i \in Indices' /\ BucketOf(k)' = dir'[i]
  BY <1>1, SuffixType DEF Indices, BucketOf, IndexOf
<1>3. dir[Suffix(i, global_depth)] = BucketOf(k)
  BY <1>1, SuffixOfSuffix DEF BucketOf, IndexOf
<1> HIDE DEF i
<1> QED
  BY <1>2, <1>3, SplitDirectory

\* The pairs after the split: each where its key is looked for, and none elsewhere.
LEMMA PairsAfterSplit ==
  ASSUME IInv, NEW b \in DOMAIN buckets, Doubles(b) => global_depth < MaxDepth,
         SplitBucket(b), NEW x \in DOMAIN buckets'
  PROVE  /\ \A k \in DOMAIN buckets'[x].list :
              /\ k \in Keys /\ BucketOf(k)' = x
              /\ k \in DOMAIN buckets[BucketOf(k)].list
              /\ buckets'[x].list[k] = buckets[BucketOf(k)].list[k]
         /\ \A k \in Keys : BucketOf(k)' = x /\ k \in DOMAIN buckets[BucketOf(k)].list
              => k \in DOMAIN buckets'[x].list
<1> DEFINE items == buckets[b].list
           Sent == {k \in DOMAIN items : BucketOf(k)' = x}
<1>1. \A y \in DOMAIN buckets :
        \A k \in DOMAIN buckets[y].list : k \in Keys /\ BucketOf(k) = y
  BY DEF IInv, TypeOK, PairsInPlace
<1>2. \A k \in Keys : /\ BucketOf(k) \in DOMAIN buckets
                      /\ BucketOf(k) # b => BucketOf(k)' = BucketOf(k)
                      /\ BucketOf(k) = b => BucketOf(k)' \in {b, num_buckets}
  BY KeyIndex, KeyAfterSplit
<1>3. num_buckets \notin DOMAIN buckets /\ DOMAIN buckets' = DOMAIN buckets \cup {num_buckets}
  BY SplitBuckets
<1>4. \A k \in Sent : buckets'[x].list[k] = items[k]
  BY SplitBuckets
<1>5. \A k \in Sent : k \in Keys /\ BucketOf(k) = b /\ BucketOf(k)' = x
  BY <1>1
<1>6. CASE x \in DOMAIN buckets \ {b}
  <2>1. /\ DOMAIN buckets'[x].list = DOMAIN buckets[x].list \cup Sent
        /\ \A k \in DOMAIN buckets[x].list :
             buckets'[x].list[k] = buckets[x].list[k] \/ k \in Sent
    BY <1>6, SplitBuckets
  <2>2. Sent = {}
    <3> HIDE DEF Sent
    <3> QED
      BY <1>2, <1>3, <1>5, <1>6
  <2> HIDE DEF Sent, items
  <2>3. DOMAIN buckets'[x].list = DOMAIN buckets[x].list
    BY <2>1, <2>2
  <2>4. ASSUME NEW k \in DOMAIN buckets'[x].list
        PROVE  /\ k \in Keys /\ BucketOf(k)' = x
               /\ k \in DOMAIN buckets[BucketOf(k)].list
               /\ buckets'[x].list[k] = buckets[BucketOf(k)].list[k]
    <3>1. k \in DOMAIN buckets[x].list /\ k \in Keys /\ BucketOf(k) = x
      BY <1>1, <1>6, <2>3
    <3> QED
      BY <1>2, <1>6, <2>1, <2>2, <3>1
  <2>5. ASSUME NEW k \in Keys, BucketOf(k)' = x, k \in DOMAIN buckets[BucketOf(k)].list
        PROVE  k \in DOMAIN buckets'[x].list
    <3>1. BucketOf(k) = x
      BY <1>2, <1>3, <1>6, <2>5
    <3> QED
      BY <2>3, <2>5, <3>1
  <2> QED
    BY <2>4, <2>5
<1>7. CASE x \in {b, num_buckets}
  <2>1. DOMAIN buckets'[x].list = Sent
    BY <1>7, SplitBuckets
  <2>2. ASSUME NEW k \in DOMAIN buckets'[x].list
        PROVE  /\ k \in Keys /\ BucketOf(k)' = x
               /\ k \in DOMAIN buckets[BucketOf(k)].list
               /\ buckets'[x].list[k] = buckets[BucketOf(k)].list[k]
    <3>1. k \in Sent
      BY <2>1
    <3>2. k \in DOMAIN items
      BY <3>1
    <3> HIDE DEF Sent
    <3> QED
      BY <1>4, <1>5, <3>1, <3>2
  <2>3. ASSUME NEW k \in Keys, BucketOf(k)' = x, k \in DOMAIN buckets[BucketOf(k)].list
        PROVE  k \in DOMAIN buckets'[x].list
    <3>1. BucketOf(k) = b
      BY <1>2, <1>3, <1>7, <2>3
    <3> QED
      BY <2>1, <2>3, <3>1
  <2> QED
    BY <2>2, <2>3
<1> QED
  BY <1>3, <1>6, <1>7

\* The indices of a bucket before the split, seen from the larger directory.
LEMMA OldClasses ==
  ASSUME IInv, NEW b \in DOMAIN buckets, Doubles(b) => global_depth < MaxDepth,
         SplitBucket(b), NEW i \in Indices', NEW j \in Indices'
  PROVE  LET x == dir[Suffix(i, global_depth)]
             y == dir[Suffix(j, global_depth)]
         IN  /\ x \in DOMAIN buckets /\ y \in DOMAIN buckets
             /\ x = y <=> Suffix(i, buckets[x].depth) = Suffix(j, buckets[x].depth)
<1> DEFINE s == Suffix(i, global_depth)
           t == Suffix(j, global_depth)
<1>1. i \in Nat /\ j \in Nat /\ s \in Indices /\ t \in Indices
  BY SplitDepths
<1>2. dir[s] \in DOMAIN buckets /\ dir[t] \in DOMAIN buckets
  BY <1>1 DEF IInv, TypeOK
<1>3. /\ global_depth \in Nat /\ buckets[dir[s]].depth \in Nat
      /\ buckets[dir[s]].depth <= global_depth
  BY <1>2, DepthType
<1>4. /\ Suffix(s, buckets[dir[s]].depth) = Suffix(i, buckets[dir[s]].depth)
      /\ Suffix(t, buckets[dir[s]].depth) = Suffix(j, buckets[dir[s]].depth)
  BY <1>1, <1>3, SuffixOfSuffix
<1> HIDE DEF s, t
<1>5. dir[s] = dir[t] <=> Suffix(s, buckets[dir[s]].depth) = Suffix(t, buckets[dir[s]].depth)
  BY <1>1 DEF IInv, DirectoryIsPartition
<1>6. dir[s] = dir[t] <=> Suffix(i, buckets[dir[s]].depth) = Suffix(j, buckets[dir[s]].depth)
  BY <1>4, <1>5
<1> QED
  BY <1>2, <1>6 DEF s, t

LEMMA SplitPartition ==
  ASSUME IInv, NEW b \in DOMAIN buckets, Doubles(b) => global_depth < MaxDepth,
         SplitBucket(b)
  PROVE  DirectoryIsPartition'
<1> SUFFICES ASSUME NEW i \in Indices', NEW j \in Indices'
             PROVE  dir'[i] = dir'[j] <=>
                      Suffix(i, buckets'[dir'[i]].depth) = Suffix(j, buckets'[dir'[i]].depth)
  BY DEF DirectoryIsPartition
<1> DEFINE x == dir[Suffix(i, global_depth)]
           y == dir[Suffix(j, global_depth)]
<1>1. /\ x \in DOMAIN buckets /\ y \in DOMAIN buckets
      /\ x = y <=> Suffix(i, buckets[x].depth) = Suffix(j, buckets[x].depth)
  BY OldClasses
<1>2. /\ x = b /\ Bit(i, buckets[b].depth) = 1 => dir'[i] = num_buckets
      /\ ~(x = b /\ Bit(i, buckets[b].depth) = 1) => dir'[i] = x
      /\ y = b /\ Bit(j, buckets[b].depth) = 1 => dir'[j] = num_buckets
      /\ ~(y = b /\ Bit(j, buckets[b].depth) = 1) => dir'[j] = y
  BY SplitDirectory
<1>3. /\ num_buckets \notin DOMAIN buckets
      /\ \A z \in DOMAIN buckets \ {b} : buckets'[z].depth = buckets[z].depth
      /\ \A z \in {b, num_buckets} : buckets'[z].depth = buckets[b].depth + 1
  BY SplitBuckets
<1>4. i \in Nat /\ j \in Nat
  BY SplitDepths
<1> HIDE DEF x, y
<1>5. CASE x # b
  <2>1. dir'[i] = x /\ buckets'[x].depth = buckets[x].depth
    BY <1>1, <1>2, <1>3, <1>5
  <2>2. dir'[i] = dir'[j] <=> x = y
    BY <1>1, <1>2, <1>3, <1>5
  <2> QED
    BY <1>1, <2>1, <2>2
<1>6. CASE x = b
  <2>1. PICK d \in Nat : d = buckets[b].depth
    BY DepthType
  <2>2. /\ Bit(i, d) \in {0, 1} /\ Bit(j, d) \in {0, 1}
        /\ Suffix(i, d + 1) = Suffix(j, d + 1)
             <=> Suffix(i, d) = Suffix(j, d) /\ Bit(i, d) = Bit(j, d)
    BY <1>4, SuffixNext, SuffixSplits
  <2>3. dir'[i] \in {b, num_buckets} /\ buckets'[dir'[i]].depth = d + 1
    BY <1>2, <1>3, <1>6, <2>1
  <2>4. dir'[i] = dir'[j] <=> y = b /\ Bit(i, d) = Bit(j, d)
    BY <1>1, <1>2, <1>3, <1>6, <2>1, <2>2
  <2>5. y = b <=> Suffix(i, d) = Suffix(j, d)
    BY <1>1, <1>6, <2>1
  <2> QED
    BY <2>2, <2>3, <2>4, <2>5
<1> QED
  BY <1>5, <1>6

\* The new bucket has an index, and b keeps one.
LEMMA SplitReaches ==
  ASSUME IInv, NEW b \in DOMAIN buckets, Doubles(b) => global_depth < MaxDepth,
         SplitBucket(b)
  PROVE  EveryBucketReached'
<1>1. /\ DOMAIN buckets' = DOMAIN buckets \cup {num_buckets}
      /\ num_buckets \notin DOMAIN buckets
  BY SplitBuckets
<1>2. ASSUME NEW x \in DOMAIN buckets \ {b}
      PROVE  \E i \in Indices' : dir'[i] = x
  <2>1. PICK i \in Indices : dir[i] = x
    BY DEF IInv, EveryBucketReached
  <2>2. i \in Indices' /\ Suffix(i, global_depth) = i
    BY SplitDepths, SuffixOfSmall, DepthType DEF Indices
  <2> QED
    BY <2>1, <2>2, SplitDirectory
<1>3. ASSUME NEW n \in {0, 1}
      PROVE  \E i \in Indices' : dir'[i] = IF n = 1 THEN num_buckets ELSE b
  <2>1. PICK j \in Indices : dir[j] = b
    BY DEF IInv, EveryBucketReached
  <2>2. PICK d \in Nat : d = buckets[b].depth
    BY DepthType
  <2>3. PICK s \in 0 .. PowerOfTwo[d] - 1 : s = Suffix(j, d)
    <3>1. j \in Nat
      BY SplitDepths
    <3> QED
      BY <3>1, SuffixType
  <2> DEFINE i == s + n * PowerOfTwo[d]
  <2>4. i \in 0 .. PowerOfTwo[d + 1] - 1 /\ Suffix(i, d) = s /\ Bit(i, d) = n
    BY FirstOfHalves
  <2>5. i \in Indices'
    <3>1. d + 1 <= global_depth' /\ global_depth' \in Nat
      BY <2>2, SplitDepths
    <3>2. PowerOfTwo[d + 1] <= PowerOfTwo[global_depth']
      BY <3>1, PowerMonotone
    <3>3. PowerOfTwo[d + 1] \in Nat /\ PowerOfTwo[global_depth'] \in Nat
      BY <3>1, PowerPositive
    <3> HIDE DEF i
    <3> QED
      BY <2>4, <3>2, <3>3 DEF Indices
  <2> HIDE DEF i
  <2>6. dir[Suffix(i, global_depth)] = b
    <3> DEFINE x == dir[Suffix(j, global_depth)]
               y == dir[Suffix(i, global_depth)]
    <3>1. j \in Indices' /\ Suffix(j, global_depth) = j
      BY SplitDepths, SuffixOfSmall, DepthType DEF Indices
    <3>2. x = y <=> Suffix(j, buckets[x].depth) = Suffix(i, buckets[x].depth)
      BY <2>5, <3>1, OldClasses
    <3>3. x = b
      BY <2>1, <3>1
    <3> HIDE DEF x, y
    <3>4. y = b
      BY <2>2, <2>3, <2>4, <3>2, <3>3
    <3> QED
      BY <3>4 DEF y
  <2>7. dir'[i] = IF n = 1 THEN num_buckets ELSE b
    BY <2>2, <2>4, <2>5, <2>6, SplitDirectory
  <2> QED
    BY <2>5, <2>7
<1>4. (\E i \in Indices' : dir'[i] = b) /\ (\E i \in Indices' : dir'[i] = num_buckets)
  <2>1. 0 \in {0, 1} /\ 1 \in {0, 1} /\ 0 # 1
    OBVIOUS
  <2> QED
    BY <1>3, <2>1
<1>5. \A x \in DOMAIN buckets' : \E i \in Indices' : dir'[i] = x
  BY <1>1, <1>2, <1>4
<1> QED
  BY <1>5 DEF EveryBucketReached

LEMMA SplitInvariant ==
  ASSUME IInv, Split
  PROVE  IInv'
<1> DEFINE b == BucketOf(inserting.key)
<1>1. inserting.key \in Keys /\ b \in DOMAIN buckets
  BY InsertingType, KeyIndex DEF Split
<1>2. /\ Doubles(b) => global_depth < MaxDepth
      /\ SplitBucket(b)
      /\ inserting' = inserting /\ result' = result
  BY DEF Split
<1> HIDE DEF b
<1>3. /\ num_buckets \notin DOMAIN buckets
      /\ DOMAIN buckets' = DOMAIN buckets \cup {num_buckets}
      /\ DOMAIN buckets' = 0 .. num_buckets' - 1
      /\ WellFormed'
      /\ \A x \in DOMAIN buckets \ {b} : buckets'[x].depth = buckets[x].depth
      /\ \A x \in {b, num_buckets} : buckets'[x].depth = buckets[b].depth + 1
  BY <1>1, <1>2, SplitBuckets
<1>4. /\ global_depth' \in 0 .. MaxDepth
      /\ global_depth <= global_depth'
      /\ buckets[b].depth + 1 <= global_depth'
      /\ buckets[b].depth = global_depth => global_depth' = global_depth + 1
      /\ buckets[b].depth # global_depth => global_depth' = global_depth
  BY <1>1, <1>2, SplitDepths
<1>5. /\ global_depth \in Nat /\ MaxDepth \in Nat
      /\ \A x \in DOMAIN buckets : buckets[x].depth \in Nat /\ buckets[x].depth <= global_depth
  BY DepthType, SizeAssumption
<1>6. \A x \in DOMAIN buckets' :
        buckets'[x].depth \in 0 .. MaxDepth /\ buckets'[x].depth <= global_depth'
  BY <1>1, <1>3, <1>4, <1>5
<1>7. DepthIsNeeded'
  <2>1. CASE buckets[b].depth = global_depth
    BY <1>1, <1>3, <1>4, <1>6, <2>1 DEF DepthIsNeeded
  <2>2. CASE buckets[b].depth # global_depth
    <3>1. PICK x \in DOMAIN buckets : buckets[x].depth = global_depth
      BY DEF IInv, DepthIsNeeded
    <3> QED
      BY <1>3, <1>4, <1>6, <2>2, <3>1 DEF DepthIsNeeded
  <2> QED
    BY <2>1, <2>2
<1>8. ASSUME NEW x \in DOMAIN buckets'
      PROVE  /\ \A k \in DOMAIN buckets'[x].list : k \in Keys /\ BucketOf(k)' = x
             /\ Range(buckets'[x].list) \subseteq Values
  <2>1. \A k \in DOMAIN buckets'[x].list :
          /\ k \in Keys /\ BucketOf(k)' = x
          /\ k \in DOMAIN buckets[BucketOf(k)].list
          /\ buckets'[x].list[k] = buckets[BucketOf(k)].list[k]
    BY <1>1, <1>2, PairsAfterSplit
  <2>2. \A y \in DOMAIN buckets : \A k \in DOMAIN buckets[y].list : buckets[y].list[k] \in Values
    BY DEF IInv, TypeOK, Range
  <2>3. \A k \in DOMAIN buckets'[x].list : buckets'[x].list[k] \in Values
    BY <2>1, <2>2, KeyIndex
  <2> QED
    BY <2>1, <2>3 DEF Range
<1>9. dir' \in [Indices' -> DOMAIN buckets']
  <2>1. ASSUME NEW i \in Indices'
        PROVE  dir'[i] \in DOMAIN buckets'
    <3>1. dir[Suffix(i, global_depth)] \in DOMAIN buckets
      BY <1>1, <1>2, OldClasses
    <3> QED
      BY <1>1, <1>2, <1>3, <3>1, SplitDirectory
  <2>2. dir' = [i \in Indices' |-> dir'[i]]
    BY <1>1, <1>2, SplitDirectory
  <2> QED
    BY <2>1, <2>2
<1>10. TypeOK'
  <2>1. /\ inserting' = Idle \/ inserting' \in [key : Keys, value : Values]
        /\ result' \in Values \cup BOOLEAN \cup {Absent}
    BY <1>2 DEF IInv, TypeOK
  <2> QED
    BY <1>3, <1>4, <1>6, <1>8, <1>9, <2>1 DEF TypeOK
<1>11. PairsInPlace'
  BY <1>8 DEF PairsInPlace
<1>12. DirectoryIsPartition' /\ EveryBucketReached'
  BY <1>1, <1>2, SplitPartition, SplitReaches
<1> QED
  BY <1>3, <1>7, <1>10, <1>11, <1>12 DEF IInv

-----------------------------------------------------------------------------
(***************************************************************************)
(* The theorems.                                                           *)
(***************************************************************************)

LEMMA NextInvariant == IInv /\ [Next]_vars => IInv'
<1> SUFFICES ASSUME IInv, [Next]_vars
             PROVE  IInv'
  OBVIOUS
<1>1. CASE InsertPair
  BY <1>1, InsertPairInvariant
<1>2. CASE Split
  BY <1>2, SplitInvariant
<1>3. ASSUME NEW k \in Keys, Find(k)
      PROVE  IInv'
  <2>1. BucketOf(k) \in DOMAIN buckets
    BY KeyIndex
  <2>2. result' \in Values \cup BOOLEAN \cup {Absent}
    BY <1>3, <2>1 DEF Find, IInv, TypeOK, Range
  <2>3. UNCHANGED <<global_depth, dir, buckets, num_buckets, inserting>>
    BY <1>3 DEF Find
  <2> QED
    BY <2>2, <2>3, SameTableInvariant DEF IInv, TypeOK
<1>4. ASSUME NEW k \in Keys, Remove(k)
      PROVE  IInv'
  BY <1>4, RemoveInvariant
<1>5. ASSUME NEW k \in Keys, NEW v \in Values, CallInsert(k, v)
      PROVE  IInv'
  <2>1. /\ inserting' \in [key : Keys, value : Values]
        /\ UNCHANGED <<global_depth, dir, buckets, num_buckets, result>>
    BY <1>5 DEF CallInsert
  <2> QED
    BY <2>1, SameTableInvariant DEF IInv, TypeOK
<1>6. CASE UNCHANGED vars
  BY <1>6, SameTableInvariant DEF vars, IInv, TypeOK
<1> QED
  BY <1>1, <1>2, <1>3, <1>4, <1>5, <1>6 DEF Next

LEMMA Invariance == Spec => []IInv
<1>1. Init => IInv
  BY InitInvariant
<1>2. IInv /\ [Next]_vars => IInv'
  BY NextInvariant
<1> QED
  BY <1>1, <1>2, PTL DEF Spec

\* Every directory entry is a bucket of the table and the depths stay in range,
\* whatever the splits.
THEOREM TypeCorrect == Spec => []TypeOK
<1>1. IInv => TypeOK
  BY DEF IInv
<1> QED
  BY <1>1, Invariance, PTL

\* Doubling and redirecting keep the directory a partition: a bucket of local
\* depth d is shared by exactly the indices that agree in their d low bits.
THEOREM DirectoryStaysPartition == Spec => []DirectoryIsPartition
<1>1. IInv => DirectoryIsPartition
  BY DEF IInv
<1> QED
  BY <1>1, Invariance, PTL

\* The directory is never deeper than its deepest bucket.
THEOREM DepthStaysNeeded == Spec => []DepthIsNeeded
<1>1. IInv => DepthIsNeeded
  BY DEF IInv
<1> QED
  BY <1>1, Invariance, PTL

\* num_buckets_ counts the buckets the directory reaches: no split loses one.
THEOREM NoBucketIsLost == Spec => []AllBucketsReachable
<1>1. IInv => AllBucketsReachable
  <2> SUFFICES ASSUME IInv
               PROVE  AllBucketsReachable
    OBVIOUS
  <2>1. Range(dir) = DOMAIN buckets
    BY DEF IInv, TypeOK, EveryBucketReached, Range
  <2>2. DOMAIN buckets = 0 .. num_buckets - 1 /\ num_buckets \in Nat
    BY DEF IInv, TypeOK, WellFormed
  <2>3. Cardinality(0 .. num_buckets - 1) = num_buckets
    BY <2>2, FS_Interval
  <2> QED
    BY <2>1, <2>2, <2>3 DEF AllBucketsReachable
<1> QED
  BY <1>1, Invariance, PTL

-----------------------------------------------------------------------------
(***************************************************************************)
(* The table implements KVMap.                                             *)
(***************************************************************************)

\* When each key has one home bucket, the pairs of all buckets are a map.
LEMMA ContentsOfBuckets ==
  ASSUME NEW bs, NEW stored, NEW contents, NEW home,
         \A b \in DOMAIN bs : \A k \in DOMAIN bs[b].list : k \in Keys /\ home[k] = b,
         stored = UNION {DOMAIN bs[b].list : b \in DOMAIN bs},
         contents = [k \in stored |-> bs[CHOOSE b \in DOMAIN bs :
                                         k \in DOMAIN bs[b].list].list[k]]
  PROVE  /\ contents = [k \in DOMAIN contents |-> contents[k]]
         /\ \A k : k \in DOMAIN contents
                    <=> k \in Keys /\ home[k] \in DOMAIN bs /\ k \in DOMAIN bs[home[k]].list
         /\ \A k \in DOMAIN contents : contents[k] = bs[home[k]].list[k]
<1>1. \A k : k \in stored <=> \E b \in DOMAIN bs : k \in DOMAIN bs[b].list
  OBVIOUS
<1>2. ASSUME NEW k \in stored
      PROVE  contents[k] = bs[home[k]].list[k]
  <2> DEFINE c == CHOOSE b \in DOMAIN bs : k \in DOMAIN bs[b].list
  <2>1. c \in DOMAIN bs /\ k \in DOMAIN bs[c].list
    BY <1>1
  <2>2. contents[k] = bs[c].list[k]
    OBVIOUS
  <2> HIDE DEF c
  <2> QED
    BY <2>1, <2>2
<1>3. contents = [k \in DOMAIN contents |-> contents[k]] /\ DOMAIN contents = stored
  OBVIOUS
<1> QED
  BY <1>1, <1>2, <1>3

\* What is stored is what Find finds.
LEMMA ContentsFound ==
  ASSUME IInv
  PROVE  /\ Contents = [k \in DOMAIN Contents |-> Contents[k]]
         /\ \A k : k \in DOMAIN Contents
                    <=> k \in Keys /\ k \in DOMAIN buckets[BucketOf(k)].list
         /\ \A k \in DOMAIN Contents : Contents[k] = buckets[BucketOf(k)].list[k]
<1> DEFINE home == [k \in Keys |-> BucketOf(k)]
<1>1. \A k \in Keys : home[k] = BucketOf(k) /\ BucketOf(k) \in DOMAIN buckets
  BY KeyIndex
<1> HIDE DEF home
<1>2. \A b \in DOMAIN buckets : \A k \in DOMAIN buckets[b].list : k \in Keys /\ home[k] = b
  BY <1>1 DEF IInv, TypeOK, PairsInPlace
<1>3. /\ Contents = [k \in DOMAIN Contents |-> Contents[k]]
      /\ \A k : k \in DOMAIN Contents
                 <=> /\ k \in Keys /\ home[k] \in DOMAIN buckets
                     /\ k \in DOMAIN buckets[home[k]].list
      /\ \A k \in DOMAIN Contents : Contents[k] = buckets[home[k]].list[k]
  BY <1>2, ContentsOfBuckets DEF Contents, Stored
<1> QED
  BY <1>1, <1>3

LEMMA ContentsFoundNext ==
  ASSUME IInv'
  PROVE  /\ Contents' = [k \in DOMAIN Contents' |-> Contents'[k]]
         /\ \A k : k \in DOMAIN Contents'
                    <=> k \in Keys /\ k \in DOMAIN buckets'[BucketOf(k)'].list
         /\ \A k \in DOMAIN Contents' : Contents'[k] = buckets'[BucketOf(k)'].list[k]
<1> DEFINE home == [k \in Keys |-> BucketOf(k)']
<1>1. ASSUME NEW k \in Keys
      PROVE  home[k] = BucketOf(k)' /\ BucketOf(k)' \in DOMAIN buckets'
  <2>1. Hash[k] \in Nat /\ global_depth' \in Nat
    BY HashAssumption, SizeAssumption DEF IInv, TypeOK
  <2>2. Suffix(Hash[k], global_depth') \in 0 .. PowerOfTwo[global_depth'] - 1
    BY <2>1, SuffixType
  <2>3. dir' \in [Indices' -> DOMAIN buckets'] /\ Indices' = 0 .. PowerOfTwo[global_depth'] - 1
    BY DEF IInv, TypeOK, Indices
  <2>4. BucketOf(k)' = dir'[Suffix(Hash[k], global_depth')]
    BY DEF BucketOf, IndexOf
  <2> QED
    BY <2>2, <2>3, <2>4
<1> HIDE DEF home
<1>2. \A b \in DOMAIN buckets' : \A k \in DOMAIN buckets'[b].list : k \in Keys /\ home[k] = b
  BY <1>1 DEF IInv, TypeOK, PairsInPlace
<1>3. /\ Contents' = [k \in DOMAIN Contents' |-> Contents'[k]]
      /\ \A k : k \in DOMAIN Contents'
                 <=> /\ k \in Keys /\ home[k] \in DOMAIN buckets'
                     /\ k \in DOMAIN buckets'[home[k]].list
      /\ \A k \in DOMAIN Contents' : Contents'[k] = buckets'[home[k]].list[k]
  BY <1>2, ContentsOfBuckets DEF Contents, Stored
<1> QED
  BY <1>1, <1>3

\* A call that replaces the list of one bucket changes the map where that list changes.
LEMMA ListChangesMap ==
  ASSUME IInv, IInv', NEW b \in DOMAIN buckets, NEW list,
         buckets' = [buckets EXCEPT ![b].list = list],
         UNCHANGED <<global_depth, dir>>
  PROVE  /\ \A k \in Keys : BucketOf(k) # b =>
              /\ k \in DOMAIN Contents' <=> k \in DOMAIN Contents
              /\ k \in DOMAIN Contents => Contents'[k] = Contents[k]
         /\ \A k \in Keys : BucketOf(k) = b =>
              /\ k \in DOMAIN Contents' <=> k \in DOMAIN list
              /\ k \in DOMAIN list => Contents'[k] = list[k]
<1>1. \A k : BucketOf(k)' = BucketOf(k)
  BY DEF BucketOf, IndexOf
<1>2. /\ \A x \in DOMAIN buckets \ {b} : buckets'[x].list = buckets[x].list
      /\ buckets'[b].list = list
  <2> DEFINE old == buckets[b]
             new == [depth |-> old.depth, list |-> list]
  <2>1. old = [depth |-> old.depth, list |-> old.list]
    BY DEF IInv, WellFormed
  <2>2. [old EXCEPT !.list = list] = new
    BY <2>1
  <2>3. buckets' = [buckets EXCEPT ![b] = new]
    BY <2>2
  <2>4. new.list = list
    OBVIOUS
  <2> HIDE DEF old, new
  <2> QED
    BY <2>3, <2>4
<1> QED
  BY <1>1, <1>2, KeyIndex, ContentsFound, ContentsFoundNext

LEMMA SplitKeepsMap ==
  ASSUME IInv, IInv', Split
  PROVE  Contents' = Contents
<1> DEFINE b == BucketOf(inserting.key)
<1>1. b \in DOMAIN buckets /\ (Doubles(b) => global_depth < MaxDepth) /\ SplitBucket(b)
  BY InsertingType, KeyIndex DEF Split
<1> HIDE DEF b
<1>2. \A k \in Keys : BucketOf(k)' \in DOMAIN buckets'
  BY <1>1, KeyIndex, KeyAfterSplit, SplitBuckets
<1>3. ASSUME NEW k \in Keys
      PROVE  /\ k \in DOMAIN Contents' <=> k \in DOMAIN Contents
             /\ k \in DOMAIN Contents => Contents'[k] = Contents[k]
  <2> DEFINE x == BucketOf(k)'
  <2>1. /\ k \in DOMAIN buckets'[x].list =>
             /\ k \in DOMAIN buckets[BucketOf(k)].list
             /\ buckets'[x].list[k] = buckets[BucketOf(k)].list[k]
        /\ k \in DOMAIN buckets[BucketOf(k)].list => k \in DOMAIN buckets'[x].list
    BY <1>1, <1>2, PairsAfterSplit
  <2> HIDE DEF x
  <2>2. /\ k \in DOMAIN Contents' <=> k \in DOMAIN buckets'[x].list
        /\ k \in DOMAIN Contents <=> k \in DOMAIN buckets[BucketOf(k)].list
    BY ContentsFound, ContentsFoundNext DEF x
  <2>3. /\ k \in DOMAIN Contents' => Contents'[k] = buckets'[x].list[k]
        /\ k \in DOMAIN Contents => Contents[k] = buckets[BucketOf(k)].list[k]
    BY ContentsFound, ContentsFoundNext DEF x
  <2> QED
    BY <2>1, <2>2, <2>3
<1>4. /\ DOMAIN Contents \subseteq Keys /\ DOMAIN Contents' \subseteq Keys
      /\ Contents = [k \in DOMAIN Contents |-> Contents[k]]
      /\ Contents' = [k \in DOMAIN Contents' |-> Contents'[k]]
  BY ContentsFound, ContentsFoundNext
<1>5. DOMAIN Contents' = DOMAIN Contents
  BY <1>3, <1>4
<1> QED
  BY <1>3, <1>4, <1>5

LEMMA MapStep ==
  ASSUME IInv, IInv', [Next]_vars
  PROVE  [Map!Next]_(Map!vars)
<1> DEFINE old == Contents
           new == Contents'
<1>1. /\ DOMAIN old \subseteq Keys /\ DOMAIN new \subseteq Keys
      /\ old = [k \in DOMAIN old |-> old[k]]
      /\ new = [k \in DOMAIN new |-> new[k]]
  BY ContentsFound, ContentsFoundNext
<1>2. ASSUME UNCHANGED <<global_depth, dir, buckets>>
      PROVE  new = old
  BY <1>2 DEF Contents, Stored
<1>3. ASSUME NEW k \in Keys, Find(k)
      PROVE  Map!Find(k)
  <2>1. /\ result' = IF k \in DOMAIN buckets[BucketOf(k)].list
                     THEN buckets[BucketOf(k)].list[k] ELSE Absent
        /\ new = old
    BY <1>2, <1>3 DEF Find
  <2>2. result' = IF k \in DOMAIN old THEN old[k] ELSE Absent
    BY <2>1, ContentsFound
  <2> QED
    BY <2>1, <2>2 DEF Map!Find, Map!Lookup
<1>4. ASSUME NEW k \in Keys, Remove(k)
      PROVE  Map!Remove(k)
  <2> DEFINE b == BucketOf(k)
             list == Erase(buckets[b].list, k)
  <2>1. /\ b \in DOMAIN buckets
        /\ buckets' = [buckets EXCEPT ![b].list = list]
        /\ UNCHANGED <<global_depth, dir>>
        /\ result' = (k \in DOMAIN buckets[b].list)
    BY <1>4, KeyIndex DEF Remove
  <2>2. /\ DOMAIN list = DOMAIN buckets[b].list \ {k}
        /\ \A x \in DOMAIN list : list[x] = buckets[b].list[x]
    BY ErasedList
  <2> HIDE DEF list
  <2>3. /\ \A x \in Keys : BucketOf(x) # b =>
             (x \in DOMAIN new <=> x \in DOMAIN old) /\ (x \in DOMAIN old => new[x] = old[x])
        /\ \A x \in Keys : BucketOf(x) = b =>
             (x \in DOMAIN new <=> x \in DOMAIN list) /\ (x \in DOMAIN list => new[x] = list[x])
    BY <2>1, ListChangesMap
  <2>4. \A x \in Keys :
          /\ x \in DOMAIN old <=> x \in DOMAIN buckets[BucketOf(x)].list
          /\ x \in DOMAIN old => old[x] = buckets[BucketOf(x)].list[x]
    BY ContentsFound
  <2> HIDE DEF old, new
  <2>5. DOMAIN new = DOMAIN old \ {k} /\ \A x \in DOMAIN new : new[x] = old[x]
    BY <1>1, <2>2, <2>3, <2>4
  <2>6. new = [x \in DOMAIN old \ {k} |-> old[x]]
    BY <1>1, <2>5
  <2>7. result' = (k \in DOMAIN old)
    BY <2>1, <2>4
  <2>8. Contents' = Erase(Contents, k)
    BY <2>6 DEF old, new, Erase, Restrict
  <2> QED
    BY <2>7, <2>8 DEF old, Map!Remove, Map!Erase, Map!Restrict, Erase, Restrict
<1>5. ASSUME InsertPair
      PROVE  \E k \in Keys, v \in Values : Map!Insert(k, v)
  <2> DEFINE k == inserting.key
             v == inserting.value
             b == BucketOf(k)
             items == buckets[b].list
             list == Put(items, k, v)
  <2>1. /\ k \in Keys /\ v \in Values /\ b \in DOMAIN buckets
        /\ buckets' = [buckets EXCEPT ![b].list = list]
        /\ UNCHANGED <<global_depth, dir, result>>
    BY <1>5, InsertingType, KeyIndex DEF InsertPair
  <2>2. /\ DOMAIN list = DOMAIN items \cup {k}
        /\ list[k] = v
        /\ \A x \in DOMAIN list \ {k} : list[x] = items[x]
    <3> HIDE DEF k, v, items
    <3> QED
      BY DEF Put
  <2> HIDE DEF list, v
  <2>3. /\ \A x \in Keys : BucketOf(x) # b =>
             (x \in DOMAIN new <=> x \in DOMAIN old) /\ (x \in DOMAIN old => new[x] = old[x])
        /\ \A x \in Keys : BucketOf(x) = b =>
             (x \in DOMAIN new <=> x \in DOMAIN list) /\ (x \in DOMAIN list => new[x] = list[x])
    BY <2>1, ListChangesMap
  <2>4. \A x \in Keys :
          /\ x \in DOMAIN old <=> x \in DOMAIN buckets[BucketOf(x)].list
          /\ x \in DOMAIN old => old[x] = buckets[BucketOf(x)].list[x]
    BY ContentsFound
  <2>5. BucketOf(k) = b
    OBVIOUS
  <2> HIDE DEF old, new, k, b
  <2>6. /\ DOMAIN new = DOMAIN old \cup {k}
        /\ new[k] = v
        /\ \A x \in DOMAIN new \ {k} : new[x] = old[x]
    BY ZenonT(40), <1>1, <2>1, <2>2, <2>3, <2>4, <2>5
  <2>7. new = [x \in DOMAIN old \cup {k} |-> IF x = k THEN v ELSE old[x]]
    BY <1>1, <2>6
  <2>8. Map!Insert(k, v)
    BY <2>1, <2>7 DEF old, new, Map!Insert, Map!Put
  <2> QED
    BY <2>1, <2>8
<1>6. ASSUME Split
      PROVE  UNCHANGED Map!vars
  BY <1>6, SplitKeepsMap DEF Split, Map!vars
<1>7. ASSUME NEW k \in Keys, NEW v \in Values, CallInsert(k, v)
      PROVE  UNCHANGED Map!vars
  BY <1>2, <1>7 DEF CallInsert, Map!vars
<1>8. ASSUME UNCHANGED vars
      PROVE  UNCHANGED Map!vars
  BY <1>2, <1>8 DEF vars, Map!vars
<1> HIDE DEF old, new
<1> QED
  BY <1>3, <1>4, <1>5, <1>6, <1>7, <1>8 DEF Next, Map!Next

\* The table is a map.  However the splits of different buckets alternate and the
\* directory grows, no pair is lost or duplicated, and looking in one bucket only
\* finds every pair.
THEOREM TableIsMap == Spec => ImplementsMap
<1>1. Init => Map!Init
  <2> SUFFICES ASSUME Init
               PROVE  Map!Init
    OBVIOUS
  <2>1. IInv
    BY InitInvariant
  <2>2. \A k : k \notin DOMAIN Contents
    <3>1. buckets = [b \in {0} |-> [depth |-> 0, list |-> <<>>]]
      BY DEF Init
    <3>2. \A k \in Keys : BucketOf(k) = 0 /\ buckets[0].list = <<>>
      BY <2>1, <3>1, KeyIndex
    <3>3. DOMAIN <<>> = {}
      OBVIOUS
    <3> QED
      BY <2>1, <3>2, <3>3, ContentsFound
  <2>3. Contents = [k \in {} |-> Contents[k]]
    <3>1. DOMAIN Contents = {}
      BY <2>2
    <3> QED
      BY <2>1, <3>1, ContentsFound
  <2>4. Contents = <<>>
    BY <2>3
  <2> QED
    BY <2>4 DEF Init, Map!Init
<1>2. IInv /\ IInv' /\ [Next]_vars => [Map!Next]_(Map!vars)
  BY MapStep
<1> QED
  BY <1>1, <1>2, Invariance, PTL DEF Spec, ImplementsMap, Map!Spec

=============================================================================
