----------------------------- MODULE DataLemmas -----------------------------
(***************************************************************************)
(* Facts about lists and numbers that the proofs of several components     *)
(* use.  The induction theorems of the library take the predicate as a     *)
(* parameter; here it is a set, and the principle follows from a fact      *)
(* about finite sets.                                                      *)
(***************************************************************************)
EXTENDS Integers, Sequences, Functions, SequenceTheorems, FiniteSetTheorems, TLAPS

(***************************************************************************)
(* Lists that hold no element twice: the std::lists of the replacer and of *)
(* the buffer pool.  Facts about push_back and pop_front on them.          *)
(***************************************************************************)

NoDuplicates(s) == \A i, j \in 1 .. Len(s) : s[i] = s[j] => i = j

\* push_back of an element that is not in the list.
LEMMA AppendFresh ==
  ASSUME NEW S, NEW s \in Seq(S), NEW e \in S, NoDuplicates(s), e \notin Range(s)
  PROVE  /\ Append(s, e) \in Seq(S)
         /\ Range(Append(s, e)) = Range(s) \cup {e}
         /\ NoDuplicates(Append(s, e))
<1> DEFINE r == Append(s, e)
<1>1. /\ r \in Seq(S) /\ Len(r) = Len(s) + 1
      /\ \A i \in 1 .. Len(s) : r[i] = s[i]
      /\ r[Len(s) + 1] = e
  BY AppendProperties
<1>2. Len(s) \in Nat
  BY LenProperties
<1>3. Range(s) = {s[i] : i \in 1 .. Len(s)} /\ Range(r) = {r[i] : i \in 1 .. Len(r)}
  BY <1>1, RangeEquality
<1> HIDE DEF r
<1>4. Range(r) = Range(s) \cup {e}
  <2>1. \A i \in 1 .. Len(r) : i \in 1 .. Len(s) \/ i = Len(s) + 1
    BY <1>1, <1>2
  <2>2. 1 .. Len(s) \subseteq 1 .. Len(r) /\ Len(s) + 1 \in 1 .. Len(r)
    BY <1>1, <1>2
  <2> QED
    BY <1>1, <1>3, <2>1, <2>2
<1>5. NoDuplicates(r)
  <2>1. \A i \in 1 .. Len(s) : s[i] # e
    BY <1>3
  <2> QED
    BY <1>1, <1>2, <2>1 DEF NoDuplicates
<1> QED
  BY <1>1, <1>4, <1>5 DEF r

\* pop_front of a list without duplicates.
LEMMA TailNoDuplicates ==
  ASSUME NEW S, NEW s \in Seq(S), s # <<>>, NoDuplicates(s)
  PROVE  /\ Head(s) \in Range(s)
         /\ Tail(s) \in Seq(S)
         /\ Range(Tail(s)) = Range(s) \ {Head(s)}
         /\ NoDuplicates(Tail(s))
<1> DEFINE r == Tail(s)
<1>1. /\ r \in Seq(S) /\ Len(r) = Len(s) - 1
      /\ \A i \in 1 .. Len(r) : r[i] = s[i + 1]
  BY HeadTailProperties
<1>2. Len(s) \in Nat \ {0} /\ Head(s) = s[1]
  BY EmptySeq, LenProperties
<1>3. Range(s) = {s[i] : i \in 1 .. Len(s)} /\ Range(r) = {r[i] : i \in 1 .. Len(r)}
  BY <1>1, RangeEquality
<1> HIDE DEF r
<1>4. NoDuplicates(r)
  BY <1>1, <1>2 DEF NoDuplicates
<1>5. Range(r) \subseteq Range(s) \ {s[1]}
  BY <1>1, <1>2, <1>3 DEF NoDuplicates
<1>6. ASSUME NEW x \in Range(s) \ {s[1]}
      PROVE  x \in Range(r)
  <2>1. PICK i \in 2 .. Len(s) : s[i] = x
    BY <1>2, <1>3
  <2>2. i - 1 \in 1 .. Len(r) /\ r[i - 1] = s[i]
    BY <1>1, <1>2
  <2> QED
    BY <1>3, <2>1, <2>2
<1> QED
  BY <1>1, <1>2, <1>3, <1>4, <1>5, <1>6 DEF r

(***************************************************************************)
(* Induction, and loops.                                                   *)
(***************************************************************************)

\* A set of naturals with 0 and the successor of each member has them all: below
\* a missing n, x -> x + 1 would be injective on a finite set and miss 0.
LEMMA NatInductionSet ==
  ASSUME NEW S \in SUBSET Nat, 0 \in S, \A n \in S : n + 1 \in S
  PROVE  S = Nat
<1> SUFFICES ASSUME NEW n \in Nat, n \notin S
             PROVE  FALSE
  OBVIOUS
<1> DEFINE T == {x \in 0 .. n : x \in S}
           f == [x \in T |-> x + 1]
<1>1. IsFiniteSet(T)
  <2>1. IsFiniteSet(0 .. n) /\ T \in SUBSET (0 .. n)
    BY FS_Interval
  <2> QED
    BY <2>1, FS_Subset
<1>2. \A x \in T : x + 1 \in T
  OBVIOUS
<1>3. f \in Injection(T, T)
  BY <1>2 DEF Injection, IsInjective
<1>4. f \in Surjection(T, T)
  BY <1>1, <1>3, FS_Injection
<1>5. 0 \in T
  OBVIOUS
<1>6. PICK x \in T : f[x] = 0
  BY <1>4, <1>5 DEF Surjection
<1> QED
  BY <1>6

LEMMA LeastExists ==
  ASSUME NEW S \in SUBSET Nat, S # {}
  PROVE  \E y \in S : \A z \in S : y <= z
<1> SUFFICES ASSUME \A y \in S : \E z \in S : z < y
             PROVE  FALSE
  OBVIOUS
<1> DEFINE M == {m \in Nat : \A z \in S : z >= m}
<1>1. 0 \in M /\ M \in SUBSET Nat
  OBVIOUS
<1>2. \A m \in M : m + 1 \in M
  OBVIOUS
<1>3. \A z \in S : z + 1 \notin M
  OBVIOUS
<1> HIDE DEF M
<1>4. M = Nat
  BY <1>1, <1>2, NatInductionSet
<1>5. PICK z \in S : TRUE
  OBVIOUS
<1>6. z + 1 \in Nat
  OBVIOUS
<1> QED
  BY <1>3, <1>4, <1>6

\* The same up to a bound, for what a function does from one argument to the next.
LEMMA UpToInduction ==
  ASSUME NEW n \in Nat, NEW X, NEW f, f[0] \in X,
         \A i \in 1 .. n : f[i - 1] \in X => f[i] \in X
  PROVE  \A i \in 0 .. n : f[i] \in X
<1> DEFINE S == {m \in Nat : m <= n => f[m] \in X}
<1>1. \A m \in S : m + 1 \in S
  <2> SUFFICES ASSUME NEW m \in S, m + 1 <= n
               PROVE  f[m + 1] \in X
    OBVIOUS
  <2>1. m + 1 \in 1 .. n /\ (m + 1) - 1 = m
    OBVIOUS
  <2> QED
    BY <2>1
<1>2. S \in SUBSET Nat /\ 0 \in S
  OBVIOUS
<1>3. \A i \in S : i <= n => f[i] \in X
  OBVIOUS
<1> HIDE DEF S
<1>4. S = Nat
  BY <1>1, <1>2, NatInductionSet
<1> QED
  BY <1>3, <1>4

\* The course of a loop of n steps: h[i] is where i steps of g lead from x0.
Course(h, X, x0, n, g) ==
  /\ h \in [0 .. n -> X]
  /\ h[0] = x0
  /\ \A i \in 1 .. n : h[i] = g[<<i, h[i - 1]>>]

\* A loop has a course, whatever a step does.
LEMMA CourseExists ==
  ASSUME NEW X, NEW x0 \in X, NEW n \in Nat, NEW g \in [(1 .. n) \X X -> X]
  PROVE  \E h : Course(h, X, x0, n, g)
<1> DEFINE Upto(h, m) == Course(h, X, x0, m, g)
           S == {m \in Nat : m <= n => \E h : Upto(h, m)}
<1>1. 0 \in S
  <2>1. Upto([i \in 0 .. 0 |-> x0], 0)
    BY DEF Course
  <2> QED
    BY <2>1
<1>2. ASSUME NEW m \in S
      PROVE  m + 1 \in S
  <2> SUFFICES ASSUME m + 1 <= n
               PROVE  \E h : Upto(h, m + 1)
    OBVIOUS
  <2>1. PICK h : Upto(h, m)
    OBVIOUS
  <2> DEFINE e == [i \in 0 .. m + 1 |-> IF i = m + 1 THEN g[<<m + 1, h[m]>>] ELSE h[i]]
  <2>2. m \in Nat /\ m + 1 \in 1 .. n /\ h[m] \in X
    BY <2>1 DEF Course
  <2>3. g[<<m + 1, h[m]>>] \in X
    BY <2>2
  <2>4. e \in [0 .. m + 1 -> X] /\ e[0] = x0
    BY <2>1, <2>3 DEF Course
  <2>5. \A i \in 1 .. m + 1 : e[i] = g[<<i, e[i - 1]>>]
    <3> TAKE i \in 1 .. m + 1
    <3>1. i - 1 \in 0 .. m /\ e[i - 1] = h[i - 1]
      BY <2>2
    <3>2. CASE i = m + 1
      <4>1. e[i] = g[<<m + 1, h[m]>>] /\ i - 1 = m
        BY <3>2
      <4> HIDE DEF e
      <4> QED
        BY <3>1, <3>2, <4>1
    <3>3. CASE i # m + 1
      <4>1. i \in 1 .. m /\ e[i] = h[i]
        BY <3>3
      <4>2. h[i] = g[<<i, h[i - 1]>>]
        BY <2>1, <4>1 DEF Course
      <4> HIDE DEF e
      <4> QED
        BY <3>1, <4>1, <4>2
    <3> QED
      BY <3>2, <3>3
  <2>6. Upto(e, m + 1)
    BY <2>4, <2>5 DEF Course
  <2> HIDE DEF e
  <2> QED
    BY <2>6
<1>3. S \in SUBSET Nat
  OBVIOUS
<1>4. n \in S => \E h : Upto(h, n)
  OBVIOUS
<1> HIDE DEF S
<1>5. S = Nat
  BY <1>1, <1>2, <1>3, NatInductionSet
<1>6. PICK h : Upto(h, n)
  BY <1>4, <1>5
<1> QED
  BY <1>6

(***************************************************************************)
(* Division.                                                               *)
(***************************************************************************)

LEMMA ProductMonotone ==
  ASSUME NEW a \in Nat, NEW k \in Int, k >= 1
  PROVE  a * k >= a /\ a * k \in Nat
<1>1. k - 1 \in Nat /\ a * (k - 1) \in Nat
  OBVIOUS
<1>2. a * k = a * (k - 1) + a
  OBVIOUS
<1> QED
  BY <1>1, <1>2

\* Quotient and remainder are determined by what defines them.
LEMMA DivisionUnique ==
  ASSUME NEW a \in Nat, NEW q \in Int, NEW r \in 0 .. a - 1, NEW x \in Int,
         x = a * q + r
  PROVE  x % a = r /\ x \div a = q
<1>1. a > 0
  OBVIOUS
<1> DEFINE p == x \div a
           s == x % a
<1>2. p \in Int /\ s \in 0 .. a - 1 /\ x = a * p + s
  BY <1>1
<1> HIDE DEF p, s
<1>3. a * (q - p) = s - r
  BY <1>2
<1>4. ~(q - p >= 1)
  <2>1. q - p >= 1 => a * (q - p) >= a
    BY <1>2, ProductMonotone
  <2> QED
    BY <1>2, <1>3, <2>1
<1>5. ~(p - q >= 1)
  <2>1. p - q >= 1 => a * (p - q) >= a
    BY <1>2, ProductMonotone
  <2>2. a * (p - q) = r - s
    BY <1>2
  <2> QED
    BY <1>2, <2>1, <2>2
<1>6. p = q
  BY <1>2, <1>4, <1>5
<1>7. s = r
  BY <1>2, <1>6
<1> QED
  BY <1>6, <1>7 DEF p, s

\* A remainder modulo a multiple keeps the remainder modulo its factor.
LEMMA RemainderOfRemainder ==
  ASSUME NEW a \in Nat \ {0}, NEW m \in Nat \ {0}, NEW x \in Nat
  PROVE  (x % (m * a)) % a = x % a
<1>1. m * a \in Nat \ {0}
  BY ProductMonotone
<1> DEFINE r == x % (m * a)
           q == x \div (m * a)
           s == r % a
           p == r \div a
<1>2. q \in Int /\ r \in Nat /\ x = (m * a) * q + r
  <2> DEFINE b == m * a
  <2>1. b \in Nat \ {0}
    BY <1>1
  <2> HIDE DEF b
  <2>2. x \div b \in Int /\ x % b \in Nat /\ x = b * (x \div b) + (x % b)
    BY <2>1
  <2> QED
    BY <2>2 DEF b
<1> HIDE DEF r, q
<1>3. p \in Int /\ s \in 0 .. a - 1 /\ r = a * p + s
  BY <1>2
<1> HIDE DEF s, p
<1>4. x = a * (m * q + p) + s
  BY <1>2, <1>3
<1>5. x % a = s
  BY <1>2, <1>3, <1>4, DivisionUnique
<1> QED
  BY <1>5 DEF s, r

\* The next bit: the remainder modulo 2a is the one modulo a with bit a on top.
LEMMA NextBit ==
  ASSUME NEW a \in Nat \ {0}, NEW x \in Nat
  PROVE  /\ (x \div a) % 2 \in {0, 1}
         /\ x % (2 * a) = (x % a) + a * ((x \div a) % 2)
<1> DEFINE s == x % a
           p == x \div a
           t == p % 2
           h == p \div 2
<1>1. p \in Nat /\ s \in 0 .. a - 1 /\ x = a * p + s
  OBVIOUS
<1>2. h \in Nat /\ t \in {0, 1} /\ p = 2 * h + t
  BY <1>1
<1> HIDE DEF s, p, t, h
<1>3. x = (2 * a) * h + (s + a * t)
  BY <1>1, <1>2
<1>4. s + a * t \in 0 .. (2 * a) - 1
  BY <1>1, <1>2
<1>5. x % (2 * a) = s + a * t
  <2> DEFINE b == 2 * a
             r == s + a * t
  <2>1. b \in Nat /\ r \in 0 .. b - 1 /\ x = b * h + r
    BY <1>3, <1>4
  <2> HIDE DEF b, r
  <2>2. x % b = r
    BY <1>2, <2>1, DivisionUnique
  <2> QED
    BY <2>2 DEF b, r
<1>6. t = (x \div a) % 2 /\ s = x % a
  BY DEF t, p, s
<1> QED
  BY <1>2, <1>5, <1>6

=============================================================================
