------------------------ MODULE BPlusTreePagesProofs ------------------------
(***************************************************************************)
(* What the operators of BPlusTreePages return, for arrays of any length:  *)
(* the searches stay inside the array, and inserting, removing, splitting  *)
(* and sorting give sequences with the pairs one expects.                  *)
(***************************************************************************)
EXTENDS BPlusTreePages, DataLemmas

-----------------------------------------------------------------------------
(***************************************************************************)
(* Searching.                                                              *)
(***************************************************************************)

\* The bisection ends inside the array; where the positions before the sought one
\* are the first m, it finds m.
LEMMA PartitionPointFound ==
  ASSUME NEW n \in Nat, NEW before
  PROVE  /\ PartitionPoint(n, before) \in 0 .. n
         /\ \A m \in 0 .. n :
              (\A i \in 1 .. n : i \in before <=> i <= m) => PartitionPoint(n, before) = m
<1> DEFINE X == {x \in (0 .. n) \X (0 .. n) : x[1] <= x[2]}
           Probe(x) ==
             LET low == x[1]
                 high == x[2]
                 middle == low + (high - low) \div 2
             IN  IF low = high THEN <<low, high>>
                 ELSE IF middle + 1 \in before THEN <<middle + 1, high>>
                 ELSE <<low, middle>>
           g == [y \in (1 .. n) \X X |-> Probe(y[2])]
           Bracket == CHOOSE f : f = [i \in 0 .. n |-> IF i = 0 THEN <<0, n>> ELSE Probe(f[i - 1])]
<1>1. PartitionPoint(n, before) = Bracket[n][1]
  BY DEF PartitionPoint
<1>2. ASSUME NEW x \in X
      PROVE  /\ Probe(x) \in X
             /\ x[1] <= Probe(x)[1] /\ Probe(x)[2] <= x[2]
             /\ x[1] # x[2] => Probe(x)[2] - Probe(x)[1] < x[2] - x[1]
             /\ x[1] = x[2] => Probe(x)[2] = Probe(x)[1]
             /\ \A m \in 0 .. n :
                  /\ \A i \in 1 .. n : i \in before <=> i <= m
                  /\ x[1] <= m /\ m <= x[2]
                  => Probe(x)[1] <= m /\ m <= Probe(x)[2]
  <2> DEFINE low == x[1]
             high == x[2]
             middle == low + (high - low) \div 2
  <2>1. low \in 0 .. n /\ high \in 0 .. n /\ low <= high
    OBVIOUS
  <2>2. middle \in low .. high /\ (low # high => middle < high)
    BY <2>1
  <2>3. Probe(x) = IF low = high THEN <<low, high>>
                   ELSE IF middle + 1 \in before THEN <<middle + 1, high>>
                   ELSE <<low, middle>>
    OBVIOUS
  <2> HIDE DEF low, high, middle, Probe
  <2>4. \A a, b \in 0 .. n : a <= b => <<a, b>> \in X
    OBVIOUS
  <2>5. x[1] = low /\ x[2] = high
    BY DEF low, high
  <2> HIDE DEF X
  <2>6. CASE low = high
    BY <2>1, <2>3, <2>4, <2>5, <2>6
  <2>7. CASE low # high /\ middle + 1 \in before
    <3>1. Probe(x) = <<middle + 1, high>>
      BY <2>3, <2>7
    <3>2. middle + 1 \in 1 .. n
      BY <2>1, <2>2, <2>7
    <3> QED
      BY <2>1, <2>2, <2>4, <2>5, <2>7, <3>1, <3>2
  <2>8. CASE low # high /\ middle + 1 \notin before
    <3>1. Probe(x) = <<low, middle>>
      BY <2>3, <2>8
    <3>2. middle + 1 \in 1 .. n
      BY <2>1, <2>2, <2>8
    <3> QED
      BY <2>1, <2>2, <2>4, <2>5, <2>8, <3>1, <3>2
  <2> QED
    BY <2>6, <2>7, <2>8
<1> DEFINE x0 == <<0, n>>
<1>3. g \in [(1 .. n) \X X -> X]
  BY <1>2
<1>4. /\ x0 \in X /\ x0[1] = 0 /\ x0[2] = n
      /\ \A x \in X : x[1] \in 0 .. n /\ x[2] \in 0 .. n /\ x[1] <= x[2]
  OBVIOUS
<1>5. Bracket = CHOOSE f : f = [i \in 0 .. n |-> IF i = 0 THEN x0 ELSE Probe(f[i - 1])]
  OBVIOUS
<1>6. \A i \in 1 .. n : \A x \in X : g[<<i, x>>] = Probe(x)
  OBVIOUS
<1> HIDE DEF Probe, x0, X, g, Bracket
<1>7. PICK h : Course(h, X, x0, n, g)
  BY <1>3, <1>4, CourseExists
<1>8. \A i \in 1 .. n : h[i] = Probe(h[i - 1])
  <2> TAKE i \in 1 .. n
  <2>1. i - 1 \in 0 .. n
    OBVIOUS
  <2>2. h[i - 1] \in X
    BY <1>7, <2>1 DEF Course
  <2> QED
    BY <1>6, <1>7, <2>2 DEF Course
<1>9. Bracket = [i \in 0 .. n |-> IF i = 0 THEN x0 ELSE Probe(Bracket[i - 1])]
  <2>1. h = [i \in 0 .. n |-> IF i = 0 THEN x0 ELSE Probe(h[i - 1])]
    BY <1>7, <1>8 DEF Course
  <2> QED
    BY <1>5, <2>1
<1>10. Bracket[0] = x0 /\ \A i \in 1 .. n : Bracket[i] = Probe(Bracket[i - 1])
  BY <1>9
<1> DEFINE Y == {x \in X : \A m \in 0 .. n :
                             (\A i \in 1 .. n : i \in before <=> i <= m)
                               => x[1] <= m /\ m <= x[2]}
<1>11. \A i \in 0 .. n : Bracket[i] \in Y
  <2>1. Bracket[0] \in Y
    BY <1>4, <1>10
  <2>2. \A i \in 1 .. n : Bracket[i - 1] \in Y => Bracket[i] \in Y
    BY <1>2, <1>10
  <2> HIDE DEF Y
  <2> QED
    BY <2>1, <2>2, UpToInduction
<1> DEFINE Width(i) == Bracket[i][2] - Bracket[i][1]
           Narrow == {i \in 0 .. n : Width(i) <= n - i}
           id == [i \in 0 .. n |-> i]
<1>12. id[0] \in Narrow
  BY <1>4, <1>10
<1>13. ASSUME NEW i \in 1 .. n, id[i - 1] \in Narrow
       PROVE  id[i] \in Narrow
  <2>1. i - 1 \in 0 .. n
    OBVIOUS
  <2>2. Bracket[i - 1] \in X /\ Bracket[i] \in X
    BY <1>11, <2>1
  <2>3. Width(i - 1) <= n - (i - 1)
    BY <1>13, <2>1
  <2>4. Width(i - 1) \in Nat /\ Width(i) \in Nat
    BY <1>4, <2>2
  <2>5. Width(i) < Width(i - 1) \/ (Width(i - 1) = 0 /\ Width(i) = 0)
    <3> DEFINE x == Bracket[i - 1]
    <3>1. x \in X /\ Bracket[i] = Probe(x)
      BY <1>10, <2>2
    <3>2. /\ x[1] # x[2] => Bracket[i][2] - Bracket[i][1] < x[2] - x[1]
          /\ x[1] = x[2] => Bracket[i][2] = Bracket[i][1]
      BY <1>2, <3>1
    <3>3. x[1] \in Int /\ x[2] \in Int /\ Bracket[i][1] \in Int /\ Bracket[i][2] \in Int
      BY <1>4, <2>2
    <3> QED
      BY <3>2, <3>3
  <2> HIDE DEF Width
  <2>6. Width(i) <= n - i
    BY <2>3, <2>4, <2>5
  <2> QED
    BY <2>6
<1>14. \A i \in 0 .. n : id[i] \in Narrow
  <2> HIDE DEF id, Narrow
  <2> QED
    BY <1>12, <1>13, UpToInduction
<1>15. Bracket[n] \in Y /\ Width(n) <= 0
  <2>1. id[n] \in Narrow /\ id[n] = n
    BY <1>14
  <2> QED
    BY <1>11, <2>1
<1>16. PartitionPoint(n, before) = Bracket[n][1]
  BY <1>1
<1> QED
  BY <1>4, <1>15, <1>16

LEMMA LowerBoundRange ==
  ASSUME NEW S, NEW array \in Seq(S), NEW k
  PROVE  LowerBound(array, k) \in 1 .. Len(array) + 1
<1> DEFINE before == {i \in 1 .. Len(array) : array[i].key < k}
<1>1. Len(array) \in Nat
  BY LenProperties
<1>2. LowerBound(array, k) = 1 + PartitionPoint(Len(array), before)
  BY DEF LowerBound
<1> HIDE DEF before
<1>3. PartitionPoint(Len(array), before) \in 0 .. Len(array)
  BY <1>1, PartitionPointFound
<1> QED
  BY <1>1, <1>2, <1>3

LEMMA HeldPair ==
  ASSUME NEW S, NEW array \in Seq(S), NEW k, Holds(array, k)
  PROVE  LowerBound(array, k) \in 1 .. Len(array)
BY LowerBoundRange, LenProperties DEF Holds

LEMMA ChildForIsChild ==
  ASSUME NEW S, NEW array \in Seq(S), array # <<>>, NEW k
  PROVE  ChildFor(array, k) \in Children(array)
<1> DEFINE before == {i \in 1 .. Len(array) - 1 : array[i + 1].key <= k}
           point == PartitionPoint(Len(array) - 1, before)
<1>1. Len(array) \in Nat \ {0}
  BY EmptySeq
<1>2. ChildFor(array, k) = array[1 + point].value
  BY DEF ChildFor
<1>3. point \in 0 .. Len(array) - 1
  <2> HIDE DEF before
  <2>1. Len(array) - 1 \in Nat
    BY <1>1
  <2> QED
    BY <2>1, PartitionPointFound
<1> HIDE DEF point
<1> QED
  BY <1>1, <1>2, <1>3 DEF Children

-----------------------------------------------------------------------------
(***************************************************************************)
(* Inserting, removing and cutting.                                        *)
(***************************************************************************)

LEMMA CutPositions ==
  ASSUME NEW S, NEW s \in Seq(S), NEW m \in 0 .. Len(s)
  PROVE  /\ SubSeq(s, 1, m) \in Seq(S) /\ Len(SubSeq(s, 1, m)) = m
         /\ \A j \in 1 .. m : SubSeq(s, 1, m)[j] = s[j]
         /\ SubSeq(s, m + 1, Len(s)) \in Seq(S)
         /\ Len(SubSeq(s, m + 1, Len(s))) = Len(s) - m
         /\ \A j \in 1 .. Len(s) - m : SubSeq(s, m + 1, Len(s))[j] = s[m + j]
<1> DEFINE front == SubSeq(s, 1, m)
           back == SubSeq(s, m + 1, Len(s))
<1>1. Len(s) \in Nat /\ \A j \in 1 .. Len(s) : s[j] \in S
  BY LenProperties, ElementOfSeq
<1>2. /\ front \in Seq(S) /\ Len(front) = m
      /\ \A j \in 1 .. m : front[j] = s[j]
  <2>1. 1 \in Int /\ m \in Int /\ \A j \in 1 .. m : s[j] \in S
    BY <1>1
  <2>2. /\ front \in Seq(S) /\ Len(front) = IF 1 <= m THEN m - 1 + 1 ELSE 0
        /\ \A j \in 1 .. m - 1 + 1 : front[j] = s[1 + j - 1]
    BY <2>1, SubSeqProperties
  <2> HIDE DEF front
  <2>3. \A j \in 1 .. m : j \in 1 .. m - 1 + 1 /\ 1 + j - 1 = j
    BY <1>1
  <2> QED
    BY <1>1, <2>2, <2>3
<1>3. /\ back \in Seq(S) /\ Len(back) = Len(s) - m
      /\ \A j \in 1 .. Len(s) - m : back[j] = s[m + j]
  <2>1. m + 1 \in Int /\ Len(s) \in Int /\ \A j \in m + 1 .. Len(s) : s[j] \in S
    BY <1>1
  <2>2. /\ back \in Seq(S)
        /\ Len(back) = IF m + 1 <= Len(s) THEN Len(s) - (m + 1) + 1 ELSE 0
        /\ \A j \in 1 .. Len(s) - (m + 1) + 1 : back[j] = s[(m + 1) + j - 1]
    BY <2>1, SubSeqProperties
  <2> HIDE DEF back
  <2>3. \A j \in 1 .. Len(s) - m : j \in 1 .. Len(s) - (m + 1) + 1 /\ (m + 1) + j - 1 = m + j
    BY <1>1
  <2> QED
    BY <1>1, <2>2, <2>3
<1> QED
  BY <1>2, <1>3

\* r is s with e put in at place i.
HasInserted(r, s, i, e) ==
  /\ Len(r) = Len(s) + 1
  /\ \A j \in 1 .. Len(s) + 1 :
       r[j] = IF j < i THEN s[j] ELSE IF j = i THEN e ELSE s[j - 1]

LEMMA InsertAtInserts ==
  ASSUME NEW S, NEW s \in Seq(S), NEW i \in 1 .. Len(s) + 1, NEW e \in S
  PROVE  Lists!InsertAt(s, i, e) \in Seq(S) /\ HasInserted(Lists!InsertAt(s, i, e), s, i, e)
<1> DEFINE m == i - 1
           front == SubSeq(s, 1, m)
           back == SubSeq(s, m + 1, Len(s))
           middle == <<e>>
           t == front \o middle
<1>1. Len(s) \in Nat /\ m \in 0 .. Len(s) /\ m + 1 = i
  BY LenProperties
<1>2. Lists!InsertAt(s, i, e) = t \o back
  BY <1>1 DEF Lists!InsertAt
<1>3. middle \in Seq(S) /\ Len(middle) = 1 /\ middle[1] = e
  OBVIOUS
<1> HIDE DEF m, middle
<1>4. /\ front \in Seq(S) /\ Len(front) = m
      /\ \A j \in 1 .. m : front[j] = s[j]
      /\ back \in Seq(S) /\ Len(back) = Len(s) - m
      /\ \A j \in 1 .. Len(s) - m : back[j] = s[m + j]
  BY <1>1, CutPositions
<1> HIDE DEF front, back
<1>5. /\ t \in Seq(S) /\ Len(t) = m + 1
      /\ \A j \in 1 .. m + 1 : t[j] = IF j <= m THEN s[j] ELSE e
  <2>1. /\ t \in Seq(S) /\ Len(t) = Len(front) + Len(middle)
        /\ \A j \in 1 .. Len(front) + Len(middle) :
             t[j] = IF j <= Len(front) THEN front[j] ELSE middle[j - Len(front)]
    BY <1>3, <1>4, ConcatProperties
  <2> HIDE DEF t
  <2> QED
    BY <1>1, <1>3, <1>4, <2>1
<1> HIDE DEF t
<1>6. /\ t \o back \in Seq(S) /\ Len(t \o back) = Len(t) + Len(back)
      /\ \A j \in 1 .. Len(t) + Len(back) :
           (t \o back)[j] = IF j <= Len(t) THEN t[j] ELSE back[j - Len(t)]
  BY ZenonT(40), <1>4, <1>5, ConcatProperties
<1> DEFINE r == t \o back
<1>7. r \in Seq(S) /\ Len(r) = Len(s) + 1
  BY <1>1, <1>4, <1>5, <1>6
<1>8. ASSUME NEW j \in 1 .. Len(s) + 1
      PROVE  r[j] = IF j < i THEN s[j] ELSE IF j = i THEN e ELSE s[j - 1]
  <2>1. r[j] = IF j <= m + 1 THEN t[j] ELSE back[j - (m + 1)]
    BY <1>1, <1>4, <1>5, <1>6
  <2> HIDE DEF r
  <2>2. CASE j <= m + 1
    BY <1>1, <1>5, <2>1, <2>2
  <2>3. CASE j > m + 1
    <3>1. j - (m + 1) \in 1 .. Len(s) - m /\ m + (j - (m + 1)) = j - 1
      BY <1>1, <2>3
    <3>2. back[j - (m + 1)] = s[j - 1]
      BY <1>4, <3>1
    <3> QED
      BY <1>1, <2>1, <2>3, <3>2
  <2> QED
    BY <1>1, <2>2, <2>3
<1>9. HasInserted(r, s, i, e)
  BY <1>7, <1>8 DEF HasInserted
<1> QED
  BY <1>2, <1>7, <1>9

LEMMA InsertAtPositions ==
  ASSUME NEW S, NEW s \in Seq(S), NEW i \in 1 .. Len(s) + 1, NEW e \in S
  PROVE  /\ Lists!InsertAt(s, i, e) \in Seq(S)
         /\ Len(Lists!InsertAt(s, i, e)) = Len(s) + 1
         /\ \A j \in 1 .. Len(s) + 1 :
              Lists!InsertAt(s, i, e)[j] =
                IF j < i THEN s[j] ELSE IF j = i THEN e ELSE s[j - 1]
<1>1. Lists!InsertAt(s, i, e) \in Seq(S) /\ HasInserted(Lists!InsertAt(s, i, e), s, i, e)
  BY InsertAtInserts
<1> QED
  BY <1>1 DEF HasInserted

LEMMA RemoveAtPositions ==
  ASSUME NEW S, NEW s \in Seq(S), NEW i \in 1 .. Len(s)
  PROVE  /\ Lists!RemoveAt(s, i) \in Seq(S)
         /\ Len(Lists!RemoveAt(s, i)) = Len(s) - 1
         /\ \A j \in 1 .. Len(s) - 1 :
              Lists!RemoveAt(s, i)[j] = IF j < i THEN s[j] ELSE s[j + 1]
<1> DEFINE m == i - 1
           front == SubSeq(s, 1, m)
           back == SubSeq(s, i + 1, Len(s))
<1>1. Len(s) \in Nat /\ m \in 0 .. Len(s) /\ i \in 0 .. Len(s) /\ m = i - 1
  BY LenProperties
<1>2. Lists!RemoveAt(s, i) = front \o back
  BY DEF Lists!RemoveAt
<1> HIDE DEF m
<1>3. front \in Seq(S) /\ Len(front) = m /\ \A j \in 1 .. m : front[j] = s[j]
  BY <1>1, CutPositions
<1>4. /\ back \in Seq(S) /\ Len(back) = Len(s) - i
      /\ \A j \in 1 .. Len(s) - i : back[j] = s[i + j]
  BY <1>1, CutPositions
<1> HIDE DEF front, back
<1>5. /\ front \o back \in Seq(S) /\ Len(front \o back) = Len(front) + Len(back)
      /\ \A j \in 1 .. Len(front) + Len(back) :
           (front \o back)[j] = IF j <= Len(front) THEN front[j] ELSE back[j - Len(front)]
  BY <1>3, <1>4, ConcatProperties
<1>6. \A j \in 1 .. Len(s) - 1 :
        j <= m \/ (j - m \in 1 .. Len(s) - i /\ i + (j - m) = j + 1)
  BY <1>1
<1> QED
  BY <1>1, <1>2, <1>3, <1>4, <1>5, <1>6

LEMMA LeafInsertPositions ==
  ASSUME NEW S, NEW array \in Seq(S), NEW k, NEW v, Pair(k, v) \in S
  PROVE  /\ LeafInsert(array, k, v) \in Seq(S)
         /\ Len(LeafInsert(array, k, v)) = Len(array) + 1
BY LowerBoundRange, InsertAtPositions DEF LeafInsert

LEMMA LeafRemovePositions ==
  ASSUME NEW S, NEW array \in Seq(S), NEW k, Holds(array, k)
  PROVE  /\ LeafRemove(array, k) \in Seq(S)
         /\ Len(LeafRemove(array, k)) = Len(array) - 1
BY HeldPair, RemoveAtPositions DEF LeafRemove

-----------------------------------------------------------------------------
(***************************************************************************)
(* Internal pages: which children an array has, each once.                 *)
(***************************************************************************)

EachOnce(array) ==
  \A i, j \in 1 .. Len(array) : array[i].value = array[j].value => i = j

LEMMA PositionOfChild ==
  ASSUME NEW S, NEW array \in Seq(S), NEW c \in Children(array)
  PROVE  /\ PositionOf(array, c) \in 1 .. Len(array)
         /\ array[PositionOf(array, c)].value = c
<1> DEFINE I == {i \in 1 .. Len(array) : array[i].value = c}
           x == Lists!Min(I)
<1>1. I # {} /\ I \subseteq Nat
  BY LenProperties DEF Children
<1>2. PositionOf(array, c) = x
  BY <1>1 DEF PositionOf, Lists!SelectInSeq
<1>3. x = CHOOSE y \in I : \A z \in I : y <= z
  BY DEF Lists!Min
<1>4. \E y \in I : \A z \in I : y <= z
  BY <1>1, LeastExists
<1>5. x \in I
  <2> HIDE DEF I
  <2> QED
    BY <1>3, <1>4
<1> QED
  BY <1>2, <1>5

LEMMA PositionOfOnly ==
  ASSUME NEW S, NEW array \in Seq(S), EachOnce(array), NEW i \in 1 .. Len(array)
  PROVE  PositionOf(array, array[i].value) = i
<1>1. array[i].value \in Children(array)
  BY DEF Children
<1> QED
  BY <1>1, PositionOfChild DEF EachOnce

LEMMA InsertedChild ==
  ASSUME NEW S, NEW array \in Seq(S), EachOnce(array), NEW old \in Children(array),
         NEW new, new \notin Children(array), NEW k, Pair(k, new) \in S,
         NEW r, r = InsertNodeAfter(array, old, k, new)
  PROVE  /\ r \in Seq(S)
         /\ Len(r) = Len(array) + 1
         /\ EachOnce(r)
         /\ Children(r) = Children(array) \cup {new}
<1> DEFINE p == PositionOf(array, old) + 1
           e == Pair(k, new)
<1>1. Len(array) \in Nat /\ p \in 1 .. Len(array) + 1
  BY LenProperties, PositionOfChild
<1>2. e \in S /\ e.value = new
  BY DEF Pair
<1>3. r = Lists!InsertAt(array, p, e)
  BY DEF InsertNodeAfter
<1> HIDE DEF p, e
<1>4. /\ r \in Seq(S)
      /\ Len(r) = Len(array) + 1
      /\ \A j \in 1 .. Len(array) + 1 :
           r[j] = IF j < p THEN array[j] ELSE IF j = p THEN e ELSE array[j - 1]
  <2>1. e \in S
    BY <1>2
  <2>2. p \in 1 .. Len(array) + 1
    BY <1>1
  <2>3. /\ Lists!InsertAt(array, p, e) \in Seq(S)
        /\ Len(Lists!InsertAt(array, p, e)) = Len(array) + 1
        /\ \A j \in 1 .. Len(array) + 1 :
             Lists!InsertAt(array, p, e)[j] =
               IF j < p THEN array[j] ELSE IF j = p THEN e ELSE array[j - 1]
    BY <2>1, <2>2, InsertAtPositions
  <2> QED
    BY <1>3, <2>3
<1> DEFINE from(j) == IF j < p THEN j ELSE j - 1
<1>5. \A j \in 1 .. Len(r) :
        \/ j = p /\ r[j].value = new
        \/ j # p /\ from(j) \in 1 .. Len(array) /\ r[j].value = array[from(j)].value
  BY <1>1, <1>2, <1>4
<1>6. \A i \in 1 .. Len(array) : array[i].value # new
  BY DEF Children
<1>7. \A i, j \in 1 .. Len(r) : i # p /\ j # p /\ from(i) = from(j) => i = j
  BY <1>1, <1>4
<1>8. \A i \in 1 .. Len(array) : \E j \in 1 .. Len(r) : j # p /\ from(j) = i
  <2> TAKE i \in 1 .. Len(array)
  <2>1. CASE i < p
    <3>1. i \in 1 .. Len(r) /\ i # p /\ from(i) = i
      BY <1>1, <1>4, <2>1
    <3> QED
      BY <3>1
  <2>2. CASE i >= p
    <3>1. i + 1 \in 1 .. Len(r) /\ i + 1 # p /\ from(i + 1) = i
      BY <1>1, <1>4, <2>2
    <3> QED
      BY <3>1
  <2> QED
    BY <1>1, <2>1, <2>2
<1> HIDE DEF from
<1>9. EachOnce(r)
  BY SMTT(30), <1>5, <1>6, <1>7 DEF EachOnce
<1>10. Children(r) = Children(array) \cup {new}
  <2>1. Children(r) \subseteq Children(array) \cup {new}
    BY <1>5 DEF Children
  <2>2. p \in 1 .. Len(r) /\ r[p].value = new
    BY <1>1, <1>4, <1>5
  <2>3. Children(array) \subseteq Children(r)
    BY SMTT(30), <1>5, <1>8 DEF Children
  <2>4. new \in Children(r)
    BY <2>2 DEF Children
  <2> QED
    BY <2>1, <2>3, <2>4
<1> QED
  BY <1>4, <1>9, <1>10

LEMMA RemovedChild ==
  ASSUME NEW S, NEW array \in Seq(S), EachOnce(array), NEW c \in Children(array),
         NEW r, r = InternalRemove(array, PositionOf(array, c))
  PROVE  /\ r \in Seq(S)
         /\ Len(r) = Len(array) - 1
         /\ EachOnce(r)
         /\ Children(r) = Children(array) \ {c}
<1> DEFINE p == PositionOf(array, c)
           from(j) == IF j < p THEN j ELSE j + 1
<1>1. Len(array) \in Nat /\ p \in 1 .. Len(array) /\ array[p].value = c
  BY LenProperties, PositionOfChild
<1>2. r = Lists!RemoveAt(array, p)
  BY DEF InternalRemove
<1> HIDE DEF p
<1>3. /\ r \in Seq(S)
      /\ Len(r) = Len(array) - 1
      /\ \A j \in 1 .. Len(array) - 1 : r[j] = IF j < p THEN array[j] ELSE array[j + 1]
  BY <1>1, <1>2, RemoveAtPositions
<1>4. \A j \in 1 .. Len(r) :
        from(j) \in 1 .. Len(array) /\ from(j) # p /\ r[j].value = array[from(j)].value
  BY <1>1, <1>3
<1>5. \A i, j \in 1 .. Len(r) : from(i) = from(j) => i = j
  BY <1>1, <1>3
<1>6. \A i \in 1 .. Len(array) : i # p => \E j \in 1 .. Len(r) : from(j) = i
  <2> TAKE i \in 1 .. Len(array)
  <2>1. CASE i < p
    <3>1. i \in 1 .. Len(r) /\ from(i) = i
      BY <1>1, <1>3, <2>1
    <3> QED
      BY <3>1
  <2>2. CASE i > p
    <3>1. i - 1 \in 1 .. Len(r) /\ from(i - 1) = i
      BY <1>1, <1>3, <2>2
    <3> QED
      BY <3>1
  <2> QED
    BY <1>1, <2>1, <2>2
<1> HIDE DEF from
<1>7. EachOnce(r)
  BY <1>4, <1>5 DEF EachOnce
<1>8. Children(r) = Children(array) \ {c}
  <2>1. ASSUME NEW x \in Children(r)
        PROVE  x \in Children(array) \ {c}
    <3>1. PICK j \in 1 .. Len(r) : r[j].value = x
      BY DEF Children
    <3>2. from(j) \in 1 .. Len(array) /\ from(j) # p /\ array[from(j)].value = x
      BY <1>4, <3>1
    <3>3. x # c
      BY <1>1, <3>2 DEF EachOnce
    <3> QED
      BY <3>2, <3>3 DEF Children
  <2>2. ASSUME NEW x \in Children(array), x # c
        PROVE  x \in Children(r)
    <3>1. PICK i \in 1 .. Len(array) : array[i].value = x
      BY DEF Children
    <3>2. i # p
      BY <1>1, <2>2, <3>1
    <3>3. PICK j \in 1 .. Len(r) : from(j) = i
      BY <1>6, <3>2
    <3>4. r[j].value = x
      BY <1>4, <3>1, <3>3
    <3> QED
      BY <3>4 DEF Children
  <2> QED
    BY <2>1, <2>2
<1> QED
  BY <1>3, <1>7, <1>8

\* The two parts of an array that is cut behind position m.
FrontOf(array, m) == SubSeq(array, 1, m)
BackOf(array, m) == SubSeq(array, m + 1, Len(array))

\* Each child of an array that is cut in two is in one of the parts.
LEMMA CutChildren ==
  ASSUME NEW S, NEW array \in Seq(S), EachOnce(array), NEW m \in 0 .. Len(array),
         NEW left, left = FrontOf(array, m), NEW right, right = BackOf(array, m)
  PROVE  /\ left \in Seq(S) /\ right \in Seq(S)
         /\ Len(left) = m /\ Len(right) = Len(array) - m
         /\ EachOnce(left) /\ EachOnce(right)
         /\ Children(left) \cup Children(right) = Children(array)
         /\ Children(left) \cap Children(right) = {}
<1>1. Len(array) \in Nat
  BY LenProperties
<1>2. /\ left \in Seq(S) /\ Len(left) = m
      /\ \A j \in 1 .. m : left[j] = array[j]
      /\ right \in Seq(S) /\ Len(right) = Len(array) - m
      /\ \A j \in 1 .. Len(array) - m : right[j] = array[m + j]
  BY CutPositions DEF FrontOf, BackOf
<1>3. \A j \in 1 .. Len(left) : j \in 1 .. Len(array) /\ j <= m
  BY <1>1, <1>2
<1>4. \A j \in 1 .. Len(right) : m + j \in 1 .. Len(array) /\ m + j > m
  BY <1>1, <1>2
<1>5. \A i \in 1 .. Len(array) :
        \/ i \in 1 .. Len(left)
        \/ i - m \in 1 .. Len(right) /\ right[i - m] = array[i]
  <2> TAKE i \in 1 .. Len(array)
  <2>1. CASE i > m
    <3>1. i - m \in 1 .. Len(array) - m /\ m + (i - m) = i
      BY <1>1, <2>1
    <3> QED
      BY <1>2, <3>1
  <2> QED
    BY <1>1, <1>2, <2>1
<1>6. EachOnce(left)
  BY <1>2, <1>3 DEF EachOnce
<1>7. EachOnce(right)
  <2>1. \A i, j \in 1 .. Len(right) : m + i = m + j => i = j
    BY <1>1, <1>2
  <2> QED
    BY SMTT(30), <1>2, <1>4, <2>1 DEF EachOnce
<1>8. Children(left) \cup Children(right) = Children(array)
  <2>1. Children(left) \subseteq Children(array)
    BY <1>2, <1>3 DEF Children
  <2>2. ASSUME NEW x \in Children(right)
        PROVE  x \in Children(array)
    <3>1. PICK j \in 1 .. Len(right) : right[j].value = x
      BY DEF Children
    <3>2. m + j \in 1 .. Len(array) /\ array[m + j].value = x
      BY <1>2, <1>4, <3>1
    <3> QED
      BY <3>2 DEF Children
  <2>3. ASSUME NEW x \in Children(array)
        PROVE  x \in Children(left) \cup Children(right)
    <3>1. PICK i \in 1 .. Len(array) : array[i].value = x
      BY DEF Children
    <3> QED
      BY <1>2, <1>5, <3>1 DEF Children
  <2> QED
    BY <2>1, <2>2, <2>3
<1>9. Children(left) \cap Children(right) = {}
  <2> SUFFICES ASSUME NEW x \in Children(left), x \in Children(right)
               PROVE  FALSE
    OBVIOUS
  <2>1. PICK i \in 1 .. Len(left) : left[i].value = x
    BY DEF Children
  <2>2. PICK j \in 1 .. Len(right) : right[j].value = x
    BY DEF Children
  <2>3. array[i].value = x /\ array[m + j].value = x
    BY <1>2, <2>1, <2>2
  <2> QED
    BY <1>3, <1>4, <2>3 DEF EachOnce
<1> QED
  BY <1>2, <1>6, <1>7, <1>8, <1>9

LEMMA SetKeyKeepsChildren ==
  ASSUME NEW S, NEW array \in Seq(S), NEW i \in 1 .. Len(array), NEW k,
         Pair(k, array[i].value) \in S,
         array[i] = Pair(array[i].key, array[i].value),
         NEW r, r = SetKeyAt(array, i, k)
  PROVE  /\ r \in Seq(S)
         /\ Len(r) = Len(array)
         /\ \A j \in 1 .. Len(array) : r[j].value = array[j].value
         /\ EachOnce(array) => EachOnce(r)
         /\ Children(r) = Children(array)
<1> DEFINE e == Pair(k, array[i].value)
<1>1. [array[i] EXCEPT !.key = k] = e
  BY DEF Pair
<1>2. r = [array EXCEPT ![i] = e]
  BY <1>1 DEF SetKeyAt
<1>3. e \in S /\ e.value = array[i].value
  BY DEF Pair
<1> HIDE DEF e
<1>4. /\ r \in Seq(S)
      /\ Len(r) = Len(array)
      /\ \A j \in 1 .. Len(array) : r[j] = IF j = i THEN e ELSE array[j]
  BY <1>2, <1>3, ExceptSeq
<1>5. \A j \in 1 .. Len(array) : r[j].value = array[j].value
  BY <1>3, <1>4
<1> QED
  BY <1>4, <1>5 DEF EachOnce, Children

\* MoveAllTo, MoveFirstToEndOf and MoveLastToFrontOf put arrays behind each other.
Joined(s, t) == s \o t

LEMMA JoinedPositions ==
  ASSUME NEW S, NEW s \in Seq(S), NEW t \in Seq(S), NEW r, r = Joined(s, t)
  PROVE  /\ r \in Seq(S) /\ Len(r) = Len(s) + Len(t)
         /\ \A i \in 1 .. Len(s) : i \in 1 .. Len(r) /\ r[i] = s[i]
         /\ \A i \in 1 .. Len(t) : Len(s) + i \in 1 .. Len(r) /\ r[Len(s) + i] = t[i]
         /\ \A i \in 1 .. Len(r) : i \notin 1 .. Len(s) =>
              i - Len(s) \in 1 .. Len(t) /\ r[i] = t[i - Len(s)]
<1>1. Len(s) \in Nat /\ Len(t) \in Nat
  BY LenProperties
<1>2. /\ r \in Seq(S) /\ Len(r) = Len(s) + Len(t)
      /\ \A i \in 1 .. Len(s) + Len(t) :
           r[i] = IF i <= Len(s) THEN s[i] ELSE t[i - Len(s)]
  BY ConcatProperties DEF Joined
<1>3. ASSUME NEW i \in 1 .. Len(s)
      PROVE  i \in 1 .. Len(r) /\ r[i] = s[i]
  BY <1>1, <1>2
<1>4. ASSUME NEW i \in 1 .. Len(t)
      PROVE  Len(s) + i \in 1 .. Len(r) /\ r[Len(s) + i] = t[i]
  <2>1. /\ Len(s) + i \in 1 .. Len(s) + Len(t)
        /\ ~(Len(s) + i <= Len(s)) /\ (Len(s) + i) - Len(s) = i
    BY <1>1
  <2> QED
    BY <1>2, <2>1
<1>5. ASSUME NEW i \in 1 .. Len(r), i \notin 1 .. Len(s)
      PROVE  i - Len(s) \in 1 .. Len(t) /\ r[i] = t[i - Len(s)]
  <2>1. i \in 1 .. Len(s) + Len(t) /\ ~(i <= Len(s)) /\ i - Len(s) \in 1 .. Len(t)
    BY <1>1, <1>2, <1>5
  <2> QED
    BY <1>2, <2>1
<1> QED
  BY <1>2, <1>3, <1>4, <1>5

LEMMA JoinedChildren ==
  ASSUME NEW S, NEW s \in Seq(S), NEW t \in Seq(S), NEW r, r = Joined(s, t),
         EachOnce(s), EachOnce(t), Children(s) \cap Children(t) = {}
  PROVE  EachOnce(r) /\ Children(r) = Children(s) \cup Children(t)
<1>1. Len(s) \in Nat /\ Len(t) \in Nat
  BY LenProperties
<1>2. /\ Len(r) = Len(s) + Len(t)
      /\ \A i \in 1 .. Len(s) : i \in 1 .. Len(r) /\ r[i] = s[i]
      /\ \A i \in 1 .. Len(t) : Len(s) + i \in 1 .. Len(r) /\ r[Len(s) + i] = t[i]
      /\ \A i \in 1 .. Len(r) : i \notin 1 .. Len(s) =>
           i - Len(s) \in 1 .. Len(t) /\ r[i] = t[i - Len(s)]
  BY JoinedPositions
<1>3. ASSUME NEW x \in Children(r)
      PROVE  x \in Children(s) \cup Children(t)
  <2>1. PICK i \in 1 .. Len(r) : r[i].value = x
    BY DEF Children
  <2> QED
    BY <1>2, <2>1 DEF Children
<1>4. ASSUME NEW x \in Children(s)
      PROVE  x \in Children(r)
  <2>1. PICK i \in 1 .. Len(s) : s[i].value = x
    BY DEF Children
  <2> QED
    BY <1>2, <2>1 DEF Children
<1>5. ASSUME NEW x \in Children(t)
      PROVE  x \in Children(r)
  <2>1. PICK i \in 1 .. Len(t) : t[i].value = x
    BY DEF Children
  <2>2. Len(s) + i \in 1 .. Len(r) /\ r[Len(s) + i].value = x
    BY <1>2, <2>1
  <2> QED
    BY <2>2 DEF Children
<1>6. ASSUME NEW i \in 1 .. Len(r), NEW j \in 1 .. Len(r), r[i].value = r[j].value
      PROVE  i = j
  <2>1. CASE i \in 1 .. Len(s) /\ j \in 1 .. Len(s)
    BY <1>2, <1>6, <2>1 DEF EachOnce
  <2>2. CASE i \in 1 .. Len(s) /\ j \notin 1 .. Len(s)
    <3>1. r[i].value \in Children(s) /\ r[j].value \in Children(t)
      BY <1>2, <2>2 DEF Children
    <3> QED
      BY <1>6, <3>1
  <2>3. CASE i \notin 1 .. Len(s) /\ j \in 1 .. Len(s)
    <3>1. r[i].value \in Children(t) /\ r[j].value \in Children(s)
      BY <1>2, <2>3 DEF Children
    <3> QED
      BY <1>6, <3>1
  <2>4. CASE i \notin 1 .. Len(s) /\ j \notin 1 .. Len(s)
    <3>1. PICK x \in 1 .. Len(t) : x = i - Len(s) /\ r[i] = t[x]
      BY <1>2, <2>4
    <3>2. PICK y \in 1 .. Len(t) : y = j - Len(s) /\ r[j] = t[y]
      BY <1>2, <2>4
    <3>3. x = y
      BY <1>6, <3>1, <3>2 DEF EachOnce
    <3> QED
      BY <1>1, <1>2, <3>1, <3>2, <3>3
  <2> QED
    BY <2>1, <2>2, <2>3, <2>4
<1>7. Children(r) = Children(s) \cup Children(t)
  BY <1>3, <1>4, <1>5
<1> QED
  BY <1>6, <1>7 DEF EachOnce

\* One pair, as an array.
LEMMA OnePair ==
  ASSUME NEW S, NEW e \in S
  PROVE  /\ <<e>> \in Seq(S) /\ Len(<<e>>) = 1 /\ <<e>>[1] = e
         /\ EachOnce(<<e>>) /\ Children(<<e>>) = {e.value}
<1> DEFINE s == <<e>>
<1>1. s \in Seq(S) /\ Len(s) = 1 /\ s[1] = e
  OBVIOUS
<1> HIDE DEF s
<1>2. \A i \in 1 .. Len(s) : i = 1
  BY <1>1
<1>3. 1 \in 1 .. Len(s)
  BY <1>1
<1>4. EachOnce(s)
  BY <1>2 DEF EachOnce
<1>5. Children(s) = {e.value}
  BY <1>1, <1>2, <1>3 DEF Children
<1> QED
  BY <1>1, <1>4, <1>5 DEF s

\* The last pair leaves.
AllButLast(array) == SubSeq(array, 1, Len(array) - 1)

LEMMA WithoutLast ==
  ASSUME NEW S, NEW array \in Seq(S), array # <<>>, NEW r, r = AllButLast(array)
  PROVE  /\ r \in Seq(S) /\ Len(r) = Len(array) - 1
         /\ \A j \in 1 .. Len(array) - 1 : r[j] = array[j]
         /\ Len(array) \in 1 .. Len(array) /\ array[Len(array)] \in S
         /\ EachOnce(array) =>
              EachOnce(r) /\ Children(r) = Children(array) \ {array[Len(array)].value}
<1> DEFINE n == Len(array)
<1>1. n \in Nat \ {0} /\ n - 1 \in 0 .. n /\ n \in 1 .. n
  BY EmptySeq, LenProperties
<1>2. array[n] \in S
  BY <1>1, ElementOfSeq
<1>3. /\ r \in Seq(S) /\ Len(r) = n - 1
      /\ \A j \in 1 .. n - 1 : r[j] = array[j]
  <2> DEFINE m == n - 1
  <2>1. m \in 0 .. Len(array) /\ r = SubSeq(array, 1, m)
    BY <1>1 DEF AllButLast
  <2> HIDE DEF m
  <2>2. /\ r \in Seq(S) /\ Len(r) = m
        /\ \A j \in 1 .. m : r[j] = array[j]
    BY <2>1, CutPositions
  <2> QED
    BY <2>2 DEF m
<1> HIDE DEF n
<1>4. ASSUME EachOnce(array)
      PROVE  EachOnce(r) /\ Children(r) = Children(array) \ {array[n].value}
  <2>1. \A j \in 1 .. n - 1 : j \in 1 .. n /\ j # n
    BY <1>1
  <2>2. \A j \in 1 .. n : j = n \/ j \in 1 .. n - 1
    BY <1>1
  <2>3. n = Len(array)
    BY DEF n
  <2>4. EachOnce(r)
    BY <1>3, <1>4, <2>1, <2>3 DEF EachOnce
  <2>5. ASSUME NEW x \in Children(r)
        PROVE  x \in Children(array) /\ x # array[n].value
    <3>1. PICK j \in 1 .. n - 1 : r[j].value = x
      BY <1>3 DEF Children
    <3>2. j \in 1 .. n /\ j # n /\ array[j].value = x
      BY <1>3, <2>1, <3>1
    <3> QED
      BY <1>1, <1>4, <2>3, <3>2 DEF EachOnce, Children
  <2>6. ASSUME NEW x \in Children(array), x # array[n].value
        PROVE  x \in Children(r)
    <3>1. PICK j \in 1 .. n : array[j].value = x
      BY <2>3 DEF Children
    <3>2. j \in 1 .. n - 1 /\ r[j].value = x
      BY <1>3, <2>2, <2>6, <3>1
    <3> QED
      BY <1>3, <3>2 DEF Children
  <2> QED
    BY <2>4, <2>5, <2>6
<1> QED
  BY <1>1, <1>2, <1>3, <1>4 DEF n

\* The first pair leaves.
AllButFirst(array) == Tail(array)

LEMMA WithoutFirst ==
  ASSUME NEW S, NEW array \in Seq(S), array # <<>>, NEW r, r = AllButFirst(array)
  PROVE  /\ r \in Seq(S) /\ Len(r) = Len(array) - 1
         /\ \A j \in 1 .. Len(array) - 1 : r[j] = array[j + 1]
         /\ 1 \in 1 .. Len(array) /\ array[1] \in S
         /\ EachOnce(array) =>
              EachOnce(r) /\ Children(r) = Children(array) \ {array[1].value}
<1> DEFINE n == Len(array)
<1>1. n \in Nat \ {0} /\ 1 \in 1 .. n /\ n = Len(array)
  BY EmptySeq, LenProperties
<1>2. array[1] \in S
  BY <1>1, ElementOfSeq
<1>3. /\ r \in Seq(S) /\ Len(r) = n - 1
      /\ \A j \in 1 .. n - 1 : r[j] = array[j + 1]
  BY HeadTailProperties DEF AllButFirst
<1> HIDE DEF n
<1>4. ASSUME EachOnce(array)
      PROVE  EachOnce(r) /\ Children(r) = Children(array) \ {array[1].value}
  <2>1. \A j \in 1 .. n - 1 : j + 1 \in 1 .. n /\ j + 1 # 1
    BY <1>1
  <2>2. \A j \in 1 .. n : j = 1 \/ (j - 1 \in 1 .. n - 1 /\ (j - 1) + 1 = j)
    BY <1>1
  <2>3. \A i, j \in 1 .. n - 1 : i + 1 = j + 1 => i = j
    BY <1>1
  <2>4. EachOnce(r)
    BY <1>1, <1>3, <1>4, <2>1, <2>3 DEF EachOnce
  <2>5. ASSUME NEW x \in Children(r)
        PROVE  x \in Children(array) /\ x # array[1].value
    <3>1. PICK j \in 1 .. n - 1 : r[j].value = x
      BY <1>3 DEF Children
    <3>2. j + 1 \in 1 .. n /\ j + 1 # 1 /\ array[j + 1].value = x
      BY <1>3, <2>1, <3>1
    <3> QED
      BY <1>1, <1>4, <3>2 DEF EachOnce, Children
  <2>6. ASSUME NEW x \in Children(array), x # array[1].value
        PROVE  x \in Children(r)
    <3>1. PICK j \in 1 .. n : array[j].value = x
      BY <1>1 DEF Children
    <3>2. j - 1 \in 1 .. n - 1 /\ r[j - 1].value = x
      BY <1>3, <2>2, <2>6, <3>1
    <3> QED
      BY <1>3, <3>2 DEF Children
  <2> QED
    BY <2>4, <2>5, <2>6
<1> QED
  BY <1>1, <1>2, <1>3, <1>4

\* Children do not depend on keys.
LEMMA SameChildren ==
  ASSUME NEW S, NEW array \in Seq(S), NEW r, Len(r) = Len(array),
         \A i \in 1 .. Len(array) : r[i].value = array[i].value
  PROVE  Children(r) = Children(array) /\ (EachOnce(array) => EachOnce(r))
<1>1. Children(r) = Children(array)
  BY DEF Children
<1>2. EachOnce(array) => EachOnce(r)
  BY DEF EachOnce
<1> QED
  BY <1>1, <1>2

-----------------------------------------------------------------------------
(***************************************************************************)
(* The two loops of a leaf split.                                          *)
(***************************************************************************)

\* What one turn of the loop makes of the pairs sorted so far, and of the pairs filled
\* in so far.
SortStep(pairs, i, front) ==
  LET behind == {j \in 1 .. Len(front) : front[j].key <= pairs[i].key}
  IN  Lists!InsertAt(front, Cardinality(behind) + 1, pairs[i])

FillStep(pairs, i, array) ==
  IF Holds(array, pairs[i].key) THEN array
  ELSE LeafInsert(array, pairs[i].key, pairs[i].value)

\* f leads through the turns of the sorting loop.
Sorts(f, pairs, S) ==
  /\ f[0] = <<>>
  /\ \A i \in 0 .. Len(pairs) : f[i] \in Seq(S) /\ Len(f[i]) = i
  /\ \A i \in 1 .. Len(pairs) : f[i] = SortStep(pairs, i, f[i - 1])

\* What the sorting loop starts from.
WithPair(array, k, v) == Append(array, Pair(k, v))

LEMMA SortedSteps ==
  ASSUME NEW S, NEW array \in Seq(S), NEW k, NEW v, Pair(k, v) \in S
  PROVE  /\ WithPair(array, k, v) \in Seq(S)
         /\ Len(WithPair(array, k, v)) = Len(array) + 1
         /\ \E f : /\ Sorts(f, WithPair(array, k, v), S)
                   /\ WithPairSorted(array, k, v) = f[Len(array) + 1]
<1> DEFINE pairs == Append(array, Pair(k, v))
           n == Len(pairs)
           X == Seq(S)
           Rank(i, front) ==
             Cardinality({j \in 1 .. Len(front) : front[j].key <= pairs[i].key}) + 1
           Step(i, front) == Lists!InsertAt(front, Rank(i, front), pairs[i])
           g == [y \in (1 .. n) \X X |-> Step(y[1], y[2])]
           Sorted == CHOOSE f : f = [i \in 0 .. n |-> IF i = 0 THEN <<>> ELSE Step(i, f[i - 1])]
<1>1. pairs \in X /\ n = Len(array) + 1 /\ n \in Nat
  BY AppendProperties, LenProperties
<1>2. WithPairSorted(array, k, v) = Sorted[n]
  BY DEF WithPairSorted
<1>3. \A i \in 1 .. n : pairs[i] \in S
  BY <1>1, ElementOfSeq
<1>s. \A i \in 1 .. n : \A front : Step(i, front) = SortStep(pairs, i, front)
  BY DEF SortStep
<1>0. WithPair(array, k, v) = pairs
  BY DEF WithPair
<1> HIDE DEF pairs, n
<1>4. ASSUME NEW i \in 1 .. n, NEW front \in X
      PROVE  Rank(i, front) \in 1 .. Len(front) + 1
  <2> DEFINE behind == {j \in 1 .. Len(front) : front[j].key <= pairs[i].key}
  <2>1. Len(front) \in Nat
    BY LenProperties
  <2>2. IsFiniteSet(1 .. Len(front)) /\ Cardinality(1 .. Len(front)) = Len(front)
    <3>1. 1 \in Int /\ Len(front) \in Int
      BY <2>1
    <3>2. /\ IsFiniteSet(1 .. Len(front))
          /\ Cardinality(1 .. Len(front)) = IF 1 > Len(front) THEN 0 ELSE Len(front) - 1 + 1
      BY <3>1, FS_Interval
    <3> QED
      BY <2>1, <3>2
  <2>3. behind \in SUBSET (1 .. Len(front))
    OBVIOUS
  <2> HIDE DEF behind
  <2>4. Cardinality(behind) \in Nat /\ Cardinality(behind) <= Len(front)
    BY <2>2, <2>3, FS_Subset, FS_CardinalityType
  <2>5. Rank(i, front) = Cardinality(behind) + 1
    BY DEF behind
  <2> HIDE DEF Rank
  <2> QED
    BY <2>1, <2>4, <2>5
<1> HIDE DEF Rank
<1>5. ASSUME NEW i \in 1 .. n, NEW front \in X
      PROVE  Step(i, front) \in X /\ Len(Step(i, front)) = Len(front) + 1
  <2>1. PICK rank, e : rank = Rank(i, front) /\ e = pairs[i]
    OBVIOUS
  <2>2. rank \in 1 .. Len(front) + 1
    BY <1>4, <2>1
  <2>3. e \in S
    BY <1>3, <2>1
  <2>4. Step(i, front) = Lists!InsertAt(front, rank, e)
    BY <2>1
  <2> HIDE DEF Step
  <2>5. front \in Seq(S)
    OBVIOUS
  <2>6. /\ Lists!InsertAt(front, rank, e) \in Seq(S)
        /\ Len(Lists!InsertAt(front, rank, e)) = Len(front) + 1
    BY ONLY <2>2, <2>3, <2>5, InsertAtPositions
  <2> QED
    BY <2>4, <2>6
<1> HIDE DEF Step
<1>6. g \in [(1 .. n) \X X -> X]
  BY <1>5
<1>7. \A i \in 1 .. n : \A x \in X : g[<<i, x>>] = Step(i, x)
  OBVIOUS
<1>8. <<>> \in X /\ Len(<<>>) = 0
  BY EmptySeq
<1>9. Sorted = CHOOSE f : f = [i \in 0 .. n |-> IF i = 0 THEN <<>> ELSE Step(i, f[i - 1])]
  OBVIOUS
<1> HIDE DEF X, g, Sorted
<1>10. PICK h : Course(h, X, <<>>, n, g)
  <2> DEFINE x0 == <<>>
  <2>1. x0 \in X
    BY <1>8
  <2> HIDE DEF x0
  <2>2. \E h : Course(h, X, x0, n, g)
    BY <1>1, <1>6, <2>1, CourseExists
  <2> QED
    BY <2>2 DEF x0
<1>11. \A i \in 1 .. n : h[i] = Step(i, h[i - 1])
  <2> TAKE i \in 1 .. n
  <2>1. i - 1 \in 0 .. n
    BY <1>1
  <2>2. h[i - 1] \in X
    BY <1>10, <2>1 DEF Course
  <2> QED
    BY <1>7, <1>10, <2>2 DEF Course
<1>12. Sorted = [i \in 0 .. n |-> IF i = 0 THEN <<>> ELSE Step(i, Sorted[i - 1])]
  <2>1. h = [i \in 0 .. n |-> IF i = 0 THEN <<>> ELSE Step(i, h[i - 1])]
    BY <1>10, <1>11 DEF Course
  <2> QED
    BY <1>9, <2>1
<1>13. Sorted[0] = <<>> /\ \A i \in 1 .. n : Sorted[i] = Step(i, Sorted[i - 1])
  BY <1>1, <1>12
<1> DEFINE Good == {i \in 0 .. n : Sorted[i] \in X /\ Len(Sorted[i]) = i}
           id == [i \in 0 .. n |-> i]
<1>14. id[0] \in Good
  BY <1>1, <1>8, <1>13
<1>15. \A i \in 1 .. n : id[i - 1] \in Good => id[i] \in Good
  <2> SUFFICES ASSUME NEW i \in 1 .. n, id[i - 1] \in Good
               PROVE  id[i] \in Good
    OBVIOUS
  <2>1. i - 1 \in 0 .. n /\ id[i - 1] = i - 1
    BY <1>1
  <2>2. Sorted[i - 1] \in X /\ Len(Sorted[i - 1]) = i - 1
    BY <2>1
  <2>3. Sorted[i] \in X /\ Len(Sorted[i]) = (i - 1) + 1
    BY <1>5, <1>13, <2>2
  <2> QED
    BY <1>1, <2>3
<1>16. \A i \in 0 .. n : id[i] \in Good
  <2> HIDE DEF id, Good
  <2> QED
    BY <1>1, <1>14, <1>15, UpToInduction
<1>17. \A i \in 0 .. n : Sorted[i] \in X /\ Len(Sorted[i]) = i
  <2>1. \A i \in 0 .. n : id[i] = i
    BY <1>1
  <2> QED
    BY <1>16, <2>1
<1>18. \A i \in 1 .. n : Sorted[i] = SortStep(pairs, i, Sorted[i - 1])
  BY <1>13, <1>s
<1>19. pairs \in Seq(S) /\ n = Len(array) + 1 /\ n = Len(pairs) /\ X = Seq(S)
  BY <1>1 DEF X, n
<1>20. \A i \in 0 .. Len(pairs) : Sorted[i] \in Seq(S) /\ Len(Sorted[i]) = i
  BY <1>17, <1>19
<1>21. \A i \in 1 .. Len(pairs) : Sorted[i] = SortStep(pairs, i, Sorted[i - 1])
  BY <1>18, <1>19
<1> HIDE DEF X
<1>22. Sorts(Sorted, pairs, S)
  BY <1>13, <1>20, <1>21 DEF Sorts
<1>23. WithPairSorted(array, k, v) = Sorted[Len(array) + 1]
  BY <1>2, <1>19
<1> QED
  BY <1>0, <1>19, <1>22, <1>23

LEMMA SortedPositions ==
  ASSUME NEW S, NEW array \in Seq(S), NEW k, NEW v, Pair(k, v) \in S
  PROVE  /\ WithPairSorted(array, k, v) \in Seq(S)
         /\ Len(WithPairSorted(array, k, v)) = Len(array) + 1
<1>1. PICK n : n = Len(array) + 1
  OBVIOUS
<1>2. Len(WithPair(array, k, v)) = n /\ n \in 0 .. n
  BY <1>1, LenProperties, SortedSteps
<1>3. PICK f : Sorts(f, WithPair(array, k, v), S) /\ WithPairSorted(array, k, v) = f[n]
  BY <1>1, SortedSteps
<1>4. f[n] \in Seq(S) /\ Len(f[n]) = n
  BY <1>2, <1>3 DEF Sorts
<1> QED
  BY <1>1, <1>3, <1>4

LEMMA RefilledSteps ==
  ASSUME NEW S, \A x \in S : x = Pair(x.key, x.value), NEW pairs \in Seq(S)
  PROVE  \E f :
           /\ f[0] = <<>> /\ Refilled(pairs) = f[Len(pairs)]
           /\ \A i \in 0 .. Len(pairs) :
                /\ f[i] \in Seq(S) /\ Len(f[i]) <= i
                /\ i > 0 => Len(f[i]) >= 1
           /\ \A i \in 1 .. Len(pairs) : f[i] = FillStep(pairs, i, f[i - 1])
<1> DEFINE n == Len(pairs)
           X == Seq(S)
           Step(i, array) == IF Holds(array, pairs[i].key) THEN array
                             ELSE LeafInsert(array, pairs[i].key, pairs[i].value)
           g == [y \in (1 .. n) \X X |-> Step(y[1], y[2])]
           Filled == CHOOSE f : f = [i \in 0 .. n |-> IF i = 0 THEN <<>> ELSE Step(i, f[i - 1])]
<1>1. n \in Nat /\ \A i \in 1 .. n : pairs[i] \in S
  BY LenProperties, ElementOfSeq
<1>2. Refilled(pairs) = Filled[n]
  BY DEF Refilled
<1>s. \A i \in 1 .. n : \A array : Step(i, array) = FillStep(pairs, i, array)
  BY DEF FillStep
<1> HIDE DEF n
<1>3. ASSUME NEW i \in 1 .. n, NEW array \in X
      PROVE  /\ Step(i, array) \in X
             /\ Len(Step(i, array)) <= Len(array) + 1
             /\ Len(Step(i, array)) >= 1
  <2>1. Len(array) \in Nat
    BY LenProperties
  <2>2. CASE Holds(array, pairs[i].key)
    <3>1. Step(i, array) = array
      BY <2>2
    <3>2. Len(array) >= 1
      BY <2>1, <2>2, HeldPair
    <3> QED
      BY <2>1, <3>1, <3>2
  <2>3. CASE ~Holds(array, pairs[i].key)
    <3> DEFINE k == pairs[i].key
               v == pairs[i].value
    <3>1. Pair(k, v) \in S
      BY <1>1
    <3>2. Step(i, array) = LeafInsert(array, k, v)
      BY <2>3
    <3> HIDE DEF k, v, Step
    <3>3. LeafInsert(array, k, v) \in Seq(S) /\ Len(LeafInsert(array, k, v)) = Len(array) + 1
      BY <3>1, LeafInsertPositions
    <3> QED
      BY <2>1, <3>2, <3>3
  <2> QED
    BY <2>2, <2>3
<1> HIDE DEF Step
<1>4. g \in [(1 .. n) \X X -> X]
  BY <1>3
<1>5. \A i \in 1 .. n : \A x \in X : g[<<i, x>>] = Step(i, x)
  OBVIOUS
<1>6. <<>> \in X /\ Len(<<>>) = 0
  BY EmptySeq
<1>7. Filled = CHOOSE f : f = [i \in 0 .. n |-> IF i = 0 THEN <<>> ELSE Step(i, f[i - 1])]
  OBVIOUS
<1>8. \A s \in X : Len(s) \in Nat
  BY LenProperties
<1> HIDE DEF X, g, Filled
<1>9. PICK h : Course(h, X, <<>>, n, g)
  <2> DEFINE x0 == <<>>
  <2>1. x0 \in X
    BY <1>6
  <2> HIDE DEF x0
  <2>2. \E h : Course(h, X, x0, n, g)
    BY <1>1, <1>4, <2>1, CourseExists
  <2> QED
    BY <2>2 DEF x0
<1>10. \A i \in 1 .. n : h[i] = Step(i, h[i - 1])
  <2> TAKE i \in 1 .. n
  <2>1. i - 1 \in 0 .. n
    BY <1>1
  <2>2. h[i - 1] \in X
    BY <1>9, <2>1 DEF Course
  <2> QED
    BY <1>5, <1>9, <2>2 DEF Course
<1>11. Filled = [i \in 0 .. n |-> IF i = 0 THEN <<>> ELSE Step(i, Filled[i - 1])]
  <2>1. h = [i \in 0 .. n |-> IF i = 0 THEN <<>> ELSE Step(i, h[i - 1])]
    BY <1>9, <1>10 DEF Course
  <2> QED
    BY <1>7, <2>1
<1>12. Filled[0] = <<>> /\ \A i \in 1 .. n : Filled[i] = Step(i, Filled[i - 1])
  BY <1>1, <1>11
<1> DEFINE Good == {i \in 0 .. n : /\ Filled[i] \in X
                                   /\ Len(Filled[i]) <= i
                                   /\ i > 0 => Len(Filled[i]) >= 1}
           id == [i \in 0 .. n |-> i]
<1>13. id[0] \in Good
  BY <1>1, <1>6, <1>12
<1>14. \A i \in 1 .. n : id[i - 1] \in Good => id[i] \in Good
  <2> SUFFICES ASSUME NEW i \in 1 .. n, id[i - 1] \in Good
               PROVE  id[i] \in Good
    OBVIOUS
  <2>1. i - 1 \in 0 .. n /\ id[i - 1] = i - 1
    BY <1>1
  <2>2. Filled[i - 1] \in X /\ Len(Filled[i - 1]) <= i - 1
    BY <2>1
  <2>3. /\ Filled[i] \in X
        /\ Len(Filled[i]) <= Len(Filled[i - 1]) + 1
        /\ Len(Filled[i]) >= 1
    BY <1>3, <1>12, <2>2
  <2>4. Len(Filled[i]) \in Nat /\ Len(Filled[i - 1]) \in Nat
    BY <1>8, <2>2, <2>3
  <2>5. Len(Filled[i]) <= i
    BY <1>1, <2>2, <2>3, <2>4
  <2> QED
    BY <1>1, <2>3, <2>5
<1>15. \A i \in 0 .. n : id[i] \in Good
  <2> HIDE DEF id, Good
  <2> QED
    BY <1>1, <1>13, <1>14, UpToInduction
<1>16. \A i \in 0 .. n : /\ Filled[i] \in X /\ Len(Filled[i]) <= i
                         /\ i > 0 => Len(Filled[i]) >= 1
  <2>1. \A i \in 0 .. n : id[i] = i
    BY <1>1
  <2> QED
    BY <1>15, <2>1
<1>17. \A i \in 1 .. n : Filled[i] = FillStep(pairs, i, Filled[i - 1])
  BY <1>12, <1>s
<1>18. PICK f : f = Filled
  OBVIOUS
<1>19. f[0] = <<>> /\ Refilled(pairs) = f[n]
  BY <1>2, <1>12, <1>18
<1>20. \A i \in 0 .. n : /\ f[i] \in X /\ Len(f[i]) <= i
                         /\ i > 0 => Len(f[i]) >= 1
  BY <1>16, <1>18
<1>21. \A i \in 1 .. n : f[i] = FillStep(pairs, i, f[i - 1])
  BY <1>17, <1>18
<1>22. f[0] = <<>> /\ Refilled(pairs) = f[Len(pairs)]
  BY <1>19 DEF n
<1>23. \A i \in 0 .. Len(pairs) : /\ f[i] \in Seq(S) /\ Len(f[i]) <= i
                                  /\ i > 0 => Len(f[i]) >= 1
  BY ONLY <1>20, Zenon DEF X, n
<1>24. \A i \in 1 .. Len(pairs) : f[i] = FillStep(pairs, i, f[i - 1])
  BY <1>21 DEF n
<1> QED
  BY ONLY <1>22, <1>23, <1>24, Zenon

LEMMA RefilledPositions ==
  ASSUME NEW S, \A x \in S : x = Pair(x.key, x.value), NEW pairs \in Seq(S)
  PROVE  /\ Refilled(pairs) \in Seq(S)
         /\ Len(Refilled(pairs)) <= Len(pairs)
         /\ pairs # <<>> => Len(Refilled(pairs)) >= 1
<1>1. Len(pairs) \in Nat
  BY LenProperties
<1>2. PICK f : /\ Refilled(pairs) = f[Len(pairs)]
               /\ \A i \in 0 .. Len(pairs) :
                    /\ f[i] \in Seq(S) /\ Len(f[i]) <= i
                    /\ i > 0 => Len(f[i]) >= 1
  BY RefilledSteps
<1>3. Len(pairs) \in 0 .. Len(pairs) /\ (pairs # <<>> => Len(pairs) > 0)
  BY <1>1, EmptySeq
<1> QED
  BY <1>2, <1>3

-----------------------------------------------------------------------------
(***************************************************************************)
(* Arrays in the order of their keys.                                      *)
(***************************************************************************)

Ascending(array) ==
  \A i, j \in 1 .. Len(array) : i < j => array[i].key < array[j].key

\* Positions of which none is preceded by one outside are the first few.
LEMMA FirstPositions ==
  ASSUME NEW n \in Nat, NEW B,
         \A i, j \in 1 .. n : i < j /\ j \in B => i \in B
  PROVE  \E m \in 0 .. n : \A i \in 1 .. n : i \in B <=> i <= m
<1> DEFINE Good == {u \in 0 .. n : \E m \in 0 .. u : \A i \in 1 .. u : i \in B <=> i <= m}
           id == [u \in 0 .. n |-> u]
<1>1. id[0] \in Good
  OBVIOUS
<1>2. \A u \in 1 .. n : id[u - 1] \in Good => id[u] \in Good
  <2> SUFFICES ASSUME NEW u \in 1 .. n, id[u - 1] \in Good
               PROVE  id[u] \in Good
    OBVIOUS
  <2>1. u - 1 \in 0 .. n /\ id[u - 1] = u - 1 /\ u \in 0 .. n /\ id[u] = u
    OBVIOUS
  <2>2. PICK m \in 0 .. u - 1 : \A i \in 1 .. u - 1 : i \in B <=> i <= m
    BY <2>1
  <2>3. CASE u \in B
    <3>1. \A i \in 1 .. u : i \in B <=> i <= u
      BY <2>3
    <3>2. u \in 0 .. u
      OBVIOUS
    <3> QED
      BY <2>1, <3>1, <3>2
  <2>4. CASE u \notin B
    <3>1. ASSUME NEW i \in 1 .. u
          PROVE  i \in B <=> i <= m
      BY <2>2, <2>4
    <3>2. m \in 0 .. u
      OBVIOUS
    <3> QED
      BY <2>1, <3>1, <3>2
  <2> QED
    BY <2>3, <2>4
<1>3. \A u \in 0 .. n : id[u] \in Good
  <2> HIDE DEF id, Good
  <2> QED
    BY <1>1, <1>2, UpToInduction
<1>4. n \in Good
  <2>1. id[n] \in Good /\ id[n] = n
    BY <1>3
  <2> QED
    BY <2>1
<1> QED
  BY <1>4

\* In order, the bisection separates the smaller keys from the others.
LEMMA LowerBoundFound ==
  ASSUME NEW S, \A x \in S : x.key \in Int, NEW array \in Seq(S), Ascending(array),
         NEW k \in Int
  PROVE  \A i \in 1 .. Len(array) : array[i].key < k <=> i < LowerBound(array, k)
<1> DEFINE before == {i \in 1 .. Len(array) : array[i].key < k}
           n == Len(array)
<1>1. n \in Nat /\ \A i \in 1 .. n : array[i].key \in Int
  BY LenProperties, ElementOfSeq
<1>2. LowerBound(array, k) = 1 + PartitionPoint(n, before)
  BY DEF LowerBound
<1>3. \A i \in 1 .. n : i \in before <=> array[i].key < k
  OBVIOUS
<1>4. \A i, j \in 1 .. n : i < j => array[i].key < array[j].key
  BY DEF Ascending
<1> HIDE DEF n, before
<1>5. \A i, j \in 1 .. n : i < j /\ j \in before => i \in before
  BY <1>1, <1>3, <1>4
<1>6. PICK m \in 0 .. n : \A i \in 1 .. n : i \in before <=> i <= m
  BY <1>1, <1>5, FirstPositions
<1>7. PartitionPoint(n, before) = m
  BY <1>1, <1>6, PartitionPointFound
<1>8. \A i \in 1 .. n : array[i].key < k <=> i < 1 + m
  BY <1>1, <1>3, <1>6
<1> QED
  BY <1>2, <1>7, <1>8 DEF n

\* In order, a lookup finds a key exactly if it is there.
LEMMA HoldsKey ==
  ASSUME NEW S, \A x \in S : x.key \in Int, NEW array \in Seq(S), Ascending(array),
         NEW k \in Int
  PROVE  Holds(array, k) <=> \E i \in 1 .. Len(array) : array[i].key = k
<1>1. PICK n, b : n = Len(array) /\ b = LowerBound(array, k)
  OBVIOUS
<1>2. n \in Nat /\ \A i \in 1 .. n : array[i].key \in Int
  BY <1>1, LenProperties, ElementOfSeq
<1>3. b \in 1 .. n + 1 /\ \A i \in 1 .. n : array[i].key < k <=> i < b
  BY <1>1, LowerBoundFound, LowerBoundRange
<1>4. Holds(array, k) <=> b <= n /\ array[b].key = k
  BY <1>1 DEF Holds
<1>5. ASSUME NEW i \in 1 .. n, array[i].key = k
      PROVE  b <= n /\ array[b].key = k
  <2>1. b <= i
    BY <1>2, <1>3, <1>5
  <2>2. b \in 1 .. n /\ ~(array[b].key < k)
    BY <1>2, <1>3, <2>1
  <2>3. b < i => array[b].key < array[i].key
    BY <1>1, <2>2 DEF Ascending
  <2>4. b = i
    BY <1>2, <1>3, <1>5, <2>1, <2>2, <2>3
  <2> QED
    BY <1>5, <2>2, <2>4
<1>6. ASSUME b <= n, array[b].key = k
      PROVE  \E i \in 1 .. n : array[i].key = k
  BY <1>2, <1>3, <1>6
<1> QED
  BY <1>1, <1>4, <1>5, <1>6

LEMMA LeafInserted ==
  ASSUME NEW S, NEW array \in Seq(S), NEW k, NEW v, Pair(k, v) \in S,
         NEW b, b = LowerBound(array, k), NEW r, r = LeafInsert(array, k, v),
         NEW e, e = Pair(k, v)
  PROVE  /\ Len(r) = Len(array) + 1
         /\ \A j \in 1 .. Len(array) + 1 :
              r[j] = IF j < b THEN array[j] ELSE IF j = b THEN e ELSE array[j - 1]
<1>1. b \in 1 .. Len(array) + 1
  BY LowerBoundRange
<1>2. r = Lists!InsertAt(array, b, e)
  BY DEF LeafInsert
<1> QED
  BY <1>1, <1>2, InsertAtPositions

LEMMA LeafInsertAscending ==
  ASSUME NEW S, \A x \in S : x.key \in Int, NEW array \in Seq(S), Ascending(array),
         NEW k, NEW v, Pair(k, v) \in S, ~Holds(array, k)
  PROVE  Ascending(LeafInsert(array, k, v))
<1>1. PICK n, b, r, e : /\ n = Len(array) /\ b = LowerBound(array, k)
                        /\ r = LeafInsert(array, k, v) /\ e = Pair(k, v)
  OBVIOUS
<1>2. k \in Int /\ e.key = k
  BY <1>1 DEF Pair
<1>3. n \in Nat /\ \A i \in 1 .. n : array[i].key \in Int
  BY <1>1, LenProperties, ElementOfSeq
<1>4. b \in 1 .. n + 1 /\ \A i \in 1 .. n : array[i].key < k <=> i < b
  BY <1>1, <1>2, LowerBoundFound, LowerBoundRange
<1>5. \A i \in 1 .. n : array[i].key # k
  BY <1>1, <1>2, HoldsKey
<1>6. /\ Len(r) = n + 1
      /\ \A j \in 1 .. n + 1 :
           r[j] = IF j < b THEN array[j] ELSE IF j = b THEN e ELSE array[j - 1]
  BY <1>1, LeafInserted
<1>7. \A i, j \in 1 .. n : i < j => array[i].key < array[j].key
  BY <1>1 DEF Ascending
<1>8. \A i \in 1 .. n : ~(i < b) => k < array[i].key
  BY <1>2, <1>3, <1>4, <1>5
<1>9. ASSUME NEW i \in 1 .. n + 1, NEW j \in 1 .. n + 1, i < j
      PROVE  r[i].key < r[j].key
  <2>1. CASE j < b
    <3>1. i \in 1 .. n /\ j \in 1 .. n /\ r[i] = array[i] /\ r[j] = array[j]
      BY <1>3, <1>4, <1>6, <1>9, <2>1
    <3> QED
      BY <1>7, <1>9, <3>1
  <2>2. CASE j = b
    <3>1. i \in 1 .. n /\ i < b /\ r[i] = array[i] /\ r[j] = e
      BY <1>3, <1>4, <1>6, <1>9, <2>2
    <3> QED
      BY <1>2, <1>4, <3>1
  <2>3. CASE j > b
    <3>1. j - 1 \in 1 .. n /\ ~(j - 1 < b) /\ r[j] = array[j - 1]
      BY <1>3, <1>4, <1>6, <2>3
    <3>2. CASE i < b
      <4>1. i \in 1 .. n /\ i < j - 1 /\ r[i] = array[i]
        BY <1>3, <1>4, <1>6, <2>3, <3>2
      <4> QED
        BY <1>7, <3>1, <4>1
    <3>3. CASE i = b
      <4>1. r[i] = e
        BY <1>6, <3>3
      <4> QED
        BY <1>2, <1>8, <3>1, <4>1
    <3>4. CASE i > b
      <4>1. i - 1 \in 1 .. n /\ i - 1 < j - 1 /\ r[i] = array[i - 1]
        BY <1>3, <1>4, <1>6, <1>9, <3>4
      <4> QED
        BY <1>7, <3>1, <4>1
    <3> QED
      BY <1>4, <3>2, <3>3, <3>4
  <2> QED
    BY <1>4, <2>1, <2>2, <2>3
<1> QED
  BY <1>1, <1>6, <1>9 DEF Ascending

\* Whatever a cleared page is filled with, it is filled in order.
LEMMA RefilledAscending ==
  ASSUME NEW S, \A x \in S : x = Pair(x.key, x.value) /\ x.key \in Int,
         NEW pairs \in Seq(S)
  PROVE  Ascending(Refilled(pairs))
<1>1. PICK n : n = Len(pairs)
  OBVIOUS
<1>2. n \in Nat /\ \A i \in 1 .. n : pairs[i] \in S
  BY <1>1, LenProperties, ElementOfSeq
<1>3. PICK f : /\ f[0] = <<>> /\ Refilled(pairs) = f[n]
               /\ \A i \in 0 .. n : f[i] \in Seq(S)
               /\ \A i \in 1 .. n : f[i] = FillStep(pairs, i, f[i - 1])
  BY <1>1, RefilledSteps
<1> DEFINE X == {s \in Seq(S) : Ascending(s)}
<1>4. f[0] \in X
  BY <1>3, EmptySeq DEF Ascending
<1>5. ASSUME NEW i \in 1 .. n, f[i - 1] \in X
      PROVE  f[i] \in X
  <2>1. PICK array, k, v : array = f[i - 1] /\ k = pairs[i].key /\ v = pairs[i].value
    OBVIOUS
  <2>2. array \in Seq(S) /\ Ascending(array)
    BY <1>5, <2>1
  <2>3. i \in 0 .. n /\ f[i] \in Seq(S)
    BY <1>2, <1>3
  <2>4. f[i] = IF Holds(array, k) THEN array ELSE LeafInsert(array, k, v)
    BY <1>3, <2>1 DEF FillStep
  <2>5. Pair(k, v) \in S
    BY <1>2, <2>1
  <2>6. \A x \in S : x.key \in Int
    OBVIOUS
  <2>7. ~Holds(array, k) => Ascending(LeafInsert(array, k, v))
    BY <2>2, <2>5, <2>6, LeafInsertAscending
  <2>8. Ascending(f[i])
    BY <2>2, <2>4, <2>7
  <2> QED
    BY <2>3, <2>8
<1> HIDE DEF X
<1>6. \A i \in 0 .. n : f[i] \in X
  BY <1>2, <1>4, <1>5, UpToInduction
<1>7. f[n] \in X
  BY <1>2, <1>6
<1> QED
  BY <1>3, <1>7 DEF X

-----------------------------------------------------------------------------
(***************************************************************************)
(* In order, the two loops of a leaf split keep every pair.                *)
(***************************************************************************)

PairsIn(array) == {array[i] : i \in 1 .. Len(array)}

\* The pairs have different keys.
Distinct(pairs) == \A i, j \in 1 .. Len(pairs) : pairs[i].key = pairs[j].key => i = j

LEMMA LeafInsertPairs ==
  ASSUME NEW S, NEW array \in Seq(S), NEW k, NEW v, Pair(k, v) \in S
  PROVE  PairsIn(LeafInsert(array, k, v)) = PairsIn(array) \cup {Pair(k, v)}
<1>1. PICK n, b, r, e : /\ n = Len(array) /\ b = LowerBound(array, k)
                        /\ r = LeafInsert(array, k, v) /\ e = Pair(k, v)
  OBVIOUS
<1>2. n \in Nat /\ b \in 1 .. n + 1
  BY <1>1, LenProperties, LowerBoundRange
<1>3. /\ Len(r) = n + 1
      /\ \A j \in 1 .. n + 1 :
           r[j] = IF j < b THEN array[j] ELSE IF j = b THEN e ELSE array[j - 1]
  BY <1>1, LeafInserted
<1>4. ASSUME NEW j \in 1 .. n + 1
      PROVE  r[j] \in PairsIn(array) \cup {e}
  <2>1. CASE j < b
    <3>1. j \in 1 .. n /\ r[j] = array[j]
      BY <1>2, <1>3, <2>1
    <3> QED
      BY <1>1, <3>1 DEF PairsIn
  <2>2. CASE j = b
    BY <1>3, <2>2
  <2>3. CASE j > b
    <3>1. j - 1 \in 1 .. n /\ r[j] = array[j - 1]
      BY <1>2, <1>3, <2>3
    <3> QED
      BY <1>1, <3>1 DEF PairsIn
  <2> QED
    BY <1>2, <2>1, <2>2, <2>3
<1>5. ASSUME NEW i \in 1 .. n
      PROVE  \E j \in 1 .. n + 1 : r[j] = array[i]
  <2>1. CASE i < b
    <3>1. i \in 1 .. n + 1 /\ r[i] = array[i]
      BY <1>2, <1>3, <2>1
    <3> QED
      BY <3>1
  <2>2. CASE ~(i < b)
    <3>1. i + 1 \in 1 .. n + 1 /\ r[i + 1] = array[(i + 1) - 1] /\ (i + 1) - 1 = i
      BY <1>2, <1>3, <2>2
    <3> QED
      BY <3>1
  <2> QED
    BY <2>1, <2>2
<1>6. b \in 1 .. n + 1 /\ r[b] = e
  BY <1>2, <1>3
<1>7. PairsIn(r) = PairsIn(array) \cup {e}
  <2>1. PairsIn(r) = {r[j] : j \in 1 .. n + 1}
    BY <1>3 DEF PairsIn
  <2>2. PairsIn(array) = {array[i] : i \in 1 .. n}
    BY <1>1 DEF PairsIn
  <2>3. PairsIn(r) \subseteq PairsIn(array) \cup {e}
    BY <1>4, <2>1
  <2>4. PairsIn(array) \subseteq PairsIn(r)
    BY <1>5, <2>1, <2>2
  <2>5. e \in PairsIn(r)
    BY <1>6, <2>1
  <2> QED
    BY <2>3, <2>4, <2>5
<1> QED
  BY <1>1, <1>7

\* An array filled in order with the first i of the pairs.
FilledUpTo(array, pairs, i) ==
  /\ Ascending(array)
  /\ Len(array) = i
  /\ PairsIn(array) = {pairs[j] : j \in 1 .. i}

LEMMA FilledFurther ==
  ASSUME NEW S, \A x \in S : x = Pair(x.key, x.value) /\ x.key \in Int,
         NEW pairs \in Seq(S), Distinct(pairs), NEW i \in 1 .. Len(pairs),
         NEW array \in Seq(S), FilledUpTo(array, pairs, i - 1),
         NEW k, NEW v, k = pairs[i].key, v = pairs[i].value
  PROVE  /\ pairs[i] = Pair(k, v) /\ Pair(k, v) \in S /\ k \in Int
         /\ ~Holds(array, k)
         /\ LeafInsert(array, k, v) \in Seq(S)
         /\ FilledUpTo(LeafInsert(array, k, v), pairs, i)
<1>1. Len(pairs) \in Nat /\ \A j \in 1 .. Len(pairs) : pairs[j] \in S
  BY LenProperties, ElementOfSeq
<1>2. pairs[i] = Pair(k, v) /\ Pair(k, v) \in S /\ k \in Int
  BY <1>1
<1>3. \A x \in S : x.key \in Int
  OBVIOUS
<1>4. ~Holds(array, k)
  <2>1. SUFFICES ASSUME NEW j \in 1 .. Len(array), array[j].key = k
                 PROVE  FALSE
    BY <1>2, <1>3, HoldsKey DEF FilledUpTo
  <2>2. array[j] \in PairsIn(array)
    BY DEF PairsIn
  <2>3. PICK h \in 1 .. i - 1 : array[j] = pairs[h]
    BY <2>2 DEF FilledUpTo
  <2>4. h \in 1 .. Len(pairs) /\ h # i
    BY <1>1
  <2> QED
    BY <2>1, <2>3, <2>4 DEF Distinct
<1>5. PICK r : r = LeafInsert(array, k, v)
  OBVIOUS
<1>6. r \in Seq(S) /\ Len(r) = i
  <2>1. r \in Seq(S) /\ Len(r) = Len(array) + 1
    BY <1>2, <1>5, LeafInsertPositions
  <2> QED
    BY <2>1 DEF FilledUpTo
<1>7. Ascending(r)
  BY <1>2, <1>3, <1>4, <1>5, LeafInsertAscending DEF FilledUpTo
<1>8. PairsIn(r) = {pairs[j] : j \in 1 .. i}
  <2>1. PairsIn(r) = PairsIn(array) \cup {pairs[i]}
    BY <1>2, <1>5, LeafInsertPairs
  <2>2. PairsIn(array) = {pairs[j] : j \in 1 .. i - 1}
    BY DEF FilledUpTo
  <2>3. {pairs[j] : j \in 1 .. i - 1} \cup {pairs[i]} = {pairs[j] : j \in 1 .. i}
    <3>1. \A j \in 1 .. i : j \in 1 .. i - 1 \/ j = i
      OBVIOUS
    <3>2. \A j \in 1 .. i - 1 : j \in 1 .. i
      OBVIOUS
    <3> QED
      BY <3>1, <3>2
  <2> QED
    BY <2>1, <2>2, <2>3
<1> QED
  BY <1>2, <1>4, <1>5, <1>6, <1>7, <1>8 DEF FilledUpTo


LEMMA RefilledKeeps ==
  ASSUME NEW S, \A x \in S : x = Pair(x.key, x.value) /\ x.key \in Int,
         NEW pairs \in Seq(S), Distinct(pairs)
  PROVE  /\ Refilled(pairs) \in Seq(S)
         /\ FilledUpTo(Refilled(pairs), pairs, Len(pairs))
<1>1. PICK n : n = Len(pairs)
  OBVIOUS
<1>2. n \in Nat
  BY <1>1, LenProperties
<1>3. PICK f : /\ f[0] = <<>> /\ Refilled(pairs) = f[n]
               /\ \A i \in 0 .. n : f[i] \in Seq(S)
               /\ \A i \in 1 .. n : f[i] = FillStep(pairs, i, f[i - 1])
  BY <1>1, RefilledSteps
<1> DEFINE Good == {i \in 0 .. n : FilledUpTo(f[i], pairs, i)}
           id == [i \in 0 .. n |-> i]
<1>4. id[0] \in Good
  <2>1. id[0] = 0 /\ 0 \in 0 .. n
    BY <1>2
  <2>2. PairsIn(<<>>) = {} /\ {pairs[j] : j \in 1 .. 0} = {}
    BY DEF PairsIn
  <2>3. FilledUpTo(f[0], pairs, 0)
    BY <1>3, <2>2 DEF FilledUpTo, Ascending
  <2> QED
    BY <2>1, <2>3
<1>5. ASSUME NEW i \in 1 .. n, id[i - 1] \in Good
      PROVE  id[i] \in Good
  <2>1. i - 1 \in 0 .. n /\ id[i - 1] = i - 1 /\ i \in 0 .. n /\ id[i] = i
    BY <1>2
  <2>2. FilledUpTo(f[i - 1], pairs, i - 1)
    BY <1>5, <2>1
  <2>3. PICK array, k, v : array = f[i - 1] /\ k = pairs[i].key /\ v = pairs[i].value
    OBVIOUS
  <2>4. array \in Seq(S) /\ FilledUpTo(array, pairs, i - 1)
    BY <1>3, <2>1, <2>2, <2>3
  <2>5. i \in 1 .. Len(pairs)
    BY <1>1
  <2>6. ~Holds(array, k) /\ FilledUpTo(LeafInsert(array, k, v), pairs, i)
    BY <2>3, <2>4, <2>5, FilledFurther
  <2>7. f[i] = LeafInsert(array, k, v)
    BY <1>3, <2>3, <2>6 DEF FillStep
  <2>8. FilledUpTo(f[i], pairs, i)
    BY <2>6, <2>7
  <2> QED
    BY <2>1, <2>8
<1>6. \A i \in 0 .. n : id[i] \in Good
  <2> HIDE DEF id, Good
  <2> QED
    BY <1>2, <1>4, <1>5, UpToInduction
<1>7. n \in 0 .. n /\ id[n] = n
  BY <1>2
<1>8. FilledUpTo(f[n], pairs, n) /\ f[n] \in Seq(S)
  BY <1>3, <1>6, <1>7
<1> QED
  BY <1>1, <1>3, <1>8

\* In an array that is in order and does not hold k, the keys before k are those that
\* are not greater.
LEMMA SortStepInserts ==
  ASSUME NEW S, \A x \in S : x = Pair(x.key, x.value) /\ x.key \in Int,
         NEW pairs, NEW i, NEW front \in Seq(S), Ascending(front),
         NEW k, NEW v, pairs[i] = Pair(k, v), Pair(k, v) \in S, ~Holds(front, k)
  PROVE  SortStep(pairs, i, front) = LeafInsert(front, k, v)
<1>1. PICK n, b : n = Len(front) /\ b = LowerBound(front, k)
  OBVIOUS
<1>2. n \in Nat /\ b \in 1 .. n + 1
  BY <1>1, LenProperties, LowerBoundRange
<1>3. pairs[i].key = k /\ k \in Int
  BY DEF Pair
<1>4. \A x \in S : x.key \in Int
  OBVIOUS
<1>5. \A j \in 1 .. n : front[j].key < k <=> j < b
  BY <1>1, <1>3, <1>4, LowerBoundFound
<1>6. \A j \in 1 .. n : front[j].key # k /\ front[j].key \in Int
  BY <1>1, <1>3, <1>4, HoldsKey, ElementOfSeq
<1>7. PICK behind : behind = {j \in 1 .. Len(front) : front[j].key <= pairs[i].key}
  OBVIOUS
<1>8. behind = 1 .. b - 1
  <2>1. \A j \in 1 .. n : front[j].key <= k <=> j < b
    BY <1>3, <1>5, <1>6
  <2>2. \A j \in 1 .. n : j \in behind <=> j \in 1 .. b - 1
    BY <1>1, <1>2, <1>3, <1>7, <2>1
  <2>3. behind \subseteq 1 .. n /\ 1 .. b - 1 \subseteq 1 .. n
    BY <1>1, <1>2, <1>7
  <2> QED
    BY <2>2, <2>3
<1>9. Cardinality(behind) = b - 1
  BY <1>2, <1>8, FS_Interval
<1>10. SortStep(pairs, i, front) = Lists!InsertAt(front, Cardinality(behind) + 1, pairs[i])
  BY <1>7 DEF SortStep
<1>11. Cardinality(behind) + 1 = b
  BY <1>2, <1>9
<1> QED
  BY <1>1, <1>10, <1>11 DEF LeafInsert

LEMMA SortedKeeps ==
  ASSUME NEW S, \A x \in S : x = Pair(x.key, x.value) /\ x.key \in Int,
         NEW array \in Seq(S), Ascending(array),
         NEW k, NEW v, Pair(k, v) \in S, ~Holds(array, k),
         NEW pairs, pairs = WithPair(array, k, v)
  PROVE  /\ WithPairSorted(array, k, v) \in Seq(S)
         /\ FilledUpTo(WithPairSorted(array, k, v), pairs, Len(array) + 1)
<1>1. PICK n : n = Len(pairs)
  OBVIOUS
<1>2. /\ pairs \in Seq(S) /\ n = Len(array) + 1 /\ n \in Nat
      /\ \A i \in 1 .. n : pairs[i] \in S
  <2>1. pairs \in Seq(S) /\ n = Len(array) + 1
    BY <1>1, SortedSteps
  <2> QED
    BY <1>1, <2>1, LenProperties, ElementOfSeq
<1>3. PICK f : Sorts(f, pairs, S) /\ WithPairSorted(array, k, v) = f[n]
  <2>1. /\ array \in Seq(S) /\ Pair(k, v) \in S
        /\ n = Len(array) + 1 /\ pairs = WithPair(array, k, v)
    BY <1>2
  <2> QED
    BY ONLY <2>1, SortedSteps
<1>a. /\ f[0] = <<>> /\ WithPairSorted(array, k, v) = f[n]
      /\ \A i \in 0 .. n : f[i] \in Seq(S)
      /\ \A i \in 1 .. n : f[i] = SortStep(pairs, i, f[i - 1])
  BY <1>1, <1>3 DEF Sorts
<1>b. \A x \in S : x = Pair(x.key, x.value) /\ x.key \in Int
  OBVIOUS
<1>4. Distinct(pairs)
  <2>1. /\ Len(array) \in Nat
        /\ \A j \in 1 .. Len(array) : pairs[j] = array[j] /\ array[j].key \in Int
        /\ pairs[Len(array) + 1] = Pair(k, v)
    BY LenProperties, ElementOfSeq DEF WithPair
  <2>2. k \in Int /\ Pair(k, v).key = k
    BY DEF Pair
  <2>3. \A x \in S : x.key \in Int
    OBVIOUS
  <2>4. \A j \in 1 .. Len(array) : array[j].key # k
    BY <2>2, <2>3, HoldsKey
  <2>5. \A h, j \in 1 .. Len(array) : array[h].key = array[j].key => h = j
    BY <2>1 DEF Ascending
  <2>6. \A j \in 1 .. n : j \in 1 .. Len(array) \/ j = Len(array) + 1
    BY <1>2, <2>1
  <2> QED
    BY <1>1, <2>1, <2>2, <2>4, <2>5, <2>6 DEF Distinct
<1> DEFINE Good == {i \in 0 .. n : FilledUpTo(f[i], pairs, i)}
           id == [i \in 0 .. n |-> i]
<1>5. id[0] \in Good
  <2>1. id[0] = 0 /\ 0 \in 0 .. n
    BY <1>2
  <2>2. PairsIn(<<>>) = {} /\ {pairs[j] : j \in 1 .. 0} = {}
    BY DEF PairsIn
  <2>3. FilledUpTo(f[0], pairs, 0)
    BY <1>a, <2>2 DEF FilledUpTo, Ascending
  <2> QED
    BY <2>1, <2>3
<1>6. ASSUME NEW i \in 1 .. n, id[i - 1] \in Good
      PROVE  id[i] \in Good
  <2>1. i - 1 \in 0 .. n /\ id[i - 1] = i - 1 /\ i \in 0 .. n /\ id[i] = i
    BY <1>2
  <2>2. PICK front, key, value :
          front = f[i - 1] /\ key = pairs[i].key /\ value = pairs[i].value
    OBVIOUS
  <2>3. front \in Seq(S) /\ FilledUpTo(front, pairs, i - 1)
    BY <1>a, <1>6, <2>1, <2>2
  <2>4. i \in 1 .. Len(pairs)
    BY <1>1
  <2>5. /\ pairs[i] = Pair(key, value) /\ Pair(key, value) \in S
        /\ ~Holds(front, key)
        /\ FilledUpTo(LeafInsert(front, key, value), pairs, i)
    BY <1>2, <1>4, <2>2, <2>3, <2>4, FilledFurther
  <2>6. Ascending(front)
    BY <2>3 DEF FilledUpTo
  <2>7. SortStep(pairs, i, front) = LeafInsert(front, key, value)
    BY ONLY <1>b, <2>3, <2>5, <2>6, SortStepInserts
  <2>8. FilledUpTo(f[i], pairs, i)
    BY <1>a, <2>2, <2>5, <2>7
  <2> QED
    BY <2>1, <2>8
<1>7. \A i \in 0 .. n : id[i] \in Good
  <2> HIDE DEF id, Good
  <2> QED
    BY <1>2, <1>5, <1>6, UpToInduction
<1>8. n \in 0 .. n /\ id[n] = n
  BY <1>2
<1>9. FilledUpTo(f[n], pairs, n) /\ f[n] \in Seq(S)
  BY <1>a, <1>7, <1>8
<1> QED
  BY <1>2, <1>a, <1>9

LEMMA PairAdded ==
  ASSUME NEW S, NEW array \in Seq(S), NEW k, NEW v, Pair(k, v) \in S,
         NEW pairs, pairs = WithPair(array, k, v)
  PROVE  {pairs[j] : j \in 1 .. Len(array) + 1} = PairsIn(array) \cup {Pair(k, v)}
<1>1. PICK n, e : n = Len(array) /\ e = Pair(k, v)
  OBVIOUS
<1>2. n \in Nat
  BY <1>1, LenProperties
<1>3. pairs[n + 1] = e /\ \A j \in 1 .. n : pairs[j] = array[j]
  BY <1>1, <1>2 DEF WithPair
<1>4. \A j \in 1 .. n + 1 : j \in 1 .. n \/ j = n + 1
  BY <1>2
<1>5. n + 1 \in 1 .. n + 1 /\ \A j \in 1 .. n : j \in 1 .. n + 1
  BY <1>2
<1>6. PairsIn(array) = {array[j] : j \in 1 .. n}
  BY <1>1 DEF PairsIn
<1>7. {pairs[j] : j \in 1 .. n + 1} = {array[j] : j \in 1 .. n} \cup {e}
  BY <1>3, <1>4, <1>5
<1> QED
  BY <1>1, <1>6, <1>7

PairsAt(array, i, j) == {array[h] : h \in i .. j}

LEMMA PairsInParts ==
  ASSUME NEW array, Len(array) \in Nat, NEW m \in 0 .. Len(array)
  PROVE  PairsAt(array, 1, m) \cup PairsAt(array, m + 1, Len(array)) = PairsIn(array)
<1>1. \A j \in 1 .. Len(array) : j \in 1 .. m \/ j \in m + 1 .. Len(array)
  OBVIOUS
<1>2. /\ \A j \in 1 .. m : j \in 1 .. Len(array)
      /\ \A j \in m + 1 .. Len(array) : j \in 1 .. Len(array)
  OBVIOUS
<1> QED
  BY <1>1, <1>2 DEF PairsAt, PairsIn

LEMMA CutPairs ==
  ASSUME NEW S, NEW array \in Seq(S), NEW m \in 0 .. Len(array),
         NEW left, left = FrontOf(array, m), NEW right, right = BackOf(array, m)
  PROVE  /\ left \in Seq(S) /\ right \in Seq(S)
         /\ Len(left) = m /\ Len(right) = Len(array) - m
         /\ \A j \in 1 .. m : left[j] = array[j]
         /\ \A j \in 1 .. Len(array) - m : right[j] = array[m + j]
         /\ PairsIn(left) = PairsAt(array, 1, m)
         /\ PairsIn(right) = PairsAt(array, m + 1, Len(array))
         /\ Distinct(array) => Distinct(left) /\ Distinct(right)
<1>1. PICK n : n = Len(array)
  OBVIOUS
<1>2. n \in Nat /\ m \in 0 .. n /\ m \in Nat
  BY <1>1, LenProperties
<1>3. /\ left \in Seq(S) /\ Len(left) = m /\ \A j \in 1 .. m : left[j] = array[j]
      /\ right \in Seq(S) /\ Len(right) = n - m
      /\ \A j \in 1 .. n - m : right[j] = array[m + j]
  BY <1>1, CutPositions DEF FrontOf, BackOf
<1>4. PairsIn(left) = {array[j] : j \in 1 .. m}
  <2>1. PairsIn(left) = {left[j] : j \in 1 .. m}
    BY <1>3 DEF PairsIn
  <2> QED
    BY <1>3, <2>1
<1>5. PairsIn(right) = {array[j] : j \in m + 1 .. n}
  <2>1. PairsIn(right) = {right[j] : j \in 1 .. n - m}
    BY <1>3 DEF PairsIn
  <2>2. \A j \in 1 .. n - m : m + j \in m + 1 .. n
    BY <1>2
  <2>3. \A j \in m + 1 .. n : j - m \in 1 .. n - m /\ m + (j - m) = j
    BY <1>2
  <2>4. \A e \in PairsIn(right) : e \in {array[j] : j \in m + 1 .. n}
    BY <1>3, <2>1, <2>2
  <2>5. ASSUME NEW j \in m + 1 .. n
        PROVE  array[j] \in PairsIn(right)
    <3>1. right[j - m] = array[j]
      BY <1>3, <2>3
    <3> QED
      BY <2>1, <2>3, <3>1
  <2> QED
    BY <2>4, <2>5
<1>7. ASSUME Distinct(array)
      PROVE  Distinct(left) /\ Distinct(right)
  <2>1. \A h, j \in 1 .. n : array[h].key = array[j].key => h = j
    BY <1>1, <1>7 DEF Distinct
  <2>2. ASSUME NEW h \in 1 .. m, NEW j \in 1 .. m, left[h].key = left[j].key
        PROVE  h = j
    <3>1. h \in 1 .. n /\ j \in 1 .. n
      BY <1>2
    <3> QED
      BY <1>3, <2>1, <2>2, <3>1
  <2>3. ASSUME NEW h \in 1 .. n - m, NEW j \in 1 .. n - m, right[h].key = right[j].key
        PROVE  h = j
    <3>1. m + h \in 1 .. n /\ m + j \in 1 .. n
      BY <1>2
    <3>2. m + h = m + j
      BY <1>3, <2>1, <2>3, <3>1
    <3> QED
      BY <1>2, <3>2
  <2> QED
    BY <1>3, <2>2, <2>3 DEF Distinct
<1> QED
  BY <1>1, <1>3, <1>4, <1>5, <1>7 DEF PairsAt

\* The split of a leaf that is in order and does not hold k: each half gets its share of
\* the pairs, the lesser keys left, and the first key on the right is the least there.
Halves(S, array, e, split, left, right) ==
  /\ left \in Seq(S) /\ right \in Seq(S)
  /\ Len(left) = split /\ Len(right) = Len(array) + 1 - split
  /\ PairsIn(left) \cup PairsIn(right) = PairsIn(array) \cup {e}
  /\ right[1] \in PairsIn(right)
  /\ \A x \in PairsIn(left) : x.key < right[1].key
  /\ \A x \in PairsIn(right) : right[1].key <= x.key

LEMMA LeafHalves ==
  ASSUME NEW S, \A x \in S : x = Pair(x.key, x.value) /\ x.key \in Int,
         NEW array \in Seq(S), Ascending(array),
         NEW k, NEW v, Pair(k, v) \in S, ~Holds(array, k),
         NEW all, all = WithPairSorted(array, k, v),
         NEW split \in 1 .. Len(array),
         NEW left, left = Refilled(FrontOf(all, split)),
         NEW right, right = Refilled(BackOf(all, split))
  PROVE  Halves(S, array, Pair(k, v), split, left, right)
<1>1. PICK n, a, b : n = Len(all) /\ a = FrontOf(all, split) /\ b = BackOf(all, split)
  OBVIOUS
<1>2. PICK pairs : pairs = WithPair(array, k, v)
  OBVIOUS
<1>3. /\ Len(array) \in Nat
      /\ all \in Seq(S) /\ FilledUpTo(all, pairs, Len(array) + 1)
  BY <1>2, SortedKeeps, LenProperties
<1>4. /\ n = Len(array) + 1 /\ n \in Nat /\ split \in 0 .. n
      /\ split \in 1 .. n - 1 /\ Ascending(all)
  BY <1>1, <1>3 DEF FilledUpTo
<1>5. /\ a \in Seq(S) /\ Len(a) = split
      /\ b \in Seq(S) /\ Len(b) = n - split
      /\ PairsIn(a) = {all[j] : j \in 1 .. split}
      /\ PairsIn(b) = {all[j] : j \in split + 1 .. n}
      /\ PairsIn(a) \cup PairsIn(b) = PairsIn(all)
      /\ Distinct(all) => Distinct(a) /\ Distinct(b)
  <2>1. all \in Seq(S) /\ split \in 0 .. Len(all)
    BY <1>1, <1>3, <1>4
  <2>2. /\ a \in Seq(S) /\ Len(a) = split
        /\ b \in Seq(S) /\ Len(b) = Len(all) - split
        /\ PairsIn(a) = PairsAt(all, 1, split)
        /\ PairsIn(b) = PairsAt(all, split + 1, Len(all))
        /\ PairsIn(a) \cup PairsIn(b) = PairsIn(all)
        /\ Distinct(all) => Distinct(a) /\ Distinct(b)
    <3>1. /\ a \in Seq(S) /\ Len(a) = split
          /\ b \in Seq(S) /\ Len(b) = Len(all) - split
      BY ONLY <1>1, <2>1, CutPositions DEF FrontOf, BackOf
    <3>2. /\ PairsIn(a) = PairsAt(all, 1, split)
          /\ PairsIn(b) = PairsAt(all, split + 1, Len(all))
      BY ONLY <1>1, <2>1, CutPairs
    <3>3. PairsIn(a) \cup PairsIn(b) = PairsIn(all)
      <4>1. Len(all) \in Nat
        BY <2>1, LenProperties
      <4> QED
        BY <2>1, <3>2, <4>1, PairsInParts
    <3>4. Distinct(all) => Distinct(a) /\ Distinct(b)
      BY ONLY <1>1, <2>1, CutPairs
    <3> QED
      BY ONLY <3>1, <3>2, <3>3, <3>4
  <2> QED
    BY <1>1, <2>2 DEF PairsAt
<1>6. \A j \in 1 .. n : all[j] \in S /\ all[j].key \in Int
  BY <1>1, <1>3, ElementOfSeq
<1>7. PairsIn(all) = PairsIn(array) \cup {Pair(k, v)}
  <2>1. PairsIn(all) = {pairs[j] : j \in 1 .. Len(array) + 1}
    BY <1>3 DEF FilledUpTo
  <2>2. array \in Seq(S) /\ Pair(k, v) \in S
    OBVIOUS
  <2>3. {pairs[j] : j \in 1 .. Len(array) + 1} = PairsIn(array) \cup {Pair(k, v)}
    BY ONLY <1>2, <2>2, PairAdded
  <2> QED
    BY <2>1, <2>3
<1>10. Distinct(a) /\ Distinct(b)
  <2>1. ASSUME NEW h \in 1 .. n, NEW j \in 1 .. n, h # j
        PROVE  all[h].key # all[j].key
    <3>1. CASE h < j
      BY <1>1, <1>4, <1>6, <3>1 DEF Ascending
    <3>2. CASE j < h
      BY <1>1, <1>4, <1>6, <3>2 DEF Ascending
    <3> QED
      BY <2>1, <3>1, <3>2
  <2> QED
    BY <1>1, <1>5, <2>1 DEF Distinct
<1>11. /\ left \in Seq(S) /\ FilledUpTo(left, a, split)
       /\ right \in Seq(S) /\ FilledUpTo(right, b, n - split)
  <2>1. left = Refilled(a) /\ right = Refilled(b)
    BY <1>1
  <2> QED
    BY <1>5, <1>10, <2>1, RefilledKeeps
<1>12. Len(left) = split /\ Len(right) = n - split /\ Ascending(right)
  BY <1>11 DEF FilledUpTo
<1>13. PairsIn(left) = PairsIn(a) /\ PairsIn(right) = PairsIn(b)
  BY <1>5, <1>11 DEF FilledUpTo, PairsIn
<1>14. /\ 1 \in 1 .. n - split /\ right[1] \in PairsIn(right)
  BY <1>4, <1>12 DEF PairsIn
<1>15. \A e \in PairsIn(left) : e.key < right[1].key
  <2>1. PICK h \in split + 1 .. n : right[1] = all[h]
    BY <1>5, <1>13, <1>14
  <2>2. \A j \in 1 .. split : j \in 1 .. n /\ h \in 1 .. n /\ j < h
    BY <1>4
  <2>3. \A j \in 1 .. split : all[j].key < all[h].key
    BY <1>1, <1>4, <2>2 DEF Ascending
  <2>4. \A e \in {all[j] : j \in 1 .. split} : e.key < all[h].key
    BY <2>3
  <2> QED
    BY <1>5, <1>13, <2>1, <2>4
<1>16. \A e \in PairsIn(right) : right[1].key <= e.key
  <2>1. SUFFICES ASSUME NEW j \in 1 .. n - split
                 PROVE  right[1].key <= right[j].key
    BY <1>12 DEF PairsIn
  <2>2. right[j].key \in Int
    BY <1>11, <1>12, ElementOfSeq
  <2>3. CASE j = 1
    BY <2>2, <2>3
  <2>4. CASE j > 1
    <3>1. right[1].key < right[j].key
      BY <1>12, <1>14, <2>4 DEF Ascending
    <3>2. right[1].key \in Int
      BY <1>11, <1>12, <1>14, ElementOfSeq
    <3> QED
      BY <2>2, <3>1, <3>2
  <2> QED
    BY <2>3, <2>4
<1>17. /\ left \in Seq(S) /\ right \in Seq(S)
       /\ Len(left) = split /\ Len(right) = Len(array) + 1 - split
  BY <1>4, <1>11, <1>12
<1>18. PairsIn(left) \cup PairsIn(right) = PairsIn(array) \cup {Pair(k, v)}
  BY <1>5, <1>7, <1>13
<1> QED
  BY ONLY <1>14, <1>15, <1>16, <1>17, <1>18 DEF Halves

-----------------------------------------------------------------------------
(***************************************************************************)
(* Which keys a search sends to which child of an internal page.           *)
(***************************************************************************)

\* Every number in the first set is less than every number in the second.
Before(A, B) == \A a \in A, b \in B : a < b

Less(R, k) == {x \in R : x < k}
NotLess(R, k) == {x \in R : k <= x}

\* The keys in R between the i-th separator of an array and the next one.
Share(array, R, i) ==
  {k \in R : /\ i > 1 => array[i].key <= k
             /\ i < Len(array) => k < array[i + 1].key}

SeparatorsAscend(array, R) ==
  /\ \A i \in 2 .. Len(array) : array[i].key \in R
  /\ \A i, j \in 2 .. Len(array) : i < j => array[i].key < array[j].key

\* A search for k goes to the child that has k in its share.
LEMMA ChildForShare ==
  ASSUME NEW S, NEW array \in Seq(S), array # <<>>, NEW R \in SUBSET Int,
         SeparatorsAscend(array, R), NEW k \in R
  PROVE  \E i \in 1 .. Len(array) :
           ChildFor(array, k) = array[i].value /\ k \in Share(array, R, i)
<1>1. PICK n : n = Len(array) - 1
  OBVIOUS
<1>2. n \in Nat /\ Len(array) = n + 1
  BY <1>1, LenProperties, EmptySeq
<1>3. PICK before : before = {i \in 1 .. n : array[i + 1].key <= k}
  OBVIOUS
<1>4. \A i \in 1 .. n : i + 1 \in 2 .. n + 1 /\ array[i + 1].key \in Int
  <2> TAKE i \in 1 .. n
  <2>1. i + 1 \in 2 .. Len(array) /\ i + 1 \in 2 .. n + 1
    BY <1>2
  <2>2. array[i + 1].key \in R
    BY <2>1 DEF SeparatorsAscend
  <2> QED
    BY <2>1, <2>2
<1>5. \A i, j \in 1 .. n : i < j /\ j \in before => i \in before
  <2>1. \A i, j \in 1 .. n : i < j => array[i + 1].key < array[j + 1].key
    BY <1>2, <1>4 DEF SeparatorsAscend
  <2> QED
    BY <1>3, <1>4, <2>1
<1>6. PICK m \in 0 .. n : \A i \in 1 .. n : i \in before <=> i <= m
  BY <1>2, <1>5, FirstPositions
<1>7. PartitionPoint(n, before) = m
  BY <1>2, <1>6, PartitionPointFound
<1>8. ChildFor(array, k) = array[m + 1].value
  <2>1. ChildFor(array, k) = array[1 + PartitionPoint(n, before)].value
    BY <1>1, <1>3 DEF ChildFor
  <2>2. 1 + m = m + 1
    BY <1>2
  <2> QED
    BY <1>7, <2>1, <2>2
<1>9. m + 1 \in 1 .. Len(array)
  BY <1>2
<1>10. m + 1 > 1 => array[m + 1].key <= k
  <2>1. m + 1 > 1 => m \in 1 .. n /\ m \in before
    BY <1>2, <1>6
  <2> QED
    BY <1>3, <2>1
<1>11. m + 1 < Len(array) => k < array[(m + 1) + 1].key
  <2>1. m + 1 < Len(array) => m + 1 \in 1 .. n /\ m + 1 \notin before
    BY <1>2, <1>6
  <2> QED
    BY <1>3, <1>4, <2>1
<1>12. k \in Share(array, R, m + 1)
  BY <1>10, <1>11 DEF Share
<1> QED
  BY <1>8, <1>9, <1>12

\* The shares of a page's children are in order.
LEMMA SharesInOrder ==
  ASSUME NEW array, Len(array) \in Nat, NEW R \in SUBSET Int, SeparatorsAscend(array, R),
         NEW i \in 1 .. Len(array), NEW j \in 1 .. Len(array), i < j
  PROVE  Before(Share(array, R, i), Share(array, R, j))
<1>1. SUFFICES ASSUME NEW x \in Share(array, R, i), NEW y \in Share(array, R, j)
               PROVE  x < y
  BY DEF Before
<1>2. i + 1 \in 2 .. Len(array) /\ j \in 2 .. Len(array) /\ (i + 1 < j \/ i + 1 = j)
  OBVIOUS
<1>3. x \in Int /\ y \in Int /\ array[i + 1].key \in Int /\ array[j].key \in Int
  BY <1>2 DEF Share, SeparatorsAscend
<1>4. x < array[i + 1].key /\ array[j].key <= y
  BY <1>2 DEF Share
<1>5. array[i + 1].key <= array[j].key
  BY <1>2, <1>3 DEF SeparatorsAscend
<1> QED
  BY <1>3, <1>4, <1>5

\* A child inserted behind the b-th takes over the part of its share from k on; the
\* other shares stay.
LEMMA InsertedShares ==
  ASSUME NEW S, NEW array \in Seq(S), NEW R \in SUBSET Int, SeparatorsAscend(array, R),
         NEW b \in 1 .. Len(array), NEW k \in Share(array, R, b), NEW e \in S, e.key = k,
         Less(Share(array, R, b), k) # {},
         NEW r, r = Lists!InsertAt(array, b + 1, e)
  PROVE  /\ Len(r) = Len(array) + 1
         /\ r[b] = array[b] /\ r[b + 1] = e
         /\ SeparatorsAscend(r, R)
         /\ Share(r, R, b) = Less(Share(array, R, b), k)
         /\ Share(r, R, b + 1) = NotLess(Share(array, R, b), k)
         /\ \A i \in 1 .. b - 1 : r[i] = array[i] /\ Share(r, R, i) = Share(array, R, i)
         /\ \A i \in b + 2 .. Len(array) + 1 :
              r[i] = array[i - 1] /\ Share(r, R, i) = Share(array, R, i - 1)
<1>1. PICK n : n = Len(array)
  OBVIOUS
<1>2. n \in Nat /\ b \in 1 .. n /\ b + 1 \in 1 .. n + 1
  BY <1>1, LenProperties
<1>3. /\ Len(r) = n + 1
      /\ \A j \in 1 .. n + 1 :
           r[j] = IF j < b + 1 THEN array[j] ELSE IF j = b + 1 THEN e ELSE array[j - 1]
  <2>1. PICK c : c = b + 1
    OBVIOUS
  <2>2. c \in 1 .. Len(array) + 1 /\ r = Lists!InsertAt(array, c, e)
    BY <1>1, <1>2, <2>1
  <2>3. /\ Len(r) = Len(array) + 1
        /\ \A j \in 1 .. Len(array) + 1 :
             r[j] = IF j < c THEN array[j] ELSE IF j = c THEN e ELSE array[j - 1]
    <3>1. array \in Seq(S) /\ e \in S
      OBVIOUS
    <3>2. c \in 1 .. Len(array) + 1
      BY <2>2
    <3>3. HasInserted(Lists!InsertAt(array, c, e), array, c, e)
      BY ONLY <3>1, <3>2, InsertAtInserts
    <3> QED
      BY <2>2, <3>3 DEF HasInserted
  <2> QED
    BY <1>1, <2>1, <2>3
<1>4. /\ \A j \in 1 .. b : r[j] = array[j]
      /\ r[b + 1] = e
      /\ \A j \in b + 2 .. n + 1 : r[j] = array[j - 1]
  BY <1>2, <1>3
<1>5. \A j \in 2 .. n : array[j].key \in R /\ array[j].key \in Int
  BY <1>1 DEF SeparatorsAscend
<1>6. \A i, j \in 2 .. n : i < j => array[i].key < array[j].key
  BY <1>1 DEF SeparatorsAscend
<1>7. k \in R /\ k \in Int
  BY DEF Share
<1>8. b > 1 => array[b].key < k
  <2>1. PICK x \in Less(Share(array, R, b), k) : TRUE
    OBVIOUS
  <2>2. x \in Int /\ x < k /\ (b > 1 => array[b].key <= x)
    BY <2>1 DEF Less, Share
  <2>3. b > 1 => array[b].key \in Int
    BY <1>2, <1>5
  <2> QED
    BY <1>7, <2>2, <2>3
<1>9. b < n => k < array[b + 1].key
  BY <1>1 DEF Share
<1>10. SeparatorsAscend(r, R)
  <2>1. ASSUME NEW i \in 2 .. n + 1
        PROVE  r[i].key \in R
    <3>1. CASE i <= b
      BY <1>2, <1>4, <1>5, <3>1
    <3>2. CASE i = b + 1
      BY <1>4, <1>7, <3>2
    <3>3. CASE i > b + 1
      <4>1. i \in b + 2 .. n + 1 /\ i - 1 \in 2 .. n
        BY <1>2, <3>3
      <4> QED
        BY <1>4, <1>5, <4>1
    <3> QED
      BY <1>2, <3>1, <3>2, <3>3
  <2>2. ASSUME NEW i \in 2 .. n + 1, NEW j \in 2 .. n + 1, i < j
        PROVE  r[i].key < r[j].key
    <3>1. CASE j <= b
      <4>1. i \in 1 .. b /\ j \in 1 .. b /\ i \in 2 .. n /\ j \in 2 .. n
        BY <1>2, <2>2, <3>1
      <4> QED
        BY <1>4, <1>6, <2>2, <4>1
    <3>2. CASE j = b + 1
      <4>1. i \in 1 .. b /\ i \in 2 .. n /\ b \in 2 .. n
        BY <1>2, <2>2, <3>2
      <4>2. array[i].key <= array[b].key
        <5>1. CASE i = b
          BY <1>5, <4>1, <5>1
        <5>2. CASE i < b
          BY <1>5, <1>6, <4>1, <5>2
        <5> QED
          BY <4>1, <5>1, <5>2
      <4>3. array[b].key < k /\ array[b].key \in Int /\ array[i].key \in Int
        BY <1>5, <1>8, <4>1
      <4> QED
        BY <1>4, <1>7, <3>2, <4>1, <4>2, <4>3
    <3>3. CASE j > b + 1
      <4>1. j \in b + 2 .. n + 1 /\ j - 1 \in 2 .. n /\ r[j] = array[j - 1] /\ b < n
        BY <1>2, <1>4, <3>3
      <4>2. CASE i <= b
        <5>1. i \in 1 .. b /\ i \in 2 .. n /\ i < j - 1
          BY <1>2, <3>3, <4>2
        <5> QED
          BY <1>4, <1>6, <4>1, <5>1
      <4>3. CASE i = b + 1
        <5>1. b + 1 \in 2 .. n /\ (b + 1 = j - 1 \/ b + 1 < j - 1)
          BY <1>2, <3>3, <4>1
        <5>2. array[b + 1].key <= array[j - 1].key
          BY <1>5, <1>6, <4>1, <5>1
        <5>3. array[b + 1].key \in Int /\ array[j - 1].key \in Int
          BY <1>5, <4>1, <5>1
        <5> QED
          BY <1>4, <1>7, <1>9, <4>1, <4>3, <5>2, <5>3
      <4>4. CASE i > b + 1
        <5>1. i \in b + 2 .. n + 1 /\ i - 1 \in 2 .. n /\ i - 1 < j - 1
          BY <1>2, <2>2, <4>4
        <5> QED
          BY <1>4, <1>6, <4>1, <5>1
      <4> QED
        BY <1>2, <4>2, <4>3, <4>4
    <3> QED
      BY <1>2, <3>1, <3>2, <3>3
  <2> QED
    BY <1>3, <2>1, <2>2 DEF SeparatorsAscend
<1>11. Share(r, R, b) = Less(Share(array, R, b), k)
  <2>1. r[b] = array[b] /\ r[b + 1].key = k /\ b < Len(r)
    BY <1>2, <1>3, <1>4
  <2>2. ASSUME NEW x \in R, x < k
        PROVE  b < n => x < array[b + 1].key
    <3>1. b < n => b + 1 \in 2 .. n
      BY <1>2
    <3> QED
      BY <1>5, <1>7, <1>9, <2>2, <3>1
  <2> QED
    BY <1>1, <2>1, <2>2 DEF Share, Less
<1>12. Share(r, R, b + 1) = NotLess(Share(array, R, b), k)
  <2>1. r[b + 1].key = k /\ b + 1 > 1 /\ Len(r) = n + 1
    BY <1>2, <1>3, <1>4
  <2>2. b + 1 < n + 1 => r[(b + 1) + 1] = array[b + 1]
    <3>1. b + 1 < n + 1 => b + 2 \in b + 2 .. n + 1 /\ (b + 1) + 1 = b + 2 /\ b + 2 - 1 = b + 1
      BY <1>2
    <3> QED
      BY <1>4, <3>1
  <2>3. ASSUME NEW x \in R, k <= x, b > 1
        PROVE  array[b].key <= x
    <3>1. b \in 2 .. n /\ x \in Int
      BY <1>2, <2>3
    <3>2. array[b].key \in Int /\ array[b].key < k
      BY <1>5, <1>8, <2>3, <3>1
    <3> QED
      BY <1>7, <2>3, <3>1, <3>2
  <2>4. b + 1 < n + 1 <=> b < n
    BY <1>2
  <2> QED
    BY <1>1, <2>1, <2>2, <2>3, <2>4 DEF Share, NotLess
<1>13. ASSUME NEW i \in 1 .. b - 1
       PROVE  r[i] = array[i] /\ Share(r, R, i) = Share(array, R, i)
  <2>1. i \in 1 .. b /\ i + 1 \in 1 .. b /\ i < Len(r) /\ i < Len(array)
    BY <1>1, <1>2, <1>3
  <2>2. r[i] = array[i] /\ r[i + 1] = array[i + 1]
    BY <1>4, <2>1
  <2> QED
    BY <2>1, <2>2 DEF Share
<1>14. ASSUME NEW i \in b + 2 .. n + 1
       PROVE  r[i] = array[i - 1] /\ Share(r, R, i) = Share(array, R, i - 1)
  <2>1. r[i] = array[i - 1] /\ i > 1 /\ i - 1 > 1
    BY <1>2, <1>4
  <2>2. i < Len(r) <=> i - 1 < Len(array)
    BY <1>1, <1>2, <1>3
  <2>3. i < Len(r) => r[i + 1] = array[(i - 1) + 1]
    <3>1. i < Len(r) => i + 1 \in b + 2 .. n + 1 /\ i + 1 - 1 = (i - 1) + 1
      BY <1>2, <1>3
    <3> QED
      BY <1>4, <3>1
  <2> QED
    BY <2>1, <2>2, <2>3 DEF Share
<1> QED
  BY <1>1, <1>2, <1>3, <1>4, <1>10, <1>11, <1>12, <1>13, <1>14

\* Cut in two in front of its m + 1-st child, an array serves the keys before the
\* separator there with its front and the others with its back, as before.
LEMMA CutShares ==
  ASSUME NEW S, NEW array \in Seq(S), NEW R \in SUBSET Int, SeparatorsAscend(array, R),
         NEW m \in 1 .. Len(array) - 1, NEW k, k = array[m + 1].key,
         NEW A, A = Less(R, k), NEW B, B = NotLess(R, k),
         NEW left, left = FrontOf(array, m), NEW right, right = BackOf(array, m)
  PROVE  /\ k \in R
         /\ m > 1 => A # {}
         /\ SeparatorsAscend(left, A) /\ SeparatorsAscend(right, B)
         /\ Len(left) = m /\ Len(right) = Len(array) - m
         /\ \A i \in 1 .. m : left[i] = array[i] /\ Share(left, A, i) = Share(array, R, i)
         /\ \A i \in 1 .. Len(array) - m :
              right[i] = array[m + i] /\ Share(right, B, i) = Share(array, R, m + i)
<1>1. PICK n : n = Len(array)
  OBVIOUS
<1>2. n \in Nat /\ m \in 1 .. n - 1 /\ m \in Nat /\ m \in 0 .. n
  BY <1>1, LenProperties
<1>3. /\ Len(left) = m /\ \A i \in 1 .. m : left[i] = array[i]
      /\ Len(right) = n - m /\ \A i \in 1 .. n - m : right[i] = array[m + i]
  BY <1>1, <1>2, CutPositions DEF FrontOf, BackOf
<1>4. \A i \in 2 .. n : array[i].key \in R
  BY <1>1 DEF SeparatorsAscend
<1>5. \A i \in 2 .. n : array[i].key \in Int
  BY <1>4
<1>6. \A i, j \in 2 .. n : i < j => array[i].key < array[j].key
  BY <1>1 DEF SeparatorsAscend
<1>7. m + 1 \in 2 .. n
  BY <1>2
<1>8. k \in R /\ k \in Int
  BY <1>4, <1>5, <1>7
<1>9. \A i \in 2 .. n : i <= m => array[i].key < k
  <2> SUFFICES ASSUME NEW i \in 2 .. n, i <= m
               PROVE  array[i].key < k
    OBVIOUS
  <2>1. i < m + 1
    BY <1>2
  <2> QED
    BY <1>6, <1>7, <2>1
<1>10. \A i \in 2 .. n : m + 1 <= i => k <= array[i].key
  <2> SUFFICES ASSUME NEW i \in 2 .. n, m + 1 <= i
               PROVE  k <= array[i].key
    OBVIOUS
  <2>1. CASE i = m + 1
    BY <1>8, <2>1
  <2>2. CASE m + 1 < i
    <3>1. k < array[i].key
      BY <1>6, <1>7, <2>2
    <3> QED
      BY <1>5, <1>8, <3>1
  <2> QED
    BY <1>2, <2>1, <2>2
<1>11. m > 1 => A # {}
  <2>1. m > 1 => array[2].key \in R /\ array[2].key < k
    BY <1>2, <1>4, <1>9
  <2> QED
    BY <2>1 DEF Less
<1>12. SeparatorsAscend(left, A)
  <2>1. ASSUME NEW i \in 2 .. m
        PROVE  left[i] = array[i] /\ i \in 2 .. n /\ left[i].key \in A
    <3>1. i \in 1 .. m /\ i \in 2 .. n /\ i <= m
      BY <1>2
    <3> QED
      BY <1>3, <1>4, <1>9, <3>1 DEF Less
  <2>2. \A i, j \in 2 .. m : i < j => left[i].key < left[j].key
    BY <1>6, <2>1
  <2> QED
    BY <1>3, <2>1, <2>2 DEF SeparatorsAscend
<1>13. SeparatorsAscend(right, B)
  <2>1. ASSUME NEW i \in 2 .. n - m
        PROVE  right[i] = array[m + i] /\ m + i \in 2 .. n /\ right[i].key \in B
    <3>1. i \in 1 .. n - m /\ m + i \in 2 .. n /\ m + 1 <= m + i
      BY <1>2
    <3> QED
      BY <1>3, <1>4, <1>10, <3>1 DEF NotLess
  <2>2. ASSUME NEW i \in 2 .. n - m, NEW j \in 2 .. n - m, i < j
        PROVE  right[i].key < right[j].key
    <3>1. m + i < m + j
      BY <1>2, <2>2
    <3> QED
      BY <1>6, <2>1, <3>1
  <2> QED
    BY <1>3, <2>1, <2>2 DEF SeparatorsAscend
<1>14. ASSUME NEW i \in 1 .. m
       PROVE  left[i] = array[i] /\ Share(left, A, i) = Share(array, R, i)
  <2>1. left[i] = array[i] /\ i < n /\ i \in Nat
    BY <1>2, <1>3
  <2>2. ASSUME i < m
        PROVE  left[i + 1] = array[i + 1] /\ array[i + 1].key < k /\ array[i + 1].key \in Int
    <3>1. i + 1 \in 1 .. m /\ i + 1 \in 2 .. n /\ i + 1 <= m
      BY <1>2, <2>2
    <3> QED
      BY <1>3, <1>5, <1>9, <3>1
  <2>3. i < m \/ i = m
    BY <1>2
  <2>4. ASSUME NEW x \in R
        PROVE  x \in Share(left, A, i) <=> x \in Share(array, R, i)
    <3>1. x \in Int
      OBVIOUS
    <3>2. CASE i < m
      <4>1. x < array[i + 1].key => x < k
        BY <1>8, <2>2, <3>1, <3>2
      <4> QED
        BY <1>1, <1>3, <2>1, <2>2, <3>2, <4>1 DEF Share, Less
    <3>3. CASE i = m
      <4>1. ~(i < Len(left)) /\ i < Len(array) /\ array[i + 1].key = k
        BY <1>1, <1>2, <1>3, <2>1, <3>3
      <4> QED
        BY <2>1, <4>1 DEF Share, Less
    <3> QED
      BY <2>3, <3>2, <3>3
  <2>5. \A x : x \in Share(left, A, i) => x \in R
    BY DEF Share, Less
  <2>6. \A x : x \in Share(array, R, i) => x \in R
    BY DEF Share
  <2>7. Share(left, A, i) = Share(array, R, i)
    BY <2>4, <2>5, <2>6
  <2> QED
    BY <2>1, <2>7
<1>15. ASSUME NEW i \in 1 .. n - m
       PROVE  right[i] = array[m + i] /\ Share(right, B, i) = Share(array, R, m + i)
  <2>1. PICK h : h = m + i
    OBVIOUS
  <2>2. right[i] = array[h] /\ h > 1 /\ h \in 2 .. n /\ m + 1 <= h
    BY <1>2, <1>3, <2>1
  <2>3. i < Len(right) <=> h < Len(array)
    BY <1>1, <1>2, <1>3, <2>1
  <2>4. i < Len(right) => right[i + 1] = array[h + 1]
    <3>1. i < Len(right) => i + 1 \in 1 .. n - m /\ m + (i + 1) = h + 1
      BY <1>2, <1>3, <2>1
    <3> QED
      BY <1>3, <3>1
  <2>5. ASSUME NEW x \in R
        PROVE  x \in Share(right, B, i) <=> x \in Share(array, R, h)
    <3>1. x \in Int
      OBVIOUS
    <3>2. CASE i > 1
      <4>1. array[h].key <= x => k <= x
        <5>1. k <= array[h].key /\ array[h].key \in Int
          BY <1>5, <1>10, <2>2
        <5> QED
          BY <1>8, <3>1, <5>1
      <4> QED
        BY <2>2, <2>3, <2>4, <3>2, <4>1 DEF Share, NotLess
    <3>3. CASE ~(i > 1)
      <4>1. h = m + 1 /\ array[h].key = k
        BY <1>2, <2>1, <3>3
      <4> QED
        BY <2>2, <2>3, <2>4, <3>3, <4>1 DEF Share, NotLess
    <3> QED
      BY <3>2, <3>3
  <2>6. \A x : x \in Share(right, B, i) => x \in R
    BY DEF Share, NotLess
  <2>7. \A x : x \in Share(array, R, h) => x \in R
    BY DEF Share
  <2>8. Share(right, B, i) = Share(array, R, h)
    BY <2>5, <2>6, <2>7
  <2> QED
    BY <2>1, <2>2, <2>8
<1> QED
  BY <1>1, <1>3, <1>8, <1>11, <1>12, <1>13, <1>14, <1>15

=============================================================================
