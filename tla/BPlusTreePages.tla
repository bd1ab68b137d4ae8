--------------------------- MODULE BPlusTreePages ---------------------------
(***************************************************************************)
(* The arrays of tree pages (src/storage/page/b_plus_tree_leaf_page.cpp    *)
(* and b_plus_tree_internal_page.cpp), as pure operators.  An array is the *)
(* sequence of its GetSize() pairs; the code's index i is position i + 1.  *)
(*                                                                         *)
(* In a leaf the values are record ids; in an internal page they are child *)
(* page ids, and the key of the first pair takes no part in searching but  *)
(* is stored, moved and read like the others.                              *)
(*                                                                         *)
(* A definition under a comment "Fault:" is no part of the model: it is a  *)
(* plausible mistake in the definition below it, kept to show that the     *)
(* properties notice it.                                                   *)
(***************************************************************************)
EXTENDS Integers, Sequences, FiniteSets

Lists == INSTANCE SequencesExt

Pair(k, v) == [key |-> k, value |-> v]

\* The bisection of std::lower_bound and std::upper_bound over positions 1 .. n:
\* how many positions at the front are before the sought one.  On an array that is
\* out of order the outcome depends on the probes, as it does in the code.
\* Bracket[i] bounds the outcome after i probes; n are enough.
PartitionPoint(n, before) ==
  LET Bracket[i \in 0 .. n] ==
        IF i = 0 THEN <<0, n>>
        ELSE LET last == Bracket[i - 1]
                 low == last[1]
                 high == last[2]
                 middle == low + (high - low) \div 2
             IN  IF low = high THEN <<low, high>>
                 ELSE IF middle + 1 \in before THEN <<middle + 1, high>>
                 ELSE <<low, middle>>
  IN  Bracket[n][1]

(***************************************************************************)
(* Leaf pages.                                                             *)
(***************************************************************************)

\* The position of the first key that is not less than k.
LowerBound(array, k) ==
  1 + PartitionPoint(Len(array), {i \in 1 .. Len(array) : array[i].key < k})

\* BPlusTreeLeafPage::Lookup.
Holds(array, k) ==
  LET i == LowerBound(array, k) IN i <= Len(array) /\ array[i].key = k

ValueOf(array, k) == array[LowerBound(array, k)].value

\* Fault: the pair goes to the end.
LeafInsertAtEnd(array, k, v) == Append(array, Pair(k, v))

\* Insert, into a page with room that does not hold k.
LeafInsert(array, k, v) == Lists!InsertAt(array, LowerBound(array, k), Pair(k, v))

\* RemoveAndDeleteRecord, of a key the page holds.
LeafRemove(array, k) == Lists!RemoveAt(array, LowerBound(array, k))

\* The temporary vector of a leaf split: the pairs of the full page and the new
\* one, sorted by insertion, as std::sort does with so few.
WithPairSorted(array, k, v) ==
  LET pairs == Append(array, Pair(k, v))
      Sorted[i \in 0 .. Len(pairs)] ==
        IF i = 0 THEN <<>>
        ELSE LET front == Sorted[i - 1]
                 behind == {j \in 1 .. Len(front) : front[j].key <= pairs[i].key}
             IN  Lists!InsertAt(front, Cardinality(behind) + 1, pairs[i])
  IN  Sorted[Len(pairs)]

\* A cleared page filled again, pair by pair, by Insert (which refuses a key the
\* page holds).
Refilled(pairs) ==
  LET Filled[i \in 0 .. Len(pairs)] ==
        IF i = 0 THEN <<>>
        ELSE LET array == Filled[i - 1]
             IN  IF Holds(array, pairs[i].key) THEN array
                 ELSE LeafInsert(array, pairs[i].key, pairs[i].value)
  IN  Filled[Len(pairs)]

(***************************************************************************)
(* Internal pages.                                                         *)
(***************************************************************************)

\* Fault: lower_bound instead of upper_bound.
ChildForByLowerBound(array, k) ==
  array[1 + PartitionPoint(Len(array) - 1,
                           {i \in 1 .. Len(array) - 1 : array[i + 1].key < k})].value

\* BPlusTreeInternalPage::Lookup: the child left of the first separator greater
\* than k.
ChildFor(array, k) ==
  array[1 + PartitionPoint(Len(array) - 1,
                           {i \in 1 .. Len(array) - 1 : array[i + 1].key <= k})].value

\* The position ValueIndex finds, the first with that child.
PositionOf(array, child) == Lists!SelectInSeq(array, LAMBDA pair : pair.value = child)

\* Fault: the new child goes to the left of the old one.
InsertNodeBefore(array, old, k, new) ==
  Lists!InsertAt(array, PositionOf(array, old), Pair(k, new))

InsertNodeAfter(array, old, k, new) ==
  Lists!InsertAt(array, PositionOf(array, old) + 1, Pair(k, new))

InternalRemove(array, i) == Lists!RemoveAt(array, i)

SetKeyAt(array, i, k) == [array EXCEPT ![i].key = k]

Children(array) == {array[i].value : i \in 1 .. Len(array)}

=============================================================================
