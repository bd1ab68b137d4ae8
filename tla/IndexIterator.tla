--------------------------- MODULE IndexIterator ---------------------------
(***************************************************************************)
(* IndexIterator (src/storage/index/index_iterator.cpp): scans of the      *)
(* leaves of a BPlusTree, from Begin() or Begin(key) by operator++ to      *)
(* End().                                                                  *)
(*                                                                         *)
(* Begin takes tree_latch_; operator++ does not.  It steps between the     *)
(* actions of a running call, and it may read a leaf in the middle of a    *)
(* split, while its size counts up from 0 again (AdvanceDuringSplit).      *)
(* Leaving a leaf and entering the next one are two actions: in between    *)
(* the iterator has no page pinned.                                        *)
(*                                                                         *)
(* operator* and IsEnd only read.  An iterator is not copied: the copies   *)
(* would share one pin, and each would give it back.                       *)
(*                                                                         *)
(* A definition under a comment "Fault:" is no part of the model.          *)
(***************************************************************************)
EXTENDS BPlusTree

CONSTANTS
  Iterators,
  Nowhere     \* an iterator that is not constructed

ASSUME NowhereAssumption ==
  Nowhere \notin [page : Nat \cup {INVALID_PAGE_ID}, index : Nat \cup {-1}]

VARIABLES
  it,   \* where each iterator is
  due   \* history: the keys stored when its scan began that it still has to come to

ivars == <<vars, it, due>>

\* At a position of a pinned leaf; in operator++ on the way to a leaf; at the end.
At(p, i) == [page |-> p, index |-> i]
OnTheWayTo(p) == [page |-> p, index |-> -1]
Ended == [page |-> INVALID_PAGE_ID, index |-> 0]

Standing(i) == it[i] # Nowhere /\ it[i].page # INVALID_PAGE_ID /\ it[i].index >= 0
Leaving(i) == it[i] # Nowhere /\ it[i].index = -1

\* operator*: the pair an iterator in the leaf stands at.
Item(at) == pages[at.page].array[at.index + 1]
IsPair(at) == at # Ended /\ at.index \in 0 .. Size(at.page) - 1

IteratorsInit ==
  /\ Init
  /\ it = [i \in Iterators |-> Nowhere]
  /\ due = [i \in Iterators |-> {}]

-----------------------------------------------------------------------------
\* Begin.

LeftmostLeaf ==
  LET Path[n \in 0 .. Cardinality(DOMAIN pages)] ==
        IF n = 0 THEN root_page_id
        ELSE LET p == Path[n - 1]
             IN  IF pages[p].leaf THEN p ELSE pages[p].array[1].value
  IN  Path[Cardinality(DOMAIN pages)]

\* An empty leaf is no beginning.
FirstOf(p) == IF pages[p].array = <<>> THEN Ended ELSE At(p, 0)

BeginOfAll == IF IsEmpty THEN Ended ELSE FirstOf(LeftmostLeaf)

\* A linear search: the first position with a key not less than k, 0 for none.
FirstNotLess(array, k) == Lists!SelectInSeq(array, LAMBDA pair : pair.key >= k)

\* Fault: the right sibling is not looked at.
BeginAtInOneLeaf(k) ==
  LET leaf == FindLeafPage(k)
      i == FirstNotLess(pages[leaf].array, k)
  IN  IF IsEmpty \/ i = 0 THEN Ended ELSE At(leaf, i - 1)

\* In the leaf for k, and then its right sibling.
BeginAt(k) ==
  LET leaf == FindLeafPage(k)
      i == FirstNotLess(pages[leaf].array, k)
  IN  IF IsEmpty THEN Ended
      ELSE IF i # 0 THEN At(leaf, i - 1)
      ELSE IF pages[leaf].next = INVALID_PAGE_ID THEN Ended
      ELSE FirstOf(pages[leaf].next)

Begin(i, at, keys) ==
  /\ todo = Idle
  /\ it[i] = Nowhere
  /\ it' = [it EXCEPT ![i] = at]
  /\ due' = [due EXCEPT ![i] = keys]
  /\ UNCHANGED vars

StoredKeys == {pair.key : pair \in Stored}

BeginScan(i) ==
  \/ Begin(i, BeginOfAll, StoredKeys)
  \/ \E k \in Keys : Begin(i, BeginAt(k), {n \in StoredKeys : n >= k})

-----------------------------------------------------------------------------
\* operator++.

\* Fault: the scan stays where it is at the end of the last leaf.
AfterLeafForever(p, next) == IF next = INVALID_PAGE_ID THEN At(p, 0) ELSE OnTheWayTo(next)

\* The leaf p is unpinned.
AfterLeaf(p, next) == IF next = INVALID_PAGE_ID THEN Ended ELSE OnTheWayTo(next)

\* The next position, in a leaf of that size and with that sibling.
AfterIn(at, size, next) ==
  IF at.index + 1 < size THEN At(at.page, at.index + 1) ELSE AfterLeaf(at.page, next)

\* The key it stands at, which has its turn before operator++.
Here(i) == IF IsPair(it[i]) THEN {Item(it[i]).key} ELSE {}

Advance(i) ==
  /\ Standing(i)
  /\ it' = [it EXCEPT ![i] = AfterIn(@, Size(@.page), pages[@.page].next)]
  /\ due' = [due EXCEPT ![i] = @ \ Here(i)]
  /\ UNCHANGED vars

\* Fault: index_ is not reset to the first pair.
EnterAtSecond(p) == IF Size(p) < 2 THEN Ended ELSE At(p, 1)

Enter(p) == FirstOf(p)

EnterNextLeaf(i) ==
  /\ Leaving(i)
  /\ it' = [it EXCEPT ![i] = Enter(@.page)]
  /\ UNCHANGED <<vars, due>>

\* Every frame is pinned: the scan ends where it is, and has nothing more to come to.
NextLeafUnavailable(i) ==
  /\ Leaving(i)
  /\ it' = [it EXCEPT ![i] = Ended]
  /\ due' = [due EXCEPT ![i] = {}]
  /\ UNCHANGED vars

\* The leaf is just being split: operator++ finds any size up to LeafMax, and the
\* old sibling or the new one.  It may leave keys of this leaf behind, which the scan
\* does not have to come to any more; the keys of all other leaves it still has to.
AdvanceDuringSplit(i, k, v) ==
  /\ Standing(i)
  /\ ~IsEmpty /\ it[i].page = FindLeafPage(k)
  /\ SplitLeaf(k, v)
  /\ \E size \in 0 .. LeafMax, next \in {pages[it[i].page].next, NewPageId} :
       it' = [it EXCEPT ![i] = AfterIn(@, size, next)]
  /\ due' = [due EXCEPT ![i] = @ \ (Here(i) \cup KeysOf(it[i].page))]

\* At the end of a scan, or earlier.
Destroy(i) ==
  /\ it[i] # Nowhere /\ ~Leaving(i)
  /\ it' = [it EXCEPT ![i] = Nowhere]
  /\ due' = [due EXCEPT ![i] = {}]
  /\ UNCHANGED vars

IteratorStep(i) == Advance(i) \/ EnterNextLeaf(i)

IteratorNext ==
  \E i \in Iterators :
    \/ IteratorStep(i)
    \/ BeginScan(i)
    \/ NextLeafUnavailable(i)
    \/ Destroy(i)
    \/ \E k \in Keys, v \in Values : AdvanceDuringSplit(i, k, v)

\* A scan is a loop that calls operator++ until the end.
IteratorFairness == \A i \in Iterators : WF_ivars(IteratorStep(i))

\* Scans of an index that only grows.
GrowingScanNext ==
  \/ IteratorNext
  \/ InsertNext /\ UNCHANGED <<it, due>>

GrowingScanSpec == IteratorsInit /\ [][GrowingScanNext]_ivars /\ IteratorFairness

\* Scans of an index from which keys are removed as well.
ScanNext ==
  \/ IteratorNext
  \/ Next /\ UNCHANGED <<it, due>>

ScanSpec == IteratorsInit /\ [][ScanNext]_ivars /\ IteratorFairness

-----------------------------------------------------------------------------

\* The keys a scan can still come to.
Ahead(i) ==
  LET From[p \in DOMAIN pages \cup {INVALID_PAGE_ID}] ==
        IF p = INVALID_PAGE_ID THEN {} ELSE KeysOf(p) \cup From[pages[p].next]
      p == it[i].page
  IN  CASE Standing(i) ->
             {pages[p].array[j].key : j \in it[i].index + 1 .. Size(p)} \cup From[pages[p].next]
        [] Leaving(i) -> From[p]
        [] OTHER -> {}

\* While the index grows under a scan, splits between its steps let it miss none of
\* the keys that were stored when it began, wherever it stands or goes: they stay
\* ahead of it, until at the end there are none.  Two scans are exempt.  One with an
\* operator++ that reads its leaf in the middle of a split can miss keys of that leaf,
\* but of no other.  And one that finds no frame for the next leaf ends there.
ScanMissesNoOtherLeaf == \A i \in Iterators : due[i] \subseteq Ahead(i)

\* Every scan of a growing index ends, also one that meets a leaf in the middle of
\* a split: the chain of leaves has no way back.
ScanEnds == \A i \in Iterators : it[i] # Nowhere ~> it[i] \in {Ended, Nowhere}

\* b_plus_tree.cpp:342 (translated): "Begin with a key: returns the first position
\* >= key".
BeginIsFirstNotLess ==
  todo = Idle =>
    \A k \in Keys :
      LET not_less == {n \in StoredKeys : n >= k}
      IN  IF not_less = {} THEN BeginAt(k) = Ended
          ELSE /\ IsPair(BeginAt(k))
               /\ Item(BeginAt(k)).key \in not_less
               /\ \A n \in not_less : Item(BeginAt(k)).key <= n

\* index_iterator.h:35: "advance to next entry; if moved past end, becomes end
\* iterator".
AdvanceReachesNextEntry ==
  todo = Idle =>
    \A i \in Iterators :
      Standing(i) /\ IsPair(it[i]) =>
        LET greater == {n \in StoredKeys : n > Item(it[i]).key}
            left == AfterIn(it[i], Size(it[i].page), pages[it[i].page].next)
            after == IF left.index = -1 THEN Enter(left.page) ELSE left
        IN  IF greater = {} THEN after = Ended
            ELSE /\ IsPair(after)
                 /\ Item(after).key \in greater
                 /\ \A n \in greater : Item(after).key <= n

=============================================================================
