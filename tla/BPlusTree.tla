----------------------------- MODULE BPlusTree -----------------------------
(***************************************************************************)
(* BPlusTree (src/storage/index/b_plus_tree.cpp): an index with unique     *)
(* keys, stored in pages of the buffer pool.                               *)
(*                                                                         *)
(* GetValue, Insert and Remove hold tree_latch_ from beginning to end.     *)
(* What a call does to one level of the tree is one action; todo says what *)
(* the running call has to do next, and no other call starts before it is  *)
(* done.  (Iterators do not take the latch when they advance, and may see  *)
(* the states in between.)                                                 *)
(*                                                                         *)
(* The pool appears as the array of pages it promises (PageStore): a page  *)
(* id is never used again, because DeletePage leaves the page on disk.  A  *)
(* pool without a free frame makes Insert give up before a leaf splits;    *)
(* later in a call the code would dereference the null pointer, and the    *)
(* model does not go on from there.                                        *)
(*                                                                         *)
(* A definition under a comment "Fault:" is no part of the model: it is a  *)
(* plausible mistake in the definition below it, kept to show that the     *)
(* properties notice it.                                                   *)
(***************************************************************************)
EXTENDS UnorderedMap, BPlusTreePages

CONSTANTS
  Keys,
  Values,       \* record ids
  LeafMax,      \* leaf_max_size_
  InternalMax,  \* internal_max_size_
  MaxPages,     \* bound: a call that may need a page starts while fewer are used
  Absent        \* "not found"

ASSUME KeysAssumption == Keys \subseteq Nat
ASSUME SizesAssumption == LeafMax \in Nat \ {0, 1} /\ InternalMax \in Nat \ {0, 1, 2}
ASSUME BoundAssumption == MaxPages \in Nat
ASSUME ValuesAssumption == Absent \notin Values

VARIABLES
  pages,         \* page id -> the tree page stored in it
  root_page_id,  \* root_page_id_
  header,        \* the record of this index in the header page, or NoRecord
  todo,          \* what the call that holds tree_latch_ does next
  result         \* what the last Insert or GetValue returned

vars == <<pages, root_page_id, header, todo, result>>

INVALID_PAGE_ID == -1
NoRecord == -2

\* The key in the zeroed memory of a new page.
ZeroKey == 0

Idle == [op |-> "idle"]

Leaf(parent, next, array) ==
  [leaf |-> TRUE, parent |-> parent, next |-> next, array |-> array]

Internal(parent, array) ==
  [leaf |-> FALSE, parent |-> parent, next |-> INVALID_PAGE_ID, array |-> array]

Size(p) == Len(pages[p].array)

\* Page ids count up from 1; 0 is the header page.
NewPageId == Cardinality(DOMAIN pages) + 1
MayAllocate == NewPageId <= MaxPages

IsEmpty == root_page_id = INVALID_PAGE_ID
IsRootPage(p) == pages[p].parent = INVALID_PAGE_ID
MaxSize(p) == IF pages[p].leaf THEN LeafMax ELSE InternalMax
MinSize(p) == MaxSize(p) \div 2

\* The pages from the root to the leaf for k; a path is no longer than there are
\* pages.
PathTo(k) ==
  LET Path[n \in 0 .. Cardinality(DOMAIN pages)] ==
        IF n = 0 THEN root_page_id
        ELSE LET p == Path[n - 1]
             IN  IF pages[p].leaf THEN p ELSE ChildFor(pages[p].array, k)
  IN  Path

FindLeafPage(k) == PathTo(k)[Cardinality(DOMAIN pages)]

\* SetParentPageId of every page in the set.
WithParent(store, children, parent) ==
  [p \in DOMAIN store |->
     IF p \in children THEN [store[p] EXCEPT !.parent = parent] ELSE store[p]]

Init ==
  /\ pages = <<>>
  /\ root_page_id = INVALID_PAGE_ID
  /\ header = NoRecord
  /\ todo = Idle
  /\ result = Absent

(***************************************************************************)
(* UpdateRootPageId: HeaderPage::InsertRecord refuses a name it has, and   *)
(* UpdateRecord one it does not have.                                      *)
(***************************************************************************)

InsertRecord(root) == header' = IF header = NoRecord THEN root ELSE header
UpdateRecord(root) == header' = IF header = NoRecord THEN header ELSE root

SetRoot(root) == root_page_id' = root /\ UpdateRecord(root)

(***************************************************************************)
(* GetValue.                                                               *)
(***************************************************************************)

Found(k) == ~IsEmpty /\ Holds(pages[FindLeafPage(k)].array, k)

GetValue(k) ==
  /\ todo = Idle
  /\ result' = IF Found(k) THEN ValueOf(pages[FindLeafPage(k)].array, k) ELSE Absent
  /\ UNCHANGED <<pages, root_page_id, header, todo>>

(***************************************************************************)
(* Insert.                                                                 *)
(***************************************************************************)

StartNewTree(k, v) ==
  /\ todo = Idle
  /\ IsEmpty
  /\ MayAllocate
  /\ pages' = Put(pages, NewPageId,
                  Leaf(INVALID_PAGE_ID, INVALID_PAGE_ID, <<Pair(k, v)>>))
  /\ root_page_id' = NewPageId
  /\ InsertRecord(NewPageId)
  /\ result' = TRUE
  /\ UNCHANGED todo

\* The key is there, or the leaf is full and the pool has no frame for another.
InsertRefused(k) ==
  /\ todo = Idle
  /\ ~IsEmpty
  /\ Found(k) \/ Size(FindLeafPage(k)) >= LeafMax
  /\ result' = FALSE
  /\ UNCHANGED <<pages, root_page_id, header, todo>>

InsertIntoLeaf(k, v) ==
  /\ todo = Idle
  /\ ~IsEmpty /\ ~Found(k)
  /\ LET leaf == FindLeafPage(k)
     IN  /\ Size(leaf) < LeafMax
         /\ pages' = [pages EXCEPT ![leaf].array = LeafInsert(@, k, v)]
  /\ result' = TRUE
  /\ UNCHANGED <<root_page_id, header, todo>>

\* How many of the n pairs of a leaf split stay left.
LeafSplitIndex(n) == n \div 2

\* Fault: the new leaf does not take over the sibling pointer of the old one.
NewLeafUnlinked(leaf, array) == Leaf(pages[leaf].parent, INVALID_PAGE_ID, array)

NewLeaf(leaf, array) == Leaf(pages[leaf].parent, pages[leaf].next, array)

SplitLeaf(k, v) ==
  /\ todo = Idle
  /\ ~IsEmpty /\ ~Found(k)
  /\ MayAllocate
  /\ LET leaf == FindLeafPage(k)
         new == NewPageId
         all == WithPairSorted(pages[leaf].array, k, v)
         split == LeafSplitIndex(Len(all))
         right == Refilled(SubSeq(all, split + 1, Len(all)))
     IN  /\ Size(leaf) >= LeafMax
         /\ pages' =
              Put([pages EXCEPT ![leaf].array = Refilled(SubSeq(all, 1, split)),
                                ![leaf].next = new],
                  new, NewLeaf(leaf, right))
         /\ todo' = [op |-> "insert", old |-> leaf, key |-> right[1].key, new |-> new]
  /\ result' = TRUE
  /\ UNCHANGED <<root_page_id, header>>

\* InsertIntoParent, of a root that was split.
NewRoot ==
  /\ todo.op = "insert"
  /\ IsRootPage(todo.old)
  /\ LET array == <<Pair(ZeroKey, todo.old), Pair(todo.key, todo.new)>>
     IN  pages' = Put(WithParent(pages, {todo.old, todo.new}, NewPageId),
                      NewPageId, Internal(INVALID_PAGE_ID, array))
  /\ SetRoot(NewPageId)
  /\ todo' = Idle
  /\ UNCHANGED result

\* InsertIntoParent, of a page with a parent: the pairs the parent then has.
ParentArray ==
  InsertNodeAfter(pages[pages[todo.old].parent].array, todo.old, todo.key, todo.new)

ParentHasRoom ==
  /\ todo.op = "insert"
  /\ ~IsRootPage(todo.old)
  /\ Len(ParentArray) <= InternalMax
  /\ LET parent == pages[todo.old].parent
     IN  pages' = [pages EXCEPT ![parent].array = ParentArray,
                                ![todo.new].parent = parent]
  /\ todo' = Idle
  /\ UNCHANGED <<root_page_id, header, result>>

\* Fault: all children but one move.
InternalSplitIndexOne(n) == 1

\* How many of n children stay left.
InternalSplitIndex(n) == n \div 2

\* BPlusTreeInternalPage::MoveHalfTo, and the key that moves up.
ParentSplits ==
  /\ todo.op = "insert"
  /\ ~IsRootPage(todo.old)
  /\ Len(ParentArray) > InternalMax
  /\ LET parent == pages[todo.old].parent
         new == NewPageId
         split == InternalSplitIndex(Len(ParentArray))
         right == SubSeq(ParentArray, split + 1, Len(ParentArray))
         inserted == [pages EXCEPT ![parent].array = SubSeq(ParentArray, 1, split),
                                   ![todo.new].parent = parent]
     IN  /\ pages' = Put(WithParent(inserted, Children(right), new),
                         new, Internal(pages[parent].parent, right))
         /\ todo' = [op |-> "insert", old |-> parent, key |-> right[1].key, new |-> new]
  /\ UNCHANGED <<root_page_id, header, result>>

(***************************************************************************)
(* Remove.  A key that is not there: nothing changes.                      *)
(***************************************************************************)

\* Fault: the size is read before the removal.
UnderflowsLate(p) == Size(p) < MinSize(p)

\* The page is short of pairs when it has lost one.
Underflows(p) == Size(p) - 1 < MinSize(p)

RemoveFromLeaf(k) ==
  /\ todo = Idle
  /\ Found(k)
  /\ LET leaf == FindLeafPage(k)
     IN  /\ pages' = [pages EXCEPT ![leaf].array = LeafRemove(@, k)]
         /\ IF IsRootPage(leaf)
            THEN /\ IF Size(leaf) = 1 THEN SetRoot(INVALID_PAGE_ID)
                                      ELSE UNCHANGED <<root_page_id, header>>
                 /\ UNCHANGED todo
            ELSE /\ todo' = IF Underflows(leaf) THEN [op |-> "underflow", page |-> leaf]
                                                ELSE Idle
                 /\ UNCHANGED <<root_page_id, header>>
  /\ UNCHANGED result

\* CoalesceOrRedistribute and CoalesceOrRedistributeInternal look at the page on
\* the left, or on the right of a leftmost page.  The separator is the key between
\* the two in their parent.
Parent == pages[todo.page].parent
Siblings == pages[Parent].array
Position == PositionOf(Siblings, todo.page)
FromLeft == Position > 1
SiblingPosition == IF FromLeft THEN Position - 1 ELSE Position + 1
SeparatorPosition == IF FromLeft THEN Position ELSE Position + 1
Separator == Siblings[SeparatorPosition].key
Sibling == Siblings[SiblingPosition].value

\* An internal page is reached with at least one sibling when internal_max_size_ is
\* at least 4; with 3 a parent may be left with one child, and ValueAt would read
\* the slot behind it.
Underflowing ==
  /\ todo.op = "underflow"
  /\ SiblingPosition \in 1 .. Len(Siblings)

\* In an internal page, the pair at the border takes the separator for its key.
Moved(pair) == IF pages[todo.page].leaf THEN pair ELSE Pair(Separator, pair.value)

\* Fault: the children are not told.
AdoptNobody(store, pairs, page) == store

\* SetParentPageId of the children an internal page receives.
Adopt(store, pairs, page) ==
  IF pages[page].leaf THEN store ELSE WithParent(store, Children(pairs), page)

\* MoveLastToFrontOf.
RedistributeFromLeft ==
  /\ Underflowing /\ FromLeft
  /\ Size(Sibling) > MinSize(Sibling)
  /\ LET moved == Moved(pages[Sibling].array[Size(Sibling)])
     IN  pages' = Adopt([pages EXCEPT
                           ![Sibling].array = SubSeq(@, 1, Size(Sibling) - 1),
                           ![todo.page].array = <<moved>> \o @,
                           ![Parent].array = SetKeyAt(@, SeparatorPosition, moved.key)],
                        <<moved>>, todo.page)
  /\ todo' = Idle
  /\ UNCHANGED <<root_page_id, header, result>>

\* MoveFirstToEndOf.
RedistributeFromRight ==
  /\ Underflowing /\ ~FromLeft
  /\ Size(Sibling) > MinSize(Sibling)
  /\ LET moved == Moved(pages[Sibling].array[1])
         new_first == pages[Sibling].array[2].key
     IN  pages' = Adopt([pages EXCEPT
                           ![Sibling].array = Tail(@),
                           ![todo.page].array = Append(@, moved),
                           ![Parent].array = SetKeyAt(@, SeparatorPosition, new_first)],
                        <<moved>>, todo.page)
  /\ todo' = Idle
  /\ UNCHANGED <<root_page_id, header, result>>

\* Fault: what the recipient holds is overwritten.
MergedOver(array, moved) == moved

\* MoveAllTo: everything goes behind what the recipient holds.
Merged(array, moved) == array \o moved

\* The left sibling, or a leftmost page itself, is emptied and leaves the parent.
Coalesce ==
  /\ Underflowing
  /\ Size(Sibling) <= MinSize(Sibling)
  /\ LET from == IF FromLeft THEN Sibling ELSE todo.page
         to == IF FromLeft THEN todo.page ELSE Sibling
         moved == [i \in 1 .. Size(from) |->
                     IF i = 1 THEN Moved(pages[from].array[i]) ELSE pages[from].array[i]]
     IN  pages' = Adopt([pages EXCEPT
                           ![from].array = <<>>,
                           ![to].array = Merged(@, moved),
                           ![to].next = pages[from].next,
                           ![Parent].array = InternalRemove(@, PositionOf(@, from))],
                        moved, to)
  /\ todo' = IF IsRootPage(Parent) THEN [op |-> "adjust root", page |-> Parent]
             ELSE IF Underflows(Parent) THEN [op |-> "underflow", page |-> Parent]
                  ELSE Idle
  /\ UNCHANGED <<root_page_id, header, result>>

\* Fault: KeyAt(0) for ValueAt(0).
OnlyChildKey(array) == array[1].key

OnlyChild(array) == array[1].value

\* Fault: off by one.
GivesWayEarly(array) == Len(array) <= 2

GivesWay(array) == Len(array) <= 1

\* Fault: AdjustRoot is called again for the old root, over and over.
AdjustRootAgain ==
  /\ todo.op = "adjust root"
  /\ UNCHANGED vars

\* A root without children leaves the tree empty, a root with one child gives way
\* to it.
AdjustRoot ==
  /\ todo.op = "adjust root"
  /\ LET array == pages[todo.page].array
         root == IF array = <<>> THEN INVALID_PAGE_ID ELSE OnlyChild(array)
     IN  IF GivesWay(array)
         THEN /\ pages' = WithParent(pages, {root}, INVALID_PAGE_ID)
              /\ SetRoot(root)
         ELSE UNCHANGED <<pages, root_page_id, header>>
  /\ todo' = Idle
  /\ UNCHANGED result

-----------------------------------------------------------------------------

InsertStep == NewRoot \/ ParentHasRoom \/ ParentSplits

RemoveStep ==
  \/ RedistributeFromLeft
  \/ RedistributeFromRight
  \/ Coalesce
  \/ AdjustRoot

InsertNext ==
  \/ InsertStep
  \/ \E k \in Keys :
       \/ GetValue(k)
       \/ InsertRefused(k)
       \/ \E v \in Values : StartNewTree(k, v) \/ InsertIntoLeaf(k, v) \/ SplitLeaf(k, v)

Next ==
  \/ InsertNext
  \/ RemoveStep
  \/ \E k \in Keys : RemoveFromLeaf(k)

\* The call that holds tree_latch_ waits for nobody.
Fairness == WF_vars(InsertStep \/ RemoveStep)

Spec == Init /\ [][Next]_vars /\ Fairness

\* An index that only grows.
GrowingSpec == Init /\ [][InsertNext]_vars

-----------------------------------------------------------------------------

Pairs == [key : Keys \cup {ZeroKey}, value : Values \cup DOMAIN pages]

Todo ==
  {Idle}
    \cup [op : {"insert"}, old : DOMAIN pages, key : Keys \cup {ZeroKey},
           new : DOMAIN pages]
    \cup [op : {"underflow", "adjust root"}, page : DOMAIN pages]

TypeOK ==
  /\ IsFiniteSet(DOMAIN pages)
  /\ \A p \in DOMAIN pages :
       /\ pages[p].leaf \in BOOLEAN
       /\ {pages[p].parent, pages[p].next} \subseteq DOMAIN pages \cup {INVALID_PAGE_ID}
       /\ \A i \in 1 .. Size(p) : pages[p].array[i] \in Pairs
  /\ root_page_id \in DOMAIN pages \cup {INVALID_PAGE_ID}
  /\ header \in DOMAIN pages \cup {INVALID_PAGE_ID, NoRecord}
  /\ todo \in Todo
  /\ result \in Values \cup BOOLEAN \cup {Absent}

(***************************************************************************)
(* The shape of the tree, between calls.                                   *)
(***************************************************************************)

ChildrenOf(p) == IF pages[p].leaf THEN {} ELSE Children(pages[p].array)

\* A page and everything below it; Reached[n] are the pages up to n levels down.
Below(p) ==
  LET Reached[n \in 0 .. Cardinality(DOMAIN pages)] ==
        IF n = 0 THEN {p}
        ELSE LET above == Reached[n - 1]
             IN  above \cup UNION {ChildrenOf(q) : q \in above}
  IN  Reached[Cardinality(DOMAIN pages)]

InTree == IF IsEmpty THEN {} ELSE Below(root_page_id)

\* Splits, borrowings and merges hand children from page to page, each with a
\* write to the child's own parent_page_id_, which the next split or merge will
\* follow.  The parent a page names is the page that points to it, once; exactly
\* the root names none.
ParentsAgree ==
  todo = Idle =>
    /\ \A p \in InTree : pages[p].parent = INVALID_PAGE_ID <=> p = root_page_id
    /\ \A p \in InTree : \A i \in 1 .. Size(p) :
         ~pages[p].leaf =>
           /\ pages[pages[p].array[i].value].parent = p
           /\ PositionOf(pages[p].array, pages[p].array[i].value) = i

\* How far down the leaves are; Row[n] are the pages n levels below the root.
Depths ==
  LET Row[n \in 0 .. Cardinality(DOMAIN pages)] ==
        IF n = 0 THEN {root_page_id}
        ELSE LET above == Row[n - 1] IN UNION {ChildrenOf(q) : q \in above}
  IN  {n \in 0 .. Cardinality(DOMAIN pages) : \E p \in Row[n] : pages[p].leaf}

\* All leaves are equally deep, no page holds more than it may, and internal pages
\* at least half of that; an internal root may hold less, but has two children.
Balanced ==
  todo = Idle =>
    /\ ~IsEmpty => Cardinality(Depths) = 1
    /\ \A p \in InTree :
         /\ Size(p) <= MaxSize(p)
         /\ ~pages[p].leaf => Size(p) >= IF p = root_page_id THEN 2 ELSE MinSize(p)

\* Leaves are at least half full, too, for as long as no key is inserted twice: the
\* split of a leaf that holds a key twice drops one of the pairs.
LeavesAreHalfFull ==
  todo = Idle =>
    \A p \in InTree : pages[p].leaf =>
      Size(p) >= IF p = root_page_id THEN 1 ELSE MinSize(p)

(***************************************************************************)
(* What is stored.                                                         *)
(***************************************************************************)

LeafPages == {p \in DOMAIN pages : pages[p].leaf}
PairsOf(p) == {pages[p].array[i] : i \in 1 .. Size(p)}
KeysOf(p) == {pair.key : pair \in PairsOf(p)}

\* The pairs of all leaf pages, each with how often it is stored.
Stored == UNION {PairsOf(p) : p \in LeafPages}
Copies(pair) ==
  {at \in LeafPages \X (1 .. LeafMax) :
     at[2] <= Size(at[1]) /\ pages[at[1]].array[at[2]] = pair}

\* Borrowing, merging and root changes, and what InsertIntoParent does above the
\* leaves, neither lose nor duplicate a pair, whichever pages they choose.  The split
\* of a leaf, which starts from Idle, is not among these steps: it loses a pair if the
\* leaf holds a key twice, as it may after a merge.
RestructuringKeepsPairs ==
  [][todo # Idle =>
       /\ Stored' = Stored
       /\ \A pair \in Stored : Cardinality(Copies(pair)) = Cardinality(Copies(pair)')]_vars

\* A page that is cut off the tree has nothing left in it.
NothingIsStranded ==
  todo = Idle => \A p \in LeafPages \ InTree : pages[p].array = <<>>

\* The recursion up the tree ends: every call returns and frees tree_latch_.
EveryCallReturns == todo # Idle ~> todo = Idle

(***************************************************************************)
(* What a tree that only grows promises.                                   *)
(***************************************************************************)

KeysBelow(p) == UNION {KeysOf(q) : q \in Below(p) \cap LeafPages}

\* A separator is greater than every key left of it and not greater than any key
\* right of it, through the whole height of the tree: several splits in a row
\* hand separators up.
SeparatorsSeparate ==
  todo = Idle =>
    \A p \in InTree \ LeafPages : \A i \in 2 .. Size(p) :
      LET separator == pages[p].array[i].key
      IN  /\ \A k \in KeysBelow(pages[p].array[i - 1].value) : k < separator
          /\ \A k \in KeysBelow(pages[p].array[i].value) : separator <= k

\* The leaves with greater keys than a leaf has.
LeavesBehind(p) ==
  {q \in (InTree \cap LeafPages) \ {p} : \A j \in KeysOf(p), k \in KeysOf(q) : j < k}

\* The sibling pointers an iterator follows visit the leaves in the order of their
\* keys and leave none out: of two leaves one is behind the other, a leaf names the
\* first of those behind it, and the last leaf names none.
LeafChainIsInOrder ==
  todo = Idle =>
    \A p \in InTree \cap LeafPages :
      /\ \A q \in InTree \cap LeafPages : p # q => q \in LeavesBehind(p) \/ p \in LeavesBehind(q)
      /\ IF LeavesBehind(p) = {} THEN pages[p].next = INVALID_PAGE_ID
         ELSE /\ pages[p].next \in LeavesBehind(p)
              /\ LeavesBehind(p) \ {pages[p].next} \subseteq LeavesBehind(pages[p].next)

\* b_plus_tree_leaf_page.h:29: "keys are stored in order".
KeysAreInOrder ==
  \A p \in LeafPages : \A i, j \in 1 .. Size(p) :
    i < j => pages[p].array[i].key < pages[p].array[j].key

\* b_plus_tree_leaf_page.h:27: "Only support unique key."
KeysAreUnique ==
  todo = Idle =>
    \A p, q \in InTree \cap LeafPages : p # q => KeysOf(p) \cap KeysOf(q) = {}

\* b_plus_tree.cpp:70 (translated): "update the root record in the HeaderPage
\* along with it".
HeaderNamesRoot == header = root_page_id \/ (header = NoRecord /\ IsEmpty)

(***************************************************************************)
(* The abstract index.                                                     *)
(***************************************************************************)

Contents == [k \in {pair.key : pair \in Stored} |->
               (CHOOSE pair \in Stored : pair.key = k).value]

Index == INSTANCE UniqueIndex WITH map <- Contents

\* Inserts and lookups through the tree are inserts and lookups in a map: no key
\* gets lost, found under another value, or inserted twice, however leaves and
\* internal pages split.
ImplementsIndex == Index!Spec

=============================================================================
