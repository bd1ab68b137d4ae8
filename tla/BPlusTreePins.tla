--------------------------- MODULE BPlusTreePins ---------------------------
(***************************************************************************)
(* What the calls of the tree ask of the buffer pool: the pages each       *)
(* action of BPlusTree pins, writes through its Page * and unpins, in the  *)
(* order of the code.  A function of the code that has called another one  *)
(* (InsertIntoLeaf and InsertIntoParent going up, Remove and               *)
(* CoalesceOrRedistribute likewise) keeps its pages until that returns.    *)
(*                                                                         *)
(* DeletePage is left out: a pinned page it refuses, and of another one it *)
(* drops only the cached copy, which callers of the pool do not see        *)
(* (PageStore).                                                            *)
(*                                                                         *)
(* A definition under a comment "Fault:" is no part of the model.          *)
(***************************************************************************)
EXTENDS BPlusTree, Bags

VARIABLES
  held,  \* pages the functions of the running call have yet to unpin, last first
  pool   \* the pins of the call and what became of its writes

pvars == <<vars, held, pool>>

HEADER_PAGE_ID == 0

\* pins: how often each page is pinned; peak: the most pages that were pinned at
\* once in the last step; undeclared: pages written since they were last unpinned
\* as dirty; misused: pages written or unpinned without a pin, or given up with a
\* write nobody declared.
PoolInit == [pins |-> EmptyBag, peak |-> 0, undeclared |-> {}, misused |-> {}]

PinsInit == Init /\ held = <<>> /\ pool = PoolInit

(***************************************************************************)
(* Calls.                                                                  *)
(***************************************************************************)

\* FetchPage or NewPage.
Pin(p) == <<[call |-> "pin", page |-> p]>>
Write(p) == <<[call |-> "write", page |-> p]>>
Unpin(p, is_dirty) == <<[call |-> "unpin", page |-> p, is_dirty |-> is_dirty]>>

Pinned(state) == BagToSet(state.pins)

AfterPin(state, p) ==
  LET pins == state.pins (+) SetToBag({p})
      count == Cardinality(BagToSet(pins))
  IN  [state EXCEPT !.pins = pins, !.peak = IF count > @ THEN count ELSE @]

AfterWrite(state, p) ==
  [state EXCEPT !.undeclared = @ \cup {p},
                !.misused = @ \cup ({p} \ Pinned(state))]

AfterUnpin(state, p, is_dirty) ==
  LET pins == state.pins (-) SetToBag({p})
      undeclared == IF is_dirty THEN state.undeclared \ {p} ELSE state.undeclared
      given_up == undeclared \ BagToSet(pins)
  IN  [state EXCEPT !.pins = pins,
                    !.undeclared = undeclared,
                    !.misused = @ \cup given_up \cup ({p} \ Pinned(state))]

After(state, c) ==
  CASE c.call = "pin" -> AfterPin(state, c.page)
    [] c.call = "write" -> AfterWrite(state, c.page)
    [] c.call = "unpin" -> AfterUnpin(state, c.page, c.is_dirty)

Perform(calls) ==
  pool' = Lists!FoldLeft(After, [pool EXCEPT !.peak = Cardinality(Pinned(pool))], calls)

\* The running function calls another one and keeps some pages.
Keep(calls, kept) ==
  /\ Perform(calls)
  /\ held' = kept \o held

\* Fault: the functions say they only read.
ReturningClean == Lists!FlattenSeq([i \in 1 .. Len(held) |-> Unpin(held[i], FALSE)])

\* The functions of the call return, the innermost first; all of them have
\* written what they hold.
Returning == Lists!FlattenSeq([i \in 1 .. Len(held) |-> Unpin(held[i], TRUE)])

Return(calls) ==
  /\ Perform(calls \o Returning)
  /\ held' = <<>>

-----------------------------------------------------------------------------

\* The inner pages on the way to the leaf for k.
InnerPages(k) == {n \in DOMAIN PathTo(k) : ~pages[PathTo(k)[n]].leaf}

\* FindLeafPage: a page is unpinned before its child is fetched.
Descent(k) ==
  Lists!FlattenSeq(
    [n \in 1 .. Cardinality(InnerPages(k)) |->
       LET page == PathTo(k)[n - 1] IN Pin(page) \o Unpin(page, FALSE)])
    \o Pin(FindLeafPage(k))

\* GetValue, Insert or Remove that changes nothing.
ReadingLeaf(k) ==
  IF IsEmpty THEN <<>> ELSE Descent(k) \o Unpin(FindLeafPage(k), FALSE)

\* UpdateRootPageId.
WritingHeader == Pin(HEADER_PAGE_ID) \o Write(HEADER_PAGE_ID) \o Unpin(HEADER_PAGE_ID, TRUE)

\* Fault: every child is fetched before the first is unpinned.
AdoptingAtOnce(children) ==
  LET all(Op(_)) == Lists!FlattenSeq([i \in 1 .. Len(children) |-> Op(children[i].value)])
  IN  all(Pin) \o all(Write) \o all(LAMBDA c : Unpin(c, TRUE))

\* The children an internal page receives are told, one after the other.
Adopting(children) ==
  Lists!FlattenSeq(
    [i \in 1 .. Len(children) |->
       LET child == children[i].value IN Pin(child) \o Write(child) \o Unpin(child, TRUE)])

StartingTree == Pin(NewPageId) \o Write(NewPageId) \o WritingHeader \o Unpin(NewPageId, TRUE)

WritingLeaf(k) == Descent(k) \o Write(FindLeafPage(k)) \o Unpin(FindLeafPage(k), TRUE)

SplittingLeaf(k) ==
  Descent(k) \o Pin(NewPageId) \o Write(FindLeafPage(k)) \o Write(NewPageId)

KeptBySplit(old, new) == <<old, new>>

MakingRoot ==
  Pin(NewPageId) \o Write(NewPageId) \o Write(todo.old) \o Write(todo.new)
    \o WritingHeader \o Unpin(NewPageId, TRUE)

OldParent == pages[todo.old].parent

WritingParent == Pin(OldParent) \o Write(OldParent) \o Write(todo.new)

SplittingParent ==
  WritingParent \o Pin(NewPageId) \o Write(NewPageId)
    \o Adopting(SubSeq(ParentArray, InternalSplitIndex(Len(ParentArray)) + 1, Len(ParentArray)))

\* Fault: the new page is forgotten.
KeptByParentSplitButNew(parent, new) == <<parent>>

KeptByParentSplit(parent, new) == <<new, parent>>

-----------------------------------------------------------------------------

RemovingFromLeaf(k) ==
  Descent(k) \o Write(FindLeafPage(k))
    \o IF IsRootPage(FindLeafPage(k)) /\ Size(FindLeafPage(k)) = 1 THEN WritingHeader ELSE <<>>

\* Pairs that move between an internal page and its sibling are children.
Moving(pairs) == IF pages[todo.page].leaf THEN <<>> ELSE Adopting(pairs)

\* A page and its sibling exchange pairs.
WritingSiblings(pairs) ==
  Pin(Parent) \o Pin(Sibling) \o Write(Sibling) \o Write(todo.page) \o Moving(pairs)

Redistributing ==
  LET array == pages[Sibling].array
  IN  WritingSiblings(<<array[IF FromLeft THEN Len(array) ELSE 1]>>)
        \o Write(Parent) \o Unpin(Sibling, TRUE) \o Unpin(Parent, TRUE)

Coalescing ==
  WritingSiblings(pages[IF FromLeft THEN Sibling ELSE todo.page].array)
    \o Unpin(Sibling, TRUE) \o Write(Parent)

AdjustingRoot ==
  LET array == pages[todo.page].array
      child == OnlyChild(array)
  IN  IF ~GivesWay(array) THEN <<>>
      ELSE IF array = <<>> THEN WritingHeader
      ELSE Pin(child) \o Write(child) \o WritingHeader \o Unpin(child, TRUE)

-----------------------------------------------------------------------------

PinsInsertStep ==
  \/ NewRoot /\ Return(MakingRoot)
  \/ ParentHasRoom /\ Return(WritingParent \o Unpin(OldParent, TRUE))
  \/ ParentSplits /\ Keep(SplittingParent, KeptByParentSplit(OldParent, NewPageId))

PinsRemoveStep ==
  \/ RedistributeFromLeft /\ Return(Redistributing)
  \/ RedistributeFromRight /\ Return(Redistributing)
  \/ /\ Coalesce
     /\ IF todo' = Idle THEN Return(Coalescing \o Unpin(Parent, TRUE))
                        ELSE Keep(Coalescing, <<Parent>>)
  \/ AdjustRoot /\ Return(AdjustingRoot)

PinsInsertNext ==
  \/ PinsInsertStep
  \/ \E k \in Keys :
       \/ (GetValue(k) \/ InsertRefused(k)) /\ Return(ReadingLeaf(k))
       \/ \E v \in Values :
            \/ StartNewTree(k, v) /\ Return(StartingTree)
            \/ InsertIntoLeaf(k, v) /\ Return(WritingLeaf(k))
            \/ /\ SplitLeaf(k, v)
               /\ Keep(SplittingLeaf(k), KeptBySplit(FindLeafPage(k), NewPageId))

\* Remove of a key that is there.
PinsRemove(k) ==
  /\ RemoveFromLeaf(k)
  /\ IF todo' = Idle THEN Return(RemovingFromLeaf(k) \o Unpin(FindLeafPage(k), TRUE))
                     ELSE Keep(RemovingFromLeaf(k), <<FindLeafPage(k)>>)

PinsRemoveNothing(k) ==
  /\ todo = Idle
  /\ ~Found(k)
  /\ Return(ReadingLeaf(k))
  /\ UNCHANGED vars

PinsNext ==
  \/ PinsInsertNext
  \/ PinsRemoveStep
  \/ \E k \in Keys : PinsRemove(k) \/ PinsRemoveNothing(k)

PinsSpec == PinsInit /\ [][PinsNext]_pvars /\ Fairness

-----------------------------------------------------------------------------

\* A call that returned has given back every pin it took, on every path through
\* the recursion, the header page's and those of emptied pages included: no frame
\* stays occupied for good.
PinsAreGivenBack == todo = Idle => pool.pins = EmptyBag

\* What BufferPoolClients assumes of the callers of the pool: a page is written
\* only while pinned, unpinned only by a holder, and the last pin goes only after
\* a write was declared.  Otherwise eviction would undo an update of the tree.
PinProtocolKept == pool.misused = {}

\* The number of levels: the root's, and one more for each step down to the deepest
\* leaf.
Height == IF IsEmpty THEN 0 ELSE 1 + Lists!Max(Depths)

\* A call pins at most two pages per level and two more at once (a split that
\* reaches the root: the halves of every level, the new root and the header page).
\* With that many frames, besides those of pages iterators hold, InsertIntoParent
\* never gets the nullptr it would dereference.
FramesSuffice == [][pool'.peak <= 2 * Height + 2]_pvars

=============================================================================
