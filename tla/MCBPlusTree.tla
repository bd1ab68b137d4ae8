---------------------------- MODULE MCBPlusTree ----------------------------
(***************************************************************************)
(* Instance of the tree for TLC that reaches trees of three levels.  The   *)
(* tree grows, by insertions in any order, until MaxPages pages are in     *)
(* use.  Then keys are removed, and inserted again where a leaf has room.  *)
(***************************************************************************)
EXTENDS BPlusTreePins

Grow == PinsInsertNext \/ \E k \in Keys : PinsRemoveNothing(k)

Shrink ==
  \E k \in Keys :
    \/ PinsRemove(k)
    \/ \E v \in Values : InsertIntoLeaf(k, v) /\ Return(WritingLeaf(k))

GrowThenShrinkNext ==
  \/ PinsInsertStep
  \/ PinsRemoveStep
  \/ MayAllocate /\ Grow
  \/ ~MayAllocate /\ Shrink

GrowThenShrinkSpec == PinsInit /\ [][GrowThenShrinkNext]_pvars

=============================================================================
