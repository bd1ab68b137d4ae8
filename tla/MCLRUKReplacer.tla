--------------------------- MODULE MCLRUKReplacer ---------------------------
(***************************************************************************)
(* Instance of the replacer for TLC.  Frame ids are only compared for      *)
(* equality (the containers they index are unordered, and the times Evict  *)
(* compares are distinct), so frames are interchangeable.                  *)
(***************************************************************************)
EXTENDS LRUKHistory, TLC

FrameSymmetry == Permutations(Frames)

=============================================================================
