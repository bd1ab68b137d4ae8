\* Three frames, distances to the second last access.
SPECIFICATION HistorySpec
CONSTANTS
  Frames = {f1, f2, f3}
  NoFrame = NoFrame
  K = 2
  MaxTimestamp = 8
SYMMETRY FrameSymmetry
INVARIANTS
  TypeOK
  SizeIsEvictableCount
  EvictableFramesAreListedOnce
  FiniteDistancesAreFresh
PROPERTIES
  ImplementsReplacer
  ImplementsLRUK
