\* Arbitrary callers over three frames and four pages.
SPECIFICATION Spec
CONSTANTS
  PoolSize = 3
  MaxPages = 4
  MaxPins = 2
  Values = {zero, v1}
  Zero = zero
INVARIANTS
  TypeOK
  TableConsistent
  FrameAccounting
  ReplacerAgrees
PROPERTIES
  PinnedFramesKeepTheirPage
  NoDirtyPageIsDropped
  DiskGetsOwnPageOnly
