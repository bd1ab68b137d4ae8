\* Two callers sharing two frames and three pages.
SPECIFICATION ClientsSpec
CONSTANTS
  PoolSize = 2
  MaxPages = 3
  MaxPins = 2
  Values = {zero, v1}
  Zero = zero
  Clients = {c1, c2}
SYMMETRY ClientSymmetry
INVARIANTS
  PinCountIsHolders
  PointersAreValid
  CleanPagesAreOnDisk
PROPERTIES
  ImplementsPageStore
