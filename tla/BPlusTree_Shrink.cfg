\* Trees of three levels taken apart.
SPECIFICATION GrowThenShrinkSpec
CONSTANTS
  Keys = {1, 2, 3, 4, 5, 6, 7}
  Values = {a}
  LeafMax = 2
  InternalMax = 4
  MaxPages = 9
  Absent = Absent
INVARIANTS
  ParentsAgree
  Balanced
  LeavesAreHalfFull
  NothingIsStranded
  PinsAreGivenBack
  PinProtocolKept
PROPERTIES
  FramesSuffice
CHECK_DEADLOCK FALSE
