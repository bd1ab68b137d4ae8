\* Two leaves merged under a scan.
SPECIFICATION ScanSpec
CONSTANTS
  Keys = {1, 2, 3}
  Values = {a}
  LeafMax = 2
  InternalMax = 4
  MaxPages = 3
  Absent = Absent
  Iterators = {scan}
  Nowhere = Nowhere
INVARIANT AdvanceReachesNextEntry
