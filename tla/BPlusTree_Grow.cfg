\* Insertions in every order beside a scan: leaves of two pairs, internal pages of
\* three children.
SPECIFICATION GrowingScanSpec
CONSTANTS
  Keys = {1, 2, 3, 4, 5}
  Values = {a, b}
  LeafMax = 2
  InternalMax = 3
  MaxPages = 10
  Absent = Absent
  Iterators = {scan}
  Nowhere = Nowhere
INVARIANTS
  SeparatorsSeparate
  LeafChainIsInOrder
  KeysAreInOrder
  BeginIsFirstNotLess
  
PROPERTIES
  ImplementsIndex
  ScanEnds
