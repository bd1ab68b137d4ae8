\* Three leaves under one root, the middle one merged away.
SPECIFICATION Spec
CONSTANTS
  Keys = {1, 2, 3, 4, 5}
  Values = {a}
  LeafMax = 2
  InternalMax = 4
  MaxPages = 8
  Absent = Absent
INVARIANT KeysAreUnique
