\* Leaves of four pairs, so that a leaf that is merged still holds one.
SPECIFICATION Spec
CONSTANTS
  Keys = {1, 2, 3, 4, 5}
  Values = {a}
  LeafMax = 4
  InternalMax = 4
  MaxPages = 3
  Absent = Absent
INVARIANT KeysAreInOrder
