\* One key inserted, removed and inserted again.
SPECIFICATION Spec
CONSTANTS
  Keys = {1}
  Values = {a}
  LeafMax = 2
  InternalMax = 4
  MaxPages = 3
  Absent = Absent
INVARIANT HeaderNamesRoot
