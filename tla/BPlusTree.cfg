\* Insertions and removals in every order, in trees of two levels.
SPECIFICATION PinsSpec
CONSTANTS
  Keys = {1, 2, 3, 4}
  Values = {a}
  LeafMax = 2
  InternalMax = 4
  MaxPages = 6
  Absent = Absent
INVARIANTS
  TypeOK
PROPERTIES
  RestructuringKeepsPairs
  EveryCallReturns
