CONSTANTS
  None = None
  Users = {u1, u2}
  Calls = {c1, c2}
  Pairs = {p1, p2, p3, p4}
  Modes <- All
SPECIFICATION Spec
SYMMETRY Alike
INVARIANTS SignedOutIsClear
PROPERTIES CallsActForTheirMaker SessionSurvives
