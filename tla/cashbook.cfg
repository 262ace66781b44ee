\* One branch; users and networks of every mode.
CONSTANTS
  None = None
  b1 = b1
  b2 = b2
  own1 = own1
  own2 = own2
  bill = bill
  old = old
  Branches = {b1}
  Rows = {own1, bill, old}
  InitRows <- Start
  DayRows = {bill}
  Retired = {old}
  Slots = {q1, q2}
  Modes <- AllModes
SPECIFICATION FairSpec
INVARIANTS DeletedStayDeleted Converged
PROPERTIES EventuallyLoaded
CHECK_DEADLOCK FALSE
