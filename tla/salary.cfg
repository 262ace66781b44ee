\* One branch; users and networks of every mode.
CONSTANTS
  None = None
  b1 = b1
  b2 = b2
  own1 = own1
  own2 = own2
  new = new
  payout = payout
  left = left
  Branches = {b1}
  Rows = {own1, payout, left}
  InitRows <- Start
  DayRows = {payout}
  Left = {left}
  Slots = {q1, q2}
  Modes <- AllModes
SPECIFICATION FairSpec
INVARIANTS DeletedStayDeleted Converged UnsavedIsShown
PROPERTIES LoadsSpareUnsaved EventuallySettled
CHECK_DEADLOCK FALSE
