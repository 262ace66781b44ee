CONSTANTS
  Emps = {e1, e2}
  LineIds = {1, 2}
  LastDay = 1
  DaysPerMonth = 1
  PayoutAmounts = {1}
  Basics = {2}
  Extras = {1}
  FirstBasic = 2
  Imported = 0
  Modes <- Hiring
  Ops = {o1}
SPECIFICATION PostingSpec
INVARIANTS RegisterMirrorsAll
CHECK_DEADLOCK FALSE
