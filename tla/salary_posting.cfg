CONSTANTS
  Emps = {e1}
  LineIds = {1, 2, 3}
  LastDay = 2
  DaysPerMonth = 1
  PayoutAmounts = {1, 3}
  Basics = {1, 2}
  Extras = {1}
  FirstBasic = 2
  Imported = 1
  Modes <- AllModes
  Ops = {o1}
SPECIFICATION PostingSpec
INVARIANTS RegisterMirrors OldestFirst DueBalances NeverOverpaid PoolFullyShared
PROPERTIES PayoutIsOneLine
CHECK_DEADLOCK FALSE
