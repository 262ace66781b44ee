\* Two requests in flight over two days that may share the bill or the order.
CONSTANTS
  Absent = Absent
  NoRef = NoRef
  b1 = b1
  g1 = g1
  p1 = p1
  m1 = m1
  s1 = s1
  e1 = e1
  c1 = c1
  Days = {d1, d2}
  Takings = {"t"}
  Entries = {b1}
  PaymentEntries = {}
  Pos = {p1}
  Rets = {}
  Months = {}
  SLines = {}
  MonthOf <- OneMonth
  SPays = {}
  Emps = {}
  Cats = {}
  MExps = {}
  MPays = {}
  LinePool <- PairPool
  MaxLines = 2
  LedgerInputs <- AllLedgers
  SalaryInputs <- AllSalaries
  Requests = {r1, r2}
  Settle <- NoSettlement
SPECIFICATION Spec
SYMMETRY Symmetry
PROPERTIES DeleteSparesOtherDays NoHalfRemovedPair DeleteRemovesOwnBills
