\* Every table of the branch, one request in flight.
CONSTANTS
  Absent = Absent
  NoRef = NoRef
  b1 = b1
  g1 = g1
  p1 = p1
  m1 = m1
  s1 = s1
  e1 = e1
  c1 = c1
  Days = {d1}
  Takings = {"t"}
  Entries = {g1}
  PaymentEntries = {g1}
  Pos = {p1}
  Rets = {t1}
  Months = {m1}
  SLines = {s1}
  MonthOf <- OneMonth
  SPays = {y1}
  Emps = {e1}
  Cats = {c1}
  MExps = {x1}
  MPays = {q1}
  LinePool <- MixedPool
  MaxLines = 1
  LedgerInputs <- SentLedgers
  SalaryInputs <- SentSalaries
  Requests = {r1}
  Settle <- SettleAll
SPECIFICATION Spec
SYMMETRY Symmetry
INVARIANTS TypeOK LinksResolve ProjectionCurrent
PROPERTIES DeleteSparesLockedBooks
