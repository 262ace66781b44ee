CONSTANTS
  Vendors = {v1, v2}
  None = none
  Items = {i1, i2}
  Totals = {1, 2}
  Payments = {7}
  MaxActs = 9
SPECIFICATION Spec
SYMMETRY Alike
INVARIANTS PaidFollowsBill SavedBillsPaid
PROPERTIES PaymentsKept PaidFieldReplaces
CHECK_DEADLOCK FALSE
