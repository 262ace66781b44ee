\* Two branches, two days, two requests; what each scope uses of them is in MCCaptureMedia.
CONSTANTS
  None = None
  m1 = m1
  m2 = m2
  b1 = b1
  b2 = b2
  d1 = d1
  d2 = d2
  Branches = {b1, b2}
  Days = {d1, d2}
  Media = {m1, m2}
  Requests = {r1, r2}
  Scopes <- Both
SPECIFICATION Spec
SYMMETRY Symmetry
INVARIANTS TypeOK MediaExists
PROPERTIES PurgeSparesHeld
CHECK_DEADLOCK FALSE
