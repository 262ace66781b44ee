\* Two requests in flight, three accounts, two admin seats.
CONSTANTS
  NoOne = NoOne
  s1 = s1
  s2 = s2
  s3 = s3
  r1 = r1
  r2 = r2
  Owner = s1
  Staff = {s1, s2, s3}
  Limit <- SmallLimit
  MaxRoles = 2
  Requests = {r1, r2}
SPECIFICATION SeatsSpec
SYMMETRY Symmetry
INVARIANTS SeatsTypeOK AdminSeats
