---------------------------- MODULE MCStaffSeats ---------------------------
(* Small instances of StaffSeats.                                          *)
EXTENDS StaffSeats, TLC

CONSTANTS s1, s2, s3, r1, r2

(* One admin seat besides the owner's, one manager seat.                   *)
SmallLimit == [admin |-> 2, manager |-> 1]

Symmetry == Permutations(Staff \ {Owner}) \cup Permutations(Requests)
=============================================================================
