-------------------------- MODULE MCCaptureMedia ---------------------------
(* Serial: one branch, two days, one request at a time, photos that come   *)
(* by the tray.  Purges: two branches, one day, two requests in flight,    *)
(* uploads past the tray.  In both requests fail and the API stops.        *)
EXTENDS CaptureMedia, TLC

CONSTANTS m1, m2, b1, b2, d1, d2

Serial == [branches |-> {b1}, days |-> {d1, d2}, flight |-> 1, acts |-> 12, items |-> 2,
           direct |-> FALSE, crashes |-> TRUE]
Purges == [branches |-> {b1, b2}, days |-> {d1}, flight |-> 2, acts |-> 7, items |-> 1,
           direct |-> TRUE, crashes |-> TRUE]
Both == {Serial, Purges}

(* The requests and the media are interchangeable.                         *)
Symmetry == Permutations(Requests) \cup Permutations(Media)
=============================================================================
