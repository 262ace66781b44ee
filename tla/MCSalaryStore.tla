--------------------------- MODULE MCSalaryStore ---------------------------
(* Small instances of SalaryStore: each branch starts with one row of its  *)
(* own, the first with the deleted day's payout and a row of somebody who  *)
(* left too.                                                               *)
EXTENDS SalaryStore, TLC

CONSTANTS b1, b2, own1, own2, new, payout, left

Start == [b \in Branches |-> IF b = b1 THEN {own1, payout, left} \cap Rows ELSE {own2}]

(* Users who wait for answers and users who do not, with and without       *)
(* failures.                                                               *)
AllModes ==
  {[network |-> "quiet", failures |-> FALSE, acts |-> 8],
   [network |-> "calm",  failures |-> FALSE, acts |-> 6],
   [network |-> "calm",  failures |-> TRUE,  acts |-> 5],
   [network |-> "any",   failures |-> TRUE,  acts |-> 3]}
=============================================================================
