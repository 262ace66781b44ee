-------------------------- MODULE MCCashbookStore --------------------------
(* Small instances of CashbookStore: each branch starts with one row of    *)
(* its own, the first with the deleted day's row and a retired one too.    *)
EXTENDS CashbookStore, TLC

CONSTANTS b1, b2, own1, own2, bill, old

Start == [b \in Branches |-> IF b = b1 THEN {own1, bill, old} \cap Rows ELSE {own2}]

(* Users who wait for answers, and a network that delays and fails.        *)
AllModes ==
  {[network |-> "calm", failures |-> FALSE, acts |-> 8],
   [network |-> "any",  failures |-> TRUE,  acts |-> 3]}
=============================================================================
