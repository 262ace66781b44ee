--------------------------- MODULE MCRosterStore ---------------------------
(* Small instances of RosterStore: a branch that has Ann, or nobody.       *)
EXTENDS RosterStore, TLC

CONSTANTS b1, ann, eve

Staffed == [b \in Branches |-> {ann}]
Nobody == [b \in Branches |-> {}]

(* Any network on a branch with a roster and one without, and users who    *)
(* wait for answers.                                                       *)
AllModes ==
  {[network |-> "any",  failures |-> TRUE,  acts |-> 5, start |-> Staffed, legacy |-> {eve}],
   [network |-> "any",  failures |-> TRUE,  acts |-> 4, start |-> Nobody,  legacy |-> {ann}],
   [network |-> "calm", failures |-> FALSE, acts |-> 6, start |-> Nobody,  legacy |-> {ann}],
   [network |-> "calm", failures |-> FALSE, acts |-> 6, start |-> Staffed, legacy |-> {eve}]}

Symmetry == Permutations(Slots)
=============================================================================
