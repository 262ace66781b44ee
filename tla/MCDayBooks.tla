---------------------------- MODULE MCDayBooks -----------------------------
(* Two days and two suppliers, three acts of the user.  Both: purchases    *)
(* and payments, the cashbook saved before the days.  Eager: after them.   *)
(* Locking: locked bills and days.  Failing: requests that fail, a         *)
(* terminal closed.  Hasty and Paying: operations, two with purchases or   *)
(* three with payments, begin while others are under way.                  *)
EXTENDS DayBooks, TLC
Both == [patient |-> TRUE, prompt |-> TRUE, locks |-> FALSE, fails |-> FALSE, closes |-> FALSE, deletes |-> TRUE,
         kinds |-> {"invoice", "payment"}, acts |-> 3]
Eager == [Both EXCEPT !.prompt = FALSE, !.kinds = {"invoice"}]
Locking == [Both EXCEPT !.locks = TRUE, !.kinds = {"invoice"}]
Failing == [Eager EXCEPT !.fails = TRUE, !.closes = TRUE, !.deletes = FALSE]
Hasty == [Locking EXCEPT !.patient = FALSE, !.prompt = FALSE, !.acts = 2]
Paying == [Hasty EXCEPT !.kinds = {"payment"}, !.acts = 3]
Every == {Both, Eager, Locking, Failing, Hasty, Paying}
Alike == Permutations(Suppliers)
=============================================================================
