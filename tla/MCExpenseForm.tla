--------------------------- MODULE MCExpenseForm ---------------------------
(* Two suppliers and two items; a payment by hand never has a bill's       *)
(* amount.  Items are interchangeable.                                     *)
EXTENDS ExpenseForm
Alike == Permutations(Items)
=============================================================================
