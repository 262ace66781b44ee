--------------------------- MODULE MCBranchBooks ---------------------------
(* Small instances of BranchBooks: a cfg leaves out the tables its         *)
(* question is not about by giving them no ids.                            *)
EXTENDS BranchBooks, TLC

CONSTANTS b1, g1, p1, m1, s1, e1, c1

Blank == [id |-> "l1", kind |-> "vendor", paid |-> TRUE,
          entry |-> NoRef, po |-> NoRef, emp |-> NoRef, cat |-> NoRef]

(* A purchase with its bill and its order, and one that names the order.   *)
PairPool == {[Blank EXCEPT !.kind = "purchase", !.entry = b1, !.po = p1],
             [Blank EXCEPT !.id = "l2", !.po = p1]}

(* An unpaid expense with a category, a staff payout, and a vendor line    *)
(* with its entry in the cashbook.                                         *)
MixedPool == {[Blank EXCEPT !.kind = "regular", !.paid = FALSE, !.cat = c1],
              [Blank EXCEPT !.kind = "staff", !.emp = e1],
              [Blank EXCEPT !.entry = g1]}

AllLedgers == LedgerBook
AllSalaries == {book \in SalaryBook : Nested(book)}

(* Books enough for that: with the order of a return, and the employee of a*)
(* line.  Without one they are reached by deleting it.                     *)
SentLedgers == {book \in LedgerBook : \A t \in Rets : book.rets[t] # NoRef}
SentSalaries == {book \in AllSalaries : \A l \in SLines : book.slines[l] # NoRef}

NoSettlement(ps, es) == {}
SettleAll(ps, es) == es \X ps

(* Days and requests are interchangeable: nothing but the initial choice  *)
(* names one.                                                              *)
Symmetry == Permutations(Days) \cup Permutations(Requests)

OneMonth == [l \in SLines |-> m1]
=============================================================================
