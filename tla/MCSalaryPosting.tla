--------------------------- MODULE MCSalaryPosting ---------------------------
(* Small instances of SalaryPosting: one or two employees, two months.     *)
EXTENDS SalaryPosting

Behave(steady, patient, fails, ahead, n) ==
  [steady |-> steady, patient |-> patient, elsewhere |-> ~patient, fails |-> fails,
   ahead |-> ahead, together |-> 1, acts |-> n]

(* Salaries left alone by a user who waits; registers edited, with         *)
(* requests refused; everything at once.                                   *)
AllModes == {Behave(TRUE, TRUE, "never", FALSE, 5), Behave(TRUE, TRUE, "refused", TRUE, 3),
             Behave(FALSE, FALSE, "lost", TRUE, 3)}

(* Staff come and go while payouts are paid.                               *)
Hiring == {Behave(FALSE, TRUE, "never", FALSE, 4)}
=============================================================================
