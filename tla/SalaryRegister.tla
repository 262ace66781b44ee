--------------------------- MODULE SalaryRegister ---------------------------
(***************************************************************************)
(* The arithmetic of the salary registers: what a month owes an employee,  *)
(* how overpayment is carried into later months, how a month's rows follow *)
(* the roster, and how the payouts of all months are rebuilt from the      *)
(* staff lines of the daily entries (reconcileSalaryMonthFromDailyMap).    *)
(*                                                                         *)
(* A day has a set of staff lines.  A bundle maps the months that have a   *)
(* sheet to it, a sheet maps the employees who have a row to it.  A row's  *)
(* pay is its basic salary and one figure for the rest (service charge,    *)
(* overtime and bonus less fines).  A payout stands for its daily line,    *)
(* or for none (Manual).  Rows are matched by employee id, not by name.    *)
(***************************************************************************)
EXTENDS Integers, FiniteSetsExt, Functions

CONSTANTS
  Emps,         \* employees
  LineIds,      \* ids of expense lines, integers in the order of their ids
  LastDay,      \* days are 1 .. LastDay
  DaysPerMonth  \* how many of them a month has

ASSUME RegisterAssumption ==
  /\ LineIds \subseteq Nat \ {0}
  /\ LastDay \in Nat \ {0}
  /\ DaysPerMonth \in Nat \ {0}

Manual == 0
Days == 1 .. LastDay
MonthOf(d) == (d - 1) \div DaysPerMonth + 1
Months == 1 .. MonthOf(LastDay)

AtLeastZero(n) == IF n > 0 THEN n ELSE 0

(* The payouts a row has that count: all, or all but one line's.           *)
Counted(row, except) == {p \in row.pays : p.line # except \/ except = Manual}

PaidOf(pays) == SumFunctionOnSet([p \in pays |-> p.amt], pays)

totalPayableForRow(row) == AtLeastZero(row.basic + row.extra)

HasRow(bundle, m, e) == m \in DOMAIN bundle /\ e \in DOMAIN bundle[m].rows
Payable(bundle, m, e) == IF HasRow(bundle, m, e) THEN totalPayableForRow(bundle[m].rows[e]) ELSE 0
Paid(bundle, m, e, except) ==
  IF HasRow(bundle, m, e) THEN PaidOf(Counted(bundle[m].rows[e], except)) ELSE 0

(* Credit carried out of each month: what was paid beyond what was owed.   *)
CarriedOut(bundle, e, except) ==
  LET carry[m \in 0 .. MonthOf(LastDay)] ==
        IF m = 0 THEN 0
        ELSE AtLeastZero(Paid(bundle, m, e, except) + carry[m - 1] - Payable(bundle, m, e))
  IN carry

(* Faulty: the credit of earlier months is forgotten.                      *)
StillOwedAlone(bundle, e, except) ==
  [m \in Months |-> AtLeastZero(Payable(bundle, m, e) - Paid(bundle, m, e, except))]

StillOwed(bundle, e, except) ==
  LET carry == CarriedOut(bundle, e, except)
  IN [m \in Months |-> AtLeastZero(Payable(bundle, m, e) - carry[m - 1] - Paid(bundle, m, e, except))]

SumOver(f, S) == SumFunctionOnSet(f, S)

totalStillOwedForEmployeeThroughMonth(bundle, e, m, except) ==
  SumOver(StillOwed(bundle, e, except), 1 .. m)

OwingMonths(bundle, e, m) ==
  LET owed == StillOwed(bundle, e, Manual) IN {k \in 1 .. m : owed[k] > 0}

(* An advance is never refused, a regular payout may not exceed what is    *)
(* due up to and including its month.                                      *)
validateStaffPayoutAmount(bundle, m, e, amt, advance, except) ==
  advance \/ amt <= totalStillOwedForEmployeeThroughMonth(bundle, e, m, except)

-----------------------------------------------------------------------------
(* The service charge: each row's share of the pool in whole units, what   *)
(* rounding leaves over going to the largest fractions, earlier rows first.*)

(* Faulty: what is left over is rounded down.                              *)
PoolTotalDown(pcts, pool) == SumOver([r \in DOMAIN pcts |-> pool * pcts[r]], DOMAIN pcts) \div 100

serviceChargePoolTargetTotal(pcts, pool) ==
  (SumOver([r \in DOMAIN pcts |-> pool * pcts[r]], DOMAIN pcts) + 50) \div 100

distributeServiceChargePool(pcts, pool) ==
  LET elig == {r \in DOMAIN pcts : pcts[r] > 0}
      floor(r) == (pool * pcts[r]) \div 100
      frac(r) == (pool * pcts[r]) % 100
      over == serviceChargePoolTargetTotal(pcts, pool) - SumOver([r \in DOMAIN pcts |-> floor(r)], elig)
      Ahead(r) == {q \in elig : frac(q) > frac(r) \/ (frac(q) = frac(r) /\ q < r)}
  IN [r \in elig |-> floor(r) + (IF Cardinality(Ahead(r)) < over THEN 1 ELSE 0)]

-----------------------------------------------------------------------------
(* Sheets and the roster.                                                  *)

Active(roster) == {e \in DOMAIN roster : roster[e].active}

NewRow(roster, e) == [basic |-> roster[e].basic, extra |-> 0, pays |-> {}]

(* A locked sheet, or any sheet while nobody is active, is left alone.     *)
syncDocRowsToEmployees(sheet, roster) ==
  IF sheet.locked \/ Active(roster) = {} THEN sheet
  ELSE [sheet EXCEPT !.rows =
          [e \in Active(roster) |->
             IF e \in DOMAIN sheet.rows
             THEN [sheet.rows[e] EXCEPT !.basic = roster[e].basic]
             ELSE NewRow(roster, e)]]

NewSheet(roster) == [locked |-> FALSE, rows |-> [e \in Active(roster) |-> NewRow(roster, e)]]

ensureMonthDoc(bundle, m, roster) ==
  syncDocRowsToEmployees(IF m \in DOMAIN bundle THEN bundle[m] ELSE NewSheet(roster), roster)

WithSheet(bundle, m, sheet) ==
  [k \in DOMAIN bundle \cup {m} |-> IF k = m THEN sheet ELSE bundle[k]]

syncSalaryBundleToEmployees(bundle, roster) ==
  [m \in DOMAIN bundle |-> ensureMonthDoc(bundle, m, roster)]

clearAllRowPayments(sheet) ==
  [sheet EXCEPT !.rows = [e \in DOMAIN @ |-> [@[e] EXCEPT !.pays = {}]]]

-----------------------------------------------------------------------------
(* The rebuild: every payout of every month is dropped, then the staff     *)
(* lines are applied in the order of day and line id.                      *)

Before(a, b) == a.day < b.day \/ (a.day = b.day /\ a.line < b.line)

StaffLines(lines) ==
  UNION {{[line |-> x.line, emp |-> x.emp, amt |-> x.amt, advance |-> x.advance, day |-> d] :
          x \in lines[d]} : d \in Days}

Payout(item) == [line |-> item.line, amt |-> item.amt, day |-> item.day, advance |-> item.advance]

(* No row and nobody of that id: the payout is dropped.                    *)
appendPaymentToEmployeeMonth(bundle, m, e, payout, roster) ==
  LET sheet == ensureMonthDoc(bundle, m, roster)
      WithRow(row) == [k \in DOMAIN sheet.rows \cup {e} |-> IF k = e THEN row ELSE sheet.rows[k]]
      rows == IF e \in DOMAIN sheet.rows
              THEN WithRow([sheet.rows[e] EXCEPT !.pays = @ \cup {payout}])
              ELSE IF e \in DOMAIN roster
              THEN WithRow([NewRow(roster, e) EXCEPT !.pays = {payout}])
              ELSE sheet.rows
  IN WithSheet(bundle, m, [sheet EXCEPT !.rows = rows])

(* Faulty: every payout belongs to the month it is paid in.                *)
OwnMonth(bundle, item) == MonthOf(item.day)

(* An advance belongs to the month it is paid in, a regular payout to the  *)
(* oldest month up to then that still owes, if any does.                   *)
TargetMonth(bundle, item) ==
  LET m == MonthOf(item.day)
      owing == OwingMonths(bundle, item.emp, m)
  IN IF item.advance \/ owing = {} THEN m
     ELSE CHOOSE k \in owing : \A j \in owing : k <= j

PostPayout(bundle, item, roster) ==
  appendPaymentToEmployeeMonth(bundle, TargetMonth(bundle, item), item.emp, Payout(item), roster)

LastOf(items) == CHOOSE i \in items : \A j \in items : ~Before(i, j)

MonthsOf(items) == {MonthOf(i.day) : i \in items}

(* Faulty: only the months of the staff lines are cleared.                 *)
ClearedOfLines(bundle, items, roster) ==
  [m \in DOMAIN bundle \cup MonthsOf(items) |->
     IF m \in MonthsOf(items) THEN clearAllRowPayments(ensureMonthDoc(bundle, m, roster))
                              ELSE ensureMonthDoc(bundle, m, roster)]

Cleared(bundle, items, roster) ==
  [m \in DOMAIN bundle \cup MonthsOf(items) |-> clearAllRowPayments(ensureMonthDoc(bundle, m, roster))]

(* The last of the items is applied to what the others gave.               *)
reconcileSalaryMonthFromDailyMap(bundle, lines, roster) ==
  LET items == StaffLines(lines)
  IN MapThenFoldSet(LAMBDA i, b : PostPayout(b, i, roster), Cleared(bundle, items, roster),
                    LAMBDA i : i, LastOf, items)
=============================================================================
