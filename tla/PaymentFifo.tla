----------------------------- MODULE PaymentFifo ----------------------------
(***************************************************************************)
(* Which bills the payments of the cashbook settle: the allocation that    *)
(* syncPayables makes each time it derives the Payables rows of a branch   *)
(* (allocateLedgerPaymentsFifo).  The payments are taken in the order of   *)
(* date and id; each goes to the bills of its supplier, in the order of    *)
(* date and id, and what it gives a bill becomes a derived payment.        *)
(*                                                                         *)
(* One step is one round of the loops.  Amounts are whole minor units, of  *)
(* any sign as the cashbook has them; ids are integers in their order.     *)
(* Memo, reference and method of a payment only label it and are left out. *)
(***************************************************************************)
EXTENDS Integers, FiniteSetsExt, Functions

CONSTANTS
  Bills,        \* ids of the expenses derived from purchase orders
  LedgerPays,   \* ids of the cashbook's payments
  Suppliers,    \* ids of suppliers
  NoSupplier,   \* a purchase order without one
  BillRows,     \* what an expense may be
  PayRows       \* what a payment may be

BillRow == [supplierId : Suppliers \cup {NoSupplier}, date : Nat, totalMinor : Int]
LedgerPay == [supplierId : Suppliers, date : Nat, amountMinor : Int]

(* What the tables are, the hypothesis of every theorem.                   *)
FifoAssumption ==
  /\ Bills \subseteq Nat /\ IsFiniteSet(Bills)
  /\ LedgerPays \subseteq Nat /\ IsFiniteSet(LedgerPays)
  /\ NoSupplier \notin Suppliers
  /\ BillRows \subseteq BillRow
  /\ PayRows \subseteq LedgerPay

NoPay == -1

VARIABLES
  expenses,   \* the bills
  ledgerPays, \* the payments of the cashbook
  remaining,  \* what is left to pay of each bill that is open to payments
  waiting,    \* payments not taken yet
  paying,     \* the payment being given out, or NoPay
  toGive,     \* what is left of it
  unseen,     \* the bills of its supplier it has not come to
  allocs      \* the derived payments, numbered as they are made

fifoVars == <<expenses, ledgerPays, remaining, waiting, paying, toGive, unseen, allocs>>

-----------------------------------------------------------------------------
(* The steps.                                                              *)

Size(n) == IF n < 0 THEN -n ELSE n

Lesser(m, n) == IF m <= n THEN m ELSE n

(* By date, then by id.                                                    *)
Sooner(table, a, b) ==
  table[a].date < table[b].date \/ (table[a].date = table[b].date /\ a < b)

FirstIn(table, S) == CHOOSE a \in S : \A b \in S \ {a} : Sooner(table, a, b)

OpenBills == {b \in Bills : expenses[b].supplierId # NoSupplier /\ expenses[b].totalMinor > 0}
BillsOf(s) == {b \in OpenBills : expenses[b].supplierId = s}

FifoInit ==
  /\ expenses \in [Bills -> BillRows]
  /\ ledgerPays \in [LedgerPays -> PayRows]
  /\ remaining = [b \in OpenBills |-> expenses[b].totalMinor]
  /\ waiting = LedgerPays
  /\ paying = NoPay
  /\ toGive = 0
  /\ unseen = {}
  /\ allocs = {}

(* The next payment; one of nothing is passed over.                        *)
NextPay ==
  /\ paying = NoPay
  /\ waiting # {}
  /\ LET p == FirstIn(ledgerPays, waiting) IN
       /\ waiting' = waiting \ {p}
       /\ \/ ledgerPays[p].amountMinor = 0 /\ UNCHANGED <<paying, toGive, unseen>>
          \/ /\ ledgerPays[p].amountMinor # 0
             /\ paying' = p
             /\ toGive' = Size(ledgerPays[p].amountMinor)
             /\ unseen' = BillsOf(ledgerPays[p].supplierId)
  /\ UNCHANGED <<expenses, ledgerPays, remaining, allocs>>

(* The payment's supplier's next bill; one that is paid is passed over.    *)
NextBill ==
  /\ paying # NoPay
  /\ toGive > 0
  /\ unseen # {}
  /\ LET b == FirstIn(expenses, unseen)
         take == Lesser(toGive, remaining[b])
     IN /\ unseen' = unseen \ {b}
        /\ \/ remaining[b] <= 0 /\ UNCHANGED <<remaining, toGive, allocs>>
           \/ /\ remaining[b] > 0
              /\ remaining' = [remaining EXCEPT ![b] = @ - take]
              /\ toGive' = toGive - take
              /\ allocs' = allocs \cup
                   {[expenseId |-> b, ledgerEntryId |-> paying, amountMinor |-> take,
                     sort |-> Cardinality(allocs)]}
  /\ UNCHANGED <<expenses, ledgerPays, waiting, paying>>

(* Nothing is left of the payment, or no bill to give it to.               *)
EndPay ==
  /\ paying # NoPay
  /\ toGive <= 0 \/ unseen = {}
  /\ paying' = NoPay
  /\ toGive' = 0
  /\ unseen' = {}
  /\ UNCHANGED <<expenses, ledgerPays, remaining, waiting, allocs>>

FifoNext == NextPay \/ NextBill \/ EndPay
FifoSpec == FifoInit /\ [][FifoNext]_fifoVars

-----------------------------------------------------------------------------
(* Properties.                                                             *)

FifoTypeOK ==
  /\ expenses \in [Bills -> BillRow]
  /\ ledgerPays \in [LedgerPays -> LedgerPay]
  /\ remaining \in [OpenBills -> Nat]
  /\ waiting \subseteq LedgerPays
  /\ paying \in LedgerPays \cup {NoPay}
  /\ toGive \in Nat
  /\ unseen \subseteq OpenBills
  /\ allocs \subseteq [expenseId : OpenBills, ledgerEntryId : LedgerPays,
                       amountMinor : Nat \ {0}, sort : Nat]

Given(A) == SumFunctionOnSet([a \in A |-> a.amountMinor], A)
ToBill(b) == {a \in allocs : a.expenseId = b}
FromPay(p) == {a \in allocs : a.ledgerEntryId = p}

(* derivePaidDue of a bill and of what its payments add up to.  A bill     *)
(* that is derived has no returns: nothing in the API makes one.           *)
Billed(b) == IF expenses[b].totalMinor > 0 THEN expenses[b].totalMinor ELSE 0
Due(b) == IF Billed(b) > Given(ToBill(b)) THEN Billed(b) - Given(ToBill(b)) ELSE 0

(* No payment is given out for more than it is, no bill is paid more than  *)
(* it is of, and the two never meet twice: the derived payment of the two  *)
(* is stored under both their ids (`pay_lg_<entry>_<expense>`).            *)
NothingGivenTwice ==
  /\ \A p \in LedgerPays : Given(FromPay(p)) <= Size(ledgerPays[p].amountMinor)
  /\ \A b \in Bills : Given(ToBill(b)) <= Billed(b)
  /\ \A a, c \in allocs : a.expenseId = c.expenseId /\ a.ledgerEntryId = c.ledgerEntryId => a = c

(* A bill is paid only when all sooner ones of its supplier are settled,   *)
(* by payments that are no later than its own.                             *)
OldestBillsFirst ==
  \A a \in allocs : \A b \in BillsOf(expenses[a.expenseId].supplierId) :
    Sooner(expenses, b, a.expenseId) =>
      /\ Given(ToBill(b)) = expenses[b].totalMinor
      /\ \A c \in ToBill(b) : c.ledgerEntryId = a.ledgerEntryId
                              \/ Sooner(ledgerPays, c.ledgerEntryId, a.ledgerEntryId)

(* In the end what is due to a supplier is what its bills are of less what *)
(* it has been paid, or nothing: the balance of its account.               *)
BilledBy(s) == {b \in Bills : expenses[b].supplierId = s}
PaysOf(s) == {p \in LedgerPays : ledgerPays[p].supplierId = s}
Invoiced(s) == SumFunctionOnSet([b \in BilledBy(s) |-> Billed(b)], BilledBy(s))
PaidOut(s) == SumFunctionOnSet([p \in PaysOf(s) |-> Size(ledgerPays[p].amountMinor)], PaysOf(s))
DueTo(s) == SumFunctionOnSet([b \in BilledBy(s) |-> Due(b)], BilledBy(s))
Finished == waiting = {} /\ paying = NoPay
AccountBalance ==
  Finished => \A s \in Suppliers :
    DueTo(s) = IF Invoiced(s) > PaidOut(s) THEN Invoiced(s) - PaidOut(s) ELSE 0
=============================================================================
