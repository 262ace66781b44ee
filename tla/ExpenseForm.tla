---------------------------- MODULE ExpenseForm ----------------------------
(***************************************************************************)
(* The supplier side of the daily entry form: the card of items purchased, *)
(* grouped by supplier, and the rows of payments to suppliers.  For every  *)
(* supplier with a bill on the card the form keeps one payment row, the    *)
(* Paid row, tagged with the supplier and shown as the card's Paid field;  *)
(* its amount follows the bill until somebody types another.  Tags and     *)
(* totals live in the form alone: a saved day is opened without them.      *)
(***************************************************************************)
EXTENDS Integers, Sequences, FiniteSets, SequencesExt

CONSTANTS
  Vendors,  \* suppliers
  None,     \* no supplier chosen yet, no tag
  Items,    \* keys of purchased items
  Totals,   \* totals an item can be given
  Payments, \* amounts a payment can be given
  MaxActs   \* bound on the user's actions

ASSUME FormAssumption ==
  IsFiniteSet(Vendors) /\ None \notin Vendors /\ Totals \subseteq Nat \ {0} /\ Payments \subseteq Nat \ {0} /\ MaxActs \in Nat

VARIABLES
  items,     \* the card's items, a total of 0 for one not filled in
  groups,    \* supplier groups on the card, None for the unassigned one
  rows,      \* payment rows, in the form's order
  dismissed, \* dismissedPurchaseExpenseVendorsRef
  prev,      \* lastPurchaseVendorTotalsRef
  saved,     \* the saved day: its bills and its payments
  hand,      \* history: rows added as supplier payments
  typed,     \* history: suppliers somebody has paid by hand
  loaded,    \* history: the form shows a saved day, not synced yet
  reopened,  \* history: the form has shown a saved day
  acts

form == <<items, groups, rows, dismissed, prev>>
history == <<hand, typed, loaded, reopened>>
vars == <<form, saved, history, acts>>

Amounts == Payments \cup {0}
Keys(its) == DOMAIN its
Row(id, v, a, tag) == [id |-> id, vendor |-> v, amount |-> a, tag |-> tag]
Ids(rs) == {rs[k].id : k \in DOMAIN rs}
FreeId(rs) == Min((1 .. Len(rs) + 1) \ Ids(rs))

(* The rows that are left, in their order.                                *)
Filtered(rs, left) == FoldLeft(LAMBDA acc, r : IF r \in left THEN Append(acc, r) ELSE acc, << >>, rs)

At(id) == CHOOSE k \in DOMAIN rows : rows[k].id = id

Bill(its, v) == SumFunctionOnSet([i \in Keys(its) |-> its[i].total], {i \in Keys(its) : its[i].vendor = v})
purchaseVendorTotalsFromLines(its) == [v \in Vendors |-> Bill(its, v)]

(* Mutant: the bill at the last sync is forgotten. *)
TracksNow(r, v, its, before) == r.amount = Bill(its, v)

(* The row still shows the bill as it is or as it was at the last sync.    *)
Tracks(r, v, its, before) == r.amount = Bill(its, v) \/ (before[v] > 0 /\ r.amount = before[v])

(* The tagged rows of suppliers without a bill go, the others that track   *)
(* get the bill's total.                                                   *)
KeptRows(rs, its, before) ==
  LET left == Filtered(rs, {r \in Range(rs) : r.tag = None \/ Bill(its, r.tag) > 0})
      updated(r) == IF r.tag # None /\ (r.vendor # r.tag \/ Tracks(r, r.tag, its, before))
                    THEN [r EXCEPT !.vendor = r.tag, !.amount = Bill(its, r.tag)]
                    ELSE r
  IN  [k \in DOMAIN left |-> updated(left[k])]

(* Mutant: any payment of the supplier is taken for the Paid row. *)
WithAnyRow(rs, v, its, gone, before) ==
  LET mine == {k \in DOMAIN rs : rs[k].tag = None /\ rs[k].vendor = v}
  IN  IF Bill(its, v) = 0 \/ v \in gone \/ \E k \in DOMAIN rs : rs[k].tag = v THEN rs
      ELSE IF mine # {} THEN [rs EXCEPT ![Min(mine)].tag = v, ![Min(mine)].amount = Bill(its, v)]
      ELSE Append(rs, Row(FreeId(rs), v, Bill(its, v), v))

(* A bill without a tagged row takes an untagged payment of its supplier:  *)
(* one of the same amount, or any once the supplier was on the card at the *)
(* last sync.  Otherwise it gets a new row.                                *)
WithPaidRow(rs, v, its, gone, before) ==
  LET mine == {k \in DOMAIN rs : rs[k].tag = None /\ rs[k].vendor = v}
      equal == {k \in mine : rs[k].amount = Bill(its, v)}
      take(k) == [rs EXCEPT ![k].tag = v,
                            ![k].amount = IF Tracks(rs[k], v, its, before) THEN Bill(its, v) ELSE @]
  IN  IF Bill(its, v) = 0 \/ v \in gone \/ \E k \in DOMAIN rs : rs[k].tag = v THEN rs
      ELSE IF equal # {} THEN take(Min(equal))
      ELSE IF before[v] > 0 /\ mine # {} THEN take(Min(mine))
      ELSE Append(rs, Row(FreeId(rs), v, Bill(its, v), v))

(* Suppliers are served one by one; each touches its own rows only.        *)
syncVendorExpensesFromPurchases(rs, its, gone, before) ==
  FoldSet(LAMBDA v, acc : WithPaidRow(acc, v, its, gone, before), KeptRows(rs, its, before), Vendors)

(* Called by every change of the card, with the rows as they then are.     *)
applyPurchaseVendorExpenseSync(rs, its, gone) ==
  LET still == {v \in gone : Bill(its, v) > 0 /\ prev[v] = Bill(its, v)}
  IN  /\ items' = its
      /\ dismissed' = still
      /\ rows' = syncVendorExpensesFromPurchases(rs, its, still, prev)
      /\ prev' = purchaseVendorTotalsFromLines(its)

Act == acts < MaxActs /\ acts' = acts + 1

Remember(newHand, newTyped, newLoaded) ==
  /\ hand' = newHand \cap Ids(rows')
  /\ typed' = newTyped
  /\ loaded' = newLoaded

CardChanged == Act /\ Remember(hand, typed, FALSE) /\ UNCHANGED <<saved, reopened>>
RowsChanged(newHand, newTyped) ==
  Act /\ Remember(newHand, newTyped, loaded) /\ UNCHANGED <<items, groups, prev, saved, reopened>>

Init ==
  /\ items = << >> /\ groups = {} /\ rows = << >> /\ dismissed = {}
  /\ prev = [v \in Vendors |-> 0]
  /\ saved = [items |-> << >>, rows |-> << >>]
  /\ hand = {} /\ typed = {} /\ loaded = FALSE /\ reopened = FALSE
  /\ acts = 0

------------------------------------------------------------------------------
(* The card. *)

addPurchaseExpenseLine ==
  /\ groups' = groups \cup {None}
  /\ UNCHANGED <<items, rows, dismissed, prev, saved, reopened>>
  /\ Act /\ Remember(hand, typed, loaded)

(* The card with one item more.                                            *)
With(its, i, it) == [j \in Keys(its) \cup {i} |-> IF j = i THEN it ELSE its[j]]
OnCard == groups \cup {items[i].vendor : i \in Keys(items)}

addPurchaseItemForVendor(i, v) ==
  /\ i \notin Keys(items) /\ v \in OnCard
  /\ groups' = groups \cup {v}
  /\ applyPurchaseVendorExpenseSync(rows, With(items, i, [vendor |-> v, total |-> 0]), dismissed)
  /\ CardChanged

(* A name, quantity, rate or total is typed: the item gets another total,  *)
(* or none.                                                                *)
patchPurchaseItem(i, t) ==
  /\ i \in Keys(items) /\ items[i].total # t
  /\ applyPurchaseVendorExpenseSync(rows, [items EXCEPT ![i].total = t], dismissed)
  /\ CardChanged /\ UNCHANGED groups

(* All items of a group move to another supplier, unless it is on the card.*)
setPurchaseVendorGroupName(from, to) ==
  /\ from \in OnCard /\ to # from
  /\ to \notin OnCard \/ to = None
  /\ groups' = {IF v = from THEN to ELSE v : v \in groups}
  /\ applyPurchaseVendorExpenseSync(rows,
       [i \in Keys(items) |-> IF items[i].vendor = from THEN [items[i] EXCEPT !.vendor = to] ELSE items[i]], dismissed)
  /\ CardChanged

Without(its, gone) == [i \in Keys(its) \ gone |-> its[i]]

removePurchaseItem(i) ==
  /\ i \in Keys(items)
  /\ applyPurchaseVendorExpenseSync(rows, Without(items, {i}), dismissed)
  /\ CardChanged /\ UNCHANGED groups

removePurchaseVendorGroup(v) ==
  /\ v \in OnCard
  /\ groups' = groups \ {v}
  /\ applyPurchaseVendorExpenseSync(rows, Without(items, {i \in Keys(items) : items[i].vendor = v}), dismissed)
  /\ CardChanged

------------------------------------------------------------------------------
(* The payment rows. *)

TaggedRow(v) == {k \in DOMAIN rows : rows[k].tag = v}
RowsOf(v) == {k \in DOMAIN rows : rows[k].vendor = v}

(* The row behind the card's Paid field: the tagged one, or the supplier's *)
(* first.  The others are listed as supplier payments.                     *)
PaidRow(v) == IF TaggedRow(v) # {} THEN {Min(TaggedRow(v))}
              ELSE IF v \in OnCard /\ RowsOf(v) # {} THEN {Min(RowsOf(v))} ELSE {}
Listed(id) ==
  /\ id \in Ids(rows)
  /\ rows[At(id)].tag = None
  /\ \A v \in Vendors : At(id) \notin PaidRow(v)

addVendorExpenseLine ==
  /\ rows' = Append(rows, Row(FreeId(rows), None, 0, None))
  /\ UNCHANGED dismissed
  /\ RowsChanged(hand \cup {FreeId(rows)}, typed)

(* patchLine, of the supplier and of the amount.                           *)
patchVendor(id, v) ==
  /\ Listed(id) /\ rows[At(id)].vendor # v
  /\ LET r == rows[At(id)]
     IN  /\ rows' = [rows EXCEPT ![At(id)].vendor = v, ![At(id)].tag = None]
         /\ dismissed' = dismissed \cup ({r.tag} \ {None})
  /\ RowsChanged(hand \cup {id}, typed \cup ({v, rows[At(id)].vendor} \ {None}))

patchAmount(id, a) ==
  /\ Listed(id) /\ rows[At(id)].amount # a
  /\ rows' = [rows EXCEPT ![At(id)].amount = a]
  /\ UNCHANGED dismissed
  /\ RowsChanged(hand \cup {id}, typed \cup ({rows[At(id)].vendor} \ {None}))

removeExpenseLine(id) ==
  /\ Listed(id)
  /\ rows' = Filtered(rows, {r \in Range(rows) : r.id # id})
  /\ dismissed' = dismissed \cup ({rows[At(id)].tag} \ {None})
  /\ RowsChanged(hand, typed \cup ({rows[At(id)].vendor} \ {None}))

(* Mutant: every amount typed makes a row. *)
PaidAppends(v, a) ==
  /\ v \in OnCard \ {None}
  /\ applyPurchaseVendorExpenseSync(Append(rows, Row(FreeId(rows), v, a, v)), items, dismissed \ {v})
  /\ Act /\ Remember(hand, typed \cup {v}, FALSE)
  /\ UNCHANGED <<groups, saved, reopened>>

(* The Paid field of a supplier on the card.  With no tagged row a new one *)
(* is made and the form synced, which drops it again if there is no bill.  *)
setPurchaseVendorPaid(v, a) ==
  /\ v \in OnCard \ {None}
  /\ IF TaggedRow(v) # {}
     THEN /\ rows' = [rows EXCEPT ![Min(TaggedRow(v))].amount = a]
          /\ rows' # rows
          /\ UNCHANGED dismissed
          /\ RowsChanged(hand, typed \cup {v})
     ELSE /\ applyPurchaseVendorExpenseSync(Append(rows, Row(FreeId(rows), v, a, v)), items, dismissed \ {v})
          /\ Act /\ Remember(hand, typed \cup {v}, FALSE)
          /\ UNCHANGED <<groups, saved, reopened>>

------------------------------------------------------------------------------
(* Saving and opening the day. *)

Complete(i) == items[i].vendor # None /\ items[i].total > 0
Blank(i) == items[i] = [vendor |-> None, total |-> 0]

(* Mutant: a row with a supplier is valid at zero. *)
ValidAtZero ==
  /\ \A i \in Keys(items) : Complete(i) \/ Blank(i)
  /\ \A k \in DOMAIN rows : rows[k].amount > 0 => rows[k].vendor # None

(* findFirstExpenseValidationError finds nothing: every item and every row *)
(* is filled in or was left alone.                                         *)
Valid ==
  /\ \A i \in Keys(items) : Complete(i) \/ Blank(i)
  /\ \A k \in DOMAIN rows : (rows[k].vendor # None) <=> (rows[k].amount > 0)

(* One purchase line per supplier with its items, a line per payment.      *)
buildExpenseLinesToSaveFromDrafts ==
  [items |-> Without(items, {i \in Keys(items) : ~Complete(i)}),
   rows |-> LET filled == Filtered(rows, {r \in Range(rows) : r.vendor # None /\ r.amount > 0})
            IN  [k \in DOMAIN filled |-> [filled[k] EXCEPT !.tag = None]]]

(* The form's reset effect: the lines of a saved day, without tags.        *)
OpenDay(day) ==
  /\ items' = day.items
  /\ groups' = {day.items[i].vendor : i \in Keys(day.items)}
  /\ rows' = day.rows
  /\ dismissed' = {}
  /\ prev' = purchaseVendorTotalsFromLines(day.items)
  /\ Remember(hand, typed, TRUE)
  /\ reopened' = TRUE

(* A day that did not change is not saved again; a saved one is opened.    *)
handleSave ==
  /\ Valid
  /\ saved' = buildExpenseLinesToSaveFromDrafts
  /\ saved' # saved
  /\ OpenDay(saved')
  /\ Act

(* The form is left and the day opened again.                              *)
Reopen == OpenDay(saved) /\ Act /\ UNCHANGED saved

Next ==
  \/ addPurchaseExpenseLine
  \/ \E i \in Items, v \in Vendors \cup {None} : addPurchaseItemForVendor(i, v)
  \/ \E i \in Items, t \in Totals \cup {0} : patchPurchaseItem(i, t)
  \/ \E from, to \in Vendors \cup {None} : setPurchaseVendorGroupName(from, to)
  \/ \E i \in Items : removePurchaseItem(i)
  \/ \E v \in Vendors \cup {None} : removePurchaseVendorGroup(v)
  \/ addVendorExpenseLine
  \/ \E id \in Ids(rows), v \in Vendors \cup {None} : patchVendor(id, v)
  \/ \E id \in Ids(rows), a \in Amounts : patchAmount(id, a)
  \/ \E id \in Ids(rows) : removeExpenseLine(id)
  \/ \E v \in Vendors, a \in Amounts \cup Totals : setPurchaseVendorPaid(v, a)
  \/ handleSave
  \/ Reopen

Spec == Init /\ [][Next]_vars

------------------------------------------------------------------------------
(* What the form is to keep. *)

PaidTo(rs, v) == SumFunctionOnSet([k \in DOMAIN rs |-> rs[k].amount], {k \in DOMAIN rs : rs[k].vendor = v})
Shown(v) == IF PaidRow(v) = {} THEN 0 ELSE rows[Min(PaidRow(v))].amount

(* The variables have their types and rows are told apart by their ids.    *)
TypeOK ==
  /\ Keys(items) \subseteq Items
  /\ items \in [Keys(items) -> [vendor : Vendors \cup {None}, total : Totals \cup {0}]]
  /\ groups \subseteq Vendors \cup {None}
  /\ rows \in Seq([id : Nat, vendor : Vendors \cup {None}, amount : Nat, tag : Vendors \cup {None}])
  /\ \A j, k \in DOMAIN rows : rows[j].id = rows[k].id => j = k
  /\ dismissed \subseteq Vendors /\ prev \in [Vendors -> Nat]
  /\ hand \subseteq Ids(rows) /\ typed \subseteq Vendors

(* From the first change of the card on, every supplier with a bill has    *)
(* one Paid row and nobody else has one, whatever was added, renamed,      *)
(* removed, saved and opened before.  On a new day, whoever nobody has paid*)
(* by hand is paid the bill, to the unit, and nothing once it is gone.     *)
PaidFollowsBill ==
  /\ \A v \in Vendors : Cardinality(TaggedRow(v)) = IF Bill(items, v) > 0 /\ ~loaded THEN 1 ELSE 0
  /\ ~reopened => \A v \in Vendors \ typed : PaidTo(rows, v) = Bill(items, v)

(* On a new day, a payment entered by hand whose amount is not the bill of *)
(* its supplier stays as it is until that very row is edited or removed,   *)
(* whatever happens on the card.  One of the bill's amount becomes the Paid*)
(* row.                                                                    *)
PaymentsKept ==
  [][~reopened' => \A id \in hand : LET r == rows[At(id)] IN
       \/ r.tag # None \/ (r.vendor # None /\ r.amount > 0 /\ r.amount = Bill(items', r.vendor))
       \/ \E k \in DOMAIN rows' : rows'[k] = r
       \/ removeExpenseLine(id)
       \/ \E v \in Vendors \cup {None} : patchVendor(id, v)
       \/ \E a \in Amounts : patchAmount(id, a)]_vars

(* The Paid field of a supplier with a bill replaces what it shows: the    *)
(* cash paid out changes by the difference, once the card was changed      *)
(* since the day was opened.                                               *)
PaidFieldReplaces ==
  [][\A v \in Vendors, a \in Amounts \cup Totals :
       setPurchaseVendorPaid(v, a) /\ Bill(items, v) > 0 /\ ~loaded =>
         PaidTo(rows', v) = PaidTo(rows, v) - Shown(v) + a]_vars

(* Every bill of a saved day has a payment to its supplier beside it: the  *)
(* hidden Paid row cannot be removed and is not valid at zero.             *)
SavedBillsPaid ==
  \A v \in Vendors : Bill(saved.items, v) > 0 => PaidTo(saved.rows, v) > 0
=============================================================================
