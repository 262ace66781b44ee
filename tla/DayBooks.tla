------------------------------ MODULE DayBooks ------------------------------
(***************************************************************************)
(* Purchases and supplier payments live twice: as lines of a day in the    *)
(* daily entries and as bills and payments in the suppliers' cashbooks.    *)
(* This module has one terminal's two ways to write them, the daily entry  *)
(* form and the cashbook's drawer, and the API that keeps both.            *)
(*                                                                         *)
(* The form changes the cashbook in memory and sends day and cashbook in   *)
(* one request.  The drawer changes the cashbook in memory, to be sent     *)
(* within the store's debounce, and meanwhile fetches and sends the days.  *)
(* It stays open meanwhile, or is closed: other operations may begin.      *)
(* The API drops a line's link to a bill it does not have.  Suppliers,     *)
(* items, notes and receipts are left out; a transaction and the reading   *)
(* of both stores that follows it are one step.                            *)
(***************************************************************************)
EXTENDS Integers, Sequences, FiniteSets, FiniteSetsExt
SeqExt == INSTANCE SequencesExt

CONSTANTS
  Dates,     \* days, 1 and up
  Suppliers,
  Amounts,
  Modes,     \* what may happen in a behaviour
  MaxLines   \* lines of one day

(* Patient: the user waits for an operation's end before the next one.     *)
(* Prompt: days are slow, and the debounced cashbook is saved before them. *)
(* Kinds: of lines and bills.  Acts: how often the user acts.              *)
Mode == [patient : BOOLEAN, prompt : BOOLEAN, locks : BOOLEAN, fails : BOOLEAN, closes : BOOLEAN, deletes : BOOLEAN,
         kinds : SUBSET {"invoice", "payment"}, acts : Nat]

ASSUME DayBooksAssumption ==
  /\ Dates \subseteq Nat \ {0} /\ IsFiniteSet(Dates)
  /\ Amounts \subseteq Nat \ {0} /\ Modes \subseteq Mode /\ MaxLines \in Nat

VARIABLES
  book,    \* the API's cashbook: bills and payments by id, purchase orders
  days,    \* the API's days: lines and lock
  mem,     \* the terminal's cashbook
  dirty,   \* a save of it is due
  cache,   \* the terminal's days
  op,      \* the operation that is at it
  others,  \* those put aside, waiting for an answer
  acts,
  mode

vars == <<book, days, mem, dirty, cache, op, others, acts, mode>>

Idle == [step |-> "idle"]
NoLink == 0
Linked(x) == x.bill # NoLink
NextId(ids) == IF ids = {} THEN 1 ELSE Max(ids) + 1

------------------------------------------------------------------------------
(* A cashbook: bills, a function from ids, and orders, newest first.       *)

Locked(m, b) == b \in DOMAIN m.bills /\ m.bills[b].locked
OrderIds(m) == {m.orders[k].id : k \in DOMAIN m.orders}

(* The number in a bill's reference is how many orders there are by now.   *)
commitLedgerEntryDraft(m, kind, s, d, a) ==
  LET b == NextId(DOMAIN m.bills)
      o == IF kind = "invoice" THEN NextId(OrderIds(m)) ELSE NoLink
      ref == IF kind = "invoice" THEN <<d, Len(m.orders) + 1>> ELSE <<0, b>>
      bill == [kind |-> kind, sup |-> s, date |-> d, amt |-> a, ref |-> ref, locked |-> FALSE]
      order == [id |-> o, ref |-> ref, sup |-> s, amt |-> a]
  IN  [book |-> [bills |-> [c \in DOMAIN m.bills \cup {b} |-> IF c = b THEN bill ELSE m.bills[c]],
                 orders |-> IF kind = "invoice" THEN <<order>> \o m.orders ELSE m.orders],
       bill |-> b, order |-> o]

(* The order of a bill is looked up by supplier and reference.             *)
linkedPurchaseForLedgerEntry(m, b) ==
  LET hits == {k \in DOMAIN m.orders : /\ m.bills[b].kind = "invoice"
                                       /\ m.orders[k].sup = m.bills[b].sup
                                       /\ m.orders[k].ref = m.bills[b].ref}
  IN  IF hits = {} THEN {} ELSE {Min(hits)}

updateLedgerEntryDraft(m, b, s, d, a) ==
  LET hit == linkedPurchaseForLedgerEntry(m, b)
  IN  [bills |-> [m.bills EXCEPT ![b].sup = s, ![b].date = d, ![b].amt = a],
       orders |-> [k \in DOMAIN m.orders |->
                     IF k \in hit THEN [m.orders[k] EXCEPT !.sup = s, !.amt = a] ELSE m.orders[k]]]

WithoutBills(m, bs) == [c \in DOMAIN m.bills \ bs |-> m.bills[c]]
WithoutOrders(m, os) == SelectSeq(m.orders, LAMBDA o : o.id \notin os)

removeLedgerEntryById(m, b) ==
  [bills |-> WithoutBills(m, {b}),
   orders |-> WithoutOrders(m, {m.orders[k].id : k \in linkedPurchaseForLedgerEntry(m, b)})]

(* Mutant: a locked bill is replaced like any other. *)
removeLinkAnyway(m, xs) ==
  [bills |-> WithoutBills(m, {x.bill : x \in xs}), orders |-> WithoutOrders(m, {x.order : x \in xs})]

(* Of lines: with the bill goes the order, but for locked bills.           *)
removeDailyLedgerExpenseLink(m, xs) ==
  LET free == {x \in xs : ~Locked(m, x.bill)}
  IN  [bills |-> WithoutBills(m, {x.bill : x \in free}), orders |-> WithoutOrders(m, {x.order : x \in free})]

------------------------------------------------------------------------------
(* Days.  A line: id, kind, supplier, amount, linked bill and order.       *)

Line(i, kind, s, a, b, o) == [id |-> i, kind |-> kind, sup |-> s, amt |-> a, bill |-> b, order |-> o]

(* What the API keeps of a line's links.                                   *)
Relinked(ls, m) ==
  {[x EXCEPT !.bill = IF x.bill \in DOMAIN m.bills THEN x.bill ELSE NoLink,
             !.order = IF x.order \in OrderIds(m) THEN x.order ELSE NoLink] : x \in ls}

(* A saved cashbook unlinks the lines of the bills it no longer has.       *)
DaysWith(map, m) == [d \in Dates |-> [map[d] EXCEPT !.lines = Relinked(@, m)]]

(* The lines an operation has ready to be sent.                            *)
LinesOf(o) ==
  IF o.step \in {"staff", "commit"} THEN o.lines
  ELSE IF o.step = "put" THEN UNION {o.rows[k][2] : k \in DOMAIN o.rows} ELSE {}

UsedLineIds ==
  (UNION {{x.id : x \in days[d].lines \cup cache[d].lines} : d \in Dates})
    \cup (UNION {{x.id : x \in LinesOf(others[k])} : k \in DOMAIN others})
FreeLineId == NextId(UsedLineIds)
LinesWith(map, b) == UNION {{x \in map[d].lines : x.bill = b} : d \in Dates}
HasLine(map, d, b) == \E x \in map[d].lines : x.bill = b

(* Posting a day's lines to the cashbook: a line that changed gets a new   *)
(* bill in place of its old one; a locked bill stays and keeps its line.   *)
Same(x, y) == x.sup = y.sup /\ x.amt = y.amt /\ x.kind = y.kind

PostedLine(acc, x, prior, d) ==
  LET before == {p \in prior : p.id = x.id}
      old == CHOOSE p \in before : TRUE
      had == before # {} /\ Linked(old)
      new == commitLedgerEntryDraft(acc.book, x.kind, x.sup, d, x.amt)
      kept == [x EXCEPT !.bill = old.bill, !.order = old.order]
  IN  IF had /\ (Same(x, old) \/ Locked(acc.book, old.bill))
      THEN [acc EXCEPT !.lines = @ \cup {kept}]
      ELSE [book |-> IF had THEN removeDailyLedgerExpenseLink(new.book, {old}) ELSE new.book,
            lines |-> acc.lines \cup {[x EXCEPT !.bill = new.bill, !.order = new.order]}]

(* Of some lines, the last one is posted after the others.                 *)
Posted(m, prior, ls, d) ==
  LET after[some \in SUBSET ls] ==
        IF some = {} THEN [book |-> m, lines |-> {}]
        ELSE LET x == CHOOSE y \in some : \A z \in some : z.id <= y.id
             IN  PostedLine(after[some \ {x}], x, prior, d)
  IN  after[ls]

syncDailyExpenseLedgerLinks(m, prior, ls, d) ==
  LET posted == Posted(m, prior, ls, d)
      dropped == {p \in prior : Linked(p) /\ p.id \notin {x.id : x \in ls}}
  IN  [lines |-> posted.lines, book |-> removeDailyLedgerExpenseLink(posted.book, dropped)]

------------------------------------------------------------------------------
Init ==
  /\ mode \in Modes
  /\ book = [bills |-> << >>, orders |-> << >>]
  /\ days = [d \in Dates |-> [lines |-> {}, locked |-> FALSE]]
  /\ mem = book /\ cache = days
  /\ dirty = FALSE /\ op = Idle /\ others = << >> /\ acts = 0

Act == acts < mode.acts /\ op = Idle /\ acts' = acts + 1 /\ UNCHANGED <<others, mode>>
Step == UNCHANGED <<others, acts, mode>>

(* An operation that waits holds nothing up: the user may begin another,   *)
(* and they are answered in any order.                                     *)
PutAside ==
  /\ ~mode.patient /\ op # Idle
  /\ others' = Append(others, op) /\ op' = Idle
  /\ UNCHANGED <<book, days, mem, dirty, cache, acts, mode>>

TakeUp(k) ==
  /\ op = Idle
  /\ op' = others[k] /\ others' = SeqExt!RemoveAt(others, k)
  /\ UNCHANGED <<book, days, mem, dirty, cache, acts, mode>>

Waiting(step) == \E k \in DOMAIN others : others[k].step = step

Store(m) == book' = m /\ days' = DaysWith(days, m)

(* The debounced save of the cashbook.                                     *)
Persist ==
  /\ dirty
  /\ Store(mem)
  /\ dirty' = FALSE
  /\ UNCHANGED <<mem, cache, op>> /\ Step

------------------------------------------------------------------------------
(* The daily entry form. *)

Entered(x, s, a) == [x EXCEPT !.sup = s, !.amt = a]
OneMore(ls) ==
  {ls \cup {Line(FreeLineId, k, s, a, NoLink, NoLink)} : k \in mode.kinds, s \in Suppliers, a \in Amounts}
OneChanged(ls) == {(ls \ {x}) \cup {Entered(x, s, a)} : x \in ls, s \in Suppliers, a \in Amounts}
OneLess(ls) == {ls \ {x} : x \in ls}
Edited(ls) == {ls} \cup OneMore(ls) \cup OneChanged(ls) \cup OneLess(ls)

(* The cashbook is changed in memory, to be sent with the day once the     *)
(* register has the staff's lines, unless their salaries cannot be read.   *)
handleSave(d) ==
  /\ ~cache[d].locked /\ ~Waiting("commit")
  /\ \E ls \in Edited(cache[d].lines) :
       LET posted == syncDailyExpenseLedgerLinks(mem, cache[d].lines, ls, d)
       IN  /\ Cardinality(ls) <= MaxLines
           /\ mem' = posted.book
           /\ op' = [step |-> "staff", date |-> d, lines |-> posted.lines]
  /\ dirty' = TRUE
  /\ Act /\ UNCHANGED <<book, days, cache>>

StaffFails ==
  /\ op.step = "staff" /\ mode.fails
  /\ op' = Idle
  /\ UNCHANGED <<book, days, mem, dirty, cache>> /\ Step

SendDay ==
  /\ op.step = "staff"
  /\ op' = [step |-> "commit", date |-> op.date, lines |-> op.lines, book |-> mem]
  /\ dirty' = FALSE
  /\ UNCHANGED <<book, days, mem, cache>> /\ Step

(* Answered or not, both stores are read again.                            *)
ReadAgain == mem' = book' /\ cache' = days' /\ dirty' = FALSE /\ op' = Idle

commitDailyEntry ==
  /\ op.step = "commit" /\ ~days[op.date].locked
  /\ book' = op.book
  /\ days' = [DaysWith(days, op.book) EXCEPT ![op.date].lines = Relinked(op.lines, op.book)]
  /\ ReadAgain /\ Step

CommitFails ==
  /\ op.step = "commit" /\ (mode.fails \/ days[op.date].locked)
  /\ UNCHANGED <<book, days>>
  /\ ReadAgain /\ Step

(* Mutant: the pending save of the cashbook is not settled first. *)
DeleteDayUnsettled(d) ==
  /\ mode.deletes /\ ~days[d].locked /\ days[d].lines # {}
  /\ LET gone == {x.bill : x \in {y \in days[d].lines : Linked(y) /\ ~Locked(book, y.bill)}}
         orders == {x.order : x \in {y \in days[d].lines : y.bill \in gone}}
         rest == [bills |-> WithoutBills(book, gone), orders |-> WithoutOrders(book, orders)]
     IN  /\ book' = rest
         /\ days' = [DaysWith(days, rest) EXCEPT ![d].lines = {}]
         /\ cache' = days'
  /\ Act /\ UNCHANGED <<mem, dirty, op>>

(* Pending edits are saved; the API then removes the day with the bills    *)
(* that only it has, but for locked ones, and everything is read again.    *)
executeDeleteHistoryEntry(d) ==
  /\ mode.deletes /\ ~days[d].locked /\ days[d].lines # {}
  /\ LET now == DaysWith(days, mem)
         mine == {x \in now[d].lines : Linked(x) /\ ~Locked(mem, x.bill)}
         gone == {x \in mine : \A e \in Dates \ {d} : ~HasLine(now, e, x.bill)}
         rest == [bills |-> WithoutBills(mem, {x.bill : x \in gone}),
                  orders |-> WithoutOrders(mem, {x.order : x \in gone})]
     IN  /\ book' = rest
         /\ days' = [DaysWith(now, rest) EXCEPT ![d].lines = {}]
  /\ Act /\ ReadAgain

------------------------------------------------------------------------------
(* The cashbook's drawer: a bill saved in memory is brought to the days.   *)

ToDays(b, o, s, d, a) == op' = [step |-> "load", bill |-> b, order |-> o, sup |-> s, date |-> d, amt |-> a]

saveNew(kind, s, d, a) ==
  LET new == commitLedgerEntryDraft(mem, kind, s, d, a)
  IN  /\ kind \in mode.kinds
      /\ mem' = new.book /\ dirty' = TRUE
      /\ IF kind = "invoice" THEN ToDays(new.bill, new.order, s, d, a) ELSE op' = Idle
      /\ Act /\ UNCHANGED <<book, days, cache>>

saveEdited(b, s, d, a) ==
  /\ b \in DOMAIN mem.bills /\ ~Locked(mem, b)
  /\ mem' = updateLedgerEntryDraft(mem, b, s, d, a) /\ dirty' = TRUE
  /\ IF mem.bills[b].kind = "invoice"
     THEN ToDays(b, IF linkedPurchaseForLedgerEntry(mem, b) = {} THEN NoLink
                    ELSE mem.orders[CHOOSE k \in linkedPurchaseForLedgerEntry(mem, b) : TRUE].id, s, d, a)
     ELSE op' = Idle
  /\ Act /\ UNCHANGED <<book, days, cache>>

(* The days are fetched; the line goes to the bill's date, with the id it  *)
(* had, and off the day it is found on first.  A locked day stops it.      *)
RowsOldFirst(put, off) == off \o <<put>>   \* mutant: the day the bill leaves is saved first
Rows(put, off) == <<put>> \o off
upsertDailyPurchaseFromLedgerInvoice ==
  LET b == op.bill
      on == {d \in Dates : HasLine(days, d, b)}
      found == IF on = {} THEN op.date ELSE Max(on)
      id == IF on = {} THEN FreeLineId ELSE (CHOOSE x \in days[found].lines : x.bill = b).id
      line == Line(id, "invoice", op.sup, op.amt, b, op.order)
      without(d) == {x \in days[d].lines : x.bill # b}
  IN  /\ op.step = "load"
      /\ cache' = days
      /\ op' = IF days[op.date].locked \/ days[found].locked THEN Idle
               ELSE [step |-> "put", bill |-> b,
                     rows |-> Rows(<<op.date, without(op.date) \cup {line}>>,
                                   IF found = op.date THEN << >> ELSE <<<<found, without(found)>>>>)]
      /\ UNCHANGED <<book, days, mem, dirty>> /\ Step

(* One day after the other is saved, whole, as it was fetched.             *)
saveDailyEntry ==
  /\ op.step = "put" /\ ~days[Head(op.rows)[1]].locked
  /\ mode.prompt => ~dirty
  /\ LET d == Head(op.rows)[1]
         rest == Tail(op.rows)
     IN  /\ days' = [days EXCEPT ![d].lines = Relinked(Head(op.rows)[2], book)]
         /\ cache' = [cache EXCEPT ![d] = days'[d]]
         /\ op' = IF rest = << >> THEN Idle ELSE [op EXCEPT !.rows = rest]
  /\ UNCHANGED <<book, mem, dirty>> /\ Step

SaveFails ==
  /\ op.step \in {"load", "put"}
  /\ mode.fails \/ (op.step = "put" /\ days[Head(op.rows)[1]].locked)
  /\ op' = Idle
  /\ UNCHANGED <<book, days, mem, dirty, cache>> /\ Step

------------------------------------------------------------------------------
(* Removing a bill, or a whole cashbook: for one bill after the other the  *)
(* days are fetched and its lines leave them, one day after the other,     *)
(* then it leaves the cashbook.                                            *)

Unlinking(bs, sup, left) == [step |-> "unlink", bills |-> bs, sup |-> sup, left |-> left]

removeEntry(b) ==
  /\ b \in DOMAIN mem.bills /\ ~Locked(mem, b)
  /\ op' = Unlinking({b}, {}, {b})
  /\ Act /\ UNCHANGED <<book, days, mem, dirty, cache>>

BillsOf(m, sup) == {b \in DOMAIN m.bills : m.bills[b].sup \in sup}

confirmDeleteCashbook(s) ==
  /\ mode.deletes /\ BillsOf(mem, {s}) # {}
  /\ \A k \in DOMAIN others : others[k].step \in {"unlink", "strip"} => others[k].sup = {}
  /\ op' = Unlinking(BillsOf(mem, {s}), {s}, BillsOf(mem, {s}))
  /\ Act /\ UNCHANGED <<book, days, mem, dirty, cache>>

(* On to the bill's next day, or to the next bill.                         *)
Stripping(read) ==
  IF \E d \in Dates : HasLine(read, d, Max(op.left))
  THEN [step |-> "strip", bills |-> op.bills, sup |-> op.sup, left |-> op.left, read |-> read]
  ELSE Unlinking(op.bills, op.sup, op.left \ {Max(op.left)})

unlinkDailyExpenseLinesForLedgerEntry ==
  /\ op.step = "unlink" /\ op.left # {}
  /\ cache' = days
  /\ op' = Stripping(days)
  /\ UNCHANGED <<book, days, mem, dirty>> /\ Step

(* A locked day stops it where it is.                                      *)
stripLinkedLines(d) ==
  LET kept == {x \in op.read[d].lines : x.bill # Max(op.left)}
  IN  /\ op.step = "strip" /\ HasLine(op.read, d, Max(op.left))
      /\ IF op.read[d].locked \/ days[d].locked
         THEN op' = Idle /\ UNCHANGED <<days, cache>>
         ELSE /\ days' = [days EXCEPT ![d].lines = Relinked(kept, book)]
              /\ cache' = [cache EXCEPT ![d] = days'[d]]
              /\ op' = Stripping([op.read EXCEPT ![d].lines = kept])
      /\ UNCHANGED <<book, mem, dirty>> /\ Step

UnlinkFails ==
  /\ mode.fails /\ (op.step = "strip" \/ (op.step = "unlink" /\ op.left # {}))
  /\ op' = Idle
  /\ UNCHANGED <<book, days, mem, dirty, cache>> /\ Step

(* A bill that is locked by now stays, and a cashbook with one.            *)
removeUnlinked ==
  LET gone == IF op.sup = {} THEN op.bills \cap DOMAIN mem.bills ELSE BillsOf(mem, op.sup)
  IN  /\ op.step = "unlink" /\ op.left = {}
      /\ IF gone = {} \/ \E b \in gone : Locked(mem, b)
         THEN UNCHANGED <<mem, dirty>>
         ELSE /\ mem' = IF op.sup = {} THEN removeLedgerEntryById(mem, Min(gone))
                        ELSE [bills |-> WithoutBills(mem, gone),
                              orders |-> SelectSeq(mem.orders, LAMBDA o : o.sup \notin op.sup)]
              /\ dirty' = TRUE
      /\ op' = Idle
      /\ UNCHANGED <<book, days, cache>> /\ Step

------------------------------------------------------------------------------
(* Locks, and a terminal that is closed and opened again.                  *)

setLedgerEntryLocked(b) ==
  /\ mode.locks /\ b \in DOMAIN mem.bills
  /\ mem' = [mem EXCEPT !.bills[b].locked = ~@]
  /\ dirty' = TRUE
  /\ Act /\ UNCHANGED <<book, days, cache, op>>

LockDay(d) ==
  /\ mode.locks
  /\ days' = [days EXCEPT ![d].locked = ~@]
  /\ cache' = [cache EXCEPT ![d] = days'[d]]
  /\ Act /\ UNCHANGED <<book, mem, dirty, op>>

Restart ==
  /\ mode.closes
  /\ UNCHANGED <<book, days>>
  /\ ReadAgain /\ others' = << >> /\ UNCHANGED <<acts, mode>>

Next ==
  \/ PutAside
  \/ \E k \in DOMAIN others : TakeUp(k)
  \/ Persist
  \/ \E d \in Dates : handleSave(d)
  \/ StaffFails
  \/ SendDay
  \/ commitDailyEntry
  \/ CommitFails
  \/ \E d \in Dates : executeDeleteHistoryEntry(d)
  \/ \E k \in mode.kinds, s \in Suppliers, d \in Dates, a \in Amounts : saveNew(k, s, d, a)
  \/ \E b \in DOMAIN mem.bills, s \in Suppliers, d \in Dates, a \in Amounts : saveEdited(b, s, d, a)
  \/ upsertDailyPurchaseFromLedgerInvoice
  \/ saveDailyEntry
  \/ SaveFails
  \/ \E b \in DOMAIN mem.bills : removeEntry(b)
  \/ \E s \in Suppliers : confirmDeleteCashbook(s)
  \/ unlinkDailyExpenseLinesForLedgerEntry
  \/ \E d \in Dates : stripLinkedLines(d)
  \/ UnlinkFails
  \/ removeUnlinked
  \/ \E b \in DOMAIN mem.bills : setLedgerEntryLocked(b)
  \/ \E d \in Dates : LockDay(d)
  \/ Restart

Spec == Init /\ [][Next]_vars
------------------------------------------------------------------------------
(* What the two places owe each other. *)

Quiet == op = Idle /\ others = << >> /\ ~dirty
Sound == mode.patient /\ ~mode.locks /\ ~mode.fails /\ ~mode.closes
AllLines == UNION {days[d].lines : d \in Dates}

(* With nothing under way, a day's line that is linked has a bill or       *)
(* payment of its kind in the cashbook to itself, a purchase one of its    *)
(* supplier, amount and date.  Where a day of the drawer is saved before   *)
(* the debounced cashbook, as on a fast API, that is all: the API drops    *)
(* the links to bills it does not have yet.  Where the cashbook comes      *)
(* first, every line is linked and every bill has its line.  A payment     *)
(* edited in the drawer alone keeps its line as it was.                    *)
BooksAgree ==
  Quiet /\ Sound =>
    /\ \A d \in Dates : \A x \in days[d].lines : Linked(x) =>
         /\ x.kind = book.bills[x.bill].kind
         /\ x.kind = "invoice" => /\ book.bills[x.bill].sup = x.sup /\ book.bills[x.bill].amt = x.amt
                                  /\ book.bills[x.bill].date = d
    /\ \A x, y \in AllLines : Linked(x) /\ x.bill = y.bill => x = y
    /\ mode.prompt =>
         /\ \A x \in AllLines : Linked(x)
         /\ \A b \in DOMAIN book.bills : book.bills[b].kind = "invoice" => LinesWith(days, b) # {}

(* A locked bill or payment keeps supplier, date, amount and place in the  *)
(* terminal's cashbook, whatever form, drawer and deleted days do, and in  *)
(* whatever order they are answered, until it is unlocked.  Reading the    *)
(* API's again may undo what was locked meanwhile: after a failure, at a   *)
(* start, or once a day is saved that the user did not wait for.           *)
LockedBillsStay ==
  [][~mode.fails /\ ~mode.closes /\ (op.step = "commit" => mode.patient /\ ~days[op.date].locked) =>
       \A b \in DOMAIN mem.bills : Locked(mem, b) =>
         b \in DOMAIN mem'.bills /\ [mem'.bills[b] EXCEPT !.locked = TRUE] = mem.bills[b]]_vars

(* For a user who waits for each operation, a bill's last line leaves the  *)
(* days only when the bill is being removed, or with a day or a form's     *)
(* line whose bill is locked and stays: a bill that moves to another date  *)
(* is on both days before it leaves one, even if a request fails in        *)
(* between, or the terminal is closed.  The form knows a day's lines by    *)
(* their ids: where two of them have one id, as a move that failed and     *)
(* another one may leave them, it may take one for the other.              *)
OwnIds == \A d \in Dates : \A x, y \in cache[d].lines : x.id = y.id => x = y
LineNeverLost ==
  [][mode.patient /\ OwnIds => \A b \in DOMAIN book.bills \cap DOMAIN book'.bills :
       LinesWith(days, b) # {} /\ UNION {{x \in days'[d].lines : x.bill = b} : d \in Dates} = {} =>
         op.step = "strip" \/ Locked(book', b)]_vars
=============================================================================
