---------------------------- MODULE BranchBooks ----------------------------
(***************************************************************************)
(* The books of one branch as the API keeps them: daily entries and their  *)
(* expense lines, the cashbook (ledger entries, purchase orders, returns), *)
(* the salary register, the employee directory, the expense categories,    *)
(* the Payables rows a user wrote (`manual`) and the Payables rows the API *)
(* derives from all the others.                                            *)
(*                                                                         *)
(* Every database transaction is one step.  A handler that reads before it *)
(* opens its transaction is one request with a step per read: between two  *)
(* steps of a request any other handler may run.  Foreign keys act in the  *)
(* step that deletes the row they point to (CASCADE or SET NULL), as the   *)
(* schema says.  Amounts are left out, except that a line may be unpaid;   *)
(* stored media are the subject of another module.                         *)
(***************************************************************************)
EXTENDS FiniteSets, Integers

CONSTANTS
  Days,           \* dates that may have a daily entry
  Takings,        \* the figures of a daily entry's header
  Entries,        \* ids of ledger entries
  PaymentEntries, \* those of them that are payments, the others are bills
  Pos,            \* ids of purchase orders
  Rets,           \* ids of purchase returns
  Months,         \* month keys of the salary register
  SLines,         \* ids of salary lines (one employee in one month)
  MonthOf,        \* the month each salary line was made for
  SPays,          \* ids of salary payments
  Emps,           \* ids of employees
  Cats,           \* ids of expense categories
  MExps,          \* ids of manual expenses
  MPays,          \* ids of manual payments
  LinePool,       \* the expense lines a client may put in a daily entry
  MaxLines,       \* how many of them one saved day holds at most
  LedgerInputs,   \* the cashbooks a client may send
  SalaryInputs,   \* the salary registers a client may send
  Requests,       \* handlers in flight at the same time
  Settle(_, _),   \* which payment entries settle which purchase orders
  Absent,         \* no such row
  NoRef           \* a null reference

LineKinds == {"regular", "purchase", "vendor", "staff"}

Line == [id : {l.id : l \in LinePool}, kind : LineKinds, paid : BOOLEAN,
         entry : Entries \cup {NoRef}, po : Pos \cup {NoRef},
         emp : Emps \cup {NoRef}, cat : Cats \cup {NoRef}]

Lockable == {"absent", "open", "locked"}

LedgerBook == [ledger : [Entries -> Lockable], pos : SUBSET Pos,
               rets : [Rets -> Pos \cup {NoRef, Absent}]]

SalaryBook == [months : [Months -> Lockable],
               slines : [SLines -> Emps \cup {NoRef, Absent}],
               spays  : [SPays -> [line : SLines, day : Days \cup {NoRef}]
                                    \cup {Absent}]]

(* A register nests its payments in lines and its lines in months.         *)
Nested(book) ==
  /\ \A l \in SLines : book.slines[l] # Absent => book.months[MonthOf[l]] # "absent"
  /\ \A s \in SPays : book.spays[s] # Absent => book.slines[book.spays[s].line] # Absent

ASSUME ConstantsAssumption ==
  /\ PaymentEntries \subseteq Entries
  /\ MonthOf \in [SLines -> Months]
  /\ LinePool \subseteq Line
  /\ MaxLines \in Nat
  /\ LedgerInputs \subseteq LedgerBook
  /\ SalaryInputs \subseteq SalaryBook
  /\ \A book \in SalaryInputs : Nested(book)
  /\ \A ps \in SUBSET Pos, es \in SUBSET PaymentEntries : Settle(ps, es) \subseteq es \X ps
  /\ Absent # NoRef
  /\ \A S \in {Days, Entries, Pos, Emps, Cats, MExps, SLines, SPays} :
        Absent \notin S /\ NoRef \notin S
  /\ Absent \notin [line : SLines, day : Days \cup {NoRef}]
  /\ Absent \notin [locked : BOOLEAN, takings : Takings]
  /\ MExps \cap SLines = {}

VARIABLES
  day,      \* daily entries: Absent, or the header with its lock
  lines,    \* expense lines of each daily entry
  ledger,   \* ledger entries: absent, open or locked
  pos,      \* purchase orders
  rets,     \* purchase returns: Absent, or the purchase order returned
  months,   \* salary months: absent, open or locked
  slines,   \* salary lines: Absent, or the employee
  spays,    \* salary payments: Absent, or the line paid and the day it was posted from
  emps,     \* employees
  cats,     \* expense categories
  mexps,    \* manual expenses: Absent, or the category
  mpays,    \* manual payments: Absent, or the manual expense or salary line paid
  derived,  \* Payables rows whose source is not `manual`
  req       \* what each handler in flight has read so far

tables == <<day, lines, ledger, pos, rets, months, slines, spays, emps, cats,
            mexps, mpays, derived>>
vars == <<tables, req>>

-----------------------------------------------------------------------------
(* References between rows.                                                *)

Known(ref, rows) == IF ref \in rows THEN ref ELSE NoRef

(* A line whose references to rows that are not there are null.            *)
Relink(l, es, ps, ms, cs) ==
  [l EXCEPT !.entry = Known(l.entry, es), !.po = Known(l.po, ps),
            !.emp = Known(l.emp, ms), !.cat = Known(l.cat, cs)]

RelinkAll(ls, es, ps, ms, cs) == {Relink(l, es, ps, ms, cs) : l \in ls}

LedgerIds(book) == {e \in Entries : book[e] # "absent"}

-----------------------------------------------------------------------------
(* The Payables projection: the rows the API owns, by the row they stand   *)
(* for.  A settlement is a pair of a payment entry and a purchase order.   *)

DailyPayable == [id : {l.id : l \in LinePool}, cat : Cats \cup {NoRef}, paid : BOOLEAN]

DailyPayables(ls) ==
  {[id |-> l.id, cat |-> l.cat, paid |-> l.paid] : l \in {m \in ls : m.kind = "regular"}}

Paid(s) == IF spays[s] = Absent THEN Absent ELSE spays[s].line

Projection ==
  [purchase |-> pos,
   daily    |-> [d \in Days |-> DailyPayables(lines[d])],
   salary   |-> [s \in SPays |-> Paid(s)],
   settled  |-> Settle(pos, LedgerIds(ledger) \cap PaymentEntries)]

(* Delete every derived row and derive them again from the tables this     *)
(* transaction leaves behind.                                              *)
syncPayables == derived' = Projection'

-----------------------------------------------------------------------------
(* Requests.                                                               *)

Idle == [phase |-> "idle", day |-> NoRef, wanted |-> {}, links |-> {},
         exp |-> NoRef, found |-> TRUE]

Link == [entry : Entries \cup {NoRef}, po : Pos \cup {NoRef}]

RequestFields == [phase : {"idle", "saving", "removing", "deleting", "dropping"},
                  day : Days \cup {NoRef}, wanted : SUBSET LinePool, links : SUBSET Link,
                  exp : MExps \cup {NoRef}, found : BOOLEAN]

Request == {q \in RequestFields :
              /\ q.phase \in {"saving", "removing", "deleting"} => q.day \in Days
              /\ q.phase = "dropping" => q.exp \in MExps}

Exists(d) == day[d] # Absent
IsLocked(d) == Exists(d) /\ day[d].locked

Finish(r) == req' = [req EXCEPT ![r] = Idle]

(* And the row that the losers found by its id is gone.                    *)
FinishDeleting(r, losers) ==
  req' = [q \in Requests |->
            IF q = r THEN Idle
            ELSE IF q \in losers THEN [req[q] EXCEPT !.found = FALSE] ELSE req[q]]

(* A request fails in its transaction, is cut off, or the server stops:    *)
(* nothing is written.                                                     *)
Abandon(r) ==
  /\ req[r].phase # "idle"
  /\ Finish(r)
  /\ UNCHANGED tables

-----------------------------------------------------------------------------
(* Whole-book writes, used alone or inside a daily commit.                 *)

(* A return that names a purchase order which is neither stored nor sent   *)
(* fails its foreign key and the transaction with it.                      *)
ReturnsResolve(book) == \A r \in Rets : book.rets[r] \in Pos => book.rets[r] \in pos \cup book.pos

syncLedgerWorkspace(book) ==
  /\ ReturnsResolve(book)
  /\ ledger' = book.ledger
  /\ pos' = book.pos
  /\ rets' = [r \in Rets |-> IF book.rets[r] = Absent THEN Absent
                             ELSE Known(book.rets[r], book.pos)]

PaidEmployees(book) == {book.slines[l] : l \in SLines} \cap Emps

(* Payments on a salary line go with the line, whoever wrote them.         *)
CascadeToPayments ==
  mpays' = [p \in MPays |->
              IF mpays[p] \in SLines /\ slines'[mpays[p]] = Absent THEN Absent ELSE mpays[p]]

syncSalaryWorkspace(book) ==
  /\ months' = book.months
  /\ slines' = book.slines
  /\ spays' = book.spays
  /\ emps' = emps \cup PaidEmployees(book)
  /\ CascadeToPayments

PutLedger(book) ==
  /\ syncLedgerWorkspace(book)
  /\ lines' = [d \in Days |-> RelinkAll(lines[d], LedgerIds(ledger'), pos', emps, cats)]
  /\ UNCHANGED <<day, months, slines, spays, emps, cats, mexps, mpays, req>>
  /\ syncPayables

PutSalary(book) ==
  /\ syncSalaryWorkspace(book)
  /\ UNCHANGED <<day, lines, ledger, pos, rets, cats, mexps, req>>
  /\ syncPayables

(* Faulty: leaves salary lines with employees who are gone.                *)
PutEmployeesOnly(roster) ==
  /\ emps' = roster
  /\ lines' = [d \in Days |-> RelinkAll(lines[d], LedgerIds(ledger), pos, roster, cats)]
  /\ UNCHANGED <<day, ledger, pos, rets, months, slines, spays, cats, mexps, mpays, derived, req>>

PutEmployees(roster) ==
  /\ emps' = roster
  /\ lines' = [d \in Days |-> RelinkAll(lines[d], LedgerIds(ledger), pos, roster, cats)]
  /\ slines' = [l \in SLines |-> IF slines[l] = Absent THEN Absent ELSE Known(slines[l], roster)]
  /\ UNCHANGED <<day, ledger, pos, rets, months, spays, cats, mexps, mpays, derived, req>>

-----------------------------------------------------------------------------
(* Saving a day.  prepareUpsert looks at the lock; the transaction, later, *)
(* does not look again.                                                    *)

prepareUpsert(r) ==
  /\ req[r].phase = "idle"
  /\ \E d \in Days, ls \in SUBSET LinePool :
       /\ ~IsLocked(d)
       /\ Cardinality(ls) <= MaxLines
       /\ \A l, m \in ls : l.id = m.id => l = m
       /\ req' = [req EXCEPT ![r] = [Idle EXCEPT !.phase = "saving", !.day = d, !.wanted = ls]]
  /\ UNCHANGED tables

(* The header by date, then the lines in full, each link kept only if its  *)
(* row is there now.                                                       *)
upsertWithinTx(d, ls, takings) ==
  /\ day' = [day EXCEPT ![d] = [locked |-> IsLocked(d), takings |-> takings]]
  /\ lines' = [e \in Days |-> RelinkAll(IF e = d THEN ls ELSE lines[e],
                                        LedgerIds(ledger'), pos', emps', cats)]

Upsert(r) ==
  /\ req[r].phase = "saving"
  /\ UNCHANGED <<ledger, pos, rets, months, slines, spays, emps, cats, mexps, mpays>>
  /\ \E t \in Takings : upsertWithinTx(req[r].day, req[r].wanted, t)
  /\ Finish(r)
  /\ syncPayables

(* A daily commit also carries the cashbook, the register, or both.        *)
Commit(r) ==
  /\ req[r].phase = "saving"
  /\ \/ /\ \E book \in LedgerInputs : syncLedgerWorkspace(book)
        /\ \/ \E book \in SalaryInputs : syncSalaryWorkspace(book)
           \/ UNCHANGED <<months, slines, spays, emps, mpays>>
     \/ /\ UNCHANGED <<ledger, pos, rets>>
        /\ \E book \in SalaryInputs : syncSalaryWorkspace(book)
  /\ \E t \in Takings : upsertWithinTx(req[r].day, req[r].wanted, t)
  /\ UNCHANGED <<cats, mexps>>
  /\ Finish(r)
  /\ syncPayables

(* Faulty: writes the lock over the header.                                *)
LockOver(d) ==
  /\ Exists(d) /\ ~IsLocked(d)
  /\ day' = [day EXCEPT ![d] = [locked |-> TRUE]]
  /\ UNCHANGED <<lines, ledger, pos, rets, months, slines, spays, emps, cats,
                 mexps, mpays, derived, req>>

Lock(d) ==
  /\ Exists(d) /\ ~IsLocked(d)
  /\ day' = [day EXCEPT ![d].locked = TRUE]
  /\ UNCHANGED <<lines, ledger, pos, rets, months, slines, spays, emps, cats,
                 mexps, mpays, derived, req>>

Unlock(d) ==
  /\ IsLocked(d)
  /\ day' = [day EXCEPT ![d].locked = FALSE]
  /\ UNCHANGED <<lines, ledger, pos, rets, months, slines, spays, emps, cats,
                 mexps, mpays, derived, req>>

-----------------------------------------------------------------------------
(* Removing a day: look at the lock, read the day's links, then delete.    *)

BeginRemove(r) ==
  /\ req[r].phase = "idle"
  /\ \E d \in Days :
       /\ Exists(d) /\ ~IsLocked(d)
       /\ req' = [req EXCEPT ![r] = [Idle EXCEPT !.phase = "removing", !.day = d]]
  /\ UNCHANGED tables

(* The lines are read by the id of the row found first.                    *)
ReadLinks(r) ==
  /\ req[r].phase = "removing"
  /\ req' = [req EXCEPT ![r].phase = "deleting",
                        ![r].links = IF req[r].found
                                     THEN {[entry |-> l.entry, po |-> l.po] : l \in lines[req[r].day]}
                                     ELSE {}]
  /\ UNCHANGED tables

(* Faulty: counts the references before the day's own lines are deleted.   *)
LinesBeforeDelete(d) == UNION {lines[e] : e \in Days}

OtherLines(d) == UNION {lines[e] : e \in Days \ {d}}

(* Faulty: keeps the bills other days use, but not the locked ones.        *)
KeptIfUsed(d, links) ==
  {e \in {k.entry : k \in links} \cap LedgerIds(ledger) : \E l \in OtherLines(d) : l.entry = e}

(* Faulty: keeps locked bills only.                                        *)
KeptIfLocked(d, links) ==
  {e \in {k.entry : k \in links} \cap LedgerIds(ledger) : ledger[e] = "locked"}

KeptEntries(d, links) ==
  {e \in {k.entry : k \in links} \cap LedgerIds(ledger) :
      ledger[e] = "locked" \/ \E l \in OtherLines(d) : l.entry = e}

GoneEntries(d, links) ==
  ({k.entry : k \in links} \cap LedgerIds(ledger)) \ KeptEntries(d, links)

(* Faulty: does not look at the bill an order is paired with.              *)
GonePosUnpaired(d, links) ==
  {p \in {k.po : k \in links} \cap pos : \A l \in OtherLines(d) : l.po # p}

GonePos(d, links) ==
  {p \in {k.po : k \in links} \cap pos :
     /\ \A l \in OtherLines(d) : l.po # p
     /\ \A k \in links : k.po = p => k.entry \notin KeptEntries(d, links)}

(* Faulty: also from a locked month.                                       *)
GonePayoutsAnyMonth(d) == {s \in SPays : spays[s] # Absent /\ spays[s].day = d}

(* Payouts the day posted, unless they landed in a locked month.           *)
GonePayouts(d) ==
  {s \in SPays : /\ spays[s] # Absent
                 /\ spays[s].day = d
                 /\ months[MonthOf[spays[s].line]] # "locked"}

Remove(r) ==
  LET d == req[r].day
      goneEntries == GoneEntries(d, req[r].links)
      gonePos == GonePos(d, req[r].links)
      gonePayouts == GonePayouts(d)
  IN  /\ req[r].phase = "deleting"
      /\ Exists(d)
      /\ day' = [day EXCEPT ![d] = Absent]
      /\ ledger' = [e \in Entries |-> IF e \in goneEntries THEN "absent" ELSE ledger[e]]
      /\ pos' = pos \ gonePos
      /\ rets' = [x \in Rets |-> IF rets[x] \in gonePos THEN NoRef ELSE rets[x]]
      /\ lines' = [e \in Days |-> IF e = d THEN {}
                                  ELSE RelinkAll(lines[e], LedgerIds(ledger'), pos', emps, cats)]
      /\ spays' = [s \in SPays |-> IF s \in gonePayouts THEN Absent ELSE spays[s]]
      /\ UNCHANGED <<months, slines, emps, cats, mexps, mpays>>
      /\ FinishDeleting(r, {q \in Requests : req[q].phase = "removing" /\ req[q].day = d})
      /\ syncPayables

-----------------------------------------------------------------------------
(* Categories and the rows a user writes in Payables.                      *)

CreateCategory(c) ==
  /\ c \notin cats
  /\ cats' = cats \cup {c}
  /\ UNCHANGED <<day, lines, ledger, pos, rets, months, slines, spays, emps,
                 mexps, mpays, derived, req>>

(* Faulty: forgets the derived expenses.                                   *)
RemoveCategoryOnly(c) ==
  /\ c \in cats
  /\ cats' = cats \ {c}
  /\ lines' = [d \in Days |-> RelinkAll(lines[d], LedgerIds(ledger), pos, emps, cats')]
  /\ mexps' = [x \in MExps |-> IF mexps[x] = c THEN NoRef ELSE mexps[x]]
  /\ UNCHANGED <<day, ledger, pos, rets, months, slines, spays, emps, mpays, derived, req>>

(* Expenses and lines lose the label, derived expenses too.                *)
RemoveCategory(c) ==
  /\ c \in cats
  /\ cats' = cats \ {c}
  /\ lines' = [d \in Days |-> RelinkAll(lines[d], LedgerIds(ledger), pos, emps, cats')]
  /\ mexps' = [x \in MExps |-> IF mexps[x] = c THEN NoRef ELSE mexps[x]]
  /\ derived' = [derived EXCEPT !.daily = [d \in Days |->
                   {[x EXCEPT !.cat = Known(x.cat, cats')] : x \in derived.daily[d]}]]
  /\ UNCHANGED <<day, ledger, pos, rets, months, slines, spays, emps, mpays, req>>

NewExpense(x, c) ==
  /\ mexps[x] = Absent
  /\ c \in cats \cup {NoRef}
  /\ mexps' = [mexps EXCEPT ![x] = c]

SettleAtOnce(x) ==
  \E p \in MPays : mpays[p] = Absent /\ mpays' = [mpays EXCEPT ![p] = x]

CreateExpense(x, c) ==
  /\ NewExpense(x, c)
  /\ UNCHANGED mpays \/ SettleAtOnce(x)
  /\ UNCHANGED <<day, lines, ledger, pos, rets, months, slines, spays, emps, cats,
                 derived, req>>

UpdateExpense(x, c) ==
  /\ mexps[x] # Absent
  /\ c \in cats \cup {NoRef}
  /\ mexps' = [mexps EXCEPT ![x] = c]
  /\ UNCHANGED <<day, lines, ledger, pos, rets, months, slines, spays, emps, cats,
                 mpays, derived, req>>

(* One tap: an expense and the payment that settles it.  (With nothing     *)
(* paid it is CreateExpense.)                                              *)
QuickExpense(x, c) ==
  /\ NewExpense(x, c)
  /\ SettleAtOnce(x)
  /\ UNCHANGED <<day, lines, ledger, pos, rets, months, slines, spays, emps, cats,
                 derived, req>>

(* On a manual expense or on any salary line.                              *)
CreatePayment(p) ==
  /\ mpays[p] = Absent
  /\ \E t \in {x \in MExps : mexps[x] # Absent} \cup {l \in SLines : slines[l] # Absent} :
       mpays' = [mpays EXCEPT ![p] = t]
  /\ UNCHANGED <<day, lines, ledger, pos, rets, months, slines, spays, emps, cats,
                 mexps, derived, req>>

RemovePayment(p) ==
  /\ mpays[p] # Absent
  /\ mpays' = [mpays EXCEPT ![p] = Absent]
  /\ UNCHANGED <<day, lines, ledger, pos, rets, months, slines, spays, emps, cats,
                 mexps, derived, req>>

(* Removing a manual expense: count its payments, then delete.             *)
BeginRemoveExpense(r) ==
  /\ req[r].phase = "idle"
  /\ \E x \in MExps :
       /\ mexps[x] # Absent
       /\ \A p \in MPays : mpays[p] # x
       /\ req' = [req EXCEPT ![r] = [Idle EXCEPT !.phase = "dropping", !.exp = x]]
  /\ UNCHANGED tables

RemoveExpense(r) ==
  LET x == req[r].exp
  IN  /\ req[r].phase = "dropping"
      /\ req[r].found
      /\ mexps' = [mexps EXCEPT ![x] = Absent]
      /\ mpays' = [p \in MPays |-> IF mpays[p] = x THEN Absent ELSE mpays[p]]
      /\ FinishDeleting(r, {q \in Requests : req[q].phase = "dropping" /\ req[q].exp = x})
      /\ UNCHANGED <<day, lines, ledger, pos, rets, months, slines, spays, emps, cats, derived>>

-----------------------------------------------------------------------------
Init ==
  /\ day = [d \in Days |-> Absent]
  /\ lines = [d \in Days |-> {}]
  /\ ledger = [e \in Entries |-> "absent"]
  /\ pos = {}
  /\ rets = [x \in Rets |-> Absent]
  /\ months = [m \in Months |-> "absent"]
  /\ slines = [l \in SLines |-> Absent]
  /\ spays = [s \in SPays |-> Absent]
  /\ emps = {}
  /\ cats = {}
  /\ mexps = [x \in MExps |-> Absent]
  /\ mpays = [p \in MPays |-> Absent]
  /\ derived = Projection
  /\ req = [r \in Requests |-> Idle]

DayStep(r) == prepareUpsert(r) \/ Upsert(r) \/ Commit(r) \/ BeginRemove(r) \/ ReadLinks(r) \/ Remove(r)

PayablesStep ==
  \/ \E c \in Cats : CreateCategory(c) \/ RemoveCategory(c)
  \/ \E x \in MExps, c \in Cats \cup {NoRef} : CreateExpense(x, c) \/ QuickExpense(x, c) \/ UpdateExpense(x, c)
  \/ \E p \in MPays : CreatePayment(p) \/ RemovePayment(p)
  \/ \E r \in Requests : BeginRemoveExpense(r) \/ RemoveExpense(r)

BookStep ==
  \/ \E book \in LedgerInputs : PutLedger(book)
  \/ \E book \in SalaryInputs : PutSalary(book)
  \/ \E roster \in SUBSET Emps : PutEmployees(roster)

Next ==
  \/ \E r \in Requests : DayStep(r) \/ Abandon(r)
  \/ \E d \in Days : Lock(d) \/ Unlock(d)
  \/ BookStep
  \/ PayablesStep

Spec == Init /\ [][Next]_vars

-----------------------------------------------------------------------------
(* The types of the tables, and of what the requests hold.                 *)
TypeOK ==
  /\ day \in [Days -> [locked : BOOLEAN, takings : Takings] \cup {Absent}]
  /\ lines \in [Days -> SUBSET Line]
  /\ ledger \in [Entries -> Lockable]
  /\ pos \in SUBSET Pos
  /\ rets \in [Rets -> Pos \cup {NoRef, Absent}]
  /\ months \in [Months -> Lockable]
  /\ slines \in [SLines -> Emps \cup {NoRef, Absent}]
  /\ spays \in [SPays -> [line : SLines, day : Days \cup {NoRef}] \cup {Absent}]
  /\ emps \in SUBSET Emps
  /\ cats \in SUBSET Cats
  /\ mexps \in [MExps -> Cats \cup {NoRef, Absent}]
  /\ mpays \in [MPays -> MExps \cup SLines \cup {Absent}]
  /\ derived \in [purchase : SUBSET Pos,
                  daily    : [Days -> SUBSET DailyPayable],
                  salary   : [SPays -> SLines \cup {Absent}],
                  settled  : SUBSET (Entries \X Pos)]
  /\ req \in [Requests -> Request]

(* The derived Payables rows always are what a re-derivation from the      *)
(* tables would write: every handler that changes a table the projection   *)
(* reads projects again in its transaction, and the one that does not      *)
(* (removing a category) is followed by the foreign keys of both sides.    *)
ProjectionCurrent == derived = Projection

(* Every reference resolves: an expense line's to a bill, an order, an     *)
(* employee or a category, a return's to its order, a salary line's to its *)
(* month and employee, a payment's to its line or expense.  The handlers   *)
(* that drop rows null or cascade in all the tables that point to them.    *)
LineLinksResolve ==
  \A d \in Days : \A l \in lines[d] :
    /\ l.entry \in LedgerIds(ledger) \cup {NoRef}
    /\ l.po \in pos \cup {NoRef}
    /\ l.emp \in emps \cup {NoRef}
    /\ l.cat \in cats \cup {NoRef}

RegisterResolves ==
  /\ Nested([months |-> months, slines |-> slines, spays |-> spays])
  /\ \A l \in SLines : slines[l] \in emps \cup {NoRef, Absent}

PayablesResolve ==
  /\ \A x \in MExps : mexps[x] \in cats \cup {NoRef, Absent}
  /\ \A p \in MPays : mpays[p] \in MExps => mexps[mpays[p]] # Absent
  /\ \A p \in MPays : mpays[p] \in SLines => slines[mpays[p]] # Absent

LinksResolve ==
  /\ LineLinksResolve
  /\ RegisterResolves
  /\ PayablesResolve
  /\ \A x \in Rets : rets[x] \in pos \cup {NoRef, Absent}
  /\ \A d \in Days : ~Exists(d) => lines[d] = {}

-----------------------------------------------------------------------------
Deletes(d) == Exists(d) /\ ~Exists(d)'

(* Deleting a day removes bills and orders of that day only: no line of    *)
(* another day changes, not even by losing a link, whatever the other      *)
(* handlers wrote between the reads of the delete and its transaction.     *)
DeleteSparesOtherDays ==
  [][\A d \in Days : Deletes(d) =>
       \A e \in Days \ {d} : lines'[e] = lines[e] /\ day'[e] = day[e]]_vars

(* Deleting a day spares what is locked: a locked bill stays, and so does  *)
(* a payout of that day that landed in a locked month.                     *)
DeleteSparesLockedBooks ==
  [][\A d \in Days : Deletes(d) =>
       /\ \A e \in Entries : ledger[e] = "locked" => ledger'[e] = "locked"
       /\ \A s \in SPays : spays[s] # Absent /\ months[MonthOf[spays[s].line]] = "locked"
                             => spays'[s] = spays[s]]_vars

(* The request r deletes the day d, and the day's links are still those    *)
(* that it read before its transaction.                                    *)
DeletesAsRead(r, d) ==
  /\ req[r].phase = "deleting" /\ req[r].day = d /\ req'[r].phase = "idle"
  /\ Deletes(d)
  /\ req[r].links = {[entry |-> l.entry, po |-> l.po] : l \in lines[d]}

(* A pair of a bill and an order on a line of the day is not halved by the *)
(* delete: if it keeps the bill it keeps the order.  That a save between   *)
(* the read and the transaction can break this is shown separately.        *)
NoHalfRemovedPair ==
  [][\A r \in Requests, d \in Days : DeletesAsRead(r, d) =>
       \A l \in lines[d] : l.entry # NoRef /\ l.po # NoRef /\ ledger'[l.entry] # "absent"
                             => l.po \in pos']_vars

(* Deleting a day removes the bills that belong solely to it, unless they  *)
(* are locked.                                                             *)
DeleteRemovesOwnBills ==
  [][\A r \in Requests, d \in Days : DeletesAsRead(r, d) =>
       \A l \in lines[d] : l.entry # NoRef /\ ledger[l.entry] = "open"
                           /\ (\A e \in Days \ {d} : \A m \in lines[e] : m.entry # l.entry)
                             => ledger'[l.entry] = "absent"]_vars
=============================================================================
