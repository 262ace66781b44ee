------------------------- MODULE BranchBooksProofs -------------------------
(***************************************************************************)
(* Proofs about BranchBooks, for every branch, every set of ids and every  *)
(* number of requests in flight.                                           *)
(* Proofs about PaymentFifo, for any bills and payments: nothing is given  *)
(* twice, the oldest bills are paid first, and what is due in the end is   *)
(* the balance of the account.  Its invariant (FifoInv) has the books of   *)
(* every bill and payment balance after each round of the loops; that the  *)
(* sums over suppliers do is a matter of sums over finite sets.            *)
(***************************************************************************)
EXTENDS BranchBooks, PaymentFifo, FiniteSetTheorems, WellFoundedInduction, TLAPS

-----------------------------------------------------------------------------
(* A relinked line is a line.                                              *)
LEMMA RelinkIsLine ==
  ASSUME NEW l \in Line, NEW es \in SUBSET Entries, NEW ps \in SUBSET Pos,
         NEW ms \in SUBSET Emps, NEW cs \in SUBSET Cats
  PROVE  Relink(l, es, ps, ms, cs) \in Line
  BY DEF Relink, Known, Line

(* So relinking keeps a set of lines a set of lines.                       *)
LEMMA RelinkAllAreLines ==
  ASSUME NEW ls \in SUBSET Line, NEW es \in SUBSET Entries, NEW ps \in SUBSET Pos,
         NEW ms \in SUBSET Emps, NEW cs \in SUBSET Cats
  PROVE  RelinkAll(ls, es, ps, ms, cs) \in SUBSET Line
  BY RelinkIsLine DEF RelinkAll

(* The rows derived from the regular lines of a day are payables.          *)
LEMMA DailyPayablesType ==
  ASSUME NEW ls \in SUBSET Line
  PROVE  DailyPayables(ls) \in SUBSET DailyPayable
  BY DEF DailyPayables, DailyPayable, Line

(* The type of the tables a projection reads, and of the projection.       *)
Sources ==
  /\ lines \in [Days -> SUBSET Line]
  /\ ledger \in [Entries -> Lockable]
  /\ pos \in SUBSET Pos
  /\ spays \in [SPays -> [line : SLines, day : Days \cup {NoRef}] \cup {Absent}]

DerivedType == [purchase : SUBSET Pos,
                daily    : [Days -> SUBSET DailyPayable],
                salary   : [SPays -> SLines \cup {Absent}],
                settled  : SUBSET (Entries \X Pos)]

(* Projecting typed tables gives typed payables.                           *)
LEMMA ProjectionType == Sources => Projection \in DerivedType
<1> SUFFICES ASSUME Sources PROVE Projection \in DerivedType
  OBVIOUS
<1>1. [d \in Days |-> DailyPayables(lines[d])] \in [Days -> SUBSET DailyPayable]
  BY DailyPayablesType DEF Sources
<1>2. [s \in SPays |-> Paid(s)] \in [SPays -> SLines \cup {Absent}]
  BY DEF Sources, Paid
<1>3. Settle(pos, LedgerIds(ledger) \cap PaymentEntries) \in SUBSET (Entries \X Pos)
  <2>1. LedgerIds(ledger) \cap PaymentEntries \in SUBSET PaymentEntries
    OBVIOUS
  <2>2. Settle(pos, LedgerIds(ledger) \cap PaymentEntries)
          \subseteq (LedgerIds(ledger) \cap PaymentEntries) \X pos
    BY <2>1, ConstantsAssumption DEF Sources
  <2>3. QED
    BY <2>2, ConstantsAssumption DEF Sources, LedgerIds
<1>4. QED
  BY <1>1, <1>2, <1>3 DEF Projection, DerivedType, Sources

-----------------------------------------------------------------------------
(* Requests stay requests: the idle one, and what the last step of a       *)
(* handler leaves.                                                         *)
LEMMA IdleIsRequest == Idle \in Request
  BY DEF Idle, Request, RequestFields

LEMMA FinishType ==
  ASSUME req \in [Requests -> Request], NEW r \in Requests
  PROVE  /\ Finish(r) => req' \in [Requests -> Request]
         /\ \A losers : FinishDeleting(r, losers) => req' \in [Requests -> Request]
<1>1. Finish(r) => req' \in [Requests -> Request]
  BY IdleIsRequest DEF Finish
<1>2. ASSUME NEW losers, FinishDeleting(r, losers)
      PROVE  req' \in [Requests -> Request]
  <2>1. \A q \in Requests : [req[q] EXCEPT !.found = FALSE] \in Request
    BY DEF Request, RequestFields
  <2>2. QED
    BY <1>2, <2>1, IdleIsRequest DEF FinishDeleting
<1>3. QED
  BY <1>1, <1>2

(* The types of the tables no projection derives, and of the requests.     *)
BooksTyped ==
  /\ day \in [Days -> [locked : BOOLEAN, takings : Takings] \cup {Absent}]
  /\ Sources
  /\ rets \in [Rets -> Pos \cup {NoRef, Absent}]
  /\ months \in [Months -> Lockable]
  /\ slines \in [SLines -> Emps \cup {NoRef, Absent}]
  /\ emps \in SUBSET Emps
  /\ cats \in SUBSET Cats
  /\ mexps \in [MExps -> Cats \cup {NoRef, Absent}]
  /\ mpays \in [MPays -> MExps \cup SLines \cup {Absent}]
  /\ req \in [Requests -> Request]

LEMMA TypeParts == TypeOK <=> BooksTyped /\ derived \in DerivedType
  BY DEF TypeOK, BooksTyped, Sources, DerivedType

(* A handler that ends by projecting leaves typed payables.                *)
LEMMA SyncedType == BooksTyped' /\ syncPayables => TypeOK'
<1>1. (Sources => Projection \in DerivedType)'
  BY ProjectionType, PTL
<1>2. (TypeOK <=> BooksTyped /\ derived \in DerivedType)'
  BY TypeParts, PTL
<1>3. BooksTyped' => Sources'
  BY DEF BooksTyped
<1>4. QED
  BY <1>1, <1>2, <1>3 DEF syncPayables, DerivedType

LEMMA RelinkedDays ==
  ASSUME NEW f \in [Days -> SUBSET Line], NEW es \in SUBSET Entries, NEW ps \in SUBSET Pos,
         NEW ms \in SUBSET Emps, NEW cs \in SUBSET Cats
  PROVE  [d \in Days |-> RelinkAll(f[d], es, ps, ms, cs)] \in [Days -> SUBSET Line]
  BY RelinkAllAreLines

LEMMA LedgerIdsType == \A book : LedgerIds(book) \in SUBSET Entries
  BY DEF LedgerIds

(* Writing a cashbook and writing a register keep their tables typed.      *)
LEMMA LedgerWriteType ==
  ASSUME BooksTyped, NEW book \in LedgerInputs, syncLedgerWorkspace(book)
  PROVE  /\ ledger' \in [Entries -> Lockable]
         /\ pos' \in SUBSET Pos
         /\ rets' \in [Rets -> Pos \cup {NoRef, Absent}]
<1>1. book \in LedgerBook
  BY ConstantsAssumption
<1>2. QED
  BY <1>1 DEF syncLedgerWorkspace, LedgerBook, Known

LEMMA SalaryWriteType ==
  ASSUME BooksTyped, NEW book \in SalaryInputs, syncSalaryWorkspace(book)
  PROVE  /\ months' \in [Months -> Lockable]
         /\ slines' \in [SLines -> Emps \cup {NoRef, Absent}]
         /\ spays' \in [SPays -> [line : SLines, day : Days \cup {NoRef}] \cup {Absent}]
         /\ emps' \in SUBSET Emps
         /\ mpays' \in [MPays -> MExps \cup SLines \cup {Absent}]
<1>1. book \in SalaryBook
  BY ConstantsAssumption
<1>2. mpays' \in [MPays -> MExps \cup SLines \cup {Absent}]
  BY DEF syncSalaryWorkspace, CascadeToPayments, BooksTyped
<1>3. emps' \in SUBSET Emps
  BY DEF syncSalaryWorkspace, PaidEmployees, BooksTyped
<1>4. QED
  BY <1>1, <1>2, <1>3 DEF syncSalaryWorkspace, SalaryBook

(* The transaction that saves a day, once the books are typed.             *)
LEMMA SavedDayType ==
  ASSUME BooksTyped, NEW r \in Requests, req[r].phase = "saving",
         NEW t \in Takings, upsertWithinTx(req[r].day, req[r].wanted, t),
         ledger' \in [Entries -> Lockable], pos' \in SUBSET Pos,
         emps' \in SUBSET Emps, cats' = cats
  PROVE  /\ day' \in [Days -> [locked : BOOLEAN, takings : Takings] \cup {Absent}]
         /\ lines' \in [Days -> SUBSET Line]
<1> DEFINE d == req[r].day
           ls == req[r].wanted
<1>1. ls \in SUBSET Line
  BY ConstantsAssumption DEF BooksTyped, Request, RequestFields
<1>2. IsLocked(d) \in BOOLEAN
  BY DEF IsLocked, Exists, BooksTyped
<1>3. day' \in [Days -> [locked : BOOLEAN, takings : Takings] \cup {Absent}]
  BY <1>2 DEF upsertWithinTx, BooksTyped
<1>4. DEFINE f == [e \in Days |-> IF e = d THEN ls ELSE lines[e]]
<1>5. f \in [Days -> SUBSET Line]
  BY <1>1 DEF BooksTyped, Sources
<1>6. cats' \in SUBSET Cats
  BY DEF BooksTyped
<1>7. [e \in Days |-> RelinkAll(f[e], LedgerIds(ledger'), pos', emps', cats')] \in [Days -> SUBSET Line]
  <2>1. \A es \in SUBSET Entries : [e \in Days |-> RelinkAll(f[e], es, pos', emps', cats')] \in [Days -> SUBSET Line]
    BY <1>5, <1>6, RelinkAllAreLines
  <2>2. LedgerIds(ledger') \in SUBSET Entries
    BY LedgerIdsType
  <2> HIDE DEF f
  <2>3. QED
    BY <2>1, <2>2
<1>8. lines' = [e \in Days |-> RelinkAll(f[e], LedgerIds(ledger'), pos', emps', cats')]
  BY DEF upsertWithinTx
<1>9. QED
  BY <1>3, <1>7, <1>8

-----------------------------------------------------------------------------
(* THEOREM: every table, every derived row and every request keeps its     *)
(* type, whatever handlers run and however their steps interleave.         *)
THEOREM TypeCorrect == Spec => []TypeOK
<1>1. Init => TypeOK
  <2> SUFFICES ASSUME Init PROVE TypeOK
    OBVIOUS
  <2>1. BooksTyped
    BY IdleIsRequest DEF Init, BooksTyped, Sources, Lockable
  <2>2. derived \in DerivedType
    BY <2>1, ProjectionType DEF Init, BooksTyped
  <2>3. QED
    BY <2>1, <2>2, TypeParts
<1>2. TypeOK /\ [Next]_vars => TypeOK'
  <2> SUFFICES ASSUME TypeOK, [Next]_vars PROVE TypeOK'
    OBVIOUS
  <2>0. BooksTyped /\ derived \in DerivedType
    BY TypeParts
  <2>t. (BooksTyped /\ derived \in DerivedType => TypeOK)'
    BY TypeParts, PTL
  <2>1. ASSUME NEW r \in Requests, prepareUpsert(r) \/ BeginRemove(r) \/ BeginRemoveExpense(r)
        PROVE  TypeOK'
    <3>1. \A d \in Days, ls \in SUBSET LinePool :
             [Idle EXCEPT !.phase = "saving", !.day = d, !.wanted = ls] \in Request
      BY DEF Idle, Request, RequestFields
    <3>2. \A d \in Days : [Idle EXCEPT !.phase = "removing", !.day = d] \in Request
      BY DEF Idle, Request, RequestFields
    <3>3. \A x \in MExps : [Idle EXCEPT !.phase = "dropping", !.exp = x] \in Request
      BY DEF Idle, Request, RequestFields
    <3>4. CASE prepareUpsert(r)
      BY <2>0, <3>1, <3>4 DEF prepareUpsert, tables, TypeOK
    <3>5. CASE BeginRemove(r)
      BY <2>0, <3>2, <3>5 DEF BeginRemove, tables, TypeOK
    <3>6. CASE BeginRemoveExpense(r)
      BY <2>0, <3>3, <3>6 DEF BeginRemoveExpense, tables, TypeOK
    <3>7. QED
      BY <2>1, <3>4, <3>5, <3>6
  <2>2. ASSUME NEW r \in Requests, Upsert(r)
        PROVE  TypeOK'
    <3>1. PICK t \in Takings : upsertWithinTx(req[r].day, req[r].wanted, t)
      BY <2>2 DEF Upsert
    <3>2. day' \in [Days -> [locked : BOOLEAN, takings : Takings] \cup {Absent}] /\ lines' \in [Days -> SUBSET Line]
      BY <2>0, <2>2, <3>1, SavedDayType DEF Upsert, BooksTyped, Sources
    <3>3. BooksTyped'
      BY <2>0, <2>2, <3>2, FinishType DEF Upsert, BooksTyped, Sources
    <3>4. QED
      BY <2>2, <3>3, SyncedType DEF Upsert
  <2>3. ASSUME NEW r \in Requests, Commit(r)
        PROVE  TypeOK'
    <3>1. PICK t \in Takings : upsertWithinTx(req[r].day, req[r].wanted, t)
      BY <2>3 DEF Commit
    <3>2. /\ ledger' \in [Entries -> Lockable] 
          /\ pos' \in SUBSET Pos
          /\ rets' \in [Rets -> Pos \cup {NoRef, Absent}]
      BY <2>0, <2>3, LedgerWriteType DEF Commit, BooksTyped, Sources
    <3>3. /\ months' \in [Months -> Lockable]
          /\ slines' \in [SLines -> Emps \cup {NoRef, Absent}]
          /\ spays' \in [SPays -> [line : SLines, day : Days \cup {NoRef}] \cup {Absent}]
          /\ emps' \in SUBSET Emps
          /\ mpays' \in [MPays -> MExps \cup SLines \cup {Absent}]
      BY <2>0, <2>3, SalaryWriteType DEF Commit, BooksTyped, Sources
    <3>4. day' \in [Days -> [locked : BOOLEAN, takings : Takings] \cup {Absent}] /\ lines' \in [Days -> SUBSET Line]
      BY <2>0, <2>3, <3>1, <3>2, <3>3, SavedDayType DEF Commit
    <3>5. req' \in [Requests -> Request]
      BY <2>0, <2>3, FinishType DEF Commit, BooksTyped
    <3>6. BooksTyped'
      BY <2>0, <2>3, <3>2, <3>3, <3>4, <3>5 DEF Commit, BooksTyped, Sources
    <3>7. QED
      BY <2>3, <3>6, SyncedType DEF Commit
  <2>4. ASSUME NEW r \in Requests, ReadLinks(r)
        PROVE  TypeOK'
    <3> DEFINE links == IF req[r].found
                        THEN {[entry |-> l.entry, po |-> l.po] : l \in lines[req[r].day]}
                        ELSE {}
    <3>1. req[r] \in Request /\ req[r].day \in Days
      BY <2>0, <2>4 DEF ReadLinks, BooksTyped, Request
    <3>2. links \in SUBSET Link
      BY <2>0, <3>1 DEF BooksTyped, Sources, Link, Line
    <3>3. [req[r] EXCEPT !.phase = "deleting", !.links = links] \in Request
      BY <3>1, <3>2 DEF Request, RequestFields
    <3>4. req' = [req EXCEPT ![r] = [req[r] EXCEPT !.phase = "deleting", !.links = links]]
      BY <2>0, <2>4 DEF ReadLinks, BooksTyped
    <3>5. req' \in [Requests -> Request]
      BY <2>0, <3>3, <3>4 DEF BooksTyped
    <3>6. QED
      BY <2>4, <3>5 DEF ReadLinks, tables, TypeOK
  <2>5. ASSUME NEW r \in Requests, Remove(r)
        PROVE  TypeOK'
    <3>1. /\ ledger' \in [Entries -> Lockable] 
          /\ pos' \in SUBSET Pos
          /\ rets' \in [Rets -> Pos \cup {NoRef, Absent}]
          /\ spays' \in [SPays -> [line : SLines, day : Days \cup {NoRef}] \cup {Absent}]
          /\ day' \in [Days -> [locked : BOOLEAN, takings : Takings] \cup {Absent}]
      BY <2>0, <2>5 DEF Remove, BooksTyped, Sources, Lockable
    <3>2. emps' \in SUBSET Emps /\ cats' \in SUBSET Cats
      BY <2>0, <2>5 DEF Remove, BooksTyped
    <3>3. lines' \in [Days -> SUBSET Line]
      <4>1. \A e \in Days : RelinkAll(lines[e], LedgerIds(ledger'), pos', emps', cats') \in SUBSET Line
        BY <2>0, <3>1, <3>2, LedgerIdsType, RelinkAllAreLines DEF BooksTyped, Sources
      <4>2. QED
        BY <2>5, <4>1 DEF Remove
    <3>4. req' \in [Requests -> Request]
      BY <2>0, <2>5, FinishType DEF Remove, BooksTyped
    <3>5. BooksTyped'
      BY <2>0, <2>5, <3>1, <3>2, <3>3, <3>4 DEF Remove, BooksTyped, Sources
    <3>6. QED
      BY <2>5, <3>5, SyncedType DEF Remove
  <2>6. ASSUME NEW r \in Requests, Abandon(r)
        PROVE  TypeOK'
    <3>1. req' \in [Requests -> Request]
      BY <2>0, <2>6, FinishType DEF Abandon, BooksTyped
    <3>2. QED
      BY <2>6, <3>1 DEF Abandon, tables, TypeOK
  <2>7. ASSUME NEW d \in Days, Lock(d) \/ Unlock(d)
        PROVE  TypeOK'
    <3>1. day' \in [Days -> [locked : BOOLEAN, takings : Takings] \cup {Absent}]
      BY <2>0, <2>7 DEF Lock, Unlock, IsLocked, Exists, BooksTyped
    <3>2. QED
      BY <2>7, <3>1 DEF Lock, Unlock, TypeOK
  <2>8. ASSUME NEW book \in LedgerInputs, PutLedger(book)
        PROVE  TypeOK'
    <3>1. /\ ledger' \in [Entries -> Lockable] 
          /\ pos' \in SUBSET Pos
          /\ rets' \in [Rets -> Pos \cup {NoRef, Absent}]
      BY <2>0, <2>8, LedgerWriteType DEF PutLedger
    <3>2. lines' \in [Days -> SUBSET Line]
      <4>1. \A e \in Days : RelinkAll(lines[e], LedgerIds(ledger'), pos', emps, cats) \in SUBSET Line
        BY <2>0, <3>1, LedgerIdsType, RelinkAllAreLines DEF BooksTyped, Sources
      <4>2. QED
        BY <2>8, <4>1 DEF PutLedger
    <3>3. BooksTyped'
      BY <2>0, <2>8, <3>1, <3>2 DEF PutLedger, BooksTyped, Sources
    <3>4. QED
      BY <2>8, <3>3, SyncedType DEF PutLedger
  <2>9. ASSUME NEW book \in SalaryInputs, PutSalary(book)
        PROVE  TypeOK'
    <3>1. BooksTyped'
      BY <2>0, <2>9, SalaryWriteType DEF PutSalary, BooksTyped, Sources
    <3>2. QED
      BY <2>9, <3>1, SyncedType DEF PutSalary
  <2>10. ASSUME NEW roster \in SUBSET Emps, PutEmployees(roster)
         PROVE  TypeOK'
    <3>1. slines' \in [SLines -> Emps \cup {NoRef, Absent}]
      BY <2>0, <2>10 DEF PutEmployees, BooksTyped, Known
    <3>2. lines' \in [Days -> SUBSET Line]
      <4>1. \A e \in Days : RelinkAll(lines[e], LedgerIds(ledger), pos, roster, cats) \in SUBSET Line
        BY <2>0, <2>10, LedgerIdsType, RelinkAllAreLines DEF BooksTyped, Sources
      <4>2. QED
        BY <2>10, <4>1 DEF PutEmployees
    <3>3. QED
      BY <2>10, <3>1, <3>2 DEF PutEmployees, TypeOK
  <2>11. ASSUME NEW c \in Cats, CreateCategory(c)
         PROVE  TypeOK'
    BY <2>11 DEF CreateCategory, TypeOK
  <2>12. ASSUME NEW c \in Cats, RemoveCategory(c)
         PROVE  TypeOK'
    <3>1. cats' \in SUBSET Cats /\ mexps' \in [MExps -> Cats \cup {NoRef, Absent}]
      BY <2>0, <2>12 DEF RemoveCategory, BooksTyped
    <3>2. lines' \in [Days -> SUBSET Line]
      <4>1. \A e \in Days : RelinkAll(lines[e], LedgerIds(ledger), pos, emps, cats') \in SUBSET Line
        BY <2>0, <3>1, LedgerIdsType, RelinkAllAreLines DEF BooksTyped, Sources
      <4>2. QED
        BY <2>12, <4>1 DEF RemoveCategory
    <3>3. derived' \in DerivedType
      <4>1. \A x \in DailyPayable : [x EXCEPT !.cat = Known(x.cat, cats')] \in DailyPayable
        BY <3>1 DEF DailyPayable, Known
      <4>2. \A d \in Days : {[x EXCEPT !.cat = Known(x.cat, cats')] : x \in derived.daily[d]} \in SUBSET DailyPayable
        BY <2>0, <4>1 DEF DerivedType
      <4>3. [d \in Days |-> {[x EXCEPT !.cat = Known(x.cat, cats')] : x \in derived.daily[d]}]
              \in [Days -> SUBSET DailyPayable]
        BY <4>2
      <4>4. QED
        BY <2>0, <2>12, <4>3 DEF RemoveCategory, DerivedType
    <3>4. BooksTyped'
      BY <2>0, <2>12, <3>1, <3>2 DEF RemoveCategory, BooksTyped, Sources
    <3>5. QED
      BY <2>t, <3>3, <3>4
  <2>13. ASSUME NEW x \in MExps, NEW c \in Cats \cup {NoRef},
                CreateExpense(x, c) \/ QuickExpense(x, c) \/ UpdateExpense(x, c)
         PROVE  TypeOK'
    <3>1. /\ mexps' \in [MExps -> Cats \cup {NoRef, Absent}]
          /\ mpays' \in [MPays -> MExps \cup SLines \cup {Absent}]
      BY <2>0, <2>13 DEF CreateExpense, QuickExpense, UpdateExpense, NewExpense, SettleAtOnce, BooksTyped
    <3>2. QED
      BY <2>13, <3>1 DEF CreateExpense, QuickExpense, UpdateExpense, TypeOK
  <2>14. ASSUME NEW p \in MPays, CreatePayment(p) \/ RemovePayment(p)
         PROVE  TypeOK'
    <3>1. mpays' \in [MPays -> MExps \cup SLines \cup {Absent}]
      BY <2>0, <2>14 DEF CreatePayment, RemovePayment, BooksTyped
    <3>2. QED
      BY <2>14, <3>1 DEF CreatePayment, RemovePayment, TypeOK
  <2>15. ASSUME NEW r \in Requests, RemoveExpense(r)
         PROVE  TypeOK'
    <3>1. req' \in [Requests -> Request]
      BY <2>0, <2>15, FinishType DEF RemoveExpense, BooksTyped
    <3>2. /\ mexps' \in [MExps -> Cats \cup {NoRef, Absent}]
          /\ mpays' \in [MPays -> MExps \cup SLines \cup {Absent}]
      BY <2>0, <2>15 DEF RemoveExpense, BooksTyped
    <3>3. QED
      BY <2>15, <3>1, <3>2 DEF RemoveExpense, TypeOK
  <2>16. CASE UNCHANGED vars
    BY <2>16 DEF vars, tables, TypeOK
  <2>17. QED
    BY <2>1, <2>2, <2>3, <2>4, <2>5, <2>6, <2>7, <2>8, <2>9, <2>10, <2>11, <2>12, <2>13,
       <2>14, <2>15, <2>16 DEF Next, DayStep, BookStep, PayablesStep
<1>3. QED
  BY <1>1, <1>2, PTL DEF Spec

-----------------------------------------------------------------------------
(* References.  A relinked line has no reference but to a row that is      *)
(* there.                                                                  *)
LEMMA RelinkedResolve ==
  ASSUME NEW ls \in SUBSET Line, NEW es, NEW ps, NEW ms, NEW cs
  PROVE  \A l \in RelinkAll(ls, es, ps, ms, cs) :
           /\ l.entry \in es \cup {NoRef}
           /\ l.po \in ps \cup {NoRef}
           /\ l.emp \in ms \cup {NoRef}
           /\ l.cat \in cs \cup {NoRef}
<1> SUFFICES ASSUME NEW k \in ls
             PROVE  LET l == Relink(k, es, ps, ms, cs)
                    IN  /\ l.entry \in es \cup {NoRef}
                        /\ l.po \in ps \cup {NoRef}
                        /\ l.emp \in ms \cup {NoRef}
                        /\ l.cat \in cs \cup {NoRef}
  BY DEF RelinkAll
<1>1. k \in Line
  OBVIOUS
<1>2. QED
  BY <1>1 DEF Relink, Known, Line

(* So a step that relinks every line to the rows it leaves behind leaves   *)
(* no dangling line.                                                       *)
LEMMA RelinkedLines ==
  ASSUME NEW f \in [Days -> SUBSET Line],
         lines' = [d \in Days |-> RelinkAll(f[d], LedgerIds(ledger'), pos', emps', cats')]
  PROVE  LineLinksResolve'
<1>1. ASSUME NEW d \in Days
      PROVE  \A l \in lines'[d] :
               /\ l.entry \in LedgerIds(ledger') \cup {NoRef}
               /\ l.po \in pos' \cup {NoRef}
               /\ l.emp \in emps' \cup {NoRef}
               /\ l.cat \in cats' \cup {NoRef}
  <2>1. f[d] \in SUBSET Line
    OBVIOUS
  <2>2. lines'[d] = RelinkAll(f[d], LedgerIds(ledger'), pos', emps', cats')
    OBVIOUS
  <2>3. QED
    BY <2>1, <2>2, RelinkedResolve
<1>2. QED
  BY <1>1 DEF LineLinksResolve

LEMMA RelinkNothing ==
  \A es, ps, ms, cs : RelinkAll({}, es, ps, ms, cs) = {}
  BY DEF RelinkAll

(* A written register is nested, its employees are in the directory, and   *)
(* the payments on the lines it dropped are gone.                          *)
LEMMA SalaryWriteResolves ==
  ASSUME TypeOK, LinksResolve, NEW book \in SalaryInputs, syncSalaryWorkspace(book),
         mexps' = mexps, cats' = cats
  PROVE  RegisterResolves' /\ PayablesResolve'
<1>1. book \in SalaryBook /\ Nested(book)
  BY ConstantsAssumption
<1>2. RegisterResolves'
  <2>1. Nested([months |-> months, slines |-> slines, spays |-> spays])'
    BY <1>1 DEF syncSalaryWorkspace, Nested
  <2>2. ASSUME NEW l \in SLines PROVE slines'[l] \in emps' \cup {NoRef, Absent}
    BY <1>1 DEF syncSalaryWorkspace, SalaryBook, PaidEmployees
  <2>3. QED
    BY <2>1, <2>2 DEF RegisterResolves
<1>3. PayablesResolve'
  <2>1. ASSUME NEW p \in MPays
        PROVE  /\ mpays'[p] = Absent \/ mpays'[p] = mpays[p]
               /\ mpays'[p] \in SLines => slines'[mpays'[p]] # Absent
    BY ConstantsAssumption DEF syncSalaryWorkspace, CascadeToPayments
  <2>2. QED
    BY <2>1, ConstantsAssumption DEF PayablesResolve, LinksResolve
<1>4. QED
  BY <1>2, <1>3

LEMMA SavedDayResolves ==
  ASSUME TypeOK, LinksResolve, NEW r \in Requests, req[r].phase = "saving",
         NEW t \in Takings, upsertWithinTx(req[r].day, req[r].wanted, t), cats' = cats
  PROVE  LineLinksResolve' /\ (\A d \in Days : ~Exists(d)' => lines'[d] = {})
<1> DEFINE f == [e \in Days |-> IF e = req[r].day THEN req[r].wanted ELSE lines[e]]
<1>1. req[r] \in Request
  BY DEF TypeOK
<1>2. f \in [Days -> SUBSET Line]
  BY <1>1, ConstantsAssumption DEF TypeOK, Request, RequestFields
<1> DEFINE dd == req[r].day
           ls == req[r].wanted
<1>3. lines' = [e \in Days |-> RelinkAll(f[e], LedgerIds(ledger'), pos', emps', cats')]
  <2>1. upsertWithinTx(dd, ls, t)
    OBVIOUS
  <2>2. f = [e \in Days |-> IF e = dd THEN ls ELSE lines[e]]
    OBVIOUS
  <2> HIDE DEF dd, ls
  <2>3. \A e \in Days : f[e] = IF e = dd THEN ls ELSE lines[e]
    BY <2>2
  <2>4. lines' = [e \in Days |-> RelinkAll(IF e = dd THEN ls ELSE lines[e],
                                           LedgerIds(ledger'), pos', emps', cats')]
    BY <2>1 DEF upsertWithinTx
  <2> HIDE DEF f
  <2>5. QED
    BY <2>3, <2>4
<1>4. LineLinksResolve'
  <2> HIDE DEF f
  <2> QED BY <1>2, <1>3, RelinkedLines
<1>5. ASSUME NEW d \in Days, ~Exists(d)'
      PROVE  lines'[d] = {}
  <2>0. [locked |-> IsLocked(dd), takings |-> t] # Absent
    <3>1. IsLocked(dd) \in BOOLEAN
      BY DEF TypeOK, IsLocked, Exists
    <3>2. [locked |-> IsLocked(dd), takings |-> t] \in [locked : BOOLEAN, takings : Takings]
      BY <3>1
    <3>3. QED
      BY <3>2, ConstantsAssumption
  <2>1. d # dd /\ ~Exists(d)
    <3>1. day' = [day EXCEPT ![dd] = [locked |-> IsLocked(dd), takings |-> t]]
      BY DEF upsertWithinTx
    <3>2. day'[d] = Absent
      BY <1>5 DEF Exists
    <3> HIDE DEF dd
    <3>3. QED
      BY <2>0, <3>1, <3>2 DEF Exists, TypeOK
  <2>2. lines[d] = {}
    BY <2>1 DEF LinksResolve
  <2>3. QED
    BY <1>3, <2>1, <2>2, RelinkNothing
<1>6. QED
  BY <1>4, <1>5

(* THEOREM: no reference ever dangles, whatever handlers run and however   *)
(* their steps interleave.                                                 *)
THEOREM LinksAlwaysResolve == Spec => []LinksResolve
<1>1. Init => LinksResolve
  BY ConstantsAssumption DEF Init, LinksResolve, LineLinksResolve, RegisterResolves, PayablesResolve, Nested, Exists
<1>2. TypeOK /\ TypeOK' /\ LinksResolve /\ [Next]_vars => LinksResolve'
  <2> SUFFICES ASSUME TypeOK, TypeOK', LinksResolve, [Next]_vars PROVE LinksResolve'
    OBVIOUS
  <2>1. CASE UNCHANGED tables
    BY <2>1 DEF tables, LinksResolve, LineLinksResolve, RegisterResolves, PayablesResolve, Exists
  <2>2. ASSUME NEW r \in Requests, Upsert(r)
        PROVE  LinksResolve'
    <3>1. PICK t \in Takings : upsertWithinTx(req[r].day, req[r].wanted, t)
      BY <2>2 DEF Upsert
    <3>2. LineLinksResolve' /\ (\A d \in Days : ~Exists(d)' => lines'[d] = {})
      BY <2>2, <3>1, SavedDayResolves DEF Upsert
    <3>3. QED
      BY <2>2, <3>2 DEF Upsert, LinksResolve, RegisterResolves, PayablesResolve
  <2>3. ASSUME NEW r \in Requests, Commit(r)
        PROVE  LinksResolve'
    <3>1. PICK t \in Takings : upsertWithinTx(req[r].day, req[r].wanted, t)
      BY <2>3 DEF Commit
    <3>2. LineLinksResolve' /\ (\A d \in Days : ~Exists(d)' => lines'[d] = {})
      BY <2>3, <3>1, SavedDayResolves DEF Commit
    <3>3. \A x \in Rets : rets'[x] \in pos' \cup {NoRef, Absent}
      BY <2>3 DEF Commit, syncLedgerWorkspace, Known, LinksResolve
    <3>4. RegisterResolves' /\ PayablesResolve'
      <4>1. CASE \E book \in SalaryInputs : syncSalaryWorkspace(book)
        BY <2>3, <4>1, SalaryWriteResolves DEF Commit
      <4>2. CASE UNCHANGED <<months, slines, spays, emps, mpays>>
        BY <2>3, <4>2 DEF Commit, LinksResolve, RegisterResolves, PayablesResolve
      <4>3. QED
        BY <2>3, <4>1, <4>2 DEF Commit
    <3>5. QED
      BY <3>2, <3>3, <3>4 DEF LinksResolve
  <2>4. ASSUME NEW r \in Requests, Remove(r)
        PROVE  LinksResolve'
    <3> DEFINE f == [e \in Days |-> IF e = req[r].day THEN {} ELSE lines[e]]
    <3>1. f \in [Days -> SUBSET Line]
      BY DEF TypeOK
    <3>2. lines' = [e \in Days |-> RelinkAll(f[e], LedgerIds(ledger'), pos', emps', cats')]
      BY <2>4, RelinkNothing DEF Remove
    <3>3. LineLinksResolve'
      <4> HIDE DEF f
      <4> QED BY <3>1, <3>2, RelinkedLines
    <3>4. \A d \in Days : ~Exists(d)' => lines'[d] = {}
      <4>1. ASSUME NEW d \in Days, ~Exists(d)'
            PROVE  f[d] = {}
        <5>1. d = req[r].day \/ ~Exists(d)
          BY <2>4, <4>1 DEF Remove, Exists, TypeOK
        <5>2. QED
          BY <5>1 DEF LinksResolve
      <4> HIDE DEF f
      <4>2. QED
        BY <3>2, <4>1, RelinkNothing
    <3>5. \A x \in Rets : rets'[x] \in pos' \cup {NoRef, Absent}
      BY <2>4 DEF Remove, LinksResolve
    <3>6. RegisterResolves' /\ PayablesResolve'
      BY <2>4 DEF Remove, LinksResolve, RegisterResolves, PayablesResolve, Nested, TypeOK
    <3>7. QED
      BY <3>3, <3>4, <3>5, <3>6 DEF LinksResolve
  <2>5. ASSUME NEW d \in Days, Lock(d) \/ Unlock(d)
        PROVE  LinksResolve'
    <3>1. \A e \in Days : Exists(e)' <=> Exists(e)
      <4>1. day[d] \in [locked : BOOLEAN, takings : Takings]
        BY <2>5 DEF Lock, Unlock, IsLocked, Exists, TypeOK
      <4>2. \A b \in BOOLEAN : [day[d] EXCEPT !.locked = b] \in [locked : BOOLEAN, takings : Takings]
        BY <4>1
      <4>3. PICK b \in BOOLEAN : day' = [day EXCEPT ![d] = [day[d] EXCEPT !.locked = b]]
        BY <2>5 DEF Lock, Unlock
      <4>4. day'[d] # Absent /\ day[d] # Absent
        BY <4>1, <4>2, <4>3, ConstantsAssumption DEF TypeOK
      <4>5. QED
        BY <4>3, <4>4 DEF Exists, TypeOK
    <3>2. QED
      BY <2>5, <3>1 DEF Lock, Unlock, LinksResolve, LineLinksResolve, RegisterResolves, PayablesResolve
  <2>6. ASSUME NEW book \in LedgerInputs, PutLedger(book)
        PROVE  LinksResolve'
    <3>1. LineLinksResolve'
      BY <2>6, RelinkedLines DEF PutLedger, TypeOK
    <3>2. \A d \in Days : ~Exists(d)' => lines'[d] = {}
      BY <2>6, RelinkNothing DEF PutLedger, Exists, LinksResolve
    <3>3. \A x \in Rets : rets'[x] \in pos' \cup {NoRef, Absent}
      BY <2>6 DEF PutLedger, syncLedgerWorkspace, Known
    <3>4. QED
      BY <2>6, <3>1, <3>2, <3>3 DEF PutLedger, LinksResolve, RegisterResolves, PayablesResolve
  <2>7. ASSUME NEW book \in SalaryInputs, PutSalary(book)
        PROVE  LinksResolve'
    <3>1. RegisterResolves' /\ PayablesResolve'
      BY <2>7, SalaryWriteResolves DEF PutSalary
    <3>2. LineLinksResolve'
      BY <2>7 DEF PutSalary, syncSalaryWorkspace, LinksResolve, LineLinksResolve
    <3>3. QED
      BY <2>7, <3>1, <3>2 DEF PutSalary, LinksResolve, Exists
  <2>8. ASSUME NEW roster \in SUBSET Emps, PutEmployees(roster)
        PROVE  LinksResolve'
    <3>1. LineLinksResolve'
      BY <2>8, RelinkedLines DEF PutEmployees, TypeOK
    <3>2. \A d \in Days : ~Exists(d)' => lines'[d] = {}
      BY <2>8, RelinkNothing DEF PutEmployees, Exists, LinksResolve
    <3>3. ASSUME NEW l \in SLines
          PROVE  /\ slines'[l] = Absent <=> slines[l] = Absent
                 /\ slines'[l] \in emps' \cup {NoRef, Absent}
      BY <2>8, ConstantsAssumption DEF PutEmployees, Known
    <3>4. RegisterResolves' /\ PayablesResolve'
      BY <2>8, <3>3 DEF PutEmployees, LinksResolve, RegisterResolves, PayablesResolve, Nested, TypeOK
    <3>5. QED
      BY <2>8, <3>1, <3>2, <3>4 DEF PutEmployees, LinksResolve
  <2>9. ASSUME NEW c \in Cats, CreateCategory(c)
        PROVE  LinksResolve'
    BY <2>9 DEF CreateCategory, LinksResolve, LineLinksResolve, RegisterResolves, PayablesResolve, Exists
  <2>10. ASSUME NEW c \in Cats, RemoveCategory(c)
         PROVE  LinksResolve'
    <3>1. LineLinksResolve'
      BY <2>10, RelinkedLines DEF RemoveCategory, TypeOK
    <3>2. \A d \in Days : ~Exists(d)' => lines'[d] = {}
      BY <2>10, RelinkNothing DEF RemoveCategory, Exists, LinksResolve
    <3>3. PayablesResolve'
      <4>1. \A x \in MExps : mexps'[x] = Absent <=> mexps[x] = Absent
        BY <2>10, ConstantsAssumption DEF RemoveCategory
      <4>2. \A x \in MExps : mexps'[x] \in cats' \cup {NoRef, Absent}
        BY <2>10 DEF RemoveCategory, LinksResolve, PayablesResolve
      <4>3. QED
        BY <2>10, <4>1, <4>2 DEF RemoveCategory, LinksResolve, PayablesResolve
    <3>4. QED
      BY <2>10, <3>1, <3>2, <3>3 DEF RemoveCategory, LinksResolve, RegisterResolves
  <2>11. ASSUME NEW x \in MExps, NEW c \in Cats \cup {NoRef},
                CreateExpense(x, c) \/ QuickExpense(x, c) \/ UpdateExpense(x, c)
         PROVE  LinksResolve'
    <3>1. /\ mexps' = [mexps EXCEPT ![x] = c]
          /\ c \in cats \cup {NoRef}
          /\ mpays' = mpays \/ SettleAtOnce(x)
          /\ UNCHANGED <<day, lines, ledger, pos, rets, months, slines, spays, emps, cats>>
      BY <2>11 DEF CreateExpense, QuickExpense, UpdateExpense, NewExpense
    <3>2. c # Absent
      BY ConstantsAssumption
    <3>3. PayablesResolve'
      BY <3>1, <3>2, ConstantsAssumption DEF SettleAtOnce, LinksResolve, PayablesResolve, TypeOK
    <3>4. QED
      BY <3>1, <3>3 DEF LinksResolve, LineLinksResolve, RegisterResolves, Exists
  <2>12. ASSUME NEW p \in MPays, CreatePayment(p) \/ RemovePayment(p)
         PROVE  LinksResolve'
    <3>1. PayablesResolve'
      BY <2>12, ConstantsAssumption DEF CreatePayment, RemovePayment, LinksResolve, PayablesResolve, TypeOK
    <3>2. QED
      BY <2>12, <3>1 DEF CreatePayment, RemovePayment, LinksResolve, LineLinksResolve, RegisterResolves, Exists
  <2>13. ASSUME NEW r \in Requests, RemoveExpense(r)
         PROVE  LinksResolve'
    <3>1. PayablesResolve'
      BY <2>13, ConstantsAssumption DEF RemoveExpense, LinksResolve, PayablesResolve, TypeOK
    <3>2. QED
      BY <2>13, <3>1 DEF RemoveExpense, LinksResolve, LineLinksResolve, RegisterResolves, Exists
  <2>14. QED
    BY <2>1, <2>2, <2>3, <2>4, <2>5, <2>6, <2>7, <2>8, <2>9, <2>10, <2>11, <2>12, <2>13
    DEF Next, DayStep, BookStep, PayablesStep, prepareUpsert, BeginRemove, ReadLinks, Abandon,
        BeginRemoveExpense, vars, tables
<1>3. QED
  BY <1>1, <1>2, TypeCorrect, PTL DEF Spec


-----------------------------------------------------------------------------
(* A category that is gone is nulled alike on the lines and on the         *)
(* payables derived from them.                                             *)
LEMMA DailyRelinked ==
  ASSUME NEW ls \in SUBSET Line, NEW es, NEW ps, NEW ms, NEW cs
  PROVE  DailyPayables(RelinkAll(ls, es, ps, ms, cs))
           = {[x EXCEPT !.cat = Known(x.cat, cs)] : x \in DailyPayables(ls)}
<1> DEFINE Row(l) == [id |-> l.id, cat |-> l.cat, paid |-> l.paid]
<1>1. ASSUME NEW l \in ls
      PROVE  /\ Relink(l, es, ps, ms, cs).kind = l.kind
             /\ Row(Relink(l, es, ps, ms, cs)) = [Row(l) EXCEPT !.cat = Known(l.cat, cs)]
  BY DEF Relink, Line
<1>2. ASSUME NEW x \in DailyPayables(RelinkAll(ls, es, ps, ms, cs))
      PROVE  \E y \in DailyPayables(ls) : x = [y EXCEPT !.cat = Known(y.cat, cs)]
  <2>1. PICK k \in RelinkAll(ls, es, ps, ms, cs) : k.kind = "regular" /\ x = Row(k)
    BY DEF DailyPayables
  <2>2. PICK l \in ls : k = Relink(l, es, ps, ms, cs)
    BY DEF RelinkAll
  <2>3. Row(l) \in DailyPayables(ls)
    BY <1>1, <2>1, <2>2 DEF DailyPayables
  <2>4. x = [Row(l) EXCEPT !.cat = Known(Row(l).cat, cs)]
    BY <1>1, <2>1, <2>2
  <2> HIDE DEF Row
  <2>5. QED
    BY <2>3, <2>4
<1>3. ASSUME NEW y \in DailyPayables(ls)
      PROVE  [y EXCEPT !.cat = Known(y.cat, cs)] \in DailyPayables(RelinkAll(ls, es, ps, ms, cs))
  <2>1. PICK l \in ls : l.kind = "regular" /\ y = Row(l)
    BY DEF DailyPayables
  <2>2. Relink(l, es, ps, ms, cs) \in RelinkAll(ls, es, ps, ms, cs)
    BY DEF RelinkAll
  <2>3. Row(Relink(l, es, ps, ms, cs)) \in DailyPayables(RelinkAll(ls, es, ps, ms, cs))
    BY <1>1, <2>1, <2>2 DEF DailyPayables
  <2>4. Row(Relink(l, es, ps, ms, cs)) = [y EXCEPT !.cat = Known(y.cat, cs)]
    BY <1>1, <2>1
  <2> HIDE DEF Row
  <2>5. QED
    BY <2>3, <2>4
<1>4. QED
  BY <1>2, <1>3

(* Where every category is there, that changes nothing.                    *)
LEMMA DailyUntouched ==
  ASSUME NEW ls \in SUBSET Line, NEW es, NEW ps, NEW ms,
         \A l \in ls : l.cat \in cats \cup {NoRef}
  PROVE  DailyPayables(RelinkAll(ls, es, ps, ms, cats)) = DailyPayables(ls)
<1>1. ASSUME NEW x \in DailyPayables(ls)
      PROVE  [x EXCEPT !.cat = Known(x.cat, cats)] = x
  <2>1. PICK l \in ls : x = [id |-> l.id, cat |-> l.cat, paid |-> l.paid]
    BY DEF DailyPayables
  <2>2. Known(x.cat, cats) = x.cat
    BY <2>1 DEF Known
  <2>3. QED
    BY <2>1, <2>2
<1>2. {[x EXCEPT !.cat = Known(x.cat, cats)] : x \in DailyPayables(ls)} = DailyPayables(ls)
  BY <1>1
<1>3. QED
  BY <1>2, DailyRelinked

(* THEOREM: the derived Payables rows are at all times what a re-derivation *)
(* would write.  It takes that no link dangles: only then does a roster     *)
(* write, which does not derive again, leave every daily payable alone.     *)
THEOREM ProjectionStaysCurrent == Spec => []ProjectionCurrent
<1>1. Init => ProjectionCurrent
  BY DEF Init, ProjectionCurrent
<1>2. TypeOK /\ LinksResolve /\ ProjectionCurrent /\ [Next]_vars => ProjectionCurrent'
  <2> SUFFICES ASSUME TypeOK, LinksResolve, ProjectionCurrent, [Next]_vars
               PROVE  ProjectionCurrent'
    OBVIOUS
  <2>1. CASE syncPayables
    BY <2>1 DEF syncPayables, ProjectionCurrent
  <2>2. CASE UNCHANGED <<lines, ledger, pos, spays, derived>>
    BY <2>2 DEF ProjectionCurrent, Projection, Paid
  <2>3. ASSUME NEW roster \in SUBSET Emps, PutEmployees(roster)
        PROVE  ProjectionCurrent'
    <3>1. ASSUME NEW d \in Days
          PROVE  DailyPayables(lines'[d]) = DailyPayables(lines[d])
      <4>1. lines[d] \in SUBSET Line /\ \A l \in lines[d] : l.cat \in cats \cup {NoRef}
        BY DEF TypeOK, LinksResolve, LineLinksResolve
      <4>2. lines'[d] = RelinkAll(lines[d], LedgerIds(ledger), pos, roster, cats)
        BY <2>3 DEF PutEmployees
      <4>3. QED
        BY <4>1, <4>2, DailyUntouched
    <3>2. [d \in Days |-> DailyPayables(lines'[d])] = [d \in Days |-> DailyPayables(lines[d])]
      BY <3>1
    <3>3. QED
      BY <2>3, <3>2 DEF PutEmployees, ProjectionCurrent, Projection, Paid
  <2>4. ASSUME NEW c \in Cats, RemoveCategory(c)
        PROVE  ProjectionCurrent'
    <3> DEFINE Unlabel(ps) == {[x EXCEPT !.cat = Known(x.cat, cats')] : x \in ps}
    <3>1. ASSUME NEW d \in Days
          PROVE  Unlabel(derived.daily[d]) = DailyPayables(lines'[d])
      <4>1. derived.daily[d] = DailyPayables(lines[d])
        BY DEF ProjectionCurrent, Projection
      <4>2. lines'[d] = RelinkAll(lines[d], LedgerIds(ledger), pos, emps, cats')
        BY <2>4 DEF RemoveCategory
      <4>3. lines[d] \in SUBSET Line
        BY DEF TypeOK
      <4>4. QED
        BY <4>1, <4>2, <4>3, DailyRelinked
    <3>2. derived' = [derived EXCEPT !.daily = [d \in Days |-> Unlabel(derived.daily[d])]]
      BY <2>4 DEF RemoveCategory
    <3> HIDE DEF Unlabel
    <3>3. derived' = [derived EXCEPT !.daily = [d \in Days |-> DailyPayables(lines'[d])]]
      BY <3>1, <3>2
    <3>4. UNCHANGED <<ledger, pos, spays>>
      BY <2>4 DEF RemoveCategory
    <3>5. QED
      BY <3>3, <3>4 DEF ProjectionCurrent, Projection, Paid
  <2>5. QED
    BY <2>1, <2>2, <2>3, <2>4
    DEF Next, DayStep, BookStep, PayablesStep, prepareUpsert, Upsert, Commit, BeginRemove,
        ReadLinks, Remove, Abandon, Lock, Unlock, PutLedger, PutSalary, CreateCategory,
        CreateExpense, QuickExpense, UpdateExpense, CreatePayment, RemovePayment,
        BeginRemoveExpense, RemoveExpense, vars, tables
<1>3. QED
  BY <1>1, <1>2, TypeCorrect, LinksAlwaysResolve, PTL DEF Spec

-----------------------------------------------------------------------------
(* A saved day is there, so only Remove deletes one.                       *)
LEMMA SavedDayExists ==
  ASSUME TypeOK, NEW d \in Days, NEW ls, NEW t \in Takings, upsertWithinTx(d, ls, t)
  PROVE  \A e \in Days : ~Deletes(e)
<1>1. [locked |-> IsLocked(d), takings |-> t] # Absent
  <2>1. IsLocked(d) \in BOOLEAN
    BY DEF TypeOK, IsLocked, Exists
  <2>2. [locked |-> IsLocked(d), takings |-> t] \in [locked : BOOLEAN, takings : Takings]
    BY <2>1
  <2>3. QED
    BY <2>2, ConstantsAssumption
<1>2. day' = [day EXCEPT ![d] = [locked |-> IsLocked(d), takings |-> t]]
  BY DEF upsertWithinTx
<1>3. QED
  BY <1>1, <1>2 DEF Deletes, Exists, TypeOK

LEMMA OnlyRemoveDeletes ==
  ASSUME TypeOK, TypeOK', [Next]_vars, NEW d \in Days, Deletes(d)
  PROVE  \E r \in Requests : Remove(r) /\ req[r].day = d
<1>1. CASE UNCHANGED day
  BY <1>1 DEF Deletes, Exists
<1>2. ASSUME NEW r \in Requests, req[r].phase = "saving",
             \E t \in Takings : upsertWithinTx(req[r].day, req[r].wanted, t)
      PROVE  FALSE
  <2>1. req[r].day \in Days
    BY <1>2 DEF TypeOK, Request
  <2>2. QED
    BY <1>2, <2>1, SavedDayExists
<1>3. ASSUME NEW e \in Days, Lock(e) \/ Unlock(e)
      PROVE  FALSE
  <2>1. day[e] \in [locked : BOOLEAN, takings : Takings]
    BY <1>3 DEF Lock, Unlock, IsLocked, Exists, TypeOK
  <2>2. PICK b \in BOOLEAN : day' = [day EXCEPT ![e] = [day[e] EXCEPT !.locked = b]]
    BY <1>3 DEF Lock, Unlock
  <2>3. [day[e] EXCEPT !.locked = b] \in [locked : BOOLEAN, takings : Takings]
    BY <2>1
  <2>4. QED
    BY <2>2, <2>3, ConstantsAssumption DEF Deletes, Exists, TypeOK
<1>4. ASSUME NEW r \in Requests, Remove(r)
      PROVE  req[r].day = d
  BY <1>4 DEF Remove, Deletes, Exists, TypeOK
<1>5. QED
  BY <1>1, <1>2, <1>3, <1>4
  DEF Next, DayStep, BookStep, PayablesStep, prepareUpsert, Upsert, Commit, BeginRemove,
      ReadLinks, Abandon, PutLedger, PutSalary, PutEmployees, CreateCategory, RemoveCategory,
      CreateExpense, QuickExpense, UpdateExpense, CreatePayment, RemovePayment,
      BeginRemoveExpense, RemoveExpense, vars, tables

(* A line that resolves is left as it is by relinking.                     *)
LEMMA ResolvedUntouched ==
  ASSUME NEW ls \in SUBSET Line, NEW es, NEW ps, NEW ms, NEW cs,
         \A l \in ls : /\ l.entry \in es \cup {NoRef}
                       /\ l.po \in ps \cup {NoRef}
                       /\ l.emp \in ms \cup {NoRef}
                       /\ l.cat \in cs \cup {NoRef}
  PROVE  RelinkAll(ls, es, ps, ms, cs) = ls
<1>1. ASSUME NEW l \in ls PROVE Relink(l, es, ps, ms, cs) = l
  BY DEF Relink, Known, Line
<1>2. QED
  BY <1>1 DEF RelinkAll

(* THEOREM: deleting a day changes no other day, whatever the links it     *)
(* read before and whatever ran since.                                     *)
THEOREM DeleteSparesAlways == Spec => DeleteSparesOtherDays
<1> DEFINE Spared == \A d \in Days : Deletes(d) =>
                       \A e \in Days \ {d} : lines'[e] = lines[e] /\ day'[e] = day[e]
<1>1. TypeOK /\ TypeOK' /\ LinksResolve /\ [Next]_vars => [Spared]_vars
  <2> SUFFICES ASSUME TypeOK, TypeOK', LinksResolve, [Next]_vars,
                      NEW d \in Days, Deletes(d), NEW e \in Days \ {d}
               PROVE  lines'[e] = lines[e] /\ day'[e] = day[e]
    OBVIOUS
  <2>1. PICK r \in Requests : Remove(r) /\ req[r].day = d
    BY OnlyRemoveDeletes
  <2>2. ASSUME NEW l \in lines[e]
        PROVE  /\ l.entry \in LedgerIds(ledger') \cup {NoRef}
               /\ l.po \in pos' \cup {NoRef}
               /\ l.emp \in emps \cup {NoRef}
               /\ l.cat \in cats \cup {NoRef}
    <3>1. l \in OtherLines(d)
      BY DEF OtherLines
    <3>2. l.entry \notin GoneEntries(d, req[r].links)
      BY <3>1 DEF GoneEntries, KeptEntries
    <3>3. l.po \notin GonePos(d, req[r].links)
      BY <3>1 DEF GonePos
    <3>4. /\ l.entry \in LedgerIds(ledger) \cup {NoRef}
          /\ l.po \in pos \cup {NoRef}
          /\ l.emp \in emps \cup {NoRef}
          /\ l.cat \in cats \cup {NoRef}
      BY DEF LinksResolve, LineLinksResolve
    <3>5. l.entry \in LedgerIds(ledger) => l.entry \in LedgerIds(ledger')
      BY <2>1, <3>2 DEF Remove, LedgerIds
    <3>6. l.po \in pos => l.po \in pos'
      BY <2>1, <3>3 DEF Remove
    <3>7. QED
      BY <3>4, <3>5, <3>6
  <2>3. lines'[e] = RelinkAll(lines[e], LedgerIds(ledger'), pos', emps, cats)
    BY <2>1 DEF Remove
  <2>4. lines[e] \in SUBSET Line
    BY DEF TypeOK
  <2>5. lines'[e] = lines[e]
    BY <2>2, <2>3, <2>4, ResolvedUntouched
  <2>6. day'[e] = day[e]
    BY <2>1 DEF Remove, TypeOK
  <2>7. QED
    BY <2>5, <2>6
<1>2. QED
  BY <1>1, TypeCorrect, LinksAlwaysResolve, PTL DEF Spec, DeleteSparesOtherDays

(* THEOREM: deleting a day removes no locked bill and no payout that       *)
(* landed in a locked month.                                               *)
THEOREM DeleteSparesLocked == Spec => DeleteSparesLockedBooks
<1> DEFINE Spared == \A d \in Days : Deletes(d) =>
              /\ \A e \in Entries : ledger[e] = "locked" => ledger'[e] = "locked"
              /\ \A s \in SPays : spays[s] # Absent /\ months[MonthOf[spays[s].line]] = "locked"
                                    => spays'[s] = spays[s]
<1>1. TypeOK /\ TypeOK' /\ [Next]_vars => [Spared]_vars
  <2> SUFFICES ASSUME TypeOK, TypeOK', [Next]_vars, NEW d \in Days, Deletes(d)
               PROVE  /\ \A e \in Entries : ledger[e] = "locked" => ledger'[e] = "locked"
                      /\ \A s \in SPays : spays[s] # Absent /\ months[MonthOf[spays[s].line]] = "locked"
                                            => spays'[s] = spays[s]
    OBVIOUS
  <2>1. PICK r \in Requests : Remove(r) /\ req[r].day = d
    BY OnlyRemoveDeletes
  <2>2. ASSUME NEW e \in Entries, ledger[e] = "locked"
        PROVE  ledger'[e] = "locked"
    <3>1. e \notin GoneEntries(d, req[r].links)
      BY <2>2 DEF GoneEntries, KeptEntries
    <3>2. QED
      BY <2>1, <2>2, <3>1 DEF Remove
  <2>3. ASSUME NEW s \in SPays, spays[s] # Absent, months[MonthOf[spays[s].line]] = "locked"
        PROVE  spays'[s] = spays[s]
    <3>1. s \notin GonePayouts(d)
      BY <2>3 DEF GonePayouts
    <3>2. QED
      BY <2>1, <3>1 DEF Remove
  <2>4. QED
    BY <2>2, <2>3
<1>2. QED
  BY <1>1, TypeCorrect, PTL DEF Spec, DeleteSparesLockedBooks

-----------------------------------------------------------------------------
(* A delete that works from the day's current links is the step of the     *)
(* request that read them.                                                 *)
LEMMA DeletesByItself ==
  ASSUME TypeOK, TypeOK', [Next]_vars, NEW r \in Requests, NEW d \in Days, DeletesAsRead(r, d)
  PROVE  Remove(r)
<1>1. PICK q \in Requests : Remove(q) /\ req[q].day = d
  BY OnlyRemoveDeletes DEF DeletesAsRead
<1>2. PICK losers \in SUBSET Requests : FinishDeleting(q, losers)
  BY <1>1 DEF Remove
<1>3. ASSUME r # q PROVE FALSE
  <2>1. req'[r] = [req[r] EXCEPT !.found = FALSE] \/ req'[r] = req[r]
    BY <1>2, <1>3 DEF FinishDeleting
  <2>2. req[r] \in RequestFields
    BY DEF TypeOK, Request
  <2>3. req'[r].phase = req[r].phase
    BY <2>1, <2>2 DEF RequestFields
  <2>4. QED
    BY <2>3 DEF DeletesAsRead
<1>4. QED
  BY <1>1, <1>3

(* What each line of the day refers to is among the links of the delete,   *)
(* and in the books.                                                       *)
LEMMA LinkedRows ==
  ASSUME TypeOK, LinksResolve, NEW r \in Requests, NEW d \in Days, DeletesAsRead(r, d),
         NEW l \in lines[d]
  PROVE  /\ [entry |-> l.entry, po |-> l.po] \in req[r].links
         /\ l.entry # NoRef => l.entry \in LedgerIds(ledger)
         /\ l.po # NoRef => l.po \in pos
  BY DEF DeletesAsRead, LinksResolve, LineLinksResolve

(* THEOREM: a delete whose links are current keeps the order of every bill *)
(* it keeps.                                                               *)
THEOREM PairsRemovedWhole == Spec => NoHalfRemovedPair
<1> DEFINE Whole == \A r \in Requests, d \in Days : DeletesAsRead(r, d) =>
                      \A l \in lines[d] :
                        l.entry # NoRef /\ l.po # NoRef /\ ledger'[l.entry] # "absent" => l.po \in pos'
<1>1. TypeOK /\ TypeOK' /\ LinksResolve /\ [Next]_vars => [Whole]_vars
  <2> SUFFICES ASSUME TypeOK, TypeOK', LinksResolve, [Next]_vars,
                      NEW r \in Requests, NEW d \in Days, DeletesAsRead(r, d), NEW l \in lines[d],
                      l.entry # NoRef, l.po # NoRef, ledger'[l.entry] # "absent"
               PROVE  l.po \in pos'
    OBVIOUS
  <2>1. Remove(r) /\ req[r].day = d
    BY DeletesByItself DEF DeletesAsRead
  <2> DEFINE k == [entry |-> l.entry, po |-> l.po]
  <2>2. /\ k \in req[r].links
        /\ l.entry \in LedgerIds(ledger)
        /\ l.po \in pos
    BY LinkedRows
  <2>3. l.entry \notin GoneEntries(d, req[r].links)
    <3>1. ledger' = [e \in Entries |-> IF e \in GoneEntries(d, req[r].links) THEN "absent" ELSE ledger[e]]
      BY <2>1 DEF Remove
    <3>2. l.entry \in Entries
      BY <2>2 DEF LedgerIds
    <3>3. QED
      BY <3>1, <3>2
  <2>4. k.entry \in KeptEntries(d, req[r].links)
    BY <2>2, <2>3 DEF GoneEntries
  <2>5. l.po \notin GonePos(d, req[r].links)
    <3>1. k.po = l.po
      OBVIOUS
    <3>2. QED
      BY <2>2, <2>4, <3>1 DEF GonePos
  <2>6. QED
    BY <2>1, <2>2, <2>5 DEF Remove
<1>2. QED
  BY <1>1, TypeCorrect, LinksAlwaysResolve, PTL DEF Spec, NoHalfRemovedPair

(* THEOREM: and it removes every bill that no other day uses and nobody    *)
(* locked.                                                                 *)
THEOREM OwnBillsRemoved == Spec => DeleteRemovesOwnBills
<1> DEFINE Removed == \A r \in Requests, d \in Days : DeletesAsRead(r, d) =>
       \A l \in lines[d] : l.entry # NoRef /\ ledger[l.entry] = "open"
                           /\ (\A e \in Days \ {d} : \A m \in lines[e] : m.entry # l.entry)
                             => ledger'[l.entry] = "absent"
<1>1. TypeOK /\ TypeOK' /\ LinksResolve /\ [Next]_vars => [Removed]_vars
  <2> SUFFICES ASSUME TypeOK, TypeOK', LinksResolve, [Next]_vars,
                      NEW r \in Requests, NEW d \in Days, DeletesAsRead(r, d), NEW l \in lines[d],
                      l.entry # NoRef, ledger[l.entry] = "open",
                      \A e \in Days \ {d} : \A m \in lines[e] : m.entry # l.entry
               PROVE  ledger'[l.entry] = "absent"
    OBVIOUS
  <2>1. Remove(r) /\ req[r].day = d
    BY DeletesByItself DEF DeletesAsRead
  <2> DEFINE k == [entry |-> l.entry, po |-> l.po]
  <2>2. k \in req[r].links /\ l.entry \in LedgerIds(ledger)
    BY LinkedRows
  <2>3. l.entry \notin KeptEntries(d, req[r].links)
    BY DEF KeptEntries, OtherLines
  <2>4. l.entry \in GoneEntries(d, req[r].links)
    <3>1. k.entry = l.entry
      OBVIOUS
    <3>2. QED
      BY <2>2, <2>3, <3>1 DEF GoneEntries
  <2>5. l.entry \in Entries
    BY <2>2 DEF LedgerIds
  <2>6. QED
    BY <2>1, <2>4, <2>5 DEF Remove
<1>2. QED
  BY <1>1, TypeCorrect, LinksAlwaysResolve, PTL DEF Spec, DeleteRemovesOwnBills

-----------------------------------------------------------------------------
(* PaymentFifo.  Sums over a finite set.                                   *)

(* What holds of a set when it holds of those with one element less holds  *)
(* of every subset of a finite set.                                        *)
LEMMA SubsetInduction ==
  ASSUME NEW S, IsFiniteSet(S), NEW G,
         \A T \in SUBSET S : (\A x \in T : T \ {x} \in G) => T \in G
  PROVE  SUBSET S \subseteq G
<1> DEFINE R == StrictSubsetOrdering(S)
           C == (SUBSET S) \ G
<1> SUFFICES ASSUME C # {} PROVE FALSE
  OBVIOUS
<1>1. IsWellFoundedOn(R, SUBSET S)
  <2>1. FiniteSubsetsOf(S) = SUBSET S
    BY FS_FiniteSubsetsOfFinite
  <2>2. IsWellFoundedOn(R, FiniteSubsetsOf(S))
    BY FS_StrictSubsetOrderingWellFounded
  <2>3. QED
    BY <2>1, <2>2
<1>2. PICK T \in C : \A U \in C : <<U, T>> \notin R
  <2>1. C \subseteq SUBSET S
    OBVIOUS
  <2> HIDE DEF C, R
  <2>2. QED
    BY <1>1, <2>1, WFMin
<1>3. ASSUME NEW x \in T
      PROVE  T \ {x} \in G
  <2>1. <<T \ {x}, T>> \in R
    BY DEF StrictSubsetOrdering
  <2>2. QED
    BY <1>2, <2>1
<1>4. T \in SUBSET S /\ T \notin G
  BY <1>2
<1>5. \A x \in T : T \ {x} \in G
  BY <1>3
<1>6. QED
  BY <1>4, <1>5

(* A set of numbers that has 0, and with each number the next one, has     *)
(* them all: induction over the numbers, said of a set.                    *)
LEMMA SetInduction ==
  ASSUME NEW S, 0 \in S, \A n \in Nat : n \in S => n + 1 \in S
  PROVE  Nat \subseteq S
<1> DEFINE R == OpToRel(<, Nat)
           C == Nat \ S
<1> SUFFICES ASSUME C # {} PROVE FALSE
  OBVIOUS
<1>1. IsWellFoundedOn(R, Nat)
  BY NatLessThanWellFounded
<1>2. \E n \in C : \A k \in C : <<k, n>> \notin R
  <2>1. C \subseteq Nat
    OBVIOUS
  <2> HIDE DEF C, R
  <2>2. QED
    BY <1>1, <2>1, WFMin
<1>3. PICK n \in C : \A k \in C : ~(k < n)
  BY <1>2 DEF OpToRel
<1>4. n \in Nat /\ n \notin S /\ n # 0
  OBVIOUS
<1>5. n - 1 \in Nat /\ n - 1 < n
  BY <1>4
<1>6. n - 1 \in S
  BY <1>3, <1>5
<1>7. n - 1 + 1 \in S
  BY <1>5, <1>6
<1>8. QED
  BY <1>4, <1>7

(* A fold over the subsets of a set: c chooses the element that is taken   *)
(* last, with what the others give.                                        *)
IsFold(g, S, V, base, c, step) ==
  /\ g \in [SUBSET S -> V]
  /\ g = [T \in SUBSET S |-> IF T = {} THEN base ELSE step[<<c[T], g[T \ {c[T]}]>>]]

(* There is one, for a finite set.                                         *)
LEMMA FoldExists ==
  ASSUME NEW S, IsFiniteSet(S), NEW V, NEW base \in V,
         NEW c, \A T \in SUBSET S : T # {} => c[T] \in T,
         NEW step, \A x \in S, val \in V : step[<<x, val>>] \in V
  PROVE  \E g : IsFold(g, S, V, base, c, step)
<1> DEFINE Body(h, T) == IF T = {} THEN base ELSE step[<<c[T], h[T \ {c[T]}]>>]
           Small(n) == {T \in SUBSET S : Cardinality(T) <= n}
           G == {n \in Nat : \E g \in [Small(n) -> V] : g = [T \in Small(n) |-> Body(g, T)]}
<1>1. ASSUME NEW T \in SUBSET S
      PROVE  /\ IsFiniteSet(T) /\ Cardinality(T) \in Nat
             /\ Cardinality(T) = 0 <=> T = {}
             /\ T # {} => /\ c[T] \in T
                          /\ T \ {c[T]} \in SUBSET S
                          /\ Cardinality(T \ {c[T]}) = Cardinality(T) - 1
  <2>1. IsFiniteSet(T)
    BY FS_Subset
  <2>2. Cardinality(T) \in Nat /\ (Cardinality(T) = 0 <=> T = {})
    BY <2>1, FS_CardinalityType, FS_EmptySet
  <2>3. T # {} => Cardinality(T \ {c[T]}) = Cardinality(T) - 1
    BY <2>1, FS_RemoveElement
  <2>4. QED
    BY <2>1, <2>2, <2>3
<1>2. 0 \in G
  <2> DEFINE g == [T \in Small(0) |-> base]
  <2>1. ASSUME NEW T \in Small(0) PROVE T = {}
    <3>1. Cardinality(T) \in Nat /\ Cardinality(T) <= 0
      BY <1>1
    <3>2. Cardinality(T) = 0
      BY <3>1
    <3>3. QED
      BY <1>1, <3>2
  <2>2. g = [T \in Small(0) |-> Body(g, T)] /\ g \in [Small(0) -> V]
    BY <2>1
  <2> HIDE DEF g, Body, Small
  <2>3. QED
    BY <2>2
<1>3. ASSUME NEW n \in Nat, n \in G PROVE n + 1 \in G
  <2>1. PICK g \in [Small(n) -> V] : g = [T \in Small(n) |-> Body(g, T)]
    BY <1>3
  <2> DEFINE h == [T \in Small(n + 1) |-> Body(g, T)]
  <2>2. ASSUME NEW T \in Small(n + 1) PROVE Body(g, T) = Body(h, T) /\ Body(g, T) \in V
    <3>1. CASE T = {}
      BY <3>1
    <3>2. CASE T # {}
      <4> DEFINE U == T \ {c[T]}
      <4>1. U \in SUBSET S /\ Cardinality(U) <= n /\ Cardinality(U) <= n + 1
        <5>1. U \in SUBSET S /\ Cardinality(U) = Cardinality(T) - 1 /\ Cardinality(T) \in Nat
          BY <1>1, <3>2
        <5>2. Cardinality(T) <= n + 1
          OBVIOUS
        <5>3. QED
          BY <5>1, <5>2
      <4>2. U \in Small(n) /\ U \in Small(n + 1)
        BY <4>1
      <4>3. g[U] = Body(g, U) /\ h[U] = Body(g, U)
        <5> HIDE DEF U, Body, Small
        <5>1. QED
          BY <2>1, <4>2
      <4>4. g[U] = h[U] /\ g[U] \in V
        BY <4>3, <4>2
      <4>5. c[T] \in S
        BY <3>2
      <4> HIDE DEF h
      <4>6. QED
        BY <4>4, <4>5, <3>2
    <3>3. QED
      BY <3>1, <3>2
  <2>3. h = [T \in Small(n + 1) |-> Body(h, T)]
    <3> HIDE DEF Body, Small
    <3>1. QED
      BY <2>2
  <2>4. h \in [Small(n + 1) -> V]
    <3> HIDE DEF Body, Small
    <3>1. QED
      BY <2>2
  <2> HIDE DEF h, Body, Small
  <2>5. QED
    BY <2>3, <2>4
<1>4. Cardinality(S) \in G
  <2>1. Cardinality(S) \in Nat
    BY <1>1
  <2> HIDE DEF G
  <2>2. QED
    BY <1>2, <1>3, <2>1, SetInduction
<1>5. Small(Cardinality(S)) = SUBSET S
  <2>1. \A T \in SUBSET S : Cardinality(T) <= Cardinality(S)
    BY FS_Subset
  <2>2. QED
    BY <2>1
<1>6. \E g \in [SUBSET S -> V] : g = [T \in SUBSET S |-> Body(g, T)]
  <2> HIDE DEF Small, Body
  <2>1. QED
    BY <1>4, <1>5
<1>7. QED
  BY <1>6 DEF IsFold

(* The element a fold takes next.                                          *)
Pick(T) == CHOOSE x \in T : TRUE

IsSum(g, f, S) ==
  g = [T \in SUBSET S |-> IF T = {} THEN 0 ELSE f[Pick(T)] + g[T \ {Pick(T)}]]

Counts(f, S) == IsFiniteSet(S) /\ \A x \in S : f[x] \in Nat

(* The sum is taken one element after the other.                           *)
LEMMA SumSteps ==
  ASSUME NEW S, NEW f, Counts(f, S)
  PROVE  \E g : IsSum(g, f, S) /\ SumFunctionOnSet(f, S) = g[S]
<1> DEFINE c == [T \in SUBSET S |-> Pick(T)]
           step == [p \in S \X Nat |-> f[p[1]] + p[2]]
<1>1. \A T \in SUBSET S : T # {} => c[T] \in T /\ c[T] = Pick(T)
  BY DEF Pick
<1>2. \A x \in S, n \in Nat : step[<<x, n>>] = f[x] + n /\ step[<<x, n>>] \in Nat
  BY DEF Counts
<1>3. \E g : IsFold(g, S, Nat, 0, c, step)
  <2> HIDE DEF c, step
  <2>1. QED
    BY <1>1, <1>2, FoldExists DEF Counts
<1>4. \E g : IsSum(g, f, S)
  <2>1. PICK g : IsFold(g, S, Nat, 0, c, step)
    BY <1>3
  <2>2. ASSUME NEW T \in SUBSET S, T # {}
        PROVE  g[T] = f[Pick(T)] + g[T \ {Pick(T)}]
    <3>1. g[T] = step[<<c[T], g[T \ {c[T]}]>>]
      BY <2>1, <2>2 DEF IsFold
    <3>2. c[T] = Pick(T) /\ c[T] \in S /\ g[T \ {c[T]}] \in Nat
      BY <1>1, <2>1, <2>2 DEF IsFold
    <3> HIDE DEF c, step
    <3>3. QED
      BY <1>2, <3>1, <3>2
  <2>3. g[{}] = 0 /\ DOMAIN g = SUBSET S
    BY <2>1 DEF IsFold
  <2>4. g = [T \in SUBSET S |-> g[T]]
    BY <2>1 DEF IsFold
  <2> HIDE DEF c, step
  <2>5. QED
    BY <2>2, <2>3, <2>4 DEF IsSum
<1>5. SumFunctionOnSet(f, S) =
        (CHOOSE g : g = [T \in SUBSET S |-> IF T = {} THEN 0
                          ELSE f[CHOOSE x \in T : TRUE] + g[T \ {CHOOSE x \in T : TRUE}]])[S]
  BY DEF SumFunctionOnSet, FoldFunctionOnSet, MapThenFoldSet
<1>6. SumFunctionOnSet(f, S) = (CHOOSE g : IsSum(g, f, S))[S]
  BY <1>5 DEF IsSum, Pick
<1>7. QED
  BY <1>4, <1>6

(* Of a subset the same sum is taken.                                      *)
LEMMA SumsAgree ==
  ASSUME NEW S, IsFiniteSet(S), NEW T \in SUBSET S, NEW f, NEW g, NEW h, IsSum(g, f, S), IsSum(h, f, T)
  PROVE  g[T] = h[T]
<1> DEFINE G == {U \in SUBSET T : g[U] = h[U]}
<1>1. ASSUME NEW U \in SUBSET T, \A x \in U : U \ {x} \in G
      PROVE  U \in G
  <2>1. U \in SUBSET S
    OBVIOUS
  <2>2. g[U] = IF U = {} THEN 0 ELSE f[Pick(U)] + g[U \ {Pick(U)}]
    BY <2>1 DEF IsSum
  <2>3. h[U] = IF U = {} THEN 0 ELSE f[Pick(U)] + h[U \ {Pick(U)}]
    BY DEF IsSum
  <2>4. U # {} => Pick(U) \in U
    BY DEF Pick
  <2>5. U # {} => g[U \ {Pick(U)}] = h[U \ {Pick(U)}]
    BY <1>1, <2>4
  <2>6. QED
    BY <2>2, <2>3, <2>5
<1>2. IsFiniteSet(T)
  BY FS_Subset
<1>3. SUBSET T \subseteq G
  <2> HIDE DEF G
  <2>1. QED
    BY <1>1, <1>2, SubsetInduction
<1>4. QED
  BY <1>3

(* Nothing sums to 0.                                                      *)
LEMMA SumEmpty ==
  ASSUME NEW f
  PROVE  SumFunctionOnSet(f, {}) = 0
<1>1. Counts(f, {})
  BY FS_EmptySet DEF Counts
<1>2. QED
  BY <1>1, SumSteps DEF IsSum

(* The sum is of one element and of the others.                            *)
LEMMA SumUnfold ==
  ASSUME NEW S, NEW f, Counts(f, S), S # {}
  PROVE  /\ Pick(S) \in S
         /\ SumFunctionOnSet(f, S) = f[Pick(S)] + SumFunctionOnSet(f, S \ {Pick(S)})
<1> DEFINE T == S \ {Pick(S)}
<1>1. Counts(f, T)
  BY FS_Subset DEF Counts
<1>2. PICK g : IsSum(g, f, S) /\ SumFunctionOnSet(f, S) = g[S]
  BY SumSteps
<1>3. PICK h : IsSum(h, f, T) /\ SumFunctionOnSet(f, T) = h[T]
  BY <1>1, SumSteps
<1>4. g[T] = h[T]
  BY <1>2, <1>3, SumsAgree DEF Counts
<1>5. g[S] = f[Pick(S)] + g[T]
  BY <1>2 DEF IsSum
<1>6. Pick(S) \in S
  BY DEF Pick
<1>7. QED
  BY <1>2, <1>3, <1>4, <1>5, <1>6

(* A sum of numbers is a number.                                           *)
LEMMA SumNat ==
  ASSUME NEW S, NEW f, Counts(f, S)
  PROVE  SumFunctionOnSet(f, S) \in Nat
<1> DEFINE G == {T \in SUBSET S : SumFunctionOnSet(f, T) \in Nat}
<1>1. ASSUME NEW T \in SUBSET S, \A x \in T : T \ {x} \in G
      PROVE  T \in G
  <2>1. Counts(f, T)
    BY FS_Subset DEF Counts
  <2>2. CASE T = {}
    BY <2>2, SumEmpty
  <2>3. CASE T # {}
    <3>1. /\ Pick(T) \in T
          /\ SumFunctionOnSet(f, T) = f[Pick(T)] + SumFunctionOnSet(f, T \ {Pick(T)})
      BY <2>1, <2>3, SumUnfold
    <3>2. SumFunctionOnSet(f, T \ {Pick(T)}) \in Nat /\ f[Pick(T)] \in Nat
      BY <1>1, <2>1, <3>1 DEF Counts
    <3>3. QED
      BY <3>1, <3>2
  <2>4. QED
    BY <2>2, <2>3
<1>2. SUBSET S \subseteq G
  <2> HIDE DEF G
  <2>1. QED
    BY <1>1, SubsetInduction DEF Counts
<1>3. QED
  BY <1>2

(* Whichever element is set apart.                                         *)
LEMMA SumRemove ==
  ASSUME NEW S, NEW f, Counts(f, S), NEW y \in S
  PROVE  SumFunctionOnSet(f, S) = f[y] + SumFunctionOnSet(f, S \ {y})
<1> DEFINE Sum(T) == SumFunctionOnSet(f, T)
           G == {T \in SUBSET S : \A x \in T : Sum(T) = f[x] + Sum(T \ {x})}
<1>1. ASSUME NEW T \in SUBSET S, \A x \in T : T \ {x} \in G, NEW x \in T
      PROVE  Sum(T) = f[x] + Sum(T \ {x})
  <2>1. \A U \in SUBSET S : Counts(f, U)
    BY FS_Subset DEF Counts
  <2>2. Pick(T) \in T /\ Sum(T) = f[Pick(T)] + Sum(T \ {Pick(T)})
    BY <2>1, SumUnfold
  <2>3. CASE Pick(T) = x
    BY <2>2, <2>3
  <2>4. CASE Pick(T) # x
    <3> DEFINE c == Pick(T)
               U == T \ {c, x}
    <3>1. T \ {c} \in G /\ T \ {x} \in G /\ x \in T \ {c} /\ c \in T \ {x}
      BY <1>1, <2>2, <2>4
    <3>2. (T \ {c}) \ {x} = U /\ (T \ {x}) \ {c} = U
      OBVIOUS
    <3>3. Sum(T \ {c}) = f[x] + Sum(U) /\ Sum(T \ {x}) = f[c] + Sum(U)
      BY <3>1, <3>2
    <3>4. Sum(U) \in Nat /\ f[x] \in Nat /\ f[c] \in Nat
      BY <2>1, <2>2, SumNat DEF Counts
    <3> HIDE DEF Sum, U
    <3>5. QED
      BY <2>2, <3>3, <3>4
  <2>5. QED
    BY <2>3, <2>4
<1>2. \A T \in SUBSET S : (\A x \in T : T \ {x} \in G) => T \in G
  BY <1>1
<1>3. SUBSET S \subseteq G
  <2> HIDE DEF G
  <2>1. QED
    BY <1>2, SubsetInduction DEF Counts
<1>4. QED
  BY <1>3

(* Functions that agree have the same sum.                                 *)
LEMMA SumSame ==
  ASSUME NEW S, NEW f, NEW g, Counts(f, S), \A x \in S : f[x] = g[x]
  PROVE  SumFunctionOnSet(f, S) = SumFunctionOnSet(g, S)
<1> DEFINE G == {T \in SUBSET S : SumFunctionOnSet(f, T) = SumFunctionOnSet(g, T)}
<1>1. ASSUME NEW T \in SUBSET S, \A x \in T : T \ {x} \in G
      PROVE  T \in G
  <2>1. Counts(f, T) /\ Counts(g, T)
    BY FS_Subset DEF Counts
  <2>2. CASE T = {}
    BY <2>2, SumEmpty
  <2>3. CASE T # {}
    <3>1. /\ Pick(T) \in T
          /\ SumFunctionOnSet(f, T) = f[Pick(T)] + SumFunctionOnSet(f, T \ {Pick(T)})
          /\ SumFunctionOnSet(g, T) = g[Pick(T)] + SumFunctionOnSet(g, T \ {Pick(T)})
      BY <2>1, <2>3, SumUnfold
    <3>2. SumFunctionOnSet(f, T \ {Pick(T)}) = SumFunctionOnSet(g, T \ {Pick(T)})
      BY <1>1, <3>1
    <3>3. QED
      BY <3>1, <3>2
  <2>4. QED
    BY <2>2, <2>3
<1>2. SUBSET S \subseteq G
  <2> HIDE DEF G
  <2>1. QED
    BY <1>1, SubsetInduction DEF Counts
<1>3. QED
  BY <1>2

(* A sum of zeros is 0.                                                    *)
LEMMA SumOfZeros ==
  ASSUME NEW S, NEW f, Counts(f, S), \A x \in S : f[x] = 0
  PROVE  SumFunctionOnSet(f, S) = 0
<1> DEFINE G == {T \in SUBSET S : SumFunctionOnSet(f, T) = 0}
<1>1. ASSUME NEW T \in SUBSET S, \A x \in T : T \ {x} \in G
      PROVE  T \in G
  <2>1. Counts(f, T)
    BY FS_Subset DEF Counts
  <2>2. CASE T = {}
    BY <2>2, SumEmpty
  <2>3. CASE T # {}
    <3>1. /\ Pick(T) \in T
          /\ SumFunctionOnSet(f, T) = f[Pick(T)] + SumFunctionOnSet(f, T \ {Pick(T)})
      BY <2>1, <2>3, SumUnfold
    <3>2. SumFunctionOnSet(f, T \ {Pick(T)}) = 0 /\ f[Pick(T)] = 0
      BY <1>1, <3>1
    <3>3. QED
      BY <3>1, <3>2
  <2>4. QED
    BY <2>2, <2>3
<1>2. SUBSET S \subseteq G
  <2> HIDE DEF G
  <2>1. QED
    BY <1>1, SubsetInduction DEF Counts
<1>3. QED
  BY <1>2

(* A set of numbers has a smallest one.                                    *)
LEMMA MinIsIn ==
  ASSUME NEW S \in SUBSET Nat, S # {}
  PROVE  Min(S) \in S /\ \A k \in S : Min(S) <= k
<1> DEFINE R == OpToRel(<, Nat)
<1>1. IsWellFoundedOn(R, Nat)
  BY NatLessThanWellFounded
<1>2. \E n \in S : \A k \in S : <<k, n>> \notin R
  <2> HIDE DEF R
  <2>1. QED
    BY <1>1, WFMin
<1>3. PICK n \in S : \A k \in S : ~(k < n)
  BY <1>2 DEF OpToRel
<1>4. \A k \in S : n <= k
  BY <1>3
<1>5. QED
  BY <1>4 DEF Min

LEMMA SumScaled ==
  ASSUME NEW S, IsFiniteSet(S), NEW f, NEW g, NEW h, NEW c \in Nat,
         \A x \in S : f[x] \in Nat /\ g[x] \in Nat /\ h[x] \in Nat /\ f[x] = c * g[x] + h[x]
  PROVE  /\ SumFunctionOnSet(f, S) \in Nat /\ SumFunctionOnSet(g, S) \in Nat /\ SumFunctionOnSet(h, S) \in Nat
         /\ SumFunctionOnSet(f, S) = c * SumFunctionOnSet(g, S) + SumFunctionOnSet(h, S)
<1> DEFINE F(T) == SumFunctionOnSet(f, T)
           A(T) == SumFunctionOnSet(g, T)
           B(T) == SumFunctionOnSet(h, T)
           G == {T \in SUBSET S : F(T) \in Nat /\ A(T) \in Nat /\ B(T) \in Nat /\ F(T) = c * A(T) + B(T)}
<1>1. ASSUME NEW T \in SUBSET S, \A x \in T : T \ {x} \in G PROVE T \in G
  <2>1. CASE T = {}
    <3>1. F(T) = 0 /\ A(T) = 0 /\ B(T) = 0
      BY <2>1, SumEmpty
    <3> HIDE DEF F, A, B
    <3>2. QED
      BY <3>1
  <2>2. CASE T # {}
    <3>1. PICK x \in T : TRUE
      BY <2>2
    <3> DEFINE U == T \ {x}
    <3>2. F(U) \in Nat /\ A(U) \in Nat /\ B(U) \in Nat /\ F(U) = c * A(U) + B(U)
      BY <1>1, <3>1
    <3>3. IsFiniteSet(T)
      BY FS_Subset
    <3>4. Counts(f, T) /\ Counts(g, T) /\ Counts(h, T)
      BY <3>3 DEF Counts
    <3>5. F(T) = f[x] + F(U)
      BY <3>1, <3>4, SumRemove
    <3>6. A(T) = g[x] + A(U)
      BY <3>1, <3>4, SumRemove
    <3>7. B(T) = h[x] + B(U)
      BY <3>1, <3>4, SumRemove
    <3>8. f[x] \in Nat /\ g[x] \in Nat /\ h[x] \in Nat /\ f[x] = c * g[x] + h[x]
      BY <3>1
    <3> DEFINE fu == F(U)
               au == A(U)
               bu == B(U)
    <3>9. fu \in Nat /\ au \in Nat /\ bu \in Nat /\ fu = c * au + bu
      BY <3>2
    <3>10. F(T) = f[x] + fu /\ A(T) = g[x] + au /\ B(T) = h[x] + bu
      BY <3>5, <3>6, <3>7
    <3> HIDE DEF F, A, B, U, fu, au, bu
    <3>11. c * (g[x] + au) = c * g[x] + c * au
      BY <3>8, <3>9
    <3>12. c * g[x] \in Nat /\ c * au \in Nat
      BY <3>8, <3>9
    <3>13. F(T) \in Nat /\ A(T) \in Nat /\ B(T) \in Nat
      BY <3>8, <3>9, <3>10
    <3>14. F(T) = c * A(T) + B(T)
      BY <3>8, <3>9, <3>10, <3>11, <3>12
    <3>15. QED
      BY <3>13, <3>14
  <2>3. QED
    BY <2>1, <2>2
<1>2. S \in G
  <2> HIDE DEF G
  <2>1. SUBSET S \subseteq G
    BY <1>1, SubsetInduction
  <2>2. QED
    BY <2>1
<1>3. QED
  BY <1>2

-----------------------------------------------------------------------------
(* Which bills the payments settle.                                        *)

(* Ordered by date and id, the rows of any ids have a first one.           *)
Dated(table, S) == S \in SUBSET Nat /\ \A a \in S : table[a].date \in Nat

LEMMA SoonerOrders ==
  ASSUME NEW table, NEW S, Dated(table, S), NEW a \in S, NEW b \in S
  PROVE  /\ Sooner(table, a, b) => a # b /\ ~Sooner(table, b, a)
         /\ a = b \/ Sooner(table, a, b) \/ Sooner(table, b, a)
         /\ \A c \in S : Sooner(table, a, b) /\ Sooner(table, b, c) => Sooner(table, a, c)
<1> DEFINE date(x) == table[x].date
<1>1. a \in Nat /\ b \in Nat /\ date(a) \in Nat /\ date(b) \in Nat
  BY DEF Dated
<1>2. \A x, y : Sooner(table, x, y) <=> date(x) < date(y) \/ (date(x) = date(y) /\ x < y)
  BY Zenon DEF Sooner
<1>3. ASSUME NEW c \in S PROVE c \in Nat /\ date(c) \in Nat
  BY DEF Dated
<1> HIDE DEF date
<1>4. /\ Sooner(table, a, b) => a # b /\ ~Sooner(table, b, a)
      /\ a = b \/ Sooner(table, a, b) \/ Sooner(table, b, a)
  BY <1>1, <1>2
<1>5. ASSUME NEW c \in S, Sooner(table, a, b), Sooner(table, b, c)
      PROVE  Sooner(table, a, c)
  BY <1>1, <1>2, <1>3, <1>5
<1>6. QED
  BY <1>4, <1>5

LEMMA FirstIsFirst ==
  ASSUME NEW table, NEW S, Dated(table, S), S # {}
  PROVE  /\ FirstIn(table, S) \in S
         /\ \A b \in S \ {FirstIn(table, S)} : Sooner(table, FirstIn(table, S), b)
<1> DEFINE dates == {table[a].date : a \in S}
           d == Min(dates)
           early == {a \in S : table[a].date = d}
           m == Min(early)
<1>1. dates \in SUBSET Nat /\ dates # {}
  BY DEF Dated
<1>2. d \in dates /\ \A n \in dates : d <= n
  BY <1>1, MinIsIn
<1>3. early \in SUBSET Nat /\ early # {}
  BY <1>2 DEF Dated
<1>4. m \in early /\ \A n \in early : m <= n
  BY <1>3, MinIsIn
<1>5. \A b \in S \ {m} : Sooner(table, m, b)
  <2> TAKE b \in S \ {m}
  <2>1. table[b].date \in Nat /\ table[m].date = d /\ d \in Nat /\ d <= table[b].date /\ m \in Nat /\ b \in Nat
    BY <1>1, <1>2, <1>4 DEF Dated
  <2>2. CASE table[b].date = d
    <3>1. m <= b
      BY <1>4, <2>2
    <3>2. QED
      BY <2>1, <2>2, <3>1 DEF Sooner
  <2>3. CASE table[b].date # d
    BY <2>1, <2>3 DEF Sooner
  <2>4. QED
    BY <2>2, <2>3
<1>6. QED
  <2>1. m \in S
    BY <1>4
  <2> HIDE DEF m
  <2>2. QED
    BY <1>5, <2>1 DEF FirstIn

-----------------------------------------------------------------------------
(* What derived payments add up to.                                        *)

Amounted(A) == IsFiniteSet(A) /\ \A a \in A : a.amountMinor \in Nat

LEMMA SumMoreAt ==
  ASSUME NEW S, NEW f, NEW g, Counts(f, S), Counts(g, S), NEW y \in S, NEW n \in Nat,
         f[y] = g[y] + n, \A x \in S \ {y} : f[x] = g[x]
  PROVE  /\ SumFunctionOnSet(f, S) \in Nat /\ SumFunctionOnSet(g, S) \in Nat
         /\ SumFunctionOnSet(f, S) = SumFunctionOnSet(g, S) + n
<1>1. Counts(f, S \ {y}) /\ Counts(g, S \ {y})
  BY FS_Subset DEF Counts
<1>2. SumFunctionOnSet(f, S \ {y}) = SumFunctionOnSet(g, S \ {y})
  BY <1>1, SumSame
<1>3. SumFunctionOnSet(f, S \ {y}) \in Nat /\ SumFunctionOnSet(g, S \ {y}) \in Nat
  BY <1>1, SumNat
<1>4. SumFunctionOnSet(f, S) = f[y] + SumFunctionOnSet(f, S \ {y})
      /\ SumFunctionOnSet(g, S) = g[y] + SumFunctionOnSet(g, S \ {y})
  BY SumRemove
<1>5. f[y] \in Nat /\ g[y] \in Nat
  BY DEF Counts
<1>6. QED
  BY <1>2, <1>3, <1>4, <1>5

LEMMA GivenCounts ==
  ASSUME NEW A, Amounted(A)
  PROVE  Counts([a \in A |-> a.amountMinor], A) /\ Given(A) \in Nat
<1>1. Counts([a \in A |-> a.amountMinor], A)
  BY DEF Amounted, Counts
<1>2. QED
  BY <1>1, SumNat DEF Given

LEMMA GivenNone ==
  Given({}) = 0
BY SumEmpty DEF Given

LEMMA GivenMore ==
  ASSUME NEW A, Amounted(A), NEW x, x \notin A, x.amountMinor \in Nat
  PROVE  /\ Amounted(A \cup {x}) /\ Given(A) \in Nat
         /\ Given(A \cup {x}) = Given(A) + x.amountMinor
<1> DEFINE B == A \cup {x}
           f == [a \in A |-> a.amountMinor]
           g == [a \in B |-> a.amountMinor]
<1>1. Amounted(B)
  BY FS_AddElement DEF Amounted
<1>2. Counts(f, A) /\ Counts(g, B) /\ Given(A) \in Nat
  BY <1>1, GivenCounts
<1>3. x \in B /\ B \ {x} = A
  OBVIOUS
<1>4. SumFunctionOnSet(g, B) = g[x] + SumFunctionOnSet(g, B \ {x})
  BY <1>2, <1>3, SumRemove
<1>5. SumFunctionOnSet(f, A) = SumFunctionOnSet(g, A)
  BY <1>2, SumSame
<1>6. g[x] = x.amountMinor
  BY <1>3
<1>7. Given(B) = Given(A) + x.amountMinor
  <2>1. Given(B) = SumFunctionOnSet(g, B) /\ Given(A) = SumFunctionOnSet(f, A)
    BY DEF Given
  <2>2. SumFunctionOnSet(g, B \ {x}) = SumFunctionOnSet(f, A)
    BY <1>3, <1>5
  <2>3. QED
    <3> HIDE DEF B, f, g
    <3>1. QED
      BY <1>2, <1>4, <1>6, <2>1, <2>2
<1>8. QED
  BY <1>1, <1>2, <1>7

(* Added up by what they are for, they add up to the same.                 *)
Sorted(A, K, key) == [k \in K |-> Given({a \in A : key[a] = k})]

LEMMA GivenSorted ==
  ASSUME NEW A, Amounted(A), NEW K, IsFiniteSet(K), NEW key, \A a \in A : key[a] \in K
  PROVE  SumFunctionOnSet(Sorted(A, K, key), K) = Given(A)
<1> DEFINE G == {T \in SUBSET A : SumFunctionOnSet(Sorted(T, K, key), K) = Given(T)}
<1>0. ASSUME NEW T \in SUBSET A PROVE Amounted(T) /\ Counts(Sorted(T, K, key), K)
  <2>1. Amounted(T)
    BY FS_Subset DEF Amounted
  <2>2. ASSUME NEW k \in K PROVE Sorted(T, K, key)[k] \in Nat
    <3>1. Amounted({a \in T : key[a] = k})
      BY <2>1, FS_Subset DEF Amounted
    <3>2. QED
      BY <3>1, GivenCounts DEF Sorted
  <2>3. QED
    BY <2>1, <2>2 DEF Counts
<1>1. ASSUME NEW T \in SUBSET A, \A x \in T : T \ {x} \in G PROVE T \in G
  <2>1. CASE T = {}
    <3>1. \A k \in K : Sorted(T, K, key)[k] = 0
      <4>1. \A k \in K : {a \in T : key[a] = k} = {}
        BY <2>1
      <4>2. QED
        BY <4>1, GivenNone DEF Sorted
    <3>2. SumFunctionOnSet(Sorted(T, K, key), K) = 0
      BY <1>0, <3>1, SumOfZeros
    <3>3. QED
      BY <2>1, <3>2, GivenNone
  <2>2. CASE T # {}
    <3>1. PICK x \in T : TRUE
      BY <2>2
    <3> DEFINE U == T \ {x}
               f == Sorted(T, K, key)
               g == Sorted(U, K, key)
    <3>2. x \notin U /\ U \cup {x} = T /\ U \in SUBSET A /\ U \in G /\ key[x] \in K /\ x.amountMinor \in Nat
      BY <1>1, <3>1 DEF Amounted
    <3>3. Counts(f, K) /\ Counts(g, K) /\ Amounted(U)
      BY <1>0, <3>2
    <3>4. \A k \in K \ {key[x]} : f[k] = g[k]
      <4>1. \A k \in K \ {key[x]} : {a \in T : key[a] = k} = {a \in U : key[a] = k}
        BY <3>2
      <4>2. QED
        BY <4>1 DEF Sorted
    <3>5. f[key[x]] = g[key[x]] + x.amountMinor
      <4> DEFINE V == {a \in U : key[a] = key[x]}
      <4>1. {a \in T : key[a] = key[x]} = V \cup {x}
        BY <3>2
      <4>2. Amounted(V) /\ x \notin V
        BY <3>2, <3>3, FS_Subset DEF Amounted
      <4>3. Given(V \cup {x}) = Given(V) + x.amountMinor
        BY <3>2, <4>2, GivenMore
      <4>4. QED
        BY <3>2, <4>1, <4>3 DEF Sorted
    <3>6. SumFunctionOnSet(f, K) = SumFunctionOnSet(g, K) + x.amountMinor
      <4> HIDE DEF f, g, U
      <4>1. QED
        BY <3>2, <3>3, <3>4, <3>5, SumMoreAt
    <3>7. Given(T) = Given(U) + x.amountMinor
      <4> HIDE DEF U
      <4>1. QED
        BY <3>2, <3>3, GivenMore
    <3>8. QED
      BY <3>2, <3>6, <3>7
  <2>3. QED
    BY <2>1, <2>2
<1>2. SUBSET A \subseteq G
  <2>1. IsFiniteSet(A)
    BY DEF Amounted
  <2> HIDE DEF G
  <2>2. QED
    BY <1>1, <2>1, SubsetInduction
<1>3. QED
  BY <1>2

-----------------------------------------------------------------------------
(* The invariant.  The derived payments are numbered and finitely many.    *)
Numbered == IsFiniteSet(allocs) /\ \A a \in allocs : a.sort < Cardinality(allocs)

(* What a bill has been paid and what is left of it are its total.         *)
BillsBalance == \A b \in OpenBills : Given(ToBill(b)) + remaining[b] = expenses[b].totalMinor

(* A payment that was taken is given out, unless its supplier has no bill  *)
(* left to pay.                                                            *)
PaysBalance ==
  /\ \A a \in allocs : /\ a.ledgerEntryId \notin waiting
                       /\ ledgerPays[a.ledgerEntryId].supplierId = expenses[a.expenseId].supplierId
  /\ \A p \in LedgerPays \ waiting : p # paying =>
       \/ Given(FromPay(p)) = Size(ledgerPays[p].amountMinor)
       \/ /\ Given(FromPay(p)) <= Size(ledgerPays[p].amountMinor)
          /\ \A b \in BillsOf(ledgerPays[p].supplierId) : remaining[b] = 0
  /\ paying # NoPay => Given(FromPay(paying)) + toGive = Size(ledgerPays[paying].amountMinor)

(* The payments are taken in their order, and so are the bills of the one  *)
(* being given out, which has paid those it has left behind.               *)
Progress ==
  /\ \A p \in LedgerPays \ waiting, q \in waiting : Sooner(ledgerPays, p, q)
  /\ paying # NoPay =>
       /\ paying \notin waiting
       /\ \A p \in LedgerPays \ waiting : p = paying \/ Sooner(ledgerPays, p, paying)
       /\ unseen \subseteq BillsOf(ledgerPays[paying].supplierId)
       /\ \A b \in BillsOf(ledgerPays[paying].supplierId) \ unseen :
            /\ toGive > 0 => remaining[b] = 0
            /\ \A c \in unseen : Sooner(expenses, b, c)
       /\ \A a \in FromPay(paying) : a.expenseId \notin unseen

GivenOnce ==
  \A a, c \in allocs : a.expenseId = c.expenseId /\ a.ledgerEntryId = c.ledgerEntryId => a = c

InOrder ==
  \A a \in allocs : \A b \in BillsOf(expenses[a.expenseId].supplierId) :
    Sooner(expenses, b, a.expenseId) =>
      /\ remaining[b] = 0
      /\ \A c \in ToBill(b) : c.ledgerEntryId = a.ledgerEntryId
                              \/ Sooner(ledgerPays, c.ledgerEntryId, a.ledgerEntryId)

FifoInv == FifoTypeOK /\ Numbered /\ BillsBalance /\ PaysBalance /\ Progress /\ GivenOnce /\ InOrder

LEMMA FifoFacts ==
  ASSUME FifoAssumption, FifoTypeOK, Numbered
  PROVE  /\ \A S \in SUBSET Bills : Dated(expenses, S) /\ IsFiniteSet(S)
         /\ \A S \in SUBSET LedgerPays : Dated(ledgerPays, S) /\ IsFiniteSet(S)
         /\ \A S \in SUBSET allocs : Amounted(S)
         /\ \A s : BillsOf(s) \in SUBSET Bills
         /\ NoPay \notin LedgerPays
<1>1. \A S \in SUBSET Bills : Dated(expenses, S) /\ IsFiniteSet(S)
  <2>1. \A b \in Bills : expenses[b].date \in Nat
    BY DEF FifoTypeOK, BillRow
  <2>2. QED
    BY <2>1, FS_Subset DEF Dated, FifoAssumption
<1>2. \A S \in SUBSET LedgerPays : Dated(ledgerPays, S) /\ IsFiniteSet(S)
  <2>1. \A p \in LedgerPays : ledgerPays[p].date \in Nat
    BY DEF FifoTypeOK, LedgerPay
  <2>2. QED
    BY <2>1, FS_Subset DEF Dated, FifoAssumption
<1>3. \A S \in SUBSET allocs : Amounted(S)
  <2>1. \A a \in allocs : a.amountMinor \in Nat
    BY DEF FifoTypeOK
  <2>2. QED
    BY <2>1, FS_Subset DEF Numbered, Amounted
<1>4. \A s : BillsOf(s) \in SUBSET Bills
  BY DEF BillsOf, OpenBills
<1>5. NoPay \notin LedgerPays
  BY DEF NoPay, FifoAssumption
<1>6. QED
  BY <1>1, <1>2, <1>3, <1>4, <1>5

LEMMA FifoInitInv ==
  ASSUME FifoAssumption, FifoInit
  PROVE  FifoInv
<1>1. FifoTypeOK
  <2>1. expenses \in [Bills -> BillRow] /\ ledgerPays \in [LedgerPays -> LedgerPay]
    BY DEF FifoInit, FifoAssumption
  <2>2. \A b \in OpenBills : expenses[b].totalMinor \in Nat
    BY <2>1 DEF OpenBills, BillRow
  <2>3. QED
    BY <2>1, <2>2 DEF FifoInit, FifoTypeOK, NoPay
<1>2. Numbered
  BY FS_EmptySet DEF FifoInit, Numbered
<1>3. BillsBalance
  <2>1. ASSUME NEW b \in OpenBills PROVE Given(ToBill(b)) + remaining[b] = expenses[b].totalMinor
    <3>1. ToBill(b) = {} /\ remaining[b] = expenses[b].totalMinor /\ remaining[b] \in Nat
      BY <1>1 DEF FifoInit, ToBill, FifoTypeOK
    <3>2. QED
      BY <3>1, GivenNone
  <2>2. QED
    BY <2>1 DEF BillsBalance
<1>4. PaysBalance /\ Progress /\ GivenOnce /\ InOrder
  BY DEF FifoInit, PaysBalance, Progress, GivenOnce, InOrder
<1>5. QED
  BY <1>1, <1>2, <1>3, <1>4 DEF FifoInv

LEMMA NextPayInv ==
  ASSUME FifoAssumption, FifoInv, NextPay
  PROVE  FifoInv'
<1> DEFINE p == FirstIn(ledgerPays, waiting)
           s == ledgerPays[p].supplierId
<1>0. /\ FifoTypeOK /\ Numbered /\ BillsBalance /\ PaysBalance /\ Progress /\ GivenOnce /\ InOrder
      /\ paying = NoPay /\ waiting' = waiting \ {p}
      /\ expenses' = expenses /\ ledgerPays' = ledgerPays /\ remaining' = remaining /\ allocs' = allocs
  BY DEF FifoInv, NextPay
<1>1. /\ p \in waiting /\ p \in LedgerPays /\ p # NoPay
      /\ \A q \in waiting \ {p} : Sooner(ledgerPays, p, q)
  <2>1. waiting \in SUBSET LedgerPays /\ waiting # {}
    BY <1>0 DEF FifoTypeOK, NextPay
  <2>2. Dated(ledgerPays, waiting) /\ NoPay \notin LedgerPays
    BY <1>0, <2>1, FifoFacts
  <2>3. QED
    BY <2>1, <2>2, FirstIsFirst
<1>2. \/ ledgerPays[p].amountMinor = 0 /\ paying' = paying /\ toGive' = toGive /\ unseen' = unseen
      \/ /\ ledgerPays[p].amountMinor # 0 /\ paying' = p
         /\ toGive' = Size(ledgerPays[p].amountMinor) /\ unseen' = BillsOf(s)
  BY DEF NextPay
<1>3. ledgerPays[p].amountMinor \in Int /\ s \in Suppliers
  BY <1>0, <1>1 DEF FifoTypeOK, LedgerPay
<1>4. OpenBills' = OpenBills /\ (\A t : BillsOf(t)' = BillsOf(t)) /\ (\A b : ToBill(b)' = ToBill(b))
      /\ (\A q : FromPay(q)' = FromPay(q))
  BY <1>0 DEF OpenBills, BillsOf, ToBill, FromPay
<1>5. FromPay(p) = {}
  BY <1>0, <1>1 DEF PaysBalance, FromPay
<1>6. Size(ledgerPays[p].amountMinor) \in Nat
  BY <1>3 DEF Size
<1>7. BillsOf(s) \subseteq OpenBills
  BY DEF BillsOf
<1> HIDE DEF p, s
<1>8. FifoTypeOK'
  BY <1>0, <1>1, <1>2, <1>4, <1>6, <1>7 DEF FifoTypeOK
<1>9. Numbered' /\ BillsBalance' /\ GivenOnce' /\ InOrder'
  BY <1>0, <1>4 DEF Numbered, BillsBalance, GivenOnce, InOrder, Sooner
<1>10. PaysBalance'
  <2>1. \A a \in allocs : a.ledgerEntryId \notin waiting'
                          /\ ledgerPays[a.ledgerEntryId].supplierId = expenses[a.expenseId].supplierId
    BY <1>0 DEF PaysBalance
  <2>2. ASSUME NEW q \in LedgerPays \ waiting', q # paying'
        PROVE  \/ Given(FromPay(q)) = Size(ledgerPays[q].amountMinor)
               \/ /\ Given(FromPay(q)) <= Size(ledgerPays[q].amountMinor)
                  /\ \A b \in BillsOf(ledgerPays[q].supplierId) : remaining[b] = 0
    <3>1. CASE q = p
      <4>1. ledgerPays[p].amountMinor = 0
        BY <1>2, <2>2, <3>1
      <4>2. QED
        BY <1>5, <3>1, <4>1, GivenNone DEF Size
    <3>2. CASE q # p
      <4>1. q \in LedgerPays \ waiting /\ q # paying
        BY <1>0, <1>1, <2>2, <3>2, FifoFacts
      <4>2. QED
        BY <1>0, <4>1 DEF PaysBalance
    <3>3. QED
      BY <3>1, <3>2
  <2>3. paying' # NoPay => Given(FromPay(paying')) + toGive' = Size(ledgerPays[paying'].amountMinor)
    BY <1>0, <1>2, <1>5, <1>6, GivenNone
  <2>4. QED
    BY <1>0, <1>4, <2>1, <2>2, <2>3 DEF PaysBalance
<1>11. Progress'
  <2>1. \A q \in LedgerPays \ waiting', r \in waiting' : Sooner(ledgerPays, q, r)
    BY <1>0, <1>1 DEF Progress
  <2>2. ASSUME paying' # NoPay
        PROVE  /\ paying' \notin waiting'
               /\ \A q \in LedgerPays \ waiting' : q = paying' \/ Sooner(ledgerPays, q, paying')
               /\ unseen' \subseteq BillsOf(ledgerPays[paying'].supplierId)
               /\ BillsOf(ledgerPays[paying'].supplierId) \ unseen' = {}
               /\ FromPay(paying') = {}
    <3>1. paying' = p /\ unseen' = BillsOf(s)
      BY <1>0, <1>2, <2>2
    <3>2. \A q \in LedgerPays \ waiting' : q = p \/ Sooner(ledgerPays, q, p)
      BY <1>0, <1>1 DEF Progress
    <3>3. QED
      BY <1>0, <1>5, <3>1, <3>2 DEF s
  <2>3. Progress' <=>
          /\ \A q \in LedgerPays \ waiting', r \in waiting' : Sooner(ledgerPays, q, r)
          /\ paying' # NoPay =>
               /\ paying' \notin waiting'
               /\ \A q \in LedgerPays \ waiting' : q = paying' \/ Sooner(ledgerPays, q, paying')
               /\ unseen' \subseteq BillsOf(ledgerPays[paying'].supplierId)
               /\ \A b \in BillsOf(ledgerPays[paying'].supplierId) \ unseen' :
                    /\ toGive' > 0 => remaining[b] = 0
                    /\ \A c \in unseen' : Sooner(expenses, b, c)
               /\ \A a \in FromPay(paying') : a.expenseId \notin unseen'
    BY <1>0, <1>4 DEF Progress, Sooner
  <2>4. QED
    BY <2>1, <2>2, <2>3
<1>12. QED
  BY <1>8, <1>9, <1>10, <1>11 DEF FifoInv

LEMMA EndPayInv ==
  ASSUME FifoAssumption, FifoInv, EndPay
  PROVE  FifoInv'
<1>0. /\ FifoTypeOK /\ Numbered /\ BillsBalance /\ PaysBalance /\ Progress /\ GivenOnce /\ InOrder
      /\ paying # NoPay /\ paying' = NoPay /\ toGive' = 0 /\ unseen' = {} /\ waiting' = waiting
      /\ (toGive <= 0 \/ unseen = {})
      /\ expenses' = expenses /\ ledgerPays' = ledgerPays /\ remaining' = remaining /\ allocs' = allocs
  BY DEF FifoInv, EndPay
<1>1. OpenBills' = OpenBills /\ (\A t : BillsOf(t)' = BillsOf(t)) /\ (\A b : ToBill(b)' = ToBill(b))
      /\ (\A q : FromPay(q)' = FromPay(q))
  BY <1>0 DEF OpenBills, BillsOf, ToBill, FromPay
<1>2. FifoTypeOK'
  BY <1>0, <1>1 DEF FifoTypeOK
<1>3. Numbered' /\ BillsBalance' /\ GivenOnce' /\ InOrder'
  BY <1>0, <1>1 DEF Numbered, BillsBalance, GivenOnce, InOrder, Sooner
<1>4. PaysBalance'
  <2>1. \/ Given(FromPay(paying)) = Size(ledgerPays[paying].amountMinor)
        \/ /\ Given(FromPay(paying)) <= Size(ledgerPays[paying].amountMinor)
           /\ \A b \in BillsOf(ledgerPays[paying].supplierId) : remaining[b] = 0
    <3>1. Given(FromPay(paying)) \in Nat
      <4>1. Amounted(FromPay(paying))
        BY <1>0, FifoFacts DEF FromPay
      <4>2. QED
        BY <4>1, GivenCounts
    <3>2. toGive \in Nat /\ Given(FromPay(paying)) + toGive = Size(ledgerPays[paying].amountMinor)
      BY <1>0 DEF FifoTypeOK, PaysBalance
    <3>3. CASE toGive = 0
      BY <3>1, <3>2, <3>3
    <3>4. CASE toGive > 0
      <4>1. unseen = {}
        BY <1>0, <3>2, <3>4
      <4>2. \A b \in BillsOf(ledgerPays[paying].supplierId) : remaining[b] = 0
        BY <1>0, <3>4, <4>1 DEF Progress
      <4>3. QED
        BY <3>1, <3>2, <4>2
    <3>5. QED
      BY <3>2, <3>3, <3>4
  <2>2. QED
    BY <1>0, <1>1, <2>1 DEF PaysBalance
<1>5. Progress'
  BY <1>0 DEF Progress, Sooner
<1>6. QED
  BY <1>2, <1>3, <1>4, <1>5 DEF FifoInv

LEMMA NextBillInv ==
  ASSUME FifoAssumption, FifoInv, NextBill
  PROVE  FifoInv'
<1>a. PICK b : b = FirstIn(expenses, unseen)
  OBVIOUS
<1>b. PICK r : r = paying
  OBVIOUS
<1> DEFINE s == ledgerPays[paying].supplierId
           take == Lesser(toGive, remaining[b])
           new == [expenseId |-> b, ledgerEntryId |-> paying, amountMinor |-> take, sort |-> Cardinality(allocs)]
<1>0. /\ FifoTypeOK /\ Numbered /\ BillsBalance /\ PaysBalance /\ Progress /\ GivenOnce /\ InOrder
      /\ paying # NoPay /\ toGive > 0 /\ unseen' = unseen \ {b}
      /\ expenses' = expenses /\ ledgerPays' = ledgerPays /\ waiting' = waiting /\ paying' = paying
  BY <1>a DEF FifoInv, NextBill
<1>1. \/ remaining[b] <= 0 /\ remaining' = remaining /\ toGive' = toGive /\ allocs' = allocs
      \/ /\ remaining[b] > 0 /\ remaining' = [remaining EXCEPT ![b] = @ - take] /\ toGive' = toGive - take
         /\ allocs' = allocs \cup {new}
  BY <1>a DEF NextBill
<1>2. /\ b \in unseen /\ b \in BillsOf(s) /\ b \in OpenBills /\ b \in Bills /\ expenses[b].supplierId = s
      /\ \A c \in unseen \ {b} : Sooner(expenses, b, c)
  <2>1. unseen \subseteq BillsOf(s) /\ unseen # {}
    BY <1>0 DEF Progress, NextBill
  <2>2. Dated(expenses, unseen)
    BY <1>0, <2>1, FifoFacts
  <2>3. b \in unseen /\ \A c \in unseen \ {b} : Sooner(expenses, b, c)
    BY <1>a, <2>1, <2>2, FirstIsFirst
  <2>4. QED
    BY <2>1, <2>3 DEF BillsOf, OpenBills
<1>3. OpenBills' = OpenBills /\ (\A t : BillsOf(t)' = BillsOf(t))
  BY <1>0 DEF OpenBills, BillsOf
<1>4. paying \in LedgerPays /\ paying \notin waiting /\ toGive \in Nat \ {0} /\ remaining[b] \in Nat
  BY <1>0, <1>2 DEF FifoTypeOK, Progress
<1>5. \A c \in BillsOf(s) \ unseen : remaining[c] = 0 /\ Sooner(expenses, c, b)
  BY <1>0, <1>2 DEF Progress
<1>6. \A c \in BillsOf(s) : Sooner(expenses, c, b) => c \notin unseen
  <2> SUFFICES ASSUME NEW c \in BillsOf(s), Sooner(expenses, c, b), c \in unseen PROVE FALSE
    OBVIOUS
  <2>1. Dated(expenses, BillsOf(s))
    BY <1>0, FifoFacts
  <2>2. c # b /\ ~Sooner(expenses, b, c)
    BY <1>2, <2>1, SoonerOrders
  <2>3. QED
    BY <1>2, <2>2
<1>7. CASE remaining[b] <= 0
  <2>1. remaining[b] = 0 /\ remaining' = remaining /\ toGive' = toGive /\ allocs' = allocs
    BY <1>1, <1>4, <1>7
  <2>2. (\A c : ToBill(c)' = ToBill(c)) /\ (\A q : FromPay(q)' = FromPay(q))
    BY <2>1 DEF ToBill, FromPay
  <2>3. FifoTypeOK'
    BY <1>0, <1>3, <2>1 DEF FifoTypeOK
  <2>4. Numbered' /\ BillsBalance' /\ GivenOnce' /\ InOrder' /\ PaysBalance'
    BY <1>0, <1>3, <2>1, <2>2 DEF Numbered, BillsBalance, GivenOnce, InOrder, PaysBalance, Sooner
  <2>5. Progress'
    <3>1. \A p \in LedgerPays \ waiting', q \in waiting' : Sooner(ledgerPays, p, q)
      BY <1>0 DEF Progress
    <3>2. \A p \in LedgerPays \ waiting' : p = paying \/ Sooner(ledgerPays, p, paying)
      BY <1>0 DEF Progress
    <3>3. \A c \in BillsOf(s) \ unseen' : remaining[c] = 0 /\ \A d \in unseen' : Sooner(expenses, c, d)
      BY <1>0, <1>2, <1>5, <2>1 DEF Progress
    <3>4. unseen' \subseteq BillsOf(s) /\ \A a \in FromPay(paying) : a.expenseId \notin unseen'
      BY <1>0 DEF Progress
    <3>5. QED
      BY <1>0, <1>3, <1>4, <2>1, <2>2, <3>1, <3>2, <3>3, <3>4 DEF Progress, Sooner
  <2>6. QED
    BY <2>3, <2>4, <2>5 DEF FifoInv
<1>8. CASE remaining[b] > 0
  <2>1. /\ remaining' = [remaining EXCEPT ![b] = @ - take] /\ toGive' = toGive - take /\ allocs' = allocs \cup {new}
    BY <1>1, <1>4, <1>8
  <2>2. /\ take \in Nat \ {0} /\ toGive - take \in Nat /\ remaining[b] - take \in Nat
        /\ take = toGive \/ take = remaining[b]
    BY <1>4, <1>8 DEF Lesser
  <2>3. IsFiniteSet(allocs) /\ Cardinality(allocs) \in Nat
    BY <1>0, FS_CardinalityType DEF Numbered
  <2>4. new \notin allocs
    BY <1>0, <2>3 DEF Numbered
  <2>5. /\ new.expenseId = b /\ new.ledgerEntryId = paying /\ new.amountMinor = take
        /\ new.sort = Cardinality(allocs)
        /\ new \in [expenseId : OpenBills, ledgerEntryId : LedgerPays, amountMinor : Nat \ {0}, sort : Nat]
    BY <1>2, <1>4, <2>2, <2>3
  <2>6. remaining \in [OpenBills -> Nat] /\ remaining' \in [OpenBills -> Nat]
        /\ remaining'[b] = remaining[b] - take /\ \A c \in OpenBills \ {b} : remaining'[c] = remaining[c]
    <3>1. remaining \in [OpenBills -> Nat]
      BY <1>0 DEF FifoTypeOK
    <3> HIDE DEF take
    <3>2. QED
      BY <1>2, <2>1, <2>2, <3>1
  <2> HIDE DEF new, take
  <2>7. /\ ToBill(b)' = ToBill(b) \cup {new} /\ (\A c : c # b => ToBill(c)' = ToBill(c))
        /\ FromPay(r)' = FromPay(r) \cup {new} /\ (\A q : q # r => FromPay(q)' = FromPay(q))
    BY <1>b, <2>1, <2>5 DEF ToBill, FromPay
  <2>8. new \notin ToBill(b) /\ new \notin FromPay(r) /\ Amounted(ToBill(b)) /\ Amounted(FromPay(r))
    <3>1. ToBill(b) \in SUBSET allocs /\ FromPay(r) \in SUBSET allocs
      BY DEF ToBill, FromPay
    <3>2. QED
      BY <1>0, <2>4, <3>1, FifoFacts
  <2>9. /\ Given(ToBill(b)') = Given(ToBill(b)) + take /\ Given(ToBill(b)) \in Nat
        /\ Given(FromPay(r)') = Given(FromPay(r)) + take /\ Given(FromPay(r)) \in Nat
    BY <2>2, <2>5, <2>7, <2>8, GivenMore
  <2>10. FifoTypeOK'
    <3>1. allocs' \subseteq [expenseId : OpenBills, ledgerEntryId : LedgerPays, amountMinor : Nat \ {0}, sort : Nat]
      BY <1>0, <2>1, <2>5 DEF FifoTypeOK
    <3>2. unseen' \subseteq OpenBills /\ toGive' \in Nat
      BY <1>0, <2>1, <2>2 DEF FifoTypeOK
    <3>3. QED
      BY <1>0, <1>3, <2>6, <3>1, <3>2 DEF FifoTypeOK
  <2>11. Numbered'
    <3>1. IsFiniteSet(allocs') /\ Cardinality(allocs') = Cardinality(allocs) + 1
      BY <2>1, <2>3, <2>4, FS_AddElement
    <3>2. ASSUME NEW a \in allocs' PROVE a.sort < Cardinality(allocs')
      <4>1. CASE a \in allocs
        <5>1. a.sort < Cardinality(allocs) /\ a.sort \in Nat
          BY <1>0, <4>1 DEF Numbered, FifoTypeOK
        <5>2. QED
          BY <2>3, <3>1, <5>1
      <4>2. CASE a = new
        BY <2>3, <2>5, <3>1, <4>2
      <4>3. QED
        BY <2>1, <4>1, <4>2
    <3>3. QED
      BY <3>1, <3>2 DEF Numbered
  <2>12. BillsBalance'
    <3>1. ASSUME NEW c \in OpenBills
          PROVE  Given(ToBill(c)') + remaining'[c] = expenses[c].totalMinor
      <4>1. Given(ToBill(c)) + remaining[c] = expenses[c].totalMinor
        BY <1>0 DEF BillsBalance
      <4>2. CASE c = b
        BY <1>4, <2>2, <2>6, <2>9, <4>1, <4>2
      <4>3. CASE c # b
        BY <2>6, <2>7, <4>1, <4>3
      <4>4. QED
        BY <4>2, <4>3
    <3>2. QED
      BY <1>0, <1>3, <3>1 DEF BillsBalance
  <2>13. PaysBalance'
    <3>1. \A a \in allocs' : a.ledgerEntryId \notin waiting
            /\ ledgerPays[a.ledgerEntryId].supplierId = expenses[a.expenseId].supplierId
      BY <1>0, <1>2, <1>4, <2>1, <2>5 DEF PaysBalance
    <3>2. ASSUME NEW q \in LedgerPays \ waiting, q # paying
          PROVE  \/ Given(FromPay(q)') = Size(ledgerPays[q].amountMinor)
                 \/ /\ Given(FromPay(q)') <= Size(ledgerPays[q].amountMinor)
                    /\ \A c \in BillsOf(ledgerPays[q].supplierId) : remaining'[c] = 0
      <4>1. FromPay(q)' = FromPay(q)
        BY <1>b, <2>7, <3>2
      <4>2. CASE Given(FromPay(q)) = Size(ledgerPays[q].amountMinor)
        BY <4>1, <4>2
      <4>3. CASE /\ Given(FromPay(q)) <= Size(ledgerPays[q].amountMinor)
                 /\ \A c \in BillsOf(ledgerPays[q].supplierId) : remaining[c] = 0
        <5>1. b \notin BillsOf(ledgerPays[q].supplierId)
          BY <1>8, <4>3
        <5>2. \A c \in BillsOf(ledgerPays[q].supplierId) : remaining'[c] = 0
          BY <2>6, <4>3, <5>1 DEF BillsOf
        <5>3. QED
          BY <4>1, <4>3, <5>2
      <4>4. QED
        BY <1>0, <3>2, <4>2, <4>3 DEF PaysBalance
    <3>3. Given(FromPay(r)') + toGive' = Size(ledgerPays[paying].amountMinor)
      <4>1. Given(FromPay(r)) + toGive = Size(ledgerPays[paying].amountMinor)
        BY <1>0, <1>b DEF PaysBalance
      <4>2. QED
        BY <1>4, <2>1, <2>2, <2>9, <4>1
    <3>4. QED
      BY <1>0, <1>b, <1>3, <3>1, <3>2, <3>3 DEF PaysBalance
  <2>14. Progress'
    <3>1. \A p \in LedgerPays \ waiting', q \in waiting' : Sooner(ledgerPays, p, q)
      BY <1>0 DEF Progress
    <3>2. \A p \in LedgerPays \ waiting' : p = paying \/ Sooner(ledgerPays, p, paying)
      BY <1>0 DEF Progress
    <3>3. \A c \in BillsOf(s) \ unseen' :
            (toGive' > 0 => remaining'[c] = 0) /\ \A d \in unseen' : Sooner(expenses, c, d)
      <4> TAKE c \in BillsOf(s) \ unseen'
      <4>1. CASE c = b
        <5>1. toGive' > 0 => take = remaining[b]
          BY <1>4, <2>1, <2>2
        <5>2. QED
          BY <1>0, <1>2, <1>4, <2>6, <4>1, <5>1
      <4>2. CASE c # b
        <5>1. c \in BillsOf(s) \ unseen /\ c \in OpenBills
          BY <1>0, <4>2 DEF BillsOf
        <5>2. remaining[c] = 0
          BY <1>5, <5>1
        <5>3. \A d \in unseen' : Sooner(expenses, c, d)
          BY <1>0, <5>1 DEF Progress
        <5>4. QED
          BY <2>6, <4>2, <5>1, <5>2, <5>3
      <4>3. QED
        BY <4>1, <4>2
    <3>4. unseen' \subseteq BillsOf(s) /\ \A a \in FromPay(r)' : a.expenseId \notin unseen'
      BY <1>0, <1>b, <2>5, <2>7 DEF Progress
    <3>5. QED
      BY <1>0, <1>b, <1>3, <1>4, <3>1, <3>2, <3>3, <3>4 DEF Progress, Sooner
  <2>15. GivenOnce'
    <3>1. ASSUME NEW a \in allocs, a.expenseId = b, a.ledgerEntryId = paying PROVE FALSE
      <4>1. a \in FromPay(r)
        BY <1>b, <3>1 DEF FromPay
      <4>2. QED
        BY <1>0, <1>b, <1>2, <3>1, <4>1 DEF Progress
    <3>2. QED
      BY <1>0, <2>1, <2>5, <3>1 DEF GivenOnce
  <2>16. InOrder'
    <3>1. ASSUME NEW a \in allocs', NEW c \in BillsOf(expenses[a.expenseId].supplierId),
                 Sooner(expenses, c, a.expenseId)
          PROVE  /\ remaining'[c] = 0
                 /\ \A d \in ToBill(c)' : d.ledgerEntryId = a.ledgerEntryId
                                          \/ Sooner(ledgerPays, d.ledgerEntryId, a.ledgerEntryId)
      <4>0. c \in OpenBills
        BY DEF BillsOf
      <4>1. CASE a \in allocs
        <5>1. /\ remaining[c] = 0
              /\ \A d \in ToBill(c) : d.ledgerEntryId = a.ledgerEntryId
                                      \/ Sooner(ledgerPays, d.ledgerEntryId, a.ledgerEntryId)
          BY <1>0, <3>1, <4>1 DEF InOrder
        <5>2. c # b
          BY <1>8, <5>1
        <5>3. QED
          BY <2>6, <2>7, <4>0, <5>1, <5>2
      <4>2. CASE a = new
        <5>1. c \in BillsOf(s) /\ Sooner(expenses, c, b)
          BY <1>2, <2>5, <3>1, <4>2
        <5>2. c \notin unseen /\ c # b
          BY <1>2, <1>6, <5>1
        <5>3. remaining'[c] = 0 /\ ToBill(c)' = ToBill(c)
          BY <1>5, <2>6, <2>7, <4>0, <5>1, <5>2
        <5>4. ASSUME NEW d \in ToBill(c)
              PROVE  d.ledgerEntryId = paying \/ Sooner(ledgerPays, d.ledgerEntryId, paying)
          <6>1. d.ledgerEntryId \in LedgerPays \ waiting
            BY <1>0 DEF ToBill, PaysBalance, FifoTypeOK
          <6>2. QED
            BY <1>0, <6>1 DEF Progress
        <5>5. QED
          BY <2>5, <4>2, <5>3, <5>4
      <4>3. QED
        BY <2>1, <4>1, <4>2
    <3>2. QED
      BY <1>0, <1>3, <3>1 DEF InOrder, Sooner
  <2>17. QED
    BY <2>10, <2>11, <2>12, <2>13, <2>14, <2>15, <2>16 DEF FifoInv
<1>9. QED
  BY <1>4, <1>7, <1>8

LEMMA FifoStep ==
  ASSUME FifoAssumption, FifoInv, [FifoNext]_fifoVars
  PROVE  FifoInv'
<1>1. CASE NextPay
  BY <1>1, NextPayInv
<1>2. CASE NextBill
  BY <1>2, NextBillInv
<1>3. CASE EndPay
  BY <1>3, EndPayInv
<1>4. CASE UNCHANGED fifoVars
  <2>1. OpenBills' = OpenBills /\ (\A s : BillsOf(s)' = BillsOf(s)) /\ (\A b : ToBill(b)' = ToBill(b))
        /\ (\A p : FromPay(p)' = FromPay(p))
    BY <1>4 DEF OpenBills, BillsOf, ToBill, FromPay, fifoVars
  <2>2. FifoTypeOK' /\ Numbered'
    BY <1>4, <2>1 DEF FifoInv, FifoTypeOK, Numbered, fifoVars
  <2>3. BillsBalance' /\ PaysBalance'
    BY <1>4, <2>1 DEF FifoInv, BillsBalance, PaysBalance, fifoVars
  <2>4. Progress' /\ GivenOnce' /\ InOrder'
    BY <1>4, <2>1 DEF FifoInv, Progress, GivenOnce, InOrder, Sooner, fifoVars
  <2>5. QED
    BY <2>2, <2>3, <2>4 DEF FifoInv
<1>5. QED
  BY <1>1, <1>2, <1>3, <1>4 DEF FifoNext

(* The allocation keeps its types and its books (FifoInv), for any bills,  *)
(* payments, dates and amounts: allocateLedgerPaymentsFifo.                *)
THEOREM FifoConsistent ==
  ASSUME FifoAssumption
  PROVE  FifoSpec => []FifoInv
<1>1. FifoInit => FifoInv
  BY FifoInitInv
<1>2. FifoInv /\ [FifoNext]_fifoVars => FifoInv'
  BY FifoStep
<1>3. QED
  BY <1>1, <1>2, PTL DEF FifoSpec

(* What the rows have been given, as numbers.                              *)
LEMMA GivenFacts ==
  ASSUME FifoAssumption, FifoInv
  PROVE  /\ \A b \in Bills : Given(ToBill(b)) \in Nat /\ Billed(b) \in Nat
                             /\ (b \notin OpenBills => Given(ToBill(b)) = 0)
         /\ \A b \in OpenBills : remaining[b] \in Nat /\ Billed(b) = expenses[b].totalMinor
                                 /\ Given(ToBill(b)) + remaining[b] = Billed(b)
         /\ \A p \in LedgerPays : Given(FromPay(p)) \in Nat /\ Size(ledgerPays[p].amountMinor) \in Nat
                                  /\ Given(FromPay(p)) <= Size(ledgerPays[p].amountMinor)
<1>0. FifoTypeOK /\ Numbered /\ BillsBalance /\ PaysBalance
  BY DEF FifoInv
<1>1. \A S \in SUBSET allocs : Given(S) \in Nat
  BY <1>0, FifoFacts, GivenCounts
<1>2. (\A b : ToBill(b) \in SUBSET allocs) /\ (\A p : FromPay(p) \in SUBSET allocs)
  BY DEF ToBill, FromPay
<1>3. ASSUME NEW b \in Bills
      PROVE  Given(ToBill(b)) \in Nat /\ Billed(b) \in Nat /\ (b \notin OpenBills => Given(ToBill(b)) = 0)
  <2>1. Given(ToBill(b)) \in Nat
    BY <1>1, <1>2
  <2>2. Billed(b) \in Nat
    <3>1. expenses[b].totalMinor \in Int
      BY <1>0 DEF FifoTypeOK, BillRow
    <3>2. QED
      BY <3>1 DEF Billed
  <2>3. ASSUME b \notin OpenBills PROVE Given(ToBill(b)) = 0
    <3>1. ToBill(b) = {}
      BY <1>0, <2>3 DEF ToBill, FifoTypeOK
    <3>2. QED
      BY <3>1, GivenNone
  <2>4. QED
    BY <2>1, <2>2, <2>3
<1>4. \A b \in OpenBills : remaining[b] \in Nat /\ Billed(b) = expenses[b].totalMinor
                           /\ Given(ToBill(b)) + remaining[b] = Billed(b)
  BY <1>0 DEF FifoTypeOK, BillsBalance, Billed, OpenBills
<1>5. ASSUME NEW p \in LedgerPays
      PROVE  Given(FromPay(p)) \in Nat /\ Size(ledgerPays[p].amountMinor) \in Nat
             /\ Given(FromPay(p)) <= Size(ledgerPays[p].amountMinor)
  <2>1. Given(FromPay(p)) \in Nat
    BY <1>1, <1>2
  <2>2. Size(ledgerPays[p].amountMinor) \in Nat
    <3>1. ledgerPays[p].amountMinor \in Int
      BY <1>0 DEF FifoTypeOK, LedgerPay
    <3>2. QED
      BY <3>1 DEF Size
  <2>3. CASE p \in waiting
    <3>1. FromPay(p) = {}
      BY <1>0, <2>3 DEF FromPay, PaysBalance
    <3>2. QED
      BY <2>1, <2>2, <3>1, GivenNone
  <2>4. CASE p \notin waiting /\ p # paying
    BY <1>0, <2>1, <2>2, <2>4 DEF PaysBalance
  <2>5. CASE p = paying
    <3>1. toGive \in Nat /\ p # NoPay
      BY <1>0, FifoFacts DEF FifoTypeOK
    <3>2. Given(FromPay(p)) + toGive = Size(ledgerPays[p].amountMinor)
      BY <1>0, <2>5, <3>1 DEF PaysBalance
    <3>3. QED
      BY <2>1, <2>2, <3>1, <3>2
  <2>6. QED
    BY <2>3, <2>4, <2>5
<1>6. QED
  BY <1>3, <1>4, <1>5

(* No payment is given out for more than it is, no bill is paid more than  *)
(* it is of, and the two never meet twice.                                 *)
THEOREM PaymentsGivenOnce ==
  ASSUME FifoAssumption
  PROVE  FifoSpec => []NothingGivenTwice
<1>1. ASSUME FifoInv PROVE NothingGivenTwice
  <2>1. \A b \in Bills : Given(ToBill(b)) <= Billed(b)
    <3> TAKE b \in Bills
    <3>1. CASE b \in OpenBills
      BY <1>1, <3>1, GivenFacts
    <3>2. CASE b \notin OpenBills
      BY <1>1, <3>2, GivenFacts
    <3>3. QED
      BY <3>1, <3>2
  <2>2. QED
    BY <1>1, <2>1, GivenFacts DEF NothingGivenTwice, FifoInv, GivenOnce
<1>2. QED
  BY <1>1, FifoConsistent, PTL

(* A bill is paid only when all sooner ones of its supplier are settled,   *)
(* by payments that are no later than its own.                             *)
THEOREM OldestBillsPaidFirst ==
  ASSUME FifoAssumption
  PROVE  FifoSpec => []OldestBillsFirst
<1>1. ASSUME FifoInv PROVE OldestBillsFirst
  <2>1. ASSUME NEW a \in allocs, NEW b \in BillsOf(expenses[a.expenseId].supplierId), Sooner(expenses, b, a.expenseId)
        PROVE  /\ Given(ToBill(b)) = expenses[b].totalMinor
               /\ \A c \in ToBill(b) : c.ledgerEntryId = a.ledgerEntryId
                                       \/ Sooner(ledgerPays, c.ledgerEntryId, a.ledgerEntryId)
    <3>1. b \in OpenBills /\ b \in Bills
      BY DEF BillsOf, OpenBills
    <3>2. remaining[b] = 0 /\ \A c \in ToBill(b) : c.ledgerEntryId = a.ledgerEntryId
                                       \/ Sooner(ledgerPays, c.ledgerEntryId, a.ledgerEntryId)
      BY <1>1, <2>1 DEF FifoInv, InOrder
    <3>3. Given(ToBill(b)) \in Nat /\ Given(ToBill(b)) + remaining[b] = expenses[b].totalMinor
      BY <1>1, <3>1, GivenFacts
    <3>4. QED
      BY <3>2, <3>3
  <2>2. QED
    BY <2>1 DEF OldestBillsFirst
<1>2. QED
  BY <1>1, FifoConsistent, PTL

LEMMA SumAdds ==
  ASSUME NEW S, IsFiniteSet(S), NEW f, NEW g, NEW h,
         \A x \in S : f[x] \in Nat /\ g[x] \in Nat /\ h[x] \in Nat /\ f[x] = g[x] + h[x]
  PROVE  /\ SumFunctionOnSet(f, S) \in Nat /\ SumFunctionOnSet(g, S) \in Nat /\ SumFunctionOnSet(h, S) \in Nat
         /\ SumFunctionOnSet(f, S) = SumFunctionOnSet(g, S) + SumFunctionOnSet(h, S)
<1>1. \A x \in S : f[x] \in Nat /\ g[x] \in Nat /\ h[x] \in Nat /\ f[x] = 1 * g[x] + h[x]
  OBVIOUS
<1>2. 1 \in Nat
  OBVIOUS
<1>3. /\ SumFunctionOnSet(f, S) \in Nat /\ SumFunctionOnSet(g, S) \in Nat /\ SumFunctionOnSet(h, S) \in Nat
      /\ SumFunctionOnSet(f, S) = 1 * SumFunctionOnSet(g, S) + SumFunctionOnSet(h, S)
  BY <1>1, <1>2, SumScaled
<1>4. QED
  BY <1>3

(* In the end what is due to a supplier is the balance of its account: what *)
(* its bills are of less what it has been paid, or nothing.                *)
LEMMA BalanceOf ==
  ASSUME FifoAssumption, FifoInv, Finished, NEW s \in Suppliers
  PROVE  DueTo(s) = IF Invoiced(s) > PaidOut(s) THEN Invoiced(s) - PaidOut(s) ELSE 0
<1> DEFINE BB == BilledBy(s)
           PP == PaysOf(s)
           A == {a \in allocs : expenses[a.expenseId].supplierId = s}
           bill == [a \in A |-> a.expenseId]
           from == [a \in A |-> a.ledgerEntryId]
           billed == [b \in BB |-> Billed(b)]
           due == [b \in BB |-> Due(b)]
           toBills == [b \in BB |-> Given(ToBill(b))]
           sizes == [p \in PP |-> Size(ledgerPays[p].amountMinor)]
           spare == [p \in PP |-> Size(ledgerPays[p].amountMinor) - Given(FromPay(p))]
           given == [p \in PP |-> Given(FromPay(p))]
<1>0. FifoTypeOK /\ Numbered /\ PaysBalance /\ waiting = {} /\ paying = NoPay
  BY DEF FifoInv, Finished
<1>1. BB \in SUBSET Bills /\ PP \in SUBSET LedgerPays /\ IsFiniteSet(BB) /\ IsFiniteSet(PP) /\ Amounted(A)
  BY <1>0, FifoFacts DEF BilledBy, PaysOf
<1>2. SumFunctionOnSet(toBills, BB) = Given(A)
  <2>1. \A a \in A : bill[a] \in BB
    BY <1>0 DEF BilledBy, FifoTypeOK, OpenBills
  <2>2. SumFunctionOnSet(Sorted(A, BB, bill), BB) = Given(A)
    <3> HIDE DEF A, BB, bill
    <3>1. QED
      BY <1>1, <2>1, GivenSorted
  <2>3. Sorted(A, BB, bill) = toBills
    <3>1. \A b \in BB : {a \in A : bill[a] = b} = ToBill(b)
      BY DEF ToBill, BilledBy
    <3>2. QED
      BY <3>1 DEF Sorted
  <2>4. QED
    BY <2>2, <2>3
<1>3. SumFunctionOnSet(given, PP) = Given(A)
  <2>1. \A a \in allocs : a \in A <=> a.ledgerEntryId \in PP
    BY <1>0 DEF PaysOf, FifoTypeOK, PaysBalance
  <2>2. \A a \in A : from[a] \in PP
    BY <2>1
  <2>3. SumFunctionOnSet(Sorted(A, PP, from), PP) = Given(A)
    <3> HIDE DEF A, PP, from
    <3>1. QED
      BY <1>1, <2>2, GivenSorted
  <2>4. Sorted(A, PP, from) = given
    <3>1. \A p \in PP : {a \in A : from[a] = p} = FromPay(p)
      BY <2>1 DEF FromPay
    <3>2. QED
      BY <3>1 DEF Sorted
  <2>5. QED
    BY <2>3, <2>4
<1>4. \A b \in BB : /\ billed[b] \in Nat /\ toBills[b] \in Nat /\ due[b] \in Nat
                    /\ billed[b] = toBills[b] + due[b]
  <2> TAKE b \in BB
  <2>1. Billed(b) \in Nat /\ Given(ToBill(b)) \in Nat /\ Given(ToBill(b)) <= Billed(b)
    <3>1. CASE b \in OpenBills
      BY <1>1, <3>1, GivenFacts
    <3>2. CASE b \notin OpenBills
      BY <1>1, <3>2, GivenFacts
    <3>3. QED
      BY <3>1, <3>2
  <2>2. Due(b) \in Nat /\ Billed(b) = Given(ToBill(b)) + Due(b)
    BY <2>1 DEF Due
  <2>3. QED
    BY <2>1, <2>2
<1>5. \A p \in PP : /\ sizes[p] \in Nat /\ given[p] \in Nat /\ spare[p] \in Nat
                    /\ sizes[p] = given[p] + spare[p]
  <2> TAKE p \in PP
  <2>1. Given(FromPay(p)) \in Nat /\ Size(ledgerPays[p].amountMinor) \in Nat
        /\ Given(FromPay(p)) <= Size(ledgerPays[p].amountMinor)
    BY <1>1, GivenFacts
  <2>2. QED
    BY <2>1
<1>6. (\A p \in PP : spare[p] = 0) \/ (\A b \in BB : due[b] = 0)
  <2> SUFFICES ASSUME NEW p \in PP, spare[p] # 0 PROVE \A b \in BB : due[b] = 0
    OBVIOUS
  <2>1. p \in LedgerPays /\ p # NoPay /\ ledgerPays[p].supplierId = s
        /\ Given(FromPay(p)) # Size(ledgerPays[p].amountMinor)
    <3>1. Given(FromPay(p)) \in Nat /\ Size(ledgerPays[p].amountMinor) \in Nat
      BY <1>1, GivenFacts
    <3>2. QED
      BY <1>0, <1>1, <3>1, FifoFacts DEF PaysOf
  <2>2. \A b \in BillsOf(s) : remaining[b] = 0
    BY <1>0, <2>1 DEF PaysBalance
  <2>3. ASSUME NEW b \in BB PROVE Due(b) = 0
    <3>1. CASE b \in OpenBills
      <4>1. remaining[b] = 0
        BY <2>2, <3>1 DEF BillsOf, BilledBy
      <4>2. Given(ToBill(b)) = Billed(b) /\ Billed(b) \in Nat
        BY <1>1, <3>1, <4>1, GivenFacts
      <4>3. QED
        BY <4>2 DEF Due
    <3>2. CASE b \notin OpenBills
      <4>1. Billed(b) = 0 /\ Given(ToBill(b)) = 0
        BY <1>1, <3>2, GivenFacts DEF OpenBills, BilledBy, Billed, FifoAssumption
      <4>2. QED
        BY <4>1 DEF Due
    <3>3. QED
      BY <3>1, <3>2
  <2>4. QED
    BY <2>3
<1> DEFINE I == SumFunctionOnSet(billed, BB)
           D == SumFunctionOnSet(due, BB)
           Z == SumFunctionOnSet(sizes, PP)
           L == SumFunctionOnSet(spare, PP)
           N == Given(A)
<1>7. I \in Nat /\ D \in Nat /\ N \in Nat /\ I = N + D
  <2> HIDE DEF BB, billed, due, toBills, A
  <2>1. IsFiniteSet(BB)
    BY <1>1
  <2>2. /\ SumFunctionOnSet(billed, BB) \in Nat /\ SumFunctionOnSet(toBills, BB) \in Nat
        /\ SumFunctionOnSet(due, BB) \in Nat
        /\ SumFunctionOnSet(billed, BB) = SumFunctionOnSet(toBills, BB) + SumFunctionOnSet(due, BB)
    BY <1>4, <2>1, SumAdds
  <2>3. QED
    BY <1>2, <2>2
<1>8. Z \in Nat /\ L \in Nat /\ Z = N + L
  <2> HIDE DEF PP, sizes, given, spare, A
  <2>1. IsFiniteSet(PP)
    BY <1>1
  <2>2. /\ SumFunctionOnSet(sizes, PP) \in Nat /\ SumFunctionOnSet(given, PP) \in Nat
        /\ SumFunctionOnSet(spare, PP) \in Nat
        /\ SumFunctionOnSet(sizes, PP) = SumFunctionOnSet(given, PP) + SumFunctionOnSet(spare, PP)
    BY <1>5, <2>1, SumAdds
  <2>3. QED
    BY <1>3, <2>2
<1>9. L = 0 \/ D = 0
  <2>1. Counts(spare, PP) /\ Counts(due, BB)
    BY <1>1, <1>4, <1>5 DEF Counts
  <2> HIDE DEF BB, PP, spare, due
  <2>2. QED
    BY <1>6, <2>1, SumOfZeros
<1>10. DueTo(s) = D /\ Invoiced(s) = I /\ PaidOut(s) = Z
  BY DEF DueTo, Invoiced, PaidOut
<1> HIDE DEF I, D, Z, L, N
<1>11. QED
  BY <1>7, <1>8, <1>9, <1>10

THEOREM BalancesKept ==
  ASSUME FifoAssumption
  PROVE  FifoSpec => []AccountBalance
<1>1. FifoInv => AccountBalance
  BY BalanceOf DEF AccountBalance
<1>2. QED
  BY <1>1, FifoConsistent, PTL

(* The tables, what is left of them and the derived payments keep their    *)
(* types.                                                                  *)
THEOREM FifoTypes ==
  ASSUME FifoAssumption
  PROVE  FifoSpec => []FifoTypeOK
<1>1. FifoInv => FifoTypeOK
  BY DEF FifoInv
<1>2. QED
  BY <1>1, FifoConsistent, PTL
=============================================================================
