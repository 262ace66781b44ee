--------------------------- MODULE SalaryPosting ---------------------------
(***************************************************************************)
(* Staff payouts between the daily entries and the salary registers, at    *)
(* one terminal: payouts recorded and removed from an employee's profile   *)
(* (recordStaffPayout, deleteStaffPayout), staff lines saved with a day in *)
(* the daily entry form, and everything that changes what a month owes:    *)
(* the roster, the sheets' figures, locks, generated and deleted months.   *)
(*                                                                         *)
(* The terminal works on its cached days and its bundle of registers; the  *)
(* API has the days and the last bundle that was saved.  A payout takes    *)
(* two requests, the day and then the bundle; the form sends both in one.  *)
(***************************************************************************)
EXTENDS SalaryRegister

CONSTANTS
  PayoutAmounts, \* amounts of payouts
  Basics,     \* basic salaries
  Extras,     \* the rest of a row's pay, less fines
  FirstBasic, \* everybody's salary at first
  Imported,   \* a payout imported without a daily line, 0 for none
  Modes,      \* ways the users and the network may behave
  Ops         \* payouts in flight at the same time

(* Steady: salaries, roster and figures are left alone.  Patient: nobody   *)
(* acts while a payout is in flight.  Elsewhere: another terminal locks    *)
(* days.  Fails: requests are refused, or a day's answer gets lost, too.   *)
(* Ahead: advances are paid.  Together: how many staff lines one save of   *)
(* the form changes.  Acts: how often the users act.                       *)
Mode == [steady : BOOLEAN, patient : BOOLEAN, elsewhere : BOOLEAN, fails : {"never", "refused", "lost"},
         ahead : BOOLEAN, together : Nat, acts : Nat]

ASSUME PostingAssumption ==
  /\ PayoutAmounts \subseteq Nat \ {0}
  /\ Basics \subseteq Nat /\ Extras \subseteq Int /\ FirstBasic \in Nat /\ Imported \in Nat
  /\ Modes \subseteq Mode

VARIABLES
  days,    \* the API's days: staff lines and lock
  savedBundle, \* the API's registers
  cache,   \* the terminal's copy of the days
  bundle,  \* the terminal's registers
  dirty,   \* the terminal's registers are not saved
  roster,  \* the employee directory
  op,      \* payouts in flight
  userActs, \* user actions so far
  mode

postingVars == <<days, savedBundle, cache, bundle, dirty, roster, op, userActs, mode>>

Line == [line : LineIds, emp : Emps, amt : PayoutAmounts, advance : BOOLEAN]
(* A day's lines have ids of their own.                                    *)
DayLines == {lines \in SUBSET Line : IsFiniteSet(lines) /\ \A x, y \in lines : x.line = y.line => x = y}
Day == [lines : DayLines, locked : BOOLEAN]
Kinds == IF mode.ahead THEN BOOLEAN ELSE {FALSE}   \* advance or not
Idle == [step |-> "idle"]
InFlight == {o \in Ops : op[o] # Idle}

LinesOf(map) == [d \in Days |-> map[d].lines]
Reconciled(map) == reconcileSalaryMonthFromDailyMap(bundle, LinesOf(map), roster)
SyncedBundle(b) == syncSalaryBundleToEmployees(b, roster)
UsedIds == {x.line : x \in UNION {days[d].lines \cup cache[d].lines : d \in Days}}
             \cup {x.line : x \in UNION {op[o].lines : o \in InFlight}}

ByUser ==
  /\ userActs < mode.acts
  /\ mode.patient => InFlight = {}
  /\ userActs' = userActs + 1
  /\ mode' = mode

PostingInit ==
  /\ mode \in Modes
  /\ days = [d \in Days |-> [lines |-> {}, locked |-> FALSE]]
  /\ cache = days
  /\ roster = [e \in Emps |-> [active |-> TRUE, basic |-> FirstBasic]]
  /\ LET row(e) == [NewRow(roster, e) EXCEPT !.pays =
                      IF Imported = 0 THEN {}
                      ELSE {[line |-> Manual, amt |-> Imported, day |-> 1, advance |-> FALSE]}]
     IN savedBundle = [m \in {1} |-> [locked |-> FALSE, rows |-> [e \in Emps |-> row(e)]]]
  /\ bundle = savedBundle
  /\ dirty = FALSE
  /\ op = [o \in Ops |-> Idle]
  /\ userActs = 0

-----------------------------------------------------------------------------
(* A payout recorded in the profile: checked against the registers, then   *)
(* the whole cached day is sent with one line more.                        *)

Sending(d, lines) == [step |-> "day", day |-> d, lines |-> lines]
NewLines(e, amt, advance) ==
  {[line |-> l, emp |-> e, amt |-> amt, advance |-> advance] : l \in LineIds \ UsedIds}

(* Faulty: the day is sent with the new line only.                         *)
SendAlone(o, d, x) == op' = [op EXCEPT ![o] = Sending(d, {x})]

SendDay(o, d, x) == op' = [op EXCEPT ![o] = Sending(d, cache[d].lines \cup {x})]

recordStaffPayout(o, e, d, amt, advance) ==
  /\ ByUser /\ op[o] = Idle
  /\ mode.patient => bundle = Reconciled(cache)   \* what opening the profile leaves
  /\ e \in DOMAIN roster
  /\ validateStaffPayoutAmount(bundle, MonthOf(d), e, amt, advance, Manual)
  /\ ~cache[d].locked
  /\ \E x \in NewLines(e, amt, advance) : SendDay(o, d, x)
  /\ UNCHANGED <<days, savedBundle, cache, bundle, dirty, roster>>

StartFlush(o, b) == op' = [op EXCEPT ![o] = [step |-> "bundle", lines |-> {}, sent |-> b]]

(* A payout removed in the profile: the cached day is sent without its     *)
(* line; a line that is gone already, or a payout without one, only        *)
(* touches the registers.                                                  *)
deleteStaffPayout(o, m, e, p) ==
  /\ ByUser /\ op[o] = Idle
  /\ HasRow(bundle, m, e) /\ p \in bundle[m].rows[e].pays
  /\ LET rest == {x \in cache[p.day].lines : x.line # p.line}
     IN IF p.line = Manual
        THEN LET b == [bundle EXCEPT ![m].rows[e].pays = @ \ {p}]
             IN bundle' = b /\ dirty' = TRUE /\ StartFlush(o, b)
        ELSE /\ ~cache[p.day].locked
             /\ IF rest # cache[p.day].lines
                THEN /\ op' = [op EXCEPT ![o] = [step |-> "day", day |-> p.day, lines |-> rest]]
                     /\ UNCHANGED <<bundle, dirty>>
                ELSE bundle' = Reconciled(cache) /\ dirty' = TRUE /\ StartFlush(o, Reconciled(cache))
  /\ UNCHANGED <<days, savedBundle, cache, roster>>

(* The API refuses a locked day.  Once it answers, the registers are       *)
(* rebuilt from the cached days and sent.                                  *)
DaySaved(o) ==
  /\ op[o].step = "day"
  /\ LET d == op[o].day
         map == [cache EXCEPT ![d] = [days[d] EXCEPT !.lines = op[o].lines]]
     IN /\ ~days[d].locked
        /\ days' = [days EXCEPT ![d].lines = op[o].lines]
        /\ cache' = map
        /\ bundle' = Reconciled(map)
        /\ dirty' = TRUE
        /\ StartFlush(o, Reconciled(map))
  /\ UNCHANGED <<savedBundle, roster, userActs, mode>>

DayRefused(o) ==
  /\ op[o].step = "day"
  /\ mode.fails # "never" \/ days[op[o].day].locked
  /\ op' = [op EXCEPT ![o] = Idle]
  /\ UNCHANGED <<days, savedBundle, cache, bundle, dirty, roster, userActs, mode>>

AnswerLost(o) ==
  /\ mode.fails = "lost"
  /\ op[o].step = "day" /\ ~days[op[o].day].locked
  /\ days' = [days EXCEPT ![op[o].day].lines = op[o].lines]
  /\ op' = [op EXCEPT ![o] = Idle]
  /\ UNCHANGED <<savedBundle, cache, bundle, dirty, roster, userActs, mode>>

BundleSaved(o) ==
  /\ op[o].step = "bundle"
  /\ savedBundle' = op[o].sent
  /\ dirty' = FALSE
  /\ op' = [op EXCEPT ![o] = Idle]
  /\ UNCHANGED <<days, cache, bundle, roster, userActs, mode>>

BundleRefused(o) ==
  /\ mode.fails # "never"
  /\ op[o].step = "bundle"
  /\ op' = [op EXCEPT ![o] = Idle]
  /\ UNCHANGED <<days, savedBundle, cache, bundle, dirty, roster, userActs, mode>>

-----------------------------------------------------------------------------
(* The daily entry form: each staff line is checked against the registers  *)
(* without its own payout, then day and registers are saved together.      *)

FormSave(d, lines) ==
  LET synced == IF dirty THEN bundle ELSE SyncedBundle(bundle)
      b == reconcileSalaryMonthFromDailyMap(
             synced, [LinesOf(cache) EXCEPT ![d] = lines], roster)
  IN /\ ByUser
     /\ ~cache[d].locked
     /\ lines # cache[d].lines
     /\ \A x \in lines :
          validateStaffPayoutAmount(synced, MonthOf(d), x.emp, x.amt, x.advance, x.line)
     /\ \/ /\ ~days[d].locked
           /\ days' = [days EXCEPT ![d].lines = lines]
           /\ cache' = days'
           /\ savedBundle' = b /\ bundle' = SyncedBundle(b)
        \/ /\ mode.fails # "never" \/ days[d].locked
           /\ bundle' = SyncedBundle(savedBundle)   \* refused: the registers are loaded again
           /\ UNCHANGED <<days, cache, savedBundle>>
     /\ dirty' = FALSE
     /\ UNCHANGED <<roster, op>>

(* One line added, dropped or changed, or several.                         *)
Changed(lines) ==
  LET free == (LineIds \ UsedIds) \cup {x.line : x \in lines}
      new == [line : free, emp : DOMAIN roster, amt : PayoutAmounts, advance : Kinds]
  IN {lines \ {x} : x \in lines}
       \cup {{x \in lines : x.line # n.line} \cup {n} : n \in new}

EditedLines(d) ==
  LET edits[n \in 0 .. mode.together] == IF n = 0 THEN {cache[d].lines}
                          ELSE UNION {Changed(lines) : lines \in edits[n - 1]}
  IN edits[mode.together]

(* The payouts of a day's lines taken out, but of locked sheets.           *)
WithoutDay(b, d) ==
  [m \in DOMAIN b |->
     IF b[m].locked THEN b[m]
     ELSE [b[m] EXCEPT !.rows = [e \in DOMAIN b[m].rows |->
             [b[m].rows[e] EXCEPT !.pays = {p \in @ : p.day # d \/ p.line = Manual}]]]]

(* A day deleted in the form's history takes its payouts with it; the API  *)
(* takes them out of its registers too, and both are loaded again.         *)
DeleteDay(d) ==
  /\ ByUser
  /\ ~dirty
  /\ ~cache[d].locked /\ ~days[d].locked /\ days[d].lines # {}
  /\ savedBundle' = WithoutDay(savedBundle, d)
  /\ bundle' = SyncedBundle(WithoutDay(savedBundle, d))
  /\ days' = [days EXCEPT ![d] = [lines |-> {}, locked |-> FALSE]]
  /\ cache' = days'
  /\ UNCHANGED <<dirty, roster, op>>

(* Locked or unlocked here, or elsewhere and not known here.               *)
LockDay(d) ==
  /\ ByUser
  /\ days' = [days EXCEPT ![d].locked = ~@]
  /\ \/ cache' = [cache EXCEPT ![d] = days'[d]]
     \/ mode.elsewhere /\ UNCHANGED cache
  /\ UNCHANGED <<savedBundle, bundle, dirty, roster, op>>

RefreshEntries == ByUser /\ cache # days /\ cache' = days
                  /\ UNCHANGED <<days, savedBundle, bundle, dirty, roster, op>>

-----------------------------------------------------------------------------
(* The salary module: figures, locks and months, each an edit of the       *)
(* bundle that the debounce saves.                                         *)

Edit(b) == /\ ByUser /\ b # bundle
           /\ bundle' = b /\ dirty' = TRUE
           /\ UNCHANGED <<days, savedBundle, cache, roster, op>>

updateRow(m, e, extra) ==
  LET sheet == ensureMonthDoc(bundle, m, roster)
  IN /\ ~mode.steady
     /\ m \in DOMAIN bundle /\ ~sheet.locked /\ e \in DOMAIN sheet.rows
     /\ Edit(WithSheet(bundle, m, [sheet EXCEPT !.rows[e].extra = extra]))

setMonthLockState(m) ==
  LET sheet == ensureMonthDoc(bundle, m, roster)
  IN /\ m \in DOMAIN bundle
     /\ Edit(WithSheet(bundle, m, [sheet EXCEPT !.locked = ~@]))

generateMonth(m) == Edit(WithSheet(bundle, m, ensureMonthDoc(bundle, m, roster)))

(* The sheet goes, locked or not; with the last one a new bundle starts.   *)
(* Leaving the month it showed, the module rebuilds the payouts.           *)
executeDeleteMonth(m) ==
  LET rest == [k \in DOMAIN bundle \ {m} |-> bundle[k]]
      b == IF DOMAIN rest = {} THEN [k \in {1} |-> NewSheet(roster)] ELSE rest
  IN /\ ~mode.steady
     /\ m \in DOMAIN bundle
     /\ \/ Edit(b)
        \/ Edit(reconcileSalaryMonthFromDailyMap(b, LinesOf(cache), roster))

(* Opening the module, a month or a profile: load, unless there are edits, *)
(* and rebuild.                                                            *)
openPayroll ==
  /\ ByUser
  /\ LET b == IF dirty THEN bundle ELSE SyncedBundle(savedBundle)
     IN bundle' = reconcileSalaryMonthFromDailyMap(b, LinesOf(cache), roster)
  /\ dirty' = TRUE
  /\ UNCHANGED <<days, savedBundle, cache, roster, op>>

DebouncedSave ==
  /\ dirty /\ InFlight = {}
  /\ savedBundle' = bundle /\ dirty' = FALSE
  /\ UNCHANGED <<days, cache, bundle, roster, op, userActs, mode>>

(* The directory: rows follow it while the bundle has no edits.            *)
SetRoster(r) ==
  /\ ~mode.steady
  /\ ByUser /\ r # roster
  /\ roster' = r
  /\ bundle' = IF dirty THEN bundle ELSE syncSalaryBundleToEmployees(bundle, r)
  /\ UNCHANGED <<days, savedBundle, cache, dirty, op>>

updateEmployee(e, basic) == e \in DOMAIN roster /\ SetRoster([roster EXCEPT ![e].basic = basic])
setEmployeeActive(e) == e \in DOMAIN roster /\ SetRoster([roster EXCEPT ![e].active = ~@])
removeEmployee(e) == e \in DOMAIN roster /\ SetRoster([k \in DOMAIN roster \ {e} |-> roster[k]])
addEmployee(e) ==
  /\ e \notin DOMAIN roster
  /\ \A m \in Months : ~HasRow(bundle, m, e) /\ ~HasRow(savedBundle, m, e)
  /\ \A d \in Days : \A x \in days[d].lines \cup cache[d].lines : x.emp # e
  /\ SetRoster([k \in DOMAIN roster \cup {e} |->
       IF k = e THEN [active |-> TRUE, basic |-> FirstBasic] ELSE roster[k]])

(* Closed and opened again: unsaved registers and payouts in flight go.    *)
Restart ==
  /\ ByUser
  /\ mode.patient => ~dirty
  /\ bundle' = SyncedBundle(savedBundle) /\ dirty' = FALSE
  /\ cache' = days
  /\ op' = [o \in Ops |-> Idle]
  /\ UNCHANGED <<days, savedBundle, roster>>

-----------------------------------------------------------------------------
Payouts ==
  \E o \in Ops :
    \/ \E e \in Emps, d \in Days, amt \in PayoutAmounts, advance \in Kinds :
         recordStaffPayout(o, e, d, amt, advance)
    \/ \E m \in DOMAIN bundle, e \in Emps :
         HasRow(bundle, m, e) /\ \E p \in bundle[m].rows[e].pays : deleteStaffPayout(o, m, e, p)
    \/ DaySaved(o) \/ DayRefused(o) \/ AnswerLost(o) \/ BundleSaved(o) \/ BundleRefused(o)

Books ==
  \/ \E d \in Days : (\E lines \in EditedLines(d) : FormSave(d, lines)) \/ DeleteDay(d) \/ LockDay(d)
  \/ RefreshEntries

Registers ==
  \/ \E m \in Months : (\E e \in Emps, x \in Extras : updateRow(m, e, x))
                      \/ setMonthLockState(m) \/ generateMonth(m) \/ executeDeleteMonth(m)
  \/ openPayroll \/ DebouncedSave

Directory ==
  \E e \in Emps : (\E b \in Basics : updateEmployee(e, b))
                 \/ setEmployeeActive(e) \/ removeEmployee(e) \/ addEmployee(e)

PostingNext == Payouts \/ Books \/ Registers \/ Directory \/ Restart

PostingSpec == PostingInit /\ [][PostingNext]_postingVars

-----------------------------------------------------------------------------
(* Days and registers hold what they may hold, and a payout in flight has  *)
(* its request out.                                                        *)
Pay == [line : LineIds \cup {Manual}, amt : Nat, day : Days, advance : BOOLEAN]
RegisterRow == [basic : Nat, extra : Int, pays : {pays \in SUBSET Pay : IsFiniteSet(pays)}]
Person == [active : BOOLEAN, basic : Nat]

IsRoster(r) == DOMAIN r \subseteq Emps /\ r \in [DOMAIN r -> Person]
IsSheet(sheet) ==
  /\ sheet = [locked |-> sheet.locked, rows |-> sheet.rows] /\ sheet.locked \in BOOLEAN
  /\ DOMAIN sheet.rows \subseteq Emps /\ sheet.rows \in [DOMAIN sheet.rows -> RegisterRow]
IsBundle(b) ==
  /\ DOMAIN b \subseteq Months /\ b = [m \in DOMAIN b |-> b[m]]
  /\ \A m \in DOMAIN b : IsSheet(b[m])
IsOp(p) ==
  \/ p = Idle \/ p \in [step : {"day"}, day : Days, lines : DayLines]
  \/ p = [step |-> "bundle", lines |-> {}, sent |-> p.sent] /\ IsBundle(p.sent)

PostingTypeOK ==
  /\ days \in [Days -> Day] /\ cache \in [Days -> Day]
  /\ IsBundle(bundle) /\ IsBundle(savedBundle)
  /\ dirty \in BOOLEAN
  /\ IsRoster(roster)
  /\ DOMAIN op = Ops /\ \A o \in Ops : IsOp(op[o])
  /\ userActs \in Nat /\ mode \in Modes

(* What a rebuild makes of the registers as they are now.                  *)
Rebuilt == Reconciled(cache)
PaidIn(b, e) == {<<m, p>> : m \in {k \in Months : HasRow(b, k, e)},
                            p \in UNION {b[k].rows[e].pays : k \in {j \in Months : HasRow(b, j, e)}}}
Placed(b, e) == {mp \in PaidIn(b, e) : mp[2] \in b[mp[1]].rows[e].pays}
Owed(e) == {i \in StaffLines(LinesOf(cache)) : i.emp = e}

Mirrors(e) ==
  /\ {mp[2] : mp \in Placed(Rebuilt, e)} = {Payout(i) : i \in Owed(e)}
  /\ Cardinality(Placed(Rebuilt, e)) = Cardinality(Owed(e))

(* A rebuild has each staff line of an active employee once, in one month, *)
(* whatever was locked, deleted, paid or edited before, and a rebuild of   *)
(* rebuilt registers changes nothing: where a payout lands does not depend *)
(* on where it was.                                                        *)
RegisterMirrors ==
  /\ \A e \in Active(roster) : Mirrors(e)
  /\ (\A d \in Days, x \in Line : x \in cache[d].lines => x.emp \in Active(roster))
       => reconcileSalaryMonthFromDailyMap(Rebuilt, LinesOf(cache), roster) = Rebuilt

(* The same of everybody in the directory, as the comment on the sync says:*)
(* "Keeps salary-register payouts in sync with daily-entry staff lines."   *)
RegisterMirrorsAll == \A e \in DOMAIN roster : Mirrors(e)

(* A rebuild never leaves a regular payout in a month while an earlier one *)
(* is still owed, nor in a month after its own.                            *)
OldestFirst ==
  \A e \in Active(roster) : LET owed == StillOwed(Rebuilt, e, Manual) IN
    \A mp \in Placed(Rebuilt, e) :
      /\ mp[1] <= MonthOf(mp[2].day)
      /\ ~mp[2].advance => \A k \in 1 .. mp[1] - 1 : owed[k] = 0

(* What is due through a month and what was paid make the pay up to then  *)
(* and the credit carried out of it: rolling credit forward neither loses  *)
(* nor invents money.                                                      *)
DueBalances ==
  \A e \in Emps, m \in Months :
    SumOver(StillOwed(bundle, e, Manual), 1 .. m)
      + SumOver([k \in Months |-> Paid(bundle, k, e, Manual)], 1 .. m)
    = SumOver([k \in Months |-> Payable(bundle, k, e)], 1 .. m) + CarriedOut(bundle, e, Manual)[m]

(* The pool is given out to the unit, as near to each share as whole units *)
(* allow, for three rows.  It says nothing of the state, so it is looked at*)
(* where behaviours begin.                                                 *)
PoolFullyShared ==
  userActs = 0 => \A pool \in 0 .. 8, pcts \in [1 .. 3 -> {0, 20, 30, 33, 45}] :
    LET share == distributeServiceChargePool(pcts, pool)
        all == SumOver([r \in 1 .. 3 |-> pool * pcts[r]], 1 .. 3)
        given == SumOver(share, DOMAIN share)
    IN /\ 2 * (100 * given - all) \in -99 .. 100
       /\ \A r \in DOMAIN share : 100 * share[r] - pool * pcts[r] \in -99 .. 99

Earned(e) == SumOver([m \in Months |-> Payable(Rebuilt, m, e)], Months)
StaffPaid(e) == PaidOf({Payout(i) : i \in {j \in StaffLines(LinesOf(days)) : j.emp = e}})

(* Without advances nobody is paid more than the months so far earn, as    *)
(* long as salaries stay, requests are not refused and one line is saved   *)
(* at a time.                                                              *)
Calm == mode.patient /\ ~mode.elsewhere /\ mode.fails # "lost"
NeverOverpaid ==
  Calm /\ mode.steady /\ mode.fails = "never" /\ ~mode.ahead /\ mode.together = 1
    => \A e \in Emps : StaffPaid(e) <= Earned(e)

(* The answer to a payout request changes one line of one day.             *)
PayoutIsOneLine ==
  [][Calm /\ userActs' = userActs =>
       \A d \in Days : Cardinality((days[d].lines \ days'[d].lines) \cup (days'[d].lines \ days[d].lines)) <= 1]_postingVars
=============================================================================
