# Krunch POS: models, checks and proofs

Krunch POS keeps the books of restaurant branches: what was sold and spent each day, what is owed
to suppliers, what is paid to staff. A React terminal (`apps/terminal`) edits those books in memory
and sends them to a NestJS API (`apps/api`), which keeps them in Postgres (`packages/database-schema`),
phone-capture sessions in Redis and photos in S3. This directory holds TLA+ models of the parts
where order, concurrency and failure matter, the TLC runs that check them, and TLAPS proofs.

`PROJECT.json` lists runs, mutants, hazards and theorems, and for every definition the source lines
it stands for.

## 1. The system

| part | state | operations | talks to |
|---|---|---|---|
| Branch books (`apps/api/src/modules/{daily-entries,ledger,payroll,relational-sync,expenses,payments,expense-categories}`) | daily entries and their lines, ledger entries, orders, returns, salary months, lines and payments, employees, categories, Payables rows | save, lock, unlock, delete a day; daily commit; whole-book PUT of cashbook, register, roster; create, change, delete Payables rows and categories | Postgres; foreign keys null or cascade |
| Cashbook store (`features/ledger/ledgerWorkspaceStore.ts`) | the branch's whole cashbook in memory, a debounce timer, one promise for a load and one for a PUT | edit, debounced PUT, load, reload, flush, cancel, reset | API, daily entry form |
| Salary store (`features/payroll/salaryWorkspaceStore.ts`) | the same for the registers, with a dirty flag and a save error | the same, and tab closing; rows that follow the roster | API, form, roster store |
| Roster store (`features/employees/employeeDirectoryStore.ts`) | the employee directory, an old copy in the browser | edit, debounced PUT, load with merge, migration, flush | API |
| Capture sessions and media (`modules/{capture-sessions,storage}`) | a session per day in Redis, media assets, references on forms and saved entries | open, presign, register, assign, remove, close, purge, save, discard | Redis, Postgres, S3 |
| Staff seats (`modules/staff`) | accounts and role assignments | create, activate, deactivate, assign, remove | Postgres |
| Sign-in (`modules/auth`, `features/auth`, `features/api-client/http.ts`) | token pairs, revoked tokens, the pair in the browser, the shared refresh | sign in, confirm a password, call, refresh, sign out, reload; each but the last an await | every request |
| Salary posting (`features/payroll`) | the terminal's copy of the days, the bundle of registers | record and remove a payout, save a day, rebuild the payouts of all months, edit sheets, lock months, edit the directory | API, salary store |
| Supplier card of the daily entry form (`DailyEntryFormView.tsx`) | purchased items, supplier groups, payment rows and their tags | edit items, groups, rows and Paid fields, save, open | the saved day |
| Day lines and cashbook bills (`DailyEntryFormView.tsx`, `LedgerModuleView.tsx`, `features/daily-entry`) | lines of days, bills and payments of the cashbook, both twice (terminal and API) | save and delete a day; add, edit, move, remove a bill in the drawer; delete a cashbook; lock | API, cashbook store |
| Payment allocation (`expenses/expense.util.ts`) | what is left of each bill and of the payment being given out | give the cashbook's payments to the bills, oldest first | derived Payables rows |
| RBAC, audit, health, reports, views, scripts | none that the parts above read | checks, logs, queries, layout | |

What is hard, and what would make each part right:

- **Branch books.** Handlers read outside the transaction they write in (the lock check of a save, the
  links of a delete, the count of payments before an expense is deleted). Whole-book PUTs delete rows that
  other tables refer to. The API-owned Payables rows are a cache over five tables. Right means: references
  resolve, the cache is current, deleting a day takes its own bills and orders only, whole pairs, and
  nothing that is locked.
- **The stores.** Each holds a whole table set, sends it 400 ms after the last edit, and meanwhile loads,
  flushes, commits and resets race with that PUT. Every answer may be late, lost, or about an older session.
  Right means: deleted rows stay deleted, unsaved edits are neither wiped nor silent, and terminal and API
  agree when nothing is pending.
- **Capture.** Three stores (Redis, Postgres, S3) without a transaction over them, a phone and a terminal at
  the same time, and a purge that deletes whatever nobody refers to. Right means the purge never deletes what
  somebody holds.
- **Seats.** Count, then write. Right means the licence is never exceeded.
- **Sessions.** Any number of calls meet an expired token, at once or late; a refresh token is revoked by its
  first use; sign-out may find all of this in flight. Right means a call is carried out once, as whoever made
  it, and a session ends when its user ends it.
- **Salary posting.** A payout is two requests, and every change of a day rebuilds the payouts of every month.
  Right means each staff line is in the registers once, in the oldest month that owes, and nobody is overpaid.
- **Payment allocation.** Two sorted lists run out at different paces. Right means that no amount is given twice or
  lost, and that the sum of what is due is the balance of the supplier's account.
- **Days and bills.** A purchase is a line and a bill, written from two places in two orders. Right means that
  each has the other, and that locked bills survive both. Within the form a Paid row follows its bill by
  tags and equal amounts; right means it follows until somebody types another amount, and nobody else's
  payment is touched.

The hazards in `PROJECT.json` are the list of these at their lines. A hazard with a note and no property
is one where the code does not keep what would be worth stating; section 6 tells those
interleavings.

## 2. The modules

| module | models | state |
|---|---|---|
| `BranchBooks` | all API handlers that write one branch's books | one variable per table, `derived` (the API-owned Payables rows), `req` (what each handler in flight has read) |
| `CashbookStore` | `ledgerWorkspaceStore.ts`, save and delete of `DailyEntryFormView.tsx`, the session around them | the store's module variables, `net` (requests in flight), the API's cashbook |
| `SalaryStore` | `salaryWorkspaceStore.ts` with `salarySheetStorage.ts` and the same two flows | as above, `localDirty`, `saveError`; `untold`: a flush met no token and showed nothing |
| `RosterStore` | `employeeDirectoryStore.ts`, `employeeDirectoryStorage.ts` | as above, `persistAfterLoad`, `legacy`; `had` and `crossed`: whom the API has had, whether a request was sent before the one before it was served |
| `CaptureMedia` | capture sessions, storage, the attachment part of daily entries | `sessions` (Redis), `assets` (Postgres and S3), `form`, `saved`, `req`; `torn`: photos that failed requests were in the middle of |
| `StaffSeats` | `staff.service.ts`, `portal-access.ts` | `account`, `roles`, `req`; `overlapped`: a request has written between the reads and the write of another |
| `SalaryRegister` | the arithmetic of the registers: dues, credit, pool, rows, the rebuild (`syncStaffExpensesToSalaryRegister.ts`, `employeeSalaryBalance.ts`, `salarySheetStorage.ts`) | none |
| `SalaryPosting` | `recordStaffPayout`, `deleteStaffPayout`, staff lines of the form, the salary module and the directory, over `SalaryRegister` | `days` and `savedBundle` (API), `cache`, `bundle`, `roster` (terminal), `op` |
| `ExpenseForm` | the supplier side of `DailyEntryFormView.tsx` | the card's `items` and `groups`, `rows`, two refs of the component, the `saved` day |
| `PaymentFifo` | `allocateLedgerPaymentsFifo`, one round of its loops a step, and `derivePaidDue` | `remaining`, `waiting`, `paying`, `toGive`, `unseen` (the loops), `allocs` (the derived payments) |
| `DayBooks` | days and cashbook, from the form and from the drawer | `days`, `book` (API), `cache`, `mem`, `dirty` (terminal), `op` (the operation that is at it) and `others` (those that wait meanwhile) |
| `Session` | `http.ts`, `SessionProvider.tsx`, `auth.service.ts`, `token.service.ts` | `api` (owner, live, spent, young, active), `browser` (stored, session, began, remembered, late), `flight`, `logins` (the sign-in and the confirmation that wait for the API), `calls` |
| `SessionPromise` | what `Session` promises the person who signs in: abstract, no tokens | `who`, `open`, `acted` |
| `MC*` | small instances for TLC: pools of lines, initial tables, modes, symmetry | |
| `BranchBooksProofs`, `CashbookStoreProofs`, `SalaryStoreProofs`, `RosterStoreProofs`, `CaptureMediaProofs`, `SessionProofs`, `DayBooksProofs`, `FormAndRegisterProofs` | proofs; those of `StaffSeats` are the last part of `SessionProofs`, `FormAndRegisterProofs` has those of `ExpenseForm` and, in its second half, of `SalaryPosting`, and `BranchBooksProofs` ends with those of `PaymentFifo` | |

How code becomes actions:

- In the API a step is one database transaction, or one await outside of one. A handler that reads first is
  a record in `req` that remembers what it read; any other handler may run in between, and may abandon
  (the request fails, or the server stops, before its transaction). What Prisma's schema does on deletion
  (`SetNull`, `Cascade`) is part of the step that deletes. `Commit` is one transaction: the cashbook, then
  the register, then the day.
- In a store a step is a synchronous stretch of JavaScript between two awaits. A request is sent (it takes a
  slot of `net` with the rows it carries), served by the API at some later step, and answered later still.
  Two requests are served and answered in any order. A flush that waits for a PUT in flight remembers it in
  `awaited`.
- Data is what the properties tell apart: a cashbook, a register, a directory is the set of its rows' ids; a
  daily line is its kind, whether it is paid, and its four references. Amounts are in `SalaryRegister`,
  `ExpenseForm`, `PaymentFifo` and `DayBooks` alone, where the properties are about them.
- `op` in `SalaryPosting` and `DayBooks` is the function that is waiting for an answer, with what it read
  before it waited. Nothing in form and drawer keeps a user from beginning the next operation before the answer (the
  drawer stays open, `LedgerModuleView.tsx:3131`, and a removal has no busy flag, line 3187): `PutAside` lets an
  operation wait while others run, and `TakeUp` goes on with it when it is answered, in any order; `patient` is the
  mode of users who wait. Saving a day has three steps: the bills change in memory, the registers are read (and if
  that fails nothing else is done, `StaffFails`), and day and cashbook are sent. In `Session` a call is sent, served or refused, and answered or lost; a refused call joins
  or starts the refresh in `flight`. Token pairs that nobody holds any more are used again, so that a finite
  number of them is enough for any number of refreshes. Signing in and confirming a password each ask, wait, and write
  the tokens that come, the second whoever is on the screen by then.
- In `CaptureMedia` every await of a request may fail (`Fails`), and the API may stop (`Startup`): media that were
  deleted before the transaction that drops their references stay referred to. A history variable (`torn`) names
  them, so that `MediaExists` can say that there are no others. History variables (`untold`, `had`, `crossed`,
  `overlapped`, `late`, `torn`, `steady`) are read by no action's guard.

`SalaryPosting` extends `SalaryRegister`. `Session` implements `SessionPromise` under the mapping `who <- session,
open <- Open, acted <- Acted`: a call is open from when it is made until it is answered or given up, by the user
then on the screen, and it has acted, as the owner of the token it carries, when the API has served it. The other
models are not composed by instantiation: the stores' `Serve` action is what `PutLedger`, `PutSalary` and
`PutEmployees` of `BranchBooks` do to one table when seen from the terminal (replace it whole), and `delete`
removes the day's rows, as `Remove` does.

## 3. The runs

Deadlock is not checked where the number of user actions is bounded, because there the system really stops.
`BranchBooks`, `StaffSeats` and `Session` have no such bound and are checked for deadlock.

| run | bounds | what it shows |
|---|---|---|
| `books_delete` | 2 days, 1 bill, 1 order, lines that name both or the order alone, 2 requests | with every interleaving of two saves, commits or deletes with PUTs of the cashbook: `DeleteSparesOtherDays`, and, for a delete whose links are current, `NoHalfRemovedPair` and `DeleteRemovesOwnBills` |
| `books_tables` | every table with one row, any cashbook and register of them, 1 request | `TypeOK`, `LinksResolve`, `ProjectionCurrent`, `DeleteSparesLockedBooks` (locked bills, payouts in locked months; the pool has a line with its cashbook entry) |
| `cashbook` | 1 branch, 3 rows (own, of the deleted day, retired), 2 requests in flight; 8 actions on a calm network, 3 on any network with failures | `DeletedStayDeleted` and `Converged` (calm), `EventuallyLoaded` (all) |
| `salary` | 1 branch, 3 rows (own, payout, somebody who left), 2 requests; 8, 6, 5 and 3 actions in four modes | `DeletedStayDeleted` (quiet), `Converged` and `LoadsSpareUnsaved` (calm), `UnsavedIsShown` and `EventuallySettled` (all, but for what a flush without a token leaves) |
| `roster` | 1 branch with or without a roster, 2 names, an old roster in the browser, 2 requests; 4 to 6 actions | `RosterKept` (all: who was there at first, always; who was saved since, until requests cross), `Converged` (calm) |
| `capture` | *Serial*: 1 branch, 2 days, 2 photos, 1 request at a time, 12 actions. *Purges*: 2 branches, 1 day, 2 photos, 2 requests, 7 actions. In both, requests fail at any await and the API stops | `MediaExists` (Serial: trays and saved entries refer to nothing deleted but what a failed request was in the middle of), `PurgeSparesHeld` (beside one other request), `TypeOK` (a tray never exceeds its limit) |
| `expense_form` | 2 suppliers, 2 items, 2 totals, one amount paid by hand, 9 actions | `PaidFollowsBill`, `PaymentsKept`, `PaidFieldReplaces`, `SavedBillsPaid` |
| `day_books` | 2 days, 2 suppliers, 2 amounts, 2 lines a day, 3 actions. A user who waits: *Both* kinds with the cashbook saved first, *Eager* with the day first, *Locking*, *Failing*. One who does not: *Hasty* (2 actions), *Paying* | `BooksAgree` (Both, Eager), `LockedBillsStay` (without failures), `LineNeverLost` (users who wait; where a day's lines have ids of their own) |
| `salary_posting` | 1 employee, 2 months of a day each, 3 lines, 2 amounts, 1 payout in flight; 5 actions of a user who waits, 3 with refusals, 3 of everything at once | `RegisterMirrors`, `OldestFirst`, `DueBalances` (all), `NeverOverpaid` and `PayoutIsOneLine` (users who wait), `PoolFullyShared` (arithmetic: 9 pools, 3 rows of 5 percentages) |
| `session` | 2 users, 2 calls, 4 pairs, no bound on actions; *Calm* network with reloads, *Sure*, *Abrupt* sign-outs, *Swift* refreshes, *Hasty* users | `CallsActForTheirMaker` (the refinement of `SessionPromise`, of users who wait), `SessionSurvives` (Sure), `SignedOutIsClear` (all but Abrupt) |
| `seats` | 3 accounts, 2 admin seats and 1 manager seat, 2 assignments per tier, 2 requests in flight | `SeatsTypeOK`, `AdminSeats` (until a request has written between the reads and the write of the other) |
| `found_dropped_payout` | 2 employees, who leave and return, 4 actions | the code breaks `RegisterMirrorsAll` |

Every property of a passing run is broken by at least one small change of a mapped definition (the
definitions commented "Mutant" or "Faulty", listed under `mutants`). The type invariants of `CashbookStore`,
`SalaryStore`, `RosterStore`, `SalaryPosting` and `ExpenseForm` hold on the same instances; they are there to be
read, and are not counted among the results.

`PaymentFifo` has no run. What it promises (`NothingGivenTwice`, `OldestBillsFirst`, and `AccountBalance`, the claim at
`expense.util.ts:84`) is proved, for every instance that satisfies `FifoAssumption`: a bill and a payment table of any
finite size, with totals and amounts of any sign.

**Why the bounds are enough for their questions.** Links are symmetric in rows: a delete can go wrong over
a bill that another day shares, that is locked, or that is paired, and one bill, one order and two days
produce all three. Two requests are needed for an interleaving; a third handler in between is a PUT or a
lock, which needs no request. In the stores the hazards take a PUT in flight, another request, and an edit
between them. Rows are what can be lost: one of the branch, one that the API removes, one that a load filters.
On the card two suppliers and two items give every way to rename a group into another, to share and to lose a
bill. Carrying a payout back or credit forward takes two months and three lines; a bill that moves takes
two days. In a session one call that is refused late, while another has renewed the tokens, takes two calls and
three pairs; the fourth is the next user's. The user actions of a bounded run are as many as a history of the
hazard needs (edit, save, delete, answer; record, lock, remove, record), and up to twice that.

**Modes.** The programs do not keep their promises on every network and for every user. A mode, chosen in `Init`
and never changed, says what may happen, and a property names the mode it needs; one that names none holds in
all. In the stores: `quiet` (answered before the user acts again; only a flush may find a PUT on its way),
`calm` (answered within the debounce; an edit may find a request on its way), `any`, each with failures or
without. `SalaryPosting`: whether users wait for answers, whether requests are refused or lost, whether salaries
change. `DayBooks`: whether the user waits for each operation (`patient`), whether the cashbook is saved before the day
(`prompt`), locks, failures, a closed terminal.
`Session`: whether the next user waits for the calls of the one before (`patient`), whether sign-out finds
anything in flight (`settled`), lost answers, deactivated accounts, reloads, and refreshes within one
second (`swift`).

**Fairness.** `CashbookStore`: timers end (weak; `setTimeout`), each answer is delivered to its `await` (weak),
an API asked again and again serves in the end (strong `Serve`), and views that show the cashbook open again and
again (strong `loadLedgerWorkspace`): `EventuallyLoaded` needs the last two since each load may fail.
`SalaryStore`: timers end, each request is served or fails, answers are delivered (all weak); the API may fail
every time, because `EventuallySettled` asks for an error on display, not for success. Users owe nothing.

## 4. What is proved

For all ids, inputs, numbers of days, rows and requests; TLAPS checks every leaf.

| theorem | says |
|---|---|
| `TypeCorrect` | `BranchBooks` keeps its types |
| `LinksAlwaysResolve` | no reference ever dangles |
| `ProjectionStaysCurrent` | the derived Payables rows equal a re-derivation |
| `DeleteSparesAlways` | a delete changes no other day, whatever ran since its reads |
| `DeleteSparesLocked` | a delete keeps locked bills and payouts of locked months |
| `PairsRemovedWhole`, `OwnBillsRemoved` | with current links a delete removes its own bills and whole pairs |
| `TypeCorrect` | `CaptureMedia` keeps its types, and no tray exceeds its limit |
| `PurgeSpares` | beside one other request a purge deletes nothing that stayed held while it ran, stops and failures included, but for the photos of a day deleted meanwhile |
| `MediaThere` | one branch, one request at a time, whatever fails or stops: trays and saved entries refer to nothing deleted but what a failed request was in the middle of |
| `SeatsTypeCorrect` | `StaffSeats` keeps its types |
| `AdminsSeated` | until a request has written between the reads and the write of another, active admins never exceed the seats, however many requests are in flight |
| `CallsAreTheirMakers` | `Session` implements `SessionPromise`: for users who sign in once the calls of the one before have ended, a call is carried out at most once, as whoever made it |
| `SessionEndsBySigningOut` | for such users, on a network that loses nothing, without reloads and deactivated accounts and with refreshes a second apart, a session ends by signing out only |
| `SigningOutClears` | with nothing else in flight at the sign-out, and no reload in the second of its tokens, nobody signed in means no tokens in the browser, but those of a password confirmed in a session given up meanwhile |
| `LockedStay` | without failed requests and restarts no step of form or drawer, overlapping or not, touches a locked bill but to unlock it; excepted is reading the API's books again after a day the user did not wait for, or that was locked meanwhile |
| `LinesStay` | for users who wait for each operation, where a day's lines have ids of their own, no bill that stays loses its last line, whatever fails, but to its removal or because it is locked |
| `BooksStayAgreed` | for users who wait, while nothing fails, is locked or interrupted, days and bills agree whenever nothing is under way: a linked line has a bill of its kind to itself, a purchase one like it; and if the cashbook is saved first, every line is linked and every bill has its line |
| `FormTypes` | `ExpenseForm` keeps its types |
| `PaidRowsFollowBills` | once the card has been synced, a supplier has one Paid row if it has a bill and none otherwise; on a new day what a supplier nobody typed a payment for is paid equals its bill |
| `SavedBillsArePaid` | a saved day has a payment for every bill |
| `PaymentsAreKept` | no edit of the card but deleting it takes a payment that was entered by hand, unless it is of the very amount of its supplier's bill, and becomes its Paid row |
| `PaidFieldReplacesAmount` | the Paid field of a supplier with a bill replaces what it shows, on a new day and once the card of an opened day was changed (before that it adds a second payment) |
| `PostingTypes` | `SalaryPosting` keeps its types: whatever is edited, saved or rebuilt, registers stay registers |
| `RebuildMirrorsLines` | a rebuild gives every staff line of an active employee one payout, whatever was locked, deleted or edited before, and a second rebuild changes nothing |
| `RebuildSettlesOldest` | a rebuild leaves no regular payout in a month while an earlier one is owed, nor in a month after its own |
| `CreditIsKept` | what is due and what was paid make up the pay and the credit carried on, in every month |
| `PayoutChangesOneLine` | while users wait for answers, the answer to a payout changes one line of one day |
| `NobodyOverpaid` | while users wait for answers, nothing is refused, one line is saved at a time, salaries stay and there are no advances, nobody is paid more than all months together earn |
| `PoolIsGivenOut` | the service charge pool is given out to the unit, each share less than a unit from its exact part (`PoolRounds`: for any number of rows, percentages and pool) |
| `FifoTypes` | `PaymentFifo` keeps its types |
| `PaymentsGivenOnce` | no payment is given out for more than it is, no bill paid more than it is of, and the two never meet twice |
| `OldestBillsPaidFirst` | a bill is paid only when all sooner ones of its supplier are settled, by payments no later than its own |
| `BalancesKept` | in the end what is due to a supplier is what its bills are of less what it was paid, or nothing |
| `UnsavedAlwaysShown` | in `SalaryStore` unsaved edits have a save to come, one in flight, or an error on display, unless a flush has met no token |
| `RosterAlwaysKept` | in a terminal of one branch no save of `RosterStore` loses an employee nobody took off: of the first directory never, of those saved since only after a request was sent before the one before it was served |
| `LoadsAlwaysSpareUnsaved` | no load of `SalaryStore` replaces an edit that waits for its save, also if requests fail |
| `DeletedAlwaysStayDeleted` | on a calm network no save of `CashbookStore`, on a quiet one and for one branch none of `SalaryStore`, brings back rows of a deleted day |
| `AlwaysConverged` | on a calm network each of the three stores has what the API has whenever nothing is pending (`SalaryStore`, `RosterStore`: for one branch) |

*Argument for the books.* `TypeOK` is inductive by itself; the module splits it into the tables and `derived`,
because every handler ends by deriving from typed tables (`SyncedType`). `LinksResolve` is inductive with
`TypeOK`: a handler that drops rows relinks all lines against what is left, so lemmas about `Relink` carry the
step; the register's own nesting comes from its inputs being nested. `ProjectionCurrent` needs both: most
handlers establish it by `syncPayables`, the ones that do not derive again must not change what the projection
reads, and `RemoveCategory` must change both sides alike (`DailyRelinked`), and relinking against an unchanged
set must change nothing, which is where `LinksResolve` is used (`DailyUntouched`). The delete properties follow
from `OnlyRemoveDeletes` (no other handler makes a day absent) and the definitions of the sets a delete takes,
which count other days' lines at the moment of the transaction. That is why stale links can lose a pair but
never harm another day.

*Argument for the photos.* Whatever a session, a form, an entry or a request of a branch names was handed out for
that branch or is gone (`Belongs`), and what is gone stays gone (`AssetsFade`). `PurgeSparesHeld` needs to know why a
photo may not slip between the two reads of a purge. After the first, what was held all along is spared or still on
an entry; if a session holds something that is neither (a request wrote back what it had read), then that request
was the second one, so no save is under way that did not itself delete what it takes off its entry, and none that
begins later can be another (`EntriesSpare`, `Replaces`, `Two`). With a third request this fails (section 6).
`MediaExists` rests on where a photo is: of one day, and on its way, on the tray or saved; on the form only if
assigned from the open session (`Placed`, `Assigned`), so that what a request is about to delete lies nowhere else
(`Free`), and the only references to deleted photos are those of the entry that a save is about to replace
(`Present`, `Doing`), or a day's deletion. A failure or a stop in that moment leaves such references for good, and so
does a photo that is claimed by the form while taking it off the tray fails: these photos are the ones of `torn`, and
the invariant says of all others where they are. What a request has deleted is among what its failure would leave half
done (`DroppingHalfDone`), which carries the step in which it fails.

*Argument for the seats.* `AdminSeats` is not inductive: a write follows its check by a step. The strengthening
`SeatInv` adds, for every request in flight, that its write is covered: it will take no new admin seat, or one is
free (`Covered`). Any number of requests may be between their reads and writes, and all be covered by the same free
seat; what ends it is a write beside another request, which `overlapped` remembers. The code does not prevent that,
and then the seats may be exceeded (section 6).

*Argument for the sessions.* Both theorems rest on what a token pair can be. `IssuedFacts` says that a pair just
issued was spare, or the same user's of the same second, so that no call or session in hand changes its
owner under it. For the refinement, `OneUser` says that every pair in storage, in a call or in the refresh, and every
call under way, belongs to the user who signed in last: a call that is sent again with new tokens is sent as its
maker. It is inductive only for users who wait until the calls of the one before have ended (`mode.patient`, which the
properties name; the code does not make them). Init maps to init, and each action
maps to `SignIn`, `Make`, `CarryOut`, `End` or a stutter. For `SessionEndsBySigningOut`, `Kept` says that a session
has a pair in storage whose refresh token has been revoked only if a refresh has been answered with a pair that
has not, and that a call sent again carries a token the API takes: no refresh is refused, no call twice.
`SigningOutClears` is about what could put tokens back: a sign-out under way is alone (`AloneOut`), tokens are stored
exactly while somebody is signed in or a confirmation came late (`late`), and a call sent again carries a token the API takes, so nobody gives up the
session while a refresh is in flight (`Tidy`). Looking for that invariant showed where the property fails, and
`SignedOutIsClear` now excludes it: a page loaded again during a sign-out in the second of its tokens.

*Argument for the days and bills.* `IInv` of `DayBooksProofs` says four things. The links of a day lead to bills the API
has, and the terminal's copy of the day has them too (`Links`): so whatever the form replaces, it knew. While the user waits,
what the form sends has a line for every bill its day had that is still there and not locked (`PostHas`). The first row in flight
of a bill that moves has that bill, or another day does, and loses none of its day's other bills (`OneRow`,
`TwoRows`), also when a saved cashbook unlinks lines in between (`RowStillHas`). And a removal from the drawer is of one
bill (`UnlinkIs`).  Where the user does not wait, only the types, the links and what each of the waiting operations
holds (`OthersAre`) are left of the invariant; they are enough for `LockedStay`, as the lock is looked at in memory in
the very step that removes a bill. What the form posts is built up line by line, and `PostedKeeps` says what becomes of all of them. It is
proved by an induction over the subsets of the lines that is said of a set, not of an operator (`SubsetInduction`, from
the well-foundedness of the numbers), so the days are assumed to be finitely many, which `DayBooksAssumption` says.
`LineNeverLost` was once stated without `OwnIds`. The proof did not go through, and TLC, given five acts with
failures, showed why: the ids of a day's lines need not differ (section 6).

`BooksAgree` speaks of moments with nothing under way; in between the books do not agree, and its invariant has to say
what they owe (`SoundInv`). The days to compare with the terminal's cashbook are the ones there will be once the form's
day or the drawer's rows are saved (`Sent`), seen from the API's days and from the terminal's copy, which have the same
ids and bills (`SameSets`). Of these, every line has an id of its own among all days and fits a bill that no other line
has (`Good`), and every purchase has a line (`Agree`), but for the bill the drawer is about to bring to its day or the
bills whose lines it is taking off (`Exempt`). A line that is not linked fits everything: the API drops the link to a bill it does not have yet, so saving
the day first keeps all that is said of linked lines. That every line is linked and every purchase has one is kept
only if the cashbook is saved before the day, and it is what `Agree` adds then (its last argument); `RelinkedIsGood`
needs the API to have the bills of the lines it is sent for no more than that. The form's part is `PostedFits`, by the
induction over subsets: the bills of the new lines replace those of the old ones exactly, and other days' stay. Here
locks are left out because they break it: a locked bill keeps its old amount beside a line that was edited.

*Argument for the form.* The card is synced over its rows with folds: over the rows, and over the suppliers one after
the other, each finding, retagging or adding the Paid row of its bill. `Inv` of `FormAndRegisterProofs` says what every sync
leaves: a tagged row is paid to the supplier of its tag; no supplier has two tagged rows; once the card has been
synced a supplier has one if and only if it has a bill; on a new day the rows of a supplier nobody typed a payment
for are that one row, of the bill's amount. A saved day has no tags and a payment for every bill. That serving one
supplier leaves the others' rows alone (so that the order of the suppliers does not matter) is a lemma about a single
step; a fold of such steps is followed by an induction over the subsets of the suppliers, which is said of a set and a
function, not of an operator (`SubsetInduction`, `FoldExists`), and sums over rows likewise (`SumsAgree`, `SumRemove`).
`Vendors` is assumed finite. The proof of `PaymentsKept` failed at first: a payment of the very amount of the bill is
retagged as its Paid row and follows the bill from then on; the property now says so.

*Argument for the registers.* The rebuild goes over the staff lines in the order of day and id, and posts each to the
oldest month that still owes. `StaffLines` is a finite set (`DayLines`), every subset of it that is not empty has one
last line (`LastIsLast`), and so the fold is the same as adding lines one at a time, always the last (`Rebuilds`).
What holds of the cleared registers, and stays when the last line is posted, holds of the rebuilt ones: each line
posted has its payout once and nothing else is there (`Placing`); what is owed only falls, month by month,
because a payout can only raise the credit carried on (`OwedDown`), so a month settled when a payout was posted to a
later one stays settled (`Settling`). That a second rebuild changes nothing is a statement about two runs:
one from the registers as they are, one from the registers the first has left. They post each line to the same month
although they do not have the same sheets before, because a month without a sheet and a month whose sheet is cleared
owe the same (`Alike`). It needs that everybody on the lines is active; section 5 tells what happens otherwise.
`CreditIsKept` is an induction over the months, of sums. `PayoutIsOneLine` needs `OneAtATime`: while users wait, the
terminal's days are the API's, and at most one payout is in flight, whose request differs from its day by one line.

`NeverOverpaid` is far from inductive. A payout is checked against what the terminal's registers say is due, so the
invariant (`Thrift`) has to tie these to the days. Under the modes the property names, the saved registers
are the terminal's unless these wait to be saved, and so are those in flight; everybody is as hired in every month
(`Uniform`); every staff line has its payout in the registers (`Recorded`); the lines, with the one a payout in flight
asks for, fit into what the months pay (`Fits`); and no credit is left after the last month, unless all payouts are in
the first (`Quiet`). The last is what settling the oldest dues first is for: with credit left over, what the months
still owe is more than what they pay less all payouts, and a payout of what is due would exceed the earnings.
`RebuildQuiet` says that every rebuild leaves the registers so. Then what is owed is what the months pay less all
payouts (`WorthIs`, `MonthsPaid`), so that an amount checked against it fits (`Affordable`).

The service charge is arithmetic: the shares, rounded down, miss the rounded pool by some units, which go one
each to the rows with the largest fractions. `PoolGivenOut` says that these units are never more than the rows that
have a fraction, and `RankCount` that exactly as many rows have fewer than k before them as k says, in any strict
total order of a finite set: so each unit is given, and once.

*Argument for the allocation.* The theorems have `FifoAssumption` as their hypothesis: ids are numbers, the two tables
finite and typed, and `NoSupplier` is no supplier. `FifoInv` keeps the books of the two loops. What a bill was given and what remains of it
are its total (`BillsBalance`). What a payment gave and what is left to give are its amount, and one that was taken
and not given out whole has found no bill of its supplier with anything left (`PaysBalance`). The payment being given
out has paid every bill it has left behind (`Progress`), which is why bills are settled in their order (`InOrder`) and
none meets it twice (`GivenOnce`). For the balance, what was given is added up twice, by bills and by payments
(`GivenSorted`): bills are more by what is due, payments by what found no bill, and one of the two is nothing.

*Argument for the stores.* `UnsavedIsShown` is not inductive. A flush ends the debounce and leaves the saving to
the PUT the store waits for, so that PUT has to be in flight (`Awaits`); and a commit in flight carries the edits
made before it alone, so the invariant counts PUTs only (`Covered`). A PUT leaves its slot in two ways: its answer
clears the dirty flag, or it failed and sets the error, unless a flush waited for it and sends its own.
A flush may find no token after it has ended the debounce; that state, which
shows nothing, has its name in the invariant (`untold`) until the next edit or save.
`RosterKept` speaks of the API's roster; of those there at first, inductive is that everybody to be kept is in every roster that may still
be written: those of saves in flight and of loads on the way back (`Whole`), and the one in memory from the first
load on, before which nothing is saved (`Held`). Of those saved since, it takes that requests are served in the order
they are sent (`InTurn`, until `crossed`): then each roster sent later has whoever an earlier one has, but those taken
off (`Since`, `Remembered`), while an overtaken one has not. The theorem assumes `OneBranch`, since signing out resets nothing of that
store (section 6).

On a calm network, one that answers within the debounce and does not fail, the three stores agree with the API for
one reason, which no rule of theirs states: whatever writes is alone in flight (`Apart`, `Alone`). Nothing is
written before the first load of a session; after it nothing is loaded but by who has just written; a debounce ends
when nothing is in flight, and a flush waits for the PUT under way, so that a second write follows the first.
`Apart` is inductive together with who loads and who waits (`Loaded`, `Awaits`, `Phases`), and makes the rest local:
what was served is what the API has, what is being saved is what is on the screen unless a save will follow
(`Agreed`), and a deleted day is in nothing that may still be written (`Clean`). The salary store adds the dirty
flag, which must be clear when a load is relied on (`Orderly`), and the roster that edits made before the load are
marked for it. `LoadsSpareUnsaved` needs less: a debounce never runs beside a PUT, and always for an edit
(`Debounced`). Off a calm network `Apart` is false, and so is agreement (section 6).

Assumptions: the named `ASSUME`s of the modules, which TLC evaluates in every run, and `OneBranch` in the statements of
the theorems that need it. Everything else is a condition in the property itself.

Only model-checked: the liveness of the stores, `EventuallyLoaded` and `EventuallySettled` (liveness and `ENABLED` are
out of the prover's reach). Every other property of a passing run is stated by a theorem. What a fold computes is proved where it is needed: `FoldExists` and `Rebuilds` turn it into a
function over the subsets of a finite set, to which an induction that is said of sets applies (`SubsetInduction`); the
library's own theorems about folds take an operator and cannot be used.

## 5. Finding of the runs

**Dropped payouts** (`found_dropped_payout`). The rebuild of the registers adds the payouts of all days one after
the other. Each is added through `ensureMonthDoc`, which first brings the month's rows in line with the active
employees (`syncStaffExpensesToSalaryRegister.ts:136`): the row of somebody who has left, filled by the payout before,
is dropped and made anew with the next payout alone. Of several payouts of a month to an employee who then left,
the last one stays, while the comment at line 343 says that payouts are kept in sync with the staff lines.
For active employees they are: `RegisterMirrors`.

## 6. What the code does not promise

These interleavings are behaviours of the models, too. No property claims their absence; where a property
excludes one by a mode or a condition, its name is given.

Books and API:

- A delete reads its day's lines before its transaction (`daily-entries.service.ts:419`). If a save pairs an order
  with a bill in between, the delete removes the order and keeps the bill, which the comment at line 460 says it
  avoids (`NoHalfRemovedPair` asks for links that are still current).
- A save or delete that checked the lock before a day was locked still lands (`daily-entries.service.ts:267`).
- A payment recorded between the count and the delete goes with its expense (`expenses.service.ts:306`).
- A register saved without a line takes a user's payments on that line by a cascading key (`schema.prisma:728`).
- Two requests that find the last seat free both take it (`staff.service.ts:280`). Reactivating an account checks
  one tier and prefers admin (`portal-access.ts:19`): with roles of both, it takes a manager seat unchecked.
- A capture session's key is the date, without the branch (`capture-sessions.service.ts:217`): a branch that opens
  its session of a day replaces another's and deletes the media assigned there.
- A photo presigned and not yet registered, a photo of a save under way, and a photo saved while its form is
  left may be deleted by a purge or a discard (`capture-sessions.service.ts:268`, `storage.service.ts:268`,
  `DailyEntryFormView.tsx:3160`).
- Saving a day and deleting one delete media before the transaction that drops their references
  (`daily-entries.service.ts:283`, 413); if that fails, the entry refers to media that are gone. A photo whose way from
  the tray to the form fails is on both (`DailyEntryFormView.tsx:4087`), and is deleted from the tray later
  (`MediaExists` excepts these).
- Sessions are written back as they were read. If one request writes back a photo that has meanwhile been saved and
  taken off the session, and a save that knew nothing of the photo replaces the entry, both between the two reads of a
  purge, the purge finds it on neither list. This takes three requests at once (`PurgeSparesHeld` allows two).

Stores:

- `schedulePersist` overwrites `persistInFlight` while an older PUT is on its way (`ledgerWorkspaceStore.ts:281`).
  The flush before a delete waits for one PUT; the other may be served after the delete and write the removed
  bills again (`DeletedStayDeleted` asks for answers within the debounce).
- A cashbook PUT on its way when a day is committed is served before or after the commit
  (`ledgerWorkspaceStore.ts:401`); a fetch on its way at sign-out is applied to the next session (line 350).
- The salary and roster stores keep their rows at sign-out, and the next session starts from them
  (`salaryWorkspaceStore.ts:222`, `employeeDirectoryStore.ts:200`).
- A save that is answered after a newer edit clears the newer edit's dirty flag (`salaryWorkspaceStore.ts:144`).
  A failed flush, or an edit while the reload is on its way, brings removed payouts back (`DailyEntryFormView.tsx:4895`).
- A flush of the registers ends the debounce before it looks for a token; without one it throws, sets no error, and
  its callers drop what is thrown (`salaryWorkspaceStore.ts:285`; the comment at `EmployeeModuleView.tsx:279` counts on
  the error being shown). The edits stay unsaved and unsaid until the next edit or save (`UnsavedIsShown`).
- Two rosters on their way are served in either order, and the older one, served last, loses whoever was added in
  between (`RosterKept`, once requests cross).
- Rows that follow the roster drop those of employees who left, in months that are not locked
  (`salarySheetStorage.ts:261`).
- Somebody added while an empty directory loads is dropped by the merge (`employeeDirectoryStore.ts:99`).

Days, bills and payouts:

- The drawer sends the cashbook within the debounce and the day at once (`LedgerModuleView.tsx:3161`). When the
  day is first, the API drops the line's link to a bill it does not have yet, and a later edit of the bill appends
  a second line (`BooksAgree` asks for `prompt` where it says that every line is linked).
- The drawer stays open and the list usable while a day is read and sent whole (`LedgerModuleView.tsx:3131`, 3187). Two
  operations that overlap each send the day as they read it, and the second drops the line of the first; a bill that
  stays has lost its line with nothing failed (`BooksAgree` and `LineNeverLost` ask for a `patient` user).
- Saving a day changes the cashbook in memory before the registers are read; if that fails, the form stops there
  (`DailyEntryFormView.tsx:4676`), and the debounce saves a cashbook whose day was not saved (`BooksAgree` asks that
  nothing fails).
- Deleting a cashbook takes its lines off the days first; if a bill turns out to be locked, the book stays and
  its purchases are gone from the days (`LedgerModuleView.tsx:1507`).
- A bill that moves to another date keeps its line's id. If the second save of the move fails, the line stays on both
  days; one of them edited and the bill moved back, two lines of one day share the id, and the form, which matches a
  day's lines by id, may post one as the other and leave a bill without a line
  (`upsertDailyPurchaseFromLedgerInvoice.ts:268`; `LineNeverLost` asks for `OwnIds`).
- A saved day is opened without tags: a Paid amount typed then becomes a second payment beside the one shown,
  until the card changes (`DailyEntryFormView.tsx:3677`; `PaidFieldReplaces`).
- A bill wholly on credit cannot be saved from the form: its Paid row is hidden and not valid at zero
  (`SavedBillsPaid` states what that means for saved days).
- A payout whose answer is lost can be recorded again; with salaries lowered, advances or several lines saved at
  once, more is paid than earned (`NeverOverpaid`).

Sessions:

- Signing out does not wait for calls in flight, and the next user may sign in before they end: a call refused
  before the sign-out is sent again as the next user, and a refresh answered after it puts the old tokens
  back (`http.ts:115`; `CallsActForTheirMaker`, `SignedOutIsClear`).
- Two refreshes within a second give the same tokens, the ones just revoked, and the session ends at the next
  one (`token.service.ts:39`; `SessionSurvives`). If the page is loaded again during a sign-out in that second, the
  revoked tokens stay in the browser, and a refresh in flight when the session is given up stores new ones
  (`SignedOutIsClear`).
- Confirming a password waits for the API and then writes its tokens, whether or not the session is still there
  (`verifySessionPassword.ts:49`): after a sign-out, or a session given up, they stay with nobody signed in
  (`SignedOutIsClear` excepts a confirmation that is answered after its session).
- A password is confirmed as the user the sign-in page remembers. Another tab may have signed in as somebody else
  since (`verifySessionPassword.ts:24`); a second tab is not modelled.

## 7. Not modelled

- The kind of a supplier by its name, the conversion of amounts for the API. `BranchBooks` takes which payments settle
  which orders as the parameter `Settle`: its proofs hold for `PaymentFifo`'s allocation and every other, and
  `books_tables` uses the one in which every payment settles every order.
- Returns do not enter what is due of a bill: the API sums the returns of an expense, but nothing in it makes one.
- RBAC (checks without state), audit and health, read-only reports, layout and input handling of the views,
  scripts, seeds and deployment.
- The chain of opening and closing cash: a day's closing follows from its own figures, and later days are not
  changed when an earlier one is; a script run by hand (`recompute-daily-cash-chain.mjs`) repairs them.
- S3 failures (an orphaned object only costs space) and session expiry in Redis (a close without its purge).
- Several terminals on one branch: the last whole-book PUT wins by design. Only `SalaryPosting` has another
  terminal, which locks days.
- Returns, imports, notes, receipts and cashbook-only entries of the drawer; lines of the form other than
  purchases and supplier payments.

## 8. The plan

1. `books_tables` with an allocation of `PaymentFifo` as `Settle`, which needs amounts in `BranchBooks`.
2. An abstract store without network (`edit`, `saved`, `loaded`) which a store with at most one request in flight
   implements, for the cashbook first.
