---------------------------- MODULE SalaryStore ----------------------------
(***************************************************************************)
(* The terminal's copy of the salary registers (salaryWorkspaceStore), as  *)
(* the salary module and the daily entry form use it.  Unlike the cashbook *)
(* store it keeps a dirty flag: a load is not asked for, and its answer is *)
(* not applied, while unsaved edits are pending.                           *)
(*                                                                         *)
(* A bundle of registers is the set of its rows (pay lines and payouts).   *)
(* Requests are sent, served later and answered later still, in any order. *)
(***************************************************************************)
EXTENDS FiniteSets, Integers

CONSTANTS
  Branches,    \* branches somebody signs in to from this terminal
  Rows,        \* ids of rows
  InitRows,    \* the rows each branch has at first
  DayRows,     \* the payouts the API removes with the day that is deleted
  Left,        \* rows of employees who left, dropped when rows follow the roster
  Slots,       \* requests in flight at the same time
  Modes,       \* ways the network and the users may behave, one of which a behaviour has
  None         \* nobody, no request, no promise

(* Network "quiet": requests are answered within the debounce and before   *)
(* the user acts; only a delete or a flush may find a PUT in flight.       *)
(* "calm": an edit may find a load in flight, too.  "any": requests take   *)
(* as long as they take.  Failures: requests may fail.  Acts: how often    *)
(* the user edits, flushes, saves, deletes, closes, signs in or out.       *)
Mode == [network : {"quiet", "calm", "any"}, failures : BOOLEAN, acts : Nat]

ASSUME ConstantsAssumption ==
  /\ InitRows \in [Branches -> SUBSET Rows]
  /\ DayRows \subseteq Rows /\ Left \subseteq Rows
  /\ Modes \subseteq Mode
  /\ None \notin Branches \cup Slots \cup {"settled"}

VARIABLES
  server,           \* the registers of each branch in the database
  user,             \* the branch signed in to, or None
  bundle,           \* the rows in the terminal's memory
  localDirty,       \* edits the API may not have
  saveError,        \* the error of the last save is on display
  untold,           \* a flush ended the debounce and gave up for want of a token, and said nothing
  loadedFromApi,    \* the last load was answered well
  loadPromise,      \* None, the request of a load, or "settled"
  persistTimer,     \* the debounce is running
  persistInFlight,  \* the debounced PUT whose answer the store waits for, or None
  net,              \* the requests in flight
  flow,             \* what the daily entry form is doing
  awaited,          \* the PUT a flush waits for, or None
  deleted,          \* branches whose day was deleted
  acts,             \* user actions so far
  mode              \* how this behaviour's network and user are

store == <<bundle, localDirty, saveError, untold, loadedFromApi, loadPromise, persistTimer, persistInFlight>>
form == <<flow, awaited>>
api == <<server, deleted>>
vars == <<store, form, api, user, net, acts, mode>>

Free == [kind |-> "free", branch |-> None, rows |-> {}, stage |-> "none"]

(* "put" the debounced one, "flush" one asked for in the salary module,    *)
(* "settle" the flush before a delete, "unload" one nobody waits for.      *)
Puts == {"put", "flush", "settle"}
Kinds == Puts \cup {"unload", "commit", "delete", "load"}
Flows == {"none", "flushing", "settling", "deleting", "saving"}

Request == [kind : Kinds, branch : Branches, rows : SUBSET Rows,
            stage : {"sent", "served", "failed"}]

Busy(i) == net[i] # Free
Idle(i) == net[i] = Free
OnlyInFlight(kinds) == \A i \in Slots : Idle(i) \/ net[i].kind \in kinds

Message(kind, rows) == [kind |-> kind, branch |-> user, rows |-> rows, stage |-> "sent"]
Send(kind) == \E i \in Slots : Idle(i) /\ net' = [net EXCEPT ![i] = Message(kind, bundle)]

Act(inFlight) ==
  /\ acts < mode.acts
  /\ mode.network # "any" => OnlyInFlight(inFlight)
  /\ acts' = acts + 1
  /\ UNCHANGED mode

(* What an edit may make of the bundle: rows the API removed with a day    *)
(* are not made again, and nobody touches those of employees who left.     *)
Edited(rows) ==
  /\ rows \cap DayRows \subseteq bundle
  /\ rows \cap Left = bundle \cap Left
  /\ \A b \in Branches \ {user} : rows \cap InitRows[b] \subseteq bundle

-----------------------------------------------------------------------------
(* Edits, the debounced save and the flush the salary module asks for.     *)

setSalaryBundle ==
  /\ Act(IF mode.network = "quiet" THEN {} ELSE {"load"})
  /\ user # None
  /\ \E rows \in SUBSET Rows : Edited(rows) /\ rows # bundle /\ bundle' = rows
  /\ localDirty' = TRUE
  /\ saveError' = FALSE /\ untold' = FALSE
  /\ persistTimer' = TRUE
  /\ UNCHANGED <<loadedFromApi, loadPromise, persistInFlight, form, api, user, net>>

(* Faulty: without a token nothing is said.                                *)
TimerEndsUntold ==
  /\ persistTimer
  /\ mode.network # "any" => OnlyInFlight({})
  /\ persistTimer' = FALSE
  /\ UNCHANGED saveError
  /\ \/ user = None /\ UNCHANGED <<net, persistInFlight>>
     \/ /\ user # None
        /\ \E i \in Slots : /\ Idle(i)
                            /\ net' = [net EXCEPT ![i] = Message("put", bundle)]
                            /\ persistInFlight' = i
  /\ UNCHANGED <<untold, bundle, localDirty, loadedFromApi, loadPromise, form, api, user, acts, mode>>

TimerEnds ==
  /\ persistTimer
  /\ mode.network # "any" => OnlyInFlight({})
  /\ persistTimer' = FALSE
  /\ \/ /\ user = None
        /\ saveError' = TRUE
        /\ UNCHANGED <<net, persistInFlight>>
     \/ /\ user # None
        /\ saveError' = FALSE
        /\ \E i \in Slots : /\ Idle(i)
                            /\ net' = [net EXCEPT ![i] = Message("put", bundle)]
                            /\ persistInFlight' = i
  /\ UNCHANGED <<untold, bundle, localDirty, loadedFromApi, loadPromise, form, api, user, acts, mode>>

(* What a flush does once no PUT is awaited: it sends one of its own, or   *)
(* throws without a token; the callers that wait for no answer drop that   *)
(* error, and the form's delete is then refused for the same reason.       *)
FlushNow(kind, flowName) ==
  /\ IF user # None
     THEN /\ Send(kind)
          /\ saveError' = FALSE /\ untold' = FALSE
          /\ flow' = IF kind = "settle" THEN flowName ELSE "none"
     ELSE /\ untold' = TRUE
          /\ UNCHANGED <<net, saveError, flow>>
  /\ UNCHANGED awaited

(* Faulty: does not wait for a PUT in flight.                              *)
BeginFlushAtOnce(kind, flowName) ==
  /\ flow = "none"
  /\ persistTimer' = FALSE
  /\ FlushNow(kind, flowName)

(* A flush ends the debounce first, whether or not there is a token, and   *)
(* waits for the PUT the store waits for, if any.                          *)
BeginFlush(kind, flowName) ==
  /\ flow = "none"
  /\ persistTimer' = FALSE
  /\ \/ /\ persistInFlight # None
        /\ awaited' = persistInFlight
        /\ flow' = flowName
        /\ UNCHANGED <<net, saveError, untold>>
     \/ persistInFlight = None /\ FlushNow(kind, flowName)

flushSalaryEdits ==
  /\ Act({"put"})
  /\ BeginFlush("flush", "flushing")
  /\ UNCHANGED <<bundle, localDirty, loadedFromApi, loadPromise, persistInFlight, api, user>>

(* Closing the tab sends what is unsaved and forgets everything; nobody    *)
(* waits for the answers any more.                                         *)
CloseTab ==
  /\ Act({})
  /\ \/ /\ localDirty /\ user # None
        /\ \E i \in Slots :
             /\ Idle(i)
             /\ net' = [j \in Slots |->
                  CASE j = i -> Message("unload", bundle)
                    [] j # i /\ Busy(j) /\ net[j].kind # "load" -> [net[j] EXCEPT !.kind = IF @ \in Puts THEN "unload" ELSE @]
                    [] OTHER -> Free]
     \/ /\ ~localDirty \/ user = None
        /\ net' = [j \in Slots |-> IF Busy(j) /\ net[j].kind # "load"
                                   THEN [net[j] EXCEPT !.kind = IF @ \in Puts THEN "unload" ELSE @] ELSE Free]
  /\ flow \in {"none", "flushing"} /\ flow' = "none" /\ awaited' = None
  /\ bundle' = {} /\ localDirty' = FALSE /\ saveError' = FALSE /\ untold' = FALSE
  /\ loadedFromApi' = FALSE /\ loadPromise' = None
  /\ persistTimer' = FALSE /\ persistInFlight' = None
  /\ UNCHANGED <<api, user>>

-----------------------------------------------------------------------------
(* Loads, and the session around them.                                     *)

(* A fetch, in the slot i.  Without a token it fails at once.              *)
LoadIn(i) ==
  /\ loadedFromApi' = FALSE
  /\ IF user = None
     THEN net' = [net EXCEPT ![i] = Free] /\ loadPromise' = "settled"
     ELSE net' = [net EXCEPT ![i] = Message("load", {})] /\ loadPromise' = i

loadSalaryWorkspace ==
  /\ loadPromise = None
  /\ mode.network # "any" => OnlyInFlight({"load"})
  /\ \E i \in Slots : Idle(i) /\ LoadIn(i)
  /\ UNCHANGED <<untold, bundle, localDirty, saveError, persistTimer, persistInFlight, form, api, user, acts, mode>>

(* The salary module opens, or the tab is shown again.                     *)
reloadSalaryWorkspace ==
  /\ ~localDirty
  /\ loadPromise # None
  /\ mode.network # "any" => OnlyInFlight({"load"})
  /\ \E i \in Slots : Idle(i) /\ LoadIn(i)
  /\ UNCHANGED <<untold, bundle, localDirty, saveError, persistTimer, persistInFlight, form, api, user, acts, mode>>

(* Nothing of the store is reset when the session changes.                 *)
SignIn(b) == /\ Act({}) /\ user = None /\ user' = b
             /\ UNCHANGED <<store, form, api, net>>

SignOut == /\ Act({}) /\ user # None /\ user' = None
           /\ UNCHANGED <<store, form, api, net>>

-----------------------------------------------------------------------------
(* The daily entry form.                                                   *)

(* Save: with the registers loaded, the day's payouts are edited in, the   *)
(* debounce and the dirty flag dropped, and everything sent at once.       *)
BeginSave ==
  /\ Act({})
  /\ flow = "none" /\ flow' = "saving"
  /\ user # None
  /\ loadPromise = "settled"
  /\ \E rows \in SUBSET Rows, i \in Slots :
       /\ Edited(rows)
       /\ bundle' = rows
       /\ Idle(i)
       /\ net' = [net EXCEPT ![i] = Message("commit", rows)]
  /\ localDirty' = FALSE /\ saveError' = FALSE /\ untold' = FALSE /\ persistTimer' = FALSE
  /\ UNCHANGED <<loadedFromApi, loadPromise, persistInFlight, awaited, api, user>>

BeginDelete ==
  /\ Act({"put"})
  /\ BeginFlush("settle", "settling")
  /\ UNCHANGED <<bundle, localDirty, loadedFromApi, loadPromise, persistInFlight, api, user>>

-----------------------------------------------------------------------------
(* The API and the network.                                                *)

Serve(i) ==
  /\ Busy(i) /\ net[i].stage = "sent"
  /\ LET b == net[i].branch
         kind == net[i].kind
     IN  /\ net' = [net EXCEPT ![i].stage = "served",
                               ![i].rows = IF kind = "load" THEN server[b] ELSE @]
         /\ server' = [server EXCEPT ![b] = CASE kind = "load" -> @
                                              [] kind = "delete" -> @ \ DayRows
                                              [] OTHER -> net[i].rows]
         /\ deleted' = IF kind = "delete" THEN deleted \cup {b} ELSE deleted
  /\ UNCHANGED <<store, form, user, acts, mode>>

(* A request that is not served, or a write whose answer is lost.          *)
Fail(i) ==
  /\ mode.failures
  /\ Busy(i)
  /\ net[i].stage = "sent" \/ (net[i].stage = "served" /\ net[i].kind # "load")
  /\ net' = [net EXCEPT ![i].stage = "failed"]
  /\ UNCHANGED <<store, form, api, user, acts, mode>>

Answered(i, kinds) == net[i].kind \in kinds /\ net[i].stage \in {"served", "failed"}
Ok(i) == net[i].stage = "served"

(* Faulty: the answer replaces whatever is in memory.                      *)
applyLoadedAnyway(i) ==
  \/ bundle' = net[i].rows
  \/ bundle' = net[i].rows \ Left

(* Applied only if there are no unsaved edits; if the roster is loaded the *)
(* rows follow it.                                                         *)
applyLoadedBundle(i) ==
  \/ localDirty /\ UNCHANGED bundle
  \/ ~localDirty /\ bundle' \in {net[i].rows, net[i].rows \ Left}

LoadAnswered(i) ==
  /\ Answered(i, {"load"})
  /\ net' = [net EXCEPT ![i] = Free]
  /\ loadPromise' = IF loadPromise = i THEN "settled" ELSE loadPromise
  /\ loadedFromApi' = Ok(i)
  /\ IF Ok(i) THEN applyLoadedBundle(i) ELSE UNCHANGED bundle
  /\ UNCHANGED <<untold, localDirty, saveError, persistTimer, persistInFlight, form, api, user, acts, mode>>

(* Rows follow the roster once both are loaded.                            *)
syncLoadedSalaryBundleToEmployees ==
  /\ loadedFromApi /\ ~localDirty
  /\ bundle' = bundle \ Left
  /\ bundle' # bundle
  /\ UNCHANGED <<untold, localDirty, saveError, loadedFromApi, loadPromise, persistTimer, persistInFlight,
                 form, api, user, net, acts, mode>>

(* Faulty: a failed save is not told.                                      *)
SavedQuietly(i, again) == localDirty' = (localDirty /\ ~Ok(i)) /\ saveError' = FALSE

(* What every save does to the store when it is answered; a save that      *)
(* follows at once takes the error off the display again.                  *)
Saved(i, again) == localDirty' = (localDirty /\ ~Ok(i)) /\ saveError' = (~Ok(i) /\ ~again)

PutSettled == persistInFlight' = None

(* A flush that waited for this answer sends its own PUT now, or gives up  *)
(* without a token; the delete goes on all the same.                       *)
PutAnswered(i) ==
  /\ Answered(i, {"put"})
  /\ PutSettled
  /\ Saved(i, awaited = i /\ user # None)
  /\ IF awaited = i
     THEN /\ awaited' = None
          /\ flow' = IF flow = "settling" /\ user # None THEN "settling" ELSE "none"
          /\ net' = [net EXCEPT ![i] =
               IF user = None THEN Free
               ELSE Message(IF flow = "settling" THEN "settle" ELSE "flush", bundle)]
     ELSE net' = [net EXCEPT ![i] = Free] /\ UNCHANGED <<flow, awaited>>
  /\ UNCHANGED <<untold, bundle, loadedFromApi, loadPromise, persistTimer, api, user, acts, mode>>

FlushAnswered(i) ==
  /\ Answered(i, {"flush"})
  /\ Saved(i, FALSE)
  /\ net' = [net EXCEPT ![i] = Free]
  /\ UNCHANGED <<untold, bundle, loadedFromApi, loadPromise, persistTimer, persistInFlight, form, api, user, acts, mode>>

(* Saved or not, the form asks for the delete, if there is a token.        *)
SettleAnswered(i) ==
  /\ Answered(i, {"settle"})
  /\ Saved(i, FALSE)
  /\ IF user # None
     THEN net' = [net EXCEPT ![i] = Message("delete", {})] /\ flow' = "deleting"
     ELSE net' = [net EXCEPT ![i] = Free] /\ flow' = "none"
  /\ UNCHANGED <<untold, bundle, loadedFromApi, loadPromise, persistTimer, persistInFlight, awaited, api, user, acts, mode>>

(* Faulty: a deleted day is not followed by a reload.                      *)
FlowAnsweredAlone(i) ==
  /\ Answered(i, {"delete", "commit"})
  /\ flow' = "none"
  /\ IF net[i].kind = "commit" /\ ~localDirty
     THEN LoadIn(i)
     ELSE net' = [net EXCEPT ![i] = Free] /\ UNCHANGED <<loadedFromApi, loadPromise>>
  /\ UNCHANGED <<untold, bundle, localDirty, saveError, persistTimer, persistInFlight, awaited, api, user, acts, mode>>

(* A day that was deleted, saved or not saved is followed by a reload,     *)
(* unless there are unsaved edits.                                         *)
FlowAnswered(i) ==
  /\ Answered(i, {"delete", "commit"})
  /\ flow' = "none"
  /\ IF (Ok(i) \/ net[i].kind = "commit") /\ ~localDirty
     THEN LoadIn(i)
     ELSE net' = [net EXCEPT ![i] = Free] /\ UNCHANGED <<loadedFromApi, loadPromise>>
  /\ UNCHANGED <<untold, bundle, localDirty, saveError, persistTimer, persistInFlight, awaited, api, user, acts, mode>>

UnloadAnswered(i) ==
  /\ Answered(i, {"unload"})
  /\ net' = [net EXCEPT ![i] = Free]
  /\ UNCHANGED <<store, form, api, user, acts, mode>>

-----------------------------------------------------------------------------
Init ==
  /\ server = InitRows
  /\ user = None
  /\ bundle = {}
  /\ localDirty = FALSE /\ saveError = FALSE /\ untold = FALSE
  /\ loadedFromApi = FALSE /\ loadPromise = None
  /\ persistTimer = FALSE /\ persistInFlight = None
  /\ net = [i \in Slots |-> Free]
  /\ flow = "none" /\ awaited = None
  /\ deleted = {}
  /\ acts = 0
  /\ mode \in Modes

AnswerStep(i) == LoadAnswered(i) \/ PutAnswered(i) \/ FlushAnswered(i) \/ SettleAnswered(i)
                 \/ FlowAnswered(i) \/ UnloadAnswered(i)

Next ==
  \/ setSalaryBundle \/ TimerEnds \/ flushSalaryEdits \/ CloseTab
  \/ loadSalaryWorkspace \/ reloadSalaryWorkspace \/ syncLoadedSalaryBundleToEmployees
  \/ SignOut \/ \E b \in Branches : SignIn(b)
  \/ BeginSave \/ BeginDelete
  \/ \E i \in Slots : Serve(i) \/ Fail(i) \/ AnswerStep(i)

Spec == Init /\ [][Next]_vars

(* Timers end; requests are served or fail, and are answered.  The API may *)
(* refuse every one of them.                                               *)
Fairness == WF_vars(TimerEnds) /\ \A i \in Slots : WF_vars(Serve(i) \/ Fail(i)) /\ WF_vars(AnswerStep(i))

FairSpec == Spec /\ Fairness

-----------------------------------------------------------------------------
(* The types; a PUT or a load the store waits for is in flight.            *)
TypeOK ==
  /\ server \in [Branches -> SUBSET Rows]
  /\ user \in Branches \cup {None}
  /\ bundle \in SUBSET Rows
  /\ {localDirty, saveError, untold, loadedFromApi, persistTimer} \subseteq BOOLEAN
  /\ loadPromise \in Slots \cup {None, "settled"}
  /\ loadPromise \in Slots => net[loadPromise].kind = "load"
  /\ persistInFlight \in Slots \cup {None}
  /\ persistInFlight \in Slots => net[persistInFlight].kind = "put"
  /\ net \in [Slots -> Request \cup {Free}]
  /\ flow \in Flows
  /\ awaited \in Slots \cup {None}
  /\ awaited \in Slots => flow \in {"flushing", "settling"} /\ net[awaited].kind = "put"
  /\ deleted \in SUBSET Branches
  /\ acts \in 0..mode.acts

(* A day is deleted after every pending salary edit is settled, so no      *)
(* later save brings its payouts back.  It takes that no flush fails and   *)
(* that nobody edits while the reload after the delete is in flight.       *)
DeletedStayDeleted ==
  mode.network = "quiet" /\ ~mode.failures => \A b \in deleted : server[b] \cap DayRows = {}

(* With nothing pending and nothing dirty, the terminal and the API hold   *)
(* the same rows, but for those of employees who left; a lost answer       *)
(* leaves them apart.                                                      *)
Converged ==
  (/\ mode.network # "any" /\ ~mode.failures
   /\ user # None /\ loadedFromApi /\ ~localDirty /\ ~persistTimer /\ \A i \in Slots : Idle(i))
     => bundle \ Left = server[user] \ Left

(* Unsaved edits are never silent: a save is coming or its error is shown. *)
(* The one exception is a flush that finds no token: it has ended the      *)
(* debounce, shows nothing, and until the next edit or save the edits are  *)
(* pending with nothing to send them.                                      *)
UnsavedIsShown ==
  localDirty => \/ persistTimer \/ saveError \/ untold
                \/ \E i \in Slots : net[i].kind \in Puts \cup {"commit"}

(* A load never replaces an edit that waits for its save, as long as a     *)
(* save is answered before the next edit.                                  *)
LoadsSpareUnsaved ==
  [][mode.network # "any" /\ persistTimer /\ acts' = acts => bundle' = bundle]_vars

(* Unsaved edits are saved in the end, or their error is shown, or a       *)
(* flush has met no token.                                                 *)
EventuallySettled == localDirty ~> (~localDirty \/ saveError \/ untold)
=============================================================================
