--------------------------- MODULE CashbookStore ---------------------------
(***************************************************************************)
(* The terminal's copy of the cashbook (ledgerWorkspaceStore) and the two  *)
(* flows of the daily entry form that use it: saving a day, which sends    *)
(* the cashbook in one commit, and deleting a day.                         *)
(*                                                                         *)
(* The store holds the whole cashbook, edits it in memory and PUTs it 400  *)
(* ms after the last edit.  Requests travel: each is sent, served by the   *)
(* API at some later time, or fails, and is answered later still; requests *)
(* sent one after the other may be served in any order.  A cashbook is the *)
(* set of its rows (suppliers, orders, returns, entries).                  *)
(***************************************************************************)
EXTENDS FiniteSets, Integers

CONSTANTS
  Branches,    \* branches somebody signs in to from this terminal
  Rows,        \* ids of rows
  InitRows,    \* the rows each branch has at first
  DayRows,     \* those the API removes with the day that is deleted
  Retired,     \* rows of cashbooks of the retired kind, dropped when fetched
  Slots,       \* requests in flight at the same time
  Modes,       \* ways the network and the users may behave, one of which a behaviour has
  None         \* nobody, no request, no promise

(* Network "calm": requests are answered within the debounce and before    *)
(* the user acts; only an edit or a delete may find a PUT in flight.       *)
(* "any": requests take as long as they take.  Failures: requests may fail.*)
(* Acts: how often the user edits, saves, deletes, signs in or out.        *)
Mode == [network : {"calm", "any"}, failures : BOOLEAN, acts : Nat]

ASSUME ConstantsAssumption ==
  /\ InitRows \in [Branches -> SUBSET Rows]
  /\ DayRows \subseteq Rows /\ Retired \subseteq Rows
  /\ Modes \subseteq Mode
  /\ None \notin Branches \cup Slots \cup {"settled"}

VARIABLES
  server,           \* the cashbook of each branch in the database
  user,             \* the branch signed in to, or None
  workspace,        \* the rows in the terminal's memory
  loadedFromApi,    \* a fetch was applied in this session
  loadError,        \* the last load or save failed
  loadPromise,      \* None, the request of a load, or "settled"
  persistTimer,     \* the debounce is running
  persistInFlight,  \* the PUT whose answer the store waits for, or None
  net,              \* the requests in flight
  flow,             \* what the daily entry form is doing
  awaited,          \* the PUT its flush waits for, or None
  deleted,          \* branches whose day was deleted
  acts,             \* user actions so far
  mode              \* how this behaviour's network and user are

vars == <<server, user, workspace, loadedFromApi, loadError, loadPromise, persistTimer,
          persistInFlight, net, flow, awaited, deleted, acts, mode>>

Free == [kind |-> "free", branch |-> None, rows |-> {}, stage |-> "none"]

Kinds == {"put", "flush", "commit", "delete", "load", "reload"}

Reads == {"load", "reload"}
Flows == {"none", "settling", "flushing", "deleting", "saving"}

Request == [kind : Kinds, branch : Branches \cup {None}, rows : SUBSET Rows,
            stage : {"sent", "served", "failed"}]

Busy(i) == net[i] # Free
Idle(i) == net[i] = Free

Sent(kind) == [kind |-> kind, branch |-> user, rows |-> workspace, stage |-> "sent"]

OnlyInFlight(kinds) == \A i \in Slots : Idle(i) \/ net[i].kind \in kinds

Act(inFlight) ==
  /\ acts < mode.acts
  /\ mode.network # "any" => OnlyInFlight(inFlight)
  /\ acts' = acts + 1
  /\ UNCHANGED mode

-----------------------------------------------------------------------------
(* Edits and the debounced save.                                           *)

(* An edit adds rows, drops rows, or only moves the supplier filter; the   *)
(* rows of the deleted day are never made again, new rows have new ids.    *)
setWorkspace ==
  /\ Act({"put"})
  /\ user # None
  /\ \E rows \in SUBSET Rows :
       /\ rows \cap DayRows \subseteq workspace
       /\ rows \cap Retired \subseteq workspace
       /\ \A b \in Branches : b # user => rows \cap InitRows[b] \subseteq workspace
       /\ workspace' = rows
  /\ persistTimer' = TRUE
  /\ UNCHANGED <<server, user, loadedFromApi, loadError, loadPromise, persistInFlight, net, flow, awaited, deleted>>

TimerEnds ==
  /\ persistTimer
  /\ mode.network = "calm" => OnlyInFlight({})
  /\ persistTimer' = FALSE
  /\ \/ /\ user = None
        /\ UNCHANGED <<net, persistInFlight>>
     \/ /\ user # None
        /\ \E i \in Slots : /\ Idle(i)
                            /\ net' = [net EXCEPT ![i] = Sent("put")]
                            /\ persistInFlight' = i
  /\ UNCHANGED <<server, user, workspace, loadedFromApi, loadError, loadPromise, flow, awaited, deleted, acts, mode>>

-----------------------------------------------------------------------------
(* Loading, reloading, and the session around them.                        *)

(* A load already under way, or done, serves the next caller too, unless   *)
(* the last one failed.                                                    *)
loadLedgerWorkspace ==
  /\ loadPromise = None \/ loadError
  /\ \/ /\ user = None
        /\ loadError' = TRUE
        /\ loadPromise' = None
        /\ UNCHANGED net
     \/ /\ user # None
        /\ \E i \in Slots : /\ Idle(i)
                            /\ net' = [net EXCEPT ![i] = Sent("load")]
                            /\ loadPromise' = i
        /\ loadError' = FALSE
  /\ UNCHANGED <<server, user, workspace, loadedFromApi, persistTimer, persistInFlight, flow, awaited, deleted, acts, mode>>

(* The fetch of a reload, in the slot i.  It drops a debounced write.      *)
ReloadIn(i) ==
  /\ persistTimer' = FALSE
  /\ IF user = None
     THEN /\ net' = [net EXCEPT ![i] = Free]
          /\ loadError' = TRUE
     ELSE /\ net' = [net EXCEPT ![i] = Sent("reload")]
          /\ loadError' = FALSE

(* Once the profile is known the session reloads what did not load.        *)
ProfileKnown ==
  /\ user # None
  /\ loadError \/ ~loadedFromApi
  /\ \E i \in Slots : Idle(i) /\ ReloadIn(i)
  /\ UNCHANGED <<server, user, workspace, loadedFromApi, loadPromise, persistInFlight, flow, awaited, deleted, acts, mode>>

SignIn(b) ==
  /\ Act({})
  /\ user = None
  /\ user' = b
  /\ persistTimer' = FALSE
  /\ loadError' = FALSE
  /\ \E i \in Slots : /\ Idle(i)
                      /\ net' = [net EXCEPT ![i] = [Sent("reload") EXCEPT !.branch = b]]
  /\ UNCHANGED <<server, workspace, loadedFromApi, loadPromise, persistInFlight, flow, awaited, deleted>>

(* Signing out, and a session that expires, reset the store.               *)
resetLedgerWorkspace ==
  /\ Act({})
  /\ user # None
  /\ user' = None
  /\ workspace' = {}
  /\ loadedFromApi' = FALSE
  /\ loadError' = FALSE
  /\ loadPromise' = None
  /\ persistTimer' = FALSE
  /\ UNCHANGED <<server, persistInFlight, net, flow, awaited, deleted>>

-----------------------------------------------------------------------------
(* The daily entry form.                                                   *)

(* Save: the edits of the day's lines came before; cancel the debounce,    *)
(* send everything at once.                                                *)
BeginSave ==
  /\ Act({})
  /\ flow = "none"
  /\ user # None
  /\ flow' = "saving"
  /\ persistTimer' = FALSE
  /\ \E i \in Slots : Idle(i) /\ net' = [net EXCEPT ![i] = Sent("commit")]
  /\ UNCHANGED <<server, user, workspace, loadedFromApi, loadError, loadPromise, persistInFlight, awaited, deleted>>

(* Faulty: does not wait for a PUT in flight.                              *)
BeginDeleteAtOnce ==
  /\ Act({"put"})
  /\ flow = "none"
  /\ user # None
  /\ persistTimer' = FALSE
  /\ flow' = "flushing"
  /\ \E i \in Slots : Idle(i) /\ net' = [net EXCEPT ![i] = Sent("flush")]
  /\ UNCHANGED <<server, user, workspace, loadedFromApi, loadError, loadPromise, persistInFlight, awaited, deleted>>

(* Delete: flush first, after the PUT the store waits for, if any.         *)
BeginDelete ==
  /\ Act({"put"})
  /\ flow = "none"
  /\ user # None
  /\ persistTimer' = FALSE
  /\ \/ /\ persistInFlight # None
        /\ flow' = "settling"
        /\ awaited' = persistInFlight
        /\ UNCHANGED net
     \/ /\ persistInFlight = None
        /\ flow' = "flushing"
        /\ UNCHANGED awaited
        /\ \E i \in Slots : Idle(i) /\ net' = [net EXCEPT ![i] = Sent("flush")]
  /\ UNCHANGED <<server, user, workspace, loadedFromApi, loadError, loadPromise, persistInFlight, deleted>>

-----------------------------------------------------------------------------
(* The API and the network.                                                *)

Serve(i) ==
  /\ Busy(i)
  /\ net[i].stage = "sent"
  /\ LET b == net[i].branch
         rows == IF net[i].kind \in Reads THEN server[b] ELSE net[i].rows
     IN  /\ net' = [net EXCEPT ![i].stage = "served", ![i].rows = rows]
         /\ server' = [server EXCEPT ![b] = CASE net[i].kind \in Reads -> @
                                              [] net[i].kind = "delete" -> @ \ DayRows
                                              [] OTHER -> rows]
         /\ deleted' = IF net[i].kind = "delete" THEN deleted \cup {b} ELSE deleted
  /\ UNCHANGED <<user, workspace, loadedFromApi, loadError, loadPromise, persistTimer, persistInFlight, flow, awaited, acts, mode>>

(* A request that is not served, or a write whose answer is lost.          *)
Fail(i) ==
  /\ mode.failures
  /\ Busy(i)
  /\ net[i].stage = "sent" \/ (net[i].stage = "served" /\ net[i].kind \notin Reads)
  /\ net' = [net EXCEPT ![i].stage = "failed"]
  /\ UNCHANGED <<server, user, workspace, loadedFromApi, loadError, loadPromise, persistTimer,
                 persistInFlight, flow, awaited, deleted, acts, mode>>

Answered(i, kinds) == net[i].kind \in kinds /\ net[i].stage \in {"served", "failed"}
Ok(i) == net[i].stage = "served"

(* Faulty: a failed load stays the one every caller waits for.             *)
LoadFailedForGood(i) == UNCHANGED loadPromise

LoadFailed(i) == loadPromise' = IF loadPromise = i THEN None ELSE loadPromise

(* Faulty: what was dropped is not written back.                           *)
applyFetchedOnly(i) ==
  /\ workspace' = net[i].rows \ Retired
  /\ loadedFromApi' = TRUE
  /\ loadError' = FALSE
  /\ UNCHANGED persistTimer

(* The fetched cashbook replaces the one in memory; if rows of a retired   *)
(* kind were dropped from it, it is written back.                          *)
applyFetchedWorkspace(i) ==
  /\ workspace' = net[i].rows \ Retired
  /\ loadedFromApi' = TRUE
  /\ loadError' = FALSE
  /\ persistTimer' = (persistTimer \/ net[i].rows \cap Retired # {})

LoadAnswered(i) ==
  /\ Answered(i, {"load"})
  /\ net' = [net EXCEPT ![i] = Free]
  /\ \/ /\ Ok(i)
        /\ applyFetchedWorkspace(i)
        /\ loadPromise' = IF loadPromise = i THEN "settled" ELSE loadPromise
     \/ /\ ~Ok(i)
        /\ loadError' = TRUE
        /\ LoadFailed(i)
        /\ UNCHANGED <<workspace, loadedFromApi, persistTimer>>
  /\ UNCHANGED <<server, user, persistInFlight, flow, awaited, deleted, acts, mode>>

ReloadAnswered(i) ==
  /\ Answered(i, {"reload"})
  /\ net' = [net EXCEPT ![i] = Free]
  /\ \/ Ok(i) /\ applyFetchedWorkspace(i) /\ loadPromise' = "settled"
     \/ ~Ok(i) /\ loadError' = TRUE /\ UNCHANGED <<workspace, loadedFromApi, persistTimer, loadPromise>>
  /\ UNCHANGED <<server, user, persistInFlight, flow, awaited, deleted, acts, mode>>

(* Whatever PUT was answered, the store waits for none any more.           *)
PutSettled == persistInFlight' = None

(* A flush that waited for this answer sends its own PUT now.              *)
PutAnswered(i) ==
  /\ Answered(i, {"put"})
  /\ loadError' = ~Ok(i)
  /\ PutSettled
  /\ IF awaited = i
     THEN /\ awaited' = None
          /\ IF user # None
             THEN net' = [net EXCEPT ![i] = Sent("flush")] /\ flow' = "flushing"
             ELSE net' = [net EXCEPT ![i] = Free] /\ flow' = "none"
     ELSE net' = [net EXCEPT ![i] = Free] /\ UNCHANGED <<flow, awaited>>
  /\ UNCHANGED <<server, user, workspace, loadedFromApi, loadPromise, persistTimer, deleted, acts, mode>>

(* With the flush done the form asks for the delete, without a token if    *)
(* the user signed out meanwhile; if the flush failed it stops.            *)
FlushAnswered(i) ==
  /\ Answered(i, {"flush"})
  /\ IF Ok(i) /\ user # None
     THEN net' = [net EXCEPT ![i] = Sent("delete")] /\ flow' = "deleting"
     ELSE net' = [net EXCEPT ![i] = Free] /\ flow' = "none"
  /\ UNCHANGED <<server, user, workspace, loadedFromApi, loadError, loadPromise, persistTimer,
                 persistInFlight, awaited, deleted, acts, mode>>

(* A deleted day is followed by a reload, a day saved or not saved too.    *)
FlowAnswered(i) ==
  /\ Answered(i, {"delete", "commit"})
  /\ flow' = "none"
  /\ IF Ok(i) \/ net[i].kind = "commit"
     THEN ReloadIn(i)
     ELSE net' = [net EXCEPT ![i] = Free] /\ UNCHANGED <<persistTimer, loadError>>
  /\ UNCHANGED <<server, user, workspace, loadedFromApi, loadPromise, persistInFlight, awaited, deleted, acts, mode>>

-----------------------------------------------------------------------------
Init ==
  /\ server = InitRows
  /\ user = None
  /\ workspace = {}
  /\ loadedFromApi = FALSE
  /\ loadError = FALSE
  /\ loadPromise = None
  /\ persistTimer = FALSE
  /\ persistInFlight = None
  /\ net = [i \in Slots |-> Free]
  /\ flow = "none"
  /\ awaited = None
  /\ deleted = {}
  /\ acts = 0
  /\ mode \in Modes

AnswerStep(i) == LoadAnswered(i) \/ ReloadAnswered(i) \/ PutAnswered(i) \/ FlushAnswered(i) \/ FlowAnswered(i)

Next ==
  \/ setWorkspace \/ TimerEnds
  \/ loadLedgerWorkspace \/ ProfileKnown \/ resetLedgerWorkspace
  \/ \E b \in Branches : SignIn(b)
  \/ BeginSave \/ BeginDelete
  \/ \E i \in Slots : Serve(i) \/ Fail(i) \/ AnswerStep(i)

Spec == Init /\ [][Next]_vars

(* Views that show the cashbook are opened again and again, timers end,    *)
(* every request is served or fails and is answered, and an API that is    *)
(* asked again and again serves in the end.                                *)
Fairness ==
  /\ SF_vars(loadLedgerWorkspace)
  /\ WF_vars(TimerEnds)
  /\ \A i \in Slots : SF_vars(Serve(i)) /\ WF_vars(AnswerStep(i))

FairSpec == Spec /\ Fairness

-----------------------------------------------------------------------------
(* The types; a PUT or a load the store waits for is in flight.            *)
TypeOK ==
  /\ server \in [Branches -> SUBSET Rows]
  /\ user \in Branches \cup {None}
  /\ workspace \in SUBSET Rows
  /\ {loadedFromApi, loadError, persistTimer} \subseteq BOOLEAN
  /\ loadPromise \in Slots \cup {None, "settled"}
  /\ loadPromise \in Slots => net[loadPromise].kind = "load"
  /\ persistInFlight \in Slots \cup {None}
  /\ persistInFlight \in Slots => net[persistInFlight].kind = "put"
  /\ net \in [Slots -> Request \cup {Free}]
  /\ flow \in Flows
  /\ awaited \in Slots \cup {None}
  /\ awaited \in Slots => flow = "settling" /\ net[awaited].kind = "put"
  /\ deleted \in SUBSET Branches
  /\ acts \in 0..mode.acts

(* A flush settles every pending edit, so that no write of the store       *)
(* brings back the rows the API removed with the day; it takes that PUTs   *)
(* are answered within the debounce.                                       *)
DeletedStayDeleted ==
  mode.network = "calm" /\ ~mode.failures => \A b \in deleted : server[b] \cap DayRows = {}

(* With nothing pending and no error on display, the terminal and the API  *)
(* hold the same cashbook; a lost answer leaves them apart.                *)
Quiet == user # None /\ loadedFromApi /\ ~loadError /\ ~persistTimer /\ \A i \in Slots : Idle(i)

Converged == mode.network = "calm" /\ ~mode.failures /\ Quiet => workspace = server[user]

(* A signed-in terminal loads the cashbook in the end, however many loads  *)
(* fail on the way.                                                        *)
EventuallyLoaded == \A b \in Branches : user = b ~> loadedFromApi \/ user # b
=============================================================================
