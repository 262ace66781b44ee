---------------------------- MODULE RosterStore ----------------------------
(***************************************************************************)
(* The terminal's copy of the employee directory (employeeDirectoryStore). *)
(* It is loaded once, merged with the employees added while the load was   *)
(* in flight and with a roster left in the browser by an older version,    *)
(* and saved as a whole: 400 ms after an edit, or at once by a flush.      *)
(*                                                                         *)
(* A directory is the set of its employees' names, which are unique in it. *)
(* Requests are sent, served later and answered later still, in any order. *)
(***************************************************************************)
EXTENDS FiniteSets, Integers

CONSTANTS
  Branches,    \* branches somebody signs in to from this terminal
  Names,       \* names of employees
  Slots,       \* requests in flight at the same time
  Modes,       \* ways the network and the users may behave, one of which a behaviour has
  None         \* nobody, no request, no promise

(* Network "calm": requests are answered within the debounce and before    *)
(* the user acts, who signs out with nothing pending; an edit or a flush   *)
(* may find the load.  "any": requests and users take their time.          *)
(* Failures: requests may fail.  Acts: how often the user edits, flushes,  *)
(* closes, signs in or out.  Start: the directory each branch has at       *)
(* first.  Legacy: the roster an older version left in the browser.        *)
Mode == [network : {"calm", "any"}, failures : BOOLEAN, acts : Nat,
         start : [Branches -> SUBSET Names], legacy : SUBSET Names]

ASSUME ConstantsAssumption ==
  /\ Modes \subseteq Mode
  /\ None \notin Branches \cup Slots \cup {"settled"}

VARIABLES
  server,            \* the directory of each branch in the database
  user,              \* the branch signed in to, or None
  directory,         \* the names in the terminal's memory
  loadedFromApi,     \* a load was applied
  loadError,         \* the last load or debounced save failed
  loadPromise,       \* None, the request a load is at, or "settled"
  persistAfterLoad,  \* edits were made before the load was applied
  persistTimer,      \* the debounce is running
  persistInFlight,   \* the debounced PUT whose answer the store waits for, or None
  awaited,           \* the PUT a flush waits for, or None
  legacy,            \* the roster in the browser's storage
  net,               \* the requests in flight
  removed,           \* names the user ever took off a directory
  had,               \* names each branch's directory in the database ever had
  crossed,           \* a request was sent before the one before it was served
  acts,              \* user actions so far
  mode               \* how this behaviour's network and user are

load == <<loadedFromApi, loadPromise, persistAfterLoad, legacy>>
vars == <<server, user, directory, load, loadError, persistTimer, persistInFlight, awaited, net, removed, had, crossed,
          acts, mode>>

Free == [kind |-> "free", branch |-> None, names |-> {}, stage |-> "none"]

(* A load is a GET, "migrate" if the API has nobody and the browser has,   *)
(* and "merge" if the merged directory has to be saved.                    *)
Loading == {"load", "migrate", "merge"}
Kinds == Loading \cup {"put", "flush", "unload"}

Request == [kind : Kinds, branch : Branches, names : SUBSET Names,
            stage : {"sent", "served", "failed"}]

Busy(i) == net[i] # Free
Idle(i) == net[i] = Free
OnlyInFlight(kinds) == \A i \in Slots : Idle(i) \/ net[i].kind \in kinds

Message(kind, names) == [kind |-> kind, branch |-> user, names |-> names, stage |-> "sent"]

Act(inFlight) ==
  /\ acts < mode.acts
  /\ mode.network = "calm" => OnlyInFlight(inFlight)
  /\ acts' = acts + 1
  /\ UNCHANGED mode

-----------------------------------------------------------------------------
(* Edits and saves.                                                        *)

(* Faulty: saves whether or not the directory was ever loaded.             *)
schedulePersistAlways == persistTimer' = TRUE /\ UNCHANGED persistAfterLoad

(* Before the load is applied an edit is only marked for it.               *)
schedulePersist ==
  \/ ~loadedFromApi /\ persistAfterLoad' = TRUE /\ UNCHANGED persistTimer
  \/ loadedFromApi /\ persistTimer' = TRUE /\ UNCHANGED persistAfterLoad

(* Employees are added to the directory, changed in it or taken off it.    *)
replaceEmployeeDirectorySnapshot ==
  /\ Act({"load", "migrate"})
  /\ user # None
  /\ \E names \in SUBSET Names :
       /\ \A b \in Branches \ {user} : names \cap mode.start[b] \subseteq directory
       /\ removed' = removed \cup (directory \ names)
       /\ directory' = names
  /\ schedulePersist
  /\ UNCHANGED <<server, user, loadedFromApi, loadPromise, legacy, loadError, persistInFlight, awaited, net>>

TimerEnds ==
  /\ persistTimer
  /\ mode.network = "calm" => OnlyInFlight({})
  /\ persistTimer' = FALSE
  /\ \/ user = None /\ UNCHANGED <<net, persistInFlight>>
     \/ /\ user # None
        /\ \E i \in Slots : /\ Idle(i)
                            /\ net' = [net EXCEPT ![i] = Message("put", directory)]
                            /\ persistInFlight' = i
  /\ UNCHANGED <<server, user, directory, load, loadError, awaited, removed, acts, mode>>

(* A load, if none is under way or done; without a token it fails.         *)
StartLoad ==
  \/ loadPromise # None /\ UNCHANGED <<net, loadPromise, loadError>>
  \/ /\ loadPromise = None /\ user = None
     /\ loadError' = TRUE
     /\ UNCHANGED <<net, loadPromise>>
  \/ /\ loadPromise = None /\ user # None
     /\ loadError' = FALSE
     /\ \E i \in Slots : /\ Idle(i)
                         /\ net' = [net EXCEPT ![i] = Message("load", {})]
                         /\ loadPromise' = i

loadEmployeeDirectory ==
  /\ loadPromise = None
  /\ StartLoad
  /\ UNCHANGED <<server, user, directory, loadedFromApi, persistAfterLoad, legacy, persistTimer,
                 persistInFlight, awaited, removed, acts, mode>>

(* A flush ends the debounce; it waits for the PUT the store waits for, or *)
(* for the load that will save what it has to save, or sends its own PUT.  *)
flushEmployeeDirectoryPersist ==
  /\ Act({"load", "migrate", "put"})
  /\ user # None
  /\ persistTimer' = FALSE
  /\ \/ /\ persistInFlight # None /\ awaited = None
        /\ awaited' = persistInFlight
        /\ UNCHANGED <<net, loadPromise, persistAfterLoad, loadError>>
     \/ /\ persistInFlight = None /\ ~loadedFromApi
        /\ persistAfterLoad' = TRUE
        /\ StartLoad
        /\ UNCHANGED awaited
     \/ /\ persistInFlight = None /\ loadedFromApi
        /\ \E i \in Slots : Idle(i) /\ net' = [net EXCEPT ![i] = Message("flush", directory)]
        /\ UNCHANGED <<loadPromise, persistAfterLoad, loadError, awaited>>
  /\ UNCHANGED <<server, user, directory, loadedFromApi, legacy, persistInFlight, removed>>

(* Closing the tab forgets everything but the browser's storage; requests  *)
(* already sent are still served.                                          *)
CloseTab ==
  /\ Act({})
  /\ net' = [i \in Slots |-> IF Idle(i) \/ net[i].kind = "load" THEN Free ELSE [net[i] EXCEPT !.kind = "unload"]]
  /\ directory' = {}
  /\ loadedFromApi' = FALSE /\ loadPromise' = None /\ persistAfterLoad' = FALSE /\ loadError' = FALSE
  /\ persistTimer' = FALSE /\ persistInFlight' = None /\ awaited' = None
  /\ UNCHANGED <<server, user, legacy, removed>>

(* Nothing of the store is reset when the session changes.                 *)
SignIn(b) == /\ Act({}) /\ user = None /\ user' = b
             /\ UNCHANGED <<server, directory, load, loadError, persistTimer, persistInFlight, awaited, net, removed>>

SignOut == /\ Act({}) /\ user # None /\ user' = None
           /\ mode.network = "calm" => ~persistTimer
           /\ UNCHANGED <<server, directory, load, loadError, persistTimer, persistInFlight, awaited, net, removed>>

-----------------------------------------------------------------------------
(* The API and the network.                                                *)

Serve(i) ==
  /\ Busy(i) /\ net[i].stage = "sent"
  /\ LET b == net[i].branch
     IN  IF net[i].kind = "load"
         THEN net' = [net EXCEPT ![i].stage = "served", ![i].names = server[b]] /\ UNCHANGED server
         ELSE net' = [net EXCEPT ![i].stage = "served"] /\ server' = [server EXCEPT ![b] = net[i].names]
  /\ UNCHANGED <<user, directory, load, loadError, persistTimer, persistInFlight, awaited, removed, acts, mode>>

(* A request that is not served, or a write whose answer is lost.          *)
Fail(i) ==
  /\ mode.failures
  /\ Busy(i)
  /\ net[i].stage = "sent" \/ (net[i].stage = "served" /\ net[i].kind # "load")
  /\ net' = [net EXCEPT ![i].stage = "failed"]
  /\ UNCHANGED <<server, user, directory, load, loadError, persistTimer, persistInFlight, awaited, removed, acts, mode>>

Answered(i, kinds) == net[i].kind \in kinds /\ net[i].stage \in {"served", "failed"}
Ok(i) == net[i].stage = "served"

(* Everybody the API has and everybody in memory; nobody if the API has    *)
(* nobody.                                                                 *)
mergeDirectoryWithApi(remote) == IF remote = {} THEN {} ELSE remote \cup directory

(* Faulty: what edits added to the API's directory is not saved.           *)
ApplyLoadOnly(i, remote, apiWasEmpty) ==
  /\ directory' = mergeDirectoryWithApi(remote)
  /\ loadedFromApi' = TRUE
  /\ loadError' = FALSE
  /\ persistAfterLoad' = FALSE
  /\ net' = [net EXCEPT ![i] = Free]
  /\ loadPromise' = "settled"

(* The merged directory is applied and, if edits waited for it or the API  *)
(* had nobody, saved.                                                      *)
ApplyLoad(i, remote, apiWasEmpty) ==
  LET list == mergeDirectoryWithApi(remote)
      save == persistAfterLoad \/ (apiWasEmpty /\ list # {})
  IN  /\ directory' = list
      /\ loadedFromApi' = TRUE
      /\ loadError' = FALSE
      /\ persistAfterLoad' = FALSE
      /\ IF save /\ user # None
         THEN net' = [net EXCEPT ![i] = Message("merge", list)] /\ UNCHANGED loadPromise
         ELSE net' = [net EXCEPT ![i] = Free] /\ loadPromise' = "settled"

LoadAnswered(i) ==
  /\ Answered(i, {"load"})
  /\ LET remote == net[i].names IN
     \/ /\ ~Ok(i)
        /\ loadError' = TRUE
        /\ loadPromise' = None
        /\ net' = [net EXCEPT ![i] = Free]
        /\ UNCHANGED <<directory, loadedFromApi, persistAfterLoad, legacy>>
     \/ /\ Ok(i) /\ (remote # {} \/ legacy = {})
        /\ legacy' = {}
        /\ ApplyLoad(i, remote, remote = {})
     \/ /\ Ok(i) /\ remote = {} /\ legacy # {} /\ user = None
        /\ UNCHANGED legacy
        /\ ApplyLoad(i, legacy, TRUE)
     \/ /\ Ok(i) /\ remote = {} /\ legacy # {} /\ user # None
        /\ net' = [net EXCEPT ![i] = Message("migrate", legacy)]
        /\ UNCHANGED <<directory, load, loadError>>
  /\ UNCHANGED <<server, user, persistTimer, persistInFlight, awaited, removed, acts, mode>>

(* The browser's roster was saved, or not; it is the one loaded anyway.    *)
MigrateAnswered(i) ==
  /\ Answered(i, {"migrate"})
  /\ legacy' = IF Ok(i) THEN {} ELSE legacy
  /\ ApplyLoad(i, net[i].names, TRUE)
  /\ UNCHANGED <<server, user, persistTimer, persistInFlight, awaited, removed, acts, mode>>

(* A merged directory that could not be saved is saved by the debounce.    *)
MergeAnswered(i) ==
  /\ Answered(i, {"merge"})
  /\ net' = [net EXCEPT ![i] = Free]
  /\ loadPromise' = "settled"
  /\ IF Ok(i) THEN UNCHANGED <<persistTimer, persistAfterLoad>> ELSE schedulePersist
  /\ UNCHANGED <<server, user, directory, loadedFromApi, legacy, loadError, persistInFlight, awaited, removed, acts, mode>>

PutSettled == persistInFlight' = None

(* A flush that waited for this answer sends its own PUT now.              *)
PutAnswered(i) ==
  /\ Answered(i, {"put"})
  /\ PutSettled
  /\ loadError' = ~Ok(i)
  /\ awaited' = IF awaited = i THEN None ELSE awaited
  /\ net' = [net EXCEPT ![i] = IF awaited = i /\ user # None THEN Message("flush", directory) ELSE Free]
  /\ UNCHANGED <<server, user, directory, load, persistTimer, removed, acts, mode>>

(* Nobody looks at the answer of a flush, or of a closed tab's request.    *)
FlushAnswered(i) ==
  /\ Answered(i, {"flush", "unload"})
  /\ net' = [net EXCEPT ![i] = Free]
  /\ UNCHANGED <<server, user, directory, load, loadError, persistTimer, persistInFlight, awaited, removed, acts, mode>>

-----------------------------------------------------------------------------
Init ==
  /\ mode \in Modes
  /\ server = mode.start
  /\ user = None
  /\ directory = {}
  /\ loadedFromApi = FALSE /\ loadError = FALSE /\ loadPromise = None
  /\ persistAfterLoad = FALSE /\ persistTimer = FALSE
  /\ persistInFlight = None /\ awaited = None
  /\ legacy = mode.legacy
  /\ net = [i \in Slots |-> Free]
  /\ removed = {}
  /\ had = mode.start /\ crossed = FALSE
  /\ acts = 0

AnswerStep(i) == LoadAnswered(i) \/ MigrateAnswered(i) \/ MergeAnswered(i) \/ PutAnswered(i) \/ FlushAnswered(i)

Step ==
  \/ replaceEmployeeDirectorySnapshot \/ TimerEnds \/ flushEmployeeDirectoryPersist
  \/ loadEmployeeDirectory \/ CloseTab \/ SignOut
  \/ \E b \in Branches : SignIn(b)
  \/ \E i \in Slots : Serve(i) \/ Fail(i) \/ AnswerStep(i)

(* What the directories had, and whether requests may reach the API in     *)
(* another order than they were sent in.                                   *)
Recorded ==
  /\ had' = [b \in Branches |-> had[b] \cup server'[b]]
  /\ crossed' = (crossed \/ \E i, q \in Slots : /\ i # q /\ net[q].stage = "sent"
                                               /\ net[i].stage # "sent" /\ net'[i].stage = "sent")

Next == Step /\ Recorded

Spec == Init /\ [][Next]_vars

-----------------------------------------------------------------------------
(* The types; a PUT or a load the store waits for is in flight.            *)
TypeOK ==
  /\ server \in [Branches -> SUBSET Names]
  /\ user \in Branches \cup {None}
  /\ directory \in SUBSET Names
  /\ {loadedFromApi, loadError, persistAfterLoad, persistTimer} \subseteq BOOLEAN
  /\ loadPromise \in Slots \cup {None, "settled"}
  /\ loadPromise \in Slots => net[loadPromise].kind \in Loading
  /\ \A w \in {persistInFlight, awaited} : w \in Slots \cup {None} /\ (w \in Slots => net[w].kind = "put")
  /\ legacy \in SUBSET mode.legacy
  /\ net \in [Slots -> Request \cup {Free}]
  /\ removed \in SUBSET Names
  /\ had \in [Branches -> SUBSET Names] /\ crossed \in BOOLEAN
  /\ acts \in 0..mode.acts

(* No save puts an incomplete roster over the API's: somebody who was in a *)
(* branch's directory goes only after the user took them off it.  Those    *)
(* who were there at first stay on any network; those saved since may go   *)
(* when a request was sent before the one before it was served, which may  *)
(* then be served last.                                                    *)
RosterKept ==
  \A b \in Branches : /\ mode.start[b] \subseteq server[b] \cup removed
                      /\ crossed \/ had[b] \subseteq server[b] \cup removed

(* With nothing pending and no error on display, the terminal and the API  *)
(* have the same directory; a lost answer, and an edit dropped at sign-out *)
(* leave them apart.                                                       *)
Converged ==
  (/\ mode.network = "calm" /\ ~mode.failures
   /\ user # None /\ loadedFromApi /\ ~loadError /\ ~persistTimer /\ \A i \in Slots : Idle(i))
     => directory = server[user]
=============================================================================
