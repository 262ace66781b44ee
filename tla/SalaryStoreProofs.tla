------------------------- MODULE SalaryStoreProofs --------------------------
(***************************************************************************)
(* Unsaved edits of the salary registers are never silent, for any         *)
(* branches, rows, number of requests, network and users.  UnsavedIsShown  *)
(* is not inductive: a flush ends the debounce and waits for the PUT the   *)
(* store waits for, which has to be in flight, and a commit covers no edit *)
(* made after it.  Covered leaves commits out and Awaits adds the PUT.     *)
(***************************************************************************)
EXTENDS SalaryStore, TLAPS

Typed ==
  /\ server \in [Branches -> SUBSET Rows]
  /\ user \in Branches \cup {None}
  /\ bundle \in SUBSET Rows
  /\ net \in [Slots -> Request \cup {Free}]

(* The PUT the store waits for is in flight.                               *)
Awaits == persistInFlight # None => persistInFlight \in Slots /\ net[persistInFlight].kind = "put"

Saving == \E i \in Slots : net[i].kind \in Puts

Covered == localDirty => persistTimer \/ saveError \/ untold \/ Saving

Inv == Typed /\ Awaits /\ Covered

-----------------------------------------------------------------------------
(* What is sent is a request, and changes its own slot alone.              *)
LEMMA MessageTyped ==
  ASSUME user \in Branches, NEW kind \in Kinds, NEW rows \in SUBSET Rows
  PROVE  /\ Message(kind, rows) \in Request
         /\ Message(kind, rows).kind = kind
  BY DEF Message, Request

LEMMA SlotSent ==
  ASSUME Typed, NEW i \in Slots, NEW m \in Request \cup {Free}, net' = [net EXCEPT ![i] = m]
  PROVE  /\ net' \in [Slots -> Request \cup {Free}]
         /\ net'[i] = m
         /\ \A j \in Slots \ {i} : net'[j] = net[j]
  BY DEF Typed

LEMMA Kinded ==
  ASSUME Typed
  PROVE  \A i \in Slots : /\ Idle(i) => net[i].kind = "free"
                          /\ Busy(i) => net[i] \in Request
  BY DEF Typed, Idle, Busy, Free

LEMMA InitInv == Init => Inv
<1> SUFFICES ASSUME Init PROVE Inv
  OBVIOUS
<1>1. Typed
  BY ConstantsAssumption DEF Init, Typed
<1>2. Awaits /\ Covered
  BY DEF Init, Awaits, Covered
<1> QED
  BY <1>1, <1>2 DEF Inv

(* A request sent on an idle slot leaves alone what the store waits for.   *)
LEMMA Sending ==
  ASSUME Inv, user # None, NEW kind \in Kinds, NEW rows \in SUBSET Rows, NEW i \in Slots, Idle(i),
         net' = [net EXCEPT ![i] = Message(kind, rows)]
  PROVE  /\ net' \in [Slots -> Request \cup {Free}]
         /\ persistInFlight # None => persistInFlight \in Slots /\ net'[persistInFlight].kind = "put"
         /\ net'[i].kind = kind
         /\ Saving => Saving'
<1>1. user \in Branches
  BY DEF Inv, Typed
<1>2. Message(kind, rows) \in Request /\ Message(kind, rows).kind = kind
  BY <1>1, MessageTyped
<1>3. /\ net' \in [Slots -> Request \cup {Free}]
      /\ net'[i] = Message(kind, rows)
      /\ \A j \in Slots \ {i} : net'[j] = net[j]
  BY <1>2, SlotSent DEF Inv
<1>4. net[i].kind = "free"
  BY Kinded DEF Inv
<1> QED
  BY <1>2, <1>3, <1>4 DEF Inv, Awaits, Saving, Puts

(* A request that is served or fails is still of its kind.                 *)
LEMMA Staging ==
  ASSUME Inv, NEW i \in Slots, NEW m \in Request, m.kind = net[i].kind, net' = [net EXCEPT ![i] = m],
         UNCHANGED store
  PROVE  net' \in [Slots -> Request \cup {Free}] /\ Awaits' /\ Covered'
<1>1. /\ net' \in [Slots -> Request \cup {Free}]
      /\ net'[i] = m
      /\ \A j \in Slots \ {i} : net'[j] = net[j]
  BY SlotSent DEF Inv
<1> QED
  BY <1>1 DEF Inv, Awaits, Covered, Saving, store

-----------------------------------------------------------------------------
LEMMA NextInv ==
  ASSUME Inv, [Next]_vars
  PROVE  Inv'
<1> USE ConstantsAssumption
<1>1. CASE setSalaryBundle
  BY <1>1 DEF setSalaryBundle, Inv, Typed, Awaits, Covered, Saving, form, api
<1>2. CASE TimerEnds
  <2>1. CASE user = None
    BY <1>2, <2>1 DEF TimerEnds, Inv, Typed, Awaits, Covered, Saving, form, api
  <2>2. CASE user # None
    <3>1. PICK i \in Slots : /\ Idle(i)
                             /\ net' = [net EXCEPT ![i] = Message("put", bundle)]
                             /\ persistInFlight' = i
      BY <1>2, <2>2 DEF TimerEnds
    <3>2. net' \in [Slots -> Request \cup {Free}] /\ net'[i].kind = "put"
      BY <3>1, <2>2, Sending DEF Inv, Typed, Kinds, Puts
    <3> QED
      BY <1>2, <3>1, <3>2 DEF TimerEnds, Inv, Typed, Awaits, Covered, Saving, Puts, form, api
  <2> QED
    BY <2>1, <2>2
<1>3. ASSUME NEW kind \in {"flush", "settle"}, NEW flowName, BeginFlush(kind, flowName),
             UNCHANGED <<bundle, localDirty, persistInFlight, api, user>>
      PROVE  Inv'
  <2>1. CASE persistInFlight # None /\ UNCHANGED net
    BY <1>3, <2>1 DEF Inv, Typed, Awaits, Covered, Saving, Puts, api
  <2>2. CASE user # None /\ Send(kind)
    <3>1. PICK i \in Slots : Idle(i) /\ net' = [net EXCEPT ![i] = Message(kind, bundle)]
      BY <2>2 DEF Send
    <3>2. user # None
      BY <2>2
    <3>3. /\ net' \in [Slots -> Request \cup {Free}]
          /\ persistInFlight # None => persistInFlight \in Slots /\ net'[persistInFlight].kind = "put"
          /\ net'[i].kind = kind
      BY <3>1, <3>2, Sending DEF Inv, Typed, Kinds, Puts
    <3> QED
      BY <1>3, <3>3 DEF Inv, Typed, Awaits, Covered, Saving, Puts, api
  <2>3. CASE untold' = TRUE /\ UNCHANGED net
    BY <1>3, <2>3 DEF Inv, Typed, Awaits, Covered, api
  <2> QED
    BY <1>3, <2>1, <2>2, <2>3 DEF BeginFlush, FlushNow
<1>4. CASE flushSalaryEdits
  BY <1>3, <1>4 DEF flushSalaryEdits
<1>5. CASE BeginDelete
  BY <1>3, <1>5 DEF BeginDelete
<1>6. CASE CloseTab
  <2>1. net' \in [Slots -> Request \cup {Free}]
    <3> DEFINE kept(j) == [net[j] EXCEPT !.kind = IF @ \in Puts THEN "unload" ELSE @]
    <3>1. \A j \in Slots : Busy(j) => kept(j) \in Request
      BY Kinded DEF Inv, Request, Kinds
    <3>2. user # None => Message("unload", bundle) \in Request
      BY MessageTyped DEF Inv, Typed, Kinds
    <3> QED
      BY <1>6, <3>1, <3>2 DEF CloseTab
  <2> QED
    BY <1>6, <2>1 DEF CloseTab, Inv, Typed, Awaits, Covered, api
<1>7. ASSUME NEW i \in Slots, Idle(i) \/ net[i].kind \in {"commit", "delete", "unload"}, LoadIn(i),
             UNCHANGED <<untold, bundle, localDirty, saveError, persistTimer, persistInFlight, api, user>>
      PROVE  Inv'
  <2>1. PICK m \in Request \cup {Free} : net' = [net EXCEPT ![i] = m]
    BY <1>7, MessageTyped DEF LoadIn, Inv, Typed, Kinds
  <2>2. /\ net' \in [Slots -> Request \cup {Free}]
        /\ \A j \in Slots \ {i} : net'[j] = net[j]
    BY <2>1, SlotSent DEF Inv
  <2>3. net[i].kind \notin Puts
    BY <1>7, Kinded DEF Inv, Puts
  <2> QED
    BY <1>7, <2>2, <2>3 DEF Inv, Typed, Awaits, Covered, Saving, Puts, api
<1>8. CASE loadSalaryWorkspace
  BY <1>7, <1>8 DEF loadSalaryWorkspace
<1>9. CASE reloadSalaryWorkspace
  BY <1>7, <1>9 DEF reloadSalaryWorkspace
<1>10. CASE syncLoadedSalaryBundleToEmployees \/ SignOut \/ \E b \in Branches : SignIn(b)
  BY <1>10 DEF syncLoadedSalaryBundleToEmployees, SignOut, SignIn, Inv, Typed, Awaits, Covered, Saving, store, form, api
<1>11. CASE BeginSave
  <2>1. PICK rows \in SUBSET Rows, i \in Slots :
          Idle(i) /\ bundle' = rows /\ net' = [net EXCEPT ![i] = Message("commit", rows)]
    BY <1>11 DEF BeginSave
  <2>2. /\ net' \in [Slots -> Request \cup {Free}]
        /\ persistInFlight # None => persistInFlight \in Slots /\ net'[persistInFlight].kind = "put"
    BY <1>11, <2>1, Sending DEF BeginSave, Kinds
  <2> QED
    BY <1>11, <2>1, <2>2 DEF BeginSave, Inv, Typed, Awaits, Covered, api
<1>12. ASSUME NEW i \in Slots, Serve(i) PROVE Inv'
  <2> DEFINE b == net[i].branch
             m == [net[i] EXCEPT !.stage = "served", !.rows = IF net[i].kind = "load" THEN server[b] ELSE @]
  <2>1. net[i] \in Request
    BY <1>12, Kinded DEF Serve, Inv
  <2>2. m \in Request /\ m.kind = net[i].kind
    BY <2>1 DEF Request, Inv, Typed
  <2>3. net' = [net EXCEPT ![i] = m]
    BY <1>12, <2>1 DEF Serve, Request, Inv, Typed
  <2>4. server' \in [Branches -> SUBSET Rows]
    BY <1>12, <2>1 DEF Serve, Request, Inv, Typed
  <2>5. net' \in [Slots -> Request \cup {Free}] /\ Awaits' /\ Covered'
    BY <1>12, <2>2, <2>3, Staging DEF Serve
  <2> QED
    BY <1>12, <2>4, <2>5 DEF Serve, Inv, Typed, store
<1>13. ASSUME NEW i \in Slots, Fail(i) PROVE Inv'
  <2> DEFINE m == [net[i] EXCEPT !.stage = "failed"]
  <2>1. net[i] \in Request
    BY <1>13, Kinded DEF Fail, Inv
  <2>2. m \in Request /\ m.kind = net[i].kind
    BY <2>1 DEF Request
  <2>3. net' = [net EXCEPT ![i] = m]
    BY <1>13, <2>1 DEF Fail, Inv, Typed
  <2>4. net' \in [Slots -> Request \cup {Free}] /\ Awaits' /\ Covered'
    BY <1>13, <2>2, <2>3, Staging DEF Fail
  <2> QED
    BY <1>13, <2>4 DEF Fail, Inv, Typed, store, api
<1>14. ASSUME NEW i \in Slots, LoadAnswered(i) PROVE Inv'
  <2>1. net[i] \in Request /\ net[i].kind = "load"
    BY <1>14 DEF LoadAnswered, Answered, Inv, Typed, Free
  <2>2. net' \in [Slots -> Request \cup {Free}] /\ \A j \in Slots \ {i} : net'[j] = net[j]
    BY <1>14, SlotSent DEF LoadAnswered, Inv
  <2>3. bundle' \in SUBSET Rows
    BY <1>14, <2>1 DEF LoadAnswered, applyLoadedBundle, Request, Inv, Typed
  <2> QED
    BY <1>14, <2>1, <2>2, <2>3 DEF LoadAnswered, Inv, Typed, Awaits, Covered, Saving, Puts, api
<1>15. ASSUME NEW i \in Slots, PutAnswered(i) PROVE Inv'
  <2>1. PICK m \in Request \cup {Free} :
          /\ net' = [net EXCEPT ![i] = m]
          /\ awaited = i /\ user # None => m.kind \in Puts
    <3>1. \A k \in {"settle", "flush"} : user # None => Message(k, bundle) \in Request /\ Message(k, bundle).kind = k
      BY MessageTyped DEF Inv, Typed, Kinds, Puts
    <3> QED
      BY <1>15, <3>1 DEF PutAnswered, Puts
  <2>2. net' \in [Slots -> Request \cup {Free}] /\ net'[i] = m
    BY <2>1, SlotSent DEF Inv
  <2>3. Covered'
    BY <1>15, <2>1, <2>2 DEF PutAnswered, Saved, Covered, Saving
  <2> QED
    BY <1>15, <2>2, <2>3 DEF PutAnswered, PutSettled, Inv, Typed, Awaits, api
<1>16. ASSUME NEW i \in Slots, FlushAnswered(i) \/ SettleAnswered(i) PROVE Inv'
  <2>1. net[i].kind \in {"flush", "settle"}
    BY <1>16 DEF FlushAnswered, SettleAnswered, Answered
  <2>2. PICK m \in Request \cup {Free} : net' = [net EXCEPT ![i] = m]
    <3>1. user # None => Message("delete", {}) \in Request
      BY MessageTyped DEF Inv, Typed, Kinds
    <3> QED
      BY <1>16, <3>1 DEF FlushAnswered, SettleAnswered
  <2>3. net' \in [Slots -> Request \cup {Free}] /\ \A j \in Slots \ {i} : net'[j] = net[j]
    BY <2>2, SlotSent DEF Inv
  <2>4. localDirty' => saveError'
    BY <1>16 DEF FlushAnswered, SettleAnswered, Saved
  <2> QED
    BY <1>16, <2>1, <2>3, <2>4 DEF FlushAnswered, SettleAnswered, Inv, Typed, Awaits, Covered, api
<1>17. ASSUME NEW i \in Slots, FlowAnswered(i) \/ UnloadAnswered(i) PROVE Inv'
  <2>1. net[i].kind \in {"delete", "commit", "unload"}
    BY <1>17 DEF FlowAnswered, UnloadAnswered, Answered
  <2>2. CASE LoadIn(i)
    BY <1>7, <1>17, <2>1, <2>2 DEF FlowAnswered, UnloadAnswered, Answered, store, api
  <2>3. CASE net' = [net EXCEPT ![i] = Free]
    <3>1. net' \in [Slots -> Request \cup {Free}] /\ \A j \in Slots \ {i} : net'[j] = net[j]
      BY <2>3, SlotSent DEF Inv
    <3> QED
      BY <1>17, <2>1, <3>1 DEF FlowAnswered, UnloadAnswered, Inv, Typed, Awaits, Covered, Saving, Puts, store, api
  <2> QED
    BY <1>17, <2>2, <2>3 DEF FlowAnswered, UnloadAnswered
<1>18. CASE UNCHANGED vars
  BY <1>18 DEF vars, store, api, Inv, Typed, Awaits, Covered, Saving
<1> QED
  BY <1>1, <1>2, <1>4, <1>5, <1>6, <1>8, <1>9, <1>10, <1>11, <1>12, <1>13, <1>14, <1>15, <1>16, <1>17, <1>18
     DEF Next, AnswerStep

(* Whatever fails, whoever signs in or out and whichever answers come late:*)
(* while the API may not have an edit, a save of it is coming or under way,*)
(* or the error of the last one is on display, or a flush met no token.    *)
THEOREM UnsavedAlwaysShown == Spec => []UnsavedIsShown
<1>1. Inv => UnsavedIsShown
  BY DEF Inv, Covered, Saving, UnsavedIsShown
<1> QED
  BY <1>1, InitInv, NextInv, PTL DEF Spec

-----------------------------------------------------------------------------
(***************************************************************************)
(* What the salary store promises users of a network that answers within   *)
(* the debounce, for any rows and number of requests in flight.  No load   *)
(* replaces an edit that waits for its save, also if requests fail.        *)
(* Without failures, on a terminal of one branch, terminal and API agree,  *)
(* and payouts of a deleted day stay deleted.  As in the cashbook store    *)
(* the centre is Apart, whatever writes is alone in flight; what is added  *)
(* is the dirty flag, which the store must not hold when it relies on a    *)
(* load.                                                                   *)
(***************************************************************************)

(* A debounce is never running beside a PUT, and always for an edit.       *)
Debounced ==
  /\ persistTimer \in BOOLEAN
  /\ persistTimer => localDirty /\ \A i \in Slots : net[i].kind \notin Puts

(* Nothing of the store is reset when the session changes: what it holds   *)
(* of one branch it would save for the next.                               *)
OneBranch == \A b, c \in Branches : b = c

Calm == mode.network # "any" /\ ~mode.failures

Writes == Puts \cup {"unload", "commit"}
Fetching == \E i \in Slots : net[i].kind = "load"
Writing == \E i \in Slots : net[i].kind \in Writes \cup {"delete"}

(* Nobody signs out while something is in flight, and nothing fails.       *)
Ours == \A i \in Slots : Busy(i) => user # None /\ net[i].stage # "failed"

Apart == \A i, j \in Slots : net[i].kind \in Writes \cup {"delete"} /\ i # j => Idle(j)

(* The store waits for the PUT in flight, if there is one, and a flush     *)
(* waits for the same; a tab that was closed has loaded nothing; a day is  *)
(* saved or deleted with nothing dirty.                                    *)
Orderly ==
  /\ \A i \in Slots : net[i].kind = "put" => persistInFlight = i
  /\ awaited # None => awaited = persistInFlight
  /\ \A i \in Slots : net[i].kind = "unload" => ~loadedFromApi
  /\ localDirty => \A i \in Slots : net[i].kind \notin {"unload", "commit", "delete"}

(* Two sets of rows are the same but for those of employees who left.      *)
Alike(s, t) == s \ Left = t \ Left

(* What was served is what the API has; memory is what is being saved, or, *)
(* once loaded and with no unsaved edits, what the API has.                *)
Agreed ==
  /\ \A i \in Slots : net[i].stage = "served" /\ net[i].kind # "delete" =>
       \A b \in Branches : net[i].rows = server[b]
  /\ \A i \in Slots : net[i].kind \in Puts => awaited = i \/ Alike(net[i].rows, bundle)
  /\ loadedFromApi /\ ~localDirty /\ ~Writing => \A b \in Branches : Alike(bundle, server[b])

Brings(i) == net[i].kind = "load" /\ net[i].stage = "served"

(* After a delete no payout of the day is with the API, in what may be     *)
(* written, or in what a load brings back; nor in memory, unless a load    *)
(* that will be applied is under way or to follow the delete.              *)
Clean ==
  deleted # {} =>
    /\ deleted \subseteq Branches
    /\ \A b \in Branches : server[b] \cap DayRows = {}
    /\ \A i \in Slots : net[i].kind \in Writes \/ Brings(i) => net[i].rows \cap DayRows = {}
    /\ \/ bundle \cap DayRows = {}
       \/ Fetching /\ ~localDirty
       \/ \E i \in Slots : net[i].kind = "delete"

CInv ==
  /\ Ours /\ Apart /\ Orderly /\ Agreed
  /\ mode.network = "quiet" => Clean

-----------------------------------------------------------------------------
LEMMA KindOf ==
  ASSUME NEW m \in Request \cup {Free}
  PROVE  /\ m = Free => m.kind = "free" /\ m.stage = "none"
         /\ m # Free => m \in Request
         /\ m \in Request => m.kind \in Kinds /\ m # Free /\ m.branch \in Branches /\ m.rows \in SUBSET Rows
  BY DEF Request, Free, Kinds, Puts

LEMMA MessageOf ==
  ASSUME Typed, user # None, NEW kind \in Kinds, NEW rows \in SUBSET Rows
  PROVE  /\ Message(kind, rows) \in Request
         /\ Message(kind, rows).kind = kind
         /\ Message(kind, rows).rows = rows
         /\ Message(kind, rows).stage = "sent"
  BY DEF Message, Request, Typed

-----------------------------------------------------------------------------
(* Debounces and loads, with failures too.                                 *)
LEMMA InitDebounced == Init => Debounced
  BY DEF Init, Debounced

LEMMA NextDebounced ==
  ASSUME Inv, Debounced, mode.network # "any", [Next]_vars
  PROVE  Debounced'
<1>0. \A i \in Slots : /\ Idle(i) => net[i].kind = "free"
                       /\ Busy(i) => net[i] \in Request
  BY KindOf DEF Inv, Typed, Idle, Busy
<1>1. CASE setSalaryBundle
  <2>1. \A i \in Slots : net[i].kind \notin Puts
    BY <1>0, <1>1 DEF setSalaryBundle, Act, OnlyInFlight, Puts
  <2> QED
    BY <1>1, <2>1 DEF setSalaryBundle, Debounced
<1>2. CASE persistTimer' = FALSE
  BY <1>2 DEF Debounced
<1>3. ASSUME UNCHANGED <<persistTimer, localDirty>>,
             \A i \in Slots : net'[i].kind \in Puts => \E j \in Slots : net[j].kind \in Puts
      PROVE  Debounced'
  BY <1>3 DEF Debounced
<1>4. ASSUME NEW i \in Slots, LoadIn(i), UNCHANGED <<persistTimer, localDirty>>
      PROVE  Debounced'
  <2>1. PICK m \in Request \cup {Free} : m.kind \notin Puts /\ net' = [net EXCEPT ![i] = m]
    <3>1. user # None => Message("load", {}) \in Request /\ Message("load", {}).kind = "load"
      BY MessageOf DEF Inv, Kinds
    <3> QED
      BY <1>4, <3>1 DEF LoadIn, Free, Puts
  <2>2. net'[i] = m /\ \A j \in Slots \ {i} : net'[j] = net[j]
    BY <2>1, SlotSent DEF Inv
  <2> QED
    BY <1>3, <1>4, <2>1, <2>2
<1>5. CASE loadSalaryWorkspace \/ reloadSalaryWorkspace
  BY <1>4, <1>5 DEF loadSalaryWorkspace, reloadSalaryWorkspace
<1>6. CASE syncLoadedSalaryBundleToEmployees \/ SignOut \/ (\E b \in Branches : SignIn(b)) \/ UNCHANGED vars
  BY <1>3, <1>6 DEF syncLoadedSalaryBundleToEmployees, SignOut, SignIn, vars, store
<1>7. ASSUME NEW i \in Slots, Serve(i) \/ Fail(i) PROVE Debounced'
  <2>1. net[i] \in Request
    BY <1>0, <1>7 DEF Serve, Fail
  <2>2. net'[i].kind = net[i].kind /\ \A j \in Slots \ {i} : net'[j] = net[j]
    BY <1>7, <2>1 DEF Serve, Fail, Inv, Typed, Request
  <2> QED
    BY <1>3, <1>7, <2>2 DEF Serve, Fail, store
<1>8. ASSUME NEW i \in Slots, LoadAnswered(i) \/ UnloadAnswered(i) \/ net' = [net EXCEPT ![i] = Free],
             UNCHANGED <<persistTimer, localDirty>>
      PROVE  Debounced'
  <2>1. net' = [net EXCEPT ![i] = Free]
    BY <1>8 DEF LoadAnswered, UnloadAnswered
  <2>2. net'[i] = Free /\ \A j \in Slots \ {i} : net'[j] = net[j]
    BY <2>1, SlotSent DEF Inv
  <2> QED
    BY <1>3, <1>8, <2>2 DEF Free, Puts
<1>9. ASSUME NEW i \in Slots, net[i].kind \in Puts, persistTimer' = persistTimer PROVE Debounced'
  BY <1>9 DEF Debounced
<1>10. ASSUME NEW i \in Slots, FlowAnswered(i) PROVE Debounced'
  BY <1>4, <1>8, <1>10 DEF FlowAnswered
<1>11. ASSUME NEW i \in Slots, AnswerStep(i) PROVE Debounced'
  <2>1. CASE LoadAnswered(i) \/ UnloadAnswered(i)
    BY <1>8, <2>1 DEF LoadAnswered, UnloadAnswered, store
  <2>2. CASE PutAnswered(i) \/ FlushAnswered(i) \/ SettleAnswered(i)
    BY <1>9, <2>2 DEF PutAnswered, FlushAnswered, SettleAnswered, Answered, Puts
  <2> QED
    BY <1>10, <1>11, <2>1, <2>2 DEF AnswerStep
<1> QED
  BY <1>1, <1>2, <1>5, <1>6, <1>7, <1>11
     DEF Next, TimerEnds, flushSalaryEdits, BeginFlush, CloseTab, BeginSave, BeginDelete

LEMMA ModeStays ==
  ASSUME [Next]_vars
  PROVE  mode' = mode /\ acts' \in {acts, acts + 1}
  BY DEF Next, vars, setSalaryBundle, TimerEnds, flushSalaryEdits, CloseTab, Act, loadSalaryWorkspace,
         reloadSalaryWorkspace, syncLoadedSalaryBundleToEmployees, SignOut, SignIn, BeginSave, BeginDelete,
         Serve, Fail, AnswerStep, LoadAnswered, PutAnswered, FlushAnswered, SettleAnswered, FlowAnswered,
         UnloadAnswered

Sound == Inv /\ acts \in Nat /\ (mode.network # "any" => Debounced)

LEMMA SoundInv == Spec => []Sound
<1>1. Init => Sound
  BY InitInv, InitDebounced DEF Sound, Init
<1>2. Sound /\ [Next]_vars => Sound'
  BY NextInv, NextDebounced, ModeStays DEF Sound
<1> QED
  BY <1>1, <1>2, PTL DEF Spec

(* Where the network answers within the debounce, no load, reload or roster*)
(* takes an edit off the screen that waits for its save, in whatever order *)
(* the loads are asked for and answered, in whatever session.              *)
THEOREM LoadsAlwaysSpareUnsaved == Spec => LoadsSpareUnsaved
<1>1. Sound /\ [Next]_vars => [mode.network # "any" /\ persistTimer /\ acts' = acts => bundle' = bundle]_vars
  <2> SUFFICES ASSUME Sound, mode.network # "any", [Next]_vars, persistTimer, acts' = acts
               PROVE  bundle' = bundle
    OBVIOUS
  <2>1. localDirty
    BY DEF Sound, Debounced
  <2>2. ASSUME acts' = acts + 1 PROVE FALSE
    BY <2>2 DEF Sound
  <2>3. CASE \/ setSalaryBundle \/ flushSalaryEdits \/ CloseTab \/ SignOut
             \/ (\E b \in Branches : SignIn(b)) \/ BeginSave \/ BeginDelete
    BY <2>2, <2>3 DEF setSalaryBundle, flushSalaryEdits, CloseTab, SignOut, SignIn, BeginSave, BeginDelete, Act
  <2>4. CASE TimerEnds \/ loadSalaryWorkspace \/ reloadSalaryWorkspace \/ UNCHANGED vars
    BY <2>4 DEF TimerEnds, loadSalaryWorkspace, reloadSalaryWorkspace, vars, store
  <2>5. CASE syncLoadedSalaryBundleToEmployees
    BY <2>1, <2>5 DEF syncLoadedSalaryBundleToEmployees
  <2>6. ASSUME NEW i \in Slots, Serve(i) \/ Fail(i) \/ AnswerStep(i) PROVE bundle' = bundle
    BY <2>1, <2>6
       DEF Serve, Fail, store, AnswerStep, LoadAnswered, applyLoadedBundle, PutAnswered, FlushAnswered,
                      SettleAnswered, FlowAnswered, UnloadAnswered
  <2> QED
    BY <2>3, <2>4, <2>5, <2>6 DEF Next
<1> QED
  BY <1>1, SoundInv, PTL DEF Spec, LoadsSpareUnsaved

-----------------------------------------------------------------------------
(* Without failures, on a terminal of one branch.                          *)
LEMMA InitCalm == Init => CInv
<1> SUFFICES ASSUME Init PROVE CInv
  OBVIOUS
<1>1. \A i \in Slots : Idle(i) /\ net[i].kind = "free" /\ net[i].stage = "none"
  BY DEF Init, Idle, Free
<1>2. Ours /\ Apart /\ Orderly
  BY <1>1 DEF Init, Ours, Apart, Orderly, Busy, Idle, Writes, Puts
<1>3. Agreed
  BY <1>1 DEF Init, Agreed, Puts
<1> QED
  BY <1>2, <1>3 DEF CInv, Clean, Init

(* A load in the slot i, which was idle while nothing was written, or had  *)
(* the answer of a saved or deleted day.                                   *)
LEMMA LoadsCalm ==
  ASSUME Inv, CInv, OneBranch, NEW i \in Slots,
         \/ Idle(i) /\ ~Writing
         \/ net[i].kind \in {"commit", "delete"} /\ user # None /\ ~localDirty,
         LoadIn(i), UNCHANGED <<bundle, localDirty, persistInFlight, awaited, api, user, mode>>
  PROVE  CInv'
<1>1. \A j \in Slots : /\ Idle(j) => net[j].kind = "free" /\ net[j].stage = "none"
                       /\ Busy(j) => net[j] \in Request /\ net[j].kind \in Kinds
  BY KindOf DEF Inv, Typed, Idle, Busy
<1>2. \A j \in Slots \ {i} : net[j].kind \notin Writes \cup {"delete"}
  BY <1>1 DEF Writing, CInv, Apart, Writes, Idle, Busy, Puts
<1>3. PICK m \in Request \cup {Free} :
        /\ net' = [net EXCEPT ![i] = m]
        /\ m.stage # "served" /\ m.stage # "failed"
        /\ m = Free \/ (m.kind = "load" /\ user # None)
        /\ user # None => m.kind = "load"
  <2>1. user # None => /\ Message("load", {}) \in Request /\ Message("load", {}).kind = "load"
                       /\ Message("load", {}).stage = "sent"
    BY MessageOf DEF Inv, Kinds
  <2> QED
    BY <2>1, KindOf DEF LoadIn
<1>4. /\ net'[i] = m
      /\ \A j \in Slots \ {i} : net'[j] = net[j]
      /\ m.kind \in {"free", "load"}
  BY <1>3, SlotSent, KindOf DEF Inv
<1>5. Ours'
  BY <1>3, <1>4 DEF CInv, Ours, Busy
<1>6. \A j \in Slots : net'[j].kind \notin Writes \cup {"delete"}
  BY <1>2, <1>4 DEF Writes, Puts
<1>7. Apart'
  BY <1>6 DEF Apart, Writes, Puts, Idle
<1>8. ~Writing'
  BY <1>6 DEF Writing, Writes, Puts
<1>9. Orderly'
  BY <1>6 DEF CInv, Orderly, Writes, Puts
<1>10. Agreed'
  <2>1. ~loadedFromApi'
    BY DEF LoadIn
  <2>2. ASSUME NEW j \in Slots, net'[j].stage = "served", net'[j].kind # "delete", NEW b \in Branches
        PROVE  net'[j].rows = server[b]
    BY <1>3, <1>4, <2>2 DEF CInv, Agreed
  <2> QED
    BY <1>6, <2>1, <2>2 DEF Agreed, Writes, Puts, api
<1>11. ASSUME mode.network = "quiet", deleted # {} PROVE Clean'
  <2>1. Clean
    BY <1>11 DEF CInv
  <2>2. ASSUME NEW j \in Slots, net'[j].kind \in Writes \/ Brings(j)' PROVE net'[j].rows \cap DayRows = {}
    BY <1>3, <1>4, <1>6, <1>11, <2>1, <2>2 DEF Clean, Brings
  <2>3. bundle \cap DayRows = {} \/ (Fetching' /\ ~localDirty)
    <3>1. user # None => Fetching'
      BY <1>3, <1>4 DEF Fetching
    <3>2. CASE user = None
      <4>1. \A j \in Slots : Idle(j)
        BY <3>2 DEF CInv, Ours, Busy, Idle
      <4> QED
        BY <1>1, <1>11, <2>1, <4>1 DEF Clean, Fetching
    <3>3. CASE Idle(i) /\ ~Writing /\ user # None
      BY <1>11, <2>1, <3>1, <3>3 DEF Clean, Writing
    <3> QED
      BY <3>1, <3>2, <3>3
  <2> QED
    BY <1>11, <2>1, <2>2, <2>3 DEF Clean, api
<1> QED
  BY <1>5, <1>7, <1>9, <1>10, <1>11 DEF CInv, Clean, api

(* A write sent while nothing is in flight, or in place of the PUT or the  *)
(* flush just answered.                                                    *)
LEMMA SendsCalm ==
  ASSUME Inv, CInv, OneBranch,
         NEW i \in Slots, NEW kind \in Puts \cup {"commit", "delete"}, NEW rows \in SUBSET Rows,
         user # None,
         \/ \A j \in Slots : Idle(j)
         \/ net[i].kind = "put"
         \/ net[i].kind = "settle" /\ kind = "delete",
         net' = [net EXCEPT ![i] = Message(kind, rows)],
         kind # "delete" => rows = bundle' /\ bundle' \cap DayRows \subseteq bundle,
         kind = "delete" => bundle' = bundle,
         kind \in {"commit", "delete"} => ~localDirty',
         kind = "put" => persistInFlight' = i,
         awaited' # None => awaited' = persistInFlight',
         UNCHANGED <<api, user, loadedFromApi, mode>>
  PROVE  CInv'
<1>1. \A j \in Slots : /\ Idle(j) => net[j].kind = "free" /\ net[j].stage = "none"
                       /\ Busy(j) => net[j] \in Request /\ net[j].kind \in Kinds
  BY KindOf DEF Inv, Typed, Idle, Busy
<1>2. \A j \in Slots \ {i} : Idle(j)
  BY DEF CInv, Apart, Writes, Puts
<1>3. /\ Message(kind, rows) \in Request
      /\ Message(kind, rows).kind = kind
      /\ Message(kind, rows).rows = rows
      /\ Message(kind, rows).stage = "sent"
  BY MessageOf DEF Inv, Kinds, Puts
<1>4. /\ net'[i] = Message(kind, rows)
      /\ \A j \in Slots \ {i} : net'[j] = net[j] /\ net[j].kind = "free" /\ net[j].stage = "none"
  BY <1>1, <1>2, <1>3, SlotSent DEF Inv
<1>5. Ours' /\ Apart'
  BY <1>2, <1>3, <1>4 DEF Ours, Apart, Busy, Idle, Writes, Puts
<1>6. Orderly'
  BY <1>3, <1>4 DEF Orderly, Puts
<1>7. Writing'
  BY <1>3, <1>4 DEF Writing, Writes, Puts
<1>8. Agreed'
  BY <1>3, <1>4, <1>7 DEF Agreed, Puts, Alike
<1>9. ASSUME mode.network = "quiet", deleted # {} PROVE Clean'
  <2>1. Clean
    BY <1>9 DEF CInv
  <2>2. bundle \cap DayRows = {}
    BY <1>1, <1>2, <1>9, <2>1 DEF Clean, Fetching
  <2>3. bundle' \cap DayRows = {} /\ (kind # "delete" => rows \cap DayRows = {})
    BY <2>2
  <2> QED
    BY <1>3, <1>4, <1>9, <2>1, <2>3 DEF Clean, Brings, Writes, Puts, api
<1> QED
  BY <1>5, <1>6, <1>8, <1>9 DEF CInv, Clean, api

(* The answer of a save that nothing follows.                              *)
LEMMA SavesCalm ==
  ASSUME Inv, CInv, NEW i \in Slots, net[i].kind \in Puts \cup {"unload"}, net[i].stage = "served", awaited # i,
         net' = [net EXCEPT ![i] = Free],
         net[i].kind = "unload" => localDirty' = localDirty, net[i].kind # "unload" => ~localDirty',
         awaited # None => awaited = persistInFlight',
         UNCHANGED <<bundle, loadedFromApi, awaited, api, user, mode>>
  PROVE  CInv'
<1>1. \A j \in Slots : /\ Idle(j) => net[j].kind = "free" /\ net[j].stage = "none"
                       /\ Busy(j) => net[j] \in Request /\ net[j].kind \in Kinds
  BY KindOf DEF Inv, Typed, Idle, Busy
<1>2. \A j \in Slots \ {i} : Idle(j)
  BY DEF CInv, Apart, Writes, Puts
<1>3. \A j \in Slots : net'[j] = Free /\ net'[j].kind = "free" /\ net'[j].stage = "none"
  <2>1. net'[i] = Free /\ \A j \in Slots \ {i} : net'[j] = net[j]
    BY SlotSent DEF Inv
  <2>2. Free.kind = "free" /\ Free.stage = "none"
    BY DEF Free
  <2> QED
    BY <1>2, <2>1, <2>2 DEF Idle
<1>4. Ours' /\ Apart' /\ Orderly'
  BY <1>3 DEF Ours, Apart, Orderly, Busy, Idle, Writes, Puts
<1>5. Agreed'
  <2>1. CASE net[i].kind = "unload"
    BY <1>3, <2>1 DEF CInv, Orderly, Agreed, Puts
  <2>2. CASE net[i].kind \in Puts
    <3>1. \A b \in Branches : Alike(bundle, server[b])
      BY <2>2 DEF CInv, Agreed, Alike, Puts
    <3> QED
      BY <1>3, <3>1 DEF Agreed, Alike, Puts, api
  <2> QED
    BY <2>1, <2>2
<1>6. ASSUME mode.network = "quiet", deleted # {} PROVE Clean'
  <2>1. Clean /\ bundle \cap DayRows = {}
    BY <1>1, <1>2, <1>6 DEF CInv, Clean, Fetching, Puts
  <2> QED
    BY <1>3, <1>6, <2>1 DEF Clean, Brings, Writes, Puts, api
<1> QED
  BY <1>4, <1>5, <1>6 DEF CInv, Clean, api

LEMMA ServesCalm ==
  ASSUME Inv, CInv, OneBranch, NEW i \in Slots, Serve(i)
  PROVE  CInv'
<1>1. net[i] \in Request /\ Busy(i) /\ net[i].branch \in Branches /\ net[i].kind \in Kinds
  BY KindOf DEF Serve, Inv, Typed, Busy
<1> DEFINE b == net[i].branch
           m == [net[i] EXCEPT !.stage = "served", !.rows = IF net[i].kind = "load" THEN server[b] ELSE @]
           kept == IF net[i].kind = "load" THEN server[b]
                   ELSE IF net[i].kind = "delete" THEN server[b] \ DayRows ELSE net[i].rows
<1>2. /\ m \in Request /\ m.kind = net[i].kind /\ m.stage = "served"
      /\ m.rows = IF net[i].kind = "load" THEN server[b] ELSE net[i].rows
  BY <1>1 DEF Request, Inv, Typed
<1>3. net' = [net EXCEPT ![i] = m]
  BY <1>1 DEF Serve, Request, Inv, Typed
<1>4. server' = [server EXCEPT ![b] = kept]
  BY <1>1 DEF Serve
<1> HIDE DEF m, kept
<1>5. net'[i] = m /\ m # Free /\ \A j \in Slots \ {i} : net'[j] = net[j]
  BY <1>2, <1>3, SlotSent, KindOf DEF Inv
<1>6. \A c \in Branches : c = b /\ server'[c] = kept
  BY <1>1, <1>4 DEF OneBranch, Inv, Typed
<1>7. Ours'
  BY <1>1, <1>2, <1>5 DEF Serve, CInv, Ours, Busy
<1>8. Apart'
  BY <1>1, <1>2, <1>5 DEF CInv, Apart, Busy, Idle
<1>9. Orderly'
  BY <1>2, <1>5 DEF Serve, CInv, Orderly, store, form
<1>10. /\ Writing' <=> Writing
       /\ Fetching' <=> Fetching
  BY <1>2, <1>5 DEF Writing, Fetching
<1>11. CASE net[i].kind = "load"
  <2>1. kept = server[b] /\ \A c \in Branches : server'[c] = server[c]
    BY <1>6, <1>11 DEF kept
  <2>2. Agreed'
    <3>1. ASSUME NEW j \in Slots, net'[j].stage = "served", net'[j].kind # "delete", NEW c \in Branches
          PROVE  net'[j].rows = server'[c]
      BY <1>2, <1>5, <1>6, <1>11, <2>1, <3>1 DEF CInv, Agreed
    <3>2. \A j \in Slots : net'[j].kind \in Puts => net'[j] = net[j]
      BY <1>2, <1>5, <1>11 DEF Puts
    <3> QED
      BY <1>10, <2>1, <3>1, <3>2 DEF Serve, CInv, Agreed, store, form
  <2>3. ASSUME mode.network = "quiet", deleted' # {} PROVE Clean'
    <3>1. deleted' = deleted
      BY <1>11 DEF Serve
    <3>2. Clean
      BY <2>3 DEF CInv
    <3>3. ASSUME NEW j \in Slots, net'[j].kind \in Writes \/ Brings(j)' PROVE net'[j].rows \cap DayRows = {}
      BY <1>1, <1>2, <1>5, <1>11, <2>3, <3>1, <3>2, <3>3 DEF Clean, Brings, Writes, Puts
    <3>4. \A j \in Slots : net'[j].kind = net[j].kind
      BY <1>2, <1>5
    <3> QED
      BY <1>10, <2>1, <2>3, <3>1, <3>2, <3>3, <3>4 DEF Clean, Serve, store
  <2> QED
    BY <1>7, <1>8, <1>9, <2>2, <2>3 DEF CInv, Clean, Serve
<1>12. CASE net[i].kind # "load"
  <2>1. net[i].kind \in Writes \cup {"delete"}
    BY <1>1, <1>12 DEF Kinds, Writes
  <2>2. \A j \in Slots \ {i} : /\ Idle(j) /\ net'[j] = net[j]
                              /\ net[j].kind = "free" /\ net[j].stage = "none"
    BY <1>5, <2>1 DEF CInv, Apart, Idle, Free
  <2>3. Writing'
    BY <1>2, <1>5, <2>1 DEF Writing
  <2>4. Agreed'
    <3>1. ASSUME NEW j \in Slots, net'[j].stage = "served", net'[j].kind # "delete", NEW c \in Branches
          PROVE  net'[j].rows = server'[c]
      BY <1>2, <1>5, <1>6, <1>12, <2>2, <3>1 DEF kept
    <3>2. \A j \in Slots : net'[j].kind \in Puts => net[j].kind \in Puts /\ net'[j].rows = net[j].rows
      BY <1>2, <1>5, <1>12
    <3> QED
      BY <2>3, <3>1, <3>2 DEF Serve, CInv, Agreed, store, form
  <2>5. ASSUME mode.network = "quiet", deleted' # {} PROVE Clean'
    <3>1. Clean /\ (net[i].kind # "delete" => deleted' = deleted)
      BY <1>12, <2>5 DEF CInv, Serve
    <3>2. net[i].kind # "delete" => net[i].rows \cap DayRows = {}
      BY <2>1, <2>5, <3>1 DEF Clean
    <3>3. \A c \in Branches : server'[c] \cap DayRows = {}
      BY <1>6, <1>12, <3>2 DEF kept
    <3>4. ASSUME NEW j \in Slots, net'[j].kind \in Writes \/ Brings(j)' PROVE net'[j].rows \cap DayRows = {}
      BY <1>2, <1>5, <1>12, <2>2, <3>2, <3>4 DEF Brings, Writes, Puts
    <3>5. \/ bundle \cap DayRows = {}
          \/ \E j \in Slots : net'[j].kind = "delete"
      BY <1>2, <1>5, <1>12, <2>1, <2>2, <2>5, <3>1 DEF Clean, Fetching
    <3>6. deleted' \subseteq Branches
      BY <1>1, <2>5, <3>1 DEF Clean, Serve
    <3> QED
      BY <2>5, <3>3, <3>4, <3>5, <3>6 DEF Clean, Serve, store
  <2> QED
    BY <1>7, <1>8, <1>9, <2>4, <2>5 DEF CInv, Clean, Serve
<1> QED
  BY <1>11, <1>12

LEMMA NextCalm ==
  ASSUME Inv, CInv, OneBranch, Calm, [Next]_vars
  PROVE  CInv'
<1>0. \A i \in Slots : /\ Idle(i) => net[i].kind = "free" /\ net[i].stage = "none"
                       /\ Busy(i) => net[i] \in Request /\ net[i].kind \in Kinds
  BY KindOf DEF Inv, Typed, Idle, Busy
<1>1. CASE setSalaryBundle
  <2>1. ~Writing
    BY <1>0, <1>1 DEF setSalaryBundle, Act, OnlyInFlight, Calm, Writing, Writes, Puts
  <2>2. Ours' /\ Apart' /\ Orderly' /\ Agreed'
    BY <1>1, <2>1
       DEF setSalaryBundle, CInv, Ours, Apart, Orderly, Agreed, Busy, Idle, Writing, Writes, api, form
  <2>3. ASSUME mode.network = "quiet", deleted # {} PROVE Clean'
    <3>1. \A i \in Slots : Idle(i)
      BY <1>1, <2>3 DEF setSalaryBundle, Act, OnlyInFlight
    <3>2. Clean /\ bundle \cap DayRows = {}
      BY <1>0, <2>3, <3>1 DEF CInv, Clean, Fetching
    <3>3. bundle' \cap DayRows = {}
      BY <1>1, <3>2 DEF setSalaryBundle, Edited
    <3> QED
      BY <1>1, <2>3, <3>2, <3>3 DEF setSalaryBundle, Clean, Brings, api
  <2> QED
    BY <1>1, <2>2, <2>3 DEF CInv, Clean, setSalaryBundle, Act, api
<1>2. CASE TimerEnds
  <2>1. \A i \in Slots : Idle(i)
    BY <1>2 DEF TimerEnds, OnlyInFlight, Calm
  <2>4. awaited = None
    BY <1>0, <2>1 DEF Inv, Awaits, CInv, Orderly
  <2>2. CASE user = None
    BY <1>2, <2>2
       DEF TimerEnds, CInv, Ours, Apart, Orderly, Agreed, Clean, Busy, Idle, Writing, Fetching, Brings, api, form
  <2>3. CASE user # None
    <3>1. PICK i \in Slots : net' = [net EXCEPT ![i] = Message("put", bundle)] /\ persistInFlight' = i
      BY <1>2, <2>3 DEF TimerEnds
    <3> QED
      BY <1>2, <2>1, <2>3, <2>4, <3>1, SendsCalm DEF TimerEnds, Puts, Inv, Typed, form
  <2> QED
    BY <2>2, <2>3
<1>3. ASSUME NEW kind \in {"flush", "settle"}, NEW flowName, Act({"put"}), BeginFlush(kind, flowName),
             UNCHANGED <<bundle, localDirty, loadedFromApi, loadPromise, persistInFlight, api, user>>
      PROVE  CInv'
  <2>1. CASE persistInFlight # None /\ awaited' = persistInFlight /\ UNCHANGED net
    <3>1. \A i \in Slots : net[i].kind \in Puts => awaited' = i
      BY <1>0, <1>3, <2>1 DEF Act, OnlyInFlight, Calm, CInv, Orderly, Puts
    <3>2. Agreed'
      BY <1>3, <2>1, <3>1 DEF CInv, Agreed, Writing, api
    <3> QED
      BY <1>3, <2>1, <3>2 DEF Act, CInv, Ours, Apart, Orderly, Clean, Busy, Idle, Fetching, Brings, api
  <2>2. CASE persistInFlight = None /\ user # None /\ Send(kind) /\ UNCHANGED awaited
    <3>1. \A i \in Slots : Idle(i)
      BY <1>3, <2>2, ConstantsAssumption DEF Act, Calm, OnlyInFlight, CInv, Orderly
    <3>2. PICK i \in Slots : net' = [net EXCEPT ![i] = Message(kind, bundle)]
      BY <2>2 DEF Send
    <3> QED
      BY <1>3, <2>2, <3>1, <3>2, SendsCalm DEF Act, BeginFlush, Puts, Inv, Typed, CInv, Orderly
  <2>3. CASE UNCHANGED <<net, form>>
    BY <1>3, <2>3
       DEF Act, CInv, Ours, Apart, Orderly, Agreed, Clean, Busy, Idle, Writing, Fetching, Brings, api, form
  <2> QED
    BY <1>3, <2>1, <2>2, <2>3 DEF BeginFlush, FlushNow, form
<1>4. CASE flushSalaryEdits \/ BeginDelete
  BY <1>3, <1>4 DEF flushSalaryEdits, BeginDelete
<1>5. CASE CloseTab
  <2>1. \A i \in Slots : Idle(i) /\ ~Busy(i)
    BY <1>5 DEF CloseTab, Act, Calm, OnlyInFlight, Idle, Busy
  <2>2. PICK w \in SUBSET Slots :
          /\ net' = [j \in Slots |-> IF j \in w THEN Message("unload", bundle) ELSE Free]
          /\ w # {} => user # None
          /\ \A j, k \in w : j = k
    <3>1. CASE localDirty /\ user # None
      <4>1. PICK i \in Slots : net' = [j \in Slots |-> IF j = i THEN Message("unload", bundle) ELSE Free]
        BY <1>5, <2>1, <3>1 DEF CloseTab
      <4> WITNESS {i} \in SUBSET Slots
      <4> QED
        BY <3>1, <4>1
    <3>2. CASE net' = [j \in Slots |-> Free]
      <4> WITNESS {} \in SUBSET Slots
      <4> QED
        BY <3>2
    <3> QED
      BY <1>5, <2>1, <3>1, <3>2 DEF CloseTab
  <2>3. \A j \in Slots : \/ net'[j] = Free /\ net'[j].kind = "free" /\ net'[j].stage = "none"
                         \/ /\ j \in w /\ user # None /\ net'[j].kind = "unload" /\ net'[j].stage = "sent"
                            /\ net'[j].rows = bundle
    <3>1. user # None => /\ Message("unload", bundle).kind = "unload" /\ Message("unload", bundle).stage = "sent"
                         /\ Message("unload", bundle).rows = bundle
      BY MessageOf DEF Inv, Typed, Kinds
    <3>2. Free.kind = "free" /\ Free.stage = "none"
      BY DEF Free
    <3> QED
      BY <2>2, <3>1, <3>2
  <2>4. Ours' /\ Apart' /\ Orderly'
    <3>1. Ours'
      BY <1>5, <2>3 DEF CloseTab, Ours, Busy
    <3>2. Apart'
      BY <2>2, <2>3 DEF Apart, Idle, Writes, Puts
    <3> QED
      BY <1>5, <2>3, <3>1, <3>2 DEF CloseTab, Orderly
  <2>5. Agreed'
    BY <1>5, <2>3 DEF CloseTab, Agreed, Puts
  <2>6. ASSUME mode.network = "quiet", deleted # {} PROVE Clean'
    <3>1. Clean /\ bundle \cap DayRows = {}
      BY <1>0, <2>1, <2>6 DEF CInv, Clean, Fetching
    <3> QED
      BY <1>5, <2>3, <2>6, <3>1 DEF CloseTab, Clean, Brings, Writes, Puts, api
  <2> QED
    BY <1>5, <2>4, <2>5, <2>6 DEF CloseTab, Act, CInv, Clean, api
<1>6. CASE loadSalaryWorkspace \/ reloadSalaryWorkspace
  <2>1. ~Writing
    BY <1>0, <1>6 DEF loadSalaryWorkspace, reloadSalaryWorkspace, OnlyInFlight, Calm, Writing, Writes, Puts
  <2> QED
    BY <1>6, <2>1, LoadsCalm DEF loadSalaryWorkspace, reloadSalaryWorkspace, form
<1>7. CASE syncLoadedSalaryBundleToEmployees
  <2>1. Ours' /\ Apart' /\ Orderly'
    BY <1>7 DEF syncLoadedSalaryBundleToEmployees, CInv, Ours, Apart, Orderly, Busy, Idle, form, api
  <2>2. Alike(bundle', bundle)
    BY <1>7 DEF syncLoadedSalaryBundleToEmployees, Alike
  <2>3. Agreed'
    BY <1>7, <2>2 DEF syncLoadedSalaryBundleToEmployees, CInv, Agreed, Alike, Writing, form, api
  <2>4. mode.network = "quiet" => Clean'
    BY <1>7 DEF syncLoadedSalaryBundleToEmployees, CInv, Clean, Fetching, Brings, form, api
  <2> QED
    BY <1>7, <2>1, <2>3, <2>4 DEF syncLoadedSalaryBundleToEmployees, CInv
<1>8. CASE SignOut \/ \E b \in Branches : SignIn(b)
  <2>1. \A i \in Slots : Idle(i) /\ ~Busy(i)
    BY <1>8 DEF SignOut, SignIn, Act, Calm, OnlyInFlight, Idle, Busy
  <2> QED
    BY <1>8, <2>1
       DEF SignOut, SignIn, Act, CInv, Ours, Apart, Orderly, Agreed, Clean, Busy, Idle, Writing, Fetching, Brings,
                      store, form, api
<1>9. CASE BeginSave
  <2>1. PICK rows \in SUBSET Rows, i \in Slots :
          Edited(rows) /\ bundle' = rows /\ net' = [net EXCEPT ![i] = Message("commit", rows)]
    BY <1>9 DEF BeginSave
  <2>2. \A j \in Slots : Idle(j)
    BY <1>9 DEF BeginSave, Act, Calm, OnlyInFlight
  <2>3. bundle' \cap DayRows \subseteq bundle
    BY <2>1 DEF Edited
  <2>4. /\ user # None /\ ~localDirty' /\ (awaited' # None => awaited' = persistInFlight')
        /\ UNCHANGED <<api, user, loadedFromApi, mode>>
    BY <1>9 DEF BeginSave, Act, CInv, Orderly
  <2>5. PICK kind \in Puts \cup {"commit", "delete"} : kind = "commit"
    OBVIOUS
  <2> QED
    BY <2>1, <2>2, <2>3, <2>4, <2>5, SendsCalm
<1>10. ASSUME NEW i \in Slots, Fail(i) PROVE CInv'
  BY <1>10 DEF Fail, Calm
<1>11. ASSUME NEW i \in Slots, LoadAnswered(i) PROVE CInv'
  <2>1. Brings(i) /\ Busy(i)
    BY <1>0, <1>11 DEF LoadAnswered, Answered, Brings, CInv, Ours, Busy, Idle
  <2>2. /\ net'[i] = Free /\ Free.kind = "free" /\ Free.stage = "none"
        /\ \A j \in Slots \ {i} : net'[j] = net[j]
    <3>1. Free.kind = "free" /\ Free.stage = "none"
      BY DEF Free
    <3> QED
      BY <1>11, <3>1, SlotSent DEF LoadAnswered, Inv
  <2>3. \A j \in Slots : net[j].kind \notin Writes \cup {"delete"} /\ net'[j].kind \notin Writes \cup {"delete"}
    <3>1. \A j \in Slots : net[j].kind \notin Writes \cup {"delete"}
      BY <2>1 DEF Brings, CInv, Apart, Busy, Idle, Writes, Puts
    <3> QED
      BY <2>2, <3>1 DEF Writes, Puts
  <2>4. Ours' /\ Apart' /\ Orderly'
    <3>1. Ours'
      BY <1>11, <2>2 DEF LoadAnswered, CInv, Ours, Busy
    <3>2. Apart'
      BY <2>3 DEF Apart, Idle, Writes, Puts
    <3> QED
      BY <1>11, <2>3, <3>1, <3>2 DEF LoadAnswered, CInv, Orderly, Writes, Puts, form
  <2>5. localDirty \/ bundle' \in {net[i].rows, net[i].rows \ Left}
    BY <1>11, <2>1 DEF LoadAnswered, applyLoadedBundle, Ok, Brings
  <2>6. \A b \in Branches : net[i].rows = server[b]
    BY <2>1 DEF Brings, CInv, Agreed
  <2>7. Agreed'
    <3>1. ASSUME NEW j \in Slots, net'[j].stage = "served", net'[j].kind # "delete", NEW b \in Branches
          PROVE  net'[j].rows = server[b]
      BY <2>2, <3>1 DEF CInv, Agreed
    <3>2. localDirty \/ \A b \in Branches : Alike(bundle', server[b])
      BY <2>5, <2>6 DEF Alike
    <3> QED
      BY <1>11, <2>3, <3>1, <3>2 DEF LoadAnswered, Agreed, Writes, Puts, api, form
  <2>8. ASSUME mode.network = "quiet", deleted # {} PROVE Clean'
    <3>1. Clean /\ net[i].rows \cap DayRows = {}
      BY <2>1, <2>8 DEF CInv, Clean
    <3>2. bundle' \cap DayRows = {}
      <4>1. CASE localDirty
        BY <1>11, <2>1, <2>3, <2>8, <3>1, <4>1 DEF Clean, LoadAnswered, applyLoadedBundle, Writes, Puts
      <4> QED
        BY <2>5, <3>1, <4>1
    <3>3. ASSUME NEW j \in Slots, net'[j].kind \in Writes \/ Brings(j)' PROVE net'[j].rows \cap DayRows = {}
      BY <2>2, <2>3, <2>8, <3>1, <3>3 DEF Clean, Brings
    <3> QED
      BY <1>11, <2>8, <3>1, <3>2, <3>3 DEF LoadAnswered, Clean, api
  <2> QED
    BY <1>11, <2>4, <2>7, <2>8 DEF LoadAnswered, CInv, Clean, api
<1>12. ASSUME NEW i \in Slots, PutAnswered(i) PROVE CInv'
  <2>1. net[i].kind = "put" /\ Busy(i) /\ net[i].stage = "served" /\ user # None
    BY <1>0, <1>12 DEF PutAnswered, Answered, CInv, Ours, Busy, Idle
  <2>2. ~localDirty'
    BY <1>12, <2>1 DEF PutAnswered, Saved, Ok
  <2>3. CASE awaited = i
    <3>1. PICK kind \in {"settle", "flush"} : net' = [net EXCEPT ![i] = Message(kind, bundle)]
      BY <1>12, <2>1, <2>3 DEF PutAnswered
    <3>2. /\ bundle \in SUBSET Rows /\ bundle' = bundle /\ awaited' = None
          /\ UNCHANGED <<api, user, loadedFromApi, mode>>
      BY <1>12, <2>3 DEF PutAnswered, Inv, Typed
    <3> QED
      BY <2>1, <3>1, <3>2, SendsCalm DEF Puts
  <2>4. CASE awaited # i
    <3>1. awaited = None
      BY <2>1, <2>4 DEF CInv, Orderly
    <3> QED
      BY <1>12, <2>1, <2>2, <2>4, <3>1, SavesCalm DEF PutAnswered, Puts
  <2> QED
    BY <2>3, <2>4
<1>13. ASSUME NEW i \in Slots, FlushAnswered(i) PROVE CInv'
  <2>1. net[i].kind = "flush" /\ Busy(i) /\ net[i].stage = "served"
    BY <1>0, <1>13 DEF FlushAnswered, Answered, CInv, Ours, Busy, Idle
  <2>2. ~localDirty'
    BY <1>13, <2>1 DEF FlushAnswered, Saved, Ok
  <2>3. awaited # i /\ (awaited # None => awaited = persistInFlight)
    BY <2>1, ConstantsAssumption DEF Inv, Awaits, CInv, Orderly
  <2> QED
    BY <1>13, <2>1, <2>2, <2>3, SavesCalm DEF FlushAnswered, Puts, form
<1>14. ASSUME NEW i \in Slots, SettleAnswered(i) PROVE CInv'
  <2>1. net[i].kind = "settle" /\ Busy(i) /\ net[i].stage = "served" /\ user # None
    BY <1>0, <1>14 DEF SettleAnswered, Answered, CInv, Ours, Busy, Idle
  <2>2. ~localDirty' /\ net' = [net EXCEPT ![i] = Message("delete", {})]
    BY <1>14, <2>1 DEF SettleAnswered, Saved, Ok
  <2>3. /\ bundle' = bundle /\ (awaited' # None => awaited' = persistInFlight')
        /\ UNCHANGED <<api, user, loadedFromApi, mode>>
    BY <1>14 DEF SettleAnswered, CInv, Orderly
  <2>4. PICK kind \in Puts \cup {"commit", "delete"}, rows \in SUBSET Rows : kind = "delete" /\ rows = {}
    OBVIOUS
  <2> QED
    BY <2>1, <2>2, <2>3, <2>4, SendsCalm
<1>15. ASSUME NEW i \in Slots, FlowAnswered(i) PROVE CInv'
  <2>1. net[i].kind \in {"commit", "delete"} /\ Busy(i) /\ net[i].stage = "served" /\ user # None
    BY <1>0, <1>15 DEF FlowAnswered, Answered, CInv, Ours, Busy, Idle
  <2>2. ~localDirty
    BY <2>1 DEF CInv, Orderly
  <2> QED
    BY <1>15, <2>1, <2>2, LoadsCalm DEF FlowAnswered, Ok
<1>16. ASSUME NEW i \in Slots, UnloadAnswered(i) PROVE CInv'
  <2>1. net[i].kind = "unload" /\ Busy(i) /\ net[i].stage = "served"
    BY <1>0, <1>16 DEF UnloadAnswered, Answered, CInv, Ours, Busy, Idle
  <2>2. awaited # i /\ (awaited # None => awaited = persistInFlight)
    BY <2>1, ConstantsAssumption DEF Inv, Awaits, CInv, Orderly
  <2> QED
    BY <1>16, <2>1, <2>2, SavesCalm DEF UnloadAnswered, Puts, store, form
<1>17. CASE UNCHANGED vars
  BY <1>17
     DEF vars, CInv, Ours, Apart, Orderly, Agreed, Clean, Busy, Idle, Writing, Fetching, Brings, store, form, api
<1> QED
  BY <1>1, <1>2, <1>4, <1>5, <1>6, <1>7, <1>8, <1>9, <1>10, <1>11, <1>12, <1>13, <1>14, <1>15, <1>16,
     <1>17, ServesCalm
     DEF Next, AnswerStep

LEMMA CalmInv == OneBranch => (Spec => [](Inv /\ (Calm => CInv)))
<1> SUFFICES ASSUME OneBranch PROVE Spec => [](Inv /\ (Calm => CInv))
  OBVIOUS
<1>1. Init => Inv /\ (Calm => CInv)
  BY InitInv, InitCalm
<1>2. Inv /\ (Calm => CInv) /\ [Next]_vars => (Inv /\ (Calm => CInv))'
  BY NextInv, NextCalm, ModeStays DEF Calm
<1> QED
  BY <1>1, <1>2, PTL DEF Spec

(* A user who waits for answers finds the payouts of a deleted day neither *)
(* in the API nor, later, brought back by a save: debounced, flushed, sent *)
(* with a day or when the tab is closed.                                   *)
THEOREM DeletedAlwaysStayDeleted == OneBranch => (Spec => []DeletedStayDeleted)
<1>1. Inv /\ (Calm => CInv) => DeletedStayDeleted
  BY DEF Calm, CInv, Clean, DeletedStayDeleted
<1> QED
  BY <1>1, CalmInv, PTL

(* Whenever nothing is pending and nothing is dirty, the registers on the  *)
(* screen are those the API has, but for employees who left, also if edits *)
(* met a load on its way.                                                  *)
THEOREM AlwaysConverged == OneBranch => (Spec => []Converged)
<1>1. Inv /\ (Calm => CInv) => Converged
  <2> SUFFICES ASSUME Inv, CInv, user # None, loadedFromApi, ~localDirty, \A i \in Slots : Idle(i)
               PROVE  bundle \ Left = server[user] \ Left
    BY DEF Calm, Converged
  <2>1. ~Writing
    BY KindOf DEF Writing, Writes, Puts, Idle, Inv, Typed
  <2>2. user \in Branches
    BY DEF Inv, Typed
  <2> QED
    BY <2>1, <2>2 DEF CInv, Agreed, Alike
<1> QED
  BY <1>1, CalmInv, PTL
=============================================================================
