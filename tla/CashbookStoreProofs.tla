------------------------ MODULE CashbookStoreProofs ------------------------
(***************************************************************************)
(* Rows of a deleted day stay deleted, and terminal and API agree on the   *)
(* cashbook when nothing is pending, for any branches, rows and number of  *)
(* requests in flight, on a network that answers within the debounce.      *)
(* Both follow from one invariant.  Its centre is Apart: whatever writes   *)
(* is alone in flight.  No rule of the store says so; it holds because     *)
(* nothing is written before the session's first load (Loaded), after it   *)
(* nothing is loaded but by who has just written, and a second write waits *)
(* for the first (Awaits).                                                 *)
(***************************************************************************)
EXTENDS CashbookStore, TLAPS

Calm == mode.network = "calm" /\ ~mode.failures

Typed ==
  /\ server \in [Branches -> SUBSET Rows]
  /\ user \in Branches \cup {None}
  /\ workspace \in SUBSET Rows
  /\ persistTimer \in BOOLEAN
  /\ net \in [Slots -> Request \cup {Free}]
  /\ deleted \in SUBSET Branches

(* Nobody signs out while something is in flight, and nothing fails.       *)
Ours == \A i \in Slots : Busy(i) => user # None /\ net[i].branch = user /\ net[i].stage # "failed"

Writes == {"put", "flush", "commit"}
Fetching == \E i \in Slots : net[i].kind \in Reads

Brings(i) == net[i].kind \in Reads /\ net[i].stage = "served"

Apart == \A i, j \in Slots : net[i].kind \in Writes \cup {"delete"} /\ i # j => Idle(j)

Loaded ==
  /\ user # None => ~loadError
  /\ user # None => Fetching \/ (loadedFromApi /\ loadPromise # None)
  /\ \A i \in Slots : net[i].kind = "load" => loadPromise # None

(* The store waits for the PUT in flight, if there is one.                 *)
Awaits ==
  /\ \A i \in Slots : net[i].kind = "put" => persistInFlight = i
  /\ persistInFlight # None => persistInFlight \in Slots /\ net[persistInFlight].kind = "put"

(* After a delete no row of the day is with the API, in what may be        *)
(* written, or in what a load brings back; nor in memory, as soon as the   *)
(* reload that follows the delete is answered.                             *)
Clean ==
  /\ \A b \in deleted : server[b] \cap DayRows = {}
  /\ \A i \in Slots : net[i].branch \in deleted /\ (net[i].kind \in Writes \/ Brings(i))
       => net[i].rows \cap DayRows = {}
  /\ user \in deleted => \/ workspace \cap DayRows = {}
                         \/ Fetching
                         \/ \E i \in Slots : net[i].kind = "delete"

(* What was served is what the API has; memory is what is being PUT, or    *)
(* what the API has, unless a save is due or a flush will follow.          *)
Agreed ==
  /\ \A i \in Slots : net[i].stage = "served" /\ net[i].kind # "delete" => net[i].rows = server[net[i].branch]
  /\ \A i \in Slots : net[i].kind = "put" => persistTimer \/ awaited = i \/ net[i].rows = workspace
  /\ user # None /\ (\A i \in Slots : Idle(i)) => persistTimer \/ workspace = server[user]

Inv == Typed /\ Ours /\ Apart /\ Loaded /\ Awaits /\ Clean /\ Agreed

-----------------------------------------------------------------------------
LEMMA SentTyped ==
  ASSUME Typed, NEW kind \in Kinds
  PROVE  /\ Sent(kind) \in Request
         /\ Sent(kind).kind = kind
         /\ Sent(kind).branch = user
         /\ Sent(kind).rows = workspace
         /\ Sent(kind).stage = "sent"
  BY DEF Sent, Typed, Request

LEMMA Kinded ==
  ASSUME NEW m \in Request \cup {Free}
  PROVE  /\ m = Free => m.kind = "free" /\ m.stage = "none" /\ m.branch = None
         /\ m # Free => m \in Request
         /\ m \in Request => m.kind \in Kinds /\ m # Free
         /\ m.rows \in SUBSET Rows
  BY DEF Request, Free, Kinds

LEMMA SlotSet ==
  ASSUME Typed, NEW i \in Slots, NEW m \in Request \cup {Free}, net' = [net EXCEPT ![i] = m]
  PROVE  /\ net' \in [Slots -> Request \cup {Free}]
         /\ net'[i] = m
         /\ \A j \in Slots \ {i} : net'[j] = net[j]
  BY DEF Typed

LEMMA InitInv == Init => Inv
<1> SUFFICES ASSUME Init PROVE Inv
  OBVIOUS
<1> USE ConstantsAssumption
<1>1. Typed
  BY DEF Init, Typed
<1>2. \A i \in Slots : Idle(i) /\ net[i].kind = "free" /\ net[i].stage = "none"
  BY DEF Init, Idle, Free
<1>3. Ours /\ Apart /\ Loaded /\ Awaits
  BY <1>2 DEF Init, Ours, Apart, Loaded, Awaits, Busy, Idle, Writes
<1>4. Clean /\ Agreed
  BY <1>2 DEF Init, Clean, Agreed, Brings, Writes, Reads
<1> QED
  BY <1>1, <1>3, <1>4 DEF Inv

(* A load or a reload sent on an idle slot, or in place of a delete or a   *)
(* commit just answered.                                                   *)
LEMMA Fetches ==
  ASSUME Inv, NEW i \in Slots, NEW kind \in Reads, user # None,
         \/ Idle(i) /\ \A j \in Slots : net[j].kind \notin Writes \cup {"delete"}
         \/ net[i].kind \in {"commit", "delete"},
         net' = [net EXCEPT ![i] = Sent(kind)],
         kind = "load" => loadPromise' # None, loadPromise' = loadPromise \/ loadPromise' # None,
         ~loadError', persistTimer' = persistTimer \/ persistTimer' = FALSE,
         UNCHANGED <<server, user, workspace, loadedFromApi, persistInFlight, awaited, deleted>>
  PROVE  Inv'
<1> USE ConstantsAssumption
<1>1. Sent(kind) \in Request /\ Sent(kind).kind = kind /\ Sent(kind).branch = user /\ Sent(kind).stage = "sent"
  BY SentTyped DEF Inv, Reads, Kinds
<1>2. /\ net' \in [Slots -> Request \cup {Free}]
      /\ net'[i] = Sent(kind)
      /\ \A j \in Slots \ {i} : net'[j] = net[j]
  BY <1>1, SlotSet DEF Inv
<1>3. Typed'
  BY <1>2 DEF Inv, Typed
<1>4. \A j \in Slots : /\ Idle(j) => net[j].kind = "free"
                       /\ Busy(j) => net[j] \in Request /\ net[j].kind \in Kinds
                       /\ net'[j].kind \notin Writes \cup {"delete"}
  BY <1>1, <1>2, Kinded DEF Inv, Typed, Apart, Idle, Busy, Writes, Reads
<1>11. Ours'
  BY <1>1, <1>2 DEF Inv, Ours, Busy
<1>5. Apart'
  BY <1>4 DEF Apart, Writes, Idle
<1>6. Fetching'
  BY <1>1, <1>2 DEF Fetching
<1>7. Loaded'
  BY <1>1, <1>2, <1>6 DEF Inv, Loaded
<1>8. Awaits'
  BY <1>1, <1>2, <1>4 DEF Inv, Awaits, Writes, Idle, Reads
<1>9. Clean'
  <2>1. \A b \in deleted : server[b] \cap DayRows = {}
    BY DEF Inv, Clean
  <2>2. ASSUME NEW j \in Slots, net'[j].kind \in Writes \/ Brings(j)', net'[j].branch \in deleted
        PROVE  net'[j].rows \cap DayRows = {}
    BY <1>1, <1>2, <1>4, <2>2 DEF Inv, Clean, Brings, Writes, Reads
  <2> QED
    BY <1>6, <2>1, <2>2 DEF Clean
<1>10. Agreed'
  <2>1. ASSUME NEW j \in Slots, net'[j].stage = "served", net'[j].kind # "delete"
        PROVE  net'[j].rows = server[net'[j].branch]
    BY <1>1, <1>2, <2>1 DEF Inv, Agreed
  <2>2. ~Idle(i)'
    BY <1>1, <1>2, Kinded DEF Idle
  <2> QED
    BY <1>4, <2>1, <2>2 DEF Agreed, Writes, Idle
<1> QED
  BY <1>3, <1>5, <1>7, <1>8, <1>9, <1>10, <1>11 DEF Inv

(* A write sent on an idle slot while nothing else is in flight, or in     *)
(* place of the PUT or flush just answered.                                *)
LEMMA Sends ==
  ASSUME Inv, NEW i \in Slots, NEW kind \in Writes \cup {"delete"}, user # None,
         \/ \A j \in Slots : Idle(j)
         \/ net[i].kind = "put"
         \/ net[i].kind = "flush" /\ kind = "delete",
         net' = [net EXCEPT ![i] = Sent(kind)],
         ~loadError',
         persistInFlight' = IF kind = "put" THEN i ELSE None,
         persistTimer' \in BOOLEAN,
         UNCHANGED <<server, user, workspace, loadedFromApi, loadPromise, deleted>>
  PROVE  Inv'
<1> USE ConstantsAssumption
<1>1. Sent(kind) \in Request /\ Sent(kind).kind = kind /\ Sent(kind).branch = user /\ Sent(kind).stage = "sent"
      /\ Sent(kind).rows = workspace
  BY SentTyped DEF Inv, Writes, Kinds
<1>2. /\ net' \in [Slots -> Request \cup {Free}]
      /\ net'[i] = Sent(kind)
      /\ \A j \in Slots \ {i} : net'[j] = net[j]
  BY <1>1, SlotSet DEF Inv
<1>3. Typed'
  BY <1>2 DEF Inv, Typed
<1>4. \A j \in Slots : Idle(j) => net[j].kind = "free" /\ net[j].stage = "none" /\ net[j].branch = None
  BY Kinded DEF Inv, Typed, Idle
<1>5. \A j \in Slots \ {i} : Idle(j)
  BY DEF Inv, Apart, Writes
<1>6. ~Fetching
  BY <1>4, <1>5 DEF Fetching, Reads
<1>7. Ours'
  BY <1>1, <1>2, <1>5 DEF Ours, Busy, Idle
<1>13. Apart'
  BY <1>2, <1>5, <1>4 DEF Apart, Idle, Writes
<1>8. Loaded'
  BY <1>1, <1>2, <1>4, <1>5, <1>6 DEF Inv, Loaded, Writes
<1>9. Awaits'
  BY <1>1, <1>2, <1>4, <1>5 DEF Awaits
<1>10. user \in deleted => workspace \cap DayRows = {} \/ kind = "delete"
  BY <1>4, <1>5, <1>6 DEF Inv, Clean
<1>11. Clean'
  BY <1>1, <1>2, <1>4, <1>5, <1>10 DEF Inv, Clean, Brings, Writes
<1>12. Agreed'
  BY <1>1, <1>2, <1>4, <1>5 DEF Inv, Agreed, Idle, Free
<1> QED
  BY <1>3, <1>7, <1>8, <1>9, <1>11, <1>12, <1>13 DEF Inv

(* An answer that frees its slot, and is not what memory waits for.        *)
LEMMA Frees ==
  ASSUME Inv, NEW i \in Slots, net' = [net EXCEPT ![i] = Free]
  PROVE  /\ net' \in [Slots -> Request \cup {Free}]
         /\ net'[i] = Free /\ Free.kind = "free" /\ Free.stage = "none"
         /\ \A j \in Slots \ {i} : net'[j] = net[j]
         /\ Ours /\ UNCHANGED user => Ours'
         /\ Apart'
<1>1. /\ net' \in [Slots -> Request \cup {Free}]
      /\ net'[i] = Free
      /\ \A j \in Slots \ {i} : net'[j] = net[j]
  BY SlotSet DEF Inv
<1>2. Free.kind = "free" /\ Free.stage = "none"
  BY DEF Free
<1>3. Apart'
  BY <1>1, <1>2 DEF Inv, Apart, Idle, Writes
<1> QED
  BY <1>1, <1>2, <1>3 DEF Ours, Busy

(* What a load brings, applied.                                            *)
LEMMA Applies ==
  ASSUME Inv, NEW i \in Slots, Brings(i), net' = [net EXCEPT ![i] = Free], applyFetchedWorkspace(i),
         loadPromise' # None,
         UNCHANGED <<server, user, persistInFlight, awaited, deleted>>
  PROVE  Inv'
<1> USE ConstantsAssumption
<1>1. /\ net' \in [Slots -> Request \cup {Free}]
      /\ net'[i] = Free /\ Free.kind = "free" /\ Free.stage = "none"
      /\ \A j \in Slots \ {i} : net'[j] = net[j]
      /\ Ours' /\ Apart'
  BY Frees DEF Inv
<1>2. /\ Busy(i) /\ net[i] \in Request /\ net[i].rows \in SUBSET Rows /\ net[i].kind \in Reads
      /\ net[i].stage = "served"
  BY Kinded DEF Inv, Typed, Brings, Busy, Reads
<1>3. net[i].branch = user /\ user # None
  BY <1>2 DEF Inv, Ours
<1>4. Typed'
  BY <1>1, <1>2 DEF applyFetchedWorkspace, Inv, Typed
<1>5. Loaded'
  BY <1>1 DEF applyFetchedWorkspace, Loaded
<1>6. Awaits'
  BY <1>1, <1>2 DEF Inv, Awaits, Reads
<1>7. user \in deleted => net[i].rows \cap DayRows = {}
  BY <1>2, <1>3 DEF Inv, Clean, Brings
<1>8. Clean'
  BY <1>1, <1>7 DEF applyFetchedWorkspace, Inv, Clean, Brings, Writes, Reads
<1>9. \A j \in Slots : net[j].kind # "put"
  BY <1>2, Kinded DEF Inv, Apart, Idle, Busy, Writes, Reads
<1>10. persistTimer' \/ workspace' = server[user]
  BY <1>2, <1>3 DEF applyFetchedWorkspace, Inv, Agreed, Reads
<1>11. Agreed'
  BY <1>1, <1>9, <1>10 DEF Inv, Agreed
<1> QED
  BY <1>1, <1>4, <1>5, <1>6, <1>8, <1>11 DEF Inv

-----------------------------------------------------------------------------
LEMMA NextInv ==
  ASSUME Inv, Calm, [Next]_vars
  PROVE  Inv'
<1> USE ConstantsAssumption
<1>0. /\ \A i \in Slots : Idle(i) => net[i].kind = "free" /\ net[i].stage = "none" /\ net[i].branch = None
      /\ \A i \in Slots : Busy(i) => net[i] \in Request /\ net[i].kind \in Kinds
  BY Kinded DEF Inv, Typed, Idle, Busy
<1>1. CASE setWorkspace
  BY <1>0, <1>1
     DEF setWorkspace, Act, OnlyInFlight, Calm, Inv, Typed, Ours, Apart, Loaded, Awaits, Clean, Agreed,
                    Fetching, Brings, Busy, Idle, Writes, Reads
<1>2. CASE TimerEnds
  <2>1. \A i \in Slots : Idle(i)
    BY <1>2 DEF TimerEnds, Calm, OnlyInFlight
  <2>2. CASE user = None
    BY <1>0, <1>2, <2>1, <2>2 DEF TimerEnds, Inv, Typed, Ours, Apart, Loaded, Awaits, Clean, Agreed,
                    Fetching, Brings, Busy, Idle, Writes, Reads
  <2>3. CASE user # None
    <3>1. PICK i \in Slots : net' = [net EXCEPT ![i] = Sent("put")] /\ persistInFlight' = i
      BY <1>2, <2>3 DEF TimerEnds
    <3> QED
      BY <1>2, <2>1, <2>3, <3>1, Sends DEF TimerEnds, Writes, Inv, Loaded
  <2> QED
    BY <2>2, <2>3
<1>3. CASE loadLedgerWorkspace
  <2>1. CASE user = None
    <3>1. \A i \in Slots : Idle(i)
      BY <2>1 DEF Inv, Ours, Busy, Idle
    <3> QED
      BY <1>0, <1>3, <2>1, <3>1 DEF loadLedgerWorkspace, Inv, Typed, Ours, Apart, Loaded, Awaits, Clean, Agreed,
                    Fetching, Brings, Busy, Idle, Writes, Reads
  <2>2. CASE user # None
    <3>1. PICK i \in Slots : Idle(i) /\ net' = [net EXCEPT ![i] = Sent("load")] /\ loadPromise' = i
      BY <1>3, <2>2 DEF loadLedgerWorkspace
    <3>2. Fetching
      BY <1>3, <2>2 DEF loadLedgerWorkspace, Inv, Loaded
    <3>3. \A j \in Slots : net[j].kind \notin Writes \cup {"delete"}
      BY <1>0, <3>2 DEF Fetching, Inv, Apart, Idle, Busy, Writes, Reads
    <3> QED
      BY <1>3, <2>2, <3>1, <3>3, Fetches DEF loadLedgerWorkspace, Reads
  <2> QED
    BY <2>1, <2>2
<1>4. CASE ProfileKnown
  <2>1. PICK i \in Slots : Idle(i) /\ ReloadIn(i)
    BY <1>4 DEF ProfileKnown
  <2>2. Fetching
    BY <1>4 DEF ProfileKnown, Inv, Loaded
  <2>3. \A j \in Slots : net[j].kind \notin Writes \cup {"delete"}
    BY <1>0, <2>2 DEF Fetching, Inv, Apart, Idle, Busy, Writes, Reads
  <2> QED
    BY <1>4, <2>1, <2>3, Fetches DEF ProfileKnown, ReloadIn, Reads
<1>5. CASE resetLedgerWorkspace
  <2>1. \A i \in Slots : Idle(i)
    BY <1>5 DEF resetLedgerWorkspace, Act, Calm, OnlyInFlight, Inv, Ours
  <2> QED
    BY <1>0, <1>5, <2>1 DEF resetLedgerWorkspace, Inv, Typed, Ours, Apart, Loaded, Awaits, Clean, Agreed,
                    Fetching, Brings, Busy, Idle, Writes, Reads
<1>6. ASSUME NEW b \in Branches, SignIn(b) PROVE Inv'
  <2>1. \A i \in Slots : Idle(i)
    BY <1>6 DEF SignIn, Act, Calm, OnlyInFlight, Inv, Ours, Busy, Idle
  <2> DEFINE m == [Sent("reload") EXCEPT !.branch = b]
  <2>2. PICK i \in Slots : net' = [net EXCEPT ![i] = m]
    BY <1>6 DEF SignIn
  <2>3. m \in Request /\ m.kind = "reload" /\ m.branch = b /\ m.stage = "sent"
    BY DEF Sent, Inv, Typed, Request, Kinds
  <2> HIDE DEF m
  <2>4. /\ net' \in [Slots -> Request \cup {Free}]
        /\ net'[i] = m
        /\ \A j \in Slots \ {i} : net'[j] = net[j]
    BY <2>2, <2>3, SlotSet DEF Inv
  <2>5. m # Free
    BY <2>3 DEF Free
  <2>6. Typed'
    BY <1>6, <2>4 DEF SignIn, Inv, Typed
  <2>10. Ours'
    BY <1>6, <2>1, <2>3, <2>4 DEF SignIn, Ours, Busy, Idle
  <2>11. Apart'
    BY <1>0, <2>1, <2>3, <2>4 DEF Apart, Idle, Writes
  <2>7. Fetching'
    BY <2>3, <2>4 DEF Fetching, Reads
  <2>8. Loaded' /\ Awaits'
    BY <1>0, <1>6, <2>1, <2>3, <2>4, <2>7 DEF SignIn, Loaded, Inv, Awaits
  <2>9. Clean' /\ Agreed'
    BY <1>0, <1>6, <2>1, <2>3, <2>4, <2>5, <2>7 DEF SignIn, Inv, Clean, Agreed, Brings, Idle, Writes, Reads
  <2> QED
    BY <2>6, <2>8, <2>9, <2>10, <2>11 DEF Inv
<1>7. CASE BeginSave
  <2>1. \A i \in Slots : Idle(i)
    BY <1>7 DEF BeginSave, Act, Calm, OnlyInFlight, Inv, Ours, Busy, Idle
  <2>2. persistInFlight = None
    BY <1>0, <2>1 DEF Inv, Awaits
  <2> QED
    BY <1>7, <2>1, <2>2, Sends DEF BeginSave, Writes, Inv, Loaded
<1>8. CASE BeginDelete
  <2>1. CASE persistInFlight # None /\ awaited' = persistInFlight /\ UNCHANGED net
    BY <1>0, <1>8, <2>1 DEF BeginDelete, Inv, Typed, Ours, Apart, Loaded, Awaits, Clean, Agreed,
                    Fetching, Brings, Busy, Idle, Writes, Reads
  <2>2. CASE /\ persistInFlight = None
             /\ \E i \in Slots : Idle(i) /\ net' = [net EXCEPT ![i] = Sent("flush")]
    <3>1. \A i \in Slots : Idle(i)
      BY <1>8, <2>2 DEF BeginDelete, Act, Calm, OnlyInFlight, Inv, Awaits
    <3> QED
      BY <1>8, <2>2, <3>1, Sends DEF BeginDelete, Writes, Inv, Loaded
  <2> QED
    BY <1>8, <2>1, <2>2 DEF BeginDelete
<1>9. ASSUME NEW i \in Slots, Serve(i) PROVE Inv'
  <2>1. net[i] \in Request /\ Busy(i) /\ user \in Branches /\ net[i].branch = user
    BY <1>0, <1>9 DEF Serve, Inv, Typed, Ours
  <2> DEFINE m == [net[i] EXCEPT !.stage = "served",
                                 !.rows = IF net[i].kind \in Reads THEN server[user] ELSE net[i].rows]
  <2>2. /\ m \in Request /\ m.kind = net[i].kind /\ m.branch = user /\ m.stage = "served"
        /\ m.rows = IF net[i].kind \in Reads THEN server[user] ELSE net[i].rows
    BY <2>1 DEF Request, Inv, Typed
  <2>3. net' = [net EXCEPT ![i] = m]
    BY <1>9, <2>1 DEF Serve, Request, Inv, Typed
  <2> HIDE DEF m
  <2>4. /\ net' \in [Slots -> Request \cup {Free}]
        /\ net'[i] = m
        /\ \A j \in Slots \ {i} : net'[j] = net[j]
    BY <2>2, <2>3, SlotSet DEF Inv
  <2> DEFINE kept == IF net[i].kind \in Reads THEN server[user]
                     ELSE IF net[i].kind = "delete" THEN server[user] \ DayRows ELSE net[i].rows
  <2>5. server' = [server EXCEPT ![user] = kept] /\ kept \in SUBSET Rows
    BY <1>9, <2>1 DEF Serve, Request, Inv, Typed, Reads
  <2> HIDE DEF kept
  <2>6. Typed'
    BY <1>9, <2>1, <2>4, <2>5 DEF Serve, Inv, Typed
  <2>7. Ours'
    BY <1>9, <2>1, <2>2, <2>4 DEF Serve, Inv, Ours, Busy
  <2>11. Apart'
    BY <2>1, <2>2, <2>4 DEF Inv, Apart, Busy, Idle
  <2>8. Loaded' /\ Awaits'
    BY <1>9, <2>2, <2>4 DEF Serve, Inv, Loaded, Awaits, Fetching
  <2>9. CASE net[i].kind \in Reads
    <3>1. server' = server
      BY <2>1, <2>5, <2>9 DEF kept, Inv, Typed
    <3>2. deleted' = deleted
      BY <1>9, <2>9 DEF Serve, Reads
    <3>3. Clean'
      BY <1>9, <2>1, <2>2, <2>4, <2>9, <3>1, <3>2 DEF Serve, Inv, Clean, Brings, Fetching, Writes, Reads
    <3>4. Agreed'
      <4>1. ~Idle(i)'
        BY <2>2, <2>4, Kinded DEF Idle
      <4> QED
        BY <1>9, <2>1, <2>2, <2>4, <2>9, <3>1, <4>1 DEF Serve, Inv, Agreed, Reads
    <3> QED
      BY <2>6, <2>7, <2>8, <2>11, <3>3, <3>4 DEF Inv
  <2>10. CASE net[i].kind \notin Reads
    <3>1. net[i].kind \in Writes \cup {"delete"}
      BY <1>0, <2>1, <2>10 DEF Kinds, Reads, Writes
    <3>2. \A j \in Slots \ {i} : Idle(j)
      BY <3>1 DEF Inv, Apart
    <3>3. \A j \in Slots \ {i} : /\ net'[j] = net[j]
                                /\ net'[j].kind = "free" /\ net'[j].stage = "none" /\ net'[j].branch = None
      BY <1>0, <2>4, <3>2
    <3>4. /\ \A b \in Branches \ {user} : server'[b] = server[b]
          /\ server'[user] = IF net[i].kind = "delete" THEN server[user] \ DayRows ELSE net[i].rows
          /\ deleted' = IF net[i].kind = "delete" THEN deleted \cup {user} ELSE deleted
      BY <1>9, <2>1, <2>5, <2>10 DEF kept, Serve, Inv, Typed
    <3>5. Clean'
      <4>1. net[i].kind # "delete" /\ user \in deleted => net[i].rows \cap DayRows = {}
        BY <2>1, <3>1 DEF Inv, Clean
      <4>2. \A b \in deleted' : server'[b] \cap DayRows = {}
        BY <2>1, <3>4, <4>1 DEF Inv, Typed, Clean
      <4>3. ASSUME NEW j \in Slots, net'[j].branch \in deleted', net'[j].kind \in Writes \/ Brings(j)'
            PROVE  net'[j].rows \cap DayRows = {}
        BY <2>1, <2>2, <2>4, <2>10, <3>1, <3>3, <3>4, <4>1, <4>3 DEF Brings, Writes, Reads, Inv, Typed
      <4>4. user \in deleted' => workspace \cap DayRows = {} \/ \E j \in Slots : net'[j].kind = "delete"
        BY <2>2, <2>4, <3>1, <3>3, <3>4 DEF Inv, Clean, Fetching, Writes, Reads
      <4> QED
        BY <1>9, <4>2, <4>3, <4>4 DEF Serve, Clean
    <3>6. Agreed'
      <4>1. ~Idle(i)'
        BY <2>2, <2>4, Kinded DEF Idle
      <4> QED
        BY <1>9, <2>1, <2>2, <2>4, <2>10, <3>3, <3>4, <4>1 DEF Serve, Inv, Agreed
    <3> QED
      BY <2>6, <2>7, <2>8, <2>11, <3>5, <3>6 DEF Inv
  <2> QED
    BY <2>9, <2>10
<1>10. ASSUME NEW i \in Slots, LoadAnswered(i) \/ ReloadAnswered(i) PROVE Inv'
  <2>1. Brings(i)
    BY <1>0, <1>10 DEF LoadAnswered, ReloadAnswered, Answered, Brings, Inv, Ours, Busy, Idle, Reads
  <2>2. applyFetchedWorkspace(i) /\ loadPromise' # None
    BY <1>10, <2>1 DEF LoadAnswered, ReloadAnswered, Answered, Ok, Brings, Inv, Loaded
  <2> QED
    BY <1>10, <2>1, <2>2, Applies DEF LoadAnswered, ReloadAnswered
<1>11. ASSUME NEW i \in Slots, PutAnswered(i) PROVE Inv'
  <2>1. net[i].kind = "put" /\ Busy(i)
    BY <1>0, <1>11 DEF PutAnswered, Answered, Busy, Idle
  <2>2. Ok(i) /\ user # None /\ net[i].branch = user
    BY <1>11, <2>1 DEF PutAnswered, Answered, Ok, Inv, Ours
  <2>3. CASE awaited = i
    BY <1>11, <2>1, <2>2, <2>3, Sends DEF PutAnswered, PutSettled, Writes, Inv, Typed
  <2>4. CASE awaited # i
    <3>1. /\ net' \in [Slots -> Request \cup {Free}]
          /\ net'[i] = Free /\ Free.kind = "free" /\ Free.stage = "none"
          /\ \A j \in Slots \ {i} : net'[j] = net[j]
          /\ Ours' /\ Apart'
      BY <1>11, <2>4, Frees DEF PutAnswered, Inv
    <3>2. \A j \in Slots \ {i} : Idle(j)
      BY <2>1 DEF Inv, Apart, Writes
    <3>3. Typed'
      BY <1>11, <3>1 DEF PutAnswered, Inv, Typed
    <3>4. Loaded'
      BY <1>0, <1>11, <2>1, <2>2, <3>1, <3>2 DEF PutAnswered, Inv, Loaded, Fetching, Reads
    <3>5. Awaits'
      BY <1>0, <1>11, <3>1, <3>2 DEF PutAnswered, PutSettled, Awaits
    <3>6. Clean'
      BY <1>0, <1>11, <2>1, <3>1, <3>2 DEF PutAnswered, Inv, Clean, Brings, Fetching, Writes, Reads
    <3>7. Agreed'
      BY <1>0, <1>11, <2>1, <2>2, <2>4, <3>1, <3>2 DEF PutAnswered, Ok, Inv, Agreed
    <3> QED
      BY <3>1, <3>3, <3>4, <3>5, <3>6, <3>7 DEF Inv
  <2> QED
    BY <2>3, <2>4
<1>12. ASSUME NEW i \in Slots, FlushAnswered(i) PROVE Inv'
  <2>1. net[i].kind = "flush" /\ Busy(i)
    BY <1>0, <1>12 DEF FlushAnswered, Answered, Busy, Idle
  <2>2. Ok(i) /\ user # None
    BY <1>12, <2>1 DEF FlushAnswered, Answered, Ok, Inv, Ours
  <2>3. persistInFlight = None
    BY <1>0, <2>1 DEF Inv, Awaits, Apart, Writes, Idle, Busy
  <2> QED
    BY <1>12, <2>1, <2>2, <2>3, Sends DEF FlushAnswered, Inv, Typed, Loaded
<1>13. ASSUME NEW i \in Slots, FlowAnswered(i) PROVE Inv'
  <2>1. net[i].kind \in {"commit", "delete"} /\ Busy(i)
    BY <1>0, <1>13 DEF FlowAnswered, Answered, Busy, Idle
  <2>2. Ok(i) /\ user # None
    BY <1>13, <2>1 DEF FlowAnswered, Answered, Ok, Inv, Ours
  <2> QED
    BY <1>13, <2>1, <2>2, Fetches DEF FlowAnswered, ReloadIn, Reads
<1>14. ASSUME NEW i \in Slots, Fail(i) PROVE Inv'
  BY <1>14 DEF Fail, Calm
<1>15. CASE UNCHANGED vars
  BY <1>15 DEF vars, Inv, Typed, Ours, Apart, Loaded, Awaits, Clean, Agreed,
                    Fetching, Brings, Busy, Idle, Writes, Reads
<1> QED
  BY <1>1, <1>2, <1>3, <1>4, <1>5, <1>6, <1>7, <1>8, <1>9, <1>10, <1>11, <1>12, <1>13, <1>14, <1>15
     DEF Next, AnswerStep

LEMMA CalmStays ==
  ASSUME [Next]_vars
  PROVE  mode' = mode
  BY DEF Next, vars, setWorkspace, TimerEnds, loadLedgerWorkspace, ProfileKnown, SignIn, resetLedgerWorkspace,
         BeginSave, BeginDelete, Act, Serve, Fail, AnswerStep, LoadAnswered, ReloadAnswered, PutAnswered,
         FlushAnswered, FlowAnswered

LEMMA CalmInv == Spec => [](Calm => Inv)
<1>1. Init => (Calm => Inv)
  BY InitInv
<1>2. (Calm => Inv) /\ [Next]_vars => (Calm => Inv)'
  BY NextInv, CalmStays DEF Calm
<1> QED
  BY <1>1, <1>2, PTL DEF Spec

(* On a calm network no write of the store, debounced, flushed or sent     *)
(* with a day, in whatever session, brings back the rows the API removed   *)
(* with a day that the user deleted.                                       *)
THEOREM DeletedAlwaysStayDeleted == Spec => []DeletedStayDeleted
<1>1. (Calm => Inv) => DeletedStayDeleted
  BY DEF Calm, Inv, Clean, DeletedStayDeleted
<1> QED
  BY <1>1, CalmInv, PTL

(* On a calm network, whenever nothing is pending, the cashbook on the     *)
(* screen is the one the API has, through edits, loads that drop retired   *)
(* rows, saves, deletes and sessions.                                      *)
THEOREM AlwaysConverged == Spec => []Converged
<1>1. (Calm => Inv) => Converged
  BY DEF Calm, Inv, Agreed, Converged, Quiet
<1> QED
  BY <1>1, CalmInv, PTL
=============================================================================
