------------------------- MODULE RosterStoreProofs -------------------------
(***************************************************************************)
(* No save loses an employee nobody took off the roster, for any names,    *)
(* number of requests, network and users of one branch: one of the first   *)
(* roster on any network, one saved since until requests cross.  RosterKept*)
(* is not inductive: it takes that whoever is to be kept is in every roster*)
(* that may still be written - those in flight, those a load brings back,  *)
(* and the one in memory as soon as anything of it may be saved.  On a calm*)
(* network terminal and API agree on the roster besides (Converged).       *)
(***************************************************************************)
EXTENDS RosterStore, TLAPS

(* Nothing of the store is reset when the session changes: what it holds   *)
(* of one branch it would save for the next.                               *)
OneBranch == \A b, c \in Branches : b = c

Typed ==
  /\ mode \in Mode
  /\ server \in [Branches -> SUBSET Names]
  /\ user \in Branches \cup {None}
  /\ directory \in SUBSET Names
  /\ legacy \in SUBSET Names
  /\ net \in [Slots -> Request \cup {Free}]

(* The employees every roster of b must have.                              *)
Kept(b) == mode.start[b] \ removed

(* A request that writes a roster, or has brought one back, has them.      *)
Whole(m) == m # Free /\ (m.kind # "load" \/ m.stage = "served") => Kept(m.branch) \subseteq m.names

(* So has the directory, once it is loaded, and nothing of it is saved     *)
(* before.                                                                 *)
Held ==
  /\ loadedFromApi => \A b \in Branches : Kept(b) \subseteq directory
  /\ persistTimer \/ persistInFlight # None \/ awaited # None => loadedFromApi

Inv ==
  /\ Typed
  /\ \A b \in Branches : Kept(b) \subseteq server[b]
  /\ \A i \in Slots : Whole(net[i])
  /\ Held

-----------------------------------------------------------------------------
LEMMA MessageTyped ==
  ASSUME user \in Branches, NEW kind \in Kinds, NEW names \in SUBSET Names
  PROVE  /\ Message(kind, names) \in Request
         /\ Message(kind, names) # Free
         /\ Message(kind, names).kind = kind
         /\ Message(kind, names).names = names
         /\ Message(kind, names).branch = user
         /\ Message(kind, names).stage = "sent"
  BY DEF Message, Request, Free

LEMMA SlotSent ==
  ASSUME Typed, NEW i \in Slots, NEW m \in Request \cup {Free}, net' = [net EXCEPT ![i] = m]
  PROVE  /\ net' \in [Slots -> Request \cup {Free}]
         /\ net'[i] = m
         /\ \A j \in Slots \ {i} : net'[j] = net[j]
  BY DEF Typed

(* While nobody is taken off, what slots hold whole stays so.              *)
LEMMA SlotWhole ==
  ASSUME Inv, NEW i \in Slots, NEW m \in Request \cup {Free}, Whole(m), net' = [net EXCEPT ![i] = m],
         UNCHANGED <<mode, removed>>
  PROVE  net' \in [Slots -> Request \cup {Free}] /\ \A j \in Slots : Whole(net[j])'
<1>1. /\ net' \in [Slots -> Request \cup {Free}]
      /\ net'[i] = m
      /\ \A j \in Slots \ {i} : net'[j] = net[j]
  BY SlotSent DEF Inv
<1> QED
  BY <1>1 DEF Inv, Whole, Kept

LEMMA SavedWhole ==
  ASSUME OneBranch, Inv, loadedFromApi, user # None, NEW kind \in Kinds \ {"load"}, NEW i \in Slots,
         net' = [net EXCEPT ![i] = Message(kind, directory)], UNCHANGED <<mode, removed>>
  PROVE  net' \in [Slots -> Request \cup {Free}] /\ \A j \in Slots : Whole(net[j])'
<1>1. user \in Branches
  BY DEF Inv, Typed
<1>2. Message(kind, directory) \in Request /\ Whole(Message(kind, directory))
  BY <1>1, MessageTyped DEF Inv, Typed, Held, Whole
<1> QED
  BY <1>2, SlotWhole

LEMMA FreeWhole == Whole(Free)
  BY DEF Whole

LEMMA InitInv == Init => Inv
<1> SUFFICES ASSUME Init PROVE Inv
  OBVIOUS
<1>1. mode \in Mode /\ server = mode.start /\ legacy = mode.legacy
  BY ConstantsAssumption DEF Init
<1>2. Typed
  BY <1>1 DEF Init, Typed, Mode
<1>3. \A b \in Branches : Kept(b) \subseteq server[b]
  BY <1>1 DEF Kept
<1>4. \A i \in Slots : Whole(net[i])
  BY DEF Init, Whole
<1>5. Held
  BY DEF Init, Held
<1> QED
  BY <1>2, <1>3, <1>4, <1>5 DEF Inv

(* A load that is applied: the merged directory has whom it brought back.  *)
LEMMA Applied ==
  ASSUME OneBranch, Inv, NEW i \in Slots, NEW remote \in SUBSET Names, NEW empty \in BOOLEAN,
         \A b \in Branches : Kept(b) \subseteq remote,
         ApplyLoad(i, remote, empty),
         UNCHANGED <<mode, removed, user, server, persistTimer, persistInFlight, awaited>>,
         legacy' \in SUBSET Names
  PROVE  Inv'
<1> DEFINE list == mergeDirectoryWithApi(remote)
<1>1. list \in SUBSET Names /\ \A b \in Branches : Kept(b) \subseteq list
  BY DEF mergeDirectoryWithApi, Inv, Typed
<1>2. PICK m \in Request \cup {Free} : Whole(m) /\ net' = [net EXCEPT ![i] = m]
  <2>1. user # None => Message("merge", list) \in Request /\ Whole(Message("merge", list))
    BY <1>1, MessageTyped DEF Inv, Typed, Kinds, Loading, Whole
  <2> QED
    BY <2>1, FreeWhole DEF ApplyLoad
<1>3. net' \in [Slots -> Request \cup {Free}] /\ \A j \in Slots : Whole(net[j])'
  BY <1>2, SlotWhole
<1>4. directory' = list /\ loadedFromApi' = TRUE
  BY DEF ApplyLoad
<1>5. Typed'
  BY <1>1, <1>3, <1>4 DEF Inv, Typed
<1> QED
  BY <1>1, <1>3, <1>4, <1>5 DEF Inv, Held, Kept

-----------------------------------------------------------------------------
LEMMA NextInv ==
  ASSUME OneBranch, Inv, [Next]_vars
  PROVE  Inv'
<1> USE ConstantsAssumption
<1>1. CASE replaceEmployeeDirectorySnapshot
  <2>1. PICK names \in SUBSET Names : removed' = removed \cup (directory \ names) /\ directory' = names
    BY <1>1 DEF replaceEmployeeDirectorySnapshot
  <2>2. \A b \in Branches : Kept(b)' \subseteq Kept(b) /\ (Kept(b) \subseteq directory => Kept(b)' \subseteq names)
    BY <1>1, <2>1 DEF replaceEmployeeDirectorySnapshot, Act, Kept
  <2>3. Typed'
    BY <1>1, <2>1 DEF replaceEmployeeDirectorySnapshot, Act, Inv, Typed
  <2>4. \A i \in Slots : Whole(net[i])'
    BY <1>1, <2>1 DEF replaceEmployeeDirectorySnapshot, Act, Inv, Whole, Kept
  <2>5. Held'
    BY <1>1, <2>1, <2>2 DEF replaceEmployeeDirectorySnapshot, schedulePersist, Inv, Held
  <2> QED
    BY <1>1, <2>2, <2>3, <2>4, <2>5 DEF replaceEmployeeDirectorySnapshot, Inv
<1>2. CASE TimerEnds
  <2>1. CASE user = None
    BY <1>2, <2>1 DEF TimerEnds, load, Inv, Typed, Held, Whole, Kept
  <2>2. CASE user # None
    <3>1. PICK i \in Slots : net' = [net EXCEPT ![i] = Message("put", directory)]
      BY <1>2, <2>2 DEF TimerEnds
    <3>2. net' \in [Slots -> Request \cup {Free}] /\ \A j \in Slots : Whole(net[j])'
      BY <1>2, <2>2, <3>1, SavedWhole DEF TimerEnds, Inv, Held, Kinds
    <3> QED
      BY <1>2, <3>2 DEF TimerEnds, load, Inv, Typed, Held, Kept
  <2> QED
    BY <2>1, <2>2
<1>3. ASSUME StartLoad, UNCHANGED <<mode, removed, user>>
      PROVE  net' \in [Slots -> Request \cup {Free}] /\ \A j \in Slots : Whole(net[j])'
  <2>1. CASE UNCHANGED net
    BY <1>3, <2>1 DEF Inv, Typed, Whole, Kept
  <2>2. ASSUME user # None, NEW i \in Slots, net' = [net EXCEPT ![i] = Message("load", {})]
        PROVE  net' \in [Slots -> Request \cup {Free}] /\ \A j \in Slots : Whole(net[j])'
    <3>1. Message("load", {}) \in Request /\ Whole(Message("load", {}))
      BY <2>2, MessageTyped DEF Inv, Typed, Kinds, Loading, Whole
    <3> QED
      BY <1>3, <2>2, <3>1, SlotWhole
  <2> QED
    BY <1>3, <2>1, <2>2 DEF StartLoad
<1>4. CASE loadEmployeeDirectory
  BY <1>3, <1>4 DEF loadEmployeeDirectory, Inv, Typed, Held, Kept
<1>5. CASE flushEmployeeDirectoryPersist
  <2>1. net' \in [Slots -> Request \cup {Free}] /\ \A j \in Slots : Whole(net[j])'
    <3>1. CASE UNCHANGED net
      BY <1>5, <3>1 DEF flushEmployeeDirectoryPersist, Act, Inv, Typed, Whole, Kept
    <3>2. CASE StartLoad
      BY <1>3, <1>5, <3>2 DEF flushEmployeeDirectoryPersist, Act
    <3>3. ASSUME loadedFromApi, NEW i \in Slots, net' = [net EXCEPT ![i] = Message("flush", directory)]
          PROVE  net' \in [Slots -> Request \cup {Free}] /\ \A j \in Slots : Whole(net[j])'
      BY <1>5, <3>3, SavedWhole DEF flushEmployeeDirectoryPersist, Act, Kinds
    <3> QED
      BY <1>5, <3>1, <3>2, <3>3 DEF flushEmployeeDirectoryPersist
  <2>2. persistTimer' = FALSE /\ (awaited' # None => loadedFromApi)
    BY <1>5 DEF flushEmployeeDirectoryPersist, Inv, Held
  <2> QED
    BY <1>5, <2>1, <2>2 DEF flushEmployeeDirectoryPersist, Act, Inv, Typed, Held, Kept
<1>6. CASE CloseTab
  <2> DEFINE after(i) == IF Idle(i) \/ net[i].kind = "load" THEN Free ELSE [net[i] EXCEPT !.kind = "unload"]
  <2>1. \A i \in Slots : net'[i] = after(i)
    BY <1>6 DEF CloseTab
  <2>2. \A i \in Slots : after(i) \in Request \cup {Free} /\ Whole(after(i))
    <3> TAKE i \in Slots
    <3>1. CASE Idle(i) \/ net[i].kind = "load"
      BY <3>1, FreeWhole
    <3>2. CASE ~(Idle(i) \/ net[i].kind = "load")
      <4>1. net[i] \in Request /\ net[i] # Free /\ net[i].kind # "load"
        BY <3>2 DEF Idle, Inv, Typed
      <4>2. Kept(net[i].branch) \subseteq net[i].names
        BY <4>1 DEF Inv, Whole
      <4>3. /\ after(i) \in Request
            /\ after(i).branch = net[i].branch
            /\ after(i).names = net[i].names
        BY <3>2, <4>1 DEF Request, Kinds
      <4> QED
        BY <4>2, <4>3 DEF Whole
    <3> QED
      BY <3>1, <3>2
  <2>3. net' \in [Slots -> Request \cup {Free}]
    BY <1>6, <2>2 DEF CloseTab
  <2>4. \A i \in Slots : Whole(net[i])'
    BY <1>6, <2>1, <2>2 DEF CloseTab, Act, Whole, Kept
  <2> QED
    BY <1>6, <2>3, <2>4 DEF CloseTab, Act, Inv, Typed, Held, Kept
<1>7. CASE SignOut \/ \E b \in Branches : SignIn(b)
  BY <1>7 DEF SignOut, SignIn, Act, load, Inv, Typed, Held, Whole, Kept
<1>8. ASSUME NEW i \in Slots, Serve(i) PROVE Inv'
  <2>1. net[i] \in Request /\ net[i] # Free
    BY <1>8 DEF Serve, Busy, Inv, Typed
  <2>2. CASE net[i].kind = "load"
    <3> DEFINE m == [net[i] EXCEPT !.stage = "served", !.names = server[net[i].branch]]
    <3>1. m \in Request /\ m.branch = net[i].branch /\ m.names = server[m.branch]
      BY <2>1 DEF Request, Inv, Typed
    <3>2. Whole(m)
      BY <3>1 DEF Whole, Inv, Request
    <3>3. net' = [net EXCEPT ![i] = m] /\ UNCHANGED server
      BY <1>8, <2>1, <2>2 DEF Serve, Inv, Typed
    <3>4. net' \in [Slots -> Request \cup {Free}] /\ \A j \in Slots : Whole(net[j])'
      BY <1>8, <3>1, <3>2, <3>3, SlotWhole DEF Serve
    <3> QED
      BY <1>8, <3>3, <3>4 DEF Serve, load, Inv, Typed, Held, Kept
  <2>3. CASE net[i].kind # "load"
    <3> DEFINE m == [net[i] EXCEPT !.stage = "served"]
    <3>1. m \in Request /\ m.branch = net[i].branch /\ m.names = net[i].names
      BY <2>1 DEF Request
    <3>2. Kept(net[i].branch) \subseteq net[i].names
      BY <2>1, <2>3 DEF Inv, Whole
    <3>3. net' = [net EXCEPT ![i] = m] /\ server' = [server EXCEPT ![net[i].branch] = net[i].names]
      BY <1>8, <2>1, <2>3 DEF Serve, Inv, Typed
    <3>4. net' \in [Slots -> Request \cup {Free}] /\ \A j \in Slots : Whole(net[j])'
      BY <1>8, <3>1, <3>2, <3>3, SlotWhole DEF Serve, Whole
    <3>5. server' \in [Branches -> SUBSET Names] /\ \A b \in Branches : Kept(b) \subseteq server'[b]
      BY <2>1, <3>2, <3>3 DEF Inv, Typed, Request
    <3> QED
      BY <1>8, <3>4, <3>5 DEF Serve, load, Inv, Typed, Held, Kept
  <2> QED
    BY <2>2, <2>3
<1>9. ASSUME NEW i \in Slots, Fail(i) PROVE Inv'
  <2> DEFINE m == [net[i] EXCEPT !.stage = "failed"]
  <2>1. net[i] \in Request /\ net[i] # Free
    BY <1>9 DEF Fail, Busy, Inv, Typed
  <2>2. m \in Request /\ m.branch = net[i].branch /\ m.names = net[i].names /\ m.kind = net[i].kind /\ m.stage = "failed"
    BY <2>1 DEF Request
  <2>3. Whole(m)
    BY <2>1, <2>2 DEF Inv, Whole
  <2>4. net' \in [Slots -> Request \cup {Free}] /\ \A j \in Slots : Whole(net[j])'
    BY <1>9, <2>2, <2>3, SlotWhole DEF Fail
  <2> QED
    BY <1>9, <2>4 DEF Fail, load, Inv, Typed, Held, Kept
<1>10. ASSUME NEW i \in Slots, LoadAnswered(i) PROVE Inv'
  <2>1. net[i] \in Request /\ net[i] # Free
    BY <1>10 DEF LoadAnswered, Answered, Inv, Typed, Free, Loading
  <2> DEFINE remote == net[i].names
  <2>2. remote \in SUBSET Names /\ net[i].branch \in Branches
    BY <2>1 DEF Request
  <2>3. CASE ~Ok(i)
    <3>1. net' = [net EXCEPT ![i] = Free] /\ UNCHANGED <<directory, loadedFromApi, legacy>>
      BY <1>10, <2>3 DEF LoadAnswered
    <3>2. net' \in [Slots -> Request \cup {Free}] /\ \A j \in Slots : Whole(net[j])'
      BY <1>10, <3>1, FreeWhole, SlotWhole DEF LoadAnswered
    <3> QED
      BY <1>10, <3>1, <3>2 DEF LoadAnswered, Inv, Typed, Held, Kept
  <2>4. CASE Ok(i)
    <3>1. \A b \in Branches : Kept(b) \subseteq remote
      BY <2>1, <2>2, <2>4 DEF Ok, Inv, Whole, OneBranch
    <3>2. CASE remote # {} \/ legacy = {}
      BY <1>10, <2>2, <2>4, <3>1, <3>2, Applied DEF LoadAnswered
    <3>3. CASE remote = {} /\ legacy # {} /\ user = None
      BY <1>10, <2>4, <3>1, <3>3, Applied DEF LoadAnswered, Inv, Typed
    <3>4. CASE remote = {} /\ legacy # {} /\ user # None
      <4>1. net' = [net EXCEPT ![i] = Message("migrate", legacy)] /\ UNCHANGED <<directory, load>>
        BY <1>10, <2>4, <3>4 DEF LoadAnswered
      <4>2. Message("migrate", legacy) \in Request /\ Whole(Message("migrate", legacy))
        BY <3>1, <3>4, MessageTyped DEF Inv, Typed, Kinds, Loading, Whole
      <4>3. net' \in [Slots -> Request \cup {Free}] /\ \A j \in Slots : Whole(net[j])'
        BY <1>10, <4>1, <4>2, SlotWhole DEF LoadAnswered
      <4> QED
        BY <1>10, <4>1, <4>3 DEF LoadAnswered, load, Inv, Typed, Held, Kept
    <3> QED
      BY <3>2, <3>3, <3>4
  <2> QED
    BY <2>3, <2>4
<1>11. ASSUME NEW i \in Slots, MigrateAnswered(i) PROVE Inv'
  <2>1. net[i] \in Request /\ net[i] # Free /\ net[i].kind = "migrate"
    BY <1>11 DEF MigrateAnswered, Answered, Inv, Typed, Free
  <2>2. net[i].names \in SUBSET Names /\ \A b \in Branches : Kept(b) \subseteq net[i].names
    BY <2>1 DEF Request, Inv, Whole, OneBranch
  <2>3. legacy' \in SUBSET Names
    BY <1>11 DEF MigrateAnswered, Inv, Typed
  <2> QED
    BY <1>11, <2>2, <2>3, Applied DEF MigrateAnswered
<1>12. ASSUME NEW i \in Slots, MergeAnswered(i) PROVE Inv'
  <2>1. net' \in [Slots -> Request \cup {Free}] /\ \A j \in Slots : Whole(net[j])'
    BY <1>12, FreeWhole, SlotWhole DEF MergeAnswered
  <2>2. persistTimer' => persistTimer \/ loadedFromApi
    BY <1>12 DEF MergeAnswered, schedulePersist
  <2> QED
    BY <1>12, <2>1, <2>2 DEF MergeAnswered, Inv, Typed, Held, Kept
<1>13. ASSUME NEW i \in Slots, PutAnswered(i) PROVE Inv'
  <2>1. net' \in [Slots -> Request \cup {Free}] /\ \A j \in Slots : Whole(net[j])'
    <3>1. CASE awaited = i /\ user # None
      <4>1. loadedFromApi
        BY <3>1 DEF Inv, Held
      <4>2. net' = [net EXCEPT ![i] = Message("flush", directory)] /\ UNCHANGED <<mode, removed>>
        BY <1>13, <3>1 DEF PutAnswered
      <4>3. "flush" \in Kinds \ {"load"}
        BY DEF Kinds
      <4> QED
        BY <3>1, <4>1, <4>2, <4>3, SavedWhole
    <3>2. CASE ~(awaited = i /\ user # None)
      BY <1>13, <3>2, FreeWhole, SlotWhole DEF PutAnswered
    <3> QED
      BY <3>1, <3>2
  <2> QED
    BY <1>13, <2>1 DEF PutAnswered, PutSettled, load, Inv, Typed, Held, Kept
<1>14. ASSUME NEW i \in Slots, FlushAnswered(i) PROVE Inv'
  <2>1. net' \in [Slots -> Request \cup {Free}] /\ \A j \in Slots : Whole(net[j])'
    BY <1>14, FreeWhole, SlotWhole DEF FlushAnswered
  <2> QED
    BY <1>14, <2>1 DEF FlushAnswered, load, Inv, Typed, Held, Kept
<1>15. CASE UNCHANGED vars
  BY <1>15 DEF vars, load, Inv, Typed, Held, Whole, Kept
<1> QED
  BY <1>1, <1>2, <1>4, <1>5, <1>6, <1>7, <1>8, <1>9, <1>10, <1>11, <1>12, <1>13, <1>14, <1>15 DEF Next, Step, AnswerStep

-----------------------------------------------------------------------------
(* Employees saved since the beginning, too, are in every roster that may  *)
(* still be written, as long as requests are served as they are sent.      *)
Has(names) == \A b \in Branches : had[b] \subseteq names \cup removed

Sent(i) == net[i].stage = "sent"

Since(m) ==
  /\ m.kind # "load" /\ m.stage = "sent" => /\ Has(m.names)
                                            /\ loadedFromApi => m.names \subseteq directory \cup removed
  /\ m.kind = "load" /\ m.stage = "served" => Has(m.names)
  /\ m.kind = "migrate" => Has(m.names)
  /\ m.kind \in {"put", "flush", "merge"} => loadedFromApi

(* Nothing else is sent while a roster is fetched or migrated.             *)
InTurn ==
  /\ \A i, j \in Slots : i # j /\ Sent(j) => ~Sent(i) /\ net[i].kind \notin {"load", "migrate"}
  /\ \A i \in Slots : net[i].kind \in {"load", "migrate"} => loadPromise = i /\ ~loadedFromApi
  /\ loadPromise = None => ~loadedFromApi

Remembered ==
  /\ \A i \in Slots : Since(net[i])
  /\ loadedFromApi => Has(directory)
  /\ \A b \in Branches : had[b] \subseteq server[b] \cup removed

HadTyped == had \in [Branches -> SUBSET Names] /\ \A b \in Branches : server[b] \subseteq had[b]

HInv == HadTyped /\ (crossed \/ (InTurn /\ Remembered))

LEMMA InitHad == Init => HInv
<1> SUFFICES ASSUME Init PROVE HInv
  OBVIOUS
<1>1. had = mode.start /\ server = mode.start /\ mode \in Mode
  BY ConstantsAssumption DEF Init
<1>2. HadTyped
  BY <1>1 DEF HadTyped, Mode
<1>3. InTurn
  BY DEF Init, InTurn, Sent, Free
<1>4. Remembered
  BY <1>1 DEF Init, Remembered, Since, Has, Free
<1> QED
  BY <1>2, <1>3, <1>4 DEF HInv

LEMMA HadSame ==
  ASSUME HadTyped, Recorded, UNCHANGED server
  PROVE  had' = had
  BY DEF HadTyped, Recorded

(* A request that goes out in its turn.                                    *)
LEMMA SendsInTurn ==
  ASSUME Inv, InTurn, Remembered, HadTyped, Recorded, ~crossed', UNCHANGED <<server, removed, directory>>,
         NEW i \in Slots, ~Sent(i), user # None, NEW kind \in Kinds, NEW names \in SUBSET Names,
         net' = [net EXCEPT ![i] = Message(kind, names)],
         loadedFromApi \/ loadPromise \in {None, i},
         kind \in {"load", "migrate"} => loadPromise' = i,
         kind \in {"load", "migrate"} <=> ~loadedFromApi,
         UNCHANGED loadedFromApi, loadedFromApi => UNCHANGED loadPromise,
         kind # "load" => Has(names), loadedFromApi => names = directory
  PROVE  InTurn' /\ Remembered'
<1>1. user \in Branches
  BY DEF Inv, Typed
<1>2. /\ Message(kind, names) \in Request
      /\ Message(kind, names).kind = kind /\ Message(kind, names).names = names
      /\ Message(kind, names).stage = "sent"
  BY <1>1, MessageTyped
<1>3. net'[i] = Message(kind, names) /\ \A j \in Slots \ {i} : net'[j] = net[j]
  BY <1>2, SlotSent DEF Inv
<1>4. \A j \in Slots \ {i} : ~Sent(j)
  BY <1>2, <1>3 DEF Recorded, Sent
<1>5. \A j \in Slots \ {i} : net[j].kind \notin {"load", "migrate"}
  BY ConstantsAssumption DEF InTurn
<1>6. InTurn'
  BY <1>2, <1>3, <1>4, <1>5, ConstantsAssumption DEF InTurn, Sent
<1>7. had' = had
  BY HadSame
<1>8. \A j \in Slots : Since(net[j])'
  BY <1>2, <1>3, <1>7 DEF Remembered, Since, Has
<1> QED
  BY <1>6, <1>7, <1>8 DEF Remembered, Has

(* A request that is answered, or not served, and nothing sent for it.     *)
LEMMA QuietInTurn ==
  ASSUME Inv, InTurn, Remembered, HadTyped, Recorded, UNCHANGED <<server, removed, directory, loadedFromApi>>,
         NEW i \in Slots, NEW m \in Request \cup {Free}, net' = [net EXCEPT ![i] = m],
         m.stage # "sent", m.kind \in {net[i].kind, "free"}, m.stage = "served" => m = net[i],
         m.kind # "free" => m.names = net[i].names,
         m.kind = "free" \/ loadPromise' = loadPromise,
         loadPromise' = None => ~loadedFromApi,
         net[i].kind \in {"load", "migrate"} \/ loadPromise' = loadPromise \/ loadedFromApi
  PROVE  InTurn' /\ Remembered'
<1>1. net'[i] = m /\ \A j \in Slots \ {i} : net'[j] = net[j]
  BY SlotSent DEF Inv
<1>2. \A j \in Slots \ {i} : net[j].kind \in {"load", "migrate"} => loadPromise' = loadPromise
  BY DEF InTurn
<1>3. InTurn'
  BY <1>1, <1>2 DEF InTurn, Sent
<1>4. had' = had
  BY HadSame
<1>5. Since(m)' /\ \A j \in Slots \ {i} : Since(net[j])'
  BY <1>1, <1>4 DEF Remembered, Since, Has
<1> QED
  BY <1>1, <1>3, <1>4, <1>5 DEF Remembered, Has

(* A load that is applied: what it brought back is in the directory.       *)
LEMMA AppliedInTurn ==
  ASSUME Inv, InTurn, Remembered, HadTyped, Recorded, ~crossed', UNCHANGED <<server, removed, user>>,
         NEW i \in Slots, net[i].kind \in {"load", "migrate"}, ~Sent(i),
         NEW remote \in SUBSET Names, NEW empty \in BOOLEAN, Has(remote), ApplyLoad(i, remote, empty)
  PROVE  InTurn' /\ Remembered'
<1> DEFINE list == mergeDirectoryWithApi(remote)
<1>1. list \in SUBSET Names /\ Has(list)
  BY DEF mergeDirectoryWithApi, Inv, Typed, Has
<1>2. directory' = list /\ loadedFromApi' = TRUE
  BY DEF ApplyLoad
<1>3. \A j \in Slots \ {i} : ~Sent(j) /\ net[j].kind \notin {"load", "migrate"}
  BY DEF InTurn
<1>4. PICK m \in Request \cup {Free} :
        /\ net' = [net EXCEPT ![i] = m]
        /\ m.kind \in {"merge", "free"}
        /\ m.kind = "merge" => m.names = list
        /\ m.kind = "free" => m.stage = "none"
        /\ loadPromise' = loadPromise \/ loadPromise' = "settled"
  <2>1. CASE net' = [net EXCEPT ![i] = Free]
    BY <2>1 DEF ApplyLoad, Free
  <2>2. CASE net' = [net EXCEPT ![i] = Message("merge", list)] /\ user # None /\ loadPromise' = loadPromise
    <3>1. user \in Branches /\ "merge" \in Kinds
      BY <2>2 DEF Inv, Typed, Kinds, Loading
    <3>2. /\ Message("merge", list) \in Request
          /\ Message("merge", list).kind = "merge" /\ Message("merge", list).names = list
      BY <1>1, <3>1, MessageTyped
    <3> HIDE DEF list
    <3> QED
      BY <2>2, <3>2
  <2> QED
    BY <2>1, <2>2 DEF ApplyLoad
<1>5. net'[i] = m /\ \A j \in Slots \ {i} : net'[j] = net[j]
  BY <1>4, SlotSent DEF Inv
<1>6. had' = had
  BY HadSame
<1>7. loadPromise' # None
  BY <1>4, ConstantsAssumption DEF InTurn
<1>8. InTurn'
  BY <1>3, <1>4, <1>5, <1>7 DEF InTurn, Sent
<1> HIDE DEF list
<1>9. Since(m)' /\ \A j \in Slots \ {i} : Since(net[j])'
  BY <1>1, <1>2, <1>3, <1>4, <1>5, <1>6 DEF Remembered, Since, Has, Sent
<1> QED
  BY <1>1, <1>2, <1>5, <1>6, <1>8, <1>9 DEF Remembered, Has

LEMMA NextHad ==
  ASSUME OneBranch, Inv, HInv, Next
  PROVE  HInv'
<1> USE ConstantsAssumption
<1>1. Inv' /\ Recorded
  BY NextInv DEF Next
<1>2. HadTyped'
  BY <1>1 DEF HadTyped, HInv, Recorded, Inv, Typed
<1> SUFFICES ASSUME ~crossed' PROVE InTurn' /\ Remembered'
  BY <1>2 DEF HInv
<1>3. HadTyped /\ InTurn /\ Remembered
  BY <1>1 DEF Recorded, HInv
<1>4. UNCHANGED server => had' = had
  BY <1>1, <1>3, HadSame
<1>5. CASE replaceEmployeeDirectorySnapshot
  <2>1. PICK names \in SUBSET Names : removed' = removed \cup (directory \ names) /\ directory' = names
    BY <1>5 DEF replaceEmployeeDirectorySnapshot
  <2>2. UNCHANGED <<server, loadedFromApi, loadPromise, net>>
    BY <1>5 DEF replaceEmployeeDirectorySnapshot
  <2>3. InTurn'
    BY <1>3, <2>2 DEF InTurn, Sent
  <2>4. \A i \in Slots : Since(net[i])'
    BY <1>3, <1>4, <2>1, <2>2 DEF Remembered, Since, Has
  <2>5. loadedFromApi' => Has(directory)'
    BY <1>3, <1>4, <2>1, <2>2 DEF Remembered, Has
  <2> QED
    BY <1>3, <1>4, <2>1, <2>2, <2>3, <2>4, <2>5 DEF Remembered
<1>6. CASE UNCHANGED <<server, removed, directory, loadedFromApi, loadPromise, net>>
  BY <1>3, <1>4, <1>6 DEF InTurn, Remembered, Since, Has, Sent
<1>7. CASE TimerEnds
  <2>1. CASE user # None
    <3>1. loadedFromApi /\ Has(directory) /\ directory \in SUBSET Names
      BY <1>3, <1>7 DEF TimerEnds, Inv, Held, Typed, Remembered
    <3>2. PICK i \in Slots : Idle(i) /\ net' = [net EXCEPT ![i] = Message("put", directory)]
      BY <1>7, <2>1 DEF TimerEnds
    <3>3. ~Sent(i)
      BY <3>2 DEF Idle, Free, Sent
    <3>4. UNCHANGED <<server, removed, directory, loadedFromApi, loadPromise>>
      BY <1>7 DEF TimerEnds, load
    <3>5. "put" \in Kinds
      BY DEF Kinds
    <3> QED
      BY <1>1, <1>3, <2>1, <3>1, <3>2, <3>3, <3>4, <3>5, SendsInTurn
  <2> QED
    BY <1>6, <1>7, <2>1 DEF TimerEnds, load
<1>8. ASSUME StartLoad, UNCHANGED <<server, removed, directory, loadedFromApi>> PROVE InTurn' /\ Remembered'
  <2>1. CASE UNCHANGED <<net, loadPromise>>
    BY <1>6, <1>8, <2>1
  <2>2. CASE ~UNCHANGED <<net, loadPromise>>
    <3>1. user # None /\ loadPromise = None
      BY <1>8, <2>2 DEF StartLoad
    <3>2. PICK i \in Slots : Idle(i) /\ net' = [net EXCEPT ![i] = Message("load", {})] /\ loadPromise' = i
      BY <1>8, <3>1 DEF StartLoad
    <3>3. ~Sent(i) /\ ~loadedFromApi
      BY <1>3, <3>1, <3>2 DEF Idle, Free, Sent, InTurn
    <3>4. "load" \in Kinds /\ {} \in SUBSET Names
      BY DEF Kinds, Loading
    <3> QED
      BY <1>1, <1>3, <1>8, <3>1, <3>2, <3>3, <3>4, SendsInTurn
  <2> QED
    BY <2>1, <2>2
<1>9. CASE loadEmployeeDirectory
  BY <1>8, <1>9 DEF loadEmployeeDirectory
<1>10. CASE flushEmployeeDirectoryPersist
  <2>1. UNCHANGED <<server, removed, directory, loadedFromApi>> /\ user # None
    BY <1>10 DEF flushEmployeeDirectoryPersist
  <2>2. CASE UNCHANGED <<net, loadPromise>>
    BY <1>6, <2>1, <2>2
  <2>3. CASE StartLoad
    BY <1>8, <2>1, <2>3
  <2>4. CASE loadedFromApi /\ ~UNCHANGED <<net, loadPromise>>
    <3>1. PICK i \in Slots : Idle(i) /\ net' = [net EXCEPT ![i] = Message("flush", directory)]
      BY <1>10, <2>4 DEF flushEmployeeDirectoryPersist
    <3>2. ~Sent(i) /\ Has(directory) /\ directory \in SUBSET Names /\ "flush" \in Kinds
      BY <1>3, <2>4, <3>1 DEF Idle, Free, Sent, Inv, Typed, Remembered, Kinds
    <3>3. UNCHANGED loadPromise
      BY <1>10, <2>4 DEF flushEmployeeDirectoryPersist
    <3> QED
      BY <1>1, <1>3, <2>1, <2>4, <3>1, <3>2, <3>3, SendsInTurn
  <2> QED
    BY <1>10, <2>2, <2>3, <2>4 DEF flushEmployeeDirectoryPersist
<1>11. CASE CloseTab
  <2>1. \A i \in Slots : net'[i] = IF Idle(i) \/ net[i].kind = "load" THEN Free ELSE [net[i] EXCEPT !.kind = "unload"]
    BY <1>11 DEF CloseTab
  <2>2. ASSUME NEW i \in Slots
        PROVE  /\ Sent(i)' => Sent(i) /\ net[i].kind # "load" /\ net'[i].names = net[i].names
               /\ net'[i].kind \in {"free", "unload"}
    <3>1. CASE Idle(i) \/ net[i].kind = "load"
      <4>1. net'[i] = Free
        BY <2>1, <3>1
      <4> QED
        BY <4>1 DEF Free, Sent
    <3>2. CASE ~(Idle(i) \/ net[i].kind = "load")
      <4>1. net[i] \in Request
        BY <3>2 DEF Idle, Inv, Typed
      <4> QED
        BY <2>1, <3>2, <4>1 DEF Request, Sent
    <3> QED
      BY <3>1, <3>2
  <2>3. UNCHANGED <<server, removed>> /\ ~loadedFromApi'
    BY <1>11 DEF CloseTab
  <2>4. InTurn'
    BY <1>3, <2>2, <2>3 DEF InTurn
  <2>5. \A i \in Slots : Since(net[i])'
    BY <1>3, <1>4, <2>2, <2>3 DEF Remembered, Since, Has, Sent
  <2> QED
    BY <1>3, <1>4, <2>3, <2>4, <2>5 DEF Remembered
<1>12. CASE SignOut \/ \E b \in Branches : SignIn(b)
  BY <1>6, <1>12 DEF SignOut, SignIn, load
<1>13. ASSUME NEW i \in Slots, Serve(i) PROVE InTurn' /\ Remembered'
  <2>1. net[i] \in Request /\ Sent(i)
    BY <1>13 DEF Serve, Busy, Inv, Typed, Sent
  <2>2. UNCHANGED <<removed, directory, loadedFromApi, loadPromise>>
    BY <1>13 DEF Serve, load
  <2>3. \A j \in Slots \ {i} : ~Sent(j) /\ net[j].kind \notin {"load", "migrate"}
    BY <1>3, <2>1 DEF InTurn
  <2>4. CASE net[i].kind = "load"
    <3> DEFINE m == [net[i] EXCEPT !.stage = "served", !.names = server[net[i].branch]]
    <3>1. /\ net' = [net EXCEPT ![i] = m] /\ UNCHANGED server
          /\ m \in Request /\ m.kind = "load" /\ m.stage = "served" /\ m.names = server[net[i].branch]
      BY <1>13, <2>1, <2>4 DEF Serve, Inv, Typed, Request
    <3>2. net'[i] = m /\ \A j \in Slots \ {i} : net'[j] = net[j]
      BY <3>1, SlotSent DEF Inv
    <3>3. Has(m.names)
      BY <1>3, <2>1, <3>1 DEF Remembered, Has, OneBranch, Request
    <3> HIDE DEF m
    <3>4. InTurn'
      BY <1>3, <2>2, <2>3, <2>4, <3>1, <3>2 DEF InTurn, Sent
    <3>5. \A j \in Slots : Since(net[j])'
      BY <1>3, <1>4, <2>2, <3>1, <3>2, <3>3 DEF Remembered, Since, Has
    <3> QED
      BY <1>3, <1>4, <2>2, <3>1, <3>2, <3>4, <3>5 DEF Remembered, Has
  <2>5. CASE net[i].kind # "load"
    <3> DEFINE m == [net[i] EXCEPT !.stage = "served"]
               names == net[i].names
    <3>1. /\ net' = [net EXCEPT ![i] = m] /\ server' = [server EXCEPT ![net[i].branch] = names]
          /\ m \in Request /\ m.kind = net[i].kind /\ m.stage = "served" /\ m.names = names
          /\ net[i].branch \in Branches
      BY <1>13, <2>1, <2>5 DEF Serve, Inv, Typed, Request
    <3>2. net'[i] = m /\ \A j \in Slots \ {i} : net'[j] = net[j]
      BY <3>1, SlotSent DEF Inv
    <3>3. Has(names) /\ (loadedFromApi => names \subseteq directory \cup removed)
      BY <1>3, <2>1, <2>5 DEF Remembered, Since, Sent
    <3>4. \A b \in Branches : server'[b] = names /\ had'[b] = had[b] \cup names
      BY <1>1, <3>1 DEF Recorded, OneBranch, Inv, Typed
    <3>5. \A b \in Branches : had'[b] \subseteq names \cup removed'
      BY <2>2, <3>3, <3>4 DEF Has
    <3> HIDE DEF m, names
    <3>6. InTurn'
      BY <1>3, <2>2, <2>3, <3>1, <3>2 DEF InTurn, Sent
    <3>7. \A j \in Slots : Since(net[j])'
      BY <1>3, <2>2, <2>3, <2>5, <3>1, <3>2, <3>5 DEF Remembered, Since, Has, Sent
    <3>8. loadedFromApi' => Has(directory)'
      BY <1>3, <2>2, <3>3, <3>4 DEF Remembered, Has
    <3> QED
      BY <3>2, <3>4, <3>5, <3>6, <3>7, <3>8 DEF Remembered, Has
  <2> QED
    BY <2>4, <2>5
<1>14. ASSUME NEW i \in Slots, Fail(i) PROVE InTurn' /\ Remembered'
  <2> DEFINE m == [net[i] EXCEPT !.stage = "failed"]
  <2>1. net[i] \in Request
    BY <1>14 DEF Fail, Busy, Inv, Typed
  <2>2. m \in Request /\ m.kind = net[i].kind /\ m.stage = "failed" /\ m.names = net[i].names
    BY <2>1 DEF Request
  <2>3. net' = [net EXCEPT ![i] = m] /\ UNCHANGED <<server, removed, directory, loadedFromApi, loadPromise>>
    BY <1>14 DEF Fail, load
  <2>4. loadPromise' = None => ~loadedFromApi
    BY <1>3, <2>3 DEF InTurn
  <2> HIDE DEF m
  <2> QED
    BY <1>1, <1>3, <2>2, <2>3, <2>4, QuietInTurn
<1>15. /\ Free \in Request \cup {Free} /\ Free.stage = "none" /\ Free.kind = "free"
  BY DEF Free
<1>16. ASSUME NEW i \in Slots, LoadAnswered(i) PROVE InTurn' /\ Remembered'
  <2>1. net[i] \in Request /\ net[i].kind = "load" /\ ~Sent(i)
    BY <1>16 DEF LoadAnswered, Answered, Inv, Typed, Free, Sent
  <2> DEFINE remote == net[i].names
  <2>2. remote \in SUBSET Names /\ loadPromise = i /\ ~loadedFromApi /\ UNCHANGED <<server, removed, user>>
    BY <1>3, <1>16, <2>1 DEF Request, InTurn, LoadAnswered
  <2>3. CASE ~Ok(i)
    <3>1. net' = [net EXCEPT ![i] = Free] /\ UNCHANGED <<directory, loadedFromApi>> /\ loadPromise' = None
      BY <1>16, <2>3 DEF LoadAnswered
    <3> QED
      BY <1>1, <1>3, <1>15, <2>1, <2>2, <3>1, QuietInTurn
  <2>4. CASE Ok(i)
    <3>1. Has(remote)
      BY <1>3, <2>1, <2>4 DEF Ok, Remembered, Since
    <3>2. CASE remote # {} \/ legacy = {}
      BY <1>1, <1>3, <1>16, <2>1, <2>2, <2>4, <3>1, <3>2, AppliedInTurn DEF LoadAnswered
    <3>3. Has(legacy) \/ remote # {}
      BY <3>1 DEF Has
    <3>4. CASE remote = {} /\ legacy # {} /\ user = None
      BY <1>1, <1>3, <1>16, <2>1, <2>2, <2>4, <3>3, <3>4, AppliedInTurn DEF LoadAnswered, Inv, Typed
    <3>5. CASE remote = {} /\ legacy # {} /\ user # None
      <4>1. net' = [net EXCEPT ![i] = Message("migrate", legacy)] /\ UNCHANGED <<directory, load>>
        BY <1>16, <2>4, <3>5 DEF LoadAnswered
      <4>2. "migrate" \in Kinds /\ legacy \in SUBSET Names
        BY DEF Kinds, Loading, Inv, Typed
      <4> QED
        BY <1>1, <1>3, <2>1, <2>2, <3>3, <3>5, <4>1, <4>2, SendsInTurn DEF load
    <3> QED
      BY <3>2, <3>4, <3>5
  <2> QED
    BY <2>3, <2>4
<1>17. ASSUME NEW i \in Slots, MigrateAnswered(i) PROVE InTurn' /\ Remembered'
  <2>1. net[i] \in Request /\ net[i].kind = "migrate" /\ ~Sent(i)
    BY <1>17 DEF MigrateAnswered, Answered, Inv, Typed, Free, Sent
  <2>2. net[i].names \in SUBSET Names /\ Has(net[i].names)
    BY <1>3, <2>1 DEF Request, Remembered, Since
  <2> QED
    BY <1>1, <1>3, <1>17, <2>1, <2>2, AppliedInTurn DEF MigrateAnswered
<1>18. ASSUME NEW i \in Slots, MergeAnswered(i) PROVE InTurn' /\ Remembered'
  <2>1. net[i].kind = "merge" /\ loadedFromApi
    BY <1>3, <1>18 DEF MergeAnswered, Answered, Remembered, Since
  <2>2. /\ net' = [net EXCEPT ![i] = Free] /\ loadPromise' = "settled"
        /\ UNCHANGED <<server, removed, directory, loadedFromApi>>
    BY <1>18 DEF MergeAnswered
  <2> QED
    BY <1>1, <1>3, <1>15, <2>1, <2>2, QuietInTurn
<1>19. ASSUME NEW i \in Slots, PutAnswered(i) PROVE InTurn' /\ Remembered'
  <2>1. net[i].kind = "put" /\ loadedFromApi /\ ~Sent(i)
    BY <1>3, <1>19 DEF PutAnswered, Answered, Remembered, Since, Sent
  <2>2. UNCHANGED <<server, removed, directory, loadedFromApi, loadPromise>> /\ loadPromise # None
    BY <1>3, <1>19, <2>1 DEF PutAnswered, load, InTurn
  <2>3. CASE net' = [net EXCEPT ![i] = Free]
    BY <1>1, <1>3, <1>15, <2>1, <2>2, <2>3, QuietInTurn
  <2>4. CASE net' = [net EXCEPT ![i] = Message("flush", directory)] /\ user # None
    <3>1. Has(directory) /\ directory \in SUBSET Names /\ "flush" \in Kinds
      BY <1>3, <2>1 DEF Remembered, Inv, Typed, Kinds
    <3> QED
      BY <1>1, <1>3, <2>1, <2>2, <2>4, <3>1, SendsInTurn
  <2> QED
    BY <1>19, <2>3, <2>4 DEF PutAnswered
<1>20. ASSUME NEW i \in Slots, FlushAnswered(i) PROVE InTurn' /\ Remembered'
  <2>1. net' = [net EXCEPT ![i] = Free] /\ UNCHANGED <<server, removed, directory, loadedFromApi, loadPromise>>
    BY <1>20 DEF FlushAnswered, load
  <2>2. loadPromise' = None => ~loadedFromApi
    BY <1>3, <2>1 DEF InTurn
  <2> QED
    BY <1>1, <1>3, <1>15, <2>1, <2>2, QuietInTurn
<1> QED
  BY <1>5, <1>7, <1>9, <1>10, <1>11, <1>12, <1>13, <1>14, <1>16, <1>17, <1>18, <1>19, <1>20 DEF Next, Step, AnswerStep

LEMMA StutterHad == HInv /\ UNCHANGED vars => HInv'
  BY DEF vars, load, HInv, HadTyped, InTurn, Remembered, Since, Has, Sent

(* On a terminal of one branch no save, load, migration, flush or closed   *)
(* tab, served and answered in whatever order or not at all, takes an      *)
(* employee of the beginning off the API's roster whom the user did not    *)
(* take off; nor one saved since, until a request is sent before the one   *)
(* before it was served.                                                   *)
THEOREM RosterAlwaysKept == OneBranch => (Spec => []RosterKept)
<1> SUFFICES ASSUME OneBranch
             PROVE  Spec => []RosterKept
  OBVIOUS
<1>1. Inv /\ HInv => RosterKept
  BY DEF Inv, Kept, HInv, Remembered, RosterKept
<1>2. Inv /\ HInv /\ [Next]_vars => (Inv /\ HInv)'
  BY NextInv, NextHad, StutterHad
<1>3. Init => Inv /\ HInv
  BY InitInv, InitHad
<1> QED
  BY <1>1, <1>2, <1>3, PTL DEF Spec
-----------------------------------------------------------------------------
(* A network that answers before the user acts, without failures: then no  *)
(* two requests are ever in flight (Alone), for a load is the first one    *)
(* and the rest wait for it.                                               *)
Calm == mode.network = "calm" /\ ~mode.failures

Alone == \A i, j \in Slots : i # j => Idle(i) \/ Idle(j)

Ours ==
  /\ \A i \in Slots : Busy(i) => user # None /\ net[i].stage # "failed" /\ net[i].kind # "unload"
  /\ persistTimer => user # None

Phases ==
  /\ loadedFromApi => loadPromise # None
  /\ loadPromise = None => \A i \in Slots : Idle(i)
  /\ \A i \in Slots : Busy(i) => (loadedFromApi <=> net[i].kind \notin {"load", "migrate"})
  /\ \A i \in Slots : net[i].kind = "put" => persistInFlight = i
  /\ persistInFlight # None => persistInFlight \in Slots /\ net[persistInFlight].kind = "put"

(* What was served is what the API has, what is saved is what is on the    *)
(* screen; edits made before the load are marked for it.                   *)
Agreed ==
  /\ \A i \in Slots : net[i].stage = "served" => net[i].names = server[net[i].branch]
  /\ \A i \in Slots : net[i].kind \in {"merge", "put", "flush"} => net[i].names = directory
  /\ ~loadedFromApi /\ ~persistAfterLoad => directory = {}
  /\ loadedFromApi /\ (\A i \in Slots : Idle(i)) => persistTimer \/ \A b \in Branches : directory = server[b]

CInv == Alone /\ Ours /\ Phases /\ Agreed

LEMMA InitCalm == Init => CInv
  BY ConstantsAssumption DEF Init, CInv, Alone, Ours, Phases, Agreed, Idle, Busy, Free

(* What is sent when nothing else is in flight.                            *)
LEMMA SendsCalm ==
  ASSUME Inv, CInv, user # None, NEW i \in Slots, NEW kind \in Loading \cup {"put", "flush"},
         NEW names \in SUBSET Names,
         \A j \in Slots \ {i} : Idle(j),
         net' = [net EXCEPT ![i] = Message(kind, names)],
         loadPromise' # None,
         (loadedFromApi' <=> kind \notin {"load", "migrate"}),
         persistInFlight' = IF kind = "put" THEN i ELSE None,
         kind \in {"merge", "put", "flush"} => names = directory',
         ~loadedFromApi' /\ ~persistAfterLoad' => directory' = {},
         UNCHANGED user
  PROVE  CInv'
<1>1. user \in Branches
  BY DEF Inv, Typed
<1> DEFINE m == Message(kind, names)
<1>2. m \in Request /\ m # Free /\ m.kind = kind /\ m.names = names /\ m.stage = "sent"
  BY <1>1, MessageTyped DEF Kinds, Loading
<1>3. /\ net'[i] = m
      /\ \A j \in Slots \ {i} : net'[j] = Free
  BY <1>2, SlotSent DEF Inv, Idle
<1>4. Alone'
  BY <1>3 DEF Alone, Idle
<1>5. Ours'
  BY <1>2, <1>3 DEF Ours, Busy, Loading
<1>6. Phases'
  BY <1>2, <1>3 DEF Phases, Idle, Busy, Free
<1>7. Agreed'
  BY <1>2, <1>3 DEF Agreed, Idle, Free
<1> QED
  BY <1>4, <1>5, <1>6, <1>7 DEF CInv

(* A request that is answered, and nothing is sent in its place.           *)
LEMMA EndsCalm ==
  ASSUME Inv, CInv, NEW i \in Slots, Busy(i),
         net' = [net EXCEPT ![i] = Free],
         loadPromise' # None,
         loadedFromApi',
         \A b \in Branches : directory' = server'[b],
         persistTimer' => user # None,
         persistInFlight' = None,
         UNCHANGED user
  PROVE  CInv'
<1>1. \A j \in Slots : net'[j] = Free
  BY SlotSent DEF Inv, CInv, Alone, Idle, Busy
<1>2. Alone' /\ Ours'
  BY <1>1 DEF CInv, Alone, Ours, Idle, Busy
<1>3. Phases' /\ Agreed'
  BY <1>1 DEF Phases, Agreed, Busy, Free
<1> QED
  BY <1>2, <1>3 DEF CInv

LEMMA AppliesCalm ==
  ASSUME OneBranch, Inv, CInv, NEW i \in Slots, Busy(i), Ok(i), ~loadedFromApi, NEW empty \in BOOLEAN,
         net[i].kind # "put",
         ApplyLoad(i, net[i].names, empty),
         UNCHANGED <<user, server, persistTimer, persistInFlight>>
  PROVE  CInv'
<1> DEFINE remote == net[i].names
           list == mergeDirectoryWithApi(remote)
           save == persistAfterLoad \/ (empty /\ list # {})
<1>1. net[i] \in Request /\ user # None
  BY DEF Inv, Typed, Busy, CInv, Ours
<1>2. remote \in SUBSET Names /\ list \in SUBSET Names /\ net[i].branch \in Branches
  BY <1>1 DEF Request, mergeDirectoryWithApi, Inv, Typed
<1>3. \A j \in Slots \ {i} : Idle(j)
  BY DEF CInv, Alone, Busy, Idle
<1>4. directory' = list /\ loadedFromApi'
  BY DEF ApplyLoad
<1>5. persistInFlight' = None
  BY <1>3 DEF CInv, Phases, Idle, Free
<1>6. CASE save
  <2>1. net' = [net EXCEPT ![i] = Message("merge", list)] /\ loadPromise' = loadPromise
    BY <1>1, <1>6 DEF ApplyLoad
  <2>2. loadPromise # None
    BY DEF CInv, Phases, Idle, Busy
  <2>3. "merge" \in Loading \cup {"put", "flush"}
    BY DEF Loading
  <2> QED
    BY <1>1, <1>2, <1>3, <1>4, <1>5, <2>1, <2>2, <2>3, SendsCalm
<1>7. CASE ~save
  <2>1. net' = [net EXCEPT ![i] = Free] /\ loadPromise' = "settled"
    BY <1>7 DEF ApplyLoad
  <2>2. \A b \in Branches : remote = server[b]
    BY <1>2 DEF Ok, CInv, Agreed, OneBranch
  <2>3. list = remote
    BY <1>7 DEF CInv, Agreed, mergeDirectoryWithApi
  <2>4. "settled" # None
    BY ConstantsAssumption
  <2> QED
    BY <1>4, <1>5, <2>1, <2>2, <2>3, <2>4, EndsCalm DEF CInv, Ours
<1> QED
  BY <1>6, <1>7
LEMMA NextCalm ==
  ASSUME OneBranch, Inv, Calm, CInv, [Next]_vars
  PROVE  CInv'
<1> USE ConstantsAssumption
<1>1. CASE replaceEmployeeDirectorySnapshot
  <2>1. \A i \in Slots : net[i].kind \in {"load", "migrate", "free"}
    BY <1>1 DEF replaceEmployeeDirectorySnapshot, Act, Calm, OnlyInFlight, Idle, Free
  <2>2. UNCHANGED <<server, user, loadedFromApi, loadPromise, persistInFlight, net>> /\ user # None
    BY <1>1 DEF replaceEmployeeDirectorySnapshot
  <2>3. /\ ~loadedFromApi => persistAfterLoad' /\ persistTimer' = persistTimer
        /\ loadedFromApi => persistTimer'
    BY <1>1 DEF replaceEmployeeDirectorySnapshot, schedulePersist
  <2>4. Agreed'
    BY <2>1, <2>2, <2>3 DEF CInv, Agreed, Idle
  <2> QED
    BY <2>2, <2>4 DEF CInv, Alone, Ours, Phases, Idle, Busy
<1>2. CASE TimerEnds
  <2>1. user # None /\ UNCHANGED <<user, directory, loadedFromApi, loadPromise, persistAfterLoad>>
    BY <1>2 DEF TimerEnds, load, CInv, Ours
  <2>2. PICK i \in Slots : net' = [net EXCEPT ![i] = Message("put", directory)] /\ persistInFlight' = i
    BY <1>2, <2>1 DEF TimerEnds
  <2>3. \A j \in Slots : Idle(j)
    BY <1>2 DEF TimerEnds, Calm, OnlyInFlight
  <2>4. loadedFromApi /\ loadPromise # None
    BY <1>2 DEF TimerEnds, Inv, Held, CInv, Phases
  <2>5. directory \in SUBSET Names
    BY DEF Inv, Typed
  <2> QED
    BY <2>1, <2>2, <2>3, <2>4, <2>5, SendsCalm
<1>3. ASSUME StartLoad, user # None, ~loadedFromApi,
             UNCHANGED <<server, user, directory, loadedFromApi, persistInFlight>>,
             persistTimer' => persistTimer, persistAfterLoad => persistAfterLoad'
      PROVE  CInv'
  <2>1. CASE loadPromise # None
    BY <1>3, <2>1 DEF StartLoad, CInv, Alone, Ours, Phases, Agreed, Idle, Busy
  <2>2. CASE loadPromise = None
    <3>1. PICK i \in Slots : net' = [net EXCEPT ![i] = Message("load", {})] /\ loadPromise' = i
      BY <1>3, <2>2 DEF StartLoad
    <3>2. \A j \in Slots : Idle(j)
      BY <2>2 DEF CInv, Phases
    <3>3. ~loadedFromApi' /\ (~persistAfterLoad' => directory' = {})
      BY <1>3 DEF CInv, Agreed
    <3>4. persistInFlight = None
      BY <3>2 DEF CInv, Phases, Idle, Free
    <3>5. "load" \in Loading \cup {"put", "flush"} /\ "load" \notin {"merge", "put", "flush"}
      BY DEF Loading
    <3>6. loadPromise' # None /\ persistInFlight' = None /\ {} \in SUBSET Names
      BY <1>3, <3>1, <3>4
    <3>7. user # None /\ UNCHANGED user
      BY <1>3
    <3> QED
      BY <3>1, <3>2, <3>3, <3>5, <3>6, <3>7, SendsCalm
  <2> QED
    BY <2>1, <2>2
<1>4. CASE loadEmployeeDirectory
  <2>1. CASE user = None
    <3>1. UNCHANGED <<server, user, directory, load, net, persistTimer, persistInFlight>>
      BY <1>4, <2>1 DEF loadEmployeeDirectory, StartLoad, load
    <3> QED
      BY <3>1 DEF load, CInv, Alone, Ours, Phases, Agreed, Idle, Busy
  <2>2. CASE user # None
    BY <1>3, <1>4, <2>2 DEF loadEmployeeDirectory, CInv, Phases
  <2> QED
    BY <2>1, <2>2
<1>5. CASE flushEmployeeDirectoryPersist
  <2>1. user # None /\ UNCHANGED <<server, user, directory, loadedFromApi, persistInFlight>> /\ ~persistTimer'
    BY <1>5 DEF flushEmployeeDirectoryPersist
  <2>2. CASE persistInFlight # None /\ UNCHANGED <<net, loadPromise, persistAfterLoad>>
    <3>1. ~\A i \in Slots : Idle(i)
      BY <2>2 DEF CInv, Phases, Idle, Free
    <3> QED
      BY <2>1, <2>2, <3>1 DEF CInv, Alone, Ours, Phases, Agreed, Idle, Busy
  <2>3. CASE persistInFlight = None /\ ~loadedFromApi
    BY <1>3, <1>5, <2>1, <2>3 DEF flushEmployeeDirectoryPersist
  <2>4. CASE persistInFlight = None /\ loadedFromApi
    <3>1. PICK i \in Slots : net' = [net EXCEPT ![i] = Message("flush", directory)]
      BY <1>5, <2>4 DEF flushEmployeeDirectoryPersist
    <3>2. \A j \in Slots : Idle(j) \/ net[j].kind \in {"load", "migrate", "put"}
      BY <1>5 DEF flushEmployeeDirectoryPersist, Act, Calm, OnlyInFlight
    <3>3. \A j \in Slots : Idle(j)
      BY <2>4, <3>2 DEF CInv, Phases, Idle, Busy
    <3>4. loadPromise' # None
      BY <1>5, <2>4 DEF flushEmployeeDirectoryPersist, CInv, Phases
    <3>5. directory \in SUBSET Names
      BY DEF Inv, Typed
    <3> QED
      BY <2>1, <2>4, <3>1, <3>3, <3>4, <3>5, SendsCalm
  <2> QED
    BY <1>5, <2>2, <2>3, <2>4 DEF flushEmployeeDirectoryPersist
<1>6. CASE CloseTab
  <2>1. \A i \in Slots : Idle(i)
    BY <1>6 DEF CloseTab, Act, Calm, OnlyInFlight
  <2>2. \A i \in Slots : net'[i] = Free
    BY <1>6, <2>1 DEF CloseTab
  <2> QED
    <3>1. ~loadedFromApi' /\ ~persistTimer' /\ directory' = {} /\ persistInFlight' = None
      BY <1>6 DEF CloseTab
    <3>2. Alone' /\ Ours'
      BY <2>2, <3>1 DEF Alone, Ours, Idle, Busy
    <3>3. Phases' /\ Agreed'
      BY <2>2, <3>1 DEF Phases, Agreed, Idle, Busy, Free
    <3> QED
      BY <3>2, <3>3 DEF CInv
<1>7. CASE SignOut \/ \E b \in Branches : SignIn(b)
  <2>1. \A i \in Slots : Idle(i)
    BY <1>7 DEF SignOut, SignIn, Act, Calm, OnlyInFlight
  <2>2. UNCHANGED <<server, directory, load, persistTimer, persistInFlight, net>> /\ (persistTimer' => user' # None)
    BY <1>7 DEF SignOut, SignIn, Calm, CInv, Ours
  <2> QED
    BY <2>1, <2>2 DEF load, CInv, Alone, Ours, Phases, Agreed, Idle, Busy
<1>8. ASSUME NEW i \in Slots, Serve(i) PROVE CInv'
  <2>1. net[i] \in Request /\ net[i] # Free /\ UNCHANGED <<user, directory, loadedFromApi, loadPromise>>
        /\ UNCHANGED <<persistAfterLoad, persistTimer, persistInFlight>>
    BY <1>8 DEF Serve, load, Busy, Inv, Typed
  <2>2. \A j \in Slots \ {i} : Idle(j)
    BY <2>1 DEF CInv, Alone, Idle
  <2>3. PICK names \in SUBSET Names :
          /\ net' = [net EXCEPT ![i] = [net[i] EXCEPT !.stage = "served", !.names = names]]
          /\ server'[net[i].branch] = names
          /\ net[i].kind # "load" => names = net[i].names
    <3>1. CASE net[i].kind = "load"
      <4>1. server[net[i].branch] \in SUBSET Names
        BY <2>1 DEF Inv, Typed, Request
      <4>2. /\ net' = [net EXCEPT ![i] = [net[i] EXCEPT !.stage = "served", !.names = server[net[i].branch]]]
            /\ UNCHANGED server
        BY <1>8, <2>1, <3>1 DEF Serve, Inv, Typed
      <4> QED
        BY <3>1, <4>1, <4>2
    <3>2. CASE net[i].kind # "load"
      <4>1. /\ net' = [net EXCEPT ![i] = [net[i] EXCEPT !.stage = "served"]]
            /\ server' = [server EXCEPT ![net[i].branch] = net[i].names]
        BY <1>8, <2>1, <3>2 DEF Serve, Inv, Typed
      <4>2. [net[i] EXCEPT !.stage = "served"] = [net[i] EXCEPT !.stage = "served", !.names = net[i].names]
        BY <2>1 DEF Request
      <4> QED
        BY <2>1, <4>1, <4>2 DEF Inv, Typed, Request
    <3> QED
      BY <3>1, <3>2
  <2> DEFINE m == [net[i] EXCEPT !.stage = "served", !.names = names]
  <2>4. /\ m \in Request /\ m # Free
        /\ m.kind = net[i].kind /\ m.branch = net[i].branch /\ m.stage = "served" /\ m.names = names
    BY <2>1 DEF Request, Free
  <2>5. net' = [net EXCEPT ![i] = m]
    BY <2>3
  <2> HIDE DEF m
  <2>6. /\ net'[i] = m
        /\ \A j \in Slots \ {i} : net'[j] = net[j] /\ net'[j] = Free
    BY <2>2, <2>4, <2>5, SlotSent DEF Inv, Idle
  <2>7. Alone' /\ Ours'
    BY <2>1, <2>4, <2>6 DEF CInv, Alone, Ours, Idle, Busy
  <2>8. Phases'
    <3>1. loadPromise # None
      BY <2>1 DEF CInv, Phases, Idle
    <3>2. \A j \in Slots : net'[j].kind = net[j].kind /\ (net'[j] # Free => net[j] # Free)
      BY <2>1, <2>4, <2>6
    <3> QED
      BY <2>1, <3>1, <3>2 DEF CInv, Phases, Busy
  <2>9. Agreed'
    <3>1. \A j \in Slots : net'[j].stage = "served" => net'[j].names = server'[net'[j].branch]
      BY <2>3, <2>4, <2>6 DEF Free
    <3>2. \A j \in Slots : net'[j].kind \in {"merge", "put", "flush"} => net'[j].names = directory
      BY <2>3, <2>4, <2>6 DEF CInv, Agreed, Free
    <3>3. ~Idle(i)'
      BY <2>4, <2>6 DEF Idle
    <3> QED
      BY <2>1, <3>1, <3>2, <3>3 DEF CInv, Agreed
  <2> QED
    BY <2>7, <2>8, <2>9 DEF CInv
<1>9. ASSUME NEW i \in Slots, Fail(i) PROVE FALSE
  BY <1>9 DEF Fail, Calm
<1>10. ASSUME NEW i \in Slots, LoadAnswered(i) PROVE CInv'
  <2>1. net[i].kind = "load" /\ Busy(i)
    BY <1>10 DEF LoadAnswered, Answered, Busy, Free
  <2>2. Ok(i) /\ user # None /\ ~loadedFromApi /\ loadPromise # None
    BY <1>10, <2>1 DEF LoadAnswered, Answered, Ok, CInv, Ours, Phases, Idle, Busy
  <2>3. UNCHANGED <<server, user, persistTimer, persistInFlight>>
    BY <1>10 DEF LoadAnswered
  <2>4. CASE net[i].names # {} \/ legacy = {}
    <3>1. PICK empty \in BOOLEAN : ApplyLoad(i, net[i].names, empty)
      BY <1>10, <2>2, <2>4 DEF LoadAnswered
    <3> QED
      BY <2>1, <2>2, <2>3, <3>1, AppliesCalm
  <2>5. CASE net[i].names = {} /\ legacy # {}
    <3>1. net' = [net EXCEPT ![i] = Message("migrate", legacy)] /\ UNCHANGED <<directory, load>>
      BY <1>10, <2>2, <2>5 DEF LoadAnswered
    <3>2. \A j \in Slots \ {i} : Idle(j)
      BY <2>1 DEF CInv, Alone, Busy, Idle
    <3>3. persistInFlight = None
      BY <2>1, <3>2 DEF CInv, Phases, Idle, Free
    <3>4. ~loadedFromApi /\ ~persistAfterLoad => directory = {}
      BY DEF CInv, Agreed
    <3>5. legacy \in SUBSET Names
      BY DEF Inv, Typed
    <3>6. /\ "migrate" \in Loading \cup {"put", "flush"}
          /\ "migrate" \notin {"merge", "put", "flush"}
      BY DEF Loading
    <3> QED
      BY <2>2, <2>3, <3>1, <3>2, <3>3, <3>4, <3>5, <3>6, SendsCalm DEF load
  <2> QED
    BY <2>4, <2>5
<1>11. ASSUME NEW i \in Slots, MigrateAnswered(i) PROVE CInv'
  <2>1. net[i].kind = "migrate" /\ Busy(i)
    BY <1>11 DEF MigrateAnswered, Answered, Busy, Free
  <2>2. Ok(i) /\ ~loadedFromApi
    BY <1>11, <2>1 DEF MigrateAnswered, Answered, Ok, CInv, Ours, Phases, Busy
  <2> QED
    BY <1>11, <2>1, <2>2, AppliesCalm DEF MigrateAnswered
<1>12. ASSUME NEW i \in Slots, NEW kind \in {"merge", "put", "flush"}, Answered(i, {kind})
       PROVE  /\ Busy(i) /\ Ok(i) /\ user # None
              /\ \A j \in Slots \ {i} : Idle(j)
              /\ loadPromise # None
              /\ \A b \in Branches : directory = server[b]
  <2>1. Busy(i) /\ net[i].kind = kind /\ net[i] \in Request
    BY <1>12 DEF Answered, Busy, Free, Inv, Typed
  <2>2. Ok(i) /\ user # None /\ loadPromise # None
    BY <1>12, <2>1 DEF Answered, Ok, CInv, Ours, Phases, Idle, Busy
  <2>3. net[i].names = directory /\ net[i].names = server[net[i].branch] /\ net[i].branch \in Branches
    BY <2>1, <2>2 DEF Ok, CInv, Agreed, Request
  <2> QED
    BY <2>1, <2>2, <2>3 DEF CInv, Alone, Busy, Idle, OneBranch
<1>13. ASSUME NEW i \in Slots, MergeAnswered(i) PROVE CInv'
  <2>1. Answered(i, {"merge"}) /\ UNCHANGED <<server, user, directory, loadedFromApi, persistInFlight>>
    BY <1>13 DEF MergeAnswered
  <2>2. /\ Busy(i) /\ Ok(i) /\ user # None
        /\ \A j \in Slots \ {i} : Idle(j)
        /\ \A b \in Branches : directory = server[b]
    BY <1>12, <2>1
  <2>3. net' = [net EXCEPT ![i] = Free] /\ loadPromise' = "settled" /\ UNCHANGED persistTimer
    BY <1>13, <2>2 DEF MergeAnswered
  <2>4. persistInFlight = None
    BY <2>1, <2>2 DEF Answered, CInv, Phases, Idle, Free
  <2>5. loadedFromApi
    BY <2>1, <2>2 DEF Answered, CInv, Phases
  <2> QED
    BY <2>1, <2>2, <2>3, <2>4, <2>5, EndsCalm
<1>14. ASSUME NEW i \in Slots, PutAnswered(i) \/ FlushAnswered(i) PROVE CInv'
  <2>1. PICK kind \in {"put", "flush"} : Answered(i, {kind})
    BY <1>14 DEF PutAnswered, FlushAnswered, Answered, CInv, Ours, Busy, Free
  <2>2. /\ Busy(i) /\ Ok(i) /\ user # None /\ loadPromise # None
        /\ \A j \in Slots \ {i} : Idle(j)
        /\ \A b \in Branches : directory = server[b]
    BY <1>12, <2>1
  <2>3. UNCHANGED <<server, user, directory, loadedFromApi, loadPromise, persistAfterLoad, persistTimer>>
    BY <1>14 DEF PutAnswered, FlushAnswered, load
  <2>4. persistInFlight' = None
    BY <1>14, <2>2 DEF PutAnswered, PutSettled, FlushAnswered, Answered, CInv, Phases, Idle, Free
  <2>5. loadedFromApi
    BY <2>1, <2>2 DEF Answered, CInv, Phases
  <2>6. CASE net' = [net EXCEPT ![i] = Free]
    BY <2>2, <2>3, <2>4, <2>5, <2>6, EndsCalm DEF CInv, Ours
  <2>7. CASE net' = [net EXCEPT ![i] = Message("flush", directory)]
    BY <2>2, <2>3, <2>4, <2>5, <2>7, SendsCalm DEF Inv, Typed
  <2> QED
    BY <1>14, <2>6, <2>7 DEF PutAnswered, FlushAnswered
<1>15. CASE UNCHANGED vars
  BY <1>15 DEF vars, load, CInv, Alone, Ours, Phases, Agreed, Idle, Busy
<1> QED
  BY <1>1, <1>2, <1>4, <1>5, <1>6, <1>7, <1>8, <1>9, <1>10, <1>11, <1>13, <1>14, <1>15 DEF Next, Step, AnswerStep

LEMMA CalmStays == [Next]_vars => (Calm' = Calm)
  BY DEF Next, Step, vars, load, Calm, replaceEmployeeDirectorySnapshot, TimerEnds, flushEmployeeDirectoryPersist, Act,
         loadEmployeeDirectory, CloseTab, SignOut, SignIn, Serve, Fail, AnswerStep, LoadAnswered, MigrateAnswered,
         MergeAnswered, PutAnswered, FlushAnswered

(* On a terminal of one branch with a calm network, the directory on the   *)
(* screen is the one the API has whenever nothing is pending, through      *)
(* edits before and after the load, migrations, flushes and sessions.      *)
THEOREM AlwaysConverged == OneBranch => (Spec => []Converged)
<1> SUFFICES ASSUME OneBranch
             PROVE  Spec => []Converged
  OBVIOUS
<1>1. Inv /\ (Calm => CInv) => Converged
  BY DEF Calm, CInv, Agreed, Converged, Inv, Typed
<1>2. Init => Inv /\ (Calm => CInv)
  BY InitInv, InitCalm
<1>3. Inv /\ (Calm => CInv) /\ [Next]_vars => (Inv /\ (Calm => CInv))'
  BY NextInv, NextCalm, CalmStays
<1> QED
  BY <1>1, <1>2, <1>3, PTL DEF Spec
=============================================================================
