------------------------- MODULE CaptureMediaProofs -------------------------
(***************************************************************************)
(* Proofs about CaptureMedia, for any branches, days, media and requests   *)
(* in flight: its types, what a purge spares, and that one branch whose    *)
(* requests come one at a time refers to no deleted media, but to those a  *)
(* failed request was in the middle of.                                    *)
(***************************************************************************)
EXTENDS CaptureMedia, FiniteSetTheorems, TLAPS

-----------------------------------------------------------------------------
(* What the types rest on: sessions are finite, and a request that writes  *)
(* one back with a photo more has read an open one with room for it.       *)
Saves(q) == q.write /\ q.step \in {"saveDrop", "trays", "entries", "orphans", "commit"}

Fit(q) ==
  /\ q \in Request
  /\ IsFiniteSet(q.seen.items) /\ Cardinality(q.seen.items) <= scope.items
  /\ q.step \in {"register", "registerWrite"} => Cardinality(q.seen.items) < scope.items /\ \E m \in Media : q.media = {m}
  /\ q.step \in {"register", "registerWrite", "remove"} => q.seen \in Session /\ q.seen.branch = q.b
  /\ q.step \in {"dayDrop", "dayDelete"} => q.b \in Branches /\ q.d \in Days
  /\ q.step \in {"saveDrop", "commit"} => q.write
  /\ q.step \in {"closeDelete", "closeEntries", "closeDrop"} => ~q.write
  /\ Saves(q) => q.b \in Branches /\ q.d \in Days

Typed ==
  /\ TypeOK
  /\ \A d \in Days : IsFiniteSet(sessions[d].items)
  /\ \A r \in Requests : Fit(req[r])

LEMMA ScopeType == TypeOK => scope \in Scope /\ scope.acts \in Nat /\ scope.items \in Nat
  BY ConstantsAssumption DEF TypeOK, Scope

LEMMA ClosedIsSession == Closed \in Session \cup {Closed} /\ Closed.items = {} /\ Closed.branch = None
  BY DEF Closed

LEMMA OpenedIsSession ==
  ASSUME NEW b \in Branches \cup {None}
  PROVE  /\ [Closed EXCEPT !.branch = b] \in Session \cup {Closed}
         /\ [Closed EXCEPT !.branch = b].items = {} /\ [Closed EXCEPT !.branch = b].retained = {}
         /\ [Closed EXCEPT !.branch = b].branch = b
<1>1. [Closed EXCEPT !.branch = b] = [branch |-> b, items |-> {}, retained |-> {}]
  BY DEF Closed
<1> QED
  BY <1>1 DEF Closed, Session

LEMMA NoPhotosFit ==
  /\ IsFiniteSet({}) /\ Cardinality({}) = 0
  /\ TypeOK => IsFiniteSet(Closed.items) /\ Cardinality(Closed.items) <= scope.items
<1>1. IsFiniteSet({}) /\ Cardinality({}) = 0
  BY FS_EmptySet
<1> QED
  BY <1>1, ScopeType DEF Closed

LEMMA IdleFits == TypeOK => Fit(Idle)
<1>1. Idle \in Request /\ Idle.seen.items = {} /\ Idle.step = "idle"
  BY DEF Idle, Request, Steps, Closed
<1> QED
  BY <1>1, ScopeType, NoPhotosFit DEF Fit, Saves

(* The photos of a session, on the tray or assigned from it.               *)
Contents(session) == session.items \cup session.retained

LEMMA SessionTypes ==
  /\ \A s \in Session \cup {Closed} : s.items \in SUBSET Media /\ s.retained \in SUBSET Media
                                      /\ s.branch \in Branches \cup {None} /\ (s \in Session <=> s.branch # None)
  /\ \A s \in Session \cup {Closed} : Contents(s) \in SUBSET Media
  BY ConstantsAssumption DEF Session, Closed, Contents

LEMMA HeldType == TypeOK => Held \in SUBSET Media
<1> SUFFICES ASSUME TypeOK
             PROVE  Held \in SUBSET Media
  OBVIOUS
<1>1. \A d \in Days : sessions[d].items \cup sessions[d].retained \in SUBSET Media
  BY SessionTypes DEF TypeOK
<1>2. \A b \in Branches, d \in Days : saved[b][d] \in SUBSET Media
  BY DEF TypeOK
<1> QED
  <2>1. UNION {sessions[d].items \cup sessions[d].retained : d \in Days} \in SUBSET Media
    BY <1>1
  <2>2. UNION {saved[b][d] : b \in Branches, d \in Days} \in SUBSET Media
    BY <1>2
  <2> QED
    BY <2>1, <2>2 DEF Held

Watched == \E ms : WatchAllBut(ms)

LEMMA WatchedType ==
  /\ Sent \/ Continued => Watched /\ UNCHANGED <<scope, torn>>
  /\ Typed /\ Watched => steady' \in [Requests -> SUBSET Media]
<1>1. Sent \/ Continued => Watched /\ UNCHANGED <<scope, torn>>
  BY DEF Sent, Continued, Watch, Watched
<1>2. ASSUME Typed, NEW ms, WatchAllBut(ms)
      PROVE  steady' \in [Requests -> SUBSET Media]
  BY <1>2, HeldType DEF WatchAllBut, Typed, TypeOK
<1> QED
  BY <1>1, <1>2 DEF Watched

(* A step of one request, in a scope that stays.                           *)
LEMMA MovesFit ==
  ASSUME Typed, NEW r \in Requests, NEW q, Fit(q), req' = [req EXCEPT ![r] = q],
         Sent \/ Continued \/ (Watched /\ UNCHANGED <<acts, scope>>)
  PROVE  /\ scope' = scope /\ scope' \in Scopes
         /\ req' \in [Requests -> Request] /\ \A p \in Requests : Fit(req[p])'
         /\ steady' \in [Requests -> SUBSET Media] /\ acts' \in 0..scope'.acts
<1>1. scope' = scope /\ scope' \in Scopes /\ Watched
  BY WatchedType DEF Typed, TypeOK
<1>2. req' \in [Requests -> Request]
  BY DEF Typed, TypeOK, Fit
<1>3. ASSUME NEW p \in Requests
      PROVE  Fit(req[p])'
  <2>1. req'[p] = q \/ req'[p] = req[p]
    BY DEF Typed, TypeOK
  <2>2. CASE req'[p] = q
    BY <1>1, <2>2 DEF Fit, Saves
  <2>3. CASE req'[p] = req[p]
    BY <1>1, <2>3 DEF Fit, Saves, Typed
  <2> QED
    BY <2>1, <2>2, <2>3
<1>4. steady' \in [Requests -> SUBSET Media]
  BY <1>1, WatchedType
<1>5. acts' \in 0..scope'.acts
  BY <1>1, ScopeType DEF Sent, Continued, Typed, TypeOK
<1> QED
  BY <1>1, <1>2, <1>3, <1>4, <1>5

(* A session written back, or opened, or dropped.                          *)
LEMMA SessionWritten ==
  ASSUME Typed, NEW d, NEW s \in Session \cup {Closed}, scope' = scope,
         IsFiniteSet(s.items), Cardinality(s.items) <= scope.items, sessions' = [sessions EXCEPT ![d] = s]
  PROVE  /\ sessions' \in [Days -> Session \cup {Closed}]
         /\ \A e \in Days : Cardinality(sessions'[e].items) <= scope'.items /\ IsFiniteSet(sessions'[e].items)
  BY DEF Typed, TypeOK

LEMMA DroppedType ==
  ASSUME Typed, NEW ms, NEW b
  PROVE  Dropped(ms, b) \in [Media -> Branches \cup {None}]
  BY DEF Typed, TypeOK, Dropped

LEMMA HalfDoneType ==
  ASSUME Typed, NEW r \in Requests
  PROVE  HalfDone(req[r]) \in SUBSET Media
<1>1. req[r] \in Request
  BY DEF Typed, TypeOK
<1> QED
  BY <1>1 DEF HalfDone, Request

(* The first steps of the requests.                                        *)
LEMMA BeginTyped ==
  ASSUME Typed, NEW r \in Requests, Begin(r)
  PROVE  Typed'
<1> USE DEF Typed, TypeOK
<1> ConstantsAssumption /\ scope \in Scope /\ scope.branches \subseteq Branches /\ scope.days \subseteq Days
  BY ScopeType, ConstantsAssumption DEF Scope
<1>1. ASSUME NEW q, Fit(q), req' = [req EXCEPT ![r] = q], Sent, UNCHANGED <<sessions, assets, made, saved>>,
             uploads' \in SUBSET (Days \X Media), form' \in [Branches -> [Days -> SUBSET Media]]
      PROVE  Typed'
  BY <1>1, MovesFit, WatchedType
<1>2. ASSUME NEW d \in Days
      PROVE  /\ sessions[d] \in Session \cup {Closed} /\ IsFiniteSet(sessions[d].items)
             /\ Cardinality(sessions[d].items) <= scope.items
  OBVIOUS
<1>3. ASSUME NEW d \in scope.days, NEW m \in Media, Register(r, d, m)
      PROVE  Typed'
  <2> DEFINE q == [Idle EXCEPT !.step = "register", !.b = sessions[d].branch, !.d = d, !.media = {m}, !.seen = sessions[d]]
  <2>1. sessions[d] \in Session /\ Cardinality(sessions[d].items) < scope.items
    BY <1>3, SessionTypes DEF Register, Room, Open
  <2>2. q \in Request /\ q.step = "register" /\ q.media = {m} /\ q.seen = sessions[d] /\ q.b = sessions[d].branch
    BY <2>1, SessionTypes DEF Idle, Request, Steps, Closed
  <2>3. Fit(q)
    BY <1>2, <2>1, <2>2 DEF Fit, Saves
  <2> QED
    BY <1>1, <1>3, <2>3 DEF Register, Arrives
<1>4. ASSUME Startup(r)
      PROVE  Typed'
  <2> DEFINE start == [Idle EXCEPT !.step = "trays"]
  <2>1. start \in Request /\ start.step = "trays" /\ start.seen = Closed /\ start.write = FALSE
    BY DEF Idle, Request, Steps, Closed
  <2>2. Fit(start) /\ Fit(Idle)
    BY <2>1, IdleFits, NoPhotosFit DEF Fit, Saves
  <2>3. /\ req' \in [Requests -> Request] /\ \A p \in Requests : req'[p] = start \/ req'[p] = Idle
    BY <1>4, <2>2 DEF Startup, Fit
  <2>4. scope' = scope /\ acts' \in 0..scope'.acts
    BY <1>4, ScopeType DEF Startup
  <2>5. \A p \in Requests : Fit(req[p])'
    BY <2>2, <2>3, <2>4 DEF Fit, Saves
  <2>6. steady' \in [Requests -> SUBSET Media]
    BY <1>4, WatchedType DEF Startup, Watch, Watched
  <2>7. torn' \in SUBSET Media
    BY <1>4, HalfDoneType DEF Startup
  <2> QED
    BY <1>4, <2>3, <2>4, <2>5, <2>6, <2>7 DEF Startup
<1>5. ASSUME NEW b \in scope.branches, NEW d \in scope.days, Create(r, b, d)
      PROVE  Typed'
  <2> DEFINE step == IF sessions[d].branch \in {None, b} THEN "createWrite" ELSE "createDrop"
  <2> DEFINE q == [Idle EXCEPT !.b = b, !.d = d, !.seen = sessions[d], !.step = step]
  <2>1. q \in Request /\ q.step = step /\ q.seen = sessions[d] /\ q.write = FALSE
    BY DEF Idle, Request, Steps, Closed
  <2>2. Fit(q)
    BY <1>2, <2>1 DEF Fit, Saves
  <2> QED
    BY <1>1, <1>5, <2>2 DEF Create, Arrives
<1>6. ASSUME NEW b \in scope.branches, NEW d \in scope.days, Close(r, b, d)
      PROVE  Typed'
  <2> DEFINE step == IF Open(d) THEN "closeDelete" ELSE "trays"
  <2> DEFINE q == [Idle EXCEPT !.b = b, !.d = d, !.seen = sessions[d], !.step = step]
  <2>1. q \in Request /\ q.step = step /\ q.seen = sessions[d] /\ q.write = FALSE
    BY DEF Idle, Request, Steps, Closed
  <2>2. Fit(q)
    BY <1>2, <2>1 DEF Fit, Saves
  <2> QED
    BY <1>1, <1>6, <2>2 DEF Close, Arrives
<1>7. ASSUME NEW b \in scope.branches, NEW d \in scope.days, DiscardForm(r, b, d)
      PROVE  Typed'
  <2> DEFINE q == [Idle EXCEPT !.step = "discard", !.b = b, !.d = d, !.drop = form[b][d] \ saved[b][d]]
  <2>0. form[b][d] \ saved[b][d] \in SUBSET Media
    OBVIOUS
  <2>1. q \in Request /\ q.step = "discard" /\ q.seen = Closed /\ q.write = FALSE
    BY <2>0 DEF Idle, Request, Steps, Closed
  <2>3. req' = [req EXCEPT ![r] = q]
    BY <1>7 DEF DiscardForm, Arrives
  <2> HIDE DEF q
  <2>2. Fit(q)
    BY <2>1, NoPhotosFit DEF Fit, Saves
  <2> QED
    BY <1>1, <1>7, <2>2, <2>3 DEF DiscardForm, Arrives
<1>8. ASSUME NEW b \in scope.branches, NEW d \in scope.days, NEW ms \in SUBSET Media, Save(r, b, d, ms)
      PROVE  Typed'
  <2> DEFINE q == [Idle EXCEPT !.step = "saveDrop", !.b = b, !.d = d, !.media = ms, !.keep = ms,
                               !.drop = saved[b][d] \ ms, !.write = TRUE]
  <2>0. saved[b][d] \ ms \in SUBSET Media
    OBVIOUS
  <2>1. q \in Request /\ q.step = "saveDrop" /\ q.seen = Closed /\ q.write = TRUE /\ q.b = b /\ q.d = d
    BY <2>0 DEF Idle, Request, Steps, Closed
  <2>3. req' = [req EXCEPT ![r] = q]
    BY <1>8 DEF Save, Arrives
  <2> HIDE DEF q
  <2>2. Fit(q)
    BY <2>1, NoPhotosFit DEF Fit, Saves
  <2> QED
    BY <1>1, <1>8, <2>2, <2>3 DEF Save, Arrives
<1>9. ASSUME NEW b \in scope.branches, NEW d \in scope.days, NEW m \in Media, NEW keepMedia \in BOOLEAN,
             Remove(r, b, d, m, keepMedia)
      PROVE  Typed'
  <2> DEFINE q == [Idle EXCEPT !.step = "remove", !.b = b, !.d = d, !.media = {m}, !.seen = sessions[d], !.write = keepMedia]
  <2>1. q \in Request /\ q.step = "remove" /\ q.seen = sessions[d] /\ q.b = b
    BY DEF Idle, Request, Steps, Closed
  <2>2. sessions[d] \in Session /\ sessions[d].branch = b
    BY <1>9, SessionTypes, ConstantsAssumption DEF Remove
  <2>3. Fit(q)
    BY <1>2, <2>1, <2>2 DEF Fit, Saves
  <2>4. form' \in [Branches -> [Days -> SUBSET Media]]
    BY <1>9 DEF Remove
  <2> QED
    BY <1>1, <1>9, <2>3, <2>4 DEF Remove, Arrives
<1>10. ASSUME NEW b \in scope.branches, NEW d \in scope.days, NEW ms \in SUBSET Media, RemoveDay(r, b, d, ms)
       PROVE  Typed'
  <2> DEFINE q == [Idle EXCEPT !.step = "dayDrop", !.b = b, !.d = d, !.drop = ms]
  <2>1. q \in Request /\ q.step = "dayDrop" /\ q.seen = Closed /\ q.write = FALSE /\ q.b = b /\ q.d = d
    BY DEF Idle, Request, Steps, Closed
  <2>2. req' = [req EXCEPT ![r] = q]
    BY <1>10 DEF RemoveDay, Arrives
  <2> HIDE DEF q
  <2>3. Fit(q)
    BY <2>1, NoPhotosFit DEF Fit, Saves
  <2> QED
    BY <1>1, <1>10, <2>2, <2>3 DEF RemoveDay, Arrives
<1> QED
  BY <1>3, <1>4, <1>5, <1>6, <1>7, <1>8, <1>9, <1>10 DEF Begin

(* The steps after the first.                                              *)
LEMMA ContinueTyped ==
  ASSUME Typed, NEW r \in Requests, Continue(r)
  PROVE  Typed'
<1> USE DEF Typed, TypeOK
<1> DEFINE q == req[r]
<1>0. q \in Request /\ Fit(q) /\ q.seen \in Session \cup {Closed}
  BY DEF Request
<1>1. ASSUME NEW p, Fit(p), req' = [req EXCEPT ![r] = p], Continued \/ (Watched /\ UNCHANGED <<acts, scope, torn>>),
             UNCHANGED <<made, uploads>>,
             sessions' \in [Days -> Session \cup {Closed}],
             \A e \in Days : Cardinality(sessions'[e].items) <= scope'.items /\ IsFiniteSet(sessions'[e].items),
             assets' \in [Media -> Branches \cup {None}],
             form' \in [Branches -> [Days -> SUBSET Media]], saved' \in [Branches -> [Days -> SUBSET Media]]
      PROVE  Typed'
  BY <1>1, MovesFit, WatchedType
<1>2. ASSUME NEW p, Fit(p), req' = [req EXCEPT ![r] = p], Continued, UNCHANGED <<sessions, made, uploads, form, saved>>,
             assets' \in [Media -> Branches \cup {None}]
      PROVE  Typed'
  BY <1>1, <1>2 DEF Continued
<1>3. ASSUME NEW p, Fit(p), req' = [req EXCEPT ![r] = p], Continued, UNCHANGED <<assets, made, uploads, form, saved>>,
             NEW s \in Session \cup {Closed}, IsFiniteSet(s.items), Cardinality(s.items) <= scope.items,
             sessions' = [sessions EXCEPT ![req[r].d] = s]
      PROVE  Typed'
  BY <1>1, <1>3, SessionWritten DEF Continued
<1>4. ASSUME NEW step \in {"createWrite", "closeEntries", "removeDrop"}, step = "closeEntries" => ~q.write
      PROVE  Fit([q EXCEPT !.step = step])
  BY <1>0, <1>4 DEF Request, Steps, Fit, Saves
<1>5. ASSUME NEW step \in {"trays", "commit"}, q.write => Saves(q), step = "commit" => q.write
      PROVE  Fit([q EXCEPT !.step = step])
  BY <1>0, <1>5 DEF Request, Steps, Fit, Saves
<1>6. Fit(Idle)
  BY IdleFits
<1>7. CASE CreateDrop(r)
  BY <1>2, <1>4, <1>7, DroppedType DEF CreateDrop, Goes
<1>8. CASE CreateWrite(r)
  <2> DEFINE s == IF q.seen.branch = q.b THEN q.seen ELSE [Closed EXCEPT !.branch = q.b]
  <2>0. q.b \in Branches \cup {None}
    BY <1>0 DEF Request
  <2>1. [Closed EXCEPT !.branch = q.b] \in Session \cup {Closed} /\ [Closed EXCEPT !.branch = q.b].items = {}
    BY <2>0, OpenedIsSession
  <2>2. s \in Session \cup {Closed} /\ IsFiniteSet(s.items) /\ Cardinality(s.items) <= scope.items
    BY <1>0, <2>1, NoPhotosFit, ScopeType DEF Fit
  <2>4. sessions' = [sessions EXCEPT ![q.d] = s] /\ Ends(r) /\ UNCHANGED <<assets, made, uploads, form, saved>>
    BY <1>8 DEF CreateWrite
  <2> HIDE DEF s
  <2> QED
    BY <1>3, <1>6, <2>2, <2>4 DEF Ends
<1>9. CASE RegisterWrite(r)
  <2>1. PICK m \in Media : q.media = {m}
    BY <1>0, <1>9 DEF RegisterWrite, At, Fit
  <2>2. q.seen \in Session /\ IsFiniteSet(q.seen.items) /\ Cardinality(q.seen.items) < scope.items
    BY <1>0, <1>9 DEF RegisterWrite, At, Fit
  <2> DEFINE s == [q.seen EXCEPT !.items = @ \cup q.media]
  <2>3. s \in Session /\ s.items = q.seen.items \cup {m}
    BY <2>1, <2>2 DEF Session
  <2>4. IsFiniteSet(s.items) /\ Cardinality(s.items) <= scope.items
    <3>1. /\ IsFiniteSet(q.seen.items \cup {m}) /\ Cardinality(q.seen.items) \in Nat
          /\ Cardinality(q.seen.items \cup {m}) \in {Cardinality(q.seen.items), Cardinality(q.seen.items) + 1}
      BY <2>2, FS_AddElement, FS_CardinalityType
    <3>2. Cardinality(q.seen.items) < scope.items /\ scope.items \in Nat
      BY <2>2, ScopeType
    <3> HIDE DEF q, s
    <3>3. Cardinality(q.seen.items \cup {m}) <= scope.items
      BY <3>1, <3>2
    <3> QED
      BY <2>3, <3>1, <3>3
  <2>5. Ends(r) /\ UNCHANGED <<assets, made, uploads, form, saved>>
    BY <1>9 DEF RegisterWrite
  <2>6. sessions' = [sessions EXCEPT ![q.d] = s]
    BY <1>9 DEF RegisterWrite
  <2> HIDE DEF s
  <2> QED
    BY <1>3, <1>6, <2>3, <2>4, <2>5, <2>6 DEF Ends
<1>10. CASE RemoveWrite(r)
  <2> DEFINE kept == IF q.write THEN q.media ELSE {}
  <2> DEFINE s == [q.seen EXCEPT !.items = @ \ q.media, !.retained = @ \cup kept]
  <2>1. q.seen \in Session /\ IsFiniteSet(q.seen.items) /\ Cardinality(q.seen.items) <= scope.items
    BY <1>0, <1>10 DEF RemoveWrite, At, Fit
  <2>2. s \in Session /\ s.items = q.seen.items \ q.media
    BY <1>0, <2>1 DEF Session, Request
  <2>3. IsFiniteSet(s.items) /\ Cardinality(s.items) <= scope.items
    BY <2>1, <2>2, ScopeType, FS_Subset, FS_CardinalityType
  <2>4. sessions' = [sessions EXCEPT ![q.d] = s] /\ UNCHANGED <<assets, made, uploads, form, saved>>
    BY <1>10 DEF RemoveWrite
  <2>5. Ends(r) \/ Goes(r, "removeDrop")
    BY <1>10 DEF RemoveWrite
  <2> HIDE DEF s
  <2> QED
    BY <1>3, <1>4, <1>6, <2>2, <2>3, <2>4, <2>5 DEF Ends, Goes
<1>11. CASE RemoveDrop(r) \/ DiscardDrop(r)
  BY <1>2, <1>6, <1>11, DroppedType DEF RemoveDrop, DiscardDrop, Ends
<1>12. CASE CloseDelete(r)
  <2>1. ~q.write
    BY <1>0, <1>12 DEF CloseDelete, At, Fit
  <2>2. Fit([q EXCEPT !.step = "closeEntries"])
    BY <1>4, <2>1
  <2>3. /\ sessions' = [sessions EXCEPT ![q.d] = Closed] /\ UNCHANGED <<assets, made, uploads, form, saved>>
        /\ req' = [req EXCEPT ![r] = [q EXCEPT !.step = "closeEntries"]] /\ Continued
    BY <1>12 DEF CloseDelete, Goes
  <2> QED
    BY <1>3, <2>2, <2>3, ClosedIsSession, NoPhotosFit
<1>13. CASE CloseEntries(r)
  <2> DEFINE p == [q EXCEPT !.drop = Unclaimed(r), !.step = "closeDrop"]
  <2>1. Unclaimed(r) \in SUBSET Media
    BY <1>0, SessionTypes DEF Unclaimed
  <2>2. p \in Request /\ Fit(p) /\ req' = [req EXCEPT ![r] = p]
    BY <1>0, <1>13, <2>1 DEF CloseEntries, At, Request, Steps, Fit, Saves
  <2> HIDE DEF p
  <2> QED
    BY <1>2, <1>13, <2>2 DEF CloseEntries
<1>14. CASE CloseDrop(r) \/ SaveDrop(r)
  <2>1. q.write => Saves(q)
    BY <1>0, <1>14 DEF CloseDrop, SaveDrop, At, Fit, Saves
  <2>2. Fit([q EXCEPT !.step = "trays"])
    BY <1>5, <2>1
  <2>3. /\ req' = [req EXCEPT ![r] = [q EXCEPT !.step = "trays"]] /\ Continued
        /\ UNCHANGED <<sessions, made, uploads, form, saved>> /\ assets' = Dropped(q.drop, q.b)
    BY <1>14 DEF CloseDrop, SaveDrop, Goes
  <2> QED
    BY <1>2, <2>2, <2>3, DroppedType
<1>15. CASE Commit(r)
  <2>1. /\ form' \in [Branches -> [Days -> SUBSET Media]]
        /\ saved' \in [Branches -> [Days -> SUBSET Media]]
    <3>1. q.media \in SUBSET Media
      BY <1>0 DEF Request
    <3>2. /\ saved' = [saved EXCEPT ![q.b][q.d] = q.media]
          /\ form' = [form EXCEPT ![q.b][q.d] = @ \ q.media]
      BY <1>15 DEF Commit
    <3>3. q.b \in Branches /\ q.d \in Days
      BY <1>0, <1>15 DEF Commit, At, Fit, Saves
    <3>4. ASSUME NEW S \in [Branches -> [Days -> SUBSET Media]], NEW ms \in SUBSET Media
          PROVE  [S EXCEPT ![q.b][q.d] = ms] \in [Branches -> [Days -> SUBSET Media]]
      BY <3>3
    <3>5. form[q.b][q.d] \ q.media \in SUBSET Media
      BY <3>3
    <3> HIDE DEF q
    <3> QED
      BY <3>1, <3>2, <3>4, <3>5
  <2>2. UNCHANGED <<sessions, assets, made, uploads>> /\ req' = [req EXCEPT ![r] = Idle] /\ Continued
    BY <1>15 DEF Commit, Ends
  <2> QED
    BY <1>1, <1>6, <2>1, <2>2 DEF Continued
<1>16. CASE PurgeTrays(r)
  <2> DEFINE p == [q EXCEPT !.keep = @ \cup protectedMediaIds(r), !.step = "entries"]
  <2>1. protectedMediaIds(r) \in SUBSET Media
    BY SessionTypes DEF protectedMediaIds
  <2>2. p \in Request /\ Fit(p) /\ req' = [req EXCEPT ![r] = p]
    BY <1>0, <1>16, <2>1 DEF PurgeTrays, At, Request, Steps, Fit, Saves
  <2> HIDE DEF p
  <2> QED
    BY <1>2, <1>16, <2>2 DEF PurgeTrays
<1>17. CASE PurgeEntries(r)
  <2> DEFINE found == UNION {SavedOf(b) : b \in {c \in Branches : InScope(r, c)}}
  <2> DEFINE p == [q EXCEPT !.keep = @ \cup found, !.step = "orphans"]
  <2>1. found \in SUBSET Media
    BY DEF SavedOf
  <2>2. req' = [req EXCEPT ![r] = p]
    BY <1>17 DEF PurgeEntries
  <2> HIDE DEF found
  <2>3. p \in Request /\ Fit(p)
    BY <1>0, <1>17, <2>1 DEF PurgeEntries, At, Request, Steps, Fit, Saves
  <2> HIDE DEF p
  <2> QED
    BY <1>2, <1>17, <2>2, <2>3 DEF PurgeEntries
<1>18. CASE PurgeOrphans(r)
  <2>1. q.write => Saves(q)
    BY <1>18 DEF PurgeOrphans, At, Saves
  <2>2. assets' \in [Media -> Branches \cup {None}]
    BY <1>18 DEF PurgeOrphans
  <2>3. UNCHANGED <<sessions, made, uploads, form, saved>>
    BY <1>18 DEF PurgeOrphans
  <2>4. Ends(r) \/ (q.write /\ Goes(r, "commit"))
    BY <1>18 DEF PurgeOrphans
  <2> QED
    BY <1>2, <1>5, <1>6, <2>1, <2>2, <2>3, <2>4 DEF Ends, Goes
<1>19. CASE RegisterLookup(r)
  <2>1. q.step = "register" => Fit([q EXCEPT !.step = "registerWrite"])
    BY <1>0 DEF Request, Steps, Fit, Saves
  <2>2. Ends(r) \/ Goes(r, "registerWrite")
    BY <1>19 DEF RegisterLookup
  <2> QED
    BY <1>2, <1>6, <1>19, <2>1, <2>2 DEF RegisterLookup, At, Ends, Goes
<1>20. CASE DayDrop(r)
  <2>1. q.step = "dayDrop" => Fit([q EXCEPT !.step = "dayDelete"])
    BY <1>0 DEF Request, Steps, Fit, Saves
  <2> QED
    BY <1>2, <1>20, <2>1, DroppedType DEF DayDrop, At, Goes
<1>21. CASE DayDelete(r)
  <2>1. q.b \in Branches /\ q.d \in Days
    BY <1>0, <1>21 DEF DayDelete, At, Fit
  <2>2. saved' \in [Branches -> [Days -> SUBSET Media]]
    <3>1. saved' = [saved EXCEPT ![q.b][q.d] = {}]
      BY <1>21 DEF DayDelete
    <3> HIDE DEF q
    <3> QED
      BY <2>1, <3>1
  <2> QED
    BY <1>1, <1>6, <1>21, <2>2 DEF DayDelete, Watched
<1> QED
  BY <1>7, <1>8, <1>9, <1>10, <1>11, <1>12, <1>13, <1>14, <1>15, <1>16, <1>17, <1>18, <1>19, <1>20, <1>21 DEF Continue

LEMMA NextTyped ==
  ASSUME Typed, [Next]_vars
  PROVE  Typed'
<1> USE DEF Typed, TypeOK
<1> ConstantsAssumption /\ scope \in Scope /\ scope.branches \subseteq Branches /\ scope.days \subseteq Days
  BY ScopeType, ConstantsAssumption DEF Scope
<1>1. ASSUME Sent
      PROVE  UNCHANGED <<scope, torn>> /\ acts' \in 0..scope'.acts /\ steady' \in [Requests -> SUBSET Media]
  BY <1>1, ScopeType, WatchedType DEF Sent
<1>2. ASSUME UNCHANGED <<req, scope>>
      PROVE  \A r \in Requests : Fit(req[r])'
  BY <1>2 DEF Fit, Saves
<1>3. ASSUME NEW d \in scope.days, NEW m \in Media, Presign(d, m)
      PROVE  Typed'
  <2>1. sessions[d].branch \in Branches \cup {None}
    BY SessionTypes
  <2> QED
    BY <1>1, <1>2, <1>3, <2>1 DEF Presign
<1>4. ASSUME NEW b \in scope.branches, NEW d \in scope.days, NEW m \in Media, UploadOnForm(b, d, m)
      PROVE  Typed'
  BY <1>1, <1>2, <1>4 DEF UploadOnForm
<1>5. CASE UNCHANGED vars
  BY <1>2, <1>5 DEF vars
<1>6. ASSUME NEW r \in Requests, Fails(r)
      PROVE  Typed'
  <2>1. req' = [req EXCEPT ![r] = Idle] /\ Watched /\ UNCHANGED <<acts, scope>>
    BY <1>6 DEF Fails, Watch, Watched
  <2>2. torn' \in SUBSET Media
    BY <1>6, HalfDoneType DEF Fails
  <2> QED
    BY <1>6, <2>1, <2>2, IdleFits, MovesFit DEF Fails
<1> QED
  BY <1>3, <1>4, <1>5, <1>6, BeginTyped, ContinueTyped DEF Next

LEMMA InitTyped ==
  ASSUME Init
  PROVE  Typed
<1>1. Fit(Idle)
  <2>1. scope.items \in Nat
    BY ConstantsAssumption DEF Init, Scope
  <2>2. Idle \in Request /\ Idle.seen.items = {} /\ Idle.step = "idle"
    BY DEF Idle, Request, Steps, Closed
  <2> QED
    BY <2>1, <2>2, NoPhotosFit DEF Fit, Saves
<1>2. Closed.items = {} /\ scope.items \in Nat /\ scope.acts \in Nat
  BY ConstantsAssumption DEF Init, Scope, Closed
<1>3. Idle \in Request
  BY <1>1 DEF Fit
<1>4. \A d \in Days : sessions[d] = Closed
  BY DEF Init
<1>5. Cardinality({}) = 0 /\ IsFiniteSet({})
  BY FS_EmptySet
<1>6. TypeOK
  <2>1. acts \in 0..scope.acts
    BY <1>2 DEF Init
  <2>2. \A d \in Days : Cardinality(sessions[d].items) <= scope.items
    BY <1>2, <1>4, <1>5
  <2> QED
    BY <1>3, <2>1, <2>2 DEF Init, TypeOK
<1> QED
  BY <1>1, <1>2, <1>4, <1>5, <1>6 DEF Init, Typed

(* No interleaving of the requests writes a record of another shape, or    *)
(* puts one photo too many on a tray: a registration that writes back the  *)
(* session it read has counted that one.                                   *)
THEOREM TypeCorrect == Spec => []TypeOK
<1>1. Init => Typed
  BY InitTyped
<1>2. Typed /\ [Next]_vars => Typed'
  BY NextTyped
<1>3. Typed => TypeOK
  BY DEF Typed
<1> QED
  BY <1>1, <1>2, <1>3, PTL DEF Spec

-----------------------------------------------------------------------------
(* Whose media are where: what a session, a form, an entry or a request of *)
(* a branch names was handed out for that branch, or is gone.              *)
Of(m, c) == m \in made /\ assets[m] \in {None, c}

Owned(q) ==
  /\ \A m \in Contents(q.seen) : Of(m, q.seen.branch)
  /\ \A m \in q.media : m \in made /\ (q.step = "register" \/ Of(m, q.b))

Belongs ==
  /\ \A d \in Days : \A m \in Contents(sessions[d]) : Of(m, sessions[d].branch)
  /\ \A d \in Days, m \in Media : <<d, m>> \in uploads => m \in made
  /\ \A b \in Branches, d \in Days : \A m \in form[b][d] \cup saved[b][d] : Of(m, b)
  /\ \A r \in Requests : Owned(req[r])

(* The same after the step.                                                *)
OfNext(m, c) == m \in made' /\ assets'[m] \in {None, c}

OwnedNext(q) ==
  /\ \A m \in Contents(q.seen) : OfNext(m, q.seen.branch)
  /\ \A m \in q.media : m \in made' /\ (q.step = "register" \/ OfNext(m, q.b))

(* A media id is handed out once, and an asset that is gone stays gone.    *)
LEMMA AssetsFade ==
  ASSUME Typed, [Next]_vars
  PROVE  /\ \A m \in made : m \in made' /\ assets'[m] \in {assets[m], None}
         /\ \A m, c : Of(m, c) => OfNext(m, c)
<1> USE DEF Typed, TypeOK
<1>1. ASSUME NEW m \in Media, made' = made \cup {m}, m \notin made, NEW c, assets' = [assets EXCEPT ![m] = c]
      PROVE  \A n \in made : n \in made' /\ assets'[n] \in {assets[n], None}
  BY <1>1
<1>2. ASSUME NEW ms, NEW c, assets' = Dropped(ms, c), made' = made
      PROVE  \A n \in made : n \in made' /\ assets'[n] \in {assets[n], None}
  BY <1>2 DEF Dropped
<1>3. ASSUME NEW r \in Requests, PurgeOrphans(r)
      PROVE  \A n \in made : n \in made' /\ assets'[n] \in {assets[n], None}
  BY <1>3 DEF PurgeOrphans
<1>4. ASSUME UNCHANGED <<assets, made>>
      PROVE  \A n \in made : n \in made' /\ assets'[n] \in {assets[n], None}
  BY <1>4
<1>5. ASSUME NEW r \in Requests, Continue(r)
      PROVE  (\E ms, c : assets' = Dropped(ms, c) /\ made' = made) \/ PurgeOrphans(r) \/ UNCHANGED <<assets, made>>
  BY <1>5 DEF Continue, CreateDrop, CreateWrite, RegisterLookup, RegisterWrite, RemoveWrite, RemoveDrop, DiscardDrop, DayDrop, DayDelete, CloseDelete,
       CloseEntries, CloseDrop, SaveDrop, Commit, PurgeTrays, PurgeEntries
<1>6. ASSUME NEW r \in Requests, Begin(r)
      PROVE  UNCHANGED <<assets, made>>
  BY <1>6 DEF Begin, Register, Startup, Create, Close, DiscardForm, Save, RemoveDay, Remove
<1>7. \A m \in made : m \in made' /\ assets'[m] \in {assets[m], None}
  BY <1>1, <1>2, <1>3, <1>4, <1>5, <1>6 DEF Next, vars, Presign, UploadOnForm, Fails
<1> QED
  BY <1>7 DEF Of, OfNext

LEMMA NextBelongs ==
  ASSUME Typed, Belongs, [Next]_vars
  PROVE  Belongs'
<1> USE DEF Typed, TypeOK
<1> ConstantsAssumption /\ scope \in Scope /\ scope.branches \subseteq Branches /\ scope.days \subseteq Days
  BY ScopeType, ConstantsAssumption DEF Scope
<1>0. /\ \A m \in made : m \in made' /\ assets'[m] \in {assets[m], None}
      /\ \A m, c : Of(m, c) => OfNext(m, c)
  BY AssetsFade
<1>11. ASSUME \A d \in Days : \A m \in Contents(sessions'[d]) : OfNext(m, sessions'[d].branch),
             \A d \in Days, m \in Media : <<d, m>> \in uploads' => m \in made',
             \A b \in Branches, d \in Days : \A m \in form'[b][d] \cup saved'[b][d] : OfNext(m, b),
             \A r \in Requests : OwnedNext(req'[r])
      PROVE  Belongs'
  BY <1>11 DEF Belongs, Of, OfNext, Owned, OwnedNext, Contents
<1>12. \A q : Owned(q) => OwnedNext(q)
  BY <1>0 DEF Owned, OwnedNext
<1>1. \A r \in Requests : req'[r] = req[r] => OwnedNext(req'[r])
  BY <1>12 DEF Belongs
<1>2. /\ UNCHANGED sessions => \A d \in Days : \A m \in Contents(sessions'[d]) : OfNext(m, sessions'[d].branch)
      /\ \A d \in Days : sessions'[d] = sessions[d] => \A m \in Contents(sessions'[d]) : OfNext(m, sessions'[d].branch)
  BY <1>0 DEF Belongs
<1>3. UNCHANGED uploads => \A d \in Days, m \in Media : <<d, m>> \in uploads' => m \in made'
  BY <1>0 DEF Belongs
<1>4. UNCHANGED <<form, saved>> =>
        \A b \in Branches, d \in Days : \A m \in form'[b][d] \cup saved'[b][d] : OfNext(m, b)
  BY <1>0 DEF Belongs
<1>5. OwnedNext(Idle)
  BY DEF Owned, OwnedNext, Idle, Closed, Contents
<1>6. ASSUME NEW d \in scope.days, NEW m \in Media, Presign(d, m)
      PROVE  Belongs'
  <2>1. UNCHANGED <<sessions, form, saved, req>> /\ uploads' = uploads \cup {<<d, m>>} /\ m \in made'
    BY <1>6 DEF Presign
  <2>2. \A e \in Days, n \in Media : <<e, n>> \in uploads' => n \in made'
    BY <1>0, <2>1 DEF Belongs
  <2> QED
    BY <1>1, <1>2, <1>4, <1>11, <2>1, <2>2
<1>7. ASSUME NEW b \in scope.branches, NEW d \in scope.days, NEW m \in Media, UploadOnForm(b, d, m)
      PROVE  Belongs'
  <2>1. OfNext(m, b)
    BY <1>7 DEF UploadOnForm, OfNext
  <2>2. \A c \in Branches, e \in Days : \A n \in form'[c][e] \cup saved'[c][e] : OfNext(n, c)
    BY <1>0, <1>7, <2>1 DEF UploadOnForm, Belongs
  <2> QED
    BY <1>1, <1>2, <1>3, <1>7, <1>11, <2>2 DEF UploadOnForm
<1>8. ASSUME NEW r \in Requests, Begin(r)
      PROVE  Belongs'
  <2>1. UNCHANGED <<sessions, assets, made, saved>>
    BY <1>8 DEF Begin, Register, Startup, Create, Close, DiscardForm, Save, RemoveDay, Remove
  <2>2. ASSUME NEW q, Owned(q), req' = [req EXCEPT ![r] = q]
        PROVE  \A p \in Requests : OwnedNext(req'[p])
    BY <1>1, <1>12, <2>2
  <2>3. CASE \E d \in scope.days, m \in Media : Register(r, d, m)
    <3>1. PICK d \in scope.days, m \in Media : Register(r, d, m)
      BY <2>3
    <3> DEFINE q == [Idle EXCEPT !.step = "register", !.b = sessions[d].branch, !.d = d, !.media = {m}, !.seen = sessions[d]]
    <3>2. q.seen = sessions[d] /\ q.media = {m} /\ q.step = "register"
      BY DEF Idle
    <3>3. Owned(q)
      BY <3>1, <3>2 DEF Owned, OwnedNext, Belongs, Register
    <3>4. \A p \in Requests : OwnedNext(req'[p])
      BY <2>2, <3>1, <3>3 DEF Register, Arrives
    <3>5. UNCHANGED form /\ uploads' \subseteq uploads
      BY <3>1 DEF Register
    <3> QED
      BY <1>0, <1>2, <1>4, <1>11, <2>1, <3>4, <3>5 DEF Belongs
  <2>4. CASE Startup(r)
    <3> DEFINE start == [Idle EXCEPT !.step = "trays"]
    <3>1. start.seen = Closed /\ start.media = {}
      BY DEF Idle
    <3>2. OwnedNext(start) /\ UNCHANGED <<form, uploads>>
      BY <2>4, <3>1 DEF Owned, OwnedNext, Closed, Contents, Startup
    <3>3. \A p \in Requests : req'[p] = start \/ req'[p] = Idle
      BY <2>4 DEF Startup
    <3> HIDE DEF start
    <3>4. \A p \in Requests : OwnedNext(req'[p])
      BY <1>5, <3>2, <3>3 DEF Owned, OwnedNext
    <3> QED
      BY <1>2, <1>3, <1>4, <1>11, <2>1, <3>2, <3>4
  <2>5. ASSUME NEW b \in scope.branches, NEW d \in scope.days,
               Create(r, b, d) \/ Close(r, b, d) \/ DiscardForm(r, b, d) \/ \E ms \in SUBSET Media : RemoveDay(r, b, d, ms)
        PROVE  Belongs'
    <3>1. PICK q : req' = [req EXCEPT ![r] = q] /\ q.seen \in {sessions[d], Closed} /\ q.media = {}
      <4>1. CASE Create(r, b, d)
        <5> DEFINE q == [Idle EXCEPT !.b = b, !.d = d, !.seen = sessions[d],
                           !.step = IF sessions[d].branch \in {None, b} THEN "createWrite" ELSE "createDrop"]
        <5>1. q.seen = sessions[d] /\ q.media = {}
          BY DEF Idle
        <5>2. req' = [req EXCEPT ![r] = q]
          BY <4>1 DEF Create, Arrives
        <5> QED
          BY <5>1, <5>2
      <4>2. CASE Close(r, b, d)
        <5> DEFINE q == [Idle EXCEPT !.b = b, !.d = d, !.seen = sessions[d],
                           !.step = IF Open(d) THEN "closeDelete" ELSE "trays"]
        <5>1. q.seen = sessions[d] /\ q.media = {}
          BY DEF Idle
        <5>2. req' = [req EXCEPT ![r] = q]
          BY <4>2 DEF Close, Arrives
        <5> QED
          BY <5>1, <5>2
      <4>3. CASE DiscardForm(r, b, d)
        <5> DEFINE q == [Idle EXCEPT !.step = "discard", !.b = b, !.d = d, !.drop = form[b][d] \ saved[b][d]]
        <5>1. q.seen = Closed /\ q.media = {}
          BY DEF Idle
        <5>2. req' = [req EXCEPT ![r] = q]
          BY <4>3 DEF DiscardForm, Arrives
        <5> QED
          BY <5>1, <5>2
      <4>4. ASSUME NEW ms \in SUBSET Media, RemoveDay(r, b, d, ms)
            PROVE  \E q : req' = [req EXCEPT ![r] = q] /\ q.seen \in {sessions[d], Closed} /\ q.media = {}
        <5> DEFINE q == [Idle EXCEPT !.step = "dayDrop", !.b = b, !.d = d, !.drop = ms]
        <5>1. q.seen = Closed /\ q.media = {}
          BY DEF Idle
        <5>2. req' = [req EXCEPT ![r] = q]
          BY <4>4 DEF RemoveDay, Arrives
        <5> QED
          BY <5>1, <5>2
      <4> QED
        BY <2>5, <4>1, <4>2, <4>3, <4>4
    <3>4. Owned(q)
      BY <3>1 DEF Owned, Belongs, Closed, Contents
    <3>5. \A c \in Branches, e \in Days : form'[c][e] \subseteq form[c][e]
      <4>1. UNCHANGED form \/ form' = [form EXCEPT ![b][d] = {}]
        BY <2>5 DEF Create, Close, DiscardForm, RemoveDay
      <4>2. ASSUME form' = [form EXCEPT ![b][d] = {}], NEW c \in Branches, NEW e \in Days
            PROVE  form'[c][e] \subseteq form[c][e]
        <5>1. b \in Branches /\ d \in Days /\ form \in [Branches -> [Days -> SUBSET Media]]
          OBVIOUS
        <5>2. form'[c][e] = IF c = b /\ e = d THEN {} ELSE form[c][e]
          BY <4>2, <5>1
        <5> QED
          BY <5>2
      <4> QED
        BY <4>1, <4>2
    <3>6. UNCHANGED uploads
      BY <2>5 DEF Create, Close, DiscardForm, RemoveDay
    <3>7. \A p \in Requests : OwnedNext(req'[p])
      BY <2>2, <3>1, <3>4
    <3>8. \A c \in Branches, e \in Days : \A m \in form'[c][e] \cup saved'[c][e] : OfNext(m, c)
      BY <1>0, <2>1, <3>5 DEF Belongs
    <3> QED
      BY <1>2, <1>3, <1>11, <2>1, <3>6, <3>7, <3>8
  <2>6. ASSUME NEW b \in scope.branches, NEW d \in scope.days, NEW ms \in SUBSET Media, Save(r, b, d, ms)
        PROVE  Belongs'
    <3> DEFINE q == [Idle EXCEPT !.step = "saveDrop", !.b = b, !.d = d, !.media = ms, !.keep = ms,
                                 !.drop = saved[b][d] \ ms, !.write = TRUE]
    <3>1. q.seen = Closed /\ q.media = ms /\ q.b = b /\ req' = [req EXCEPT ![r] = q]
      BY <2>6 DEF Idle, Save, Arrives
    <3> HIDE DEF q
    <3>2. Owned(q)
      <4>1. \A m \in ms : Of(m, b)
        BY <2>6 DEF Save, Belongs
      <4> QED
        BY <3>1, <4>1 DEF Owned, Of, Closed, Contents
    <3>3. \A p \in Requests : OwnedNext(req'[p])
      BY <2>2, <3>1, <3>2
    <3> QED
      BY <1>2, <1>3, <1>4, <1>11, <2>6, <3>3 DEF Save
  <2>7. ASSUME NEW b \in scope.branches, NEW d \in scope.days, NEW m \in Media, NEW keepMedia \in BOOLEAN,
               Remove(r, b, d, m, keepMedia)
        PROVE  Belongs'
    <3> DEFINE q == [Idle EXCEPT !.step = "remove", !.b = b, !.d = d, !.media = {m},
                                 !.seen = sessions[d], !.write = keepMedia]
    <3>1. q.seen = sessions[d] /\ q.media = {m} /\ q.b = b /\ req' = [req EXCEPT ![r] = q]
      BY <2>7 DEF Idle, Remove, Arrives
    <3> HIDE DEF q
    <3>2. m \in Contents(sessions[d]) /\ Of(m, b)
      BY <2>7 DEF Remove, Belongs, Contents
    <3>3. Owned(q)
      BY <3>1, <3>2 DEF Owned, Of, Belongs
    <3>4. \A p \in Requests : OwnedNext(req'[p])
      BY <2>2, <3>1, <3>3
    <3>5. \A c \in Branches, e \in Days : \A n \in form'[c][e] \cup saved'[c][e] : OfNext(n, c)
      BY <1>0, <2>7, <3>2 DEF Remove, Belongs
    <3> QED
      BY <1>2, <1>3, <1>11, <2>7, <3>4, <3>5 DEF Remove
  <2> QED
    BY <1>8, <2>3, <2>4, <2>5, <2>6, <2>7 DEF Begin
<1>9. ASSUME NEW r \in Requests, Continue(r)
      PROVE  Belongs'
  <2> DEFINE q == req[r]
  <2>0. q \in Request /\ Fit(q) /\ Owned(q) /\ UNCHANGED uploads
    BY <1>9 DEF Belongs, Continue, CreateDrop, CreateWrite, RegisterLookup, RegisterWrite, RemoveWrite, RemoveDrop, DiscardDrop, DayDrop, DayDelete,
         CloseDelete, CloseEntries, CloseDrop, SaveDrop, Commit, PurgeTrays, PurgeEntries, PurgeOrphans
  <2>1. \A p \in Requests \ {r} : OwnedNext(req'[p])
    <3>1. \A p \in Requests \ {r} : req'[p] = req[p]
      BY <1>9 DEF Continue, CreateDrop, CreateWrite, RegisterLookup, RegisterWrite, RemoveWrite, RemoveDrop, DiscardDrop, DayDrop, DayDelete,
           CloseDelete, CloseEntries, CloseDrop, SaveDrop, Commit, PurgeTrays, PurgeEntries, PurgeOrphans, Ends, Goes
    <3> QED
      BY <1>1, <3>1 DEF Belongs
  <2>2. OwnedNext(req'[r])
    <3>4. CASE RegisterLookup(r) /\ Goes(r, "registerWrite")
      <4>1. \A m \in q.media : Of(m, q.b)
        <5>1. q.step = "register" /\ \A m \in q.media : assets[m] = q.seen.branch
          <6>1. ~Ends(r)
            BY <2>0, <3>4 DEF Ends, Goes, Idle, Request
          <6> QED
            BY <3>4, <6>1 DEF RegisterLookup, At
        <5> QED
          BY <2>0, <5>1 DEF Owned, Of, Fit
      <4>2. req'[r].seen = q.seen /\ req'[r].media = q.media /\ req'[r].b = q.b
        BY <2>0, <3>4 DEF Goes, Request
      <4> QED
        BY <1>0, <2>0, <4>1, <4>2 DEF Owned, OwnedNext, OfNext
    <3>1. CASE req' = [req EXCEPT ![r] = Idle]
      BY <1>5, <3>1 DEF Owned, OwnedNext
    <3>2. ASSUME req'[r].seen = q.seen, req'[r].media = q.media, req'[r].b = q.b, q.step # "register"
          PROVE  OwnedNext(req'[r])
      BY <1>0, <2>0, <3>2 DEF Owned, OwnedNext
    <3>3. req' = [req EXCEPT ![r] = Idle] \/ (RegisterLookup(r) /\ Goes(r, "registerWrite")) \/
            (req'[r].seen = q.seen /\ req'[r].media = q.media /\ req'[r].b = q.b /\ q.step # "register")
      BY <1>9, <2>0 DEF Continue, CreateDrop, CreateWrite, RegisterLookup, RegisterWrite, RemoveWrite, RemoveDrop, DiscardDrop, DayDrop, DayDelete,
           CloseDelete, CloseEntries, CloseDrop, SaveDrop, Commit, PurgeTrays, PurgeEntries, PurgeOrphans, Ends, Goes,
           At, Request
    <3> QED
      BY <3>1, <3>2, <3>3, <3>4
  <2>3. \A d \in Days : \A m \in Contents(sessions'[d]) : OfNext(m, sessions'[d].branch)
    <3>1. CASE UNCHANGED sessions
      BY <1>2, <3>1
    <3>2. ASSUME NEW s, sessions' = [sessions EXCEPT ![q.d] = s], \A m \in Contents(s) : OfNext(m, s.branch)
          PROVE  \A d \in Days : \A m \in Contents(sessions'[d]) : OfNext(m, sessions'[d].branch)
      <4>1. \A d \in Days : sessions'[d] = s \/ sessions'[d] = sessions[d]
        BY <3>2
      <4> QED
        BY <1>2, <3>2, <4>1 DEF Of
    <3>3. CASE CreateWrite(r)
      <4>1. q.b \in Branches \cup {None}
        BY <2>0 DEF Request
      <4> DEFINE s == IF q.seen.branch = q.b THEN q.seen ELSE [Closed EXCEPT !.branch = q.b]
      <4>2. Contents(s) = {} \/ s = q.seen
        BY <4>1, OpenedIsSession DEF Contents
      <4>3. \A m \in Contents(s) : OfNext(m, s.branch)
        BY <1>0, <2>0, <4>2 DEF Owned, OwnedNext
      <4>4. sessions' = [sessions EXCEPT ![q.d] = s]
        BY <3>3 DEF CreateWrite
      <4> HIDE DEF s
      <4> QED
        BY <3>2, <4>3, <4>4
    <3>4. CASE RegisterWrite(r)
      <4> DEFINE s == [q.seen EXCEPT !.items = @ \cup q.media]
      <4>1. sessions' = [sessions EXCEPT ![q.d] = s]
        BY <3>4 DEF RegisterWrite
      <4>2. q.seen \in Session /\ q.seen.branch = q.b /\ q.step # "register"
        BY <2>0, <3>4 DEF RegisterWrite, At, Fit
      <4>3. Contents(s) = Contents(q.seen) \cup q.media /\ s.branch = q.seen.branch
        BY <4>2 DEF Session, Contents
      <4>4. \A m \in Contents(s) : OfNext(m, s.branch)
        BY <1>0, <2>0, <4>2, <4>3 DEF Owned, OwnedNext
      <4> HIDE DEF s
      <4> QED
        BY <3>2, <4>1, <4>4
    <3>5. CASE RemoveWrite(r)
      <4> DEFINE kept == IF q.write THEN q.media ELSE {}
      <4> DEFINE s == [q.seen EXCEPT !.items = @ \ q.media, !.retained = @ \cup kept]
      <4>1. sessions' = [sessions EXCEPT ![q.d] = s]
        BY <3>5 DEF RemoveWrite
      <4>2. q.seen \in Session /\ q.seen.branch = q.b /\ q.step = "remove"
        BY <2>0, <3>5 DEF RemoveWrite, At, Fit
      <4>3. Contents(s) \subseteq Contents(q.seen) \cup q.media /\ s.branch = q.seen.branch
        BY <4>2 DEF Session, Contents
      <4>4. \A m \in Contents(s) : OfNext(m, s.branch)
        BY <1>0, <2>0, <4>2, <4>3 DEF Owned, OwnedNext
      <4> HIDE DEF s
      <4> QED
        BY <3>2, <4>1, <4>4
    <3>6. CASE CloseDelete(r)
      <4>1. Contents(Closed) = {}
        BY DEF Closed, Contents
      <4> QED
        BY <3>2, <3>6, <4>1 DEF CloseDelete
    <3> QED
      BY <1>9, <3>1, <3>3, <3>4, <3>5, <3>6
         DEF Continue, CreateDrop, RegisterLookup, RemoveDrop, DiscardDrop, CloseEntries, CloseDrop, SaveDrop, Commit,
             DayDrop, DayDelete, PurgeTrays, PurgeEntries, PurgeOrphans
  <2>4. \A b \in Branches, d \in Days : \A m \in form'[b][d] \cup saved'[b][d] : OfNext(m, b)
    <3>1. CASE UNCHANGED <<form, saved>>
      BY <1>4, <3>1
    <3>2. CASE Commit(r)
      <4>1. q.b \in Branches /\ q.d \in Days /\ \A m \in q.media : Of(m, q.b)
        BY <2>0, <3>2 DEF Commit, At, Fit, Saves, Owned, OwnedNext
      <4>2. /\ saved' = [saved EXCEPT ![q.b][q.d] = q.media]
            /\ form' = [form EXCEPT ![q.b][q.d] = @ \ q.media]
        BY <3>2 DEF Commit
      <4>3. \A b \in Branches, d \in Days :
              /\ form'[b][d] \subseteq form[b][d]
              /\ saved'[b][d] = saved[b][d] \/ (b = q.b /\ saved'[b][d] = q.media)
        BY <4>1, <4>2
      <4> QED
        BY <1>0, <4>1, <4>3 DEF Belongs
    <3>3. CASE DayDelete(r)
      <4>1. q.b \in Branches /\ q.d \in Days
        BY <2>0, <3>3 DEF DayDelete, At, Fit
      <4>2. saved' = [saved EXCEPT ![q.b][q.d] = {}] /\ UNCHANGED form
        BY <3>3 DEF DayDelete
      <4>3. \A b \in Branches, d \in Days : saved'[b][d] \subseteq saved[b][d]
        BY <4>1, <4>2
      <4> QED
        BY <1>0, <4>2, <4>3 DEF Belongs
    <3> QED
      BY <1>9, <3>1, <3>2, <3>3
         DEF Continue, CreateDrop, CreateWrite, RegisterLookup, RegisterWrite, DayDrop, RemoveWrite, RemoveDrop, DiscardDrop, CloseDelete,
             CloseEntries, CloseDrop, SaveDrop, PurgeTrays, PurgeEntries, PurgeOrphans
  <2> QED
    BY <1>3, <1>11, <2>0, <2>1, <2>2, <2>3, <2>4
<1>10. CASE UNCHANGED vars
  BY <1>1, <1>2, <1>3, <1>4, <1>11, <1>10 DEF vars
<1>13. ASSUME NEW r \in Requests, Fails(r)
       PROVE  Belongs'
  <2>1. \A p \in Requests : OwnedNext(req'[p])
    BY <1>1, <1>5, <1>13 DEF Fails, Owned, OwnedNext
  <2> QED
    BY <1>2, <1>3, <1>4, <1>11, <1>13, <2>1 DEF Fails
<1> QED
  BY <1>6, <1>7, <1>8, <1>9, <1>10, <1>13 DEF Next

THEOREM MediaBelong == Spec => [](Typed /\ Belongs)
<1>1. Init => Typed
  BY InitTyped
<1>2. Init => Belongs
  BY DEF Init, Belongs, Owned, Contents, Closed, Idle
<1>3. Typed /\ Belongs /\ [Next]_vars => Typed' /\ Belongs'
  BY NextTyped, NextBelongs
<1> QED
  BY <1>1, <1>2, <1>3, PTL DEF Spec

-----------------------------------------------------------------------------
(* What a purge spares.  At most two requests are in flight; what a save   *)
(* takes off its entry is deleted before the entry is replaced.            *)
Two == \A p, q, r \in Requests : req[p] # Idle /\ req[q] # Idle /\ req[r] # Idle => p = q \/ q = r \/ p = r

Replaces(q) ==
  Saves(req[q]) => \A m \in saved[req[q].b][req[q].d] \ req[q].media :
                     IF At(q, "saveDrop") THEN m \in req[q].drop ELSE assets[m] = None

Safe(r, m) == m \in req[r].keep \/ assets[m] = None \/ ~InScope(r, assets[m])

Listed(r, m) == \E c \in Branches, d \in Days : InScope(r, c) /\ m \in saved[c][d]

(* Between the trays and the entries: what was held all along is spared or *)
(* still to be found on an entry; and when a session holds what is neither,*)
(* no save can take that off its entry while it exists.                    *)
EntriesSpare(r) ==
  At(r, "entries") =>
    /\ \A m \in steady[r] \cap Held : Safe(r, m) \/ Listed(r, m)
    /\ (\E d \in Days : \E m \in Contents(sessions[d]) : ~Safe(r, m)) => \A q \in Requests \ {r} : Replaces(q)

OrphansSpare(r) == At(r, "orphans") => \A m \in steady[r] \cap Held : Safe(r, m)

Sparing ==
  scope.flight <= 2 => Two /\ \A r \in Requests : EntriesSpare(r) /\ OrphansSpare(r)

(* Every request in flight is at a step.                                   *)
LEMMA ContinuesOne ==
  ASSUME NEW p \in Requests, Continue(p), Typed
  PROVE  /\ req[p] # Idle /\ \A q \in Requests \ {p} : req'[q] = req[q]
         /\ UNCHANGED <<scope, uploads>> /\ Watched
<1>1. Idle.step = "idle"
  BY DEF Idle
<1>2. req[p] # Idle
  BY <1>1 DEF Continue, CreateDrop, CreateWrite, RegisterLookup, RegisterWrite, RemoveWrite, RemoveDrop, DiscardDrop, DayDrop, DayDelete,
       CloseDelete, CloseEntries, CloseDrop, SaveDrop, Commit, PurgeTrays, PurgeEntries, PurgeOrphans, At
<1> QED
  BY <1>2 DEF Continue, CreateDrop, CreateWrite, RegisterLookup, RegisterWrite, RemoveWrite, RemoveDrop, DiscardDrop, DayDrop, DayDelete, Continued,
       CloseDelete, CloseEntries, CloseDrop, SaveDrop, Commit, PurgeTrays, PurgeEntries, PurgeOrphans, Ends, Goes,
       Typed, TypeOK, Watch, Watched

LEMMA FailsOne ==
  ASSUME NEW p \in Requests, Fails(p), Typed
  PROVE  /\ req[p] # Idle /\ req'[p] = Idle /\ \A q \in Requests \ {p} : req'[q] = req[q]
         /\ UNCHANGED <<scope, sessions, assets, made, uploads, form, saved>> /\ Watched
  BY DEF Fails, Typed, TypeOK, Watch, Watched

(* How a request begins.                                                   *)
Beginning(q) ==
  /\ q.step \in {"createDrop", "createWrite", "register", "remove", "discard", "closeDelete", "trays", "saveDrop", "dayDrop"}
  /\ Saves(q) => q.step = "saveDrop" /\ q.drop = saved[q.b][q.d] \ q.media

LEMMA BeginsOne ==
  ASSUME Typed, NEW p \in Requests, Begin(p)
  PROVE  /\ UNCHANGED <<scope, sessions, assets, made, saved>> /\ Watched
         /\ \/ Startup(p)
            \/ \E q : Beginning(q) /\ Arrives(p, q)
<1>1. UNCHANGED <<sessions, assets, made, saved>>
  BY DEF Begin, Register, Startup, Create, Close, DiscardForm, Save, RemoveDay, Remove
<1> USE DEF Beginning, Idle, Saves
<1>2. ASSUME NEW d \in scope.days, NEW m \in Media, Register(p, d, m)
      PROVE  \E q : Beginning(q) /\ Arrives(p, q)
  BY <1>2 DEF Register
<1>3. ASSUME NEW b \in scope.branches, NEW d \in scope.days, Create(p, b, d)
      PROVE  \E q : Beginning(q) /\ Arrives(p, q)
  BY <1>3 DEF Create
<1>4. ASSUME NEW b \in scope.branches, NEW d \in scope.days, Close(p, b, d)
      PROVE  \E q : Beginning(q) /\ Arrives(p, q)
  BY <1>4 DEF Close
<1>5. ASSUME NEW b \in scope.branches, NEW d \in scope.days, DiscardForm(p, b, d)
      PROVE  \E q : Beginning(q) /\ Arrives(p, q)
  BY <1>5 DEF DiscardForm
<1>6. ASSUME NEW b \in scope.branches, NEW d \in scope.days, NEW ms \in SUBSET Media, Save(p, b, d, ms)
      PROVE  \E q : Beginning(q) /\ Arrives(p, q)
  BY <1>6 DEF Save
<1>7. ASSUME NEW b \in scope.branches, NEW d \in scope.days, NEW m \in Media, NEW keepMedia \in BOOLEAN,
             Remove(p, b, d, m, keepMedia)
      PROVE  \E q : Beginning(q) /\ Arrives(p, q)
  BY <1>7 DEF Remove
<1>10. ASSUME NEW b \in scope.branches, NEW d \in scope.days, NEW ms \in SUBSET Media, RemoveDay(p, b, d, ms)
       PROVE  \E q : Beginning(q) /\ Arrives(p, q)
  BY <1>10 DEF RemoveDay
<1>8. Startup(p) \/ \E q : Beginning(q) /\ Arrives(p, q)
  BY <1>2, <1>3, <1>4, <1>5, <1>6, <1>7, <1>10 DEF Begin
<1>9. UNCHANGED scope /\ Watched
  BY <1>8, WatchedType DEF Startup, Arrives, Watch, Watched
<1> QED
  BY <1>1, <1>8, <1>9

(* A request that may begin finds at most one in flight.                   *)
LEMMA FindsOne ==
  ASSUME Typed, Two, scope.flight <= 2, NEW r \in Requests, NEW record, Arrives(r, record),
         NEW p \in Requests, NEW q \in Requests, req[p] # Idle, req[q] # Idle
  PROVE  p = q
<1> DEFINE busy == {x \in Requests : req[x] # Idle}
<1>1. Cardinality(busy) < scope.flight /\ scope.flight \in Nat
  BY ScopeType DEF Arrives, Typed, Scope
<1> SUFFICES ASSUME p # q
             PROVE  FALSE
  OBVIOUS
<1>2. busy = {p, q}
  BY DEF Two
<1>3. IsFiniteSet({q}) /\ Cardinality({q}) = 1
  BY FS_Singleton
<1>4. Cardinality({q} \cup {p}) = Cardinality({q}) + 1
  BY <1>3, FS_AddElement
<1>5. Cardinality({p, q}) = 2
  <2>1. {q} \cup {p} = {p, q}
    OBVIOUS
  <2> QED
    BY <1>3, <1>4, <2>1
<1> QED
  BY <1>1, <1>2, <1>5

LEMMA NextTwo ==
  ASSUME Typed, Two, scope.flight <= 2, [Next]_vars
  PROVE  Two'
<1> USE DEF Typed, TypeOK
<1>1. ASSUME NEW r \in Requests, Continue(r)
      PROVE  Two'
  BY <1>1, ContinuesOne DEF Two
<1>2. ASSUME NEW r \in Requests, Startup(r)
      PROVE  Two'
  BY <1>2 DEF Two, Startup
<1>3. ASSUME NEW r \in Requests, NEW q, Arrives(r, q)
      PROVE  Two'
  <2>1. \A x, y \in Requests : req[x] # Idle /\ req[y] # Idle => x = y
    BY <1>3, FindsOne
  <2>2. \A x \in Requests \ {r} : req'[x] = req[x]
    BY <1>3 DEF Arrives
  <2> QED
    BY <2>1, <2>2 DEF Two
<1>4. CASE UNCHANGED req
  BY <1>4 DEF Two
<1>5. ASSUME NEW r \in Requests, Fails(r)
      PROVE  Two'
  BY <1>5, FailsOne DEF Two
<1> QED
  BY <1>1, <1>2, <1>3, <1>4, <1>5, BeginsOne DEF Next, vars, Presign, UploadOnForm

LEMMA HeldIs ==
  /\ \A m : m \in Held <=> (\E d \in Days : m \in Contents(sessions[d]))
                           \/ \E b \in Branches, d \in Days : m \in saved[b][d]
  /\ \A m : m \in Held' <=> (\E d \in Days : m \in Contents(sessions'[d]))
                            \/ \E b \in Branches, d \in Days : m \in saved'[b][d]
<1>1. \A m : m \in Held <=> (\E d \in Days : m \in Contents(sessions[d]))
                           \/ \E b \in Branches, d \in Days : m \in saved[b][d]
  BY DEF Held, Contents
<1>2. \A m : m \in Held' <=> (\E d \in Days : m \in Contents(sessions'[d]))
                            \/ \E b \in Branches, d \in Days : m \in saved'[b][d]
  BY DEF Held, Contents
<1> QED
  BY <1>1, <1>2

LEMMA SafeStays ==
  ASSUME Typed, Belongs, [Next]_vars, NEW r \in Requests, req'[r] = req[r], NEW m \in made, Safe(r, m)
  PROVE  Safe(r, m)'
<1>1. assets'[m] \in {assets[m], None}
  BY AssetsFade
<1> QED
  BY <1>1 DEF Safe, InScope

(* What an entry refers to or a session holds, outside a purge's branches, *)
(* is safe from it.                                                        *)
LEMMA ElsewhereSafe ==
  ASSUME Typed, Belongs, NEW r \in Requests
  PROVE  /\ \A d \in Days : ~InScope(r, sessions[d].branch) => \A m \in Contents(sessions[d]) : Safe(r, m)
         /\ \A c \in Branches, d \in Days : ~InScope(r, c) => \A m \in saved[c][d] : Safe(r, m)
  BY DEF Belongs, Of, Safe

LEMMA IdleSavesNot == ~Saves(Idle)
  BY DEF Idle, Saves

(* With a request r that does not move, the others' saves stay in order.   *)
LEMMA ReplacesStays ==
  ASSUME Typed, Belongs, Two, [Next]_vars, NEW r \in Requests, req[r] # Idle, req'[r] = req[r], ~At(r, "trays"),
         NEW q \in Requests \ {r}, Replaces(q)
  PROVE  Replaces(q)'
<1> USE DEF Typed, TypeOK
<1>1. \A m : m \in made => m \in made' /\ assets'[m] \in {assets[m], None}
  BY AssetsFade
<1>2. \A b \in Branches, d \in Days : \A m \in saved[b][d] : m \in made /\ assets[m] \in {None, b}
  BY DEF Belongs, Of
<1>3. Fit(req[q])
  OBVIOUS
<1>4. CASE req'[q] = req[q] /\ UNCHANGED saved
  BY <1>1, <1>2, <1>3, <1>4 DEF Replaces, Saves, At, Fit
<1>5. ASSUME NEW p \in Requests, Begin(p), ~UNCHANGED req
      PROVE  Replaces(q)'
  <2>1. ~Startup(p)
    <3>1. Startup(p) => req'[r] \in {Idle, [Idle EXCEPT !.step = "trays"]}
      BY DEF Startup
    <3>2. [Idle EXCEPT !.step = "trays"].step = "trays"
      BY DEF Idle
    <3> QED
      BY <3>1, <3>2 DEF At
  <2>2. PICK x : Beginning(x) /\ Arrives(p, x)
    BY <1>5, <2>1, BeginsOne
  <2>3. req' = [req EXCEPT ![p] = x] /\ UNCHANGED <<assets, saved>>
    BY <1>5, <2>2, BeginsOne DEF Arrives
  <2>4. CASE p = q
    <3>1. req'[q] = x
      BY <2>3, <2>4
    <3> QED
      BY <2>2, <2>3, <3>1 DEF Beginning, Replaces, At
  <2>5. CASE p # q
    BY <1>4, <2>3, <2>5
  <2> QED
    BY <2>4, <2>5
<1>6. ASSUME NEW p \in Requests, Continue(p), Saves(req'[q])
      PROVE  Replaces(q)'
  <2>1. p # r => p = q \/ req[q] = Idle
    BY <1>6, ContinuesOne DEF Two
  <2>2. CASE p = q
    <3>1. Commit(q) \/ DayDelete(q) => ~Saves(req'[q])
      BY DEF Commit, DayDelete, Ends, Saves, Idle
    <3>2. UNCHANGED saved
      BY <1>6, <2>2, <3>1
         DEF Continue, CreateDrop, CreateWrite, RegisterLookup, RegisterWrite, RemoveWrite, RemoveDrop, DiscardDrop, DayDrop, DayDelete, CloseDelete,
             CloseEntries, CloseDrop, SaveDrop, PurgeTrays, PurgeEntries, PurgeOrphans
    <3>3. /\ req'[q].b = req[q].b /\ req'[q].d = req[q].d /\ req'[q].media = req[q].media
          /\ req'[q].step # "saveDrop" /\ Saves(req[q])
      <4>1. req[q] \in Request /\ (req[q].step = "closeDrop" => ~req[q].write)
        BY <1>3 DEF Fit
      <4>2. ~Saves(Idle)
        BY DEF Idle, Saves
      <4>3. Saves(req'[q]) /\ q \in Requests
        BY <1>6
      <4>4. ASSUME NEW step, req' = [req EXCEPT ![q].step = step]
            PROVE  /\ req'[q].b = req[q].b /\ req'[q].d = req[q].d /\ req'[q].media = req[q].media
                   /\ req'[q].write = req[q].write /\ req'[q].step = step
        BY <4>1, <4>4 DEF Request
      <4>5. req' # [req EXCEPT ![q] = Idle]
        BY <4>2, <4>3
      <4>6. \/ CreateDrop(q) \/ RegisterLookup(q) \/ DayDrop(q) \/ CloseDelete(q) \/ CloseDrop(q) \/ SaveDrop(q)
            \/ RemoveWrite(q) \/ PurgeOrphans(q) \/ CloseEntries(q) \/ PurgeTrays(q) \/ PurgeEntries(q)
        BY <1>6, <2>2, <4>5
           DEF Continue, CreateWrite, RegisterWrite, RemoveDrop, DiscardDrop, Commit, DayDelete, Ends
      <4>7. CASE CreateDrop(q) \/ CloseDelete(q) \/ RegisterLookup(q) \/ DayDrop(q)
        <5>1. \E step \in {"createWrite", "closeEntries", "registerWrite", "dayDelete"} : req' = [req EXCEPT ![q].step = step]
          BY <4>5, <4>7 DEF CreateDrop, CloseDelete, RegisterLookup, DayDrop, Goes, Ends
        <5>2. req'[q].step \in {"createWrite", "closeEntries", "registerWrite", "dayDelete"}
          BY <4>1, <5>1 DEF Request
        <5> QED
          BY <4>3, <5>2 DEF Saves
      <4>8. CASE CloseDrop(q) \/ SaveDrop(q)
        BY <4>1, <4>3, <4>4, <4>8 DEF CloseDrop, SaveDrop, Goes, At, Saves
      <4>9. CASE RemoveWrite(q) \/ PurgeOrphans(q)
        BY <4>3, <4>4, <4>5, <4>9 DEF RemoveWrite, PurgeOrphans, Goes, At, Saves, Ends
      <4>10. CASE CloseEntries(q) \/ PurgeTrays(q) \/ PurgeEntries(q)
        BY <4>1, <4>3, <4>10 DEF CloseEntries, PurgeTrays, PurgeEntries, At, Saves, Request
      <4> QED
        BY <4>6, <4>7, <4>8, <4>9, <4>10
    <3>4. req[q].b \in Branches /\ req[q].d \in Days
      BY <1>3, <3>3 DEF Fit
    <3>5. ASSUME NEW m \in saved[req[q].b][req[q].d] \ req[q].media
          PROVE  assets'[m] = None
      <4>1. m \in made /\ m \in Media /\ assets[m] \in {None, req[q].b} /\ assets'[m] \in {assets[m], None}
        BY <1>1, <1>2, <3>4, <3>5
      <4>2. CASE At(q, "saveDrop")
        <5>1. SaveDrop(q)
          BY <1>6, <2>2, <4>2
             DEF Continue, CreateDrop, CreateWrite, RegisterLookup, RegisterWrite, RemoveWrite, RemoveDrop, DiscardDrop, DayDrop, DayDelete, CloseDelete,
                 CloseEntries, CloseDrop, Commit, PurgeTrays, PurgeEntries, PurgeOrphans, At
        <5>2. m \in req[q].drop
          BY <3>3, <3>5, <4>2 DEF Replaces
        <5> QED
          BY <4>1, <5>1, <5>2 DEF SaveDrop, Dropped
      <4>3. CASE ~At(q, "saveDrop")
        BY <3>3, <3>5, <4>1, <4>3 DEF Replaces
      <4> QED
        BY <4>2, <4>3
    <3> QED
      BY <3>2, <3>3, <3>5 DEF Replaces, At
  <2>3. CASE req[q] = Idle /\ p # q
    BY <1>6, <2>3, ContinuesOne DEF Saves, Idle
  <2>4. CASE p = r
    <3>1. ~Commit(r) /\ ~DayDelete(r)
      <4>1. Commit(r) \/ DayDelete(r) => req[r].step \in {"commit", "dayDelete"} /\ req'[r] = Idle
        BY DEF Commit, DayDelete, At, Ends
      <4> QED
        BY <4>1 DEF Idle
    <3>2. UNCHANGED saved
      BY <1>6, <2>4, <3>1
         DEF Continue, CreateDrop, CreateWrite, RegisterLookup, RegisterWrite, RemoveWrite, RemoveDrop, DiscardDrop, DayDrop, DayDelete, CloseDelete,
             CloseEntries, CloseDrop, SaveDrop, PurgeTrays, PurgeEntries, PurgeOrphans
    <3> QED
      BY <1>4, <1>6, <2>4, <3>2, ContinuesOne
  <2> QED
    BY <2>1, <2>2, <2>3, <2>4
<1>7. ASSUME NEW p \in Requests, Continue(p), ~Saves(req'[q])
      PROVE  Replaces(q)'
  BY <1>7 DEF Replaces
<1>9. ASSUME NEW p \in Requests, Fails(p)
      PROVE  Replaces(q)'
  <2>1. CASE p = q
    BY <1>9, <2>1, FailsOne, IdleSavesNot DEF Replaces
  <2>2. CASE p # q
    BY <1>4, <1>9, <2>2, FailsOne
  <2> QED
    BY <2>1, <2>2
<1>8. CASE UNCHANGED req /\ ~\E p \in Requests : Continue(p)
  <2>1. UNCHANGED saved
    BY <1>8, BeginsOne, FailsOne DEF Next, vars, Presign, UploadOnForm
  <2> QED
    BY <1>4, <1>8, <2>1
<1> QED
  BY <1>5, <1>6, <1>7, <1>8, <1>9 DEF Next, vars, Presign, UploadOnForm

LEMMA WatchedHeld ==
  ASSUME Typed, [Next]_vars, NEW r \in Requests, req[r].step \in {"entries", "orphans"}
  PROVE  steady'[r] \cap Held' \subseteq steady[r] \cap Held
<1>1. ASSUME NEW ms, WatchAllBut(ms)
      PROVE  steady'[r] \cap Held' \subseteq steady[r] \cap Held
  BY <1>1 DEF WatchAllBut
<1>2. CASE UNCHANGED vars
  BY <1>2 DEF vars, Held
<1>3. UNCHANGED vars \/ Watched
  BY BeginsOne, ContinuesOne, FailsOne, WatchedType DEF Next, Presign, UploadOnForm
<1> QED
  BY <1>1, <1>2, <1>3 DEF Watched

(* A step that writes a session leaves no save in flight beside a purge.   *)
LEMMA SessionsKept ==
  ASSUME Typed, Two, [Next]_vars, NEW r \in Requests, req[r] # Idle, req'[r] = req[r], req[r].step \in {"entries", "orphans"},
         NEW q \in Requests \ {r}, Saves(req'[q])
  PROVE  UNCHANGED sessions
<1> USE DEF Typed, TypeOK
<1>1. ASSUME NEW p \in Requests, Continue(p)
      PROVE  UNCHANGED sessions
  <2>1. p = q \/ p = r \/ req'[q] = Idle
    BY <1>1, ContinuesOne DEF Two
  <2>2. req'[q] # Idle
    BY DEF Saves, Idle
  <2>3. CASE p = r
    BY <1>1, <2>3 DEF Continue, CreateDrop, CreateWrite, RegisterLookup, RegisterWrite, RemoveWrite, RemoveDrop, DiscardDrop, DayDrop, DayDelete,
         CloseDelete, CloseEntries, CloseDrop, SaveDrop, Commit, PurgeTrays, PurgeEntries, PurgeOrphans, At
  <2>4. CASE p = q
    <3>1. ~Ends(q)
      BY <2>2 DEF Ends
    <3>2. ~CreateWrite(q) /\ ~RegisterWrite(q)
      BY <3>1 DEF CreateWrite, RegisterWrite
    <3>3. ASSUME NEW step, Goes(q, step)
          PROVE  req'[q].step = step
      BY <3>3 DEF Goes, Request
    <3>4. RemoveWrite(q) \/ CloseDelete(q) => req'[q].step \in {"removeDrop", "closeEntries"}
      <4>1. RemoveWrite(q) \/ CloseDelete(q) => Goes(q, "removeDrop") \/ Goes(q, "closeEntries")
        BY <3>1 DEF RemoveWrite, CloseDelete
      <4> QED
        BY <3>3, <4>1
    <3> QED
      BY <1>1, <2>4, <3>2, <3>4 DEF Saves, Continue, CreateDrop, RemoveDrop, DiscardDrop,
           CloseEntries, CloseDrop, SaveDrop, Commit, RegisterLookup, DayDrop, DayDelete, PurgeTrays, PurgeEntries, PurgeOrphans
  <2> QED
    BY <2>1, <2>2, <2>3, <2>4
<1> QED
  BY <1>1, BeginsOne, FailsOne DEF Next, vars, Presign, UploadOnForm

(* Only a save's commit, or its day's deletion, takes media off an entry.  *)
LEMMA EntriesKept ==
  ASSUME Typed, [Next]_vars, NEW c \in Branches, NEW d \in Days, NEW m \in saved[c][d], m \notin saved'[c][d]
  PROVE  \/ \E q \in Requests : Commit(q) /\ req[q].b = c /\ req[q].d = d /\ m \notin req[q].media
         \/ \E q \in Requests : DayDelete(q) /\ req[q].b = c /\ req[q].d = d
<1> USE DEF Typed, TypeOK
<1>1. ~UNCHANGED saved
  OBVIOUS
<1>2. PICK q \in Requests : Commit(q) \/ DayDelete(q)
  BY <1>1, BeginsOne, FailsOne DEF Next, vars, Presign, UploadOnForm, Continue, CreateDrop, CreateWrite, RegisterLookup, RegisterWrite, RemoveWrite,
       RemoveDrop, DiscardDrop, DayDrop, CloseDelete, CloseEntries, CloseDrop, SaveDrop, PurgeTrays, PurgeEntries, PurgeOrphans
<1>3. saved' = [saved EXCEPT ![req[q].b][req[q].d] = IF Commit(q) THEN req[q].media ELSE {}]
  BY <1>2 DEF Commit, DayDelete
<1> QED
  BY <1>2, <1>3

LEMMA HeldMade ==
  ASSUME Belongs
  PROVE  \A m \in Held : m \in made
  BY HeldIs DEF Belongs, Of

(* A purge between the trays and the entries, while another request moves. *)
LEMMA EntriesStay ==
  ASSUME Typed, Belongs, Two, [Next]_vars, NEW r \in Requests, At(r, "entries"), req'[r] = req[r], EntriesSpare(r)
  PROVE  EntriesSpare(r)'
<1>1. req[r] # Idle
  BY DEF Idle, At
<1>2. Belongs' /\ Typed'
  BY NextBelongs, NextTyped
<1>3. \A m \in made : Safe(r, m) => Safe(r, m)'
  BY SafeStays
<1>4. ASSUME NEW m \in steady'[r] \cap Held', ~Safe(r, m)'
      PROVE  Listed(r, m)'
  <2>1. m \in steady[r] \cap Held /\ ~Safe(r, m)
    BY <1>3, <1>4, WatchedHeld, HeldMade DEF At
  <2>2. PICK c \in Branches, d \in Days : InScope(r, c) /\ m \in saved[c][d]
    BY <2>1 DEF EntriesSpare, Listed
  <2>3. CASE m \in saved'[c][d]
    BY <2>2, <2>3 DEF Listed, InScope
  <2>4. CASE m \notin saved'[c][d]
    <3>7. ASSUME NEW q \in Requests, DayDelete(q), req[q].b = c, req[q].d = d
          PROVE  FALSE
      <4>1. WatchAllBut(saved[c][d])
        BY <3>7 DEF DayDelete
      <4>2. m \notin steady'[r]
        BY <2>2, <4>1 DEF WatchAllBut, At
      <4> QED
        BY <1>4, <4>2
    <3>1. PICK q \in Requests : Commit(q) /\ req[q].b = c /\ req[q].d = d /\ m \notin req[q].media
      BY <2>2, <2>4, <3>7, EntriesKept
    <3>2. UNCHANGED sessions /\ q # r /\ Saves(req[q]) /\ ~At(q, "saveDrop")
      BY <3>1 DEF Commit, At, Saves, Typed, Fit
    <3>3. ASSUME NEW e \in Days, m \in Contents(sessions[e])
          PROVE  FALSE
      <4>1. Replaces(q)
        BY <2>1, <3>2, <3>3 DEF EntriesSpare
      <4>2. assets[m] = None
        BY <2>2, <3>1, <3>2, <4>1 DEF Replaces
      <4> QED
        BY <2>1, <4>2 DEF Safe
    <3>4. PICK b \in Branches, e \in Days : m \in saved'[b][e]
      BY <1>4, <3>2, <3>3, HeldIs
    <3>5. assets'[m] \in {None, b}
      BY <1>2, <3>4 DEF Belongs, Of
    <3>6. InScope(r, b)'
      BY <1>4, <3>5 DEF Safe, InScope
    <3> QED
      BY <3>4, <3>6 DEF Listed
  <2> QED
    BY <2>3, <2>4
<1>5. ASSUME NEW d \in Days, NEW m \in Contents(sessions'[d]), ~Safe(r, m)', NEW q \in Requests \ {r}
      PROVE  Replaces(q)'
  <2>1. CASE ~Saves(req'[q])
    BY <2>1 DEF Replaces
  <2>2. CASE Saves(req'[q])
    <3>1. UNCHANGED sessions
      BY <1>1, <2>2, SessionsKept DEF At
    <3>2. m \in Contents(sessions[d]) /\ m \in made
      BY <1>5, <3>1 DEF Belongs, Of
    <3>3. Replaces(q)
      BY <1>3, <1>5, <3>2 DEF EntriesSpare
    <3> QED
      BY <1>1, <3>3, ReplacesStays DEF At
  <2> QED
    BY <2>1, <2>2
<1> QED
  BY <1>4, <1>5 DEF EntriesSpare

LEMMA OrphansStay ==
  ASSUME Typed, Belongs, [Next]_vars, NEW r \in Requests, At(r, "orphans"), req'[r] = req[r], OrphansSpare(r)
  PROVE  OrphansSpare(r)'
<1>1. ASSUME NEW m \in steady'[r] \cap Held'
      PROVE  Safe(r, m)'
  <2>1. m \in steady[r] \cap Held
    BY <1>1, WatchedHeld DEF At
  <2> QED
    BY <2>1, SafeStays, HeldMade DEF OrphansSpare
<1> QED
  BY <1>1 DEF OrphansSpare

(* The purge reads the trays of its branches.                              *)
LEMMA TraysRead ==
  ASSUME Typed, Belongs, NEW r \in Requests, PurgeTrays(r)
  PROVE  EntriesSpare(r)'
<1>1. /\ UNCHANGED <<sessions, assets, saved>> /\ req'[r].b = req[r].b
      /\ req'[r].keep = req[r].keep \cup protectedMediaIds(r)
  BY DEF PurgeTrays, Typed, TypeOK, Request
<1>2. ASSUME NEW d \in Days, NEW m \in Contents(sessions[d])
      PROVE  Safe(r, m)'
  <2>1. CASE InScope(r, sessions[d].branch)
    BY <1>1, <1>2, <2>1 DEF protectedMediaIds, Safe, Contents
  <2>2. CASE ~InScope(r, sessions[d].branch)
    <3>1. Safe(r, m)
      BY <1>2, <2>2, ElsewhereSafe
    <3> QED
      BY <1>1, <3>1 DEF Safe, InScope
  <2> QED
    BY <2>1, <2>2
<1>3. ASSUME NEW c \in Branches, NEW d \in Days, NEW m \in saved[c][d]
      PROVE  Safe(r, m)' \/ Listed(r, m)'
  <2>1. CASE InScope(r, c)
    BY <1>1, <1>3, <2>1 DEF Listed, InScope
  <2>2. CASE ~InScope(r, c)
    <3>1. Safe(r, m)
      BY <1>3, <2>2, ElsewhereSafe
    <3> QED
      BY <1>1, <3>1 DEF Safe, InScope
  <2> QED
    BY <2>1, <2>2
<1>4. \A m \in Held' : Safe(r, m)' \/ Listed(r, m)'
  BY <1>1, <1>2, <1>3, HeldIs
<1> QED
  BY <1>1, <1>2, <1>4 DEF EntriesSpare

(* The purge reads the entries of its branches.                            *)
LEMMA EntriesRead ==
  ASSUME Typed, [Next]_vars, NEW r \in Requests, PurgeEntries(r), EntriesSpare(r)
  PROVE  OrphansSpare(r)'
<1>1. /\ UNCHANGED <<sessions, assets, saved>> /\ req'[r].b = req[r].b
      /\ req'[r].keep = req[r].keep \cup UNION {SavedOf(b) : b \in {c \in Branches : InScope(r, c)}}
  BY DEF PurgeEntries, Typed, TypeOK, Request
<1>2. ASSUME NEW m \in steady'[r] \cap Held'
      PROVE  Safe(r, m)'
  <2>1. Safe(r, m) \/ Listed(r, m)
    BY <1>2, WatchedHeld DEF EntriesSpare, PurgeEntries, At
  <2>2. CASE Safe(r, m)
    BY <1>1, <2>2 DEF Safe, InScope
  <2>3. CASE Listed(r, m)
    BY <1>1, <2>3 DEF Listed, Safe, SavedOf
  <2> QED
    BY <2>1, <2>2, <2>3
<1> QED
  BY <1>2 DEF OrphansSpare

(* How a purge comes to its later steps.                                   *)
LEMMA PurgeSteps ==
  ASSUME Typed, [Next]_vars, NEW r \in Requests, req'[r] # req[r]
  PROVE  /\ At(r, "entries")' => PurgeTrays(r)
         /\ At(r, "orphans")' => PurgeEntries(r)
         /\ At(r, "orphans") => PurgeOrphans(r) \/ (\E p \in Requests : Startup(p)) \/ Fails(r)
<1> USE DEF Typed, TypeOK
<1>1. ASSUME NEW p \in Requests, Startup(p)
      PROVE  req'[r].step \in {"idle", "trays"}
  BY <1>1 DEF Startup, Idle
<1>2. ASSUME NEW p \in Requests, NEW q, Beginning(q), Arrives(p, q)
      PROVE  req'[r].step \notin {"entries", "orphans"} /\ ~At(r, "orphans")
  <2>1. p = r
    BY <1>2 DEF Arrives
  <2>2. req'[r] = q /\ req[r] = Idle
    BY <1>2, <2>1 DEF Arrives
  <2> QED
    BY <1>2, <2>2 DEF Beginning, Idle, At
<1>3. ASSUME NEW p \in Requests, Continue(p)
      PROVE  /\ At(r, "entries")' => PurgeTrays(r)
             /\ At(r, "orphans")' => PurgeEntries(r)
             /\ At(r, "orphans") => PurgeOrphans(r)
  <2>1. p = r
    BY <1>3, ContinuesOne
  <2>2. At(r, "orphans") => PurgeOrphans(r)
    BY <1>3, <2>1 DEF Continue, CreateDrop, CreateWrite, RegisterLookup, RegisterWrite, RemoveWrite, RemoveDrop, DiscardDrop, DayDrop, DayDelete,
         CloseDelete, CloseEntries, CloseDrop, SaveDrop, Commit, PurgeTrays, PurgeEntries, At
  <2>3. req[r] \in Request /\ Idle.step = "idle"
    BY DEF Idle
  <2>4. ASSUME NEW step, Goes(r, step)
        PROVE  req'[r].step = step
    BY <2>3, <2>4 DEF Goes, Request
  <2>5. Ends(r) => req'[r].step = "idle"
    BY <2>3 DEF Ends
  <2>6. CloseEntries(r) => req'[r].step = "closeDrop"
    BY <2>3 DEF CloseEntries, Request
  <2>7. CASE CloseEntries(r) \/ PurgeTrays(r) \/ PurgeEntries(r)
    <3>1. PurgeTrays(r) => req'[r].step = "entries"
      BY <2>3 DEF PurgeTrays, Request
    <3>2. PurgeEntries(r) => req'[r].step = "orphans"
      BY <2>3 DEF PurgeEntries, Request
    <3> QED
      BY <2>2, <2>6, <2>7, <3>1, <3>2 DEF At
  <2>8. CASE Ends(r)
    BY <2>2, <2>5, <2>8 DEF At
  <2>9. CASE \E step \in {"createWrite", "registerWrite", "dayDelete", "removeDrop", "closeEntries", "trays", "commit"} : Goes(r, step)
    BY <2>2, <2>4, <2>9 DEF At
  <2>10. DayDelete(r) => Ends(r) \/ req'[r].step = "idle"
    BY <2>3 DEF DayDelete
  <2>11. CASE DayDelete(r)
    BY <2>2, <2>5, <2>10, <2>11 DEF At
  <2> QED
    BY <1>3, <2>1, <2>7, <2>8, <2>9, <2>11 DEF Continue, CreateDrop, CreateWrite, RegisterLookup, RegisterWrite, DayDrop, RemoveWrite, RemoveDrop,
         DiscardDrop, CloseDelete, CloseDrop, SaveDrop, Commit, PurgeOrphans
<1>4. ASSUME NEW p \in Requests, Fails(p)
      PROVE  p = r /\ req'[r].step = "idle"
  BY <1>4, FailsOne DEF Idle
<1> QED
  BY <1>1, <1>2, <1>3, <1>4, BeginsOne DEF Next, vars, Presign, UploadOnForm, At

LEMMA NextSparing ==
  ASSUME Typed, Belongs, Sparing, [Next]_vars
  PROVE  Sparing'
<1>1. UNCHANGED scope
  BY BeginsOne, ContinuesOne, FailsOne DEF Next, vars, Presign, UploadOnForm, Sent
<1> SUFFICES ASSUME scope.flight <= 2
             PROVE  Two' /\ \A r \in Requests : EntriesSpare(r)' /\ OrphansSpare(r)'
  BY <1>1 DEF Sparing
<1>2. Two /\ \A r \in Requests : EntriesSpare(r) /\ OrphansSpare(r)
  BY DEF Sparing
<1>3. Two'
  BY <1>2, NextTwo
<1>4. ASSUME NEW r \in Requests
      PROVE  EntriesSpare(r)' /\ OrphansSpare(r)'
  <2>1. CASE req'[r] = req[r]
    <3>1. EntriesSpare(r)'
      <4>1. CASE At(r, "entries")
        BY <1>2, <2>1, <4>1, EntriesStay
      <4>2. CASE ~At(r, "entries")
        BY <2>1, <4>2 DEF EntriesSpare, At
      <4> QED
        BY <4>1, <4>2
    <3>2. OrphansSpare(r)'
      <4>1. CASE At(r, "orphans")
        BY <1>2, <2>1, <4>1, OrphansStay
      <4>2. CASE ~At(r, "orphans")
        BY <2>1, <4>2 DEF OrphansSpare, At
      <4> QED
        BY <4>1, <4>2
    <3> QED
      BY <3>1, <3>2
  <2>2. CASE req'[r] # req[r]
    <3>1. EntriesSpare(r)'
      BY <2>2, PurgeSteps, TraysRead DEF EntriesSpare
    <3>2. OrphansSpare(r)'
      BY <1>2, <2>2, PurgeSteps, EntriesRead DEF OrphansSpare
    <3> QED
      BY <3>1, <3>2
  <2> QED
    BY <2>1, <2>2
<1> QED
  BY <1>3, <1>4

(* A purge beside one other request at a time deletes nothing that a       *)
(* session or an entry held all the time it ran.                           *)
THEOREM PurgeSpares == Spec => PurgeSparesHeld
<1>1. Init => Sparing
  BY DEF Init, Sparing, Two, EntriesSpare, OrphansSpare, At, Idle
<1>2. Typed /\ Belongs /\ Sparing /\ [Next]_vars => Sparing'
  BY NextSparing
<1>3. ASSUME Typed, Belongs, Sparing, [Next]_vars, scope.flight <= 2, NEW r \in Requests,
             At(r, "orphans"), req'[r].step # "orphans", NEW m \in steady[r] \cap Held
      PROVE  assets'[m] = assets[m]
  <2>1. Safe(r, m) /\ m \in Media
    BY <1>3, HeldType DEF Sparing, OrphansSpare, Typed
  <2>2. CASE PurgeOrphans(r)
    BY <2>1, <2>2 DEF PurgeOrphans, Safe, Typed, TypeOK
  <2>3. CASE (\E p \in Requests : Startup(p)) \/ Fails(r)
    BY <2>3 DEF Startup, Fails
  <2> QED
    BY <1>3, <2>2, <2>3, PurgeSteps DEF At
<1>4. Typed /\ Belongs /\ Sparing /\ [Next]_vars
        => [scope.flight <= 2 => \A r \in Requests : At(r, "orphans") /\ req'[r].step # "orphans"
              => \A m \in steady[r] \cap Held : assets'[m] = assets[m]]_vars
  BY <1>3
<1>5. Spec => [](Typed /\ Belongs)
  BY MediaBelong
<1> QED
  BY <1>1, <1>2, <1>4, <1>5, PTL DEF Spec, PurgeSparesHeld

-----------------------------------------------------------------------------
(* One branch, whose requests come one at a time: where its photos are.    *)
One == \A q, r \in Requests : req[q] # Idle /\ req[r] # Idle => q = r

Coming(d) == {m \in Media : <<d, m>> \in uploads}

Around(b, d) == Contents(sessions[d]) \cup Coming(d) \cup form[b][d] \cup saved[b][d]

(* A photo is of one day, and is on its way, on the tray or saved -- but   *)
(* for those a failed request left half done.                              *)
Placed(b) ==
  /\ \A d \in Days : sessions[d].branch \in {None, b} /\ Around(b, d) \subseteq made
  /\ \A m \in Media : assets[m] \in {None, b}
  /\ \A c \in Branches \ {b}, d \in Days : form[c][d] = {} /\ saved[c][d] = {}
  /\ \A d, e \in Days : d # e => Around(b, d) \cap Around(b, e) = {}
  /\ \A d \in Days :
       /\ Coming(d) \cap (Contents(sessions[d]) \cup form[b][d] \cup saved[b][d]) = {}
       /\ sessions[d].items \cap (sessions[d].retained \cup saved[b][d]) \subseteq torn
       /\ form[b][d] \cap saved[b][d] \subseteq torn

(* What is on the form was assigned from an open session.                  *)
Assigned(b) ==
  \A d \in Days : \A m \in form[b][d] \ torn :
    \/ m \in sessions[d].retained /\ m \notin sessions[d].items
    \/ \E r \in Requests : At(r, "remove") /\ req[r].write /\ req[r].d = d /\ m \in req[r].media

(* What a request has deleted and will take off its entry.                 *)
Dropping(q) == IF q.step = "dayDelete" \/ (Saves(q) /\ q.step # "saveDrop") THEN q.drop ELSE {}

Present(b) ==
  \A d \in Days :
    /\ \A m \in (sessions[d].items \cup form[b][d]) \ torn : assets[m] # None
    /\ \A m \in saved[b][d] \ torn : assets[m] # None \/ \E r \in Requests : req[r].d = d /\ m \in Dropping(req[r])

Free(ms, b) == \A d \in Days : ms \cap (sessions[d].items \cup form[b][d] \cup saved[b][d]) \subseteq torn

(* What the one request in flight has read, and means to do.               *)
Doing(r, b) ==
  LET q == req[r]
  IN  /\ q # Idle => q.b \in {None, b}
      /\ q.step \in {"createDrop", "createWrite", "register", "registerWrite", "remove", "closeDelete"} =>
           q.b = b /\ q.d \in Days /\ q.seen = sessions[q.d]
      /\ q.step # "createDrop"
      /\ q.step \in {"register", "registerWrite"} => \A d \in Days : q.media \cap Around(b, d) = {}
      /\ q.step = "registerWrite" => \A m \in q.media : assets[m] # None
      /\ q.step = "remove" =>
           /\ q.media \subseteq q.seen.items
           /\ IF q.write THEN q.media \subseteq form[b][q.d] ELSE q.media \cap form[b][q.d] \subseteq torn
      /\ q.step = "removeDrop" => Free(q.media, b)
      /\ q.step = "closeDelete" => form[b][q.d] = {}
      /\ q.step = "closeEntries" =>
           /\ q.b = b
           /\ \A d \in Days : Contents(q.seen) \cap (sessions[d].items \cup form[b][d]) = {}
      /\ q.step \in {"discard", "closeDrop"} => Free(q.drop, b)
      /\ q.step \in {"dayDrop", "dayDelete"} => q.b = b /\ q.d \in Days /\ q.drop \subseteq saved[b][q.d]
      /\ Saves(q) => /\ q.d \in Days /\ q.b = b /\ q.drop = saved[b][q.d] \ q.media
                     /\ \A m \in q.media : m \in form[b][q.d] \cup saved[b][q.d] /\ (m \in torn \/ assets[m] # None)
                     /\ q.media \subseteq q.keep
      /\ q.step \in {"entries", "orphans"} => \A d \in Days : Contents(sessions[d]) \subseteq q.keep
      /\ q.step = "orphans" => \A d \in Days : saved[b][d] \subseteq q.keep

Ordered(b) ==
  /\ scope.branches \subseteq {b} /\ One
  /\ Placed(b) /\ Assigned(b) /\ Present(b)
  /\ \A r \in Requests : Doing(r, b)

Orderly == Alone => \E b \in Branches : Ordered(b)

LEMMA IdleIs ==
  /\ Idle.step = "idle" /\ Idle.b = None /\ Idle.d = None /\ Idle.media = {} /\ Idle.drop = {}
  /\ Idle.seen = Closed /\ Idle.keep = {} /\ ~Idle.write /\ ~Saves(Idle)
  /\ Dropping(Idle) = {} /\ HalfDone(Idle) = {}
  BY DEF Idle, Saves, Dropping, HalfDone

LEMMA DroppingHalfDone == \A q \in Request : Dropping(q) \subseteq HalfDone(q)
  BY DEF Dropping, HalfDone, Saves

(* Every action but a photo presigned or registered moves photos along.    *)
LEMMA PlacedStays ==
  ASSUME NEW b, Placed(b), made' = made, uploads' \subseteq uploads, torn \subseteq torn',
         \A d \in Days : sessions'[d].branch \in {None, b},
         \A m \in Media : assets'[m] \in {assets[m], None},
         \A c \in Branches \ {b}, d \in Days : form'[c][d] = {} /\ saved'[c][d] = {},
         \A d \in Days : /\ Contents(sessions'[d]) \subseteq Contents(sessions[d])
                         /\ form'[b][d] \subseteq Contents(sessions[d]) \cup form[b][d]
                         /\ saved'[b][d] \subseteq form[b][d] \cup saved[b][d]
                         /\ sessions'[d].items \cap (sessions'[d].retained \cup saved'[b][d]) \subseteq torn'
                         /\ form'[b][d] \cap saved'[b][d] \subseteq torn'
  PROVE  Placed(b)'
<1> DEFINE Come(d) == {m \in Media : <<d, m>> \in uploads'}
           All(d) == Contents(sessions'[d]) \cup Come(d) \cup form'[b][d] \cup saved'[b][d]
<1>1. \A d \in Days : Come(d) \subseteq Coming(d)
  BY DEF Coming
<1>2. \A d \in Days : All(d) \subseteq Around(b, d)
  BY <1>1 DEF Around
<1>3. \A d \in Days : Come(d) \cap (Contents(sessions'[d]) \cup form'[b][d] \cup saved'[b][d]) = {}
  BY <1>1 DEF Placed
<1>4. \A d, e \in Days : d # e => All(d) \cap All(e) = {}
  BY <1>2 DEF Placed
<1>5. \A d \in Days : All(d) \subseteq made'
  BY <1>2 DEF Placed
<1>6. \A m \in Media : assets'[m] \in {None, b}
  BY DEF Placed
<1> QED
  BY <1>3, <1>4, <1>5, <1>6 DEF Placed, Around, Coming, Contents

LEMMA SessionsStay ==
  ASSUME NEW b, Placed(b), UNCHANGED <<sessions, form, saved, torn>>
  PROVE  /\ \A d \in Days : sessions'[d].branch \in {None, b}
         /\ \A c \in Branches \ {b}, d \in Days : form'[c][d] = {} /\ saved'[c][d] = {}
         /\ \A d \in Days : /\ Contents(sessions'[d]) \subseteq Contents(sessions[d])
                            /\ form'[b][d] \subseteq Contents(sessions[d]) \cup form[b][d]
                            /\ saved'[b][d] \subseteq form[b][d] \cup saved[b][d]
                            /\ sessions'[d].items \cap (sessions'[d].retained \cup saved'[b][d]) \subseteq torn'
                            /\ form'[b][d] \cap saved'[b][d] \subseteq torn'
  BY DEF Placed

(* When no photo is being taken off a tray, what is on the form is         *)
(* assigned, and stays so.                                                 *)
LEMMA FormAssigned ==
  ASSUME NEW b, Assigned(b), \A r \in Requests : ~At(r, "remove")
  PROVE  \A d \in Days : form[b][d] \ torn \subseteq sessions[d].retained \ sessions[d].items
  BY DEF Assigned

LEMMA StaysAssigned ==
  ASSUME NEW b, \A d \in Days : form'[b][d] \ torn' \subseteq sessions'[d].retained \ sessions'[d].items
  PROVE  Assigned(b)'
  BY DEF Assigned

(* The state after a step of the one request in flight.                    *)
LEMMA OneMoves ==
  ASSUME NEW b, NEW r \in Requests, \A p \in Requests \ {r} : req'[p] = Idle, scope' = scope,
         scope.branches \subseteq {b}, Placed(b)', Assigned(b)', Present(b)', Doing(r, b)'
  PROVE  Ordered(b)'
<1>1. One'
  BY DEF One
<1>2. ASSUME NEW p \in Requests \ {r}
      PROVE  Doing(p, b)'
  <2>1. req'[p] = Idle
    BY <1>2
  <2> QED
    BY <2>1, IdleIs DEF Doing
<1> QED
  BY <1>1, <1>2 DEF Ordered

(* Requests that fail, and one that may begin.                             *)
LEMMA LapsesOrdered ==
  ASSUME Typed, NEW b, Ordered(b), NEW r \in Requests, \A p \in Requests \ {r} : req'[p] = Idle, Doing(r, b)',
         UNCHANGED <<sessions, assets, made, uploads, form, saved, scope>>,
         torn \subseteq torn', \A p \in Requests : HalfDone(req[p]) \subseteq torn'
  PROVE  Ordered(b)'
<1>1. Placed(b)'
  BY DEF Ordered, Placed, Around, Coming, Contents
<1>2. \A p \in Requests : At(p, "remove") /\ req[p].write => req[p].media \subseteq torn'
  BY DEF At, HalfDone
<1>3. Assigned(b)'
  <2>1. \A d \in Days : form'[b][d] \ torn' \subseteq sessions'[d].retained \ sessions'[d].items
    BY <1>2 DEF Ordered, Assigned
  <2> QED
    BY <2>1, StaysAssigned
<1>4. \A p \in Requests : Dropping(req[p]) \subseteq torn'
  BY DroppingHalfDone DEF Typed, TypeOK
<1>5. Present(b)'
  BY <1>4 DEF Ordered, Present
<1> QED
  BY <1>1, <1>3, <1>5, OneMoves DEF Ordered

(* Where one request is taken at a time, the next finds none.              *)
LEMMA FindsNone ==
  ASSUME Typed, One, scope.flight = 1, NEW r \in Requests, NEW record, Arrives(r, record), NEW p \in Requests
  PROVE  req[p] = Idle
<1> SUFFICES ASSUME req[p] # Idle
             PROVE  FALSE
  OBVIOUS
<1>1. {x \in Requests : req[x] # Idle} = {p}
  BY DEF One
<1>2. Cardinality({p}) = 1
  BY FS_Singleton
<1> QED
  BY <1>1, <1>2 DEF Arrives

LEMMA BeginOrdered ==
  ASSUME Typed, Belongs, scope.flight = 1, NEW b \in Branches, Ordered(b), NEW r \in Requests, Begin(r), ~Startup(r)
  PROVE  Ordered(b)'
<1> USE DEF Typed, TypeOK
<1> ConstantsAssumption /\ scope \in Scope /\ scope.branches \subseteq {b} /\ scope.days \subseteq Days
  BY ScopeType, ConstantsAssumption DEF Scope, Ordered
<1>1. \A p \in Requests : req[p] = Idle
  <2>2. ASSUME NEW q, Arrives(r, q)
        PROVE  \A p \in Requests : req[p] = Idle
    BY <2>2, FindsNone DEF Ordered
  <2> QED
    BY <2>2, BeginsOne
<1>2. UNCHANGED <<scope, sessions, assets, made, saved, torn>> /\ uploads' \subseteq uploads
  <2>1. uploads' \subseteq uploads
    BY DEF Begin, Register, Startup, Create, Close, DiscardForm, Save, RemoveDay, Remove
  <2>2. UNCHANGED torn
    BY BeginsOne DEF Arrives, Sent
  <2> QED
    BY <2>1, <2>2, BeginsOne
<1>3. \A p \in Requests \ {r} : req'[p] = Idle
  BY <1>1, BeginsOne DEF Arrives
<1>4. \A d \in Days : form[b][d] \ torn \subseteq sessions[d].retained \ sessions[d].items
  BY <1>1, FormAssigned, IdleIs DEF Ordered, At
<1>5. \A d \in Days : \A m \in (sessions[d].items \cup form[b][d] \cup saved[b][d]) \ torn : assets[m] # None
  BY <1>1, IdleIs DEF Ordered, Present
<1>6. ASSUME \A d \in Days : form'[b][d] \subseteq form[b][d] \cup sessions[d].items,
             \A c \in Branches \ {b}, d \in Days : form'[c][d] = {}
      PROVE  Placed(b)' /\ Present(b)'
  <2>1. Placed(b)
    BY DEF Ordered
  <2>2. \A d \in Days : /\ sessions[d].items \cap (sessions[d].retained \cup saved[b][d]) \subseteq torn
                        /\ form'[b][d] \cap saved[b][d] \subseteq torn
    BY <1>6, <2>1 DEF Placed
  <2>3. \A d \in Days : sessions[d].branch \in {None, b}
    BY <2>1 DEF Placed
  <2>4. \A c \in Branches \ {b}, d \in Days : form'[c][d] = {} /\ saved'[c][d] = {}
    BY <1>2, <1>6, <2>1 DEF Placed
  <2>5. Placed(b)'
    BY <1>2, <1>6, <2>1, <2>2, <2>3, <2>4, PlacedStays DEF Contents
  <2>6. Present(b)'
    BY <1>2, <1>5, <1>6 DEF Present
  <2> QED
    BY <2>5, <2>6
<1>7. ASSUME \A d \in Days : form'[b][d] \subseteq form[b][d], \A c \in Branches \ {b}, d \in Days : form'[c][d] = {},
             Doing(r, b)'
      PROVE  Ordered(b)'
  BY <1>2, <1>3, <1>4, <1>6, <1>7, StaysAssigned, OneMoves
<1>8. \A c \in Branches \ {b}, d \in Days : form[c][d] = {}
  BY DEF Ordered, Placed
<1>9. ASSUME NEW d \in scope.days, NEW m \in Media, Register(r, d, m)
      PROVE  Ordered(b)'
  <2> DEFINE q == [Idle EXCEPT !.step = "register", !.b = sessions[d].branch, !.d = d, !.media = {m}, !.seen = sessions[d]]
  <2>1. /\ q.step = "register" /\ q.b = sessions[d].branch /\ q.d = d /\ q.media = {m} /\ q.seen = sessions[d]
        /\ ~q.write /\ req' = [req EXCEPT ![r] = q]
    BY <1>9, IdleIs DEF Register, Arrives, Idle
  <2> HIDE DEF q
  <2>2. req'[r] = q /\ d \in Days
    BY <2>1
  <2>3. sessions[d].branch = b
    BY <1>9, SessionTypes, ClosedIsSession DEF Register, Room, Open, Ordered, Placed
  <2>4. <<d, m>> \in uploads /\ uploads' = uploads \ {<<d, m>>} /\ UNCHANGED form
    BY <1>9 DEF Register
  <2>5. \A e \in Days : m \notin Contents(sessions[e]) \cup form[b][e] \cup saved[b][e] /\ (e # d => m \notin Coming(e))
    <3>1. m \in Coming(d)
      BY <2>4 DEF Coming
    <3> QED
      BY <2>2, <3>1 DEF Ordered, Placed, Around
  <2>6. \A e \in Days : q.media \cap Around(b, e)' = {}
    BY <1>2, <2>1, <2>4, <2>5 DEF Around, Coming, Contents
  <2>7. Doing(r, b)'
    BY <1>2, <2>1, <2>2, <2>3, <2>6 DEF Doing, Saves
  <2> QED
    BY <1>7, <1>8, <2>4, <2>7
<1>10. ASSUME NEW c \in scope.branches, NEW d \in scope.days, NEW ms \in SUBSET Media, RemoveDay(r, c, d, ms)
       PROVE  Ordered(b)'
  <2> DEFINE q == [Idle EXCEPT !.step = "dayDrop", !.b = c, !.d = d, !.drop = ms]
  <2>1. c = b /\ d \in Days
    OBVIOUS
  <2>2. q.step = "dayDrop" /\ q.b = b /\ q.d = d /\ q.drop = ms /\ ~q.write /\ req' = [req EXCEPT ![r] = q]
    BY <1>10, <2>1, IdleIs DEF RemoveDay, Arrives, Idle
  <2> HIDE DEF q
  <2>3. UNCHANGED form /\ ms \subseteq saved[b][d]
    BY <1>10, <2>1 DEF RemoveDay
  <2>4. Doing(r, b)'
    BY <1>2, <2>1, <2>2, <2>3 DEF Doing, Saves
  <2> QED
    BY <1>7, <1>8, <2>3, <2>4
<1>11. ASSUME NEW c \in scope.branches, NEW d \in scope.days, Create(r, c, d)
       PROVE  Ordered(b)'
  <2> DEFINE q == [Idle EXCEPT !.b = c, !.d = d, !.seen = sessions[d],
                     !.step = IF sessions[d].branch \in {None, c} THEN "createWrite" ELSE "createDrop"]
  <2>1. sessions[d].branch \in {None, b} /\ c = b /\ d \in Days
    BY DEF Ordered, Placed
  <2>2. q.step = "createWrite" /\ q.b = b /\ q.d = d /\ q.seen = sessions[d] /\ ~q.write /\ req' = [req EXCEPT ![r] = q]
    BY <1>11, <2>1, IdleIs DEF Create, Arrives, Idle
  <2> HIDE DEF q
  <2>3. Doing(r, b)'
    BY <1>2, <2>1, <2>2 DEF Doing, Saves
  <2>4. UNCHANGED form
    BY <1>11 DEF Create
  <2> QED
    BY <1>7, <1>8, <2>3, <2>4
<1>12. ASSUME NEW c \in scope.branches, NEW d \in scope.days, Close(r, c, d)
       PROVE  Ordered(b)'
  <2> DEFINE q == [Idle EXCEPT !.b = c, !.d = d, !.seen = sessions[d], !.step = IF Open(d) THEN "closeDelete" ELSE "trays"]
  <2>1. c = b /\ d \in Days
    OBVIOUS
  <2>2. /\ q.step \in {"closeDelete", "trays"} /\ q.b = b /\ q.d = d /\ q.seen = sessions[d] /\ ~q.write
        /\ req' = [req EXCEPT ![r] = q]
    BY <1>12, <2>1, IdleIs DEF Close, Arrives, Idle
  <2> HIDE DEF q
  <2>3. form' = [form EXCEPT ![b][d] = {}]
    BY <1>12, <2>1 DEF Close
  <2>4. /\ form'[b][d] = {} /\ \A e \in Days : form'[b][e] \subseteq form[b][e]
        /\ \A x \in Branches \ {b}, e \in Days : form'[x][e] = {}
    BY <1>8, <2>1, <2>3
  <2>5. Doing(r, b)'
    BY <1>2, <2>1, <2>2, <2>4 DEF Doing, Saves
  <2> QED
    BY <1>7, <2>4, <2>5
<1>13. ASSUME NEW c \in scope.branches, NEW d \in scope.days, DiscardForm(r, c, d)
       PROVE  Ordered(b)'
  <2> DEFINE q == [Idle EXCEPT !.step = "discard", !.b = c, !.d = d, !.drop = form[c][d] \ saved[c][d]]
  <2>1. c = b /\ d \in Days
    OBVIOUS
  <2>2. q.step = "discard" /\ q.b = b /\ q.drop = form[b][d] \ saved[b][d] /\ ~q.write /\ req' = [req EXCEPT ![r] = q]
    BY <1>13, <2>1, IdleIs DEF DiscardForm, Arrives, Idle
  <2> HIDE DEF q
  <2>3. form' = [form EXCEPT ![b][d] = {}]
    BY <1>13, <2>1 DEF DiscardForm
  <2>4. /\ form'[b][d] = {} /\ \A e \in Days : form'[b][e] \subseteq form[b][e]
        /\ \A x \in Branches \ {b}, e \in Days : form'[x][e] = {}
    BY <1>8, <2>1, <2>3
  <2>5. \A e \in Days : q.drop \cap (sessions[e].items \cup form'[b][e] \cup saved[b][e]) \subseteq torn
    <3>1. CASE \A e \in Days : e = d
      BY <1>4, <2>1, <2>2, <2>4, <3>1
    <3>2. ASSUME NEW e \in Days, e # d
          PROVE  q.drop \cap (sessions[e].items \cup form'[b][e] \cup saved[b][e]) \subseteq torn
      <4>1. Around(b, d) \cap Around(b, e) = {}
        BY <2>1, <3>2 DEF Ordered, Placed
      <4> QED
        BY <2>2, <2>4, <4>1 DEF Around, Contents
    <3> QED
      BY <1>4, <2>1, <2>2, <2>4, <3>2
  <2>6. Doing(r, b)'
    BY <1>2, <2>1, <2>2, <2>5 DEF Doing, Saves, Free
  <2> QED
    BY <1>7, <2>4, <2>6
<1>14. ASSUME NEW c \in scope.branches, NEW d \in scope.days, NEW ms \in SUBSET Media, Save(r, c, d, ms)
       PROVE  Ordered(b)'
  <2> DEFINE q == [Idle EXCEPT !.step = "saveDrop", !.b = c, !.d = d, !.media = ms, !.keep = ms,
                               !.drop = saved[c][d] \ ms, !.write = TRUE]
  <2>1. c = b /\ d \in Days
    OBVIOUS
  <2>2. /\ q.step = "saveDrop" /\ q.b = b /\ q.d = d /\ q.media = ms /\ q.keep = ms /\ q.drop = saved[b][d] \ ms
        /\ req' = [req EXCEPT ![r] = q]
    BY <1>14, <2>1 DEF Save, Arrives, Idle
  <2> HIDE DEF q
  <2>3. UNCHANGED form /\ ms \subseteq form[b][d] \cup saved[b][d]
    BY <1>14, <2>1 DEF Save
  <2>4. \A m \in ms : m \in torn \/ assets[m] # None
    BY <1>5, <2>1, <2>3
  <2>5. Doing(r, b)'
    BY <1>2, <2>1, <2>2, <2>3, <2>4 DEF Doing
  <2> QED
    BY <1>7, <1>8, <2>3, <2>5
<1>15. ASSUME NEW c \in scope.branches, NEW d \in scope.days, NEW m \in Media, NEW keepMedia \in BOOLEAN,
              Remove(r, c, d, m, keepMedia)
       PROVE  Ordered(b)'
  <2> DEFINE q == [Idle EXCEPT !.step = "remove", !.b = c, !.d = d, !.media = {m},
                               !.seen = sessions[d], !.write = keepMedia]
  <2>1. c = b /\ d \in Days /\ m \in sessions[d].items
    BY <1>15 DEF Remove
  <2>2. /\ q.step = "remove" /\ q.b = b /\ q.d = d /\ q.media = {m} /\ q.seen = sessions[d] /\ q.write = keepMedia
        /\ req' = [req EXCEPT ![r] = q]
    BY <1>15, <2>1 DEF Remove, Arrives, Idle
  <2> HIDE DEF q
  <2>3. form' = IF keepMedia THEN [form EXCEPT ![b][d] = @ \cup {m}] ELSE form
    BY <1>15, <2>1 DEF Remove
  <2>4. /\ form'[b][d] = IF keepMedia THEN form[b][d] \cup {m} ELSE form[b][d]
        /\ \A e \in Days \ {d} : form'[b][e] = form[b][e]
        /\ \A x \in Branches \ {b}, e \in Days : form'[x][e] = {}
    BY <1>8, <2>1, <2>3
  <2>5. Placed(b)' /\ Present(b)'
    BY <1>6, <2>1, <2>4
  <2>6. Assigned(b)'
    BY <1>2, <1>4, <2>1, <2>2, <2>4 DEF Assigned, At
  <2>7. Doing(r, b)'
    BY <1>2, <1>4, <2>1, <2>2, <2>4 DEF Doing, Saves
  <2> QED
    BY <1>2, <1>3, <2>5, <2>6, <2>7, OneMoves
<1> QED
  BY <1>9, <1>10, <1>11, <1>12, <1>13, <1>14, <1>15 DEF Begin

(* The steps that touch the database only.                                 *)
LEMMA DropsOrdered ==
  ASSUME Typed, NEW b \in Branches, Ordered(b), NEW r \in Requests,
         RemoveDrop(r) \/ DiscardDrop(r) \/ DayDrop(r) \/ CloseDrop(r) \/ SaveDrop(r) \/ PurgeOrphans(r),
         \A p \in Requests \ {r} : req[p] = Idle /\ req'[p] = Idle, scope' = scope
  PROVE  Ordered(b)'
<1> USE DEF Typed, TypeOK
<1> DEFINE q == req[r]
<1>1. q \in Request /\ Fit(q) /\ Doing(r, b) /\ scope.branches \subseteq {b}
  BY DEF Ordered
<1>2. UNCHANGED <<sessions, form, saved, uploads, made, torn>>
  BY DEF RemoveDrop, DiscardDrop, DayDrop, CloseDrop, SaveDrop, PurgeOrphans, Continued, Goes, Ends
<1>3. \A m \in Media : assets'[m] \in {assets[m], None}
  BY DEF RemoveDrop, DiscardDrop, DayDrop, CloseDrop, SaveDrop, PurgeOrphans, Dropped
<1>4. Placed(b)'
  BY <1>2, <1>3, SessionsStay, PlacedStays DEF Ordered
<1>5. \A p \in Requests : ~At(p, "remove")
  BY IdleIs DEF RemoveDrop, DiscardDrop, DayDrop, CloseDrop, SaveDrop, PurgeOrphans, At
<1>6. \A d \in Days : form[b][d] \ torn \subseteq sessions[d].retained \ sessions[d].items
  BY <1>5, FormAssigned DEF Ordered
<1>7. Assigned(b)'
  BY <1>2, <1>6, StaysAssigned
<1>8. \A d \in Days : /\ sessions[d].items \cup form[b][d] \cup saved[b][d] \subseteq Media
                      /\ sessions[d].retained \subseteq Media
  BY SessionTypes
<1>9. \A d \in Days : /\ \A m \in (sessions[d].items \cup form[b][d]) \ torn : assets[m] # None
                      /\ \A m \in saved[b][d] \ torn : assets[m] # None \/ (q.d = d /\ m \in Dropping(q))
  <2>1. \A p \in Requests \ {r} : Dropping(req[p]) = {}
    BY IdleIs
  <2> QED
    BY <2>1 DEF Ordered, Present
<1>10. ASSUME NEW ms, Free(ms, b), NEW c, assets' = Dropped(ms, c), Dropping(q) = {}
       PROVE  Present(b)'
  BY <1>2, <1>8, <1>9, <1>10 DEF Free, Dropped, Present
<1>11. CASE RemoveDrop(r)
  <2>1. q.step = "removeDrop" /\ req'[r] = Idle /\ assets' = Dropped(q.media, q.seen.branch)
    BY <1>11 DEF RemoveDrop, At, Ends
  <2>2. Present(b)'
    BY <1>1, <1>10, <2>1 DEF Doing, Saves, Dropping
  <2>3. Doing(r, b)'
    BY <2>1, IdleIs DEF Doing
  <2> QED
    BY <1>1, <1>4, <1>7, <2>2, <2>3, OneMoves
<1>12. CASE DiscardDrop(r)
  <2>1. q.step = "discard" /\ req'[r] = Idle /\ assets' = Dropped(q.drop, q.b)
    BY <1>12 DEF DiscardDrop, At, Ends
  <2>2. Present(b)'
    BY <1>1, <1>10, <2>1 DEF Doing, Saves, Dropping
  <2>3. Doing(r, b)'
    BY <2>1, IdleIs DEF Doing
  <2> QED
    BY <1>1, <1>4, <1>7, <2>2, <2>3, OneMoves
<1>13. CASE CloseDrop(r)
  <2>1. q.step = "closeDrop" /\ req' = [req EXCEPT ![r].step = "trays"] /\ assets' = Dropped(q.drop, q.b)
    BY <1>13 DEF CloseDrop, At, Goes
  <2>2. Present(b)'
    BY <1>1, <1>10, <2>1 DEF Doing, Saves, Dropping
  <2>3. req'[r].step = "trays" /\ req'[r].b = q.b /\ ~req'[r].write /\ q # Idle
    BY <1>1, <2>1, IdleIs DEF Request, Fit
  <2>4. Doing(r, b)'
    BY <1>1, <2>3 DEF Doing, Saves
  <2> QED
    BY <1>1, <1>4, <1>7, <2>2, <2>4, OneMoves
<1>14. CASE SaveDrop(r)
  <2>1. q.step = "saveDrop" /\ req' = [req EXCEPT ![r].step = "trays"] /\ assets' = Dropped(q.drop, q.b)
    BY <1>14 DEF SaveDrop, At, Goes
  <2>2. /\ req'[r].step = "trays" /\ req'[r].b = q.b /\ req'[r].d = q.d /\ req'[r].media = q.media
        /\ req'[r].keep = q.keep /\ req'[r].write = q.write /\ req'[r].drop = q.drop
    BY <1>1, <2>1 DEF Request
  <2>3. /\ Saves(q) /\ q.d \in Days /\ q.b = b /\ q.drop = saved[b][q.d] \ q.media /\ q.media \subseteq q.keep
        /\ \A m \in q.media : m \in form[b][q.d] \cup saved[b][q.d] /\ (m \in torn \/ assets[m] # None)
    BY <1>1, <2>1 DEF Doing, Saves, Fit
  <2>4. \A d \in Days : q.drop \cap (sessions[d].items \cup form[b][d]) \subseteq torn /\ (d # q.d => q.drop \cap saved[b][d] = {})
    <3>1. ASSUME NEW d \in Days, d # q.d
          PROVE  q.drop \cap (sessions[d].items \cup form[b][d] \cup saved[b][d]) = {}
      <4>1. Around(b, d) \cap Around(b, q.d) = {}
        BY <2>3, <3>1 DEF Ordered, Placed
      <4> QED
        BY <2>3, <4>1 DEF Around, Contents
    <3>2. q.drop \cap (sessions[q.d].items \cup form[b][q.d]) \subseteq torn
      BY <2>3 DEF Ordered, Placed
    <3> QED
      BY <3>1, <3>2
  <2>5. \A m \in Media : m \notin q.drop => assets'[m] = assets[m]
    BY <2>1 DEF Dropped
  <2>6. \A d \in Days : \A m \in (sessions[d].items \cup form[b][d]) \ torn : assets'[m] # None
    BY <1>8, <1>9, <2>4, <2>5
  <2>12. Dropping(q) = {}
    BY <2>1 DEF Dropping
  <2>7. \A d \in Days : \A m \in saved[b][d] \ torn : m \notin q.drop => assets'[m] # None
    BY <1>8, <1>9, <2>5, <2>12
  <2>13. \A d \in Days : \A m \in saved[b][d] : m \in q.drop => d = q.d
    BY <2>4
  <2>8. Saves(req[r])' /\ Dropping(req'[r]) = q.drop /\ req'[r].d = q.d
    BY <2>2, <2>3 DEF Saves, Dropping
  <2>9. Present(b)'
    BY <1>2, <2>6, <2>7, <2>8, <2>13 DEF Present
  <2>10. \A m \in q.media : m \in Media /\ (m \in torn \/ assets'[m] # None)
    BY <1>1, <2>3, <2>5 DEF Request
  <2>11. Doing(r, b)'
    BY <1>2, <2>2, <2>3, <2>10 DEF Doing
  <2> QED
    BY <1>1, <1>4, <1>7, <2>9, <2>11, OneMoves
<1>16. CASE DayDrop(r)
  <2>1. q.step = "dayDrop" /\ req' = [req EXCEPT ![r].step = "dayDelete"] /\ assets' = Dropped(q.drop, q.b)
    BY <1>16 DEF DayDrop, At, Goes
  <2>2. /\ req'[r].step = "dayDelete" /\ req'[r].b = q.b /\ req'[r].d = q.d /\ req'[r].drop = q.drop
        /\ Dropping(req'[r]) = q.drop /\ Dropping(q) = {} /\ q # Idle /\ ~Saves(req'[r])
    BY <1>1, <2>1, IdleIs DEF Request, Dropping, Saves
  <2>3. q.d \in Days /\ q.b = b /\ q.drop \subseteq saved[b][q.d]
    BY <1>1, <2>1 DEF Doing
  <2>4. \A d \in Days : q.drop \cap (sessions[d].items \cup form[b][d]) \subseteq torn /\ (d # q.d => q.drop \cap saved[b][d] = {})
    <3>1. ASSUME NEW d \in Days, d # q.d
          PROVE  q.drop \cap (sessions[d].items \cup form[b][d] \cup saved[b][d]) = {}
      <4>1. Around(b, d) \cap Around(b, q.d) = {}
        BY <2>3, <3>1 DEF Ordered, Placed
      <4> QED
        BY <2>3, <4>1 DEF Around, Contents
    <3>2. q.drop \cap (sessions[q.d].items \cup form[b][q.d]) \subseteq torn
      BY <2>3 DEF Ordered, Placed
    <3> QED
      BY <3>1, <3>2
  <2>5. \A m \in Media : m \notin q.drop => assets'[m] = assets[m]
    BY <2>1 DEF Dropped
  <2>6. \A d \in Days : \A m \in (sessions[d].items \cup form[b][d]) \ torn : assets'[m] # None
    BY <1>8, <1>9, <2>4, <2>5
  <2>7. \A d \in Days : \A m \in saved[b][d] \ torn : m \notin q.drop => assets'[m] # None
    BY <1>8, <1>9, <2>2, <2>5
  <2>8. \A d \in Days : \A m \in saved[b][d] : m \in q.drop => d = q.d
    BY <2>4
  <2>9. Present(b)'
    BY <1>2, <2>2, <2>6, <2>7, <2>8 DEF Present
  <2>10. Doing(r, b)'
    BY <1>2, <2>2, <2>3 DEF Doing
  <2> QED
    BY <1>1, <1>4, <1>7, <2>9, <2>10, OneMoves
<1>15. CASE PurgeOrphans(r)
  <2>1. /\ q.step = "orphans"
        /\ assets' = [m \in Media |-> IF m \notin req[r].keep /\ InScope(r, assets[m]) THEN None ELSE assets[m]]
        /\ IF q.write THEN req' = [req EXCEPT ![r].step = "commit"] ELSE req' = [req EXCEPT ![r] = Idle]
    BY <1>15 DEF PurgeOrphans, At, Goes, Ends
  <2>2. \A m \in Media : m \in q.keep => assets'[m] = assets[m]
    BY <2>1
  <2>3. \A d \in Days : Contents(sessions[d]) \cup saved[b][d] \subseteq q.keep
    BY <1>1, <2>1 DEF Doing
  <2>4. \A d \in Days : (sessions[d].items \cup form[b][d] \cup saved[b][d]) \ torn \subseteq q.keep
    BY <1>6, <2>3 DEF Contents
  <2>5. CASE q.write
    <3>1. /\ req'[r].step = "commit" /\ req'[r].b = q.b /\ req'[r].d = q.d /\ req'[r].media = q.media
          /\ req'[r].keep = q.keep /\ req'[r].write = q.write /\ req'[r].drop = q.drop
      <4>1. req' = [req EXCEPT ![r].step = "commit"]
        BY <2>1, <2>5
      <4> QED
        BY <1>1, <4>1 DEF Request
    <3>2. Saves(q) /\ Saves(req[r])' /\ Dropping(req'[r]) = Dropping(q) /\ req'[r].d = q.d
      BY <2>1, <2>5, <3>1 DEF Saves, Dropping
    <3>3. /\ q.d \in Days /\ q.b = b /\ q.media \subseteq q.keep /\ q.drop = saved[b][q.d] \ q.media
          /\ \A m \in q.media : m \in Media /\ m \in form[b][q.d] \cup saved[b][q.d] /\ (m \in torn \/ assets[m] # None)
      BY <1>1, <3>2 DEF Doing, Request
    <3>4. \A m \in q.media : m \in torn \/ assets'[m] # None
      BY <2>2, <3>3
    <3>5. \A d \in Days : /\ \A m \in (sessions[d].items \cup form[b][d]) \ torn : assets'[m] # None
                          /\ \A m \in saved[b][d] \ torn : assets'[m] # None \/ (q.d = d /\ m \in Dropping(q))
      BY <1>8, <1>9, <2>2, <2>4
    <3>6. Present(b)'
      BY <1>2, <3>2, <3>5 DEF Present
    <3>7. Doing(r, b)'
      BY <1>2, <3>1, <3>3, <3>4 DEF Doing
    <3> QED
      BY <1>1, <1>4, <1>7, <3>6, <3>7, OneMoves
  <2>6. CASE ~q.write
    <3>1. req'[r] = Idle
      BY <2>1, <2>6
    <3>5. Dropping(q) = {}
      BY <2>1, <2>6 DEF Dropping, Saves
    <3>2. \A d \in Days : \A m \in (sessions[d].items \cup form[b][d] \cup saved[b][d]) \ torn : assets'[m] # None
      BY <1>8, <1>9, <2>2, <2>4, <3>5
    <3>3. Present(b)'
      BY <1>2, <3>2 DEF Present
    <3>4. Doing(r, b)'
      BY <3>1, IdleIs DEF Doing
    <3> QED
      BY <1>1, <1>4, <1>7, <3>3, <3>4, OneMoves
  <2> QED
    BY <2>5, <2>6
<1> QED
  BY <1>11, <1>12, <1>13, <1>14, <1>15, <1>16

(* The steps that read.                                                    *)
LEMMA ReadsOrdered ==
  ASSUME Typed, NEW b \in Branches, Ordered(b), NEW r \in Requests,
         RegisterLookup(r) \/ CloseEntries(r) \/ PurgeTrays(r) \/ PurgeEntries(r),
         \A p \in Requests \ {r} : req[p] = Idle /\ req'[p] = Idle, scope' = scope
  PROVE  Ordered(b)'
<1> USE DEF Typed, TypeOK
<1> DEFINE q == req[r]
<1>1. q \in Request /\ Fit(q) /\ Doing(r, b) /\ scope.branches \subseteq {b} /\ q # Idle
  BY IdleIs DEF Ordered, RegisterLookup, CloseEntries, PurgeTrays, PurgeEntries, At
<1>2. UNCHANGED <<sessions, form, saved, uploads, made, assets, torn>>
  BY DEF RegisterLookup, CloseEntries, PurgeTrays, PurgeEntries, Continued, Goes, Ends
<1>3. Placed(b)'
  BY <1>2, SessionsStay, PlacedStays DEF Ordered
<1>4. \A p \in Requests : ~At(p, "remove")
  BY IdleIs DEF RegisterLookup, CloseEntries, PurgeTrays, PurgeEntries, At
<1>5. Assigned(b)'
  BY <1>2, <1>4, FormAssigned, StaysAssigned DEF Ordered
<1>6. \A d \in Days : /\ \A m \in (sessions[d].items \cup form[b][d]) \ torn : assets[m] # None
                      /\ \A m \in saved[b][d] \ torn : assets[m] # None \/ (q.d = d /\ m \in Dropping(q))
  <2>1. \A p \in Requests \ {r} : Dropping(req[p]) = {}
    BY IdleIs
  <2> QED
    BY <2>1 DEF Ordered, Present
<1>7. CASE CloseEntries(r)
  <2>1. q.step = "closeEntries" /\ req' = [req EXCEPT ![r].drop = Unclaimed(r), ![r].step = "closeDrop"]
    BY <1>7 DEF CloseEntries, At
  <2>2. req'[r].step = "closeDrop" /\ req'[r].b = q.b /\ req'[r].write = q.write /\ req'[r].drop = Unclaimed(r)
    BY <1>1, <2>1 DEF Request
  <2>3. \A d \in Days : /\ Contents(q.seen) \cap (sessions[d].items \cup form[b][d]) = {}
                        /\ q.b = b
    BY <1>1, <2>1 DEF Doing
  <2>4. \A d \in Days : req'[r].drop \cap (sessions[d].items \cup form[b][d] \cup saved[b][d]) = {}
    BY <2>2, <2>3 DEF Unclaimed, SavedOf, Contents
  <2>5. Dropping(q) = {}
    BY <2>1 DEF Dropping, Saves
  <2>6. Present(b)'
    BY <1>2, <1>6, <2>5 DEF Present
  <2>7. Doing(r, b)'
    BY <1>1, <1>2, <2>2, <2>4 DEF Doing, Saves, Free
  <2> QED
    BY <1>1, <1>3, <1>5, <2>6, <2>7, OneMoves
<1>8. CASE PurgeTrays(r) \/ PurgeEntries(r)
  <2>1. /\ q.step \in {"trays", "entries"} /\ req'[r].step \in {"entries", "orphans"}
        /\ req'[r].b = q.b /\ req'[r].d = q.d /\ req'[r].media = q.media /\ req'[r].write = q.write
        /\ q.keep \subseteq req'[r].keep /\ req'[r].drop = q.drop
    BY <1>1, <1>8 DEF PurgeTrays, PurgeEntries, At, Request
  <2>2. (Saves(req'[r]) <=> Saves(q)) /\ Dropping(req'[r]) = Dropping(q)
    BY <2>1 DEF Saves, Dropping
  <2>3. Present(b)'
    BY <1>2, <1>6, <2>1, <2>2 DEF Present
  <2>4. q.b \in {None, b}
    BY <1>1 DEF Doing
  <2>5. \A d \in Days : Contents(sessions[d]) \subseteq req'[r].keep
    <3>1. CASE PurgeTrays(r)
      <4>1. req'[r].keep = q.keep \cup protectedMediaIds(r)
        BY <1>1, <3>1 DEF PurgeTrays, Request
      <4>2. ASSUME NEW d \in Days, ~InScope(r, sessions[d].branch)
            PROVE  Contents(sessions[d]) = {}
        <5>1. sessions[d].branch = None
          BY <2>4, <4>2 DEF InScope, Ordered, Placed
        <5>2. sessions[d] = Closed
          BY <5>1, SessionTypes
        <5> QED
          BY <5>2 DEF Closed, Contents
      <4>3. ASSUME NEW d \in Days, InScope(r, sessions[d].branch)
            PROVE  Contents(sessions[d]) \subseteq req'[r].keep
        BY <4>1, <4>3 DEF protectedMediaIds, Contents
      <4> QED
        BY <4>2, <4>3
    <3>2. CASE PurgeEntries(r)
      BY <1>1, <2>1, <3>2 DEF PurgeEntries, At, Doing
    <3> QED
      BY <1>8, <3>1, <3>2
  <2>6. req'[r].step = "orphans" => \A d \in Days : saved[b][d] \subseteq req'[r].keep
    <3>1. CASE PurgeEntries(r)
      <4>1. req'[r].keep = q.keep \cup UNION {SavedOf(c) : c \in {x \in Branches : InScope(r, x)}}
        BY <1>1, <3>1 DEF PurgeEntries, Request
      <4>2. InScope(r, b)
        BY <2>4 DEF InScope
      <4> QED
        BY <4>1, <4>2 DEF SavedOf
    <3>2. CASE PurgeTrays(r)
      BY <1>1, <3>2 DEF PurgeTrays, Request
    <3> QED
      BY <1>8, <3>1, <3>2
  <2>7. Saves(q) => /\ q.d \in Days /\ q.b = b /\ q.media \subseteq q.keep /\ q.drop = saved[b][q.d] \ q.media
                    /\ \A m \in q.media : m \in form[b][q.d] \cup saved[b][q.d] /\ (m \in torn \/ assets[m] # None)
    BY <1>1 DEF Doing
  <2>8. Doing(r, b)'
    BY <1>2, <2>1, <2>2, <2>4, <2>5, <2>6, <2>7 DEF Doing
  <2> QED
    BY <1>1, <1>3, <1>5, <2>3, <2>8, OneMoves
<1>9. CASE RegisterLookup(r)
  <2>1. q.step = "register" /\ (Ends(r) \/ (Goes(r, "registerWrite") /\ \A m \in q.media : assets[m] = q.seen.branch))
    BY <1>9 DEF RegisterLookup, At
  <2>2. q.b = b /\ q.d \in Days /\ q.seen = sessions[q.d] /\ q.seen.branch = b /\ \A d \in Days : q.media \cap Around(b, d) = {}
    BY <1>1, <2>1 DEF Doing, Fit
  <2>3. Dropping(q) = {} /\ b # None
    BY <2>1, ConstantsAssumption DEF Dropping, Saves
  <2>4. Present(b)'
    BY <1>2, <1>6, <2>3 DEF Present
  <2>5. CASE Ends(r)
    <3>1. req'[r] = Idle
      BY <2>5 DEF Ends
    <3>2. Doing(r, b)'
      BY <3>1, IdleIs DEF Doing
    <3> QED
      BY <1>1, <1>3, <1>5, <2>4, <3>2, OneMoves
  <2>6. CASE Goes(r, "registerWrite") /\ \A m \in q.media : assets[m] = q.seen.branch
    <3>1. req'[r].step = "registerWrite" /\ req'[r].b = b /\ req'[r].d = q.d /\ req'[r].seen = q.seen /\ req'[r].media = q.media
      BY <1>1, <2>2, <2>6 DEF Goes, Request
    <3>2. \A d \in Days : q.media \cap Around(b, d)' = {}
      BY <1>2, <2>2 DEF Around, Coming, Contents
    <3>3. Doing(r, b)'
      BY <1>2, <2>2, <2>3, <2>6, <3>1, <3>2 DEF Doing, Saves
    <3> QED
      BY <1>1, <1>3, <1>5, <2>4, <3>3, OneMoves
  <2> QED
    BY <2>1, <2>5, <2>6
<1> QED
  BY <1>7, <1>8, <1>9

(* The steps that write a session or an entry.                             *)
LEMMA WritesOrdered ==
  ASSUME Typed, Belongs, NEW b \in Branches, Ordered(b), NEW r \in Requests,
         CreateWrite(r) \/ RegisterWrite(r) \/ RemoveWrite(r) \/ CloseDelete(r) \/ Commit(r) \/ DayDelete(r),
         \A p \in Requests \ {r} : req[p] = Idle /\ req'[p] = Idle, scope' = scope
  PROVE  Ordered(b)'
<1> USE DEF Typed, TypeOK
<1> DEFINE q == req[r]
<1>1. q \in Request /\ Fit(q) /\ Doing(r, b) /\ scope.branches \subseteq {b}
  BY DEF Ordered
<1>2. UNCHANGED <<uploads, made, assets, torn>>
  BY DEF CreateWrite, RegisterWrite, RemoveWrite, CloseDelete, Commit, DayDelete, Continued, Goes, Ends
<1>3. Placed(b)
  BY DEF Ordered
<1>4. \A d \in Days : /\ \A m \in (sessions[d].items \cup form[b][d]) \ torn : assets[m] # None
                      /\ \A m \in saved[b][d] \ torn : assets[m] # None \/ (q.d = d /\ m \in Dropping(q))
  <2>1. \A p \in Requests \ {r} : Dropping(req[p]) = {}
    BY IdleIs
  <2> QED
    BY <2>1 DEF Ordered, Present
<1>5. ~At(r, "remove") => \A d \in Days : form[b][d] \ torn \subseteq sessions[d].retained \ sessions[d].items
  BY FormAssigned, IdleIs DEF Ordered, At
<1>6. ASSUME UNCHANGED <<form, saved>>, Dropping(q) = {},
             \A d \in Days : /\ sessions'[d].branch \in {None, b}
                             /\ sessions'[d].items \subseteq sessions[d].items
                             /\ Contents(sessions'[d]) \subseteq Contents(sessions[d])
                             /\ sessions'[d].items \cap sessions'[d].retained \subseteq torn
      PROVE  Placed(b)' /\ Present(b)'
  <2>1. \A d \in Days : /\ sessions'[d].items \cap (sessions'[d].retained \cup saved'[b][d]) \subseteq torn'
                        /\ form'[b][d] \cap saved'[b][d] \subseteq torn'
    BY <1>2, <1>3, <1>6 DEF Placed
  <2>2. \A c \in Branches \ {b}, d \in Days : form'[c][d] = {} /\ saved'[c][d] = {}
    BY <1>3, <1>6 DEF Placed
  <2>3. Placed(b)'
    BY <1>2, <1>3, <1>6, <2>1, <2>2, PlacedStays
  <2>4. Present(b)'
    BY <1>2, <1>4, <1>6 DEF Present
  <2> QED
    BY <2>3, <2>4
<1>7. ASSUME req'[r] = Idle
      PROVE  Doing(r, b)'
  BY <1>7, IdleIs DEF Doing
<1>8. CASE CreateWrite(r)
  <2>1. q.step = "createWrite" /\ req'[r] = Idle /\ UNCHANGED <<form, saved>>
    BY <1>8 DEF CreateWrite, At, Ends
  <2>2. q.b = b /\ q.d \in Days /\ q.seen = sessions[q.d]
    BY <1>1, <2>1 DEF Doing
  <2> DEFINE s == IF q.seen.branch = q.b THEN q.seen ELSE [Closed EXCEPT !.branch = q.b]
  <2>3. sessions' = [sessions EXCEPT ![q.d] = s]
    BY <1>8 DEF CreateWrite
  <2>4. s.items = sessions[q.d].items /\ s.retained = sessions[q.d].retained /\ s.branch = b
    <3>1. CASE q.seen.branch = b
      BY <2>2, <3>1
    <3>2. CASE q.seen.branch # b
      <4>1. q.seen.branch = None
        BY <1>3, <2>2, <3>2 DEF Placed
      <4>2. q.seen = Closed
        BY <2>2, <4>1, SessionTypes
      <4> QED
        BY <2>2, <3>2, <4>2, OpenedIsSession DEF Closed
    <3> QED
      BY <3>1, <3>2
  <2> HIDE DEF s
  <2>5. \A d \in Days : /\ sessions'[d].branch \in {None, b}
                        /\ sessions'[d].items = sessions[d].items /\ sessions'[d].retained = sessions[d].retained
    BY <1>3, <2>3, <2>4 DEF Placed
  <2>6. Placed(b)' /\ Present(b)'
    BY <1>3, <1>6, <2>1, <2>5 DEF Contents, Placed, Saves, Dropping
  <2>7. Assigned(b)'
    BY <1>2, <1>5, <2>1, <2>5, StaysAssigned DEF At
  <2> QED
    BY <1>1, <1>7, <2>1, <2>6, <2>7, OneMoves
<1>9. CASE RegisterWrite(r)
  <2>1. q.step = "registerWrite" /\ req'[r] = Idle /\ UNCHANGED <<form, saved>>
    BY <1>9 DEF RegisterWrite, At, Ends
  <2>2. /\ q.b = b /\ q.d \in Days /\ q.seen = sessions[q.d] /\ q.seen \in Session
        /\ \A d \in Days : q.media \cap Around(b, d) = {}
        /\ \A m \in q.media : assets[m] # None
    BY <1>1, <2>1 DEF Doing, Fit
  <2>3. QED
    <3> DEFINE s == [q.seen EXCEPT !.items = @ \cup q.media]
    <3>1. sessions' = [sessions EXCEPT ![q.d] = s]
      BY <1>9 DEF RegisterWrite
    <3>2. s.items = sessions[q.d].items \cup q.media /\ s.retained = sessions[q.d].retained /\ s.branch = sessions[q.d].branch
      BY <2>2 DEF Session
    <3>3. \A m \in q.media : m \in made /\ assets[m] # None
      BY <2>2 DEF Belongs, Owned
    <3> HIDE DEF s
    <3>4. /\ sessions'[q.d].items = sessions[q.d].items \cup q.media
          /\ sessions'[q.d].retained = sessions[q.d].retained
          /\ \A d \in Days \ {q.d} : sessions'[d] = sessions[d]
      BY <2>2, <3>1, <3>2
    <3>5. \A d \in Days : sessions'[d].branch = sessions[d].branch
      BY <2>2, <3>1, <3>2
    <3> DEFINE Come(d) == {m \in Media : <<d, m>> \in uploads'}
               All(d) == Contents(sessions'[d]) \cup Come(d) \cup form'[b][d] \cup saved'[b][d]
    <3>6. \A d \in Days : Come(d) = Coming(d)
      BY <1>2 DEF Coming
    <3>7. All(q.d) = Around(b, q.d) \cup q.media /\ \A d \in Days \ {q.d} : All(d) = Around(b, d)
      BY <2>1, <2>2, <3>4, <3>6 DEF Around, Contents
    <3>8. \A d, e \in Days : d # e => All(d) \cap All(e) = {}
      <4> HIDE DEF All
      <4>1. \A d, e \in Days : d # e => Around(b, d) \cap Around(b, e) = {}
        BY <1>3 DEF Placed
      <4>2. All(q.d) = Around(b, q.d) \cup q.media /\ \A d \in Days \ {q.d} : All(d) = Around(b, d)
        BY <3>7
      <4>3. q.d \in Days /\ \A d \in Days : q.media \cap Around(b, d) = {}
        BY <2>2
      <4> HIDE DEF q
      <4>4. ASSUME NEW d \in Days \ {q.d}
            PROVE  All(d) \cap All(q.d) = {}
        <5>1. All(d) = Around(b, d) /\ Around(b, d) \cap Around(b, q.d) = {} /\ q.media \cap Around(b, d) = {}
          BY <4>1, <4>2, <4>3, <4>4
        <5> QED
          BY <4>2, <5>1
      <4> QED
        BY <4>1, <4>2, <4>4
    <3>9. \A d \in Days : sessions'[d].branch \in {None, b} /\ All(d) \subseteq made'
      BY <1>2, <1>3, <3>3, <3>5, <3>7 DEF Placed
    <3>10. \A d \in Days : Come(d) \cap (Contents(sessions'[d]) \cup form'[b][d] \cup saved'[b][d]) = {}
      <4>1. Come(q.d) \cap (Contents(sessions'[q.d]) \cup form'[b][q.d] \cup saved'[b][q.d]) = {}
        <5>1. q.media \cap Coming(q.d) = {}
          BY <2>2 DEF Around
        <5>2. Coming(q.d) \cap (Contents(sessions[q.d]) \cup form[b][q.d] \cup saved[b][q.d]) = {}
          BY <1>3, <2>2 DEF Placed
        <5>3. Contents(sessions'[q.d]) = Contents(sessions[q.d]) \cup q.media
          BY <3>4 DEF Contents
        <5> QED
          BY <2>1, <2>2, <3>6, <5>1, <5>2, <5>3
      <4> QED
        BY <1>3, <2>1, <3>4, <3>6, <4>1 DEF Placed
    <3>11. \A d \in Days : /\ sessions'[d].items \cap (sessions'[d].retained \cup saved'[b][d]) \subseteq torn'
                           /\ form'[b][d] \cap saved'[b][d] \subseteq torn'
      <4>1. q.media \cap (sessions[q.d].retained \cup saved[b][q.d]) = {}
        BY <2>2 DEF Around, Contents
      <4> QED
        BY <1>2, <1>3, <2>1, <3>4, <4>1 DEF Placed
    <3>12. /\ \A m \in Media : assets'[m] \in {None, b}
           /\ \A c \in Branches \ {b}, d \in Days : form'[c][d] = {} /\ saved'[c][d] = {}
      BY <1>2, <1>3, <2>1 DEF Placed
    <3>13. Placed(b)'
      BY <3>8, <3>9, <3>10, <3>11, <3>12 DEF Placed, Around, Coming, Contents
    <3>14. Present(b)'
      <4>1. Dropping(q) = {}
        BY <2>1 DEF Dropping, Saves
      <4> QED
        BY <1>2, <1>4, <2>1, <3>3, <3>4, <4>1 DEF Present
    <3>15. \A d \in Days : form'[b][d] \ torn \subseteq sessions'[d].retained \ sessions'[d].items
      <4>1. q.media \cap form[b][q.d] = {}
        BY <2>2 DEF Around
      <4> QED
        BY <1>5, <2>1, <3>4, <4>1 DEF At
    <3> QED
      BY <1>1, <1>2, <1>7, <2>1, <3>13, <3>14, <3>15, StaysAssigned, OneMoves
<1>10. CASE RemoveWrite(r)
  <2>1. q.step = "remove" /\ UNCHANGED <<form, saved>>
    BY <1>10 DEF RemoveWrite, At
  <2>2. /\ q.b = b /\ q.d \in Days /\ q.seen = sessions[q.d] /\ q.seen \in Session /\ q.media \subseteq q.seen.items
        /\ IF q.write THEN q.media \subseteq form[b][q.d] ELSE q.media \cap form[b][q.d] \subseteq torn
    BY <1>1, <2>1 DEF Doing, Fit
  <2> DEFINE kept == IF q.write THEN q.media ELSE {}
             s == [q.seen EXCEPT !.items = @ \ q.media, !.retained = @ \cup kept]
  <2>3. sessions' = [sessions EXCEPT ![q.d] = s]
    BY <1>10 DEF RemoveWrite
  <2>4. /\ s.items = sessions[q.d].items \ q.media /\ s.retained = sessions[q.d].retained \cup kept
        /\ s.branch = sessions[q.d].branch
    BY <2>2 DEF Session
  <2> HIDE DEF s
  <2>5. /\ sessions'[q.d].items = sessions[q.d].items \ q.media
        /\ sessions'[q.d].retained = sessions[q.d].retained \cup kept
        /\ \A d \in Days \ {q.d} : sessions'[d] = sessions[d]
    BY <2>2, <2>3, <2>4
  <2>6. \A d \in Days : sessions'[d].branch = sessions[d].branch
    BY <2>2, <2>3, <2>4
  <2>7. Placed(b)' /\ Present(b)'
    <3>1. /\ Contents(sessions'[q.d]) \subseteq Contents(sessions[q.d])
          /\ sessions'[q.d].items \cap sessions'[q.d].retained \subseteq torn
      BY <1>3, <2>2, <2>5 DEF Contents, Placed
    <3>2. \A d \in Days : /\ sessions'[d].branch \in {None, b}
                          /\ sessions'[d].items \subseteq sessions[d].items
                          /\ Contents(sessions'[d]) \subseteq Contents(sessions[d])
                          /\ sessions'[d].items \cap sessions'[d].retained \subseteq torn
      BY <1>3, <2>5, <2>6, <3>1 DEF Placed
    <3> QED
      BY <1>6, <2>1, <3>2 DEF Saves, Dropping
  <2>8. Assigned(b)'
    <3>1. ASSUME NEW d \in Days, NEW m \in form[b][d] \ torn
          PROVE  m \in sessions'[d].retained \ sessions'[d].items
      <4>1. CASE m \in sessions[d].retained /\ m \notin sessions[d].items
        BY <2>5, <4>1
      <4>2. CASE q.write /\ q.d = d /\ m \in q.media
        BY <2>5, <4>2
      <4> QED
        BY <3>1, <4>1, <4>2, IdleIs DEF Ordered, Assigned, At
    <3> QED
      BY <1>2, <2>1, <3>1, StaysAssigned
  <2>9. CASE q.write
    <3>1. req'[r] = Idle
      BY <1>10, <2>9 DEF RemoveWrite, Ends
    <3> QED
      BY <1>1, <1>7, <2>7, <2>8, <3>1, OneMoves
  <2>10. CASE ~q.write
    <3>1. req' = [req EXCEPT ![r].step = "removeDrop"]
      BY <1>10, <2>10 DEF RemoveWrite, Goes
    <3>2. req'[r].step = "removeDrop" /\ req'[r].b = b /\ req'[r].media = q.media /\ ~req'[r].write
      BY <1>1, <2>2, <2>10, <3>1 DEF Request
    <3>3. q.media \cap (sessions'[q.d].items \cup form[b][q.d] \cup saved[b][q.d]) \subseteq torn
      BY <1>3, <2>2, <2>5, <2>10 DEF Placed
    <3>4. ASSUME NEW d \in Days \ {q.d}
          PROVE  q.media \cap (sessions'[d].items \cup form[b][d] \cup saved[b][d]) = {}
      <4>1. Around(b, d) \cap Around(b, q.d) = {}
        BY <1>3, <2>2, <3>4 DEF Placed
      <4> QED
        BY <2>2, <2>5, <4>1 DEF Around, Contents
    <3>5. Doing(r, b)'
      BY <1>2, <2>1, <3>2, <3>3, <3>4 DEF Doing, Free, Saves
    <3> QED
      BY <1>1, <2>7, <2>8, <3>5, OneMoves
  <2> QED
    BY <2>9, <2>10
<1>11. CASE CloseDelete(r)
  <2>1. /\ q.step = "closeDelete" /\ UNCHANGED <<form, saved>> /\ req' = [req EXCEPT ![r].step = "closeEntries"]
        /\ sessions' = [sessions EXCEPT ![q.d] = Closed]
    BY <1>11 DEF CloseDelete, At, Goes
  <2>2. q.b = b /\ q.d \in Days /\ q.seen = sessions[q.d] /\ form[b][q.d] = {}
    BY <1>1, <2>1 DEF Doing
  <2>3. /\ sessions'[q.d].items = {} /\ sessions'[q.d].retained = {} /\ sessions'[q.d].branch = None
        /\ \A d \in Days \ {q.d} : sessions'[d] = sessions[d]
    BY <2>1, <2>2 DEF Closed
  <2>4. \A d \in Days : /\ sessions'[d].branch \in {None, b}
                        /\ sessions'[d].items \subseteq sessions[d].items
                        /\ Contents(sessions'[d]) \subseteq Contents(sessions[d])
                        /\ sessions'[d].items \cap sessions'[d].retained \subseteq torn
    BY <1>3, <2>3 DEF Placed, Contents
  <2>5. Placed(b)' /\ Present(b)'
    BY <1>6, <2>1, <2>4 DEF Saves, Dropping
  <2>6. Assigned(b)'
    <3>1. \A d \in Days : form'[b][d] \ torn \subseteq sessions'[d].retained \ sessions'[d].items
      BY <1>5, <2>1, <2>2, <2>3 DEF At
    <3> QED
      BY <1>2, <3>1, StaysAssigned
  <2>7. req'[r].step = "closeEntries" /\ req'[r].b = b /\ req'[r].seen = sessions[q.d] /\ ~req'[r].write
    BY <1>1, <2>1, <2>2 DEF Request, Fit
  <2>8. ASSUME NEW d \in Days
        PROVE  Contents(sessions[q.d]) \cap (sessions'[d].items \cup form[b][d]) = {}
    <3>1. CASE d = q.d
      BY <2>2, <2>3, <3>1
    <3>2. CASE d # q.d
      <4>1. Around(b, d) \cap Around(b, q.d) = {}
        BY <1>3, <2>2, <3>2 DEF Placed
      <4> QED
        BY <2>3, <3>2, <4>1 DEF Around, Contents
    <3> QED
      BY <3>1, <3>2
  <2>9. Doing(r, b)'
    BY <2>1, <2>7, <2>8 DEF Doing, Saves, Contents
  <2> QED
    BY <1>1, <2>5, <2>6, <2>9, OneMoves
<1>12. CASE Commit(r)
  <2>1. /\ q.step = "commit" /\ UNCHANGED sessions /\ req'[r] = Idle
        /\ saved' = [saved EXCEPT ![q.b][q.d] = q.media]
        /\ form' = [form EXCEPT ![q.b][q.d] = @ \ q.media]
    BY <1>12 DEF Commit, At, Ends
  <2>2. /\ Saves(q) /\ q.b = b /\ q.d \in Days
        /\ \A m \in q.media : m \in form[b][q.d] \cup saved[b][q.d] /\ (m \in torn \/ assets[m] # None)
    BY <1>1, <2>1 DEF Doing, Fit, Saves
  <2>3. /\ saved'[b][q.d] = q.media /\ form'[b][q.d] = form[b][q.d] \ q.media
        /\ \A d \in Days \ {q.d} : saved'[b][d] = saved[b][d] /\ form'[b][d] = form[b][d]
        /\ \A c \in Branches \ {b}, d \in Days : saved'[c][d] = saved[c][d] /\ form'[c][d] = form[c][d]
    BY <2>1, <2>2
  <2>4. \A d \in Days : form[b][d] \ torn \subseteq sessions[d].retained \ sessions[d].items
    BY <1>5, <2>1 DEF At
  <2>5. \A d \in Days : /\ sessions[d].items \cap (sessions[d].retained \cup saved'[b][d]) \subseteq torn'
                        /\ form'[b][d] \cap saved'[b][d] \subseteq torn'
    BY <1>2, <1>3, <2>2, <2>3, <2>4 DEF Placed
  <2>6. \A d \in Days : /\ form'[b][d] \subseteq form[b][d]
                        /\ saved'[b][d] \subseteq form[b][d] \cup saved[b][d]
    BY <2>2, <2>3
  <2>7. /\ \A c \in Branches \ {b}, d \in Days : form'[c][d] = {} /\ saved'[c][d] = {}
        /\ \A d \in Days : sessions'[d].branch \in {None, b}
    BY <1>3, <2>1, <2>3 DEF Placed
  <2>8. Placed(b)'
    BY <1>2, <1>3, <2>1, <2>5, <2>6, <2>7, PlacedStays
  <2>9. Present(b)'
    BY <1>2, <1>4, <2>1, <2>2, <2>3, <2>6 DEF Present
  <2>10. Assigned(b)'
    BY <1>2, <2>1, <2>4, <2>6, StaysAssigned
  <2> QED
    BY <1>1, <1>7, <2>1, <2>8, <2>9, <2>10, OneMoves
<1>13. CASE DayDelete(r)
  <2>1. /\ q.step = "dayDelete" /\ UNCHANGED <<sessions, form>> /\ req'[r] = Idle
        /\ saved' = [saved EXCEPT ![q.b][q.d] = {}]
    BY <1>13 DEF DayDelete, At
  <2>2. q.b = b /\ q.d \in Days
    BY <1>1, <2>1 DEF Doing
  <2>3. /\ saved'[b][q.d] = {} /\ \A d \in Days \ {q.d} : saved'[b][d] = saved[b][d]
        /\ \A c \in Branches \ {b}, d \in Days : saved'[c][d] = saved[c][d]
    BY <2>1, <2>2
  <2>4. \A d \in Days : form[b][d] \ torn \subseteq sessions[d].retained \ sessions[d].items
    BY <1>5, <2>1 DEF At
  <2>5. \A d \in Days : /\ sessions[d].items \cap (sessions[d].retained \cup saved'[b][d]) \subseteq torn'
                        /\ form'[b][d] \cap saved'[b][d] \subseteq torn'
                        /\ saved'[b][d] \subseteq saved[b][d]
    BY <1>2, <1>3, <2>1, <2>3 DEF Placed
  <2>6. /\ \A c \in Branches \ {b}, d \in Days : form'[c][d] = {} /\ saved'[c][d] = {}
        /\ \A d \in Days : sessions'[d].branch \in {None, b}
    BY <1>3, <2>1, <2>3 DEF Placed
  <2>7. Placed(b)'
    BY <1>2, <1>3, <2>1, <2>5, <2>6, PlacedStays
  <2>8. Present(b)'
    BY <1>2, <1>4, <2>1, <2>3 DEF Present
  <2>9. Assigned(b)'
    BY <1>2, <2>1, <2>4, StaysAssigned
  <2> QED
    BY <1>1, <1>7, <2>1, <2>7, <2>8, <2>9, OneMoves
<1> QED
  BY <1>8, <1>9, <1>10, <1>11, <1>12, <1>13

(* A photo presigned is new, and of the open session's day.                *)
LEMMA PresignOrdered ==
  ASSUME Typed, Belongs, NEW b \in Branches, Ordered(b), NEW day \in Days, NEW photo \in Media, Presign(day, photo)
  PROVE  Ordered(b)'
<1> USE DEF Typed, TypeOK
<1>1. /\ UNCHANGED <<scope, sessions, form, saved, req, torn>> /\ uploads' = uploads \cup {<<day, photo>>}
      /\ photo \notin made /\ made' = made \cup {photo} /\ assets' = [assets EXCEPT ![photo] = sessions[day].branch]
  BY DEF Presign, Sent
<1>2. sessions[day].branch = b
  BY SessionTypes DEF Presign, Room, Open, Ordered, Placed
<1>3. b # None
  BY ConstantsAssumption
<1>4. assets'[photo] = b /\ \A m \in Media \ {photo} : assets'[m] = assets[m]
  BY <1>1, <1>2
<1>5. Placed(b)
  BY DEF Ordered
<1> DEFINE Come(d) == {m \in Media : <<d, m>> \in uploads'}
           All(d) == Contents(sessions[d]) \cup Come(d) \cup form[b][d] \cup saved[b][d]
<1>6. Come(day) = Coming(day) \cup {photo} /\ \A d \in Days \ {day} : Come(d) = Coming(d)
  BY <1>1 DEF Coming
<1>7. \A d \in Days : photo \notin Around(b, d)
  BY <1>1, <1>5 DEF Placed
<1>8. All(day) = Around(b, day) \cup {photo} /\ \A d \in Days \ {day} : All(d) = Around(b, d)
  BY <1>6 DEF Around
<1>9. Placed(b)'
  <2>1. \A d, e \in Days : d # e => All(d) \cap All(e) = {}
    BY <1>5, <1>7, <1>8 DEF Placed
  <2>2. \A d \in Days : All(d) \subseteq made'
    BY <1>1, <1>5, <1>8 DEF Placed
  <2>3. \A d \in Days : Come(d) \cap (Contents(sessions[d]) \cup form[b][d] \cup saved[b][d]) = {}
    BY <1>5, <1>6, <1>7 DEF Placed, Around
  <2>4. \A m \in Media : assets'[m] \in {None, b}
    BY <1>4, <1>5 DEF Placed
  <2> QED
    BY <1>1, <1>5, <2>1, <2>2, <2>3, <2>4 DEF Placed, Around, Coming, Contents
<1>10. Assigned(b)'
  BY <1>1 DEF Ordered, Assigned, At
<1>11. \A d \in Days : \A m \in Contents(sessions[d]) \cup form[b][d] \cup saved[b][d] : m \in Media
  BY SessionTypes
<1>12. Present(b)'
  <2>1. \A m \in Media : assets[m] # None => assets'[m] # None
    BY <1>3, <1>4
  <2> QED
    BY <1>1, <1>11, <2>1 DEF Ordered, Present, At, Contents
<1>13. ASSUME NEW r \in Requests
       PROVE  Doing(r, b)'
  <2>1. Doing(r, b) /\ req[r] \in Request /\ photo \notin req[r].media
    BY <1>1 DEF Ordered, Belongs, Owned
  <2>2. (\A d \in Days : req[r].media \cap Around(b, d) = {}) => \A d \in Days : req[r].media \cap All(d) = {}
    BY <1>8, <2>1
  <2>3. \A m \in Media : assets[m] # None => assets'[m] # None
    BY <1>3, <1>4
  <2>4. \A m \in req[r].media : m \in Media
    BY <2>1 DEF Request
  <2>5. At(r, "register") \/ At(r, "registerWrite") => \A d \in Days : req[r].media \cap Around(b, d)' = {}
    BY <1>1, <2>1, <2>2 DEF Doing, At, Around, Coming, Contents
  <2>6. /\ Saves(req[r]) => \A m \in req[r].media : m \in torn \/ assets'[m] # None
        /\ At(r, "registerWrite") => \A m \in req[r].media : assets'[m] # None
    BY <2>1, <2>3, <2>4 DEF Doing, At
  <2> QED
    BY <1>1, <2>1, <2>5, <2>6 DEF Doing, At, Free
<1>14. One' /\ scope'.branches \subseteq {b}
  BY <1>1 DEF Ordered, One
<1> QED
  BY <1>9, <1>10, <1>12, <1>13, <1>14 DEF Ordered

LEMMA NextOrdered ==
  ASSUME Typed, Belongs, Alone, NEW b \in Branches, Ordered(b), [Next]_vars
  PROVE  Ordered(b)'
<1>1. ASSUME NEW r \in Requests, Continue(r)
      PROVE  Ordered(b)'
  <2>1. \A p \in Requests \ {r} : req[p] = Idle /\ req'[p] = Idle
    BY <1>1, ContinuesOne DEF Ordered, One
  <2>2. scope' = scope
    BY <1>1, ContinuesOne
  <2>3. ~CreateDrop(r)
    BY DEF CreateDrop, At, Ordered, Doing
  <2> QED
    BY <1>1, <2>1, <2>2, <2>3, DropsOrdered, ReadsOrdered, WritesOrdered DEF Continue
<1>2. ASSUME NEW r \in Requests, Begin(r), ~Startup(r)
      PROVE  Ordered(b)'
  BY <1>2, BeginOrdered DEF Alone
<1>5. ASSUME NEW r \in Requests, Startup(r)
      PROVE  Ordered(b)'
  <2> DEFINE q == [Idle EXCEPT !.step = "trays"]
  <2>1. q.step = "trays" /\ q.b = None /\ ~q.write
    BY IdleIs DEF Idle
  <2>2. req'[r] = q /\ \A p \in Requests \ {r} : req'[p] = Idle
    BY <1>5 DEF Startup
  <2>3. /\ UNCHANGED <<sessions, assets, made, uploads, form, saved, scope>>
        /\ torn \subseteq torn' /\ \A p \in Requests : HalfDone(req[p]) \subseteq torn'
    BY <1>5 DEF Startup
  <2> HIDE DEF q
  <2>4. Doing(r, b)'
    BY <2>1, <2>2 DEF Doing, Saves
  <2> QED
    BY <2>2, <2>3, <2>4, LapsesOrdered
<1>6. ASSUME NEW r \in Requests, Fails(r)
      PROVE  Ordered(b)'
  <2>1. \A p \in Requests \ {r} : req[p] = Idle /\ req'[p] = Idle
    BY <1>6, FailsOne DEF Ordered, One
  <2>2. torn' = torn \cup HalfDone(req[r])
    BY <1>6 DEF Fails
  <2>3. \A p \in Requests : HalfDone(req[p]) \subseteq torn'
    BY <2>1, <2>2, IdleIs
  <2>4. Doing(r, b)'
    BY <1>6, FailsOne, IdleIs DEF Doing
  <2> QED
    BY <1>6, <2>1, <2>2, <2>3, <2>4, FailsOne, LapsesOrdered
<1>3. ASSUME NEW d \in scope.days, NEW m \in Media, Presign(d, m)
      PROVE  Ordered(b)'
  <2>1. d \in Days
    BY ScopeType DEF Typed, Scope
  <2> QED
    BY <1>3, <2>1, PresignOrdered
<1>4. CASE UNCHANGED vars
  BY <1>4 DEF vars, Ordered, One, Placed, Assigned, Present, Doing, Around, Coming, Contents, Free, At,
         Dropping
<1> QED
  BY <1>1, <1>2, <1>3, <1>4, <1>5, <1>6 DEF Next, UploadOnForm, Alone

(* With one branch and one request at a time, what lies on an open tray    *)
(* exists, and what saved entries refer to when nothing is in flight, but  *)
(* for the photos a failed request was in the middle of.                   *)
THEOREM MediaThere == Spec => []MediaExists
<1>1. Init => Orderly
  <2> SUFFICES ASSUME Init, Alone
               PROVE  \E b \in Branches : Ordered(b)
    BY DEF Orderly
  <2>1. PICK b \in Branches : scope.branches \subseteq {b}
    BY DEF Alone
  <2>2. One /\ \A r \in Requests : Doing(r, b)
    BY IdleIs DEF Init, One, Doing
  <2>3. Placed(b) /\ Assigned(b) /\ Present(b)
    BY DEF Init, Placed, Assigned, Present, Around, Coming, Contents, Closed
  <2> QED
    BY <2>1, <2>2, <2>3 DEF Ordered
<1>2. Typed /\ Belongs /\ Orderly /\ [Next]_vars => Orderly'
  <2> SUFFICES ASSUME Typed, Belongs, Orderly, [Next]_vars, Alone'
               PROVE  \E b \in Branches : Ordered(b)'
    BY DEF Orderly
  <2>1. scope' = scope
    BY BeginsOne, ContinuesOne, FailsOne DEF Next, vars, Presign, UploadOnForm, Sent
  <2>2. Alone
    BY <2>1 DEF Alone
  <2> QED
    BY <2>2, NextOrdered DEF Orderly
<1>3. Typed /\ Orderly => MediaExists
  <2> SUFFICES ASSUME Typed, Orderly, Alone
               PROVE  /\ \A d \in Days : sessions[d].items \subseteq Alive \cup torn
                      /\ (\A r \in Requests : req[r] = Idle)
                           => \A b \in Branches, d \in Days : saved[b][d] \subseteq Alive \cup torn
    BY DEF MediaExists
  <2>1. PICK b \in Branches : Ordered(b)
    BY DEF Orderly
  <2>2. \A d \in Days : sessions[d].items \subseteq Media /\ \A c \in Branches : saved[c][d] \subseteq Media
    BY SessionTypes DEF Typed, TypeOK
  <2>3. \A d \in Days : sessions[d].items \subseteq Alive \cup torn
    BY <2>1, <2>2 DEF Ordered, Present, Alive
  <2>4. ASSUME \A r \in Requests : req[r] = Idle, NEW c \in Branches, NEW d \in Days
        PROVE  saved[c][d] \subseteq Alive \cup torn
    <3>1. CASE c = b
      BY <2>1, <2>2, <2>4, <3>1, IdleIs DEF Ordered, Present, Alive
    <3>2. CASE c # b
      BY <2>1, <2>4, <3>2 DEF Ordered, Placed
    <3> QED
      BY <3>1, <3>2
  <2> QED
    BY <2>3, <2>4
<1> QED
  BY <1>1, <1>2, <1>3, MediaBelong, PTL DEF Spec
=============================================================================
