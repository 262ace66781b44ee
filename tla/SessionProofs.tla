---------------------------- MODULE SessionProofs ---------------------------
(***************************************************************************)
(* Session implements SessionPromise when the next user waits for the calls*)
(* of the one before and no other tab signs anybody in, for any users,     *)
(* calls and pairs.                                                        *)
(*                                                                         *)
(* The invariant behind it: whatever the terminal has in hand, the stored  *)
(* pair, the refresh, the pairs of calls and their makers, belongs to one  *)
(* user, the last to sign in.                                              *)
(*                                                                         *)
(* Further, that a session ends by signing out only (SessionEndsBySigning- *)
(* Out), and that signing out leaves no token (SigningOutClears).          *)
(*                                                                         *)
(* The last part is about the accounts users sign in with: StaffSeats keeps*)
(* its types, for any accounts, numbers of seats and sequence of requests, *)
(* and, until requests overlap, active admins never outnumber their        *)
(* seats.                                                                  *)
(***************************************************************************)
EXTENDS Session, StaffSeats, FiniteSetTheorems, TLAPS

Call == [step : {"idle", "sent", "served", "refused", "waiting"}, by : Users \cup {None},
         pair : Pairs \cup {None}, retried : BOOLEAN, out : BOOLEAN]

Login == [step : {"none", "sent", "granted", "refused"}, user : Users \cup {None}, pair : Pairs \cup {None}]

(* The types of tokens, calls, the refresh and the logins.                 *)
TypeOK ==
  /\ mode \in Modes
  /\ owner \in [Pairs -> Users \cup {None}]
  /\ live \in SUBSET Pairs
  /\ stored \in Pairs \cup {None}
  /\ began \in Pairs \cup {None}
  /\ session \in Users \cup {None} /\ remembered \in Users \cup {None}
  /\ flight \in [step : {"none", "sent", "answered"}, pair : Pairs \cup {None}, new : Pairs \cup {None}]
  /\ flight.step = "sent" => flight.pair # None
  /\ calls \in [Calls -> Call]
  /\ late \in BOOLEAN
  /\ logins \in [Logins -> Login]
  /\ \A k \in Logins : logins[k].step = "granted" <=> logins[k].pair # None
  /\ \A k \in Logins : logins[k].step = "granted" => logins[k].user \in Users

(* A call is its maker's, and so is the token it is sent with.             *)
Fine(call) ==
  /\ call = Quiet \/ (call.by = remembered /\ remembered # None /\ call.step # "idle")
  /\ call.pair # None => owner[call.pair] = remembered
  /\ call.step = "served" => call.pair # None

OneUser ==
  /\ session # None => session = remembered
  /\ session = None <=> began = None
  /\ began # None => owner[began] = remembered
  /\ stored # None => owner[stored] = remembered /\ remembered # None
  /\ flight.pair # None => owner[flight.pair] = remembered /\ remembered # None
  /\ flight.new # None => owner[flight.new] = remembered /\ remembered # None
  /\ \A c \in Calls : Fine(calls[c])
  /\ \A k \in Logins : logins[k].pair # None => owner[logins[k].pair] = logins[k].user
  /\ logins["confirm"] # NoLogin => logins["confirm"].user = remembered
  /\ logins["signIn"] # NoLogin =>
       /\ session = None /\ flight = NoFlight /\ logins["confirm"] = NoLogin
       /\ \A c \in Calls : calls[c] = Quiet

Inv == TypeOK /\ OneUser

-----------------------------------------------------------------------------
(* Issuing a pair to the user in hand changes no owner of a pair in hand.  *)
LEMMA IssuedFacts ==
  ASSUME TypeOK, NEW p \in Pairs, NEW u \in Users, Issued(p, u)
  PROVE  /\ owner' \in [Pairs -> Users \cup {None}]
         /\ live' \in SUBSET Pairs
         /\ owner'[p] = u
         /\ \A q \in Pairs \cap InHand : owner'[q] = owner[q]
  BY DEF TypeOK, Issued, Spare

(* A step of one call, of pairs whose owners stay as they are.             *)
LEMMA OneCall ==
  ASSUME Inv, UNCHANGED <<owner, remembered>>, NEW c \in Calls, NEW r \in Call, Fine(r),
         calls' = [calls EXCEPT ![c] = r]
  PROVE  calls' \in [Calls -> Call] /\ \A d \in Calls : Fine(calls[d])'
  BY DEF Inv, TypeOK, OneUser, Fine

(* A step of one login, and what the API does for it.                      *)
LEMMA OneLogin ==
  ASSUME TypeOK, NEW k \in Logins, NEW r \in Login, logins' = [logins EXCEPT ![k] = r],
         r.step = "granted" <=> r.pair # None, r.step = "granted" => r.user \in Users
  PROVE  /\ logins' \in [Logins -> Login]
         /\ logins'[k] = r /\ \A j \in Logins \ {k} : logins'[j] = logins[j]
         /\ \A j \in Logins : logins'[j].step = "granted" <=> logins'[j].pair # None
         /\ \A j \in Logins : logins'[j].step = "granted" => logins'[j].user \in Users
  BY DEF TypeOK

LEMMA NoLoginTyped == NoLogin \in Login /\ NoLogin.step = "none" /\ NoLogin.pair = None
  BY DEF NoLogin, Login

LEMMA AskedFacts ==
  ASSUME TypeOK, NEW k \in Logins, NEW u \in Users \cup {None}, Asked(k, u)
  PROVE  /\ logins' \in [Logins -> Login]
         /\ logins'[k].step = "sent" /\ logins'[k].user = u /\ logins'[k].pair = None
         /\ \A j \in Logins \ {k} : logins'[j] = logins[j]
         /\ logins[k] = NoLogin
         /\ TypeOK'
<1> DEFINE r == [NoLogin EXCEPT !.step = "sent", !.user = u]
<1>1. r \in Login /\ r.step = "sent" /\ r.user = u /\ r.pair = None
  BY DEF NoLogin, Login
<1>2. logins' = [logins EXCEPT ![k] = r]
  BY DEF Asked
<1> HIDE DEF r
<1> QED
  BY <1>1, <1>2, OneLogin DEF Asked, TypeOK, api, browser

(* A login that ends, well or not.                                         *)
LEMMA LoginGone ==
  ASSUME TypeOK, NEW k \in Logins, logins' = [logins EXCEPT ![k] = NoLogin]
  PROVE  /\ logins' \in [Logins -> Login]
         /\ logins'[k] = NoLogin /\ logins'[k].pair = None
         /\ \A j \in Logins \ {k} : logins'[j] = logins[j]
         /\ \A j \in Logins : logins'[j].step = "granted" <=> logins'[j].pair # None
         /\ \A j \in Logins : logins'[j].step = "granted" => logins'[j].user \in Users
  BY OneLogin, NoLoginTyped

LEMMA LoginServed ==
  ASSUME TypeOK, active \in SUBSET Users, NEW k \in Logins, loginWithEmail(k)
  PROVE  /\ TypeOK'
         /\ logins[k].step = "sent" /\ logins[k].pair = None
         /\ logins'[k].user = logins[k].user /\ \A j \in Logins \ {k} : logins'[j] = logins[j]
         /\ spent' = spent \ Spare
         /\ UNCHANGED <<active, browser, flight, calls, mode>>
         /\ \/ logins'[k].pair = None /\ UNCHANGED <<owner, live, young>>
            \/ \E p \in Pairs : logins[k].user \in Users /\ Issued(p, logins[k].user) /\ logins'[k].pair = p
<1>1. logins[k].step = "sent" /\ logins[k].pair = None /\ logins[k] \in Login
  BY DEF loginWithEmail, TypeOK
<1>2. spent' = spent \ Spare /\ UNCHANGED <<active, browser, flight, calls, mode>>
  BY DEF loginWithEmail
<1>3. CASE logins[k].user \in active
  <2>1. PICK p \in Pairs : /\ Issued(p, logins[k].user)
                            /\ logins' = [logins EXCEPT ![k].step = "granted", ![k].pair = p]
    BY <1>3 DEF loginWithEmail
  <2> DEFINE r == [logins[k] EXCEPT !.step = "granted", !.pair = p]
  <2>2. logins' = [logins EXCEPT ![k] = r]
    BY <2>1 DEF TypeOK
  <2>3. r \in Login /\ r.step = "granted" /\ r.user = logins[k].user /\ r.pair = p /\ p # None
    BY <1>1, SessionAssumption DEF Login
  <2> HIDE DEF r
  <2>4. logins[k].user \in Users
    BY <1>3
  <2>5. /\ logins' \in [Logins -> Login]
        /\ logins'[k] = r /\ \A j \in Logins \ {k} : logins'[j] = logins[j]
        /\ \A j \in Logins : logins'[j].step = "granted" <=> logins'[j].pair # None
        /\ \A j \in Logins : logins'[j].step = "granted" => logins'[j].user \in Users
    BY <2>2, <2>3, <2>4, OneLogin
  <2>6. owner' \in [Pairs -> Users \cup {None}] /\ live' \in SUBSET Pairs
    BY <2>1, <2>4, IssuedFacts
  <2> QED
    BY <1>1, <1>2, <2>1, <2>3, <2>4, <2>5, <2>6 DEF TypeOK, browser
<1>4. CASE logins[k].user \notin active
  <2> DEFINE r == [logins[k] EXCEPT !.step = "refused"]
  <2>1. logins' = [logins EXCEPT ![k] = r] /\ UNCHANGED <<owner, live, young>>
    BY <1>4 DEF loginWithEmail, TypeOK
  <2>2. r \in Login /\ r.step = "refused" /\ r.user = logins[k].user /\ r.pair = None
    BY <1>1 DEF Login
  <2> HIDE DEF r
  <2>3. /\ logins' \in [Logins -> Login]
        /\ logins'[k] = r /\ \A j \in Logins \ {k} : logins'[j] = logins[j]
        /\ \A j \in Logins : logins'[j].step = "granted" <=> logins'[j].pair # None
        /\ \A j \in Logins : logins'[j].step = "granted" => logins'[j].user \in Users
    BY <2>1, <2>2, OneLogin
  <2> QED
    BY <1>1, <1>2, <2>1, <2>2, <2>3 DEF TypeOK, browser
<1> QED
  BY <1>3, <1>4

LEMMA ModeKept == [Next]_vars => mode' = mode
  BY DEF Next, vars, signInWithCredentials, Deactivate, apiFetch, signOut, Sent, Served, Refused, Answered, Lost,
         Ended, GiveUp, refreshAccessToken, loginWithEmail, LoginFails, verifySessionPassword, Asked, SignedIn,
         Confirmed, refreshTokens, Refreshed, RefreshFails, Expire, Second, Reload

LEMMA InitInv ==
  ASSUME Init
  PROVE  Inv /\ active \in SUBSET Users
  BY SessionAssumption, NoLoginTyped
     DEF Init, Inv, TypeOK, OneUser, Fine, Call, Quiet, NoFlight, NoLogin, Login, Logins

LEMMA NextInv ==
  ASSUME mode.patient, Inv, active \in SUBSET Users, [Next]_vars
  PROVE  Inv'
<1> USE SessionAssumption DEF Inv, TypeOK, OneUser, Fine, api, browser
<1>1. ASSUME NEW u \in Users, signInWithCredentials(u)
      PROVE  Inv'
  <2>1. Rest /\ session = None /\ Asked("signIn", u)
    BY <1>1 DEF signInWithCredentials
  <2>2. TypeOK' /\ logins'["signIn"].pair = None /\ logins'["confirm"] = NoLogin
    BY <2>1, AskedFacts DEF Logins, Rest
  <2>3. \A k \in Logins : logins'[k].pair = None
    BY <2>2, NoLoginTyped DEF Logins
  <2> QED
    BY <2>1, <2>2, <2>3 DEF Asked, Rest
<1>2. ASSUME verifySessionPassword
      PROVE  Inv'
  <2>1. session # None /\ Asked("confirm", remembered)
    BY <1>2 DEF verifySessionPassword
  <2>2. /\ TypeOK' /\ logins'["confirm"].pair = None /\ logins'["confirm"].user = remembered
        /\ logins'["signIn"] = logins["signIn"]
    BY <2>1, AskedFacts DEF Logins
  <2>3. logins["signIn"] = NoLogin
    BY <2>1
  <2> QED
    BY <2>1, <2>2, <2>3, NoLoginTyped DEF Asked, Logins
<1>17. ASSUME NEW k \in Logins, loginWithEmail(k)
       PROVE  Inv'
  <2>1. /\ TypeOK'
        /\ logins[k].step = "sent" /\ logins[k].pair = None
        /\ logins'[k].user = logins[k].user /\ \A j \in Logins \ {k} : logins'[j] = logins[j]
        /\ UNCHANGED <<active, browser, flight, calls, mode>>
        /\ \/ logins'[k].pair = None /\ UNCHANGED <<owner, live, young>>
           \/ \E p \in Pairs : logins[k].user \in Users /\ Issued(p, logins[k].user) /\ logins'[k].pair = p
    BY <1>17, LoginServed
  <2>2. logins[k] # NoLogin
    BY <2>1, NoLoginTyped
  <2>3. /\ logins'["confirm"] # NoLogin => logins'["confirm"].user = remembered
        /\ logins'["signIn"] # NoLogin =>
             /\ session = None /\ flight = NoFlight /\ logins'["confirm"] = NoLogin
             /\ \A c \in Calls : calls[c] = Quiet
    BY <2>1, <2>2 DEF Logins
  <2>4. CASE logins'[k].pair = None /\ UNCHANGED owner
    BY <2>1, <2>3, <2>4
  <2>5. ASSUME NEW p \in Pairs, logins[k].user \in Users, Issued(p, logins[k].user), logins'[k].pair = p
        PROVE  Inv'
    <3>1. owner'[p] = logins[k].user /\ \A q \in Pairs \cap InHand : owner'[q] = owner[q]
      BY <2>5, IssuedFacts
    <3>2. \A j \in Logins : logins'[j].pair # None => owner'[logins'[j].pair] = logins'[j].user
      BY <2>1, <2>5, <3>1 DEF InHand, Login
    <3>3. \A c \in Calls : calls[c].pair # None => calls[c].pair \in Pairs \cap InHand
      BY DEF InHand, Call
    <3>4. \A c \in Calls : Fine(calls[c])'
      BY <2>1, <3>1, <3>3
    <3> QED
      BY <2>1, <2>3, <3>1, <3>2, <3>4 DEF InHand
  <2> QED
    BY <2>1, <2>4, <2>5
<1>18. ASSUME SignedIn
       PROVE  Inv'
  <2> DEFINE l == logins["signIn"]
  <2>1. l.step = "granted" /\ l \in Login /\ l # NoLogin
    BY <1>18, NoLoginTyped DEF SignedIn, Logins
  <2>2. l.pair \in Pairs /\ l.user \in Users /\ owner[l.pair] = l.user
    BY <2>1 DEF Login, Logins
  <2>3. \A k \in Logins : logins'[k] = NoLogin
    BY <1>18, <2>1 DEF SignedIn, Logins
  <2>4. /\ stored' = l.pair /\ began' = l.pair /\ session' = l.user /\ remembered' = l.user /\ late' = FALSE
        /\ UNCHANGED <<api, flight, calls, mode>>
    BY <1>18 DEF SignedIn
  <2>5. flight = NoFlight /\ \A c \in Calls : calls[c] = Quiet
    BY <2>1
  <2>6. logins' \in [Logins -> Login]
    BY <1>18, LoginGone DEF SignedIn, Logins
  <2>7. flight.pair = None /\ flight.new = None
    BY <2>5 DEF NoFlight
  <2> HIDE DEF l
  <2>8. TypeOK'
    BY <2>2, <2>3, <2>4, <2>6, NoLoginTyped
  <2>9. \A c \in Calls : Fine(calls[c])'
    BY <2>4, <2>5 DEF Quiet
  <2> QED
    BY <2>2, <2>3, <2>4, <2>7, <2>8, <2>9, NoLoginTyped DEF Logins
<1>19. ASSUME Confirmed
       PROVE  Inv'
  <2> DEFINE l == logins["confirm"]
  <2>1. l.step = "granted" /\ l \in Login /\ l # NoLogin
    BY <1>19, NoLoginTyped DEF Confirmed, Logins
  <2>2. l.pair \in Pairs /\ l.user \in Users /\ owner[l.pair] = l.user /\ l.user = remembered
    BY <2>1 DEF Login, Logins
  <2>3. logins["signIn"] = NoLogin
    BY <2>1
  <2>4. \A k \in Logins : logins'[k] = NoLogin
    BY <1>19, <2>3 DEF Confirmed, Logins
  <2>5. /\ stored' = l.pair /\ late' \in BOOLEAN
        /\ UNCHANGED <<api, session, began, remembered, flight, calls, mode>>
    BY <1>19 DEF Confirmed
  <2>6. logins' \in [Logins -> Login]
    BY <1>19, LoginGone DEF Confirmed, Logins
  <2> HIDE DEF l
  <2> QED
    BY <2>2, <2>4, <2>5, <2>6, NoLoginTyped DEF Logins
<1>20. ASSUME NEW k \in Logins, LoginFails(k)
       PROVE  Inv'
  <2>1. /\ logins' \in [Logins -> Login]
        /\ logins'[k] = NoLogin /\ logins'[k].pair = None
        /\ \A j \in Logins \ {k} : logins'[j] = logins[j]
        /\ \A j \in Logins : logins'[j].step = "granted" <=> logins'[j].pair # None
        /\ \A j \in Logins : logins'[j].step = "granted" => logins'[j].user \in Users
    BY <1>20, LoginGone DEF LoginFails
  <2> QED
    BY <1>20, <2>1 DEF LoginFails, Logins
<1>4. ASSUME NEW u \in Users, Deactivate(u)
      PROVE  Inv'
  BY <1>4 DEF Deactivate
<1>5. ASSUME NEW c \in Calls, NEW p \in {stored, began}, NEW out \in BOOLEAN, Sent(c, p, out), session # None
      PROVE  Inv'
  BY <1>5 DEF Sent, Quiet, Call
<1>6. ASSUME NEW c \in Calls, Served(c)
      PROVE  Inv'
  <2> DEFINE r == [calls[c] EXCEPT !.step = "served"]
  <2>1. r \in Call /\ Fine(r) /\ calls' = [calls EXCEPT ![c] = r]
    BY <1>6 DEF Served, Call, Quiet
  <2>2. calls' \in [Calls -> Call] /\ \A d \in Calls : Fine(calls[d])'
    BY <1>6, <2>1, OneCall DEF Served
  <2>3. logins["signIn"] = NoLogin
    BY <1>6 DEF Served, Quiet
  <2> QED
    BY <1>6, <2>2, <2>3 DEF Served
<1>7. ASSUME NEW c \in Calls, Refused(c)
      PROVE  Inv'
  <2> DEFINE r == [calls[c] EXCEPT !.step = "refused"]
  <2>1. r \in Call /\ Fine(r) /\ calls' = [calls EXCEPT ![c] = r]
    BY <1>7 DEF Refused, Call, Quiet
  <2>2. calls' \in [Calls -> Call] /\ \A d \in Calls : Fine(calls[d])'
    BY <1>7, <2>1, OneCall DEF Refused
  <2>3. logins["signIn"] = NoLogin
    BY <1>7 DEF Refused, Quiet
  <2> QED
    BY <1>7, <2>2, <2>3 DEF Refused
<1>8. ASSUME NEW c \in Calls, Ended(c)
      PROVE  Inv'
  <2>1. calls' = [calls EXCEPT ![c] = Quiet] /\ UNCHANGED <<api, flight, logins, mode>>
    BY <1>8 DEF Ended
  <2>2. Quiet \in Call /\ Fine(Quiet)
    BY DEF Quiet, Call
  <2>3. calls' \in [Calls -> Call] /\ \A d \in Calls : calls'[d] = IF d = c THEN Quiet ELSE calls[d]
    BY <2>1, <2>2
  <2>4. remembered' = remembered
    BY <1>8 DEF Ended, Clear
  <2>5. \A d \in Calls : Fine(calls[d])'
    BY <2>1, <2>2, <2>3, <2>4
  <2>6. \/ Clear
        \/ UNCHANGED browser
    BY <1>8 DEF Ended
  <2>7. TypeOK'
    BY <2>1, <2>3, <2>6 DEF Clear
  <2>8. OneUser'
    BY <2>1, <2>3, <2>5, <2>6 DEF Clear
  <2> QED
    BY <2>7, <2>8
<1>9. ASSUME NEW c \in Calls, GiveUp(c)
      PROVE  Inv'
  <2>1. calls' = [calls EXCEPT ![c] = Quiet] /\ Clear /\ UNCHANGED <<api, flight, logins, mode>>
    BY <1>9 DEF GiveUp
  <2>2. Quiet \in Call /\ Fine(Quiet)
    BY DEF Quiet, Call
  <2>3. calls' \in [Calls -> Call] /\ \A d \in Calls : calls'[d] = IF d = c THEN Quiet ELSE calls[d]
    BY <2>1, <2>2
  <2>4. \A d \in Calls : Fine(calls[d])'
    BY <2>1, <2>2, <2>3 DEF Clear
  <2> QED
    BY <2>1, <2>3, <2>4 DEF Clear
<1>10. ASSUME NEW c \in Calls, refreshAccessToken(c)
       PROVE  Inv'
  <2> DEFINE r == [calls[c] EXCEPT !.step = "waiting", !.pair = None]
  <2>0. calls[c] \in Call /\ calls[c] # Quiet
    BY <1>10 DEF refreshAccessToken, Quiet
  <2>1. r \in Call /\ r.by = calls[c].by /\ r.step = "waiting" /\ r.pair = None
    BY <2>0 DEF Call
  <2>3. calls' = [calls EXCEPT ![c] = r]
    BY <1>10 DEF refreshAccessToken, Call
  <2>4. Fine(r)
    BY <2>0, <2>1
  <2>2. calls' \in [Calls -> Call] /\ \A d \in Calls : Fine(calls[d])'
    BY <1>10, <2>1, <2>3, <2>4, OneCall DEF refreshAccessToken
  <2>5. logins["signIn"] = NoLogin
    BY <2>0
  <2> QED
    BY <1>10, <2>2, <2>5 DEF refreshAccessToken, SharedFlight, NoFlight
<1>11. ASSUME refreshTokens
       PROVE  Inv'
  <2>1. CASE Denied
    BY <1>11, <2>1 DEF refreshTokens, NoFlight, Call
  <2>2. CASE ~Denied
    <3>0. flight.pair \in Pairs /\ owner[flight.pair] \in Users
      BY <1>11, <2>2 DEF refreshTokens, Denied
    <3>1. PICK p \in Pairs : Issued(p, owner[flight.pair]) /\ flight' = [NoFlight EXCEPT !.step = "answered", !.new = p]
      BY <1>11, <2>2 DEF refreshTokens
    <3>2. /\ owner' \in [Pairs -> Users \cup {None}] /\ live' \in SUBSET Pairs /\ owner'[p] = owner[flight.pair]
          /\ \A q \in Pairs \cap InHand : owner'[q] = owner[q]
      BY <3>0, <3>1, IssuedFacts
    <3> QED
      <4>0. flight # NoFlight
        <5>1. flight.step = "sent"
          BY <1>11 DEF refreshTokens
        <5>2. NoFlight.step = "none"
          BY DEF NoFlight
        <5> QED
          BY <5>1, <5>2
      <4>1. logins["signIn"] = NoLogin
        BY <4>0
      <4>2. \A k \in Logins : logins[k].pair # None => logins[k].pair \in Pairs \cap InHand
        BY DEF Login, InHand
      <4>3. \A c \in Calls : calls[c].pair # None => calls[c].pair \in Pairs \cap InHand
        BY DEF Call, InHand
      <4>4. UNCHANGED <<active, browser, calls, logins, mode>> /\ flight'.pair = None /\ flight'.new = p
        BY <1>11, <3>1 DEF refreshTokens, NoFlight
      <4>5. TypeOK'
        BY <3>1, <3>2, <4>4 DEF NoFlight
      <4>6. \A c \in Calls : Fine(calls[c])'
        BY <3>2, <4>3, <4>4
      <4>7. \A k \in Logins : logins'[k].pair # None => owner'[logins'[k].pair] = logins'[k].user
        BY <3>2, <4>2, <4>4
      <4> QED
        BY <3>0, <3>1, <3>2, <4>1, <4>4, <4>5, <4>6, <4>7 DEF InHand
  <2> QED
    BY <2>1, <2>2
<1>12. ASSUME Refreshed
       PROVE  Inv'
  <2>1. ASSUME NEW c \in Calls
        PROVE  calls'[c] \in Call /\ Fine(calls[c])'
    <3>1. CASE Waiting(c)
      <4>1. calls'[c] = Retried(c)
        BY <1>12, <3>1 DEF Refreshed
      <4>2. Retried(c) \in Call /\ Fine(Retried(c))
        <5>1. calls[c] \in Call /\ calls[c] # Quiet
          BY <3>1 DEF Waiting, Quiet
        <5>2. flight.new \in Pairs /\ owner[flight.new] = remembered
          BY <1>12 DEF Refreshed
        <5>3. Retried(c) \in Call /\ Retried(c).by = calls[c].by /\ Retried(c).step = "sent" /\ Retried(c).pair = flight.new
          BY <5>1, <5>2 DEF Call, Retried
        <5> QED
          BY <5>1, <5>2, <5>3
      <4> QED
        BY <1>12, <4>1, <4>2 DEF Refreshed
    <3>2. CASE ~Waiting(c)
      BY <1>12, <3>2 DEF Refreshed
    <3> QED
      BY <3>1, <3>2
  <2>2. calls' \in [Calls -> Call]
    BY <1>12, <2>1 DEF Refreshed
  <2> QED
    BY <1>12, <2>1, <2>2 DEF Refreshed, NoFlight
<1>13. ASSUME RefreshFails
       PROVE  Inv'
  <2>1. /\ flight' = NoFlight /\ Clear /\ UNCHANGED <<api, logins, mode>>
        /\ calls' = [c \in Calls |-> IF Waiting(c) THEN Quiet ELSE calls[c]]
    BY <1>13 DEF RefreshFails
  <2>2. Quiet \in Call /\ Fine(Quiet)
    BY DEF Quiet, Call
  <2>3. \A c \in Calls : calls'[c] \in {Quiet, calls[c]}
    BY <2>1
  <2>4. calls' \in [Calls -> Call]
    BY <2>1, <2>2
  <2>5. \A c \in Calls : Fine(calls[c])'
    BY <2>1, <2>2, <2>3 DEF Clear
  <2> QED
    BY <2>1, <2>3, <2>4, <2>5 DEF Clear, NoFlight
<1>14. ASSUME NEW p \in Pairs, Expire(p)
       PROVE  Inv'
  BY <1>14 DEF Expire
<1>15. ASSUME Reload
       PROVE  Inv'
  <2>1. /\ flight' = NoFlight /\ logins' = [k \in Logins |-> NoLogin] /\ calls' = [c \in Calls |-> Quiet]
        /\ late' = FALSE /\ began' = stored /\ session' = IF stored = None THEN None ELSE owner[stored]
        /\ UNCHANGED <<api, stored, remembered, mode>>
    BY <1>15 DEF Reload
  <2>2. TypeOK'
    BY <2>1, NoLoginTyped DEF NoFlight, Call, Quiet
  <2>3. \A c \in Calls : Fine(calls[c])'
    BY <2>1 DEF Quiet
  <2>4. \A k \in Logins : logins'[k] = NoLogin
    BY <2>1
  <2> QED
    BY <2>1, <2>2, <2>3, <2>4, NoLoginTyped DEF NoFlight, Logins
<1>3. ASSUME Second
      PROVE  Inv'
  BY <1>3 DEF Second
<1>16. CASE UNCHANGED vars
  BY <1>16 DEF vars, Call
<1> QED
  BY <1>1, <1>2, <1>3, <1>4, <1>5, <1>6, <1>7, <1>8, <1>9, <1>10, <1>11, <1>12, <1>13, <1>14, <1>15, <1>16, <1>17, <1>18, <1>19, <1>20
     DEF Next, apiFetch, signOut, Answered, Lost

LEMMA ActiveKept ==
  ASSUME active \in SUBSET Users, [Next]_vars
  PROVE  active' \in SUBSET Users
  BY DEF Next, vars, api, signInWithCredentials, Deactivate, apiFetch, signOut, Sent, Served, Refused, Answered, Lost,
         Ended, GiveUp, refreshAccessToken, loginWithEmail, LoginFails, verifySessionPassword, Asked, SignedIn,
         Confirmed, refreshTokens, Refreshed, RefreshFails, Expire, Second, Reload

-----------------------------------------------------------------------------
(* The refinement, step by step.                                           *)
LEMMA PromisedInit ==
  ASSUME Init
  PROVE  Promise!Init
  BY DEF Init, Promise!Init, Promise!NoCalls, Open, Acted, Quiet

(* A step that leaves makers, what is carried out and the session alone.   *)
LEMMA PromisedEnd ==
  ASSUME NEW S \in SUBSET Calls, session' \in {session, None},
         \A c \in S : calls'[c] = Quiet,
         \A c \in Calls \ S : Open[c]' = Open[c] /\ Acted[c]' = Acted[c]
  PROVE  Promise!Next
<1>1. Open' = [c \in Calls |-> IF c \in S THEN None ELSE Open[c]]
  BY DEF Open, Quiet
<1>2. Acted' = [c \in Calls |-> IF c \in S THEN None ELSE Acted[c]]
  BY DEF Acted, Quiet
<1> QED
  BY <1>1, <1>2 DEF Promise!Next, Promise!End

LEMMA PromisedStep ==
  ASSUME mode.patient, Inv, active \in SUBSET Users, [Next]_vars
  PROVE  [Promise!Next]_(Promise!vars)
<1> USE DEF Inv, api, browser
<1>1. ASSUME SignedIn
      PROVE  Promise!SignIn(logins["signIn"].user)
  <2> DEFINE l == logins["signIn"]
  <2>1. l.step = "granted" /\ l # NoLogin /\ l.user \in Users
    BY <1>1, NoLoginTyped DEF SignedIn, TypeOK, Logins
  <2>2. session = None /\ session' = l.user /\ \A c \in Calls : calls'[c] = Quiet
    BY <1>1, <2>1 DEF SignedIn, OneUser
  <2> HIDE DEF l
  <2>3. Promise!SignIn(l.user)
    BY <2>1, <2>2 DEF Promise!SignIn, Promise!NoCalls, Open, Acted, Quiet
  <2> QED
    BY <2>3 DEF l
<1>2. ASSUME NEW c \in Calls, NEW p \in {stored, began}, NEW out \in BOOLEAN, Sent(c, p, out), session # None
      PROVE  Promise!Make(c)
  <2>1. calls[c] = Quiet /\ calls'[c].by = session /\ calls'[c].step = "sent" /\ session' = session
    BY <1>2 DEF Sent, Quiet, TypeOK
  <2>2. \A d \in Calls \ {c} : calls'[d] = calls[d]
    BY <1>2 DEF Sent
  <2>3. owner' = owner
    BY <1>2 DEF Sent
  <2>4. Open' = [Open EXCEPT ![c] = session]
    BY <2>1, <2>2 DEF Open
  <2>5. Acted' = Acted
    BY <2>1, <2>2, <2>3 DEF Acted, Quiet
  <2> QED
    BY <1>2, <2>1, <2>4, <2>5 DEF Promise!Make, Open, Quiet
<1>3. ASSUME NEW c \in Calls, Served(c)
      PROVE  Promise!CarryOut(c)
  <2>1. calls[c].step = "sent" /\ calls[c].pair \in Pairs
    BY <1>3 DEF Served, TypeOK
  <2>2. calls[c].by # None /\ owner[calls[c].pair] = calls[c].by
    BY <2>1, SessionAssumption DEF OneUser, Fine, Quiet
  <2>3. /\ calls'[c].step = "served" /\ calls'[c].by = calls[c].by /\ calls'[c].pair = calls[c].pair
        /\ \A d \in Calls \ {c} : calls'[d] = calls[d]
    BY <1>3 DEF Served, TypeOK, Call
  <2>4. owner' = owner /\ session' = session
    BY <1>3 DEF Served
  <2>5. Open' = Open
    BY <2>3 DEF Open
  <2>6. Acted' = [Acted EXCEPT ![c] = Open[c]]
    BY <2>2, <2>3, <2>4 DEF Acted, Open
  <2> QED
    BY <2>1, <2>2, <2>4, <2>5, <2>6 DEF Promise!CarryOut, Acted, Open
<1>4. ASSUME NEW c \in Calls, Ended(c) \/ GiveUp(c)
      PROVE  Promise!Next
  <2>1. /\ owner' = owner /\ session' \in {session, None} /\ calls'[c] = Quiet
        /\ \A d \in Calls \ {c} : calls'[d] = calls[d]
    BY <1>4 DEF Ended, GiveUp, Clear, TypeOK
  <2>2. \A d \in Calls \ {c} : Open[d]' = Open[d] /\ Acted[d]' = Acted[d]
    BY <2>1 DEF Open, Acted
  <2>3. {c} \in SUBSET Calls /\ \A d \in {c} : calls'[d] = Quiet
    BY <2>1
  <2> QED
    BY <2>1, <2>2, <2>3, PromisedEnd
<1>5. ASSUME RefreshFails
      PROVE  Promise!Next
  <2> DEFINE S == {c \in Calls : Waiting(c)}
  <2>1. /\ owner' = owner /\ session' \in {session, None}
        /\ \A c \in S : calls'[c] = Quiet
        /\ \A c \in Calls \ S : calls'[c] = calls[c]
    BY <1>5 DEF RefreshFails, Clear
  <2>2. \A c \in Calls \ S : Open[c]' = Open[c] /\ Acted[c]' = Acted[c]
    BY <2>1 DEF Open, Acted
  <2> HIDE DEF S
  <2>3. S \in SUBSET Calls
    BY DEF S
  <2> QED
    BY <2>1, <2>2, <2>3, PromisedEnd
<1>6. ASSUME Reload
      PROVE  Promise!Next
  <2>1. \A c \in Calls : calls'[c] = Quiet
    BY <1>6 DEF Reload
  <2>2. CASE session' \in {session, None}
    BY <2>1, <2>2, PromisedEnd
  <2>3. CASE session' \notin {session, None}
    <3>1. session = None /\ session' = remembered /\ remembered \in Users
      BY <1>6, <2>3 DEF Reload, OneUser, TypeOK
    <3>2. Open' = [c \in Calls |-> None] /\ Acted' = [c \in Calls |-> None]
      BY <2>1 DEF Open, Acted, Quiet
    <3>3. Promise!SignIn(remembered)
      BY <3>1, <3>2 DEF Promise!SignIn, Promise!NoCalls
    <3> QED
      BY <3>1, <3>3 DEF Promise!Next
  <2> QED
    BY <2>2, <2>3
<1>7. ASSUME session' = session, \A c \in Calls : calls'[c].by = calls[c].by,
             \A c \in Calls : calls[c].step = "served" <=> calls'[c].step = "served",
             \A c \in Calls : calls[c].step = "served" =>
               calls'[c].pair = calls[c].pair /\ owner'[calls[c].pair] = owner[calls[c].pair]
      PROVE  UNCHANGED Promise!vars
  BY <1>7 DEF Promise!vars, Open, Acted
<1>8. ASSUME NEW p \in Pairs, NEW u \in Users, Issued(p, u), UNCHANGED <<session, calls>>
      PROVE  UNCHANGED Promise!vars
  <2>1. \A c \in Calls : calls[c].step = "served" => calls[c].pair \in Pairs \cap InHand
    BY DEF OneUser, Fine, InHand, TypeOK, Call
  <2>2. \A c \in Calls : calls[c].step = "served" => owner'[calls[c].pair] = owner[calls[c].pair]
    BY <1>8, <2>1, IssuedFacts
  <2> QED
    BY <1>7, <1>8, <2>2
<1>9. ASSUME NEW k \in Logins, loginWithEmail(k)
      PROVE  UNCHANGED Promise!vars
  <2>1. /\ UNCHANGED <<browser, calls>>
        /\ \/ UNCHANGED owner
           \/ \E p \in Pairs : logins[k].user \in Users /\ Issued(p, logins[k].user)
    BY <1>9, LoginServed
  <2>2. CASE UNCHANGED owner
    BY <1>7, <2>1, <2>2
  <2> QED
    BY <1>8, <2>1, <2>2
<1>17. ASSUME (\E u \in Users : signInWithCredentials(u)) \/ verifySessionPassword \/ Confirmed
               \/ \E k \in Logins : LoginFails(k)
       PROVE  UNCHANGED Promise!vars
  <2>1. session' = session /\ calls' = calls /\ owner' = owner
    BY <1>17 DEF signInWithCredentials, verifySessionPassword, Asked, Confirmed, LoginFails
  <2> QED
    BY <1>7, <2>1
<1>10. ASSUME refreshTokens
       PROVE  UNCHANGED Promise!vars
  <2>1. CASE Denied
    BY <1>7, <1>10, <2>1 DEF refreshTokens
  <2>2. CASE ~Denied
    <3>1. owner[flight.pair] \in Users
      BY <1>10, <2>2 DEF refreshTokens, Denied, TypeOK, OneUser
    <3> QED
      BY <1>8, <1>10, <2>2, <3>1 DEF refreshTokens
  <2> QED
    BY <2>1, <2>2
<1>11. ASSUME NEW c \in Calls, Refused(c) \/ refreshAccessToken(c)
       PROVE  UNCHANGED Promise!vars
  <2>1. /\ owner' = owner /\ session' = session /\ \A d \in Calls \ {c} : calls'[d] = calls[d]
        /\ calls[c].step # "served" /\ calls'[c].step # "served" /\ calls'[c].by = calls[c].by
    BY <1>11 DEF Refused, refreshAccessToken, TypeOK, Call
  <2> QED
    BY <1>7, <2>1
<1>12. ASSUME Refreshed
       PROVE  UNCHANGED Promise!vars
  <2>1. \A c \in Calls : Waiting(c) =>
          calls[c].step # "served" /\ calls'[c].step # "served" /\ calls'[c].by = calls[c].by
    BY <1>12 DEF Refreshed, Retried, Waiting, TypeOK, Call
  <2>2. owner' = owner /\ session' = session /\ \A c \in Calls : ~Waiting(c) => calls'[c] = calls[c]
    BY <1>12 DEF Refreshed
  <2> QED
    BY <1>7, <2>1, <2>2
<1>13. ASSUME NEW p \in Pairs, Expire(p)
       PROVE  UNCHANGED Promise!vars
  BY <1>7, <1>13 DEF Expire
<1>14. ASSUME NEW u \in Users, Deactivate(u)
       PROVE  UNCHANGED Promise!vars
  BY <1>7, <1>14 DEF Deactivate
<1>16. ASSUME Second
       PROVE  UNCHANGED Promise!vars
  BY <1>7, <1>16 DEF Second
<1>15. CASE UNCHANGED vars
  <2>1. session' = session /\ calls' = calls /\ owner' = owner
    BY <1>15 DEF vars
  <2> QED
    BY <1>7, <2>1
<1> QED
  <2>1. CASE \E c \in Calls : apiFetch(c) \/ signOut(c)
    <3>1. PICK c \in Calls : apiFetch(c) \/ signOut(c)
      BY <2>1
    <3>2. session # None /\ \E p \in {stored, began}, out \in BOOLEAN : Sent(c, p, out)
      BY <3>1 DEF apiFetch, signOut
    <3>3. Promise!Make(c)
      BY <1>2, <3>2
    <3> QED
      BY <3>3 DEF Promise!Next
  <2>2. CASE SignedIn
    <3>1. logins["signIn"].user \in Users
      BY <2>2 DEF SignedIn, TypeOK, Logins
    <3> QED
      BY <1>1, <2>2, <3>1 DEF Promise!Next
  <2>3. CASE \E c \in Calls : Served(c)
    BY <1>3, <2>3 DEF Promise!Next
  <2> QED
    BY <1>4, <1>5, <1>6, <1>9, <1>10, <1>11, <1>12, <1>13, <1>14, <1>15, <1>16, <1>17, <2>1, <2>2, <2>3 DEF Next, Answered, Lost

(* Whatever expires, is renewed, refused or lost, every call of patient    *)
(* users is carried out at most once and as the user who made it: for users*)
(* who sign in once the calls of the one before have ended, the session    *)
(* implements what the terminal promises.  Nothing in apiFetch makes them  *)
(* wait, and of users who do not it is false.                              *)
THEOREM CallsAreTheirMakers == Spec => CallsActForTheirMaker
<1> DEFINE PInv == active \in SUBSET Users /\ (mode.patient => Inv)
<1>1. Init => Promise!Init /\ PInv
  BY PromisedInit, InitInv
<1>2. PInv /\ [Next]_vars => PInv'
  BY NextInv, ModeKept, ActiveKept
<1>3. PInv /\ [Next]_vars => [mode.patient => Promise!Next]_(Promise!vars)
  BY PromisedStep
<1> QED
  BY <1>1, <1>2, <1>3, PTL DEF Spec, CallsActForTheirMaker

-----------------------------------------------------------------------------
(* A session that nothing disturbs has a refresh token that still counts,  *)
(* in storage or on its way, and a call sent again is not refused.         *)
Kept ==
  /\ ~mode.swift => young = {}
  /\ Sound =>
    /\ active = Users
    /\ \A k \in Logins : logins[k].pair # None => logins[k].pair \notin spent \cup {stored, flight.pair, flight.new}
    /\ session # None =>
         /\ stored # None
         /\ stored \in spent => flight.step = "answered"
         /\ flight.step = "sent" => flight.pair \notin spent
         /\ flight.step = "answered" => flight.new # None /\ flight.new \notin spent
         /\ ~SigningOut =>
              /\ flight.step = "answered" => flight.new \in live
              /\ \A c \in Calls :
                   calls[c].retried => calls[c].step = "served" \/ (calls[c].step = "sent" /\ calls[c].pair \in live)

(* With a second between them, every pair issued is a new one.             *)
LEMMA IssuedNew ==
  ASSUME Kept, NEW p \in Pairs, NEW u, Issued(p, u), mode' = mode
  PROVE  /\ ~mode.swift => p \in Spare /\ p \in live' /\ young' = {}
         /\ \A q \in InHand : q \in live => q \in live'
  BY DEF Kept, Issued, Spare

LEMMA NextKept ==
  ASSUME mode.patient, Inv, active \in SUBSET Users, Kept, [Next]_vars
  PROVE  Kept'
<1> USE SessionAssumption DEF Inv, api, browser
<1>1. ASSUME NEW k \in Logins, NEW u \in Users \cup {None}, Asked(k, u)
      PROVE  Kept'
  <2>1. UNCHANGED <<api, browser, flight, calls, mode>>
    BY <1>1 DEF Asked
  <2>2. logins'[k].pair = None /\ \A j \in Logins \ {k} : logins'[j] = logins[j]
    BY <1>1, AskedFacts
  <2>3. SigningOut' = SigningOut
    BY <2>1 DEF SigningOut
  <2> QED
    BY <2>1, <2>2, <2>3 DEF Kept, Sound
<1>2. ASSUME NEW k \in Logins, loginWithEmail(k)
      PROVE  Kept'
  <2>1. /\ logins[k].step = "sent" /\ \A j \in Logins \ {k} : logins'[j] = logins[j]
        /\ spent' = spent \ Spare
        /\ UNCHANGED <<active, browser, flight, calls, mode>>
        /\ \/ logins'[k].pair = None /\ UNCHANGED <<owner, live, young>>
           \/ \E p \in Pairs : logins[k].user \in Users /\ Issued(p, logins[k].user) /\ logins'[k].pair = p
    BY <1>2, LoginServed
  <2>2. SigningOut' = SigningOut
    BY <2>1 DEF SigningOut
  <2>3. CASE logins'[k].pair = None /\ UNCHANGED <<owner, live, young>>
    BY <2>1, <2>2, <2>3 DEF Kept, Sound
  <2>4. ASSUME NEW p \in Pairs, logins[k].user \in Users, Issued(p, logins[k].user), logins'[k].pair = p
        PROVE  Kept'
    <3>1. /\ ~mode.swift => p \in Spare /\ young' = {}
          /\ \A q \in InHand : q \in live => q \in live'
      BY <2>1, <2>4, IssuedNew
    <3>2. ~mode.swift => p \notin spent' \cup {stored, flight.pair, flight.new}
      BY <2>1, <3>1 DEF Spare, InHand
    <3> QED
      BY <2>1, <2>2, <2>4, <3>1, <3>2 DEF Kept, Sound, InHand
  <2> QED
    BY <2>1, <2>3, <2>4
<1>16. ASSUME SignedIn
       PROVE  Kept'
  <2> DEFINE l == logins["signIn"]
  <2>1. l.step = "granted" /\ l # NoLogin /\ l.pair \in Pairs
    BY <1>16, NoLoginTyped DEF SignedIn, TypeOK, Logins, Login
  <2>2. flight = NoFlight /\ \A c \in Calls : calls[c] = Quiet
    BY <2>1 DEF OneUser
  <2>3. stored' = l.pair /\ UNCHANGED <<api, flight, calls, mode>>
    BY <1>16 DEF SignedIn
  <2>4. \A k \in Logins : logins'[k].pair = None
    BY <1>16, <2>1, NoLoginTyped DEF SignedIn, TypeOK, OneUser, Logins
  <2>5. Sound => stored' \notin spent
    BY <2>1, <2>3 DEF Kept, Logins
  <2> HIDE DEF l
  <2> QED
    BY <2>1, <2>2, <2>3, <2>4, <2>5 DEF Kept, Sound, NoFlight, Quiet
<1>17. ASSUME Confirmed
       PROVE  Kept'
  <2> DEFINE l == logins["confirm"]
  <2>1. l.step = "granted" /\ l # NoLogin /\ l.pair \in Pairs
    BY <1>17, NoLoginTyped DEF Confirmed, TypeOK, Logins, Login
  <2>3. stored' = l.pair /\ UNCHANGED <<api, session, flight, calls, mode>>
    BY <1>17 DEF Confirmed
  <2>4. \A k \in Logins : logins'[k].pair = None
    BY <1>17, <2>1, NoLoginTyped DEF Confirmed, TypeOK, OneUser, Logins
  <2>5. Sound => stored' \notin spent
    BY <2>1, <2>3 DEF Kept, Logins
  <2>6. SigningOut' = SigningOut
    BY <2>3 DEF SigningOut
  <2> HIDE DEF l
  <2> QED
    BY <2>1, <2>3, <2>4, <2>5, <2>6 DEF Kept, Sound
<1>18. ASSUME NEW k \in Logins, LoginFails(k)
       PROVE  Kept'
  <2>1. logins'[k].pair = None /\ (\A j \in Logins \ {k} : logins'[j] = logins[j])
        /\ UNCHANGED <<api, browser, flight, calls, mode>>
    BY <1>18, LoginGone DEF LoginFails
  <2>2. SigningOut' = SigningOut
    BY <2>1 DEF SigningOut
  <2> QED
    BY <2>1, <2>2 DEF Kept, Sound
<1>3. ASSUME NEW c \in Calls, NEW p \in {stored, began}, NEW out \in BOOLEAN, Sent(c, p, out), session # None
      PROVE  Kept'
  <2>1. UNCHANGED <<api, browser, flight, logins, mode>> /\ calls[c] = Quiet
    BY <1>3 DEF Sent
  <2>2. calls'[c].retried = FALSE /\ \A d \in Calls \ {c} : calls'[d] = calls[d]
    BY <1>3 DEF Sent, Quiet, TypeOK
  <2>3. SigningOut => SigningOut'
    BY <2>1, <2>2 DEF SigningOut, Quiet
  <2> QED
    BY <2>1, <2>2, <2>3 DEF Kept, Sound
<1>4. ASSUME NEW c \in Calls, Served(c)
      PROVE  Kept'
  <2>1. UNCHANGED <<spent, young, active, browser, flight, logins, mode>>
    BY <1>4 DEF Served
  <2>2. calls'[c].step = "served" /\ calls'[c].out = calls[c].out /\ \A d \in Calls \ {c} : calls'[d] = calls[d]
    BY <1>4 DEF Served, TypeOK, Call
  <2>3. SigningOut' = SigningOut
    BY <2>2 DEF SigningOut
  <2>4. ~SigningOut => live' = live
    BY <1>4 DEF Served, SigningOut
  <2> QED
    BY <2>1, <2>2, <2>3, <2>4 DEF Kept, Sound
<1>5. ASSUME NEW c \in Calls, Refused(c)
      PROVE  Kept'
  <2>1. UNCHANGED <<api, browser, flight, logins, mode>> /\ calls[c].step = "sent" /\ calls[c].pair \notin live
    BY <1>5 DEF Refused
  <2>2. /\ calls'[c].out = calls[c].out /\ calls'[c].retried = calls[c].retried
        /\ \A d \in Calls \ {c} : calls'[d] = calls[d]
    BY <1>5 DEF Refused, TypeOK, Call
  <2>3. SigningOut' = SigningOut
    BY <2>2 DEF SigningOut
  <2> QED
    BY <2>1, <2>2, <2>3 DEF Kept, Sound
<1>6. ASSUME NEW c \in Calls, Ended(c) \/ GiveUp(c)
      PROVE  Kept'
  <2>1. UNCHANGED <<api, flight, logins, mode>> /\ calls'[c] = Quiet /\ \A d \in Calls \ {c} : calls'[d] = calls[d]
    BY <1>6 DEF Ended, GiveUp, TypeOK
  <2>2. CASE session' = None
    <3>1. stored' \in {stored, None}
      BY <1>6 DEF Ended, GiveUp, Clear
    <3> QED
      BY <2>1, <2>2, <3>1 DEF Kept, Sound
  <2>3. CASE session' # None
    <3>1. UNCHANGED browser /\ ~calls[c].out
      BY <1>6, <2>3 DEF Ended, GiveUp, Clear
    <3>2. SigningOut => SigningOut'
      BY <2>1, <3>1 DEF SigningOut
    <3> QED
      BY <2>1, <3>1, <3>2 DEF Kept, Sound, Quiet
  <2> QED
    BY <2>2, <2>3
<1>7. ASSUME NEW c \in Calls, refreshAccessToken(c)
      PROVE  Kept'
  <2>1. UNCHANGED <<api, browser, logins, mode>> /\ ~calls[c].retried /\ flight' = SharedFlight
    BY <1>7 DEF refreshAccessToken
  <2>2. /\ calls'[c].out = calls[c].out /\ ~calls'[c].retried
        /\ \A d \in Calls \ {c} : calls'[d] = calls[d]
    BY <1>7 DEF refreshAccessToken, TypeOK, Call
  <2>3. SigningOut' = SigningOut
    BY <2>2 DEF SigningOut
  <2> QED
    BY <2>1, <2>2, <2>3 DEF Kept, Sound, SharedFlight, NoFlight
<1>8. ASSUME refreshTokens
      PROVE  Kept'
  <2>1. flight.step = "sent" /\ spent' = (spent \ Spare) \cup {flight.pair} /\ UNCHANGED <<active, browser, calls, logins, mode>>
    BY <1>8 DEF refreshTokens
  <2>2. SigningOut' = SigningOut
    BY <2>1 DEF SigningOut
  <2>3. CASE Denied
    <3>1. Sound => session = None
      BY <2>1, <2>3 DEF Denied, Kept, OneUser, TypeOK
    <3>2. young' = young /\ flight'.pair = None /\ flight'.new = None
      BY <1>8, <2>3 DEF refreshTokens, NoFlight
    <3> QED
      BY <2>1, <3>1, <3>2 DEF Kept, Sound
  <2>4. CASE ~Denied
    <3>1. PICK p \in Pairs : Issued(p, owner[flight.pair]) /\ flight' = [NoFlight EXCEPT !.step = "answered", !.new = p]
      BY <1>8, <2>4 DEF refreshTokens
    <3>2. flight'.step = "answered" /\ flight'.new = p /\ flight'.pair = None
      BY <3>1 DEF NoFlight
    <3>5. ~mode.swift => \A k \in Logins : logins[k].pair # p
      BY <2>1, <3>1, IssuedNew DEF Spare, InHand
    <3>3. /\ ~mode.swift => p \in Spare /\ p \in live' /\ young' = {}
          /\ \A q \in InHand : q \in live => q \in live'
      BY <2>1, <3>1, IssuedNew
    <3>4. ~mode.swift => p \notin spent'
      BY <2>1, <3>3 DEF Spare, InHand
    <3> QED
      BY <2>1, <2>2, <3>2, <3>3, <3>4, <3>5 DEF Kept, Sound, InHand
  <2> QED
    BY <2>3, <2>4
<1>9. ASSUME Refreshed
      PROVE  Kept'
  <2>1. /\ flight.step = "answered" /\ flight.new # None /\ flight' = NoFlight /\ stored' = flight.new
        /\ UNCHANGED <<api, session, logins, mode>>
    BY <1>9 DEF Refreshed
  <2>2. \A c \in Calls : calls'[c] = calls[c] \/ (calls'[c].step = "sent" /\ calls'[c].pair = flight.new)
    BY <1>9 DEF Refreshed, Retried, Waiting, TypeOK, Call
  <2>3. \A c \in Calls : calls'[c].out = calls[c].out
    BY <1>9 DEF Refreshed, Retried, Waiting, TypeOK, Call
  <2>4. SigningOut' = SigningOut
    BY <2>3 DEF SigningOut
  <2> QED
    BY <2>1, <2>2, <2>4 DEF Kept, Sound, NoFlight
<1>10. ASSUME RefreshFails
       PROVE  Kept'
  BY <1>10 DEF RefreshFails, Clear, NoFlight, Kept, Sound
<1>11. ASSUME NEW p \in Pairs, Expire(p)
       PROVE  Kept'
  <2>1. SigningOut' = SigningOut
    BY <1>11 DEF Expire, SigningOut
  <2> QED
    BY <1>11, <2>1 DEF Expire, Kept, Sound
<1>12. ASSUME NEW u \in Users, Deactivate(u)
       PROVE  Kept'
  BY <1>12 DEF Deactivate, Kept, Sound
<1>13. ASSUME Reload
       PROVE  Kept'
  BY <1>13 DEF Reload, Kept, Sound
<1>14. ASSUME Second
       PROVE  Kept'
  <2>1. SigningOut' = SigningOut
    BY <1>14 DEF Second, SigningOut
  <2> QED
    BY <1>14, <2>1 DEF Second, Kept, Sound
<1>15. CASE UNCHANGED vars
  BY <1>15 DEF vars, Kept, Sound, SigningOut
<1> QED
  <2>1. CASE \E c \in Calls : apiFetch(c) \/ signOut(c)
    <3>1. PICK c \in Calls : session # None /\ \E p \in {stored, began}, out \in BOOLEAN : Sent(c, p, out)
      BY <2>1 DEF apiFetch, signOut
    <3> QED
      BY <1>3, <3>1
  <2>2. CASE \E u \in Users : signInWithCredentials(u)
    BY <1>1, <2>2 DEF signInWithCredentials, Logins
  <2>3. CASE verifySessionPassword
    <3>1. remembered \in Users \cup {None} /\ Asked("confirm", remembered)
      BY <2>3 DEF verifySessionPassword, TypeOK
    <3> QED
      BY <1>1, <3>1 DEF Logins
  <2> QED
    BY <1>1, <1>2, <1>4, <1>5, <1>6, <1>7, <1>8, <1>9, <1>10, <1>11, <1>12, <1>13, <1>14, <1>15, <1>16, <1>17, <1>18, <2>1, <2>2, <2>3
       DEF Next, Answered, Lost

(* Calls that meet an expired token together, or late, never cost a session*)
(* of patient users its tokens: with no lost answers, deactivation or      *)
(* reload, and a second between two refreshes, it ends by signing out only.*)
THEOREM SessionEndsBySigningOut == Spec => SessionSurvives
<1> DEFINE PInv == active \in SUBSET Users /\ (mode.patient => Inv /\ Kept)
<1>1. Init => PInv
  BY InitInv, NoLoginTyped DEF Init, Kept, PInv
<1>2. PInv /\ [Next]_vars => PInv'
  BY NextInv, NextKept, ModeKept, ActiveKept
<1>3. Inv /\ Kept /\ Next => (Sound /\ session # None /\ session' = None => SigningOut)
  <2> SUFFICES ASSUME Inv, Kept, Next, Sound, session # None, session' = None
               PROVE  SigningOut
    OBVIOUS
  <2> USE DEF api, browser
  <2>1. CASE \E c \in Calls : Answered(c) \/ Lost(c) \/ GiveUp(c)
    BY <2>1 DEF Answered, Lost, Ended, GiveUp, Kept, Sound, SigningOut
  <2>2. CASE RefreshFails
    BY <2>2 DEF RefreshFails, Kept, Sound
  <2>3. CASE \E c \in Calls : apiFetch(c) \/ signOut(c) \/ Served(c) \/ Refused(c) \/ refreshAccessToken(c)
    BY <2>3 DEF apiFetch, signOut, Sent, Served, Refused, refreshAccessToken
  <2>4. CASE (\E u \in Users : signInWithCredentials(u) \/ Deactivate(u)) \/ \E k \in Logins : loginWithEmail(k) \/ LoginFails(k)
    BY <2>4 DEF signInWithCredentials, Asked, Deactivate, loginWithEmail, LoginFails
  <2>6. CASE SignedIn
    <3>1. logins["signIn"].user \in Users
      BY <2>6 DEF SignedIn, Inv, TypeOK, Logins
    <3> QED
      BY <2>6, <3>1, SessionAssumption DEF SignedIn
  <2>5. CASE Second \/ Reload \/ verifySessionPassword \/ Confirmed \/ refreshTokens \/ Refreshed \/ \E p \in Pairs : Expire(p)
    BY <2>5 DEF Second, Reload, Sound, verifySessionPassword, Asked, Confirmed, refreshTokens, Refreshed, Expire
  <2> QED
    BY <2>1, <2>2, <2>3, <2>4, <2>5, <2>6 DEF Next
<1>4. PInv /\ [Next]_vars => [Sound /\ session # None /\ session' = None => SigningOut]_vars
  BY <1>3 DEF Sound
<1> QED
  BY <1>1, <1>2, <1>4, PTL DEF Spec, SessionSurvives
-----------------------------------------------------------------------------
(* TypeOK does not need the next user to wait.                             *)
LEMMA NextTyped ==
  ASSUME TypeOK, active \in SUBSET Users, [Next]_vars
  PROVE  TypeOK' /\ active' \in SUBSET Users
<1> USE SessionAssumption DEF TypeOK, api, browser
<1>1. ASSUME NEW c \in Calls, NEW r \in Call, calls' = [calls EXCEPT ![c] = r]
      PROVE  calls' \in [Calls -> Call]
  BY <1>1
<1>2. Quiet \in Call
  BY DEF Quiet, Call
<1>3. ASSUME NEW k \in Logins, NEW u \in Users \cup {None}, Asked(k, u)
      PROVE  TypeOK' /\ active' \in SUBSET Users
  BY <1>3, AskedFacts DEF Asked
<1>4. ASSUME NEW k \in Logins, loginWithEmail(k)
      PROVE  TypeOK' /\ active' \in SUBSET Users
  <2>1. TypeOK' /\ UNCHANGED active
    BY <1>4, LoginServed
  <2> QED
    BY <2>1
<1>14. ASSUME NEW k \in Logins, SignedIn \/ Confirmed \/ LoginFails(k)
       PROVE  TypeOK' /\ active' \in SUBSET Users
  <2>1. CASE SignedIn
    <3>1. /\ logins["signIn"].user \in Users /\ logins["signIn"].pair \in Pairs
      BY <2>1 DEF SignedIn, Logins, Login
    <3>2. "signIn" \in Logins /\ logins' = [logins EXCEPT !["signIn"] = NoLogin]
      BY <2>1 DEF SignedIn, Logins
    <3> QED
      BY <2>1, <3>1, <3>2, LoginGone DEF SignedIn
  <2>2. CASE Confirmed
    <3>1. logins["confirm"].pair \in Pairs
      BY <2>2 DEF Confirmed, Logins, Login
    <3>2. "confirm" \in Logins /\ logins' = [logins EXCEPT !["confirm"] = NoLogin]
      BY <2>2 DEF Confirmed, Logins
    <3> QED
      BY <2>2, <3>1, <3>2, LoginGone DEF Confirmed
  <2>3. CASE LoginFails(k)
    BY <2>3, LoginGone DEF LoginFails
  <2> QED
    BY <1>14, <2>1, <2>2, <2>3
<1>15. CASE \E u \in Users : signInWithCredentials(u)
  BY <1>3, <1>15 DEF signInWithCredentials, Logins
<1>16. CASE verifySessionPassword
  BY <1>3, <1>16 DEF verifySessionPassword, Logins
<1>5. ASSUME NEW c \in Calls, NEW p \in {stored, began}, NEW out \in BOOLEAN, Sent(c, p, out)
      PROVE  TypeOK' /\ active' \in SUBSET Users
  <2>1. [Quiet EXCEPT !.step = "sent", !.by = session, !.pair = p, !.out = out] \in Call
    BY DEF Quiet, Call
  <2> QED
    BY <1>1, <1>5, <2>1 DEF Sent
<1>6. ASSUME NEW c \in Calls, Served(c) \/ Refused(c)
      PROVE  TypeOK' /\ active' \in SUBSET Users
  <2>1. PICK step \in {"served", "refused"} : calls' = [calls EXCEPT ![c].step = step]
    BY <1>6 DEF Served, Refused
  <2>2. [calls[c] EXCEPT !.step = step] \in Call
    BY DEF Call
  <2>3. calls' \in [Calls -> Call]
    BY <1>1, <2>1, <2>2
  <2> QED
    BY <1>6, <2>3 DEF Served, Refused
<1>7. ASSUME NEW c \in Calls, Ended(c) \/ GiveUp(c)
      PROVE  TypeOK' /\ active' \in SUBSET Users
  BY <1>1, <1>2, <1>7 DEF Ended, GiveUp, Clear
<1>8. ASSUME NEW c \in Calls, refreshAccessToken(c)
      PROVE  TypeOK' /\ active' \in SUBSET Users
  <2> DEFINE r == [calls[c] EXCEPT !.step = "waiting", !.pair = None]
  <2>1. r \in Call /\ calls' = [calls EXCEPT ![c] = r]
    BY <1>8 DEF Call, refreshAccessToken
  <2> HIDE DEF r
  <2>2. calls' \in [Calls -> Call]
    BY <1>1, <2>1
  <2> QED
    BY <1>8, <2>2 DEF refreshAccessToken, SharedFlight
<1>9. CASE refreshTokens
  <2>1. CASE Denied
    BY <1>9, <2>1 DEF refreshTokens, NoFlight
  <2>2. CASE ~Denied
    <3>1. PICK p \in Pairs : Issued(p, owner[flight.pair]) /\ flight' = [NoFlight EXCEPT !.step = "answered", !.new = p]
      BY <1>9, <2>2 DEF refreshTokens
    <3>2. owner[flight.pair] \in Users
      BY <1>9, <2>2 DEF refreshTokens, Denied
    <3> QED
      BY <1>9, <3>1, <3>2, IssuedFacts DEF refreshTokens, NoFlight
  <2> QED
    BY <2>1, <2>2
<1>10. CASE Refreshed
  <2>1. ASSUME NEW c \in Calls
        PROVE  Retried(c) \in Call
    <3>1. calls[c] \in Call /\ flight.new \in Pairs
      BY <1>10 DEF Refreshed
    <3> QED
      BY <3>1 DEF Retried, Call
  <2>2. calls' \in [Calls -> Call]
    BY <1>10, <2>1 DEF Refreshed
  <2> QED
    BY <1>10, <2>2 DEF Refreshed, NoFlight
<1>11. CASE RefreshFails
  BY <1>2, <1>11 DEF RefreshFails, Clear, NoFlight
<1>17. CASE Reload
  <2>1. calls' \in [Calls -> Call]
    BY <1>2, <1>17 DEF Reload
  <2>2. logins' = [k \in Logins |-> NoLogin]
    BY <1>17 DEF Reload
  <2> QED
    BY <1>17, <2>1, <2>2, NoLoginTyped DEF Reload, NoFlight
<1>12. CASE Second \/ (\E p \in Pairs : Expire(p)) \/ (\E u \in Users : Deactivate(u)) \/ UNCHANGED vars
  BY <1>12 DEF Second, Expire, Deactivate, vars
<1>13. CASE \E c \in Calls : apiFetch(c) \/ signOut(c)
  BY <1>5, <1>13 DEF apiFetch, signOut
<1> QED
  <2>1. CASE SignedIn \/ Confirmed \/ \E k \in Logins : loginWithEmail(k) \/ LoginFails(k)
    BY <1>4, <1>14, <2>1 DEF Logins
  <2> QED
    BY <1>6, <1>7, <1>8, <1>9, <1>10, <1>11, <1>12, <1>13, <1>15, <1>16, <1>17, <2>1 DEF Next, Answered, Lost

(* Signing out alone, of a session whose second has passed whenever a page *)
(* is loaded again.                                                        *)
Gentle == mode.settled /\ ~(mode.swift /\ mode.reloads)

(* A sign-out in hand is the only call, and a refresh under way is its own:*)
(* it waits for it.                                                        *)
AloneOut(c) ==
  /\ session # None
  /\ calls[c].step # "waiting" => flight = NoFlight
  /\ \A d \in Calls \ {c} : calls[d] = Quiet
  /\ \A k \in Logins : logins[k] = NoLogin

(* The API knows whose every token in hand is, and takes those of this     *)
(* second until a sign-out has revoked one: a call sent again is therefore *)
(* not refused, and no refresh outlives the tokens in storage.             *)
Tidy ==
  /\ TypeOK
  /\ active \in SUBSET Users
  /\ young \in SUBSET Pairs
  /\ ~mode.swift => young = {}
  /\ \A p \in {stored, flight.pair, flight.new} : p # None => owner[p] # None
  /\ \A k \in Logins : logins[k].pair # None => owner[logins[k].pair] # None
  /\ Gentle =>
       /\ session # None => stored # None /\ logins["signIn"] = NoLogin
       /\ session = None /\ ~late => stored = None
       /\ stored = None => flight = NoFlight
       /\ flight.new # None => flight.new \in live
       /\ \A c \in Calls : calls[c].out => AloneOut(c)
       /\ \A c \in Calls :
            calls[c].retried => calls[c].step = "served" \/ (calls[c].step = "sent" /\ calls[c].pair \in live)
       /\ \A p \in young \cap InHand : p \in live \/ \E c \in Calls : calls[c].out /\ calls[c].step = "served"

(* Issuing a pair takes no token in hand from the API's list.              *)
LEMMA IssuedTidy ==
  ASSUME Tidy, NEW p \in Pairs, NEW u \in Users, Issued(p, u), mode' = mode
  PROVE  /\ owner'[p] = u /\ \A q \in Pairs \cap InHand : owner'[q] = owner[q] /\ (q \in live => q \in live')
         /\ young' \in SUBSET Pairs /\ (~mode.swift => young' = {})
         /\ \A q \in young' : q = p \/ (q \in young /\ q \in InHand)
         /\ p \in live' \/ p \in young \cap InHand
<1>1. /\ owner' \in [Pairs -> Users \cup {None}]
      /\ owner'[p] = u /\ \A q \in Pairs \cap InHand : owner'[q] = owner[q]
  BY IssuedFacts DEF Tidy
<1>2. /\ \A q \in Pairs \cap InHand : q \in live => q \in live'
      /\ p \in live' \/ p \in young \cap InHand
  BY DEF Issued, Spare
<1>3. /\ young' \in SUBSET Pairs /\ (~mode.swift => young' = {})
      /\ \A q \in young' : q = p \/ (q \in young /\ q \in InHand)
  BY DEF Issued, Spare, Tidy
<1> QED
  BY <1>1, <1>2, <1>3

LEMMA NextTidy ==
  ASSUME Tidy, [Next]_vars
  PROVE  Tidy'
<1> USE SessionAssumption DEF Tidy, api, browser
<1>0. TypeOK' /\ active' \in SUBSET Users
  BY NextTyped
<1>1. ASSUME NEW k \in Logins, NEW u \in Users \cup {None}, Asked(k, u),
             IF k = "signIn" THEN session = None ELSE mode.settled => ~SigningOut
      PROVE  Tidy'
  <2>1. UNCHANGED <<api, browser, flight, calls, mode>>
    BY <1>1 DEF Asked
  <2>2. logins'[k].pair = None /\ \A j \in Logins \ {k} : logins'[j] = logins[j]
    BY <1>1, AskedFacts
  <2>3. Gentle' <=> Gentle
    BY <2>1 DEF Gentle
  <2>4. InHand' \subseteq InHand \cup {None}
    BY <2>1, <2>2 DEF InHand
  <2>5. ASSUME Gentle, NEW c \in Calls, calls[c].out
        PROVE  FALSE
    <3>1. session # None /\ SigningOut
      BY <2>5 DEF AloneOut, SigningOut
    <3> QED
      BY <1>1, <2>5, <3>1 DEF Gentle
  <2>6. Gentle /\ session # None => logins'["signIn"] = NoLogin
    BY <1>1, <2>2 DEF Logins
  <2> QED
    BY <1>0, <2>1, <2>2, <2>3, <2>4, <2>5, <2>6
<1>2. ASSUME NEW k \in Logins, loginWithEmail(k)
      PROVE  Tidy'
  <2>1. /\ logins[k].step = "sent" /\ logins[k].pair = None
        /\ logins'[k].user = logins[k].user /\ \A j \in Logins \ {k} : logins'[j] = logins[j]
        /\ UNCHANGED <<active, browser, flight, calls, mode>>
        /\ \/ logins'[k].pair = None /\ UNCHANGED <<owner, live, young>>
           \/ \E p \in Pairs : logins[k].user \in Users /\ Issued(p, logins[k].user) /\ logins'[k].pair = p
    BY <1>2, LoginServed
  <2>2. Gentle' <=> Gentle
    BY <2>1 DEF Gentle
  <2>3. ASSUME Gentle, NEW c \in Calls, calls[c].out
        PROVE  FALSE
    BY <2>1, <2>3, NoLoginTyped DEF AloneOut
  <2>4. Gentle /\ session # None => logins'["signIn"] = NoLogin
    BY <2>1, NoLoginTyped DEF Logins
  <2>5. CASE logins'[k].pair = None /\ UNCHANGED <<owner, live, young>>
    <3>1. InHand' \subseteq InHand \cup {None}
      BY <2>1, <2>5 DEF InHand
    <3> QED
      BY <1>0, <2>1, <2>2, <2>3, <2>4, <2>5, <3>1
  <2>6. ASSUME NEW p \in Pairs, logins[k].user \in Users, Issued(p, logins[k].user), logins'[k].pair = p
        PROVE  Tidy'
    <3>1. /\ owner'[p] = logins[k].user /\ \A q \in Pairs \cap InHand : owner'[q] = owner[q] /\ (q \in live => q \in live')
          /\ young' \in SUBSET Pairs /\ (~mode.swift => young' = {})
          /\ \A q \in young' : q = p \/ (q \in young /\ q \in InHand)
          /\ p \in live' \/ p \in young \cap InHand
      BY <2>1, <2>6, IssuedTidy
    <3>2. \A q \in {stored, flight.pair, flight.new} : q # None => owner'[q] # None
      BY <3>1 DEF TypeOK, InHand
    <3>3. \A j \in Logins : logins'[j].pair # None => owner'[logins'[j].pair] # None
      BY <2>1, <2>6, <3>1 DEF TypeOK, Login, InHand
    <3>4. ASSUME Gentle
          PROVE  /\ flight.new # None => flight.new \in live'
                 /\ \A c \in Calls : calls[c].retried =>
                      calls[c].step = "served" \/ (calls[c].step = "sent" /\ calls[c].pair \in live')
                 /\ \A q \in young' : q \in live'
      <4>1. \A q \in young \cap InHand : q \in live
        BY <2>3, <3>4
      <4>2. \A c \in Calls : calls[c].pair \in live => calls[c].pair \in Pairs \cap InHand
        BY DEF TypeOK, InHand
      <4>3. flight.new # None => flight.new \in Pairs \cap InHand
        BY DEF TypeOK, InHand
      <4> QED
        BY <3>1, <3>4, <4>1, <4>2, <4>3
    <3> QED
      BY <1>0, <2>1, <2>2, <2>3, <2>4, <3>1, <3>2, <3>3, <3>4
  <2> QED
    BY <2>1, <2>5, <2>6
<1>19. ASSUME SignedIn
       PROVE  Tidy'
  <2> DEFINE l == logins["signIn"]
  <2>1. l.step = "granted" /\ l # NoLogin /\ l.pair \in Pairs /\ l.user \in Users /\ owner[l.pair] # None
    BY <1>19, NoLoginTyped DEF SignedIn, TypeOK, Logins, Login
  <2>2. /\ stored' = l.pair /\ began' = l.pair /\ session' = l.user /\ UNCHANGED <<api, flight, calls, mode>>
        /\ logins'["signIn"] = NoLogin /\ \A j \in Logins \ {"signIn"} : logins'[j] = logins[j]
    BY <1>19, LoginGone DEF SignedIn, TypeOK, Logins
  <2>3. Gentle' <=> Gentle
    BY <2>2 DEF Gentle
  <2>4. InHand' \subseteq InHand \cup {None}
    BY <2>2, NoLoginTyped DEF InHand, Logins
  <2>5. ASSUME Gentle, NEW c \in Calls, calls[c].out
        PROVE  FALSE
    BY <2>1, <2>5 DEF AloneOut
  <2> HIDE DEF l
  <2> QED
    BY <1>0, <2>1, <2>2, <2>3, <2>4, <2>5, NoLoginTyped
<1>20. ASSUME Confirmed
       PROVE  Tidy'
  <2> DEFINE l == logins["confirm"]
  <2>1. l.step = "granted" /\ l # NoLogin /\ l.pair \in Pairs /\ owner[l.pair] # None
    BY <1>20, NoLoginTyped DEF Confirmed, TypeOK, Logins, Login
  <2>2. /\ stored' = l.pair /\ late' = (session = None) /\ UNCHANGED <<api, session, began, flight, calls, mode>>
        /\ logins'["confirm"] = NoLogin /\ \A j \in Logins \ {"confirm"} : logins'[j] = logins[j]
    BY <1>20, LoginGone DEF Confirmed, TypeOK, Logins
  <2>3. Gentle' <=> Gentle
    BY <2>2 DEF Gentle
  <2>4. InHand' \subseteq InHand \cup {None}
    BY <2>2, NoLoginTyped DEF InHand, Logins
  <2>5. ASSUME Gentle, NEW c \in Calls, calls[c].out
        PROVE  FALSE
    BY <2>1, <2>5 DEF AloneOut, Logins
  <2>6. logins'["signIn"] = logins["signIn"]
    BY <2>2 DEF Logins
  <2> HIDE DEF l
  <2> QED
    BY <1>0, <2>1, <2>2, <2>3, <2>4, <2>5, <2>6, NoLoginTyped
<1>21. ASSUME NEW k \in Logins, LoginFails(k)
       PROVE  Tidy'
  <2>1. /\ logins'[k] = NoLogin /\ (\A j \in Logins \ {k} : logins'[j] = logins[j])
        /\ UNCHANGED <<api, browser, flight, calls, mode>>
    BY <1>21, LoginGone DEF LoginFails
  <2>2. Gentle' <=> Gentle
    BY <2>1 DEF Gentle
  <2>3. InHand' \subseteq InHand \cup {None}
    BY <2>1, NoLoginTyped DEF InHand
  <2>4. ASSUME Gentle, NEW c \in Calls, calls[c].out
        PROVE  AloneOut(c)'
    BY <2>1, <2>4 DEF AloneOut
  <2>5. ASSUME Gentle, session # None
        PROVE  logins'["signIn"] = NoLogin
    BY <2>1, <2>5 DEF Logins
  <2> QED
    BY <1>0, <2>1, <2>2, <2>3, <2>4, <2>5, NoLoginTyped
<1>3. ASSUME NEW c \in Calls, NEW p \in {stored, began}, NEW out \in BOOLEAN, Sent(c, p, out), session # None,
             mode.settled => IF out THEN Rest ELSE ~SigningOut
      PROVE  Tidy'
  <2>1. calls[c] = Quiet /\ UNCHANGED <<api, browser, flight, logins, mode>>
    BY <1>3 DEF Sent
  <2>2. /\ calls'[c].out = out /\ calls'[c].retried = FALSE /\ calls'[c].step = "sent" /\ calls'[c].pair = p
        /\ \A d \in Calls \ {c} : calls'[d] = calls[d]
    BY <1>3 DEF Sent, Quiet, TypeOK
  <2>3. InHand' \subseteq InHand
    BY <2>1, <2>2 DEF InHand
  <2>4. Gentle' <=> Gentle
    BY <2>1 DEF Gentle
  <2>5. ASSUME Gentle, out
        PROVE  AloneOut(c)'
    BY <1>3, <2>1, <2>2, <2>5 DEF Gentle, Rest, AloneOut
  <2>6. ASSUME Gentle, NEW d \in Calls, calls'[d].out
        PROVE  AloneOut(d)'
    BY <1>3, <2>1, <2>2, <2>5, <2>6 DEF Gentle, Rest, SigningOut, Quiet
  <2>7. ASSUME Gentle
        PROVE  \A d \in Calls : calls[d].out => calls[d] = calls'[d]
    BY <2>1, <2>2 DEF Quiet
  <2> QED
    BY <1>0, <2>1, <2>2, <2>3, <2>4, <2>6, <2>7
<1>4. ASSUME NEW c \in Calls, Served(c)
      PROVE  Tidy'
  <2>1. /\ calls[c].step = "sent" /\ UNCHANGED <<owner, young, active, browser, flight, logins, mode>>
        /\ live' = IF calls[c].out THEN live \ {calls[c].pair} ELSE live
    BY <1>4 DEF Served
  <2>2. /\ calls'[c].step = "served" /\ calls'[c].out = calls[c].out /\ calls'[c].pair = calls[c].pair
        /\ \A d \in Calls \ {c} : calls'[d] = calls[d]
    BY <1>4 DEF Served, TypeOK, Call
  <2>3. InHand' = InHand
    BY <2>1, <2>2 DEF InHand
  <2>4. Gentle' <=> Gentle
    BY <2>1 DEF Gentle
  <2>5. ASSUME Gentle, calls[c].out
        PROVE  Tidy'
    <3>1. AloneOut(c) /\ flight = NoFlight
      BY <2>1, <2>5 DEF AloneOut
    <3>2. \A d \in Calls \ {c} : calls'[d] = Quiet
      BY <2>2, <3>1 DEF AloneOut
    <3>3. \A d \in Calls \ {c} : calls'[d].out = FALSE /\ calls'[d].retried = FALSE
      BY <3>2 DEF Quiet
    <3>4. AloneOut(c)'
      BY <2>1, <2>2, <3>1, <3>2 DEF AloneOut
    <3>5. flight.new = None
      BY <3>1 DEF NoFlight
    <3> QED
      BY <1>0, <2>1, <2>2, <2>4, <2>5, <3>1, <3>3, <3>4, <3>5
  <2>6. ASSUME Gentle, ~calls[c].out
        PROVE  Tidy'
    <3>1. \A d \in Calls : calls'[d].out => d # c /\ AloneOut(d)'
      BY <2>1, <2>2, <2>6 DEF AloneOut, Quiet
    <3> QED
      BY <1>0, <2>1, <2>2, <2>3, <2>4, <2>6, <3>1
  <2>7. ASSUME ~Gentle
        PROVE  Tidy'
    BY <1>0, <2>1, <2>4, <2>7
  <2> QED
    BY <2>5, <2>6, <2>7
<1>5. ASSUME NEW c \in Calls, Refused(c)
      PROVE  Tidy'
  <2>1. /\ calls[c].step = "sent" /\ calls[c].pair \notin live /\ UNCHANGED <<api, browser, flight, logins, mode>>
    BY <1>5 DEF Refused
  <2>2. /\ calls'[c].step = "refused" /\ calls'[c].out = calls[c].out /\ calls'[c].pair = calls[c].pair
        /\ calls'[c].retried = calls[c].retried /\ \A d \in Calls \ {c} : calls'[d] = calls[d]
    BY <1>5 DEF Refused, TypeOK, Call
  <2>3. InHand' = InHand
    BY <2>1, <2>2 DEF InHand
  <2>4. Gentle' <=> Gentle
    BY <2>1 DEF Gentle
  <2>5. ASSUME Gentle, NEW d \in Calls, calls'[d].out
        PROVE  AloneOut(d)'
    <3>1. AloneOut(d)
      BY <2>2, <2>5
    <3>2. d = c
      BY <2>1, <3>1 DEF AloneOut, Quiet
    <3> QED
      BY <2>1, <2>2, <3>1, <3>2 DEF AloneOut
  <2>6. ASSUME Gentle
        PROVE  ~calls[c].retried
    BY <2>1, <2>6
  <2> QED
    BY <1>0, <2>1, <2>2, <2>3, <2>4, <2>5, <2>6
<1>6. ASSUME NEW c \in Calls, Ended(c), calls[c].step \in {"sent", "served"}
      PROVE  Tidy'
  <2>1. /\ calls'[c] = Quiet /\ UNCHANGED <<api, flight, logins, mode>> /\ \A d \in Calls \ {c} : calls'[d] = calls[d]
    BY <1>6 DEF Ended, TypeOK
  <2>2. Gentle' <=> Gentle
    BY <2>1 DEF Gentle
  <2>3. InHand' \subseteq InHand \cup {None}
    BY <1>6, <2>1 DEF Ended, Clear, InHand, Quiet
  <2>4. ASSUME ~Gentle
        PROVE  Tidy'
    BY <1>0, <1>6, <2>1, <2>2, <2>4 DEF Ended, Clear
  <2>5. ASSUME Gentle, calls[c].out
        PROVE  Tidy'
    <3>1. flight = NoFlight /\ \A d \in Calls : calls'[d] = Quiet
      BY <1>6, <2>1, <2>5 DEF AloneOut
    <3>2. session' = None /\ stored' = None /\ began' = None
      BY <1>6, <2>5 DEF Ended, Clear
    <3>4. \A k \in Logins : logins[k] = NoLogin
      BY <2>5 DEF AloneOut
    <3>3. InHand' \subseteq {None}
      BY <2>1, <3>1, <3>2, <3>4, NoLoginTyped DEF InHand, Quiet, NoFlight
    <3> QED
      BY <1>0, <2>1, <3>1, <3>2, <3>3, <3>4, NoLoginTyped DEF Quiet, NoFlight
  <2>6. ASSUME Gentle, ~calls[c].out
        PROVE  Tidy'
    <3>1. UNCHANGED browser
      BY <1>6, <2>6 DEF Ended
    <3>2. ASSUME NEW d \in Calls, calls'[d].out
          PROVE  FALSE
      <4>1. d # c /\ calls[d].out
        BY <2>1, <3>2 DEF Quiet
      <4>2. AloneOut(d)
        BY <2>6, <4>1
      <4>3. calls[c] = Quiet
        BY <4>1, <4>2 DEF AloneOut
      <4> QED
        BY <1>6, <4>3 DEF Quiet
    <3>3. ASSUME NEW d \in Calls, calls'[d].retried
          PROVE  calls[d] = calls'[d]
      BY <2>1, <3>3 DEF Quiet
    <3>4. \A d \in Calls : calls[d].out => calls'[d] = calls[d]
      BY <2>1, <2>6
    <3> QED
      BY <1>0, <2>1, <2>2, <2>3, <2>6, <3>1, <3>2, <3>3, <3>4
  <2> QED
    BY <2>4, <2>5, <2>6
<1>7. ASSUME NEW c \in Calls, GiveUp(c)
      PROVE  Tidy'
  <2>1. /\ calls'[c] = Quiet /\ UNCHANGED <<api, flight, logins, mode>> /\ \A d \in Calls \ {c} : calls'[d] = calls[d]
        /\ calls[c].step = "refused" /\ (calls[c].retried \/ stored = None)
        /\ session' = None /\ stored' = None /\ began' = None
    BY <1>7 DEF GiveUp, Clear, TypeOK
  <2>2. Gentle' <=> Gentle
    BY <2>1 DEF Gentle
  <2>3. ASSUME Gentle
        PROVE  session = None /\ flight = NoFlight /\ \A d \in Calls : ~calls[d].out
    BY <2>1, <2>3 DEF AloneOut
  <2>4. InHand' \subseteq InHand \cup {None}
    BY <2>1 DEF InHand, Quiet
  <2>5. \A d \in Calls : calls'[d] = Quiet \/ calls'[d] = calls[d]
    BY <2>1
  <2> QED
    BY <1>0, <2>1, <2>2, <2>3, <2>4, <2>5 DEF Quiet, NoFlight
<1>8. ASSUME NEW c \in Calls, refreshAccessToken(c)
      PROVE  Tidy'
  <2>1. /\ calls[c].step = "refused" /\ ~calls[c].retried /\ stored # None /\ flight' = SharedFlight
        /\ UNCHANGED <<api, browser, logins, mode>>
    BY <1>8 DEF refreshAccessToken
  <2>2. /\ calls'[c].step = "waiting" /\ calls'[c].out = calls[c].out /\ calls'[c].pair = None
        /\ calls'[c].retried = calls[c].retried /\ \A d \in Calls \ {c} : calls'[d] = calls[d]
    BY <1>8 DEF refreshAccessToken, TypeOK, Call
  <2>3. /\ flight'.pair \in {stored, flight.pair} /\ (flight'.new = flight.new \/ flight'.new = None)
        /\ flight = NoFlight \/ flight' = flight
    BY <2>1 DEF SharedFlight
  <2>4. Gentle' <=> Gentle
    BY <2>1 DEF Gentle
  <2>5. InHand' \subseteq InHand \cup {None}
    BY <2>1, <2>2, <2>3 DEF InHand
  <2>6. ASSUME Gentle, NEW d \in Calls, calls'[d].out
        PROVE  AloneOut(d)'
    <3>1. AloneOut(d)
      BY <2>2, <2>6
    <3>2. d = c
      BY <2>1, <3>1 DEF AloneOut, Quiet
    <3> QED
      BY <2>1, <2>2, <3>1, <3>2 DEF AloneOut
  <2>7. \A d \in Calls : calls[d].step = "served" => calls'[d] = calls[d]
    BY <2>1, <2>2
  <2> QED
    BY <1>0, <2>1, <2>2, <2>3, <2>4, <2>5, <2>6, <2>7
<1>9. ASSUME refreshTokens
      PROVE  Tidy'
  <2>1. flight.step = "sent" /\ UNCHANGED <<active, browser, calls, logins, mode>>
    BY <1>9 DEF refreshTokens
  <2>2. Gentle' <=> Gentle
    BY <2>1 DEF Gentle
  <2>3. ASSUME Gentle
        PROVE  /\ stored # None /\ \A c \in Calls : calls[c].out => calls[c].step = "waiting"
               /\ \A c \in Calls : calls'[c].out => session' # None /\ \A d \in Calls \ {c} : calls'[d] = Quiet
    BY <2>1, <2>3 DEF NoFlight, AloneOut
  <2>4. CASE Denied
    <3>1. flight' = [NoFlight EXCEPT !.step = "answered"] /\ UNCHANGED <<owner, live, young>>
      BY <1>9, <2>4 DEF refreshTokens
    <3>2. flight'.pair = None /\ flight'.new = None
      BY <3>1 DEF NoFlight
    <3>3. InHand' \subseteq InHand \cup {None}
      BY <2>1, <3>2 DEF InHand
    <3> QED
      BY <1>0, <2>1, <2>2, <2>3, <3>1, <3>2, <3>3 DEF AloneOut
  <2>5. CASE ~Denied
    <3>1. PICK p \in Pairs : Issued(p, owner[flight.pair]) /\ flight' = [NoFlight EXCEPT !.step = "answered", !.new = p]
      BY <1>9, <2>5 DEF refreshTokens
    <3>2. flight'.pair = None /\ flight'.new = p
      BY <3>1 DEF NoFlight
    <3>3. owner[flight.pair] \in Users
      BY <2>1, <2>5 DEF Denied
    <3>4. /\ owner'[p] = owner[flight.pair]
          /\ \A q \in Pairs \cap InHand : owner'[q] = owner[q] /\ (q \in live => q \in live')
          /\ young' \in SUBSET Pairs /\ (~mode.swift => young' = {})
          /\ \A q \in young' : q = p \/ (q \in young /\ q \in InHand)
          /\ p \in live' \/ p \in young \cap InHand
      BY <2>1, <3>1, <3>3, IssuedTidy
    <3>5. \A q \in {stored, flight.pair, flight.new}' : q # None => owner'[q] # None
      BY <2>1, <3>2, <3>3, <3>4 DEF TypeOK, InHand
    <3>6. ASSUME Gentle
          PROVE  /\ p \in live'
                 /\ \A q \in young' : q \in live'
                 /\ \A c \in Calls : calls'[c].retried =>
                      calls'[c].step = "served" \/ (calls'[c].step = "sent" /\ calls'[c].pair \in live')
      <4>1. \A q \in young \cap InHand : q \in live
        BY <2>3, <3>6
      <4>2. \A c \in Calls : calls[c].pair \in live => calls[c].pair \in Pairs \cap InHand
        BY DEF TypeOK, InHand
      <4> QED
        BY <2>1, <3>4, <3>6, <4>1, <4>2
    <3>7. ASSUME Gentle, NEW c \in Calls, calls'[c].out
          PROVE  AloneOut(c)'
      BY <2>1, <2>3, <3>7 DEF AloneOut
    <3>8. \A k \in Logins : logins'[k].pair # None => owner'[logins'[k].pair] # None
      BY <2>1, <3>4 DEF TypeOK, Login, InHand
    <3> QED
      BY <1>0, <2>1, <2>2, <2>3, <3>2, <3>4, <3>5, <3>6, <3>7, <3>8
  <2> QED
    BY <2>4, <2>5
<1>10. ASSUME Refreshed
       PROVE  Tidy'
  <2>1. /\ flight.step = "answered" /\ flight.new # None /\ flight' = NoFlight /\ stored' = flight.new
        /\ UNCHANGED <<api, session, began, late, logins, mode>>
    BY <1>10 DEF Refreshed
  <2>2. \A c \in Calls : calls'[c] = IF Waiting(c) THEN Retried(c) ELSE calls[c]
    BY <1>10 DEF Refreshed
  <2>3. ASSUME NEW c \in Calls
        PROVE  /\ calls'[c].out = calls[c].out
               /\ calls'[c] = calls[c] \/ (calls'[c].step = "sent" /\ calls'[c].pair = flight.new)
    <3>1. calls[c] \in Call
      BY DEF TypeOK
    <3> QED
      BY <2>2, <3>1 DEF Retried, Call
  <2>4. Gentle' <=> Gentle
    BY <2>1 DEF Gentle
  <2>5. InHand' \subseteq InHand \cup {None}
    BY <2>1, <2>3 DEF InHand, NoFlight
  <2>6. ASSUME Gentle
        PROVE  /\ stored # None /\ flight.new \in live
               /\ \A c \in Calls : calls[c].out => Waiting(c) /\ session # None
    BY <2>1, <2>6 DEF NoFlight, AloneOut, Waiting
  <2>7. ASSUME Gentle, NEW c \in Calls, calls'[c].out
        PROVE  AloneOut(c)'
    <3>1. AloneOut(c)
      BY <2>3, <2>7
    <3>2. ASSUME NEW d \in Calls \ {c}
          PROVE  calls'[d] = Quiet
      <4>1. calls[d] = Quiet
        BY <3>1 DEF AloneOut
      <4>2. ~Waiting(d)
        BY <4>1 DEF Waiting, Quiet
      <4> QED
        BY <2>2, <4>1, <4>2
    <3> QED
      BY <2>1, <3>1, <3>2 DEF AloneOut
  <2>8. ASSUME Gentle, NEW q \in young \cap InHand, q # None
        PROVE  q \in live
    BY <2>6, <2>8 DEF Waiting
  <2> QED
    BY <1>0, <2>1, <2>3, <2>4, <2>5, <2>6, <2>7, <2>8 DEF NoFlight
<1>11. ASSUME RefreshFails
       PROVE  Tidy'
  <2>1. /\ flight.step \in {"sent", "answered"} /\ flight' = NoFlight
        /\ UNCHANGED <<api, logins, mode>> /\ session' = None /\ stored' = None /\ began' = None
    BY <1>11 DEF RefreshFails, Clear
  <2>2. \A c \in Calls : calls'[c] = IF Waiting(c) THEN Quiet ELSE calls[c]
    BY <1>11 DEF RefreshFails
  <2>3. Gentle' <=> Gentle
    BY <2>1 DEF Gentle
  <2>4. InHand' \subseteq InHand \cup {None}
    BY <2>1, <2>2 DEF InHand, NoFlight, Quiet
  <2>5. ASSUME Gentle, NEW c \in Calls
        PROVE  (calls[c].out => Waiting(c)) /\ ~calls'[c].out
    BY <2>1, <2>2, <2>5 DEF NoFlight, AloneOut, Waiting, Quiet
  <2>6. \A c \in Calls : calls'[c].retried => calls'[c] = calls[c]
    BY <2>2 DEF Quiet
  <2>7. ASSUME Gentle, NEW q \in young \cap InHand
        PROVE  q \in live
    BY <2>5, <2>7 DEF Waiting
  <2> QED
    BY <1>0, <2>1, <2>3, <2>4, <2>5, <2>6, <2>7 DEF NoFlight
<1>12. ASSUME NEW p \in Pairs, Expire(p)
       PROVE  Tidy'
  <2>1. /\ p \notin young /\ p # flight.new /\ live' = live \ {p}
        /\ \A c \in Calls : ~(calls[c].retried /\ calls[c].pair = p)
        /\ UNCHANGED <<owner, young, active, browser, flight, logins, calls, mode>>
    BY <1>12 DEF Expire
  <2> QED
    BY <1>0, <2>1 DEF Gentle, AloneOut, InHand
<1>13. ASSUME Second
       PROVE  Tidy'
  BY <1>0, <1>13 DEF Second, Gentle, AloneOut
<1>14. ASSUME Reload
       PROVE  Tidy'
  <2>4. logins' = [k \in Logins |-> NoLogin]
    BY <1>14 DEF Reload
  <2>1. /\ mode.reloads /\ session' = (IF stored = None THEN None ELSE owner[stored]) /\ began' = stored
        /\ flight' = NoFlight /\ UNCHANGED <<api, stored, mode>> /\ \A c \in Calls : calls'[c] = Quiet
    BY <1>14 DEF Reload
  <2>2. session' # None <=> stored' # None
    BY <2>1
  <2>3. Gentle' => young' = {}
    BY <2>1 DEF Gentle
  <2> QED
    BY <1>0, <2>1, <2>2, <2>3, <2>4, NoLoginTyped DEF NoFlight, Quiet, Logins
<1>15. ASSUME NEW u \in Users, Deactivate(u)
       PROVE  Tidy'
  BY <1>0, <1>15 DEF Deactivate, Gentle, AloneOut, InHand
<1>16. CASE UNCHANGED vars
  BY <1>0, <1>16 DEF vars, Gentle, AloneOut, InHand
<1>17. CASE \E c \in Calls : apiFetch(c) \/ signOut(c)
  BY <1>3, <1>17 DEF apiFetch, signOut
<1>18. CASE \E c \in Calls : Answered(c) \/ Lost(c)
  BY <1>6, <1>18 DEF Answered, Lost
<1> QED
  <2>1. CASE \E u \in Users : signInWithCredentials(u)
    BY <1>1, <2>1 DEF signInWithCredentials, Logins
  <2>2. CASE verifySessionPassword
    BY <1>1, <2>2 DEF verifySessionPassword, TypeOK, Logins
  <2> QED
    BY <1>2, <1>4, <1>5, <1>7, <1>8, <1>9, <1>10, <1>11, <1>12, <1>13, <1>14, <1>15, <1>16, <1>17, <1>18, <1>19, <1>20, <1>21,
       <2>1, <2>2 DEF Next

(* With nothing else in flight, signing out leaves no token behind, however*)
(* it ends and whatever happens around it, and so does giving a session up,*)
(* unless a confirmation is answered after its session or the page is      *)
(* loaded again within a second of the last tokens: nobody need wait,      *)
(* answers may be lost, accounts deactivated, calls left over refused.     *)
THEOREM SigningOutClears == Spec => []SignedOutIsClear
<1>1. Init => Tidy
  <2> SUFFICES ASSUME Init
               PROVE  Tidy
    OBVIOUS
  <2>1. TypeOK /\ active \in SUBSET Users
    BY InitInv DEF Inv
  <2>2. /\ young = {} /\ session = None /\ stored = None /\ flight = NoFlight
        /\ \A c \in Calls : ~calls[c].out /\ ~calls[c].retried
        /\ \A k \in Logins : logins[k].pair = None
    BY NoLoginTyped DEF Init, Quiet
  <2> QED
    BY <2>1, <2>2 DEF Tidy, NoFlight
<1>2. Tidy /\ [Next]_vars => Tidy'
  BY NextTidy
<1>3. Tidy => SignedOutIsClear
  BY DEF Tidy, Gentle, SignedOutIsClear
<1> QED
  BY <1>1, <1>2, <1>3, PTL DEF Spec

-----------------------------------------------------------------------------
(* A request carries what its next step uses.                              *)
Carries(r) ==
  /\ req[r].op = "create" => req[r].tier \in Tiers
  /\ req[r].op = "activate" => req[r].s \in Staff
  /\ req[r].op = "assign" => req[r].s \in Staff /\ req[r].tier \in Tiers
  /\ At(r, "roles") => req[r].op = "activate"
  /\ At(r, "has") => req[r].op = "assign"
  /\ At(r, "count") => req[r].tier \in Tiers

SeatTypes == SeatsTypeOK /\ \A r \in Requests : Carries(r)

-----------------------------------------------------------------------------
(* The seeded database is well typed.                                      *)
LEMMA InitSeatTypes == SeatsInit => SeatTypes
<1> SUFFICES ASSUME SeatsInit PROVE SeatTypes
  OBVIOUS
<1>1. 0 \in 0..MaxRoles /\ 1 \in 0..MaxRoles
  BY SeatsAssumption
<1>2. SeatsTypeOK
  BY <1>1, SeatsAssumption DEF SeatsInit, SeatsTypeOK, Idle, Request, Tiers
<1>3. \A r \in Requests : Carries(r)
  BY DEF SeatsInit, Carries, Idle, At
<1> QED BY <1>2, <1>3 DEF SeatTypes

(* A request that arrives is well typed.                                   *)
LEMMA ArrivesTypes ==
  ASSUME SeatTypes, NEW r \in Requests, NEW step \in {"roles", "has", "count", "write"},
         NEW op \in {"create", "activate", "assign"}, NEW s \in Staff \cup {NoOne}, NEW t \in Tiers \cup {NoOne},
         op = "create" => t \in Tiers, op # "create" => s \in Staff, op = "assign" => t \in Tiers,
         step = "roles" => op = "activate", step = "has" => op = "assign", step = "count" => t \in Tiers,
         Arrives(r, step, op, s, t)
  PROVE  SeatTypes'
  BY DEF SeatTypes, SeatsTypeOK, Carries, Arrives, At, Request

(* Every step keeps the types.                                             *)
LEMMA StepSeatTypes == SeatTypes /\ [SeatsNext]_seatVars => SeatTypes'
<1> SUFFICES ASSUME SeatTypes, [SeatsNext]_seatVars PROVE SeatTypes'
  OBVIOUS
<1>1. CASE UNCHANGED seatVars
  BY <1>1 DEF SeatTypes, SeatsTypeOK, Carries, seatVars, At
<1>2. ASSUME NEW s \in Staff, NEW t \in Tiers, RemoveRole(s, t) PROVE SeatTypes'
  <2>1. roles' \in [Staff -> [Tiers -> 0..MaxRoles]]
    BY <1>2, SeatsAssumption DEF SeatTypes, SeatsTypeOK, RemoveRole
  <2> QED BY <1>2, <2>1 DEF SeatTypes, SeatsTypeOK, Carries, RemoveRole, At
<1>3. ASSUME NEW r \in Requests, ReadRoles(r) PROVE SeatTypes'
  <2>1. tierForRoleIds(req[r].s) \in Tiers \cup {NoOne}
    BY DEF tierForRoleIds, Tiers
  <2> QED BY <1>3, <2>1 DEF SeatTypes, SeatsTypeOK, Carries, ReadRoles, At, Request
<1>4. ASSUME NEW r \in Requests, AlreadyHasTier(r) PROVE SeatTypes'
  BY <1>4 DEF SeatTypes, SeatsTypeOK, Carries, AlreadyHasTier, Goes, At, Request
<1>5. ASSUME NEW r \in Requests, assertSeatAvailable(r) PROVE SeatTypes'
  <2>1. CASE Goes(r, "write")
    BY <1>5, <2>1 DEF SeatTypes, SeatsTypeOK, Carries, assertSeatAvailable, Goes, At, Request
  <2>2. CASE Ends(r)
    BY <1>5, <2>2 DEF SeatTypes, SeatsTypeOK, Carries, assertSeatAvailable, Ends, Idle, At, Request
  <2> QED BY <1>5, <2>1, <2>2 DEF assertSeatAvailable
<1>6. ASSUME NEW r \in Requests, NEW s \in Staff, WriteStaff(r, s) PROVE SeatTypes'
  <2>1. roles' \in [Staff -> [Tiers -> 0..MaxRoles]]
    <3>1. 0 \in 0..MaxRoles /\ 1 \in 0..MaxRoles
      BY SeatsAssumption
    <3>2. [t \in Tiers |-> IF t = req[r].tier THEN 1 ELSE 0] \in [Tiers -> 0..MaxRoles]
      BY <3>1
    <3> QED BY <1>6, <3>2 DEF SeatTypes, SeatsTypeOK, WriteStaff
  <2> QED BY <1>6, <2>1 DEF SeatTypes, SeatsTypeOK, Carries, WriteStaff, Written, Ends, Idle, At, Request
<1>7. ASSUME NEW r \in Requests, WriteActive(r) PROVE SeatTypes'
  BY <1>7 DEF SeatTypes, SeatsTypeOK, Carries, WriteActive, Written, Ends, Idle, At, Request
<1>8. ASSUME NEW r \in Requests, WriteRole(r) PROVE SeatTypes'
  <2>1. roles' \in [Staff -> [Tiers -> 0..MaxRoles]]
    BY <1>8, SeatsAssumption DEF SeatTypes, SeatsTypeOK, Carries, WriteRole
  <2> QED BY <1>8, <2>1 DEF SeatTypes, SeatsTypeOK, Carries, WriteRole, Written, Ends, Idle, At, Request
<1>9. ASSUME NEW r \in Requests, NEW t \in Tiers, CreateStaff(r, t) PROVE SeatTypes'
  BY <1>9, ArrivesTypes DEF CreateStaff
<1>10. ASSUME NEW r \in Requests, NEW s \in Staff, Activate(r, s) PROVE SeatTypes'
  BY <1>10, ArrivesTypes DEF Activate
<1>11. ASSUME NEW r \in Requests, NEW s \in Staff, NEW t \in Tiers, AssignRole(r, s, t) PROVE SeatTypes'
  BY <1>11, ArrivesTypes DEF AssignRole
<1>12. ASSUME NEW r \in Requests, NEW s \in Staff, DeactivateStaff(r, s) PROVE SeatTypes'
  BY <1>12 DEF SeatTypes, SeatsTypeOK, Carries, DeactivateStaff, At
<1> QED BY <1>1, <1>2, <1>3, <1>4, <1>5, <1>6, <1>7, <1>8, <1>9, <1>10, <1>11, <1>12 DEF SeatsNext

(* The tables and the requests keep their types, for any accounts and any  *)
(* number of requests in flight.                                           *)
THEOREM SeatsTypeCorrect == SeatsSpec => []SeatsTypeOK
<1>1. SeatTypes => SeatsTypeOK
  BY DEF SeatTypes
<1> QED BY <1>1, InitSeatTypes, StepSeatTypes, PTL DEF SeatsSpec

-----------------------------------------------------------------------------
(* What a request found still covers its write: a seat is free, or the     *)
(* write seats nobody new.                                                 *)
Covered(r) ==
  /\ At(r, "count") /\ req[r].op = "activate" => roles[req[r].s]["admin"] = 0 \/ req[r].tier = "admin"
  /\ At(r, "write") /\ req[r].op = "create" => req[r].tier # "admin" \/ SeatAvailable("admin")
  /\ At(r, "write") /\ req[r].op = "activate" =>
       account[req[r].s] = "active" \/ roles[req[r].s]["admin"] = 0 \/ SeatAvailable("admin")
  /\ At(r, "write") /\ req[r].op = "assign" =>
       \/ req[r].tier # "admin" \/ account[req[r].s] # "active"
       \/ roles[req[r].s]["admin"] > 0 \/ SeatAvailable("admin")

(* Until a request writes between another's reads and its write.           *)
SeatInv == SeatTypes /\ AdminSeats /\ (overlapped \/ \A r \in Requests : Covered(r))

(* One more element makes a finite set larger by one at most.              *)
LEMMA AtMostOneMore ==
  ASSUME NEW S, IsFiniteSet(S), NEW T, NEW x, T \subseteq S \cup {x}
  PROVE  /\ Cardinality(S) \in Nat /\ Cardinality(T) \in Nat
         /\ Cardinality(T) <= Cardinality(S) + 1
         /\ T \subseteq S => Cardinality(T) <= Cardinality(S)
         /\ T \subseteq S /\ T # S => Cardinality(T) < Cardinality(S)
<1>1. /\ IsFiniteSet(S \cup {x})
      /\ Cardinality(S \cup {x}) = IF x \in S THEN Cardinality(S) ELSE Cardinality(S) + 1
  BY FS_AddElement
<1>2. IsFiniteSet(T) /\ Cardinality(T) <= Cardinality(S \cup {x})
  BY <1>1, FS_Subset
<1>3. /\ T \subseteq S => Cardinality(T) <= Cardinality(S)
      /\ T \subseteq S /\ T # S => Cardinality(S) # Cardinality(T)
  BY FS_Subset
<1>4. Cardinality(S) \in Nat /\ Cardinality(T) \in Nat
  BY <1>2, FS_CardinalityType
<1> QED BY <1>1, <1>2, <1>3, <1>4

(* A step that seats nobody but s uses one more seat at most, none if s    *)
(* had one, and one less if it unseats somebody instead.                   *)
LEMMA SeatsUsed ==
  ASSUME NEW s, Seated("admin")' \subseteq Seated("admin") \cup {s}
  PROVE  /\ Used("admin") \in Nat /\ Used("admin")' \in Nat
         /\ Used("admin")' <= Used("admin") + 1
         /\ Seated("admin")' \subseteq Seated("admin") => Used("admin")' <= Used("admin")
         /\ Seated("admin")' \subseteq Seated("admin") /\ Seated("admin")' # Seated("admin")
              => Used("admin")' < Used("admin")
<1>1. IsFiniteSet(Seated("admin"))
  BY SeatsAssumption, FS_Subset DEF Seated
<1>2. Used("admin")' = Cardinality(Seated("admin")')
  BY DEF Used
<1> DEFINE S == Seated("admin")
          T == Seated("admin")'
<1> HIDE DEF S, T
<1>3. IsFiniteSet(S) /\ T \subseteq S \cup {s}
  BY <1>1 DEF S, T
<1>4. /\ Cardinality(S) \in Nat /\ Cardinality(T) \in Nat
      /\ Cardinality(T) <= Cardinality(S) + 1
      /\ T \subseteq S => Cardinality(T) <= Cardinality(S)
      /\ T \subseteq S /\ T # S => Cardinality(T) < Cardinality(S)
  BY <1>3, AtMostOneMore
<1> QED BY <1>2, <1>4 DEF S, T, Used

(* The limit is a number, and a free seat is one below it.                 *)
LEMMA LimitIsNat == Limit["admin"] \in Nat /\ Limit["admin"] >= 1
  BY SeatsAssumption DEF Tiers

(* The owner takes the one seat that is taken at first.                    *)
LEMMA InitSeatInv == SeatsInit => SeatInv
<1> SUFFICES ASSUME SeatsInit PROVE SeatInv
  OBVIOUS
<1>1. SeatTypes
  BY InitSeatTypes
<1>2. Seated("admin") = {Owner}
  BY SeatsAssumption DEF SeatsInit, Seated, Tiers
<1>3. AdminSeats
  BY <1>2, LimitIsNat, FS_Singleton DEF AdminSeats, Used
<1>4. \A r \in Requests : Covered(r)
  BY DEF SeatsInit, Covered, Idle, At
<1> QED BY <1>1, <1>3, <1>4 DEF SeatInv

(* A step that leaves the tables alone, and whose request is covered.      *)
LEMMA StepOfRequest ==
  ASSUME SeatInv, SeatTypes', UNCHANGED <<account, roles, overlapped>>, NEW r \in Requests,
         overlapped \/ Covered(r)',
         \A q \in Requests : q # r => req'[q] = req[q]
  PROVE  SeatInv'
<1>1. Used("admin")' = Used("admin") /\ SeatAvailable("admin")' = SeatAvailable("admin")
  BY DEF Used, Seated, SeatAvailable
<1>2. AdminSeats'
  BY <1>1 DEF SeatInv, AdminSeats
<1>3. ASSUME ~overlapped, NEW q \in Requests, q # r PROVE Covered(q)'
  BY <1>1, <1>3 DEF SeatInv, Covered, At
<1> QED BY <1>2, <1>3 DEF SeatInv

(* A request that writes the tables, and is the only one in flight or      *)
(* overlaps another one.                                                   *)
LEMMA StepOfWrite ==
  ASSUME SeatInv, SeatTypes, SeatTypes', NEW r \in Requests, Written(r),
         ~overlapped => Used("admin")' <= Limit["admin"]
  PROVE  SeatInv'
<1>1. CASE overlapped'
  BY <1>1 DEF SeatInv, AdminSeats
<1>2. CASE ~overlapped'
  <2>1. ~overlapped /\ (\A q \in Requests : req'[q] = Idle) /\ AdminSeats'
    BY <1>2 DEF Written, Ends, AdminSeats, SeatTypes, SeatsTypeOK
  <2> QED BY <2>1 DEF SeatInv, Covered, Idle, At
<1> QED BY <1>1, <1>2

(* An assignment that goes and an account that is deactivated free their   *)
(* seat, if any.                                                           *)
LEMMA FewerSeats ==
  ASSUME SeatInv, SeatTypes', UNCHANGED <<req, overlapped>>,
         \A x \in Staff : /\ roles'[x]["admin"] <= roles[x]["admin"]
                          /\ account'[x] # account[x] => account'[x] = "inactive"
  PROVE  SeatInv'
<1>0. CASE overlapped
  BY <1>0 DEF SeatInv, AdminSeats
<1> SUFFICES ASSUME ~overlapped PROVE SeatInv'
  BY <1>0
<1>1. \A x \in Staff : /\ roles[x]["admin"] \in Nat /\ roles'[x]["admin"] \in Nat
                       /\ roles'[x]["admin"] <= roles[x]["admin"]
  <2>1. roles \in [Staff -> [Tiers -> 0..MaxRoles]] /\ roles' \in [Staff -> [Tiers -> 0..MaxRoles]]
    BY DEF SeatInv, SeatTypes, SeatsTypeOK
  <2>2. ASSUME NEW x \in Staff PROVE roles[x]["admin"] \in 0..MaxRoles /\ roles'[x]["admin"] \in 0..MaxRoles
    BY <2>1 DEF Tiers
  <2> QED BY <2>2, SeatsAssumption
<1>2. Seated("admin")' \subseteq Seated("admin")
  BY <1>1 DEF Seated
<1>3. /\ Used("admin") \in Nat /\ Used("admin")' \in Nat /\ Used("admin")' <= Used("admin")
      /\ Seated("admin")' # Seated("admin") => Used("admin")' < Used("admin")
  BY <1>2, SeatsUsed
<1>4. AdminSeats' /\ (SeatAvailable("admin") => SeatAvailable("admin")')
  BY <1>3, LimitIsNat DEF SeatInv, AdminSeats, SeatAvailable
<1>5. ASSUME NEW x \in Staff, account[x] = "active" /\ roles[x]["admin"] > 0,
             ~(account'[x] = "active" /\ roles'[x]["admin"] > 0)
      PROVE  SeatAvailable("admin")'
  <2>1. x \in Seated("admin") /\ x \notin Seated("admin")'
    BY <1>5 DEF Seated
  <2> QED BY <2>1, <1>3, LimitIsNat DEF SeatInv, AdminSeats, SeatAvailable
<1>6. ASSUME NEW q \in Requests PROVE Covered(q)'
  <2>0. Covered(q)
    BY DEF SeatInv
  <2>1. CASE At(q, "count") /\ req[q].op = "activate"
    BY <2>0, <2>1, <1>1 DEF SeatInv, SeatTypes, Carries, Covered, At
  <2>2. CASE At(q, "write") /\ req[q].op = "create"
    BY <2>0, <2>2, <1>4 DEF Covered, At
  <2>3. CASE At(q, "write") /\ req[q].op = "activate"
    <3>1. req[q].s \in Staff
      BY <2>3 DEF SeatInv, SeatTypes, Carries
    <3>2. CASE account[req[q].s] = "active" /\ roles[req[q].s]["admin"] > 0
      BY <2>3, <3>1, <3>2, <1>5 DEF Covered, At
    <3>3. CASE ~(account[req[q].s] = "active" /\ roles[req[q].s]["admin"] > 0)
      BY <2>0, <2>3, <3>1, <3>3, <1>1, <1>4 DEF Covered, At
    <3> QED BY <3>2, <3>3
  <2>4. CASE At(q, "write") /\ req[q].op = "assign"
    <3>1. req[q].s \in Staff
      BY <2>4 DEF SeatInv, SeatTypes, Carries
    <3>2. CASE account[req[q].s] = "active" /\ roles[req[q].s]["admin"] > 0
      BY <2>4, <3>1, <3>2, <1>5 DEF Covered, At
    <3>3. CASE ~(account[req[q].s] = "active" /\ roles[req[q].s]["admin"] > 0)
      <4>1. account[req[q].s] # "active" => account'[req[q].s] # "active"
        BY <3>1
      <4>2. \/ req[q].tier # "admin" \/ account[req[q].s] # "active" \/ SeatAvailable("admin")
        BY <2>0, <2>4, <3>3 DEF Covered
      <4> QED BY <2>4, <4>1, <4>2, <1>4 DEF Covered, At
    <3> QED BY <3>2, <3>3
  <2> QED BY <2>1, <2>2, <2>3, <2>4 DEF Covered, At
<1> QED BY <1>4, <1>6 DEF SeatInv

(* Every step keeps the seats, until requests overlap.                     *)
LEMMA StepSeats == SeatInv /\ [SeatsNext]_seatVars => SeatInv'
<1> SUFFICES ASSUME SeatInv, [SeatsNext]_seatVars PROVE SeatInv'
  OBVIOUS
<1>0. SeatTypes /\ SeatTypes'
  BY StepSeatTypes DEF SeatInv
<1>1. CASE UNCHANGED seatVars
  BY <1>1, <1>0 DEF SeatInv, AdminSeats, Used, Seated, SeatAvailable, Covered, At, seatVars
<1>2. ASSUME NEW s \in Staff, NEW t \in Tiers, RemoveRole(s, t) PROVE SeatInv'
  <2>1. \A x \in Staff : roles'[x]["admin"] <= roles[x]["admin"]
    BY <1>0, <1>2 DEF RemoveRole, SeatTypes, SeatsTypeOK, Tiers
  <2> QED BY <1>0, <1>2, <2>1, FewerSeats DEF RemoveRole
<1>3. ASSUME NEW r \in Requests, ReadRoles(r) PROVE SeatInv'
  <2>1. req[r].op = "activate" /\ req[r].s \in Staff /\ roles[req[r].s]["admin"] \in Nat
    BY <1>0, <1>3 DEF ReadRoles, SeatTypes, SeatsTypeOK, Carries, At, Tiers
  <2>2. tierForRoleIds(req[r].s) = "admin" \/ roles[req[r].s]["admin"] = 0
    BY <2>1 DEF tierForRoleIds
  <2>3. /\ req'[r].op = "activate" /\ req'[r].s = req[r].s
        /\ req'[r].tier = tierForRoleIds(req[r].s)
        /\ req'[r].step = IF tierForRoleIds(req[r].s) = NoOne THEN "write" ELSE "count"
    BY <1>0, <1>3, <2>1 DEF ReadRoles, SeatTypes, SeatsTypeOK, Request
  <2>4. "admin" # NoOne
    BY SeatsAssumption DEF Tiers
  <2>5. Covered(r)'
    BY <1>3, <2>2, <2>3, <2>4 DEF Covered, At, ReadRoles
  <2> QED BY <1>0, <1>3, <2>5, StepOfRequest DEF ReadRoles, SeatTypes, SeatsTypeOK
<1>4. ASSUME NEW r \in Requests, AlreadyHasTier(r) PROVE SeatInv'
  <2>1. Covered(r)'
    BY <1>0, <1>4 DEF AlreadyHasTier, Goes, SeatTypes, SeatsTypeOK, Carries, Covered, At, Request
  <2> QED BY <1>0, <1>4, <2>1, StepOfRequest DEF AlreadyHasTier, Goes, SeatTypes, SeatsTypeOK
<1>5. ASSUME NEW r \in Requests, assertSeatAvailable(r) PROVE SeatInv'
  <2>1. SeatAvailable("admin")' = SeatAvailable("admin")
    BY <1>5 DEF assertSeatAvailable, SeatAvailable, Used, Seated
  <2>2. CASE Goes(r, "write") /\ SeatAvailable(req[r].tier)
    <3>1. overlapped \/ Covered(r)'
      BY <1>0, <1>5, <2>1, <2>2 DEF assertSeatAvailable, Goes, SeatInv, SeatTypes, SeatsTypeOK, Carries, Covered, At, Request
    <3> QED BY <1>0, <1>5, <2>2, <3>1, StepOfRequest DEF assertSeatAvailable, Goes, SeatTypes, SeatsTypeOK
  <2>3. CASE Ends(r)
    <3>1. Covered(r)'
      BY <1>0, <2>3 DEF Ends, Idle, Covered, At, SeatTypes, SeatsTypeOK
    <3> QED BY <1>0, <1>5, <2>3, <3>1, StepOfRequest DEF assertSeatAvailable, Ends, SeatTypes, SeatsTypeOK
  <2> QED BY <1>5, <2>2, <2>3 DEF assertSeatAvailable
<1>6. ASSUME NEW r \in Requests, NEW s \in Staff, WriteStaff(r, s) PROVE SeatInv'
  <2>1. Seated("admin")' \subseteq Seated("admin") \cup {s}
    BY <1>0, <1>6 DEF WriteStaff, Seated, SeatTypes, SeatsTypeOK
  <2>2. req[r].tier # "admin" => Seated("admin")' \subseteq Seated("admin")
    BY <1>0, <1>6 DEF WriteStaff, Seated, SeatTypes, SeatsTypeOK, Tiers
  <2>3. ~overlapped => req[r].tier # "admin" \/ SeatAvailable("admin")
    BY <1>6 DEF WriteStaff, SeatInv, Covered
  <2>4. ~overlapped => Used("admin")' <= Limit["admin"]
    BY <2>1, <2>2, <2>3, SeatsUsed, LimitIsNat DEF SeatInv, AdminSeats, SeatAvailable
  <2> QED BY <1>0, <1>6, <2>4, StepOfWrite DEF WriteStaff
<1>7. ASSUME NEW r \in Requests, WriteActive(r) PROVE SeatInv'
  <2>0. req[r].s \in Staff
    BY <1>0, <1>7 DEF WriteActive, SeatTypes, Carries
  <2>1. Seated("admin")' \subseteq Seated("admin") \cup {req[r].s}
    BY <1>0, <1>7 DEF WriteActive, Seated, SeatTypes, SeatsTypeOK
  <2>2. account[req[r].s] = "active" \/ roles[req[r].s]["admin"] = 0
          => Seated("admin")' \subseteq Seated("admin")
    BY <1>0, <1>7, <2>0 DEF WriteActive, Seated, SeatTypes, SeatsTypeOK
  <2>3. ~overlapped => account[req[r].s] = "active" \/ roles[req[r].s]["admin"] = 0 \/ SeatAvailable("admin")
    BY <1>7 DEF WriteActive, SeatInv, Covered
  <2>4. ~overlapped => Used("admin")' <= Limit["admin"]
    BY <2>1, <2>2, <2>3, SeatsUsed, LimitIsNat DEF SeatInv, AdminSeats, SeatAvailable
  <2> QED BY <1>0, <1>7, <2>4, StepOfWrite DEF WriteActive
<1>8. ASSUME NEW r \in Requests, WriteRole(r) PROVE SeatInv'
  <2>0. req[r].s \in Staff /\ req[r].tier \in Tiers
    BY <1>0, <1>8 DEF WriteRole, SeatTypes, Carries
  <2>1. Seated("admin")' \subseteq Seated("admin") \cup {req[r].s}
    BY <1>0, <1>8 DEF WriteRole, Seated, SeatTypes, SeatsTypeOK
  <2> DEFINE Nobody == \/ req[r].tier # "admin" \/ account[req[r].s] # "active"
                       \/ roles[req[r].s]["admin"] > 0
  <2>2. Nobody => Seated("admin")' \subseteq Seated("admin")
    BY <1>0, <1>8, <2>0 DEF WriteRole, Seated, SeatTypes, SeatsTypeOK, Tiers
  <2>3. ~overlapped => Nobody \/ SeatAvailable("admin")
    BY <1>8 DEF WriteRole, SeatInv, Covered
  <2>4. ~overlapped => Used("admin")' <= Limit["admin"]
    BY <2>1, <2>2, <2>3, SeatsUsed, LimitIsNat DEF SeatInv, AdminSeats, SeatAvailable
  <2> QED BY <1>0, <1>8, <2>4, StepOfWrite DEF WriteRole
<1>9. ASSUME NEW r \in Requests, NEW t \in Tiers, CreateStaff(r, t) PROVE SeatInv'
  <2>1. Covered(r)'
    BY <1>0, <1>9 DEF CreateStaff, Arrives, SeatTypes, SeatsTypeOK, Covered, At
  <2> QED BY <1>0, <1>9, <2>1, StepOfRequest DEF CreateStaff, Arrives, SeatTypes, SeatsTypeOK
<1>10. ASSUME NEW r \in Requests, NEW s \in Staff, Activate(r, s) PROVE SeatInv'
  <2>1. Covered(r)'
    BY <1>0, <1>10 DEF Activate, Arrives, SeatTypes, SeatsTypeOK, Covered, At
  <2> QED BY <1>0, <1>10, <2>1, StepOfRequest DEF Activate, Arrives, SeatTypes, SeatsTypeOK
<1>11. ASSUME NEW r \in Requests, NEW s \in Staff, NEW t \in Tiers, AssignRole(r, s, t) PROVE SeatInv'
  <2>1. Covered(r)'
    BY <1>0, <1>11 DEF AssignRole, Arrives, SeatTypes, SeatsTypeOK, Covered, At
  <2> QED BY <1>0, <1>11, <2>1, StepOfRequest DEF AssignRole, Arrives, SeatTypes, SeatsTypeOK
<1>12. ASSUME NEW r \in Requests, NEW s \in Staff, DeactivateStaff(r, s) PROVE SeatInv'
  <2>1. \A x \in Staff : /\ roles'[x]["admin"] <= roles[x]["admin"]
                         /\ account'[x] # account[x] => account'[x] = "inactive"
    BY <1>0, <1>12 DEF DeactivateStaff, SeatTypes, SeatsTypeOK, Tiers
  <2> QED BY <1>0, <1>12, <2>1, FewerSeats DEF DeactivateStaff
<1> QED BY <1>1, <1>2, <1>3, <1>4, <1>5, <1>6, <1>7, <1>8, <1>9, <1>10, <1>11, <1>12 DEF SeatsNext

(* Active admins never outnumber the admin seats until a request writes    *)
(* between another's reads and its write, for any accounts, any number of  *)
(* seats and any number of requests in flight.                             *)
THEOREM AdminsSeated == SeatsSpec => []AdminSeats
<1>1. SeatInv => AdminSeats
  BY DEF SeatInv
<1> QED BY <1>1, InitSeatInv, StepSeats, PTL DEF SeatsSpec
=============================================================================
