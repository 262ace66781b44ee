------------------------------- MODULE Session ------------------------------
(***************************************************************************)
(* Who the terminal is, and as whom the API acts: pairs of an access and a *)
(* refresh token, the browser's storage of one pair, the session on the    *)
(* screen, which keeps the access token it began with, calls that meet an  *)
(* expired token, and the one refresh they share (apiFetch and             *)
(* SessionProvider of the terminal, AuthService of the API).               *)
(*                                                                         *)
(* Permissions, profiles, branches and the refresh token's own lifetime    *)
(* are left out.  Pairs nobody holds any more are used again.  At most one *)
(* sign-in and one confirmation of a password are under way at a time.     *)
(***************************************************************************)
EXTENDS FiniteSets

CONSTANTS
  Users,
  Calls,   \* calls under way at the same time, sign-out's own among them
  Pairs,   \* token pairs
  Modes,   \* what may happen in a behaviour
  None     \* no pair, no user

(* patient: the next user signs in once every call has ended.  settled:    *)
(* signing out begins and ends with nothing else in flight.  lossy: answers*)
(* get lost.  denies: accounts are deactivated.  reloads: pages are loaded *)
(* again.  swift: a user may be issued tokens twice within a second.       *)
Mode == [patient : BOOLEAN, settled : BOOLEAN, lossy : BOOLEAN, denies : BOOLEAN, reloads : BOOLEAN, swift : BOOLEAN]

ASSUME SessionAssumption == Modes \subseteq Mode /\ None \notin Users /\ None \notin Pairs

VARIABLES
  owner,       \* the user each pair was issued to
  live,        \* the pairs whose access token the API takes
  spent,       \* the pairs whose refresh token it has revoked
  young,       \* the pairs issued within this second, where that matters
  active,      \* the users with an active account
  stored,      \* the pair in the browser's storage
  session,     \* the user on the screen, or None
  began,       \* the pair the session began with, whose token views keep
  remembered,  \* the user whose email the sign-in page remembers
  flight,      \* refreshInFlight
  logins,      \* the sign-in and the confirmation that wait for the API
  late,        \* the tokens are those of a confirmation answered after its session
  calls,
  mode

vars == <<owner, live, spent, young, active, stored, session, began, remembered, late, flight, logins, calls, mode>>
api == <<owner, live, spent, young, active>>
browser == <<stored, session, began, remembered, late>>

(* by: the user on the screen when it was made; out: it is the sign-out.   *)
Quiet == [step |-> "idle", by |-> None, pair |-> None, retried |-> FALSE, out |-> FALSE]
NoFlight == [step |-> "none", pair |-> None, new |-> None]
NoLogin == [step |-> "none", user |-> None, pair |-> None]
Logins == {"signIn", "confirm"}

SigningOut == \E c \in Calls : calls[c].out
Rest ==
  /\ flight = NoFlight
  /\ \A k \in Logins : logins[k] = NoLogin
  /\ \A c \in Calls : calls[c] = Quiet

InHand ==
  {stored, began, flight.pair, flight.new} \cup {logins[k].pair : k \in Logins} \cup {calls[c].pair : c \in Calls}
Spare == Pairs \ InHand

(* generateTokenPair.  Tokens say for whom and in which second they were   *)
(* signed and no more: those of the same second are the same.  What the API*)
(* knew of pairs nobody holds goes.                                        *)
Issued(p, u) ==
  /\ p \in Spare \/ (p \in young /\ owner[p] = u)
  /\ owner' = [q \in Pairs |-> IF q = p THEN u ELSE IF q \in Spare THEN None ELSE owner[q]]
  /\ live' = (live \ Spare) \cup ({p} \cap Spare)
  /\ young' = IF mode.swift THEN (young \ Spare) \cup {p} ELSE {}

Clear == stored' = None /\ session' = None /\ began' = None /\ late' = FALSE /\ UNCHANGED remembered

Init ==
  /\ mode \in Modes
  /\ owner = [p \in Pairs |-> None]
  /\ live = {} /\ spent = {} /\ young = {} /\ active = Users
  /\ stored = None /\ session = None /\ began = None /\ remembered = None /\ late = FALSE
  /\ flight = NoFlight /\ logins = [k \in Logins |-> NoLogin] /\ calls = [c \in Calls |-> Quiet]

-----------------------------------------------------------------------------
(* Signing in, and confirming a password, which signs the remembered user  *)
(* in again beside the session.  Both wait for loginWithEmail.             *)

Asked(k, u) ==
  /\ logins[k] = NoLogin
  /\ logins' = [logins EXCEPT ![k] = [NoLogin EXCEPT !.step = "sent", !.user = u]]
  /\ UNCHANGED <<api, browser, flight, calls, mode>>

signInWithCredentials(u) ==
  /\ session = None
  /\ mode.patient => Rest
  /\ Asked("signIn", u)

verifySessionPassword ==
  /\ session # None
  /\ mode.settled => ~SigningOut
  /\ Asked("confirm", remembered)

(* The API issues tokens to an active account.                             *)
loginWithEmail(k) ==
  /\ logins[k].step = "sent"
  /\ spent' = spent \ Spare
  /\ IF logins[k].user \in active
     THEN \E p \in Pairs : /\ Issued(p, logins[k].user)
                           /\ logins' = [logins EXCEPT ![k].step = "granted", ![k].pair = p]
     ELSE /\ logins' = [logins EXCEPT ![k].step = "refused"]
          /\ UNCHANGED <<owner, live, young>>
  /\ UNCHANGED <<active, browser, flight, calls, mode>>

SignedIn ==
  /\ logins["signIn"].step = "granted"
  /\ logins' = [logins EXCEPT !["signIn"] = NoLogin]
  /\ stored' = logins["signIn"].pair /\ began' = stored' /\ late' = FALSE
  /\ session' = logins["signIn"].user /\ remembered' = session'
  /\ UNCHANGED <<api, flight, calls, mode>>

(* The tokens are written whoever is on the screen by now.                 *)
Confirmed ==
  /\ logins["confirm"].step = "granted"
  /\ logins' = [logins EXCEPT !["confirm"] = NoLogin]
  /\ stored' = logins["confirm"].pair
  /\ late' = (session = None)
  /\ UNCHANGED <<api, session, began, remembered, flight, calls, mode>>

LoginFails(k) ==
  /\ logins[k].step = "refused" \/ (mode.lossy /\ logins[k].step \in {"sent", "granted"})
  /\ logins' = [logins EXCEPT ![k] = NoLogin]
  /\ UNCHANGED <<api, browser, flight, calls, mode>>

-----------------------------------------------------------------------------
(* Calls. *)

Sent(c, p, out) ==
  /\ calls[c] = Quiet
  /\ calls' = [calls EXCEPT ![c] = [Quiet EXCEPT !.step = "sent", !.by = session, !.pair = p, !.out = out]]
  /\ UNCHANGED <<api, browser, flight, logins, mode>>

(* A call takes the stored token, or the one its view keeps.               *)
apiFetch(c) ==
  /\ session # None /\ stored # None
  /\ mode.settled => ~SigningOut
  /\ \E p \in {stored, began} : Sent(c, p, FALSE)

signOut(c) ==
  /\ session # None /\ stored # None /\ ~SigningOut
  /\ mode.settled => Rest
  /\ Sent(c, stored, TRUE)

(* Signing out revokes the access token it is sent with.                   *)
Served(c) ==
  /\ calls[c].step = "sent" /\ calls[c].pair \in live
  /\ calls' = [calls EXCEPT ![c].step = "served"]
  /\ live' = IF calls[c].out THEN live \ {calls[c].pair} ELSE live
  /\ UNCHANGED <<owner, spent, young, active, browser, flight, logins, mode>>

Refused(c) ==
  /\ calls[c].step = "sent" /\ calls[c].pair \notin live
  /\ calls' = [calls EXCEPT ![c].step = "refused"]
  /\ UNCHANGED <<api, browser, flight, logins, mode>>

(* Faulty: a sign-out that is not answered leaves the tokens.              *)
EndedAsAnswered(c) ==
  /\ calls' = [calls EXCEPT ![c] = Quiet]
  /\ session' = IF calls[c].out THEN None ELSE session
  /\ began' = IF calls[c].out THEN None ELSE began
  /\ stored' = IF calls[c].out /\ calls[c].step = "served" THEN None ELSE stored
  /\ UNCHANGED <<api, remembered, late, flight, logins, mode>>

(* However the sign-out ends, the tokens go.                               *)
Ended(c) ==
  /\ calls' = [calls EXCEPT ![c] = Quiet]
  /\ IF calls[c].out THEN Clear ELSE UNCHANGED browser
  /\ UNCHANGED <<api, flight, logins, mode>>

Answered(c) == calls[c].step = "served" /\ Ended(c)

(* Faulty: a call that is not answered is sent once more.                  *)
LostSentAgain(c) ==
  /\ mode.lossy /\ calls[c].step \in {"sent", "served"}
  /\ calls' = [calls EXCEPT ![c].step = "sent"]
  /\ UNCHANGED <<api, browser, flight, logins, mode>>

Lost(c) == mode.lossy /\ calls[c].step \in {"sent", "served"} /\ Ended(c)

(* A refused call waits for the refresh, its own or one under way; refused *)
(* again, it ends the session.                                             *)
GiveUp(c) ==
  /\ calls[c].step = "refused" /\ (calls[c].retried \/ stored = None)
  /\ calls' = [calls EXCEPT ![c] = Quiet]
  /\ Clear
  /\ UNCHANGED <<api, flight, logins, mode>>

(* Faulty: every refused call starts a refresh.                            *)
FlightOfOwn == [step |-> "sent", pair |-> stored, new |-> None]

SharedFlight == IF flight = NoFlight THEN [step |-> "sent", pair |-> stored, new |-> None] ELSE flight

refreshAccessToken(c) ==
  /\ calls[c].step = "refused" /\ ~calls[c].retried /\ stored # None
  /\ calls' = [calls EXCEPT ![c].step = "waiting", ![c].pair = None]
  /\ flight' = SharedFlight
  /\ UNCHANGED <<api, browser, logins, mode>>

-----------------------------------------------------------------------------
(* The refresh. *)

(* The refresh token is revoked before the account is looked at.           *)
Denied == flight.pair \in spent \/ owner[flight.pair] \notin active

refreshTokens ==
  /\ flight.step = "sent"
  /\ spent' = (spent \ Spare) \cup {flight.pair}
  /\ IF Denied
     THEN /\ flight' = [NoFlight EXCEPT !.step = "answered"]
          /\ UNCHANGED <<owner, live, young>>
     ELSE \E p \in Pairs :
            /\ Issued(p, owner[flight.pair])
            /\ flight' = [NoFlight EXCEPT !.step = "answered", !.new = p]
  /\ UNCHANGED <<active, browser, calls, logins, mode>>

Waiting(c) == calls[c].step = "waiting"

Retried(c) == [calls[c] EXCEPT !.step = "sent", !.pair = flight.new, !.retried = TRUE]

Refreshed ==
  /\ flight.step = "answered" /\ flight.new # None
  /\ flight' = NoFlight
  /\ stored' = flight.new
  /\ calls' = [c \in Calls |-> IF Waiting(c) THEN Retried(c) ELSE calls[c]]
  /\ UNCHANGED <<api, session, began, remembered, late, logins, mode>>

RefreshFails ==
  /\ \/ flight.step = "answered" /\ flight.new = None
     \/ flight.step \in {"sent", "answered"} /\ mode.lossy
  /\ flight' = NoFlight
  /\ calls' = [c \in Calls |-> IF Waiting(c) THEN Quiet ELSE calls[c]]
  /\ Clear
  /\ UNCHANGED <<api, logins, mode>>

-----------------------------------------------------------------------------
(* An access token lasts minutes: longer than it takes to send a call      *)
(* again.                                                                  *)
Expire(p) ==
  /\ p \in (live \cap InHand) \ young /\ p # flight.new /\ \A k \in Logins : p # logins[k].pair
  /\ \A c \in Calls : ~(calls[c].retried /\ calls[c].pair = p)
  /\ live' = live \ {p}
  /\ UNCHANGED <<owner, spent, young, active, browser, flight, calls, logins, mode>>

Second ==
  /\ young # {}
  /\ young' = {}
  /\ UNCHANGED <<owner, live, spent, active, browser, flight, calls, logins, mode>>

(* By somebody else, who is active.                                        *)
Deactivate(u) ==
  /\ mode.denies /\ u \in active /\ active # {u}
  /\ active' = active \ {u}
  /\ UNCHANGED <<owner, live, spent, young, browser, flight, calls, logins, mode>>

Reload ==
  /\ mode.reloads
  /\ session' = IF stored = None THEN None ELSE owner[stored]
  /\ began' = stored
  /\ late' = FALSE
  /\ flight' = NoFlight /\ logins' = [k \in Logins |-> NoLogin] /\ calls' = [c \in Calls |-> Quiet]
  /\ UNCHANGED <<api, stored, remembered, mode>>

Next ==
  \/ \E u \in Users : signInWithCredentials(u) \/ Deactivate(u)
  \/ \E c \in Calls :
       \/ apiFetch(c) \/ signOut(c) \/ Served(c) \/ Refused(c) \/ Answered(c) \/ Lost(c)
       \/ GiveUp(c) \/ refreshAccessToken(c)
  \/ \E k \in Logins : loginWithEmail(k) \/ LoginFails(k)
  \/ verifySessionPassword \/ SignedIn \/ Confirmed \/ refreshTokens \/ Refreshed \/ RefreshFails
  \/ \E p \in Pairs : Expire(p)
  \/ Second \/ Reload

Spec == Init /\ [][Next]_vars

-----------------------------------------------------------------------------
Open == [c \in Calls |-> calls[c].by]
Acted == [c \in Calls |-> IF calls[c].step = "served" THEN owner[calls[c].pair] ELSE None]

Promise == INSTANCE SessionPromise WITH who <- session, open <- Open, acted <- Acted

(* Every call is carried out at most once, as the user who made it, while  *)
(* tokens expire and are renewed under it: what the terminal promises, of  *)
(* users who wait until the calls of the one before have ended.            *)
CallsActForTheirMaker == Promise!Init /\ [][mode.patient => Promise!Next]_(Promise!vars)

Sound == mode.patient /\ ~mode.lossy /\ ~mode.denies /\ ~mode.reloads /\ ~mode.swift

(* Unless answers get lost, the account is deactivated or the page is      *)
(* loaded again, the session of patient users ends by signing out only:    *)
(* calls that meet an expired token together, or late, never revoke the    *)
(* refresh token they themselves have just got, if a second passes between *)
(* two refreshes.                                                          *)
SessionSurvives == [][Sound /\ session # None /\ session' = None => SigningOut]_vars

(* With nothing else in flight, signing out leaves no token behind, even if*)
(* the API is not reached; a page loaded again comes up signed out.  Nor   *)
(* does a session that is given up, unless a password is being confirmed:  *)
(* that answer stores its tokens all the same.  Not so either if the page  *)
(* is loaded again during a sign-out within a second of the last tokens:   *)
(* the revoked ones stay, a call with them is sent again and given up, the *)
(* session with it, and a refresh then in flight stores its answer.        *)
SignedOutIsClear ==
  mode.settled /\ ~(mode.swift /\ mode.reloads) /\ session = None /\ ~late => stored = None
=============================================================================
