--------------------------- MODULE SessionPromise ---------------------------
(***************************************************************************)
(* What a terminal promises the person who signs in: a call to the API is  *)
(* carried out as the user who was on the screen when it was made, and at  *)
(* most once, however tokens are renewed meanwhile.                        *)
(***************************************************************************)
CONSTANTS Users, Calls, None

VARIABLES
  who,    \* the user on the screen, or None
  open,   \* the user each call under way was made by, or None
  acted   \* the user it has been carried out as, or None

vars == <<who, open, acted>>

NoCalls == [c \in Calls |-> None]

Init == who = None /\ open = NoCalls /\ acted = NoCalls

SignIn(u) == who = None /\ who' = u /\ open' = NoCalls /\ acted' = NoCalls

Make(c) ==
  /\ who # None /\ open[c] = None
  /\ open' = [open EXCEPT ![c] = who]
  /\ UNCHANGED <<who, acted>>

CarryOut(c) ==
  /\ open[c] # None /\ acted[c] = None
  /\ acted' = [acted EXCEPT ![c] = open[c]]
  /\ UNCHANGED <<who, open>>

(* Calls end, answered or not, and perhaps the session with them.          *)
End(S) ==
  /\ who' \in {who, None}
  /\ open' = [c \in Calls |-> IF c \in S THEN None ELSE open[c]]
  /\ acted' = [c \in Calls |-> IF c \in S THEN None ELSE acted[c]]

Next ==
  \/ \E u \in Users : SignIn(u)
  \/ \E c \in Calls : Make(c) \/ CarryOut(c)
  \/ \E S \in SUBSET Calls : End(S)

Spec == Init /\ [][Next]_vars
=============================================================================
