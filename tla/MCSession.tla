----------------------------- MODULE MCSession ------------------------------
(* Two users, two calls.  Sure: nothing fails.  Calm: a bad network,       *)
(* deactivated accounts, pages loaded again.  Abrupt: signing out with     *)
(* calls and refreshes in flight.  Swift: several tokens a second.  Hasty: *)
(* the next user does not wait for the calls of the one before.            *)
EXTENDS Session, TLC
Sure == [patient |-> TRUE, settled |-> TRUE, lossy |-> FALSE, denies |-> FALSE, reloads |-> FALSE, swift |-> FALSE]
Calm == [Sure EXCEPT !.lossy = TRUE, !.denies = TRUE, !.reloads = TRUE]
Abrupt == [Sure EXCEPT !.settled = FALSE]
Swift == [Sure EXCEPT !.swift = TRUE]
Hasty == [Sure EXCEPT !.patient = FALSE]
All == {Calm, Sure, Abrupt, Swift, Hasty}
Alike == Permutations(Users) \cup Permutations(Calls) \cup Permutations(Pairs)
=============================================================================
