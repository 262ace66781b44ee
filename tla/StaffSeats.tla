----------------------------- MODULE StaffSeats ----------------------------
(***************************************************************************)
(* The accounts of the portal, their role assignments, and the seats the   *)
(* client's license allows for admins and managers (StaffService).         *)
(*                                                                         *)
(* A handler reads, counts the seats, and writes, each in a step of its    *)
(* own.  A role of no tier takes no seat and is left out; so are names,    *)
(* credentials and temporary permissions.                                  *)
(***************************************************************************)
EXTENDS FiniteSets, Integers

CONSTANTS
  Staff,
  Owner,      \* the account the database is seeded with
  Limit,      \* ADMIN_SEAT_LIMIT and MANAGER_SEAT_LIMIT
  MaxRoles,   \* assignments of a tier's roles an account may have
  Requests,   \* requests in flight at the same time
  NoOne        \* no tier, no account

Tiers == {"admin", "manager"}

ASSUME SeatsAssumption ==
  /\ IsFiniteSet(Staff) /\ Owner \in Staff /\ NoOne \notin Staff
  /\ Limit \in [Tiers -> Nat] /\ Limit["admin"] >= 1
  /\ MaxRoles \in Nat \ {0}
  /\ NoOne \notin Tiers

VARIABLES
  account,  \* "active" or "inactive", or "absent": not created yet
  roles,    \* how many assignments of a tier's roles each account has that are valid
  req,      \* the requests in flight
  overlapped  \* whether a request has written while another was in flight

seatVars == <<account, roles, req, overlapped>>

Request == [step : {"idle", "roles", "has", "count", "write"}, op : {"none", "create", "activate", "assign"},
            s : Staff \cup {NoOne}, tier : Tiers \cup {NoOne}]

Idle == [step |-> "idle", op |-> "none", s |-> NoOne, tier |-> NoOne]

(* countActiveSeats, for one tier.                                         *)
Seated(t) == {s \in Staff : account[s] = "active" /\ roles[s][t] > 0}
Used(t) == Cardinality(Seated(t))

(* An account with roles of both tiers is an admin.                        *)
tierForRoleIds(s) ==
  IF roles[s]["admin"] > 0 THEN "admin"
  ELSE IF roles[s]["manager"] > 0 THEN "manager" ELSE NoOne

Arrives(r, step, op, s, t) ==
  /\ req[r] = Idle
  /\ req' = [req EXCEPT ![r] = [step |-> step, op |-> op, s |-> s, tier |-> t]]
  /\ UNCHANGED <<account, roles, overlapped>>

At(r, step) == req[r].step = step
Goes(r, step) == req' = [req EXCEPT ![r].step = step]
Ends(r) == req' = [req EXCEPT ![r] = Idle]

(* A request ends with its write; nothing keeps it off another's reads.    *)
Written(r) ==
  /\ Ends(r)
  /\ overlapped' = (overlapped \/ \E q \in Requests \ {r} : req[q] # Idle)

-----------------------------------------------------------------------------
CreateStaff(r, t) ==
  /\ \E s \in Staff : account[s] = "absent"
  /\ Arrives(r, "count", "create", NoOne, t)

(* updateStaff with isActive: roles are looked up for an inactive account. *)
Activate(r, s) ==
  /\ account[s] # "absent"
  /\ Arrives(r, IF account[s] = "inactive" THEN "roles" ELSE "write", "activate", s, NoOne)

ReadRoles(r) ==
  /\ At(r, "roles")
  /\ LET t == tierForRoleIds(req[r].s)
     IN  req' = [req EXCEPT ![r].tier = t, ![r].step = IF t = NoOne THEN "write" ELSE "count"]
  /\ UNCHANGED <<account, roles, overlapped>>

(* An active account needs a seat, unless it already has one of the tier.  *)
AssignRole(r, s, t) ==
  /\ account[s] # "absent"
  /\ roles[s][t] < MaxRoles
  /\ Arrives(r, IF account[s] = "active" THEN "has" ELSE "write", "assign", s, t)

AlreadyHasTier(r) ==
  /\ At(r, "has")
  /\ Goes(r, IF roles[req[r].s][req[r].tier] > 0 THEN "write" ELSE "count")
  /\ UNCHANGED <<account, roles, overlapped>>

(* Faulty: the last seat is given twice.                                   *)
SeatOrOneMore(t) == Used(t) <= Limit[t]

SeatAvailable(t) == Used(t) < Limit[t]

assertSeatAvailable(r) ==
  /\ At(r, "count")
  /\ IF SeatAvailable(req[r].tier) THEN Goes(r, "write") ELSE Ends(r)
  /\ UNCHANGED <<account, roles, overlapped>>

WriteStaff(r, s) ==
  /\ At(r, "write") /\ req[r].op = "create"
  /\ account[s] = "absent"
  /\ account' = [account EXCEPT ![s] = "active"]
  /\ roles' = [roles EXCEPT ![s] = [t \in Tiers |-> IF t = req[r].tier THEN 1 ELSE 0]]
  /\ Written(r)

WriteActive(r) ==
  /\ At(r, "write") /\ req[r].op = "activate"
  /\ account' = [account EXCEPT ![req[r].s] = "active"]
  /\ Written(r)
  /\ UNCHANGED roles

WriteRole(r) ==
  /\ At(r, "write") /\ req[r].op = "assign"
  /\ roles[req[r].s][req[r].tier] < MaxRoles
  /\ roles' = [roles EXCEPT ![req[r].s][req[r].tier] = @ + 1]
  /\ Written(r)
  /\ UNCHANGED account

(* Nobody deactivates their own account.                                   *)
DeactivateStaff(r, s) ==
  /\ req[r] = Idle
  /\ account[s] # "absent"
  /\ \E caller \in Staff \ {s} : account[caller] = "active"
  /\ account' = [account EXCEPT ![s] = "inactive"]
  /\ UNCHANGED <<roles, req, overlapped>>

(* Faulty: an assignment that is not found is removed all the same.        *)
RemoveAnyRole(s, t) ==
  /\ roles' = [roles EXCEPT ![s][t] = @ - 1]
  /\ UNCHANGED <<account, req, overlapped>>

(* An assignment is removed, or runs out.                                  *)
RemoveRole(s, t) ==
  /\ roles[s][t] > 0
  /\ roles' = [roles EXCEPT ![s][t] = @ - 1]
  /\ UNCHANGED <<account, req, overlapped>>

-----------------------------------------------------------------------------
SeatsInit ==
  /\ account = [s \in Staff |-> IF s = Owner THEN "active" ELSE "absent"]
  /\ roles = [s \in Staff |-> [t \in Tiers |-> IF s = Owner /\ t = "admin" THEN 1 ELSE 0]]
  /\ req = [r \in Requests |-> Idle]
  /\ overlapped = FALSE

SeatsNext ==
  \/ \E s \in Staff, t \in Tiers : RemoveRole(s, t)
  \/ \E r \in Requests :
       \/ ReadRoles(r) \/ AlreadyHasTier(r) \/ assertSeatAvailable(r) \/ WriteActive(r) \/ WriteRole(r)
       \/ \E t \in Tiers : CreateStaff(r, t)
       \/ \E s \in Staff : Activate(r, s) \/ DeactivateStaff(r, s) \/ WriteStaff(r, s) \/ \E t \in Tiers : AssignRole(r, s, t)

SeatsSpec == SeatsInit /\ [][SeatsNext]_seatVars

-----------------------------------------------------------------------------
(* The types of the tables and of the requests.                            *)
SeatsTypeOK ==
  /\ account \in [Staff -> {"active", "inactive", "absent"}]
  /\ roles \in [Staff -> [Tiers -> 0..MaxRoles]]
  /\ req \in [Requests -> Request]
  /\ overlapped \in BOOLEAN

(* There are never more active admins than the license has seats for,      *)
(* unless a request has written between the reads and the write of another *)
(* one.                                                                    *)
AdminSeats == overlapped \/ Used("admin") <= Limit["admin"]
=============================================================================
