--------------------------------- MODULE Leave ---------------------------------
(***************************************************************************)
(* Leave types, balances and requests of src/hr/hr.service.ts in one       *)
(* restaurant.  deleteLeaveType counts the requests in one statement and   *)
(* deletes in others, decideLeave and cancelMyLeave ask for a pending      *)
(* request outside the transaction that changes it: an actor is between    *)
(* the two; with one actor, a request ends before the next begins.         *)
(* Whether the days are there, or taken by another request, is not asked.  *)
(***************************************************************************)
EXTENDS Integers, FiniteSetsExt

CONSTANTS Actors,   \* managers and staff with a request under way
          Types,    \* ids of leave_types
          MANUAL,   \* the default type
          Members,  \* memberships
          Requests, \* ids of staff_leave_requests
          MaxDays,  \* bound on the days of a request or an entitlement
          NULL      \* the SQL null

(* What the constants are.                                                 *)
LeaveAssumption ==
  /\ MANUAL \in Types /\ MaxDays \in Nat /\ IsFiniteSet(Requests)
  /\ NULL \notin Int \cup Types

VARIABLES
  type,    \* leave_types
  balance, \* staff_leave_balances, unique by member and type
  request, \* staff_leave_requests
  actor    \* what an actor has read and is about to do

vars == <<type, balance, request, actor>>
-----------------------------------------------------------------------------
NoRow == [status |-> "NONE"]
Idle == [at |-> "idle"]
Days == 0..MaxDays
Type == {NoRow} \cup [status : {"ACTIVE", "INACTIVE"}, days : Days, tracks : BOOLEAN]
Balance == {NoRow} \cup [status : {"BALANCE"}, own : Days \cup {NULL}, left : Int]
Request ==
  {NoRow} \cup [status : {"PENDING", "APPROVED", "REJECTED", "CANCELLED"}, member : Members,
                type : Types \cup {NULL}, days : 1..MaxDays]
Decision == {"APPROVED", "REJECTED", "CANCELLED"}

(* The tables and what the actors are about to do have their types.        *)
TypeOK ==
  /\ type \in [Types -> Type] /\ balance \in [Members \X Types -> Balance]
  /\ request \in [Requests -> Request]
  /\ actor \in [Actors -> {Idle} \cup [at : {"decide"}, request : Requests, read : Request,
                                       tracks : BOOLEAN, days : Days, to : Decision]
                          \cup [at : {"delete"}, type : Types]]

Init ==
  /\ type = [t \in Types |-> NoRow] /\ balance = [k \in Members \X Types |-> NoRow]
  /\ request = [q \in Requests |-> NoRow] /\ actor = [a \in Actors |-> Idle]

Exists(t) == type[t] # NoRow
(* ensureLeaveTypes, with which most requests begin.                       *)
Ensured ==
  IF \E t \in Types : Exists(t) THEN type
  ELSE [type EXCEPT ![MANUAL] = [status |-> "ACTIVE", days |-> 0, tracks |-> TRUE]]
Under(m, t) == {q \in Requests : /\ request[q] # NoRow /\ request[q].type = t
                                 /\ request[q].member = m}
Used(m, t) ==
  MapThenSumSet(LAMBDA q : request[q].days, {q \in Under(m, t) : request[q].status = "APPROVED"})
EntitlementFor(own, days) == IF own # NULL THEN own ELSE days
Remaining(entitlement, used) == IF entitlement > used THEN entitlement - used ELSE 0
(* Mutant: only what is still to be decided keeps a type.                  *)
NamedPending(t) == {q \in Requests : /\ request[q] # NoRow /\ request[q].type = t
                                     /\ request[q].status = "PENDING"}
Named(t) == {q \in Requests : request[q] # NoRow /\ request[q].type = t}
-----------------------------------------------------------------------------
(* listLeaveTypes.                                                         *)
EnsureLeaveTypes ==
  type' = Ensured /\ UNCHANGED <<balance, request, actor>>
CreateLeaveType(t, days, tracks) ==
  /\ t # MANUAL /\ ~Exists(t)
  /\ type' = [Ensured EXCEPT ![t] = [status |-> "ACTIVE", days |-> days, tracks |-> tracks]]
  /\ UNCHANGED <<balance, request, actor>>
UpdateLeaveType(t, days, tracks, status) ==
  /\ Exists(t) /\ (t = MANUAL => status = "ACTIVE")
  /\ type' = [type EXCEPT ![t] = [status |-> status, days |-> days, tracks |-> tracks]]
  /\ UNCHANGED <<balance, request, actor>>

(* deleteLeaveType: a type with requests is only switched off.             *)
DeleteLeaveType(a, t) ==
  /\ actor[a] = Idle /\ Exists(t) /\ t # MANUAL
  /\ IF Named(t) # {}
     THEN type' = [type EXCEPT ![t].status = "INACTIVE"] /\ UNCHANGED actor
     ELSE actor' = [actor EXCEPT ![a] = [at |-> "delete", type |-> t]] /\ UNCHANGED type
  /\ UNCHANGED <<balance, request>>
(* The requests' key is set to null with the type that goes.               *)
DeleteCommit(a) ==
  /\ actor[a].at = "delete"
  /\ LET t == actor[a].type IN
       /\ type' = [type EXCEPT ![t] = NoRow]
       /\ balance' = [k \in DOMAIN balance |-> IF k[2] = t THEN NoRow ELSE balance[k]]
       /\ request' = [q \in Requests |-> IF q \in Named(t) THEN [request[q] EXCEPT !.type = NULL]
                                         ELSE request[q]]
  /\ actor' = [actor EXCEPT ![a] = Idle]

(* setStaffLeaveOverrides writes what is left under the new entitlement,   *)
(* or under the type's when the member's own is cleared (own = NULL).      *)
SetStaffLeaveOverrides(m, t, own) ==
  /\ Ensured[t] # NoRow
  /\ type' = Ensured
  /\ balance' = [balance EXCEPT ![<<m, t>>] =
       [status |-> "BALANCE", own |-> own,
        left |-> Remaining(EntitlementFor(own, Ensured[t].days), Used(m, t))]]
  /\ UNCHANGED <<request, actor>>
-----------------------------------------------------------------------------
(* requestMyLeave and createLeave.                                         *)
CreateLeaveForMembership(q, m, t, days) ==
  /\ request[q] = NoRow /\ Ensured[t].status = "ACTIVE"
  /\ type' = Ensured
  /\ request' = [request EXCEPT ![q] =
       [status |-> "PENDING", member |-> m, type |-> t, days |-> days]]
  /\ UNCHANGED <<balance, actor>>

(* What decideLeave and cancelMyLeave read before they write.              *)
Read(a, q, to) ==
  /\ actor[a] = Idle /\ request[q].status = "PENDING"
  /\ LET t == request[q].type IN
       actor' = [actor EXCEPT ![a] =
         [at |-> "decide", request |-> q, read |-> request[q], to |-> to,
          tracks |-> t = NULL \/ type[t].tracks,
          days |-> IF t = NULL THEN 0 ELSE type[t].days]]
  /\ UNCHANGED <<type, balance, request>>
DecideLeave(a, q, to) == to \in {"APPROVED", "REJECTED"} /\ Read(a, q, to)
CancelMyLeave(a, q) == Read(a, q, "CANCELLED")
(* An approved request takes its days from the balance kept, which may     *)
(* fall below zero; a row that is missing starts from the entitlement.     *)
Take(old, days, entitlement) ==
  IF old = NoRow THEN [status |-> "BALANCE", own |-> NULL, left |-> entitlement - days]
  ELSE [old EXCEPT !.left = @ - days]
(* The balance's key refuses a type that is gone: nothing is written.      *)
DecideCommit(a) ==
  /\ actor[a].at = "decide"
  /\ LET w == actor[a]
         k == <<w.read.member, w.read.type>>
         takes == w.to = "APPROVED" /\ w.tracks /\ w.read.type # NULL IN
       IF takes => Exists(w.read.type)
       THEN /\ request' = [request EXCEPT ![w.request].status = w.to]
            /\ balance' = IF takes THEN [balance EXCEPT ![k] = Take(@, w.read.days, w.days)]
                          ELSE balance
       ELSE UNCHANGED <<request, balance>>
  /\ actor' = [actor EXCEPT ![a] = Idle] /\ UNCHANGED type

Next ==
  \/ /\ \E a \in Actors : actor[a] = Idle
     /\ \/ EnsureLeaveTypes
        \/ \E t \in Types, d \in Days, b \in BOOLEAN :
             \/ CreateLeaveType(t, d, b)
             \/ \E s \in {"ACTIVE", "INACTIVE"} : UpdateLeaveType(t, d, b, s)
        \/ \E m \in Members, t \in Types, own \in Days \cup {NULL} :
             SetStaffLeaveOverrides(m, t, own)
        \/ \E q \in Requests, m \in Members, t \in Types, d \in 1..MaxDays :
             CreateLeaveForMembership(q, m, t, d)
  \/ \E a \in Actors :
       \/ \E t \in Types : DeleteLeaveType(a, t)
       \/ \E q \in Requests : CancelMyLeave(a, q) \/ \E to \in Decision : DecideLeave(a, q, to)
       \/ DeleteCommit(a) \/ DecideCommit(a)

Spec == Init /\ [][Next]_vars
-----------------------------------------------------------------------------
(* A request keeps its leave type, so that the days a member has used are  *)
(* never forgotten; a balance is under a type that exists; and once there  *)
(* are leave types the default is one of them and can be asked for.  True  *)
(* while nobody asks for leave between the count and the deletion.         *)
LeaveHolds ==
  /\ \A q \in Requests : request[q] # NoRow => request[q].type # NULL /\ Exists(request[q].type)
  /\ \A k \in Members \X Types : balance[k] # NoRow => Exists(k[2])
  /\ (\E t \in Types : Exists(t)) => type[MANUAL].status = "ACTIVE"

(* The balance kept for a member is what the lists compute.                *)
BalanceAgrees ==
  \A m \in Members, t \in Types : balance[<<m, t>>] # NoRow =>
    balance[<<m, t>>].left = Remaining(EntitlementFor(balance[<<m, t>>].own, type[t].days), Used(m, t))
=============================================================================
