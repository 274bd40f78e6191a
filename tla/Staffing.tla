------------------------------- MODULE Staffing -------------------------------
(***************************************************************************)
(* Who works at a branch, when, and at which table: the staff of           *)
(* src/floor/staff-coverage.service.ts and, for the platform,              *)
(* src/super-admin/super-admin.service.ts, and the tables of               *)
(* src/floor/floor-layout.service.ts.  One branch with one place and one   *)
(* station; the owner, a manager of the branch or the platform asks,       *)
(* requests come one at a time, and a request that changes several things  *)
(* of a member is as good as several requests.                             *)
(***************************************************************************)
EXTENDS FiniteSets, Functions

CONSTANTS Members,  \* ids of tenant_staff_memberships, each with its app_user
          Roles,    \* of "WAITER", "STATION_OPERATOR", "MANAGER"
          Pins,     \* what floor staff sign in with
          Tables,   \* ids of dining_tables
          Shifts,   \* ids of shift_definitions
          Days,     \* weekdays
          Mon,      \* the default of the column day_code
          NULL      \* the SQL null

(* What the constants are.                                                 *)
StaffingAssumption == Mon \in Days /\ NULL \notin Members

VARIABLES
  member,   \* memberships with their user, assignments, credential and sign-in
  plan,     \* staff_day_shifts: the shift of each day a member works
  shift,    \* the shift_definitions there are
  place,    \* the table_location
  table,    \* dining_tables and whether a party sits there
  cover     \* dining_table_shift_coverages: unique by table, shift and day

vars == <<member, plan, shift, place, table, cover>>
staffVars == <<member, plan>>
floorVars == <<place, table>>
-----------------------------------------------------------------------------
NoRow == [status |-> "NONE"]
(* role: the active role assignment; branch, station: whether there is an  *)
(* active assignment; rostered: whether shift_assignments has rows;        *)
(* history: whether orders, payments, sessions or bills name the member.   *)
Member == {NoRow} \cup
  [status : {"ACTIVE", "INACTIVE"}, role : Roles \cup {NULL}, branch : BOOLEAN,
   station : BOOLEAN, pin : Pins \cup {NULL}, rostered : BOOLEAN, history : BOOLEAN,
   signedIn : BOOLEAN]
Table == {NoRow} \cup [status : {"LISTED", "ARCHIVED"}, waiter : Members \cup {NULL}, seated : BOOLEAN]
Plan == UNION {[D -> Shifts] : D \in SUBSET Days}
Slots == Tables \X Shifts \X Days

(* The tables hold rows of their types.                                    *)
TypeOK ==
  /\ member \in [Members -> Member] /\ plan \in [Members -> Plan] /\ shift \subseteq Shifts
  /\ place \in {"NONE", "ACTIVE", "ARCHIVED"} /\ table \in [Tables -> Table]
  /\ cover \in [Slots -> Members \cup {NULL}]

NoPlan == [d \in {} |-> NULL]
Init ==
  /\ member = [m \in Members |-> NoRow] /\ plan = [m \in Members |-> NoPlan]
  /\ shift = {} /\ place = "NONE" /\ table = [t \in Tables |-> NoRow]
  /\ cover = [k \in Slots |-> NULL]

Exists(m) == member[m] # NoRow
(* requireTenantStaffAccess: an owner reaches everybody, a manager who is  *)
(* assigned to the branch; assertCanAssignRole.                            *)
Access(actor, m) == Exists(m) /\ (actor = "OWNER" \/ member[m].branch)
CanAssign(actor, role) == actor = "MANAGER" => role # "MANAGER"
(* verifyPinUniqueInTenant asks the active members.                        *)
PinFree(m, p) == \A n \in Members \ {m} : member[n].status = "ACTIVE" => member[n].pin # p
IsWaiter(m) == Exists(m) /\ member[m].status = "ACTIVE" /\ member[m].branch /\ member[m].role = "WAITER"
Drop(gone(_)) == [k \in Slots |-> IF gone(k) THEN NULL ELSE cover[k]]
-----------------------------------------------------------------------------
(* replaceStaffDayShifts: the new week, and no table on another day.  The  *)
(* old shift_assignments are cancelled, never deleted.                     *)
ReplaceStaffDayShifts(m, row, week) ==
  /\ Range(week) \subseteq shift
  /\ plan' = [plan EXCEPT ![m] = week]
  /\ member' = [member EXCEPT ![m] = [row EXCEPT !.rostered = @ \/ week # NoPlan]]
  /\ cover' = Drop(LAMBDA k : cover[k] = m /\ ~(k[3] \in DOMAIN week /\ week[k[3]] = k[2]))

Hired(role, station, pin) ==
  [status |-> "ACTIVE", role |-> role, branch |-> TRUE, station |-> station, pin |-> pin,
   rostered |-> FALSE, history |-> FALSE, signedIn |-> FALSE]
(* createStaff: one hired as inactive would get account_status 'INACTIVE', *)
(* which ck_app_users__account_status does not admit.                      *)
CreateStaff(actor, m, active, role, pin, week) ==
  /\ ~Exists(m) /\ CanAssign(actor, role) /\ active
  /\ role # "MANAGER" => PinFree(m, pin)
  /\ ReplaceStaffDayShifts(m,
       Hired(role, role = "STATION_OPERATOR", IF role = "MANAGER" THEN NULL ELSE pin), week)
  /\ UNCHANGED <<shift, floorVars>>
(* createPlatformStaff: anybody gets a PIN, nobody a roster.               *)
CreatePlatformStaff(m, role, station, pin) ==
  /\ ~Exists(m) /\ PinFree(m, pin)
  /\ member' = [member EXCEPT ![m] = Hired(role, station, pin)]
  /\ UNCHANGED <<plan, shift, floorVars, cover>>

(* Mutant: who leaves keeps the tables of the roster.                      *)
KeepCover(m) == UNCHANGED cover
ReleaseCover(m) == cover' = Drop(LAMBDA k : cover[k] = m)
ReleaseTables(m) ==
  /\ table' = [t \in Tables |-> IF table[t] # NoRow /\ table[t].waiter = m
                                THEN [table[t] EXCEPT !.waiter = NULL] ELSE table[t]]
  /\ UNCHANGED place

(* updateStaff: what is released on leaving is not restored on returning.  *)
Deactivate(actor, m) ==
  /\ Access(actor, m)
  /\ member' = [member EXCEPT ![m].status = "INACTIVE", ![m].branch = FALSE, ![m].station = FALSE]
  /\ ReleaseCover(m) /\ ReleaseTables(m)
  /\ UNCHANGED <<plan, shift>>
Reactivate(actor, m) ==
  /\ Access(actor, m)
  /\ member' = [member EXCEPT ![m].status = "ACTIVE"]
  /\ UNCHANGED <<plan, shift, floorVars, cover>>
UpdateDayShifts(actor, m, week) ==
  Access(actor, m) /\ ReplaceStaffDayShifts(m, member[m], week) /\ UNCHANGED <<shift, floorVars>>
(* Days only: a new day takes the shift of one of the old days.            *)
UpdateWorkingDays(actor, m, days) ==
  /\ Access(actor, m) /\ plan[m] # NoPlan
  /\ \E s \in Range(plan[m]) :
       ReplaceStaffDayShifts(m, member[m],
         [d \in days |-> IF d \in DOMAIN plan[m] THEN plan[m][d] ELSE s])
  /\ UNCHANGED <<shift, floorVars>>
(* A new role: coverages and the tables of a former waiter stay.           *)
UpdateRole(actor, m, role) ==
  /\ Access(actor, m) /\ CanAssign(actor, role)
  /\ member' = [member EXCEPT ![m].role = role, ![m].station = @ \/ role = "STATION_OPERATOR"]
  /\ UNCHANGED <<plan, shift, floorVars, cover>>
UpdatePin(actor, m, p) ==
  /\ Access(actor, m) /\ member[m].role # "MANAGER" /\ PinFree(m, p)
  /\ member' = [member EXCEPT ![m].pin = p]
  /\ UNCHANGED <<plan, shift, floorVars, cover>>
(* resetStaffPin, and resetStaffPassword with p = NULL, end the sessions.  *)
ResetCredential(actor, m, p) ==
  /\ Access(actor, m) /\ (p # NULL => member[m].role # "MANAGER" /\ PinFree(m, p))
  /\ member' = [member EXCEPT ![m].pin = p, ![m].signedIn = FALSE]
  /\ UNCHANGED <<plan, shift, floorVars, cover>>

(* resetPlatformStaffPin, resetPlatformStaffPassword with p = NULL.        *)
ResetPlatformStaffPin(m, p) ==
  /\ Exists(m) /\ (p # NULL => PinFree(m, p))
  /\ member' = [member EXCEPT ![m].pin = p, ![m].signedIn = FALSE]
  /\ UNCHANGED <<plan, shift, floorVars, cover>>
(* suspendPlatformStaff: account_status 'SUSPENDED' is not admitted, so    *)
(* that nobody is suspended; ending a suspension makes anybody active.     *)
SuspendPlatformStaff(m, suspended) ==
  /\ Exists(m) /\ ~suspended
  /\ member' = [member EXCEPT ![m].status = "ACTIVE"]
  /\ UNCHANGED <<plan, shift, floorVars, cover>>

(* deleteStaff: the row goes when nothing names it; shift_assignments name *)
(* it too (ON DELETE RESTRICT), and then the request fails as a whole.     *)
Deletable(m) == member[m].history \/ ~member[m].rostered
DeleteStaff(actor, m) ==
  /\ Access(actor, m) /\ Deletable(m)
  /\ member' = [member EXCEPT ![m] =
       IF member[m].history
       THEN [@ EXCEPT !.status = "INACTIVE", !.role = NULL, !.branch = FALSE, !.station = FALSE]
       ELSE NoRow]
  /\ plan' = [plan EXCEPT ![m] = NoPlan]
  /\ ReleaseCover(m) /\ ReleaseTables(m)
  /\ UNCHANGED shift

(* Signing in (AuthService.validateLogin) and doing anything on record.    *)
Work(m) ==
  /\ Exists(m) /\ member[m].status = "ACTIVE" /\ member[m].role # NULL
  /\ member' = [member EXCEPT ![m].signedIn = TRUE, ![m].history = TRUE]
  /\ UNCHANGED <<plan, shift, floorVars, cover>>
-----------------------------------------------------------------------------
CreateShift(s) == s \notin shift /\ shift' = shift \cup {s} /\ UNCHANGED <<staffVars, floorVars, cover>>
(* deleteShift: coverages first, then the shift and, by cascade, its days. *)
DeleteShift(s) ==
  /\ s \in shift /\ shift' = shift \ {s}
  /\ plan' = [m \in Members |-> Restrict(plan[m], {d \in DOMAIN plan[m] : plan[m][d] # s})]
  /\ cover' = Drop(LAMBDA k : k[2] = s)
  /\ UNCHANGED <<member, floorVars>>

Listed(t) == table[t].status = "LISTED"
(* setWaiterCoverage: for all days a waiter works the shift (or every day, *)
(* if none), or for one day, worked or not.                                *)
SetWaiterCoverage(m, s, tables, day) ==
  /\ IsWaiter(m) /\ s \in shift /\ \A t \in tables : Listed(t)
  /\ LET worked == {d \in DOMAIN plan[m] : plan[m][d] = s}
         days == IF day # NULL THEN {day} ELSE IF worked # {} THEN worked ELSE Days
     IN cover' = [k \in Slots |->
          IF k[2] # s \/ k[3] \notin days THEN cover[k]
          ELSE IF k[1] \in tables THEN m
          ELSE IF cover[k] = m THEN NULL ELSE cover[k]]
  /\ UNCHANGED <<staffVars, shift, floorVars>>

(* syncPermanentAssignmentToShifts writes no day, and so the default one.  *)
SyncPermanent(t, w) ==
  cover' = IF shift = {} THEN cover
           ELSE [k \in Slots |-> IF k[1] # t THEN cover[k]
                                 ELSE IF k[2] \in shift /\ k[3] = Mon THEN w ELSE NULL]
CreateLocation == place = "NONE" /\ place' = "ACTIVE" /\ UNCHANGED <<staffVars, shift, table, cover>>
CreateTable(t, w) ==
  /\ table[t] = NoRow /\ place = "ACTIVE" /\ (w # NULL => IsWaiter(w))
  /\ table' = [table EXCEPT ![t] = [status |-> "LISTED", waiter |-> w, seated |-> FALSE]]
  /\ IF w # NULL THEN SyncPermanent(t, w) ELSE UNCHANGED cover
  /\ UNCHANGED <<staffVars, shift, place>>
UpdateTable(t, w) ==
  /\ Listed(t) /\ (w # NULL => IsWaiter(w))
  /\ table' = [table EXCEPT ![t].waiter = w]
  /\ SyncPermanent(t, w)
  /\ UNCHANGED <<staffVars, shift, place>>
Archive(tables) ==
  /\ \A t \in tables : ~table[t].seated
  /\ table' = [t \in Tables |-> IF t \in tables
                 THEN [table[t] EXCEPT !.status = "ARCHIVED", !.waiter = NULL] ELSE table[t]]
  /\ cover' = Drop(LAMBDA k : k[1] \in tables)
  /\ UNCHANGED <<staffVars, shift>>
DeleteTable(t) == Listed(t) /\ Archive({t}) /\ UNCHANGED place
DeleteLocation ==
  place = "ACTIVE" /\ Archive({t \in Tables : Listed(t)}) /\ place' = "ARCHIVED"
(* FloorService.openTableSession and the end of the visit.                 *)
Seat(t, on) ==
  /\ table[t] # NoRow /\ table[t].seated # on /\ (on => Listed(t))
  /\ table' = [table EXCEPT ![t].seated = on]
  /\ UNCHANGED <<staffVars, shift, place, cover>>
-----------------------------------------------------------------------------
Week == {NoPlan} \cup [Days -> Shifts] \cup [{Mon} -> Shifts]
Staff ==
  \E m \in Members :
    \/ Work(m)
    \/ \E suspended \in BOOLEAN : SuspendPlatformStaff(m, suspended)
    \/ \E pin \in Pins \cup {NULL} : ResetPlatformStaffPin(m, pin)
    \/ \E role \in Roles, station \in BOOLEAN, pin \in Pins :
         CreatePlatformStaff(m, role, station, pin)
    \/ \E actor \in {"OWNER", "MANAGER"} :
         \/ \E active \in BOOLEAN, role \in Roles, pin \in Pins, week \in Week :
              CreateStaff(actor, m, active, role, pin, week)
         \/ Deactivate(actor, m) \/ Reactivate(actor, m) \/ DeleteStaff(actor, m)
         \/ \E week \in Week : UpdateDayShifts(actor, m, week)
         \/ \E days \in SUBSET Days : UpdateWorkingDays(actor, m, days)
         \/ \E role \in Roles : UpdateRole(actor, m, role)
         \/ \E p \in Pins : UpdatePin(actor, m, p)
         \/ \E p \in Pins \cup {NULL} : ResetCredential(actor, m, p)
Floor ==
  \/ CreateLocation \/ DeleteLocation
  \/ \E t \in Tables :
       \/ DeleteTable(t) \/ \E on \in BOOLEAN : Seat(t, on)
       \/ \E w \in Members \cup {NULL} : CreateTable(t, w) \/ UpdateTable(t, w)
  \/ \E s \in Shifts :
       \/ CreateShift(s) \/ DeleteShift(s)
       \/ \E m \in Members, tables \in SUBSET Tables, day \in Days \cup {NULL} :
            SetWaiterCoverage(m, s, tables, day)
Next == Staff \/ Floor
Spec == Init /\ [][Next]_vars
-----------------------------------------------------------------------------
(* Whoever is put down for a table, by roster or permanently, is a member  *)
(* who works here; what is put down is for a shift and a table there are;  *)
(* and no party sits at a table that is gone, no table stands in a place   *)
(* that is gone (updateStaff, deleteStaff, deleteShift, deleteTable,       *)
(* deleteLocation, setWaiterCoverage, syncPermanentAssignmentToShifts).    *)
RosterHolds ==
  /\ \A k \in Slots : cover[k] # NULL =>
       member[cover[k]].status = "ACTIVE" /\ k[2] \in shift /\ Listed(k[1])
  /\ \A t \in Tables : Listed(t) =>
       /\ place = "ACTIVE"
       /\ table[t].waiter # NULL => member[table[t].waiter].status = "ACTIVE"
  /\ \A t \in Tables : table[t] # NoRow /\ table[t].seated => Listed(t)
  /\ \A m \in Members : Range(plan[m]) \subseteq shift

(* A PIN is the PIN of one active member (verifyPinUniqueInTenant: "This   *)
(* PIN is already in use by ... in this restaurant. Please choose a        *)
(* different PIN.").                                                       *)
PinsDiffer ==
  \A m, n \in Members :
    /\ member[m].status = "ACTIVE" /\ member[n].status = "ACTIVE"
    /\ member[m].pin = member[n].pin /\ member[m].pin # NULL
    => m = n

(* A permanent waiter covers the table on every day (the comment of        *)
(* syncPermanentAssignmentToShifts: "Keep shift coverage in sync when      *)
(* manager assigns a permanent waiter.").                                  *)
PermanentWaiterCovers ==
  [][\A t \in Tables, w \in Members : UpdateTable(t, w) =>
       \A s \in shift, d \in Days : cover'[<<t, s, d>>] = w]_vars

(* Whoever may be deleted once may be deleted (deleteStaff: "Staff member  *)
(* removed successfully.").                                                *)
AnyoneLeaves == \A m \in Members : Exists(m) => Deletable(m)
=============================================================================
