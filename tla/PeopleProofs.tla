----------------------------- MODULE PeopleProofs -----------------------------
(***************************************************************************)
(* What the house owes its people, for any number of members, tables,      *)
(* shifts, runs, requests and profiles: the roster holds whatever is done  *)
(* to staff, shifts and tables, totals are those of the lines and paid is  *)
(* what is paid, leave is decided on types there are, visits and logs      *)
(* agree, and who is planned can clock in.  Payroll, leave and recognition *)
(* are proved for requests that come one at a time, as they are checked:   *)
(* none of the three services locks what it reads, and two at once do lose *)
(* updates.                                                                *)
(***************************************************************************)
EXTENDS Sequences, People, SumTheorems

(* What is finite is so in every instance,                                 *)
LEMMA Finite ==
  ASSUME NEW S
  PROVE  /\ Leaves!IsFiniteSet(S) <=> IsFiniteSet(S)
         /\ Pays!IsFiniteSet(S) <=> IsFiniteSet(S)
  BY Zenon DEF Leaves!IsFiniteSet, Pays!IsFiniteSet, IsFiniteSet

(* and has as many elements.                                               *)
LEMMA Counts ==
  ASSUME NEW S
  PROVE  Faces!Cardinality(S) = Cardinality(S) /\ Pays!Cardinality(S) = Cardinality(S)
  BY Zenon DEF Faces!Cardinality, Pays!Cardinality, Cardinality
-----------------------------------------------------------------------------
(* The roster needs nothing more than the types to go on holding: what is  *)
(* shown is that no request writes one side of it alone.                   *)
StaffInv == Staffs!TypeOK /\ Staffs!RosterHolds

(* The roster of given tables, part by part.                               *)
Covered(mem, sh, tab, cov) ==
  \A k \in Staffs!Slots : cov[k] # NULL =>
    mem[cov[k]].status = "ACTIVE" /\ k[2] \in sh /\ tab[k[1]].status = "LISTED"
Waited(mem, pl, tab) ==
  \A t \in DiningTables : tab[t].status = "LISTED" =>
    pl = "ACTIVE" /\ (tab[t].waiter # NULL => mem[tab[t].waiter].status = "ACTIVE")
Sits(tab) ==
  \A t \in DiningTables : tab[t] # Staffs!NoRow /\ tab[t].seated => tab[t].status = "LISTED"
Planned(pl, sh) == \A m \in Members : Staffs!Range(pl[m]) \subseteq sh

(* The roster is the four parts.                                           *)
LEMMA RosterParts ==
  Staffs!RosterHolds <=> Covered(v1, v3, v5, v6) /\ Waited(v1, v4, v5) /\ Sits(v5)
    /\ Planned(v2, v3)
  BY DEF Staffs!RosterHolds, Covered, Waited, Sits, Planned, Staffs!Listed

(* The parts of the tables there will be make their roster.                *)
LEMMA RosterNext ==
  ASSUME Covered(v1', v3', v5', v6'), Waited(v1', v4', v5'), Sits(v5'), Planned(v2', v3')
  PROVE  Staffs!RosterHolds'
  BY DEF Staffs!RosterHolds, Covered, Waited, Sits, Planned, Staffs!Listed

(* No part of the roster breaks when nobody who is active ceases to be,    *)
(* plans stay on shifts there are, and slots are at most emptied.          *)
LEMMA MembersStay ==
  ASSUME StaffInv, v1' \in [Members -> Staffs!Member], v2' \in [Members -> Staffs!Plan],
         \A n \in Members : v1[n].status = "ACTIVE" => v1'[n].status = "ACTIVE",
         Planned(v2', v3), UNCHANGED <<v3, v4, v5>>,
         v6' \in [Staffs!Slots -> Members \cup {NULL}],
         \A k \in Staffs!Slots :
           v6'[k] \in {NULL, v6[k]}
  PROVE  StaffInv'
<1>1. Staffs!TypeOK /\ Staffs!TypeOK'
  BY DEF StaffInv, Staffs!TypeOK
<1>2. Covered(v1, v3, v5, v6) /\ Waited(v1, v4, v5) /\ Sits(v5)
  BY RosterParts DEF StaffInv
<1>3. Covered(v1', v3', v5', v6')
  BY <1>1, <1>2 DEF Covered, Staffs!TypeOK
<1>4. Waited(v1', v4', v5')
  <2>1. \A t \in DiningTables : v5[t].status = "LISTED" => v5[t].waiter \in Members \cup {NULL}
    BY <1>1 DEF Staffs!TypeOK, Staffs!Table, Staffs!NoRow
  <2>. QED  BY <2>1, <1>2 DEF Waited
<1>5. Sits(v5') /\ Planned(v2', v3')
  BY <1>2
<1>. QED  BY <1>1, <1>3, <1>4, <1>5, RosterNext DEF StaffInv

(* Nor when a member goes and takes no slot and no table along             *)
(* (deactivate, deleteStaff).                                              *)
LEMMA MemberLeaves ==
  ASSUME StaffInv, NEW m \in Members, v1' \in [Members -> Staffs!Member],
         v2' \in [Members -> Staffs!Plan],
         \A n \in Members \ {m} : v1'[n] = v1[n],
         Planned(v2', v3), UNCHANGED <<v3, v4>>, Staffs!ReleaseCover(m), Staffs!ReleaseTables(m)
  PROVE  StaffInv'
<1>1. Staffs!TypeOK /\ Covered(v1, v3, v5, v6) /\ Waited(v1, v4, v5) /\ Sits(v5)
  BY RosterParts DEF StaffInv
<1>2. v6' = [k \in Staffs!Slots |-> IF v6[k] = m THEN NULL ELSE v6[k]]
  BY DEF Staffs!ReleaseCover, Staffs!Drop
<1>3. v5' = [t \in DiningTables |-> IF v5[t] # Staffs!NoRow /\ v5[t].waiter = m
                              THEN [v5[t] EXCEPT !.waiter = NULL] ELSE v5[t]]
  BY DEF Staffs!ReleaseTables
<1>4. v5' \in [DiningTables -> Staffs!Table]
  BY <1>1, <1>3 DEF Staffs!TypeOK, Staffs!Table, Staffs!NoRow
<1>5. Staffs!TypeOK'
  BY <1>1, <1>2, <1>4 DEF Staffs!TypeOK
<1>6. \A t \in DiningTables :
        /\ v5'[t] = Staffs!NoRow <=> v5[t] = Staffs!NoRow
        /\ v5'[t].status = v5[t].status
        /\ v5[t] # Staffs!NoRow =>
             /\ v5'[t].seated = v5[t].seated
             /\ v5'[t].waiter # NULL => v5'[t].waiter = v5[t].waiter
                  /\ v5[t].waiter \in Members \ {m}
  BY <1>1, <1>3 DEF Staffs!TypeOK, Staffs!Table, Staffs!NoRow
<1>7. Covered(v1', v3', v5', v6')
  <2>1. \A k \in Staffs!Slots : v6'[k] # NULL => v6'[k] = v6[k] /\ v6[k] \in Members \ {m}
    BY <1>1, <1>2 DEF Staffs!TypeOK
  <2>2. \A k \in Staffs!Slots : k[1] \in DiningTables
    BY DEF Staffs!Slots
  <2>. QED  BY <2>1, <2>2, <1>6, <1>1 DEF Covered
<1>8. Waited(v1', v4', v5')
  <2>1. \A t \in DiningTables : v5[t].status = "LISTED" => v5[t] # Staffs!NoRow
    BY DEF Staffs!NoRow
  <2>. QED  BY <2>1, <1>6, <1>1 DEF Waited
<1>9. Sits(v5')
  BY <1>1, <1>6 DEF Sits
<1>. QED  BY <1>5, <1>7, <1>8, <1>9, RosterNext DEF StaffInv

(* Rows that keep type and status.                                         *)
LEMMA RowsTyped ==
  ASSUME StaffInv, NEW m \in Members, NEW row \in Staffs!Member, v1' = [v1 EXCEPT ![m] = row]
  PROVE  /\ v1' \in [Members -> Staffs!Member] /\ v1'[m] = row
         /\ \A n \in Members \ {m} : v1'[n] = v1[n]
  BY DEF StaffInv, Staffs!TypeOK

(* The empty plan is a plan and needs no shift.                            *)
LEMMA Unrostered ==
  /\ Staffs!NoPlan \in Staffs!Plan
  /\ Staffs!Range(Staffs!NoPlan) = {}
  BY DEF Staffs!NoPlan, Staffs!Plan, Staffs!Range

(* The row alone changes, and who was active stays so.                     *)
LEMMA RowChanges ==
  ASSUME StaffInv, NEW m \in Members, NEW row \in Staffs!Member, v1' = [v1 EXCEPT ![m] = row],
         v1[m].status = "ACTIVE" => row.status = "ACTIVE", UNCHANGED <<v2, v3, v4, v5, v6>>
  PROVE  StaffInv'
<1>1. /\ v1' \in [Members -> Staffs!Member]
      /\ \A n \in Members : v1[n].status = "ACTIVE" => v1'[n].status = "ACTIVE"
  BY RowsTyped
<1>2. /\ v2' \in [Members -> Staffs!Plan] /\ v6' \in [Staffs!Slots -> Members \cup {NULL}]
  BY DEF StaffInv, Staffs!TypeOK
<1>3. Planned(v2', v3)
  BY RosterParts DEF StaffInv
<1>4. \A k \in Staffs!Slots : v6'[k] \in {NULL, v6[k]}
  OBVIOUS
<1>. QED  BY <1>1, <1>2, <1>3, <1>4, MembersStay

(* The rows the requests write are rows, with the status they should have. *)
LEMMA RowsOf ==
  ASSUME NEW row \in Staffs!Member, row # Staffs!NoRow
  PROVE  /\ row.status \in {"ACTIVE", "INACTIVE"}
         /\ [row EXCEPT !.status = "ACTIVE"] \in Staffs!Member
         /\ [row EXCEPT !.status = "ACTIVE"].status = "ACTIVE"
         /\ [row EXCEPT !.signedIn = TRUE, !.history = TRUE] \in Staffs!Member
         /\ [row EXCEPT !.signedIn = TRUE, !.history = TRUE].status = row.status
         /\ \A p \in Pins \cup {NULL} :
              /\ [row EXCEPT !.pin = p] \in Staffs!Member
              /\ [row EXCEPT !.pin = p].status = row.status
              /\ [row EXCEPT !.pin = p, !.signedIn = FALSE] \in Staffs!Member
              /\ [row EXCEPT !.pin = p, !.signedIn = FALSE].status = row.status
         /\ \A r \in Roles : LET new == [row EXCEPT !.role = r, !.station = @
              \/ r = "STATION_OPERATOR"] IN
              new \in Staffs!Member /\ new.status = row.status
         /\ \A b \in BOOLEAN : LET new == [row EXCEPT !.rostered = @ \/ b] IN
              new \in Staffs!Member /\ new.status = row.status
         /\ [row EXCEPT !.status = "INACTIVE", !.branch = FALSE,
              !.station = FALSE] \in Staffs!Member
         /\ [row EXCEPT !.status = "INACTIVE", !.role = NULL, !.branch = FALSE,
              !.station = FALSE] \in Staffs!Member
  BY DEF Staffs!Member, Staffs!NoRow

(* So is the row of who is hired.                                          *)
LEMMA RowHired ==
  ASSUME NEW r \in Roles, NEW b \in BOOLEAN, NEW p \in Pins \cup {NULL}
  PROVE  /\ Staffs!Hired(r, b, p) \in Staffs!Member /\ Staffs!Hired(r, b, p) # Staffs!NoRow
         /\ Staffs!Hired(r, b, p).status = "ACTIVE"
  BY DEF Staffs!Hired, Staffs!Member, Staffs!NoRow

(* The requests that write the row of a member and nothing else.           *)
LEMMA StaffRewrites ==
  ASSUME StaffInv, NEW m \in Members, Staffs!Exists(m)
  PROVE  /\ v1[m] \in Staffs!Member /\ v1[m] # Staffs!NoRow
         /\ Staffs!Work(m) => StaffInv'
         /\ \A b \in BOOLEAN : Staffs!SuspendPlatformStaff(m, b) => StaffInv'
         /\ \A p \in Pins \cup {NULL} : Staffs!ResetPlatformStaffPin(m, p) => StaffInv'
         /\ \A a : Staffs!Reactivate(a, m) => StaffInv'
         /\ \A a : \A r \in Roles : Staffs!UpdateRole(a, m, r) => StaffInv'
         /\ \A a : \A p \in Pins : Staffs!UpdatePin(a, m, p) => StaffInv'
         /\ \A a : \A p \in Pins \cup {NULL} : Staffs!ResetCredential(a, m, p) => StaffInv'
<1>1. v1[m] \in Staffs!Member /\ v1[m] # Staffs!NoRow /\ v1 \in [Members -> Staffs!Member]
  BY DEF StaffInv, Staffs!TypeOK, Staffs!Exists
<1>2. Staffs!Work(m) => StaffInv'
  <2>1. HAVE Staffs!Work(m)
  <2>. DEFINE row == [v1[m] EXCEPT !.signedIn = TRUE, !.history = TRUE]
  <2>2. v1' = [v1 EXCEPT ![m] = row] /\ UNCHANGED <<v2, v3, v4, v5, v6>>
    BY <2>1, <1>1 DEF Staffs!Work, Staffs!floorVars
  <2>3. row \in Staffs!Member /\ row.status = v1[m].status
    BY <1>1, RowsOf
  <2>. HIDE DEF row
  <2>. QED  BY <2>2, <2>3, RowChanges
<1>3. \A b \in BOOLEAN : Staffs!SuspendPlatformStaff(m, b) => StaffInv'
  <2>1. SUFFICES ASSUME NEW b \in BOOLEAN, Staffs!SuspendPlatformStaff(m, b) PROVE StaffInv'
    OBVIOUS
  <2>. DEFINE row == [v1[m] EXCEPT !.status = "ACTIVE"]
  <2>2. v1' = [v1 EXCEPT ![m] = row] /\ UNCHANGED <<v2, v3, v4, v5, v6>>
    BY <2>1 DEF Staffs!SuspendPlatformStaff, Staffs!floorVars
  <2>3. row \in Staffs!Member /\ row.status = "ACTIVE"
    BY <1>1, RowsOf
  <2>. HIDE DEF row
  <2>. QED  BY <2>2, <2>3, RowChanges
<1>4. \A p \in Pins \cup {NULL} : Staffs!ResetPlatformStaffPin(m, p) => StaffInv'
  <2>1. SUFFICES ASSUME NEW p \in Pins \cup {NULL}, Staffs!ResetPlatformStaffPin(m, p)
        PROVE StaffInv'
    OBVIOUS
  <2>. DEFINE row == [v1[m] EXCEPT !.pin = p, !.signedIn = FALSE]
  <2>2. v1' = [v1 EXCEPT ![m] = row]
        /\ UNCHANGED <<v2, v3, v4, v5, v6>>
    BY <2>1, <1>1 DEF Staffs!ResetPlatformStaffPin, Staffs!floorVars
  <2>3. row \in Staffs!Member /\ row.status = v1[m].status
    BY <1>1, RowsOf
  <2>. HIDE DEF row
  <2>. QED  BY <2>2, <2>3, RowChanges
<1>5. \A a : Staffs!Reactivate(a, m) => StaffInv'
  <2>1. SUFFICES ASSUME NEW a, Staffs!Reactivate(a, m) PROVE StaffInv'
    OBVIOUS
  <2>. DEFINE row == [v1[m] EXCEPT !.status = "ACTIVE"]
  <2>2. v1' = [v1 EXCEPT ![m] = row] /\ UNCHANGED <<v2, v3, v4, v5, v6>>
    BY <2>1 DEF Staffs!Reactivate, Staffs!floorVars
  <2>3. row \in Staffs!Member /\ row.status = "ACTIVE"
    BY <1>1, RowsOf
  <2>. HIDE DEF row
  <2>. QED  BY <2>2, <2>3, RowChanges
<1>6. \A a : \A r \in Roles : Staffs!UpdateRole(a, m, r) => StaffInv'
  <2>1. SUFFICES ASSUME NEW a, NEW r \in Roles, Staffs!UpdateRole(a, m, r) PROVE StaffInv'
    OBVIOUS
  <2>. DEFINE row == [v1[m] EXCEPT !.role = r, !.station = @ \/ r = "STATION_OPERATOR"]
  <2>2. v1' = [v1 EXCEPT ![m] = row]
        /\ UNCHANGED <<v2, v3, v4, v5, v6>>
    BY <2>1, <1>1 DEF Staffs!UpdateRole, Staffs!floorVars
  <2>3. row \in Staffs!Member /\ row.status = v1[m].status
    BY <1>1, RowsOf
  <2>. HIDE DEF row
  <2>. QED  BY <2>2, <2>3, RowChanges
<1>7. \A a : \A p \in Pins : Staffs!UpdatePin(a, m, p) => StaffInv'
  <2>1. SUFFICES ASSUME NEW a, NEW p \in Pins, Staffs!UpdatePin(a, m, p) PROVE StaffInv'
    OBVIOUS
  <2>. DEFINE row == [v1[m] EXCEPT !.pin = p]
  <2>2. v1' = [v1 EXCEPT ![m] = row] /\ UNCHANGED <<v2, v3, v4, v5, v6>>
    BY <2>1 DEF Staffs!UpdatePin, Staffs!floorVars
  <2>3. row \in Staffs!Member /\ row.status = v1[m].status
    BY <1>1, RowsOf
  <2>. HIDE DEF row
  <2>. QED  BY <2>2, <2>3, RowChanges
<1>8. \A a : \A p \in Pins \cup {NULL} : Staffs!ResetCredential(a, m, p) => StaffInv'
  <2>1. SUFFICES ASSUME NEW a, NEW p \in Pins \cup {NULL}, Staffs!ResetCredential(a, m, p)
        PROVE StaffInv'
    OBVIOUS
  <2>. DEFINE row == [v1[m] EXCEPT !.pin = p, !.signedIn = FALSE]
  <2>2. v1' = [v1 EXCEPT ![m] = row]
        /\ UNCHANGED <<v2, v3, v4, v5, v6>>
    BY <2>1, <1>1 DEF Staffs!ResetCredential, Staffs!floorVars
  <2>3. row \in Staffs!Member /\ row.status = v1[m].status
    BY <1>1, RowsOf
  <2>. HIDE DEF row
  <2>. QED  BY <2>2, <2>3, RowChanges
<1>. QED  BY <1>1, <1>2, <1>3, <1>4, <1>5, <1>6, <1>7, <1>8

(* replaceStaffDayShifts: the new plan names shifts there are, and slots   *)
(* the member no longer works in are emptied.                              *)
LEMMA ShiftsReplaced ==
  ASSUME StaffInv, NEW m \in Members, NEW row \in Staffs!Member, row # Staffs!NoRow,
         v1[m].status = "ACTIVE" => row.status = "ACTIVE", NEW week \in Staffs!Plan,
         Staffs!ReplaceStaffDayShifts(m, row, week), UNCHANGED <<v3, v4, v5>>
  PROVE  StaffInv'
<1>. DEFINE new == [row EXCEPT !.rostered = @ \/ week # Staffs!NoPlan]
            kept(k) == ~(k[3] \in DOMAIN week /\ week[k[3]] = k[2])
<1>1. new \in Staffs!Member /\ new.status = row.status
  BY RowsOf
<1>2. /\ v1' = [v1 EXCEPT ![m] = new] /\ v2' = [v2 EXCEPT ![m] = week]
      /\ v6' = [k \in Staffs!Slots |-> IF v6[k] = m /\ kept(k) THEN NULL ELSE v6[k]]
      /\ Staffs!Range(week) \subseteq v3
  BY DEF Staffs!ReplaceStaffDayShifts, Staffs!Drop
<1>. HIDE DEF new, kept
<1>3. /\ v1' \in [Members -> Staffs!Member]
      /\ \A n \in Members : v1[n].status = "ACTIVE" => v1'[n].status = "ACTIVE"
  BY <1>1, <1>2, RowsTyped
<1>4. v2' \in [Members -> Staffs!Plan] /\ \A n \in Members : v2'[n] = IF n = m THEN week
        ELSE v2[n]
  BY <1>2 DEF StaffInv, Staffs!TypeOK
<1>5. Planned(v2', v3)
  <2>1. Planned(v2, v3)
    BY RosterParts DEF StaffInv
  <2>. QED  BY <2>1, <1>2, <1>4 DEF Planned
<1>6. v6' \in [Staffs!Slots -> Members \cup {NULL}] /\ \A k \in Staffs!Slots :
        v6'[k] \in {NULL, v6[k]}
  BY <1>2 DEF StaffInv, Staffs!TypeOK
<1>. QED  BY <1>3, <1>4, <1>5, <1>6, MembersStay

(* A plan gives a shift to each of some days.                              *)
LEMMA PlanIs == \A w : w \in Staffs!Plan <=> \E D \in SUBSET WorkDays : w \in [D -> Shifts]
  BY DEF Staffs!Plan

(* The weeks a manager enters are plans.                                   *)
LEMMA WeeksArePlans ==
  ASSUME PeopleAssumption PROVE Staffs!Week \subseteq Staffs!Plan
<1>1. Mon \in WorkDays
  BY DEF PeopleAssumption, Staffs!StaffingAssumption
<1>. QED  BY <1>1, PlanIs, Unrostered DEF Staffs!Week

(* Every request about staff keeps types and roster.                       *)
LEMMA StaffSteps ==
  ASSUME PeopleAssumption, StaffInv, Staffs!Staff
  PROVE  StaffInv'
<1>. PICK m \in Members :
       \/ Staffs!Work(m)
       \/ \E suspended \in BOOLEAN : Staffs!SuspendPlatformStaff(m, suspended)
       \/ \E pin \in Pins \cup {NULL} : Staffs!ResetPlatformStaffPin(m, pin)
       \/ \E role \in Roles, station \in BOOLEAN, pin \in Pins :
            Staffs!CreatePlatformStaff(m, role, station, pin)
       \/ \E actor \in {"OWNER", "MANAGER"} :
            \/ \E active \in BOOLEAN, role \in Roles, pin \in Pins, week \in Staffs!Week :
                 Staffs!CreateStaff(actor, m, active, role, pin, week)
            \/ Staffs!Deactivate(actor, m) \/ Staffs!Reactivate(actor, m)
                 \/ Staffs!DeleteStaff(actor, m)
            \/ \E week \in Staffs!Week : Staffs!UpdateDayShifts(actor, m, week)
            \/ \E days \in SUBSET WorkDays : Staffs!UpdateWorkingDays(actor, m, days)
            \/ \E role \in Roles : Staffs!UpdateRole(actor, m, role)
            \/ \E p \in Pins : Staffs!UpdatePin(actor, m, p)
            \/ \E p \in Pins \cup {NULL} : Staffs!ResetCredential(actor, m, p)
  BY DEF Staffs!Staff
<1>0. v2 \in [Members -> Staffs!Plan] /\ Planned(v2, v3)
        /\ v6 \in [Staffs!Slots -> Members \cup {NULL}]
  BY RosterParts DEF StaffInv, Staffs!TypeOK
<1>1. ASSUME NEW role \in Roles, NEW station \in BOOLEAN, NEW pin \in Pins,
             Staffs!CreatePlatformStaff(m, role, station, pin)
      PROVE  StaffInv'
  <2>. DEFINE row == Staffs!Hired(role, station, pin)
  <2>1. row \in Staffs!Member /\ row.status = "ACTIVE"
    BY RowHired
  <2>2. v1' = [v1 EXCEPT ![m] = row] /\ UNCHANGED <<v2, v3, v4, v5, v6>>
    BY <1>1 DEF Staffs!CreatePlatformStaff, Staffs!floorVars
  <2>. HIDE DEF row
  <2>. QED  BY <2>1, <2>2, RowChanges
<1>2. ASSUME NEW actor, NEW active, NEW role \in Roles, NEW pin \in Pins,
             NEW week \in Staffs!Week,
             Staffs!CreateStaff(actor, m, active, role, pin, week)
      PROVE  StaffInv'
  <2>. DEFINE row == Staffs!Hired(role, role = "STATION_OPERATOR", IF role = "MANAGER" THEN NULL
                ELSE pin)
  <2>1. row \in Staffs!Member /\ row # Staffs!NoRow /\ row.status = "ACTIVE"
    <3>1. (role = "STATION_OPERATOR") \in BOOLEAN /\ (IF role = "MANAGER" THEN NULL
            ELSE pin) \in Pins \cup {NULL}
      OBVIOUS
    <3>. QED  BY <3>1, RowHired
  <2>2. Staffs!ReplaceStaffDayShifts(m, row, week) /\ UNCHANGED <<v3, v4, v5>>
    BY <1>2 DEF Staffs!CreateStaff, Staffs!floorVars
  <2>3. week \in Staffs!Plan
    BY WeeksArePlans
  <2>. HIDE DEF row
  <2>. QED  BY <2>1, <2>2, <2>3, ShiftsReplaced
<1>3. ASSUME NEW actor, Staffs!Deactivate(actor, m)
      PROVE  StaffInv'
  <2>. DEFINE row == [v1[m] EXCEPT !.status = "INACTIVE", !.branch = FALSE, !.station = FALSE]
  <2>1. Staffs!Exists(m)
    BY <1>3 DEF Staffs!Deactivate, Staffs!Access
  <2>2. row \in Staffs!Member
    BY <2>1, StaffRewrites, RowsOf
  <2>3. v1' = [v1 EXCEPT ![m] = row] /\ UNCHANGED <<v2, v3>>
    BY <1>3 DEF StaffInv, Staffs!TypeOK, Staffs!Deactivate
  <2>4. Staffs!ReleaseCover(m) /\ Staffs!ReleaseTables(m) /\ UNCHANGED v4
    BY <1>3 DEF Staffs!Deactivate, Staffs!ReleaseTables
  <2>. HIDE DEF row
  <2>. QED  BY <2>2, <2>3, <2>4, <1>0, RowsTyped, MemberLeaves
<1>4. ASSUME NEW actor, Staffs!DeleteStaff(actor, m)
      PROVE  StaffInv'
  <2>. DEFINE row == IF v1[m].history
                     THEN [v1[m] EXCEPT !.status = "INACTIVE", !.role = NULL, !.branch = FALSE,
                       !.station = FALSE]
                     ELSE Staffs!NoRow
  <2>1. Staffs!Exists(m)
    BY <1>4 DEF Staffs!DeleteStaff, Staffs!Access
  <2>2. row \in Staffs!Member
    <3>1. Staffs!NoRow \in Staffs!Member
      BY DEF Staffs!Member
    <3>. QED  BY <2>1, <3>1, StaffRewrites, RowsOf
  <2>3. v1' = [v1 EXCEPT ![m] = row] /\ v2' = [v2 EXCEPT ![m] = Staffs!NoPlan] /\ UNCHANGED v3
    BY <1>4 DEF StaffInv, Staffs!TypeOK, Staffs!DeleteStaff
  <2>4. Staffs!ReleaseCover(m) /\ Staffs!ReleaseTables(m) /\ UNCHANGED v4
    BY <1>4 DEF Staffs!DeleteStaff, Staffs!ReleaseTables
  <2>5. v2' \in [Members -> Staffs!Plan] /\ Planned(v2', v3)
    BY <2>3, <1>0, Unrostered DEF Planned
  <2>. HIDE DEF row
  <2>. QED  BY <2>2, <2>3, <2>4, <2>5, <1>0, RowsTyped, MemberLeaves
<1>5. ASSUME NEW actor, NEW week \in Staffs!Plan, Staffs!Access(actor, m),
             Staffs!ReplaceStaffDayShifts(m, v1[m], week), UNCHANGED <<v3, v4, v5>>
      PROVE  StaffInv'
  <2>1. v1[m] \in Staffs!Member /\ v1[m] # Staffs!NoRow
    BY <1>5, StaffRewrites DEF Staffs!Access
  <2>. QED  BY <2>1, <1>5, ShiftsReplaced
<1>6. ASSUME NEW actor, NEW week \in Staffs!Week, Staffs!UpdateDayShifts(actor, m, week)
      PROVE  StaffInv'
  BY <1>5, <1>6, WeeksArePlans DEF Staffs!UpdateDayShifts, Staffs!floorVars
<1>7. ASSUME NEW actor, NEW days \in SUBSET WorkDays, Staffs!UpdateWorkingDays(actor, m, days)
      PROVE  StaffInv'
  <2>1. PICK s \in Staffs!Range(v2[m]) :
          Staffs!ReplaceStaffDayShifts(m, v1[m],
            [d \in days |-> IF d \in DOMAIN v2[m] THEN v2[m][d] ELSE s])
    BY <1>7 DEF Staffs!UpdateWorkingDays
  <2>2. PICK D \in SUBSET WorkDays : v2[m] \in [D -> Shifts]
    BY <1>0, PlanIs
  <2>3. s \in Shifts
    BY <2>1, <2>2 DEF Staffs!Range
  <2>4. [d \in days |-> IF d \in DOMAIN v2[m] THEN v2[m][d] ELSE s] \in [days -> Shifts]
    BY <2>2, <2>3
  <2>5. [d \in days |-> IF d \in DOMAIN v2[m] THEN v2[m][d] ELSE s] \in Staffs!Plan
    BY <2>4, PlanIs
  <2>6. Staffs!Access(actor, m) /\ UNCHANGED <<v3, v4, v5>>
    BY <1>7 DEF Staffs!UpdateWorkingDays, Staffs!floorVars
  <2>. QED  BY <2>1, <2>5, <2>6, <1>5
<1>8. ASSUME NEW actor,
             \/ Staffs!Work(m)
             \/ \E suspended \in BOOLEAN : Staffs!SuspendPlatformStaff(m, suspended)
             \/ \E pin \in Pins \cup {NULL} : Staffs!ResetPlatformStaffPin(m, pin)
             \/ Staffs!Reactivate(actor, m)
             \/ \E role \in Roles : Staffs!UpdateRole(actor, m, role)
             \/ \E p \in Pins : Staffs!UpdatePin(actor, m, p)
             \/ \E p \in Pins \cup {NULL} : Staffs!ResetCredential(actor, m, p)
      PROVE  StaffInv'
  <2>1. Staffs!Exists(m)
    BY <1>8 DEF Staffs!Work, Staffs!SuspendPlatformStaff, Staffs!ResetPlatformStaffPin,
       Staffs!Reactivate,
                Staffs!UpdateRole, Staffs!UpdatePin, Staffs!ResetCredential, Staffs!Access
  <2>2. CASE Staffs!Work(m)
    BY <2>1, <2>2, StaffRewrites
  <2>3. CASE \E suspended \in BOOLEAN : Staffs!SuspendPlatformStaff(m, suspended)
    BY <2>1, <2>3, StaffRewrites
  <2>4. CASE \E pin \in Pins \cup {NULL} : Staffs!ResetPlatformStaffPin(m, pin)
    BY <2>1, <2>4, StaffRewrites
  <2>5. CASE Staffs!Reactivate(actor, m)
    BY <2>1, <2>5, StaffRewrites
  <2>6. CASE \E role \in Roles : Staffs!UpdateRole(actor, m, role)
    BY <2>1, <2>6, StaffRewrites
  <2>7. CASE \E p \in Pins : Staffs!UpdatePin(actor, m, p)
    BY <2>1, <2>7, StaffRewrites
  <2>8. CASE \E p \in Pins \cup {NULL} : Staffs!ResetCredential(actor, m, p)
    BY <2>1, <2>8, StaffRewrites
  <2>. QED  BY <1>8, <2>2, <2>3, <2>4, <2>5, <2>6, <2>7, <2>8
<1>. QED  BY <1>1, <1>2, <1>3, <1>4, <1>6, <1>7, <1>8

(* What types and roster say of tables and slots.                          *)
LEMMA TableRows ==
  ASSUME StaffInv
  PROVE  /\ Staffs!TypeOK
         /\ Covered(v1, v3, v5, v6) /\ Waited(v1, v4, v5) /\ Sits(v5) /\ Planned(v2, v3)
         /\ \A k \in Staffs!Slots : k[1] \in DiningTables /\ k[2] \in Shifts /\ k[3] \in WorkDays
         /\ \A t \in DiningTables : v5[t] = Staffs!NoRow \/ (v5[t] # Staffs!NoRow
           /\ v5[t] \in [status : {"LISTED", "ARCHIVED"}, waiter : Members \cup {NULL},
                seated : BOOLEAN])
         /\ Staffs!NoRow.status # "LISTED"
<1>1. Staffs!TypeOK /\ \A t \in DiningTables : v5[t] \in Staffs!Table
  BY DEF StaffInv, Staffs!TypeOK
<1>2. \A k \in Staffs!Slots : k[1] \in DiningTables /\ k[2] \in Shifts /\ k[3] \in WorkDays
  BY DEF Staffs!Slots
<1>3. \A t \in DiningTables : v5[t] = Staffs!NoRow \/ (v5[t] # Staffs!NoRow
     /\ v5[t] \in [status : {"LISTED", "ARCHIVED"}, waiter : Members \cup {NULL},
          seated : BOOLEAN])
  BY <1>1 DEF Staffs!Table
<1>. QED  BY <1>1, <1>2, <1>3, RosterParts DEF StaffInv, Staffs!NoRow

(* Every request about shifts and cover does.                              *)
LEMMA ShiftSteps ==
  ASSUME PeopleAssumption, StaffInv, NEW s \in Shifts
  PROVE  /\ Staffs!CreateShift(s) => StaffInv'
         /\ Staffs!DeleteShift(s) => StaffInv'
         /\ \A m \in Members, tables \in SUBSET DiningTables, day \in WorkDays \cup {NULL} :
              Staffs!SetWaiterCoverage(m, s, tables, day) => StaffInv'
<1>1. ASSUME Staffs!CreateShift(s) PROVE StaffInv'
  <2>1. v3' = v3 \cup {s} /\ UNCHANGED <<v1, v2, v4, v5, v6>>
    BY <1>1 DEF Staffs!CreateShift, Staffs!staffVars, Staffs!floorVars
  <2>2. Staffs!TypeOK'
    BY <2>1 DEF StaffInv, Staffs!TypeOK
  <2>3. Covered(v1', v3', v5', v6') /\ Waited(v1', v4', v5') /\ Sits(v5') /\ Planned(v2', v3')
    BY <2>1, TableRows DEF Covered, Planned
  <2>. QED  BY <2>2, <2>3, RosterNext DEF StaffInv
<1>2. ASSUME Staffs!DeleteShift(s) PROVE StaffInv'
  <2>1. /\ v3' = v3 \ {s} /\ UNCHANGED <<v1, v4, v5>>
        /\ v2' = [m \in Members |-> Staffs!Restrict(v2[m], {d \in DOMAIN v2[m] : v2[m][d] # s})]
        /\ v6' = [k \in Staffs!Slots |-> IF k[2] = s THEN NULL ELSE v6[k]]
    BY <1>2 DEF Staffs!DeleteShift, Staffs!floorVars, Staffs!Drop
  <2>2. ASSUME NEW m \in Members
        PROVE  v2'[m] \in Staffs!Plan /\ Staffs!Range(v2'[m]) \subseteq v3'
    <3>. DEFINE S == {d \in DOMAIN v2[m] : v2[m][d] # s}
    <3>1. PICK D \in SUBSET WorkDays : v2[m] \in [D -> Shifts]
      BY PlanIs DEF StaffInv, Staffs!TypeOK
    <3>2. S \in SUBSET WorkDays /\ v2'[m] = [d \in S |-> v2[m][d]]
      BY <3>1, <2>1 DEF Staffs!Restrict
    <3>3. v2'[m] \in [S -> Shifts]
      BY <3>1, <3>2
    <3>4. Staffs!Range(v2[m]) \subseteq v3
      BY TableRows DEF Planned
    <3>5. Staffs!Range(v2'[m]) \subseteq v3 \ {s}
      BY <3>1, <3>2, <3>4 DEF Staffs!Range
    <3>. QED  BY <3>2, <3>3, <3>5, <2>1, PlanIs
  <2>3. v2' \in [Members -> Staffs!Plan] /\ Planned(v2', v3')
    BY <2>1, <2>2 DEF Planned
  <2>4. Staffs!TypeOK'
    BY <2>1, <2>3 DEF StaffInv, Staffs!TypeOK
  <2>5. Covered(v1', v3', v5', v6') /\ Waited(v1', v4', v5') /\ Sits(v5')
    BY <2>1, TableRows DEF Covered
  <2>. QED  BY <2>3, <2>4, <2>5, RosterNext DEF StaffInv
<1>3. ASSUME NEW m \in Members, NEW tables \in SUBSET DiningTables,
             NEW day \in WorkDays \cup {NULL},
             Staffs!SetWaiterCoverage(m, s, tables, day)
      PROVE  StaffInv'
  <2>1. /\ v1[m].status = "ACTIVE" /\ s \in v3 /\ \A t \in tables : v5[t].status = "LISTED"
        /\ UNCHANGED <<v1, v2, v3, v4, v5>>
        /\ v6' \in [Staffs!Slots -> Members \cup {NULL}]
        /\ \A k \in Staffs!Slots : \/ v6'[k] \in {NULL, v6[k]}
                                   \/ v6'[k] = m /\ k[2] = s /\ k[1] \in tables
    BY <1>3 DEF Staffs!SetWaiterCoverage, Staffs!IsWaiter, Staffs!Listed, Staffs!staffVars,
       Staffs!floorVars,
                StaffInv, Staffs!TypeOK
  <2>2. Staffs!TypeOK'
    BY <2>1 DEF StaffInv, Staffs!TypeOK
  <2>3. Covered(v1', v3', v5', v6')
    BY <2>1, TableRows DEF Covered
  <2>4. Waited(v1', v4', v5') /\ Sits(v5') /\ Planned(v2', v3')
    BY <2>1, TableRows
  <2>. QED  BY <2>2, <2>3, <2>4, RosterNext DEF StaffInv
<1>. QED  BY <1>1, <1>2, <1>3

(* What a table is given to comes first on the roster.                     *)
LEMMA Synced ==
  ASSUME PeopleAssumption, StaffInv, NEW t \in DiningTables, NEW w \in Members \cup {NULL},
         Staffs!SyncPermanent(t, w)
  PROVE  /\ v6' \in [Staffs!Slots -> Members \cup {NULL}]
         /\ \A k \in Staffs!Slots : v6'[k] \in {NULL, v6[k]}
              \/ (v6'[k] = w /\ k[1] = t /\ k[2] \in v3)
  BY DEF StaffInv, Staffs!TypeOK, Staffs!SyncPermanent

(* A table is created or changed, its waiter active, and slots are emptied *)
(* or given to that waiter.                                                *)
LEMMA TableGiven ==
  ASSUME PeopleAssumption, StaffInv, NEW t \in DiningTables, NEW w \in Members \cup {NULL},
         w # NULL => v1[w].status = "ACTIVE", v4 = "ACTIVE", UNCHANGED <<v1, v2, v3, v4>>,
         NEW row \in Staffs!Table, row # Staffs!NoRow, row.status = "LISTED", row.waiter = w,
         v5' = [v5 EXCEPT ![t] = row],
         v6' \in [Staffs!Slots -> Members \cup {NULL}],
         \A k \in Staffs!Slots : v6'[k] \in {NULL, v6[k]}
           \/ (v6'[k] = w /\ k[1] = t /\ k[2] \in v3)
  PROVE  StaffInv'
<1>1. /\ v5' \in [DiningTables -> Staffs!Table]
      /\ \A u \in DiningTables : v5'[u] = IF u = t THEN row ELSE v5[u]
  BY DEF StaffInv, Staffs!TypeOK
<1>2. Staffs!TypeOK'
  BY <1>1 DEF StaffInv, Staffs!TypeOK
<1>3. Covered(v1', v3', v5', v6')
  BY <1>1, TableRows DEF Covered
<1>4. Waited(v1', v4', v5') /\ Sits(v5')
  BY <1>1, TableRows DEF Waited, Sits
<1>5. Planned(v2', v3')
  BY TableRows
<1>. QED  BY <1>2, <1>3, <1>4, <1>5, RosterNext DEF StaffInv

(* Tables nobody sits at are archived, with their waiters and slots.       *)
LEMMA TablesArchived ==
  ASSUME PeopleAssumption, StaffInv, NEW tables \in SUBSET DiningTables, \A t \in tables :
         v5[t] # Staffs!NoRow,
         Staffs!Archive(tables),
         v4' \in {"ACTIVE", "ARCHIVED"},
         v4' = v4 \/ \A t \in DiningTables \ tables : v5[t].status # "LISTED"
  PROVE  StaffInv'
<1>1. /\ \A t \in tables : ~v5[t].seated
      /\ v5' = [t \in DiningTables |-> IF t \in tables
                 THEN [v5[t] EXCEPT !.status = "ARCHIVED", !.waiter = NULL] ELSE v5[t]]
      /\ v6' = [k \in Staffs!Slots |-> IF k[1] \in tables THEN NULL ELSE v6[k]]
      /\ UNCHANGED <<v1, v2, v3>>
  BY DEF Staffs!Archive, Staffs!Drop, Staffs!staffVars
<1>2. \A t \in tables : /\ v5'[t] \in Staffs!Table /\ v5'[t].status = "ARCHIVED"
        /\ v5'[t].seated = v5[t].seated
  BY <1>1, TableRows DEF Staffs!Table
<1>3. \A t \in DiningTables \ tables : v5'[t] = v5[t]
  BY <1>1
<1>4. v5' \in [DiningTables -> Staffs!Table] /\ v6' \in [Staffs!Slots -> Members \cup {NULL}]
  BY <1>1, <1>2, <1>3 DEF StaffInv, Staffs!TypeOK
<1>5. Staffs!TypeOK'
  BY <1>1, <1>4 DEF StaffInv, Staffs!TypeOK
<1>6. Covered(v1', v3', v5', v6')
  BY <1>1, <1>3, TableRows DEF Covered
<1>7. Waited(v1', v4', v5') /\ Sits(v5')
  BY <1>1, <1>2, <1>3, TableRows DEF Waited, Sits
<1>8. Planned(v2', v3')
  BY <1>1, TableRows
<1>. QED  BY <1>5, <1>6, <1>7, <1>8, RosterNext DEF StaffInv

(* Every request about shifts, cover and tables keeps types and roster.    *)
LEMMA FloorSteps ==
  ASSUME PeopleAssumption, StaffInv, Staffs!Floor
  PROVE  StaffInv'
<1>1. CASE Staffs!CreateLocation
  <2>1. v4 = "NONE" /\ v4' = "ACTIVE" /\ UNCHANGED <<v1, v2, v3, v5, v6>>
    BY <1>1 DEF Staffs!CreateLocation, Staffs!staffVars
  <2>2. Staffs!TypeOK'
    BY <2>1 DEF StaffInv, Staffs!TypeOK
  <2>3. Covered(v1', v3', v5', v6') /\ Waited(v1', v4', v5') /\ Sits(v5') /\ Planned(v2', v3')
    BY <2>1, TableRows DEF Waited
  <2>. QED  BY <2>2, <2>3, RosterNext DEF StaffInv
<1>2. CASE Staffs!DeleteLocation
  <2>. DEFINE tables == {t \in DiningTables : Staffs!Listed(t)}
  <2>1. Staffs!Archive(tables) /\ v4' = "ARCHIVED"
    BY <1>2 DEF Staffs!DeleteLocation
  <2>2. \A t \in tables : v5[t] # Staffs!NoRow
    BY TableRows DEF Staffs!Listed
  <2>3. \A t \in DiningTables \ tables : v5[t].status # "LISTED"
    BY DEF Staffs!Listed
  <2>. HIDE DEF tables
  <2>4. tables \in SUBSET DiningTables
    BY DEF tables
  <2>. QED  BY <2>1, <2>2, <2>3, <2>4, TablesArchived
<1>3. ASSUME NEW t \in DiningTables, Staffs!DeleteTable(t) PROVE StaffInv'
  <2>1. Staffs!Archive({t}) /\ v4' = v4 /\ v5[t].status = "LISTED"
    BY <1>3 DEF Staffs!DeleteTable, Staffs!Listed
  <2>2. v5[t] # Staffs!NoRow /\ v4 = "ACTIVE"
    BY <2>1, TableRows DEF Waited
  <2>. QED  BY <2>1, <2>2, TablesArchived
<1>4. ASSUME NEW t \in DiningTables, NEW on \in BOOLEAN, Staffs!Seat(t, on) PROVE StaffInv'
  <2>1. /\ v5[t] # Staffs!NoRow /\ (on => v5[t].status = "LISTED") /\ v5[t].seated # on
        /\ v5' = [v5 EXCEPT ![t].seated = on] /\ UNCHANGED <<v1, v2, v3, v4, v6>>
    BY <1>4 DEF Staffs!Seat, Staffs!Listed, Staffs!staffVars
  <2>. DEFINE row == [v5[t] EXCEPT !.seated = on]
  <2>2. /\ row \in Staffs!Table /\ row # Staffs!NoRow /\ row.status = v5[t].status
             /\ row.waiter = v5[t].waiter
        /\ row.seated = on
    BY <2>1, TableRows DEF Staffs!Table, Staffs!NoRow
  <2>3. v5' = [v5 EXCEPT ![t] = row]
    BY <2>1
  <2>. HIDE DEF row
  <2>4. v5' \in [DiningTables -> Staffs!Table] /\ \A u \in DiningTables : v5'[u] = IF u = t THEN row
          ELSE v5[u]
    BY <2>2, <2>3 DEF StaffInv, Staffs!TypeOK
  <2>5. Staffs!TypeOK'
    BY <2>1, <2>4 DEF StaffInv, Staffs!TypeOK
  <2>6. Covered(v1', v3', v5', v6')
    BY <2>1, <2>2, <2>4, TableRows DEF Covered
  <2>7. Waited(v1', v4', v5') /\ Sits(v5') /\ Planned(v2', v3')
    BY <2>1, <2>2, <2>4, TableRows DEF Waited, Sits
  <2>. QED  BY <2>5, <2>6, <2>7, RosterNext DEF StaffInv
<1>5. ASSUME NEW t \in DiningTables, NEW w \in Members \cup {NULL}, Staffs!CreateTable(t, w)
      PROVE StaffInv'
  <2>. DEFINE row == [status |-> "LISTED", waiter |-> w, seated |-> FALSE]
  <2>1. /\ v4 = "ACTIVE" /\ (w # NULL => v1[w].status = "ACTIVE") /\ UNCHANGED <<v1, v2, v3, v4>>
        /\ v5' = [v5 EXCEPT ![t] = row]
        /\ Staffs!SyncPermanent(t, w) \/ v6' = v6
    BY <1>5 DEF Staffs!CreateTable, Staffs!IsWaiter, Staffs!staffVars
  <2>2. row \in Staffs!Table /\ row # Staffs!NoRow /\ row.status = "LISTED" /\ row.waiter = w
    BY DEF Staffs!Table, Staffs!NoRow
  <2>3. /\ v6' \in [Staffs!Slots -> Members \cup {NULL}]
        /\ \A k \in Staffs!Slots : v6'[k] \in {NULL, v6[k]}
             \/ (v6'[k] = w /\ k[1] = t /\ k[2] \in v3)
    BY <2>1, Synced DEF StaffInv, Staffs!TypeOK
  <2>. HIDE DEF row
  <2>. QED  BY <2>1, <2>2, <2>3, TableGiven
<1>6. ASSUME NEW t \in DiningTables, NEW w \in Members \cup {NULL}, Staffs!UpdateTable(t, w)
      PROVE StaffInv'
  <2>. DEFINE row == [v5[t] EXCEPT !.waiter = w]
  <2>1. /\ v5[t].status = "LISTED" /\ (w # NULL => v1[w].status = "ACTIVE")
          /\ UNCHANGED <<v1, v2, v3, v4>>
        /\ v5' = [v5 EXCEPT ![t] = row]
        /\ Staffs!SyncPermanent(t, w)
    BY <1>6 DEF Staffs!UpdateTable, Staffs!IsWaiter, Staffs!staffVars, Staffs!Listed
  <2>2. row \in Staffs!Table /\ row # Staffs!NoRow /\ row.status = "LISTED" /\ row.waiter = w
    BY <2>1, TableRows DEF Staffs!Table, Staffs!NoRow
  <2>3. v4 = "ACTIVE"
    BY <2>1, TableRows DEF Waited
  <2>4. /\ v6' \in [Staffs!Slots -> Members \cup {NULL}]
        /\ \A k \in Staffs!Slots : v6'[k] \in {NULL, v6[k]}
             \/ (v6'[k] = w /\ k[1] = t /\ k[2] \in v3)
    BY <2>1, Synced
  <2>. HIDE DEF row
  <2>. QED  BY <2>1, <2>2, <2>3, <2>4, TableGiven
<1>. QED  BY <1>1, <1>2, <1>3, <1>4, <1>5, <1>6, ShiftSteps DEF Staffs!Floor

(* With no staff and no tables the roster is in order,                     *)
LEMMA StaffStarts ==
  ASSUME PeopleAssumption, Staffs!Init
  PROVE  StaffInv
<1>1. Staffs!TypeOK
  BY Unrostered DEF Staffs!Init, Staffs!TypeOK, Staffs!Member, Staffs!Table
<1>2. Staffs!RosterHolds
  BY Unrostered DEF Staffs!Init, Staffs!RosterHolds, Staffs!Listed, Staffs!NoRow
<1>. QED  BY <1>1, <1>2 DEF StaffInv

(* and no request changes that.                                            *)
LEMMA StaffGoesOn ==
  ASSUME PeopleAssumption, StaffInv, Staffs!Next
  PROVE  StaffInv'
  BY StaffSteps, FloorSteps DEF Staffs!Next
-----------------------------------------------------------------------------
(* The lines l gives a run, and their amounts.                             *)
LinesIn(l, r) == {s \in Payees : l[<<r, s>>] # Pays!NoRow}
GrossIn(l, r) == [s \in LinesIn(l, r) |-> Pays!Gross(l[<<r, s>>])]
TipsIn(l, r) == [s \in LinesIn(l, r) |-> l[<<r, s>>].tips]
NetIn(l, r) == [s \in LinesIn(l, r) |-> Pays!Net(l[<<r, s>>])]
SumIn(l, r) ==
  [gross |-> SumOf(GrossIn(l, r), LinesIn(l, r)), tips |-> SumOf(TipsIn(l, r), LinesIn(l, r)),
   net |-> SumOf(NetIn(l, r), LinesIn(l, r))]
Ledger == [Runs \X Payees -> Pays!Line]

(* The amounts of a line are natural numbers.                              *)
LEMMA LineAmounts ==
  ASSUME PeopleAssumption, NEW x \in Pays!Line, x # Pays!NoRow
  PROVE  /\ x.base \in Nat /\ x.over \in Nat /\ x.tips \in Nat /\ x.cut \in Nat
         /\ x \in [status : {"LINE"}, base : Wages, over : Extras, tips : Extras, cut : Cuts,
              paid : Nat \cup {NULL}]
         /\ Pays!Gross(x) \in Nat /\ Pays!Net(x) \in Nat
<1>1. x.base \in Nat /\ x.over \in Nat /\ x.tips \in Nat /\ x.cut \in Nat
  BY DEF Pays!Line, PeopleAssumption, Pays!PayrollAssumption
<1>. QED  BY <1>1 DEF Pays!Line, Pays!Gross, Pays!Net

(* A run has finitely many lines.                                          *)
LEMMA LinesFinite ==
  ASSUME PeopleAssumption, NEW l, NEW r
  PROVE  IsFiniteSet(LinesIn(l, r))
<1>1. IsFiniteSet(Payees)
  BY Finite DEF PeopleAssumption, Pays!PayrollAssumption
<1>2. LinesIn(l, r) \subseteq Payees
  BY DEF LinesIn
<1>. QED  BY <1>1, <1>2, FS_Subset

(* What the code adds up (MapThenSumSet) are those sums: gross pay,        *)
LEMMA GrossAdded ==
  ASSUME PeopleAssumption, NEW l \in Ledger, NEW r \in Runs
  PROVE  /\ Pays!MapThenSumSet(LAMBDA s : Pays!Gross(l[<<r, s>>]), LinesIn(l, r))
              = SumOf(GrossIn(l, r), LinesIn(l, r))
         /\ SumOf(GrossIn(l, r), LinesIn(l, r)) \in Nat
<1>. DEFINE S == LinesIn(l, r)
            f == GrossIn(l, r)
            G(g) == [s \in SUBSET S |-> IF s = {} THEN 0
              ELSE Pays!Gross(l[<<r, First(s)>>]) + g[s \ {First(s)}]]
            it == CHOOSE g : g = G(g)
            g == Partial(f, S)
<1>1. Pays!MapThenSumSet(LAMBDA s : Pays!Gross(l[<<r, s>>]), S) = it[S]
  BY DEF Pays!MapThenSumSet, Pays!MapThenFoldSet, First
<1>2. IsFiniteSet(S)
  BY LinesFinite
<1>3. f \in [S -> Int] /\ \A s \in S : f[s] >= 0
  BY LineAmounts DEF GrossIn, LinesIn, Ledger
<1>4. \A s \in SUBSET S : s # {} => f[First(s)] = Pays!Gross(l[<<r, First(s)>>])
  BY FirstIn DEF GrossIn
<1>5. IsSum(g, f, S)
  <2>. HIDE DEF S, f
  <2>. QED  BY <1>2, <1>3, SumExists
<1>6. g = G(g)
  <2>. HIDE DEF g, S, f
  <2>. QED  BY <1>4, <1>5 DEF IsSum, Adds
<1>7. it = G(it)
  BY <1>6
<1>8. Adds(it, f, S)
  <2>. HIDE DEF it, f, S
  <2>. QED  BY <1>4, <1>7 DEF Adds
<1>. HIDE DEF it, f, S
<1>9. it[S] = SumOf(f, S) /\ SumOf(f, S) \in Nat
  BY <1>2, <1>3, <1>8, Folded, SumIsNat
<1>. QED  BY <1>1, <1>9 DEF S, f

(* tips,                                                                   *)
LEMMA TipsAdded ==
  ASSUME PeopleAssumption, NEW l \in Ledger, NEW r \in Runs
  PROVE  /\ Pays!MapThenSumSet(LAMBDA s : l[<<r, s>>].tips, LinesIn(l, r))
              = SumOf(TipsIn(l, r), LinesIn(l, r))
         /\ SumOf(TipsIn(l, r), LinesIn(l, r)) \in Nat
<1>. DEFINE S == LinesIn(l, r)
            f == TipsIn(l, r)
            G(g) == [s \in SUBSET S |-> IF s = {} THEN 0
              ELSE l[<<r, First(s)>>].tips + g[s \ {First(s)}]]
            it == CHOOSE g : g = G(g)
            g == Partial(f, S)
<1>1. Pays!MapThenSumSet(LAMBDA s : l[<<r, s>>].tips, S) = it[S]
  BY DEF Pays!MapThenSumSet, Pays!MapThenFoldSet, First
<1>2. IsFiniteSet(S)
  BY LinesFinite
<1>3. f \in [S -> Int] /\ \A s \in S : f[s] >= 0
  BY LineAmounts DEF TipsIn, LinesIn, Ledger
<1>4. \A s \in SUBSET S : s # {} => f[First(s)] = l[<<r, First(s)>>].tips
  BY FirstIn DEF TipsIn
<1>5. IsSum(g, f, S)
  <2>. HIDE DEF S, f
  <2>. QED  BY <1>2, <1>3, SumExists
<1>6. g = G(g)
  <2>. HIDE DEF g, S, f
  <2>. QED  BY <1>4, <1>5 DEF IsSum, Adds
<1>7. it = G(it)
  BY <1>6
<1>8. Adds(it, f, S)
  <2>. HIDE DEF it, f, S
  <2>. QED  BY <1>4, <1>7 DEF Adds
<1>. HIDE DEF it, f, S
<1>9. it[S] = SumOf(f, S) /\ SumOf(f, S) \in Nat
  BY <1>2, <1>3, <1>8, Folded, SumIsNat
<1>. QED  BY <1>1, <1>9 DEF S, f

(* and net pay.                                                            *)
LEMMA NetAdded ==
  ASSUME PeopleAssumption, NEW l \in Ledger, NEW r \in Runs
  PROVE  /\ Pays!MapThenSumSet(LAMBDA s : Pays!Net(l[<<r, s>>]), LinesIn(l, r))
              = SumOf(NetIn(l, r), LinesIn(l, r))
         /\ SumOf(NetIn(l, r), LinesIn(l, r)) \in Nat
<1>. DEFINE S == LinesIn(l, r)
            f == NetIn(l, r)
            G(g) == [s \in SUBSET S |-> IF s = {} THEN 0
              ELSE Pays!Net(l[<<r, First(s)>>]) + g[s \ {First(s)}]]
            it == CHOOSE g : g = G(g)
            g == Partial(f, S)
<1>1. Pays!MapThenSumSet(LAMBDA s : Pays!Net(l[<<r, s>>]), S) = it[S]
  BY DEF Pays!MapThenSumSet, Pays!MapThenFoldSet, First
<1>2. IsFiniteSet(S)
  BY LinesFinite
<1>3. f \in [S -> Int] /\ \A s \in S : f[s] >= 0
  BY LineAmounts DEF NetIn, LinesIn, Ledger
<1>4. \A s \in SUBSET S : s # {} => f[First(s)] = Pays!Net(l[<<r, First(s)>>])
  BY FirstIn DEF NetIn
<1>5. IsSum(g, f, S)
  <2>. HIDE DEF S, f
  <2>. QED  BY <1>2, <1>3, SumExists
<1>6. g = G(g)
  <2>. HIDE DEF g, S, f
  <2>. QED  BY <1>4, <1>5 DEF IsSum, Adds
<1>7. it = G(it)
  BY <1>6
<1>8. Adds(it, f, S)
  <2>. HIDE DEF it, f, S
  <2>. QED  BY <1>4, <1>7 DEF Adds
<1>. HIDE DEF it, f, S
<1>9. it[S] = SumOf(f, S) /\ SumOf(f, S) \in Nat
  BY <1>2, <1>3, <1>8, Folded, SumIsNat
<1>. QED  BY <1>1, <1>9 DEF S, f

(* refreshRunTotals would write the sums of the lines there are.           *)
LEMMA SumIs ==
  ASSUME PeopleAssumption, NEW r \in Runs, v2 \in Ledger
  PROVE  Pays!Sum(r) = SumIn(v2, r) /\ SumIn(v2, r) \in Pays!Total
           /\ Pays!Lines(r) = LinesIn(v2, r)
<1>1. Pays!Lines(r) = LinesIn(v2, r)
  BY DEF Pays!Lines, LinesIn
<1>2. /\ Pays!MapThenSumSet(LAMBDA s : Pays!Gross(v2[<<r, s>>]), LinesIn(v2, r))
           = SumOf(GrossIn(v2, r), LinesIn(v2, r))
      /\ Pays!MapThenSumSet(LAMBDA s : v2[<<r, s>>].tips, LinesIn(v2, r))
           = SumOf(TipsIn(v2, r), LinesIn(v2, r))
      /\ Pays!MapThenSumSet(LAMBDA s : Pays!Net(v2[<<r, s>>]), LinesIn(v2, r))
           = SumOf(NetIn(v2, r), LinesIn(v2, r))
  BY GrossAdded, TipsAdded, NetAdded
<1>3. Pays!Sum(r) = SumIn(v2, r)
  BY <1>1, <1>2 DEF Pays!Sum, SumIn
<1>4. SumIn(v2, r) \in Pays!Total
  BY GrossAdded, TipsAdded, NetAdded DEF SumIn, Pays!Total
<1>. QED  BY <1>1, <1>3, <1>4

(* What a line is paid does not change the sum.                            *)
LEMMA SumKept ==
  ASSUME NEW l, NEW k, NEW r \in Runs,
         \A s \in Payees : (k[<<r, s>>] = Pays!NoRow <=> l[<<r, s>>] = Pays!NoRow),
         \A s \in Payees : l[<<r, s>>] # Pays!NoRow =>
           /\ k[<<r, s>>].base = l[<<r, s>>].base /\ k[<<r, s>>].over = l[<<r, s>>].over
           /\ k[<<r, s>>].tips = l[<<r, s>>].tips /\ k[<<r, s>>].cut = l[<<r, s>>].cut
  PROVE  LinesIn(k, r) = LinesIn(l, r) /\ SumIn(k, r) = SumIn(l, r)
<1>1. LinesIn(k, r) = LinesIn(l, r)
  BY DEF LinesIn
<1>2. GrossIn(k, r) = GrossIn(l, r) /\ TipsIn(k, r) = TipsIn(l, r) /\ NetIn(k, r) = NetIn(l, r)
  BY <1>1 DEF LinesIn, GrossIn, TipsIn, NetIn, Pays!Gross, Pays!Net
<1>. QED  BY <1>1, <1>2 DEF SumIn

(* What the rows of a run are while the request w is under way: what it    *)
(* would leave undone now may not have been done yet.                      *)
Leaving(w, r, what) == what \in Pays!LeftUndone(w) /\ w.run = r
PaidUp(l, r) ==
  /\ \E s \in Payees : l[<<r, s>>] # Pays!NoRow
  /\ \A s \in Payees : l[<<r, s>>] # Pays!NoRow => l[<<r, s>>].paid # NULL
PayRow(r, w) ==
  /\ v1[r] = Pays!NoRow => \A s \in Payees : v2[<<r, s>>] = Pays!NoRow
  /\ \A s \in Payees : v2[<<r, s>>] # Pays!NoRow =>
       v2[<<r, s>>].paid \in {NULL, Pays!Net(v2[<<r, s>>])}
  /\ v1[r] # Pays!NoRow =>
       /\ v1[r].total = SumIn(v2, r) \/ "totals" \in v1[r].undone \/ Leaving(w, r, "totals")
       /\ v1[r].status = "PAID" => PaidUp(v2, r)
       /\ PaidUp(v2, r) =>
            v1[r].status = "PAID" \/ "status" \in v1[r].undone \/ Leaving(w, r, "status")
PayRequest(w) ==
  w.at # "idle" =>
    /\ v1[w.run] # Pays!NoRow /\ v1[w.run].status # "PAID"
    /\ w.at = "total" => w.total = SumIn(v2, w.run)
    /\ w.at = "edit" => v2[<<w.run, w.staff>>] # Pays!NoRow /\ v2[<<w.run, w.staff>>].paid = NULL
    /\ w.at = "pay" => w.lines # {} /\ \A s \in w.lines : v2[<<w.run, s>>] # Pays!NoRow
    /\ w.at \in {"count", "settle"} => \E s \in Payees : v2[<<w.run, s>>] # Pays!NoRow
    /\ w.at = "settle" => (w.left = 0 <=> PaidUp(v2, w.run))
(* A run is as its lines say, but for the run of a request half done.      *)
PayInv ==
  /\ Pays!TypeOK /\ \A h \in Managers : PayRequest(v3[h])
  /\ \A r \in Runs : PayRow(r, Pays!Idle) \/ \E h \in Managers : PayRow(r, v3[h])

(* With no runs pay adds up.                                               *)
LEMMA PayStarts ==
  ASSUME PeopleAssumption, Pays!Init
  PROVE  PayInv
<1>1. Pays!TypeOK
  BY DEF Pays!Init, Pays!TypeOK, Pays!Run, Pays!Line, Pays!Request
<1>2. \A h \in Managers : PayRequest(v3[h])
  BY DEF Pays!Init, Pays!Idle, PayRequest
<1>3. \A r \in Runs : PayRow(r, Pays!Idle)
  BY DEF Pays!Init, PayRow
<1>. QED  BY <1>1, <1>2, <1>3 DEF PayInv

(* The invariant says what it should.                                      *)
LEMMA PayHoldsThen ==
  ASSUME PeopleAssumption, PayInv
  PROVE  Pays!PayAddsUp
<1>1. SUFFICES ASSUME NEW r \in Runs, v1[r] # Pays!NoRow, \A h \in Managers : v3[h].at = "idle"
               PROVE  /\ \A s \in Pays!Lines(r) : v2[<<r, s>>].paid \in {NULL, Pays!Net(v2[<<r,
                           s>>])}
                      /\ v1[r].status = "PAID" => Pays!Lines(r) # {} /\ Pays!Unpaid(r) = {}
                      /\ "totals" \notin v1[r].undone => v1[r].total = Pays!Sum(r)
                      /\ "status" \notin v1[r].undone /\ Pays!Lines(r) # {}
                           /\ Pays!Unpaid(r) = {} => v1[r].status = "PAID"
  BY DEF Pays!PayAddsUp, Pays!At
<1>2. PICK w : w.at = "idle" /\ PayRow(r, w)
  <2>1. Pays!Idle.at = "idle"
    BY DEF Pays!Idle
  <2>. QED  BY <2>1, <1>1 DEF PayInv
<1>3. \A what : ~Leaving(w, r, what)
  BY <1>2 DEF Leaving, Pays!LeftUndone
<1>4. /\ v1[r].total = SumIn(v2, r) \/ "totals" \in v1[r].undone
      /\ v1[r].status = "PAID" => PaidUp(v2, r)
      /\ PaidUp(v2, r) => v1[r].status = "PAID" \/ "status" \in v1[r].undone
      /\ \A s \in Payees : v2[<<r, s>>] # Pays!NoRow =>
           v2[<<r, s>>].paid \in {NULL, Pays!Net(v2[<<r, s>>])}
  BY <1>1, <1>2, <1>3 DEF PayRow
<1>5. v2 \in Ledger
  BY DEF PayInv, Pays!TypeOK, Ledger
<1>6. PaidUp(v2, r) <=> Pays!Lines(r) # {} /\ Pays!Unpaid(r) = {}
  BY DEF PaidUp, Pays!Lines, Pays!Unpaid
<1>7. Pays!Sum(r) = SumIn(v2, r)
  BY <1>5, SumIs
<1>. QED  BY <1>4, <1>6, <1>7 DEF Pays!Lines

(* What it says while one manager has a request under way.                 *)
LEMMA PayParts ==
  ASSUME PeopleAssumption, OneAtATime, PayInv, NEW h \in Managers
  PROVE  /\ v1 \in [Runs -> Pays!Run] /\ v2 \in Ledger /\ v3 \in [Managers -> Pays!Request]
         /\ PayRequest(v3[h]) /\ \A r \in Runs : PayRow(r, v3[h])
<1>1. ASSUME NEW r \in Runs, PayRow(r, Pays!Idle)
      PROVE  PayRow(r, v3[h])
  <2>1. \A what : ~Leaving(Pays!Idle, r, what)
    BY DEF Leaving, Pays!LeftUndone, Pays!Idle
  <2>. QED  BY <1>1, <2>1 DEF PayRow
<1>. QED  BY <1>1 DEF PayInv, Pays!TypeOK, Ledger, OneAtATime

(* A step of a request disturbs the rows of one run.                       *)
LEMMA PayStep ==
  ASSUME PeopleAssumption, OneAtATime, PayInv, NEW h \in Managers, NEW r \in Runs, NEW q,
         q = v3[h],
         NEW w \in Pays!Request, v3' = [v3 EXCEPT ![h] = w],
         q.at = "idle" \/ q.run = r, w.at = "idle" \/ w.run = r,
         v1' \in [Runs -> Pays!Run], v2' \in Ledger,
         \A t \in Runs \ {r} : v1'[t] = v1[t] /\ \A s \in Payees : v2'[<<t, s>>] = v2[<<t, s>>],
         PayRow(r, w)', PayRequest(w)'
  PROVE  PayInv'
<1>1. \A g \in Managers : g = h /\ v3'[g] = w
  BY PayParts DEF OneAtATime
<1>2. Pays!TypeOK'
  BY PayParts DEF Pays!TypeOK, Ledger
<1>3. ASSUME NEW t \in Runs, t # r
      PROVE  PayRow(t, w)'
  <2>1. PayRow(t, q)
    BY PayParts
  <2>2. SumIn(v2', t) = SumIn(v2, t)
    BY <1>3, SumKept
  <2>3. PaidUp(v2', t) <=> PaidUp(v2, t)
    BY <1>3 DEF PaidUp
  <2>4. \A what : ~Leaving(q, t, what) /\ ~Leaving(w, t, what)
    BY <1>3 DEF Leaving, Pays!LeftUndone
  <2>. QED  BY <1>3, <2>1, <2>2, <2>3, <2>4 DEF PayRow
<1>4. \A t \in Runs : PayRow(t, v3[h])'
  BY <1>1, <1>3
<1>. QED  BY <1>1, <1>2, <1>4 DEF PayInv

(* or of none, when the step only reads.                                   *)
LEMMA PayAsks ==
  ASSUME PeopleAssumption, OneAtATime, PayInv, NEW h \in Managers, NEW r \in Runs, NEW q,
         q = v3[h],
         NEW w \in Pays!Request, v3' = [v3 EXCEPT ![h] = w],
         q.at = "idle" \/ q.run = r, w.at = "idle" \/ w.run = r,
         UNCHANGED <<v1, v2>>, PayRow(r, w), PayRequest(w)
  PROVE  PayInv'
<1>1. PayRow(r, w)' /\ PayRequest(w)'
  BY DEF PayRow, PayRequest
<1>. QED  BY <1>1, PayParts, PayStep

(* The request's kinds.                                                    *)
LEMMA RequestIs ==
  ASSUME NEW q \in Pays!Request
  PROVE  /\ q.at = "line" => q \in [at : {"line"}, run : Runs, left : SUBSET Payees]
         /\ q.at = "edit" => q \in [at : {"edit"}, run : Runs, staff : Payees,
              change : Pays!Change,
                                    was : {"DRAFT", "APPROVED"}]
         /\ q.at = "demote" => q \in [at : {"demote"}, run : Runs]
         /\ q.at = "sum" => q \in [at : {"sum"}, run : Runs, then : Pays!AfterRefresh]
         /\ q.at = "total" => q \in [at : {"total"}, run : Runs, then : Pays!AfterRefresh,
              total : Pays!Total]
         /\ q.at = "approve" => q \in [at : {"approve"}, run : Runs]
         /\ q.at = "pay" => q \in [at : {"pay"}, run : Runs, lines : SUBSET Payees,
              was : {"DRAFT", "APPROVED"}]
         /\ q.at = "count" => q \in [at : {"count"}, run : Runs, was : {"DRAFT", "APPROVED"}]
         /\ q.at = "settle" => q \in [at : {"settle"}, run : Runs, was : {"DRAFT", "APPROVED"},
              left : Nat]
  BY DEF Pays!Request, Pays!Idle

(* An open run is one that is not paid.                                    *)
LEMMA OpenRuns ==
  ASSUME PeopleAssumption, OneAtATime, PayInv, NEW h \in Managers, NEW r \in Runs
  PROVE  /\ v1[r] # Pays!NoRow => v1[r] \in [status : {"DRAFT", "APPROVED", "PAID"},
              total : Pays!Total, undone : SUBSET {"totals", "status"}]
         /\ Pays!Open(r) => v1[r].status \in {"DRAFT", "APPROVED"} /\ v1[r] # Pays!NoRow
         /\ Pays!Lines(r) = LinesIn(v2, r)
         /\ \A s \in Payees : s \in Pays!Unpaid(r) <=> v2[<<r, s>>] # Pays!NoRow
              /\ v2[<<r, s>>].paid = NULL
  BY PayParts DEF Pays!Run, Pays!Open, Pays!Lines, LinesIn, Pays!Unpaid

(* The number of unpaid lines is zero when there are none.                 *)
LEMMA UnpaidCounted ==
  ASSUME PeopleAssumption, NEW r \in Runs
  PROVE  Pays!Cardinality(Pays!Unpaid(r)) \in Nat
           /\ (Pays!Cardinality(Pays!Unpaid(r)) = 0 <=> Pays!Unpaid(r) = {})
<1>1. IsFiniteSet(Payees) /\ Pays!Unpaid(r) \subseteq Payees
  BY Finite DEF PeopleAssumption, Pays!PayrollAssumption, Pays!Unpaid, Pays!Lines
<1>2. IsFiniteSet(Pays!Unpaid(r))
  BY <1>1, FS_Subset
<1>. QED  BY <1>2, FS_CardinalityType, FS_EmptySet, Counts

(* The steps that only read: what was asked, added up or counted.          *)
LEMMA PayReads ==
  ASSUME PeopleAssumption, OneAtATime, PayInv, NEW h \in Managers
  PROVE  /\ Pays!LinesGenerated(h) \/ Pays!SumLines(h) \/ Pays!CountUnpaid(h) => PayInv'
         /\ \A r \in Runs :
              /\ \A s \in Payees, change \in Pays!Change : Pays!UpdateLine(h, r, s, change) =>
                   PayInv'
              /\ Pays!ApproveRun(h, r) => PayInv'
              /\ \A chosen \in SUBSET Payees : Pays!MarkPaid(h, r, chosen) => PayInv'
<1>. PICK q \in Pays!Request : q = v3[h]
  BY PayParts
<1>0. PayRequest(q) /\ \A r \in Runs : PayRow(r, q)
  BY PayParts
<1>1. ASSUME Pays!LinesGenerated(h) PROVE PayInv'
  <2>. DEFINE w == [at |-> "sum", run |-> q.run, then |-> "idle"]
  <2>1. q.at = "line" /\ v3' = [v3 EXCEPT ![h] = w] /\ UNCHANGED <<v1, v2>>
    BY <1>1 DEF Pays!LinesGenerated, Pays!At, Pays!Goto
  <2>2. q.run \in Runs /\ w \in Pays!Request
    BY <2>1, RequestIs DEF Pays!Request, Pays!AfterRefresh
  <2>3. PayRow(q.run, w) /\ PayRequest(w)
    BY <2>1, <2>2, <1>0 DEF PayRow, PayRequest, Leaving, Pays!LeftUndone
  <2>. QED  BY <2>1, <2>2, <2>3, PayAsks
<1>2. ASSUME Pays!SumLines(h) PROVE PayInv'
  <2>1. PICK total : total = Pays!Sum(q.run)
    OBVIOUS
  <2>. DEFINE w == [at |-> "total", run |-> q.run, then |-> q.then, total |-> total]
  <2>2. q.at = "sum" /\ v3' = [v3 EXCEPT ![h] = w] /\ UNCHANGED <<v1, v2>>
    BY <1>2, <2>1 DEF Pays!SumLines, Pays!At, Pays!Goto
  <2>3. q.run \in Runs /\ q.then \in Pays!AfterRefresh
    BY <2>2, RequestIs
  <2>4. total = SumIn(v2, q.run) /\ total \in Pays!Total
    BY <2>1, <2>3, PayParts, SumIs
  <2>5. w \in Pays!Request
    BY <2>3, <2>4 DEF Pays!Request
  <2>6. PayRow(q.run, w) /\ PayRequest(w)
    BY <2>2, <2>3, <2>4, <1>0 DEF PayRow, PayRequest, Leaving, Pays!LeftUndone
  <2>. QED  BY <2>2, <2>3, <2>5, <2>6, PayAsks
<1>3. ASSUME Pays!CountUnpaid(h) PROVE PayInv'
  <2>1. PICK left : left = Pays!Cardinality(Pays!Unpaid(q.run))
    OBVIOUS
  <2>. DEFINE w == [at |-> "settle", run |-> q.run, was |-> q.was, left |-> left]
  <2>2. q.at = "count" /\ v3' = [v3 EXCEPT ![h] = w] /\ UNCHANGED <<v1, v2>>
    BY <1>3, <2>1 DEF Pays!CountUnpaid, Pays!At, Pays!Goto
  <2>3. q.run \in Runs /\ q.was \in {"DRAFT", "APPROVED"}
    BY <2>2, RequestIs
  <2>4. left \in Nat /\ (left = 0 <=> Pays!Unpaid(q.run) = {})
    BY <2>1, <2>3, UnpaidCounted
  <2>5. \E s \in Payees : v2[<<q.run, s>>] # Pays!NoRow
    BY <2>2, <1>0 DEF PayRequest
  <2>6. left = 0 <=> PaidUp(v2, q.run)
    BY <2>4, <2>5 DEF PaidUp, Pays!Unpaid, Pays!Lines
  <2>7. w \in Pays!Request
    BY <2>3, <2>4 DEF Pays!Request
  <2>8. PayRow(q.run, w)
    BY <2>2, <2>3, <1>0 DEF PayRow, Leaving, Pays!LeftUndone
  <2>9. PayRequest(w)
    BY <2>2, <2>3, <2>5, <2>6, <1>0 DEF PayRequest
  <2>. QED  BY <2>2, <2>3, <2>7, <2>8, <2>9, PayAsks
<1>4. ASSUME NEW r \in Runs, NEW s \in Payees, NEW change \in Pays!Change,
             Pays!UpdateLine(h, r, s, change)
      PROVE  PayInv'
  <2>1. PICK was : was = v1[r].status
    OBVIOUS
  <2>. DEFINE w == [at |-> "edit", run |-> r, staff |-> s, change |-> change, was |-> was]
  <2>2. /\ q.at = "idle" /\ v3' = [v3 EXCEPT ![h] = w] /\ UNCHANGED <<v1, v2>>
        /\ Pays!Open(r) /\ s \in Pays!Unpaid(r)
    BY <1>4, <2>1 DEF Pays!UpdateLine, Pays!At, Pays!Goto
  <2>3. w \in Pays!Request
    BY <2>1, <2>2, OpenRuns DEF Pays!Request
  <2>4. PayRow(r, w)
    BY <2>2, <1>0 DEF PayRow, Leaving, Pays!LeftUndone
  <2>5. PayRequest(w)
    BY <2>2, OpenRuns DEF PayRequest, Pays!Open
  <2>. QED  BY <2>2, <2>3, <2>4, <2>5, PayAsks
<1>5. ASSUME NEW r \in Runs, Pays!ApproveRun(h, r) PROVE PayInv'
  <2>. DEFINE w == [at |-> "sum", run |-> r, then |-> "approve"]
  <2>1. q.at = "idle" /\ v3' = [v3 EXCEPT ![h] = w] /\ UNCHANGED <<v1, v2>> /\ Pays!Open(r)
    BY <1>5 DEF Pays!ApproveRun, Pays!At, Pays!Goto
  <2>2. w \in Pays!Request
    BY DEF Pays!Request, Pays!AfterRefresh
  <2>3. PayRow(r, w) /\ PayRequest(w)
    BY <2>1, <1>0 DEF PayRow, PayRequest, Leaving, Pays!LeftUndone, Pays!Open
  <2>. QED  BY <2>1, <2>2, <2>3, PayAsks
<1>6. ASSUME NEW r \in Runs, NEW chosen \in SUBSET Payees, Pays!MarkPaid(h, r, chosen)
      PROVE PayInv'
  <2>1. PICK was, lines : was = v1[r].status /\ lines = chosen \cap Pays!Unpaid(r)
    OBVIOUS
  <2>. DEFINE w == [at |-> "pay", run |-> r, lines |-> lines, was |-> was]
  <2>2. q.at = "idle" /\ v3' = [v3 EXCEPT ![h] = w] /\ UNCHANGED <<v1, v2>> /\ Pays!Open(r)
          /\ lines # {}
    BY <1>6, <2>1 DEF Pays!MarkPaid, Pays!At, Pays!Goto
  <2>3. w \in Pays!Request
    BY <2>1, <2>2, OpenRuns DEF Pays!Request
  <2>4. \A s \in lines : v2[<<r, s>>] # Pays!NoRow
    BY <2>1, OpenRuns
  <2>5. PayRow(r, w) /\ PayRequest(w)
    BY <2>2, <2>4, <1>0 DEF PayRow, PayRequest, Leaving, Pays!LeftUndone, Pays!Open
  <2>. QED  BY <2>2, <2>3, <2>5, PayAsks
<1>. QED  BY <1>1, <1>2, <1>3, <1>4, <1>5, <1>6

(* What a row w's request writes of a run has to say.                      *)
RowSays(row, w, r) ==
  /\ row.total = SumIn(v2, r) \/ "totals" \in row.undone \/ Leaving(w, r, "totals")
  /\ row.status = "PAID" => PaidUp(v2, r)
  /\ PaidUp(v2, r) => row.status = "PAID" \/ "status" \in row.undone

(* The steps that write the run.                                           *)
LEMMA RunChanges ==
  ASSUME PeopleAssumption, OneAtATime, PayInv, NEW h \in Managers, NEW r \in Runs, NEW q,
         q = v3[h], q.at = "idle" \/ q.run = r,
         NEW w \in Pays!Request, v3' = [v3 EXCEPT ![h] = w],
         NEW row \in Pays!Run, row # Pays!NoRow, v1' = [v1 EXCEPT ![r] = row], UNCHANGED v2,
         w.at = "idle" \/ (w.at \in {"line", "sum", "approve"} /\ w.run = r
           /\ row.status # "PAID"),
         RowSays(row, w, r)
  PROVE  PayInv'
<1>1. PayRow(r, q) /\ v1 \in [Runs -> Pays!Run] /\ v2 \in Ledger
  BY PayParts
<1>2. v1'[r] = row
  BY <1>1
<1>3. PayRow(r, w)'
  BY <1>1, <1>2 DEF PayRow, RowSays
<1>4. PayRequest(w)'
  BY <1>2 DEF PayRequest
<1>5. v1' \in [Runs -> Pays!Run]
  BY <1>1
<1>. QED  BY <1>1, <1>3, <1>4, <1>5, PayStep

(* Each of them.                                                           *)
LEMMA PayRuns ==
  ASSUME PeopleAssumption, OneAtATime, PayInv, NEW h \in Managers
  PROVE  /\ \A r \in Runs, members \in SUBSET Payees : Pays!CreateRun(h, r, members) => PayInv'
         /\ Pays!RefreshRunTotals(h) \/ Pays!Demote(h) \/ Pays!Approve(h) \/ Pays!SettleRun(h) =>
              PayInv'
<1>. PICK q \in Pays!Request : q = v3[h]
  BY PayParts
<1>0. PayRequest(q) /\ \A r \in Runs : PayRow(r, q)
  BY PayParts
<1>1. ASSUME NEW r \in Runs, NEW members \in SUBSET Payees, Pays!CreateRun(h, r, members)
      PROVE  PayInv'
  <2>. DEFINE w == [at |-> "line", run |-> r, left |-> members]
              row == [status |-> "DRAFT", total |-> [gross |-> 0, tips |-> 0, net |-> 0],
                      undone |-> {}]
  <2>1. /\ q.at = "idle" /\ v1[r] = Pays!NoRow /\ v3' = [v3 EXCEPT ![h] = w]
        /\ v1' = [v1 EXCEPT ![r] = row] /\ UNCHANGED v2
    BY <1>1 DEF Pays!CreateRun, Pays!At, Pays!Goto
  <2>2. w \in Pays!Request
    BY DEF Pays!Request
  <2>3. row \in Pays!Run /\ row # Pays!NoRow
    BY DEF Pays!Run, Pays!Total, Pays!NoRow
  <2>4. ~PaidUp(v2, r)
    BY <2>1, <1>0 DEF PayRow, PaidUp
  <2>5. row.status = "DRAFT" /\ w.at = "line" /\ w.run = r /\ Leaving(w, r, "totals")
    BY DEF Leaving, Pays!LeftUndone
  <2>. HIDE DEF row, w
  <2>6. RowSays(row, w, r)
    BY <2>4, <2>5 DEF RowSays
  <2>. QED  BY <2>1, <2>2, <2>3, <2>5, <2>6, RunChanges
<1>2. ASSUME Pays!RefreshRunTotals(h) \/ Pays!Demote(h) \/ Pays!Approve(h) \/ Pays!SettleRun(h)
      PROVE  PayInv'
  <2>1. PICK r : r = q.run
    OBVIOUS
  <2>2. q.at \in {"total", "demote", "approve", "settle"} /\ r \in Runs
    BY <1>2, <2>1, RequestIs DEF Pays!RefreshRunTotals, Pays!Demote, Pays!Approve, Pays!SettleRun,
       Pays!At
  <2>3. PICK old \in Pays!Run : old = v1[r]
    BY <2>2, PayParts
  <2>4. /\ old \in [status : {"DRAFT", "APPROVED", "PAID"}, total : Pays!Total,
                    undone : SUBSET {"totals", "status"}]
        /\ old.status # "PAID"
        /\ q.at \in {"approve", "settle"} => old.total = SumIn(v2, r) \/ "totals" \in old.undone
        /\ q.at # "settle" /\ PaidUp(v2, r) => "status" \in old.undone
    BY <2>1, <2>2, <2>3, <1>0, OpenRuns DEF PayRequest, PayRow, Leaving, Pays!LeftUndone
  <2>5. Pays!Idle \in Pays!Request /\ Pays!Idle.at = "idle"
    BY DEF Pays!Request, Pays!Idle
  <2>6. PICK idle \in Pays!Request : idle = Pays!Idle /\ idle.at = "idle"
    BY <2>5
  <2>7. CASE Pays!RefreshRunTotals(h)
    <3>1. PICK w : w = IF q.then = "idle" THEN Pays!Idle ELSE [at |-> "approve", run |-> r]
      OBVIOUS
    <3>. DEFINE row == [old EXCEPT !.total = q.total, !.undone = @ \ {"totals"}]
    <3>2. q.at = "total" /\ v1' = [v1 EXCEPT ![r] = row] /\ v3' = [v3 EXCEPT ![h] = w]
         /\ UNCHANGED v2
      BY <2>7, <2>1, <2>3, <3>1 DEF Pays!RefreshRunTotals, Pays!At, Pays!Goto
    <3>3. w \in Pays!Request /\ (w.at = "idle" \/ (w.at = "approve" /\ w.run = r))
      <4>1. [at |-> "approve", run |-> r] \in Pays!Request
        BY <2>2 DEF Pays!Request
      <4>. QED  BY <4>1, <2>5, <3>1
    <3>4. q.total \in Pays!Total /\ q.total = SumIn(v2, r)
      BY <2>1, <3>2, <1>0, RequestIs DEF PayRequest
    <3>5. /\ row \in Pays!Run /\ row # Pays!NoRow /\ row.status = old.status
          /\ row.total = q.total /\ row.undone = old.undone \ {"totals"}
      BY <2>4, <3>4 DEF Pays!Run, Pays!NoRow
    <3>. HIDE DEF row
    <3>6. RowSays(row, w, r)
      BY <2>4, <3>2, <3>4, <3>5 DEF RowSays
    <3>. QED  BY <2>2, <2>4, <3>2, <3>3, <3>5, <3>6, RunChanges, <2>1
  <2>8. CASE Pays!Demote(h)
    <3>. DEFINE w == [at |-> "sum", run |-> r, then |-> "idle"]
                row == [old EXCEPT !.status = "DRAFT"]
    <3>1. q.at = "demote" /\ v1' = [v1 EXCEPT ![r] = row] /\ v3' = [v3 EXCEPT ![h] = w]
         /\ UNCHANGED v2
      BY <2>8, <2>1, <2>3 DEF Pays!Demote, Pays!At, Pays!Goto
    <3>2. w \in Pays!Request /\ w.at = "sum" /\ w.run = r /\ Leaving(w, r, "totals")
      BY <2>2 DEF Pays!Request, Pays!AfterRefresh, Leaving, Pays!LeftUndone
    <3>3. row \in Pays!Run /\ row # Pays!NoRow /\ row.status = "DRAFT" /\ row.undone = old.undone
      BY <2>4 DEF Pays!Run, Pays!NoRow
    <3>. HIDE DEF w, row
    <3>4. RowSays(row, w, r)
      BY <2>4, <3>1, <3>2, <3>3 DEF RowSays
    <3>. QED  BY <2>1, <2>2, <3>1, <3>2, <3>3, <3>4, RunChanges
  <2>9. CASE Pays!Approve(h)
    <3>. DEFINE row == [old EXCEPT !.status = "APPROVED"]
    <3>1. q.at = "approve" /\ v1' = [v1 EXCEPT ![r] = row] /\ v3' = [v3 EXCEPT ![h] = idle]
            /\ UNCHANGED v2
      BY <2>9, <2>1, <2>3, <2>6 DEF Pays!Approve, Pays!At, Pays!Goto
    <3>2. /\ row \in Pays!Run /\ row # Pays!NoRow /\ row.status = "APPROVED"
          /\ row.total = old.total /\ row.undone = old.undone
      BY <2>4 DEF Pays!Run, Pays!NoRow
    <3>. HIDE DEF row
    <3>3. RowSays(row, idle, r)
      BY <2>4, <3>1, <3>2 DEF RowSays
    <3>. QED  BY <2>1, <2>2, <2>6, <3>1, <3>2, <3>3, RunChanges
  <2>10. CASE Pays!SettleRun(h)
    <3>1. PICK to : to = IF q.left = 0 THEN "PAID" ELSE IF q.was = "DRAFT" THEN "APPROVED"
                 ELSE old.status
      OBVIOUS
    <3>. DEFINE row == [old EXCEPT !.status = to, !.undone = @ \ {"status"}]
    <3>2. q.at = "settle" /\ v1' = [v1 EXCEPT ![r] = row] /\ v3' = [v3 EXCEPT ![h] = idle]
         /\ UNCHANGED v2
      BY <2>10, <2>1, <2>3, <2>6, <3>1 DEF Pays!SettleRun, Pays!At, Pays!Goto
    <3>3. q.left = 0 <=> PaidUp(v2, r)
      BY <2>1, <3>2, <1>0 DEF PayRequest
    <3>4. to \in {"DRAFT", "APPROVED", "PAID"} /\ (to = "PAID" <=> q.left = 0)
      BY <2>4, <3>1
    <3>5. /\ row \in Pays!Run /\ row # Pays!NoRow /\ row.status = to
          /\ row.total = old.total /\ row.undone = old.undone \ {"status"}
      BY <2>4, <3>4 DEF Pays!Run, Pays!NoRow
    <3>. HIDE DEF row
    <3>6. RowSays(row, idle, r)
      BY <2>4, <3>2, <3>3, <3>4, <3>5 DEF RowSays
    <3>. QED  BY <2>1, <2>2, <2>6, <3>2, <3>5, <3>6, RunChanges
  <2>. QED  BY <1>2, <2>7, <2>8, <2>9, <2>10
<1>. QED  BY <1>1, <1>2

(* A request that stops leaves undone what it had not done.                *)
LEMMA PayStops ==
  ASSUME PeopleAssumption, OneAtATime, PayInv, NEW h \in Managers, Pays!Stop(h)
  PROVE  PayInv'
<1>. PICK q \in Pays!Request : q = v3[h]
  BY PayParts
<1>0. Pays!Idle \in Pays!Request /\ Pays!Idle.at = "idle"
  BY DEF Pays!Request, Pays!Idle
<1>. PICK idle \in Pays!Request : idle = Pays!Idle /\ idle.at = "idle"
  BY <1>0
<1>. PICK r : r = q.run
  OBVIOUS
<1>1. q.at # "idle" /\ r \in Runs
  BY RequestIs DEF Pays!Stop, Pays!At, Pays!Request, Pays!Idle
<1>2. PayRequest(q) /\ PayRow(r, q)
  BY <1>1, PayParts
<1>3. PICK old \in Pays!Run : old = v1[r]
  BY <1>1, PayParts
<1>4. old \in [status : {"DRAFT", "APPROVED", "PAID"}, total : Pays!Total,
               undone : SUBSET {"totals", "status"}]
  BY <1>1, <1>2, <1>3, OpenRuns DEF PayRequest
<1>. DEFINE row == [old EXCEPT !.undone = @ \cup Pays!LeftUndone(q)]
<1>5. v1' = [v1 EXCEPT ![r] = row] /\ v3' = [v3 EXCEPT ![h] = idle] /\ UNCHANGED v2
  BY <1>3 DEF Pays!Stop, Pays!Goto
<1>6. Pays!LeftUndone(q) \in SUBSET {"totals", "status"}
  BY DEF Pays!LeftUndone
<1>7. /\ row \in Pays!Run /\ row # Pays!NoRow /\ row.status = old.status
      /\ row.total = old.total /\ row.undone = old.undone \cup Pays!LeftUndone(q)
  BY <1>4, <1>6 DEF Pays!Run, Pays!NoRow
<1>. HIDE DEF row
<1>8. RowSays(row, idle, r)
  BY <1>1, <1>2, <1>3, <1>4, <1>7 DEF RowSays, PayRow, PayRequest, Leaving, Pays!NoRow
<1>. QED  BY <1>1, <1>5, <1>7, <1>8, RunChanges

(* The steps that write lines.                                             *)
LEMMA PayLinesChange ==
  ASSUME PeopleAssumption, OneAtATime, PayInv, NEW h \in Managers
  PROVE  /\ \A s \in Payees, base \in Wages : Pays!GenerateLine(h, s, base) => PayInv'
         /\ Pays!WriteLine(h) \/ Pays!PayLines(h) => PayInv'
<1>. PICK q \in Pays!Request : q = v3[h]
  BY PayParts
<1>0. PayRequest(q) /\ (\A r \in Runs : PayRow(r, q)) /\ v1 \in [Runs -> Pays!Run]
        /\ v2 \in Ledger
  BY PayParts
<1>. PICK r : r = q.run
  OBVIOUS
<1>1. ASSUME NEW s \in Payees, NEW base \in Wages, Pays!GenerateLine(h, s, base)
      PROVE  PayInv'
  <2>1. PICK w : w = [q EXCEPT !.left = @ \ {s}]
    OBVIOUS
  <2>. DEFINE row == [status |-> "LINE", base |-> base, over |-> 0, tips |-> 0, cut |-> 0,
                paid |-> NULL]
  <2>2. q.at = "line" /\ v2' = [v2 EXCEPT ![<<r, s>>] = row] /\ v3' = [v3 EXCEPT ![h] = w]
       /\ UNCHANGED v1
    BY <1>1, <2>1 DEF Pays!GenerateLine, Pays!At, Pays!Goto
  <2>3. r \in Runs /\ w.at = "line" /\ w.run = r /\ w \in Pays!Request
    BY <2>1, <2>2, RequestIs DEF Pays!Request
  <2>4. row \in Pays!Line /\ row # Pays!NoRow /\ row.paid = NULL
    BY DEF Pays!Line, Pays!NoRow, PeopleAssumption, Pays!PayrollAssumption
  <2>. HIDE DEF row
  <2>5. v2' \in Ledger /\ v2'[<<r, s>>] = row /\ \A t \in Runs, m \in Payees : t # r \/ m # s =>
          v2'[<<t, m>>] = v2[<<t, m>>]
    BY <1>0, <2>2, <2>3, <2>4 DEF Ledger
  <2>6. v1[r] # Pays!NoRow /\ v1[r].status # "PAID"
    BY <1>0, <2>2 DEF PayRequest
  <2>7. ~PaidUp(v2', r)
    BY <2>4, <2>5 DEF PaidUp
  <2>8. PayRow(r, w)'
    <3>1. \A m \in Payees : v2'[<<r, m>>] # Pays!NoRow =>
            v2'[<<r, m>>].paid \in {NULL, Pays!Net(v2'[<<r, m>>])}
      <4>1. ASSUME NEW m \in Payees, m # s
            PROVE  v2'[<<r, m>>] # Pays!NoRow => v2'[<<r, m>>].paid \in {NULL, Pays!Net(v2'[<<r,
                     m>>])}
        BY <4>1, <1>0, <2>3, <2>5 DEF PayRow
      <4>. QED  BY <4>1, <2>4, <2>5
    <3>. QED  BY <3>1, <2>2, <2>3, <2>6, <2>7 DEF PayRow, Leaving, Pays!LeftUndone
  <2>9. PayRequest(w)'
    BY <2>2, <2>3, <2>6 DEF PayRequest
  <2>10. \A t \in Runs \ {r} : v1'[t] = v1[t] /\ \A m \in Payees : v2'[<<t, m>>] = v2[<<t, m>>]
    BY <2>2, <2>5
  <2>. QED  BY <1>0, <2>2, <2>3, <2>5, <2>8, <2>9, <2>10, PayStep
<1>2. ASSUME Pays!WriteLine(h) PROVE PayInv'
  <2>1. PICK w, s : w = Pays!AfterEdit(r, q.was) /\ s = q.staff
    OBVIOUS
  <2>2. PICK old : old = v2[<<r, s>>]
    OBVIOUS
  <2>. DEFINE row == [old EXCEPT !.over = q.change.over, !.tips = q.change.tips,
                !.cut = q.change.cut]
  <2>3. q.at = "edit" /\ v2' = [v2 EXCEPT ![<<r, s>>] = row] /\ v3' = [v3 EXCEPT ![h] = w]
       /\ UNCHANGED v1
    BY <1>2, <2>1, <2>2 DEF Pays!WriteLine, Pays!At, Pays!Goto
  <2>4. r \in Runs /\ s \in Payees /\ q.change \in Pays!Change
    BY <2>1, <2>3, RequestIs
  <2>5. /\ w \in Pays!Request /\ w.at \in {"demote", "sum"} /\ w.run = r
        /\ Leaving(w, r, "totals")
    BY <2>1, <2>4 DEF Pays!Request, Pays!AfterEdit, Pays!AfterRefresh, Leaving, Pays!LeftUndone
  <2>6. old \in Pays!Line /\ old # Pays!NoRow /\ old.paid = NULL
    BY <1>0, <2>1, <2>2, <2>3, <2>4 DEF PayRequest, Ledger
  <2>7. row \in Pays!Line /\ row # Pays!NoRow /\ row.paid = NULL
    <3>1. old \in [status : {"LINE"}, base : Wages, over : Extras, tips : Extras, cut : Cuts,
            paid : Nat \cup {NULL}]
      BY <2>6, LineAmounts
    <3>2. /\ row \in [status : {"LINE"}, base : Wages, over : Extras, tips : Extras, cut : Cuts,
               paid : Nat \cup {NULL}]
          /\ row.paid = NULL
      BY <3>1, <2>4, <2>6 DEF Pays!Change
    <3>. HIDE DEF row
    <3>. QED  BY <3>2 DEF Pays!Line, Pays!NoRow
  <2>. HIDE DEF row
  <2>8. v2' \in Ledger /\ v2'[<<r, s>>] = row /\ \A t \in Runs, m \in Payees : t # r \/ m # s =>
          v2'[<<t, m>>] = v2[<<t, m>>]
    BY <1>0, <2>3, <2>4, <2>7 DEF Ledger
  <2>9. v1[r] # Pays!NoRow /\ v1[r].status # "PAID"
    BY <1>0, <2>3 DEF PayRequest
  <2>10. ~PaidUp(v2', r)
    BY <2>4, <2>7, <2>8 DEF PaidUp
  <2>11. PayRow(r, w)'
    <3>1. \A m \in Payees : v2'[<<r, m>>] # Pays!NoRow =>
            v2'[<<r, m>>].paid \in {NULL, Pays!Net(v2'[<<r, m>>])}
      <4>1. ASSUME NEW m \in Payees, m # s
            PROVE  v2'[<<r, m>>] # Pays!NoRow => v2'[<<r, m>>].paid \in {NULL, Pays!Net(v2'[<<r,
                     m>>])}
        BY <4>1, <1>0, <2>4, <2>8 DEF PayRow
      <4>. QED  BY <4>1, <2>7, <2>8
    <3>. QED  BY <3>1, <2>3, <2>5, <2>9, <2>10 DEF PayRow
  <2>12. PayRequest(w)'
    BY <2>3, <2>5, <2>9 DEF PayRequest
  <2>13. \A t \in Runs \ {r} : v1'[t] = v1[t] /\ \A m \in Payees : v2'[<<t, m>>] = v2[<<t, m>>]
    BY <2>3, <2>8
  <2>. QED  BY <1>0, <2>3, <2>4, <2>5, <2>8, <2>11, <2>12, <2>13, PayStep
<1>3. ASSUME Pays!PayLines(h) PROVE PayInv'
  <2>. DEFINE w == [at |-> "count", run |-> r, was |-> q.was]
              paid(x) == [x EXCEPT !.paid = Pays!Net(x)]
  <2>0. Leaving(w, r, "status")
    BY DEF Leaving, Pays!LeftUndone
  <2>1. /\ q.at = "pay" /\ v3' = [v3 EXCEPT ![h] = w] /\ UNCHANGED v1
        /\ v2' = [k \in DOMAIN v2 |-> IF k[1] = r /\ k[2] \in q.lines THEN paid(v2[k]) ELSE v2[k]]
    BY <1>3 DEF Pays!PayLines, Pays!At, Pays!Goto
  <2>2. r \in Runs /\ w \in Pays!Request /\ w.at = "count" /\ w.run = r
          /\ q.lines \subseteq Payees
    BY <2>1, RequestIs DEF Pays!Request
  <2>3. \A x \in Pays!Line : x # Pays!NoRow =>
          /\ paid(x) \in Pays!Line /\ paid(x) # Pays!NoRow /\ paid(x).paid = Pays!Net(paid(x))
          /\ paid(x).base = x.base /\ paid(x).over = x.over /\ paid(x).tips = x.tips
               /\ paid(x).cut = x.cut
    <3>1. ASSUME NEW x \in Pays!Line, x # Pays!NoRow
          PROVE  /\ paid(x) \in [status : {"LINE"}, base : Wages, over : Extras, tips : Extras,
                      cut : Cuts, paid : Nat \cup {NULL}]
                 /\ paid(x).paid = Pays!Net(x)
                 /\ paid(x).base = x.base /\ paid(x).over = x.over /\ paid(x).tips = x.tips
                      /\ paid(x).cut = x.cut
      BY <3>1, LineAmounts
    <3>. HIDE DEF paid
    <3>. QED  BY <3>1 DEF Pays!Line, Pays!NoRow, Pays!Net, Pays!Gross
  <2>. HIDE DEF paid
  <2>4. /\ q.lines # {} /\ \A s \in q.lines : v2[<<r, s>>] \in Pays!Line
             /\ v2[<<r, s>>] # Pays!NoRow
        /\ v1[r] # Pays!NoRow /\ v1[r].status # "PAID"
    BY <1>0, <2>1, <2>2 DEF PayRequest, Ledger
  <2>5. /\ \A s \in Payees : v2'[<<r, s>>] = IF s \in q.lines THEN paid(v2[<<r, s>>])
             ELSE v2[<<r, s>>]
        /\ \A t \in Runs \ {r} : \A s \in Payees : v2'[<<t, s>>] = v2[<<t, s>>]
    BY <1>0, <2>1, <2>2 DEF Ledger
  <2>6. v2' \in Ledger
    <3>1. \A k \in Runs \X Payees : v2[k] \in Pays!Line
            /\ (k[1] = r /\ k[2] \in q.lines => v2[k] # Pays!NoRow)
      BY <1>0, <2>4 DEF Ledger
    <3>. QED  BY <3>1, <1>0, <2>1, <2>3 DEF Ledger
  <2>7. SumIn(v2', r) = SumIn(v2, r)
    BY <2>2, <2>3, <2>4, <2>5, SumKept
  <2>8. \A s \in Payees : v2'[<<r, s>>] # Pays!NoRow =>
          v2'[<<r, s>>].paid \in {NULL, Pays!Net(v2'[<<r, s>>])}
    BY <1>0, <2>2, <2>3, <2>4, <2>5 DEF PayRow
  <2>9. v1[r].total = SumIn(v2, r) \/ "totals" \in v1[r].undone
    BY <1>0, <2>1, <2>2, <2>4 DEF PayRow, Leaving, Pays!LeftUndone
  <2>. HIDE DEF w
  <2>10. PayRow(r, w)'
    BY <2>0, <2>1, <2>2, <2>4, <2>7, <2>8, <2>9 DEF PayRow
  <2>11. \E s \in Payees : v2'[<<r, s>>] # Pays!NoRow
    BY <2>2, <2>3, <2>4, <2>5
  <2>12. PayRequest(w)'
    BY <2>1, <2>2, <2>4, <2>11 DEF PayRequest
  <2>13. \A t \in Runs \ {r} : v1'[t] = v1[t] /\ \A m \in Payees : v2'[<<t, m>>] = v2[<<t, m>>]
    BY <2>1, <2>5
  <2>. QED  BY <1>0, <2>1, <2>2, <2>6, <2>10, <2>12, <2>13, PayStep
<1>. QED  BY <1>1, <1>2, <1>3

(* Every step of payroll keeps the invariant.                              *)
LEMMA PayGoesOn ==
  ASSUME PeopleAssumption, OneAtATime, PayInv, Pays!Next
  PROVE  PayInv'
  BY PayReads, PayRuns, PayStops, PayLinesChange DEF Pays!Next
-----------------------------------------------------------------------------
(* The days used up are a number.                                          *)
LEMMA UsedIsInt ==
  ASSUME PeopleAssumption, Leaves!TypeOK, NEW m \in Leavers, NEW t \in Types
  PROVE  Leaves!Used(m, t) \in Int
<1>. DEFINE S == {q \in Leaves!Under(m, t) : v3[q].status = "APPROVED"}
            f == [q \in S |-> v3[q].days]
            G(g) == [s \in SUBSET S |-> IF s = {} THEN 0
              ELSE v3[First(s)].days + g[s \ {First(s)}]]
            it == CHOOSE g : g = G(g)
            g == Partial(f, S)
<1>1. Leaves!Used(m, t) = it[S]
  BY DEF Leaves!Used, Leaves!MapThenSumSet, Leaves!MapThenFoldSet, First
<1>2. IsFiniteSet(S)
  <2>1. S \subseteq Requests
    BY DEF Leaves!Under
  <2>2. IsFiniteSet(Requests)
    BY Finite DEF PeopleAssumption, Leaves!LeaveAssumption
  <2>. HIDE DEF S
  <2>. QED  BY <2>1, <2>2, FS_Subset
<1>3. f \in [S -> Int]
  BY DEF Leaves!TypeOK, Leaves!Request, Leaves!Under, Leaves!NoRow
<1>4. \A s \in SUBSET S : s # {} => f[First(s)] = v3[First(s)].days
  BY FirstIn
<1>5. IsSum(g, f, S)
  <2>. HIDE DEF S, f
  <2>. QED  BY <1>2, <1>3, SumExists
<1>6. g = G(g)
  <2>. HIDE DEF g, S, f
  <2>. QED  BY <1>4, <1>5 DEF IsSum, Adds
<1>7. it = G(it)
  BY <1>6
<1>8. Adds(it, f, S)
  <2>. HIDE DEF it, f, S
  <2>. QED  BY <1>4, <1>7 DEF Adds
<1>. HIDE DEF it, f, S
<1>. QED  BY <1>1, <1>2, <1>3, <1>8, Folded, SumIsInt

(* What a request under way has read is still so.                          *)
LeaveReads(w) ==
  /\ w.at = "delete" => w.type # MANUAL /\ Leaves!Named(w.type) = {}
  /\ w.at = "decide" => v3[w.request] = w.read /\ w.read.status = "PENDING"
(* Types there are, and what a request that waits has read of them.        *)
LeaveInv == Leaves!TypeOK /\ Leaves!LeaveHolds /\ \A a \in Actors : LeaveReads(v4[a])

(* With no types and no requests leave adds up.                            *)
LEMMA LeaveStarts ==
  ASSUME PeopleAssumption, Leaves!Init
  PROVE  LeaveInv
<1>1. Leaves!TypeOK
  BY DEF Leaves!Init, Leaves!TypeOK, Leaves!Type, Leaves!Balance, Leaves!Request
<1>2. Leaves!LeaveHolds
  BY DEF Leaves!Init, Leaves!LeaveHolds, Leaves!Exists
<1>3. \A a \in Actors : LeaveReads(v4[a])
  BY DEF Leaves!Init, LeaveReads, Leaves!Idle
<1>. QED  BY <1>1, <1>2, <1>3 DEF LeaveInv

(* What the invariant says of the rows.                                    *)
LEMMA LeaveRows ==
  ASSUME PeopleAssumption, LeaveInv
  PROVE  /\ Leaves!TypeOK /\ MANUAL \in Types /\ NULL \notin Int
         /\ \A q \in Requests : v3[q] # Leaves!NoRow =>
              /\ v3[q] \in [status : {"PENDING", "APPROVED", "REJECTED", "CANCELLED"},
                   member : Leavers,
                            type : Types \cup {NULL}, days : 1..MaxDays]
              /\ v3[q].type # NULL /\ v3[q].type \in Types /\ v1[v3[q].type] # Leaves!NoRow
         /\ \A t \in Types : v1[t] # Leaves!NoRow =>
              v1[t] \in [status : {"ACTIVE", "INACTIVE"}, days : 0..MaxDays, tracks : BOOLEAN]
         /\ \A m \in Leavers, t \in Types : v2[<<m, t>>] # Leaves!NoRow =>
              /\ v2[<<m, t>>] \in [status : {"BALANCE"}, own : (0..MaxDays) \cup {NULL},
                   left : Int]
              /\ v1[t] # Leaves!NoRow
         /\ (\E t \in Types : v1[t] # Leaves!NoRow) => v1[MANUAL].status = "ACTIVE"
<1>1. Leaves!TypeOK /\ MANUAL \in Types /\ NULL \notin Int
  BY DEF LeaveInv, PeopleAssumption, Leaves!LeaveAssumption
<1>2. \A q \in Requests : v3[q] # Leaves!NoRow =>
              /\ v3[q] \in [status : {"PENDING", "APPROVED", "REJECTED", "CANCELLED"},
                   member : Leavers,
                            type : Types \cup {NULL}, days : 1..MaxDays]
              /\ v3[q].type # NULL /\ v3[q].type \in Types /\ v1[v3[q].type] # Leaves!NoRow
  BY DEF LeaveInv, Leaves!TypeOK, Leaves!Request, Leaves!LeaveHolds, Leaves!Exists
<1>3. \A t \in Types : v1[t] # Leaves!NoRow =>
              v1[t] \in [status : {"ACTIVE", "INACTIVE"}, days : 0..MaxDays, tracks : BOOLEAN]
  BY <1>1 DEF Leaves!TypeOK, Leaves!Type, Leaves!Days
<1>4. \A m \in Leavers, t \in Types : v2[<<m, t>>] # Leaves!NoRow =>
              /\ v2[<<m, t>>] \in [status : {"BALANCE"}, own : (0..MaxDays) \cup {NULL},
                   left : Int]
              /\ v1[t] # Leaves!NoRow
  <2>1. \A k \in Leavers \X Types : v2[k] # Leaves!NoRow =>
              /\ v2[k] \in [status : {"BALANCE"}, own : (0..MaxDays) \cup {NULL}, left : Int]
              /\ v1[k[2]] # Leaves!NoRow
    BY <1>1 DEF Leaves!TypeOK, Leaves!Balance, Leaves!Days, LeaveInv, Leaves!LeaveHolds,
       Leaves!Exists
  <2>. QED  BY <2>1
<1>5. (\E t \in Types : v1[t] # Leaves!NoRow) => v1[MANUAL].status = "ACTIVE"
  BY DEF LeaveInv, Leaves!LeaveHolds, Leaves!Exists
<1>. QED  BY <1>1, <1>2, <1>3, <1>4, <1>5

(* ensureLeaveTypes leaves the default where there was nothing.            *)
LEMMA EnsuredIs ==
  ASSUME PeopleAssumption, LeaveInv
  PROVE  /\ Leaves!Ensured \in [Types -> Leaves!Type]
         /\ \A t \in Types : v1[t] # Leaves!NoRow => Leaves!Ensured[t] # Leaves!NoRow
         /\ Leaves!Ensured[MANUAL].status = "ACTIVE"
<1>1. CASE \E t \in Types : Leaves!Exists(t)
  BY <1>1, LeaveRows DEF Leaves!Ensured, Leaves!TypeOK, Leaves!Exists
<1>2. CASE ~\E t \in Types : Leaves!Exists(t)
  <2>1. Leaves!Ensured = [v1 EXCEPT ![MANUAL] = [status |-> "ACTIVE", days |-> 0,
          tracks |-> TRUE]]
    BY <1>2 DEF Leaves!Ensured
  <2>2. [status |-> "ACTIVE", days |-> 0, tracks |-> TRUE] \in Leaves!Type
    BY DEF Leaves!Type, Leaves!Days, PeopleAssumption, Leaves!LeaveAssumption
  <2>. QED  BY <2>1, <2>2, <1>2, LeaveRows DEF Leaves!TypeOK, Leaves!Exists
<1>. QED  BY <1>1, <1>2

(* Types are added or changed while nothing is under way.                  *)
LEMMA TypesKept ==
  ASSUME PeopleAssumption, LeaveInv, v1' \in [Types -> Leaves!Type],
         \A t \in Types : v1[t] # Leaves!NoRow => v1'[t] # Leaves!NoRow,
         v1' = v1 \/ v1'[MANUAL].status = "ACTIVE"
  PROVE  /\ \A q \in Requests : v3[q] # Leaves!NoRow => v3[q].type # NULL
              /\ v1'[v3[q].type] # Leaves!NoRow
         /\ \A k \in Leavers \X Types : v2[k] # Leaves!NoRow => v1'[k[2]] # Leaves!NoRow
         /\ (\E t \in Types : v1'[t] # Leaves!NoRow) => v1'[MANUAL].status = "ACTIVE"
  BY LeaveRows

(* What makes it true of the next state when nothing is under way then.    *)
LEMMA LeaveNext ==
  ASSUME LeaveInv, Leaves!TypeOK', \A q \in Requests : v3'[q] # Leaves!NoRow => v3'[q].type # NULL
         /\ v1'[v3'[q].type] # Leaves!NoRow,
         \A k \in Leavers \X Types : v2'[k] # Leaves!NoRow => v1'[k[2]] # Leaves!NoRow,
         (\E t \in Types : v1'[t] # Leaves!NoRow) => v1'[MANUAL].status = "ACTIVE",
         \A a \in Actors : v4'[a] = Leaves!Idle
  PROVE  LeaveInv'
<1>1. Leaves!LeaveHolds'
  BY DEF Leaves!LeaveHolds, Leaves!Exists
<1>. QED  BY <1>1 DEF LeaveInv, LeaveReads, Leaves!Idle

(* The requests that are one transaction.                                  *)
LEMMA LeaveEditing ==
  ASSUME PeopleAssumption, LeaveInv, \A a \in Actors : v4[a] = Leaves!Idle, UNCHANGED v4,
         \/ Leaves!EnsureLeaveTypes
         \/ \E t \in Types, d \in Leaves!Days, b \in BOOLEAN :
              \/ Leaves!CreateLeaveType(t, d, b)
              \/ \E s \in {"ACTIVE", "INACTIVE"} : Leaves!UpdateLeaveType(t, d, b, s)
         \/ \E m \in Leavers, t \in Types, own \in Leaves!Days \cup {NULL} :
              Leaves!SetStaffLeaveOverrides(m, t, own)
         \/ \E q \in Requests, m \in Leavers, t \in Types, d \in 1..MaxDays :
              Leaves!CreateLeaveForMembership(q, m, t, d)
  PROVE  LeaveInv'
<1>0. \A a \in Actors : v4'[a] = Leaves!Idle
  OBVIOUS
<1>1. CASE Leaves!EnsureLeaveTypes
  <2>1. v1' = Leaves!Ensured /\ UNCHANGED <<v2, v3, v4>>
    BY <1>1 DEF Leaves!EnsureLeaveTypes
  <2>2. Leaves!TypeOK'
    BY <2>1, EnsuredIs DEF LeaveInv, Leaves!TypeOK
  <2>. QED  BY <2>1, <2>2, <1>0, EnsuredIs, TypesKept, LeaveNext
<1>2. ASSUME NEW t \in Types, NEW d \in Leaves!Days, NEW b \in BOOLEAN,
             NEW s \in {"ACTIVE", "INACTIVE"},
             Leaves!CreateLeaveType(t, d, b) \/ Leaves!UpdateLeaveType(t, d, b, s)
      PROVE  LeaveInv'
  <2>. DEFINE row(x) == [status |-> x, days |-> d, tracks |-> b]
  <2>1. \A x \in {"ACTIVE", "INACTIVE"} : row(x) \in Leaves!Type /\ row(x) # Leaves!NoRow
          /\ row(x).status = x
    BY DEF Leaves!Type, Leaves!NoRow
  <2>2. \E x \in {"ACTIVE", "INACTIVE"} :
          /\ \/ v1' = [Leaves!Ensured EXCEPT ![t] = row(x)]
             \/ v1' = [v1 EXCEPT ![t] = row(x)] /\ v1[t] # Leaves!NoRow
          /\ t = MANUAL => x = "ACTIVE"
    <3>1. CASE Leaves!CreateLeaveType(t, d, b)
      BY <3>1 DEF Leaves!CreateLeaveType
    <3>2. CASE Leaves!UpdateLeaveType(t, d, b, s)
      BY <3>2 DEF Leaves!UpdateLeaveType, Leaves!Exists
    <3>. QED  BY <1>2, <3>1, <3>2
  <2>3. UNCHANGED <<v2, v3>>
    BY <1>2 DEF Leaves!CreateLeaveType, Leaves!UpdateLeaveType
  <2>. HIDE DEF row
  <2>4. v1' \in [Types -> Leaves!Type] /\ \A u \in Types : v1[u] # Leaves!NoRow =>
          v1'[u] # Leaves!NoRow
    BY <2>1, <2>2, EnsuredIs, LeaveRows DEF Leaves!TypeOK
  <2>5. v1'[MANUAL].status = "ACTIVE"
    BY <2>1, <2>2, EnsuredIs, LeaveRows DEF Leaves!TypeOK
  <2>6. Leaves!TypeOK'
    BY <2>3, <2>4 DEF LeaveInv, Leaves!TypeOK
  <2>. QED  BY <2>3, <2>4, <2>5, <2>6, <1>0, TypesKept, LeaveNext
<1>3. ASSUME NEW m \in Leavers, NEW t \in Types, NEW own \in Leaves!Days \cup {NULL},
             Leaves!SetStaffLeaveOverrides(m, t, own)
      PROVE  LeaveInv'
  <2>. DEFINE left == Leaves!Remaining(Leaves!EntitlementFor(own, Leaves!Ensured[t].days),
                Leaves!Used(m, t))
              row == [status |-> "BALANCE", own |-> own, left |-> left]
  <2>1. /\ Leaves!Ensured[t] # Leaves!NoRow /\ v1' = Leaves!Ensured
             /\ v2' = [v2 EXCEPT ![<<m, t>>] = row] /\ v3' = v3
    BY <1>3 DEF Leaves!SetStaffLeaveOverrides
  <2>2. left \in Int
    <3>1. Leaves!Used(m, t) \in Int
      BY UsedIsInt DEF LeaveInv
    <3>2. Leaves!Ensured[t].days \in Int
      BY <2>1, EnsuredIs DEF Leaves!Type, Leaves!Days
    <3>3. Leaves!EntitlementFor(own, Leaves!Ensured[t].days) \in Int
      BY <3>2 DEF Leaves!EntitlementFor, Leaves!Days
    <3>. QED  BY <3>1, <3>3 DEF Leaves!Remaining
  <2>3. row \in Leaves!Balance
    BY <2>2 DEF Leaves!Balance, Leaves!Days
  <2>. HIDE DEF left, row
  <2>4. v2' \in [Leavers \X Types -> Leaves!Balance]
    BY <2>1, <2>3, LeaveRows DEF Leaves!TypeOK
  <2>5. Leaves!TypeOK'
    BY <2>1, <2>4, EnsuredIs DEF LeaveInv, Leaves!TypeOK
  <2>6. \A k \in Leavers \X Types : v2'[k] # Leaves!NoRow => k[2] = t \/ v2[k] # Leaves!NoRow
    BY <2>1, LeaveRows DEF Leaves!TypeOK
  <2>7. \A k \in Leavers \X Types : v2'[k] # Leaves!NoRow => v1'[k[2]] # Leaves!NoRow
    BY <2>1, <2>6, EnsuredIs, TypesKept
  <2>. QED  BY <2>1, <2>5, <2>7, <1>0, EnsuredIs, TypesKept, LeaveNext
<1>4. ASSUME NEW q \in Requests, NEW m \in Leavers, NEW t \in Types, NEW d \in 1..MaxDays,
             Leaves!CreateLeaveForMembership(q, m, t, d)
      PROVE  LeaveInv'
  <2>. DEFINE row == [status |-> "PENDING", member |-> m, type |-> t, days |-> d]
  <2>1. Leaves!Ensured[t].status = "ACTIVE" /\ v1' = Leaves!Ensured
          /\ v3' = [v3 EXCEPT ![q] = row] /\ v2' = v2
    BY <1>4 DEF Leaves!CreateLeaveForMembership
  <2>2. row \in Leaves!Request /\ row.type = t /\ t # NULL
    <3>1. row \in Leaves!Request
      BY DEF Leaves!Request
    <3>2. t # NULL
      BY DEF PeopleAssumption, Leaves!LeaveAssumption
    <3>. QED  BY <3>1, <3>2
  <2>3. v1'[t] # Leaves!NoRow
    BY <2>1 DEF Leaves!NoRow
  <2>. HIDE DEF row
  <2>4. Leaves!TypeOK'
    BY <2>1, <2>2, EnsuredIs DEF LeaveInv, Leaves!TypeOK
  <2>5. \A p \in Requests : v3'[p] # Leaves!NoRow => v3'[p].type # NULL
          /\ v1'[v3'[p].type] # Leaves!NoRow
    BY <2>1, <2>2, <2>3, EnsuredIs, TypesKept, LeaveRows DEF Leaves!TypeOK
  <2>. QED  BY <2>1, <2>4, <2>5, <1>0, EnsuredIs, TypesKept, LeaveNext
<1>. QED  BY <1>1, <1>2, <1>3, <1>4

(* Nobody else is at work.                                                 *)
LEMMA OthersIdle ==
  ASSUME OneAtATime, LeaveInv, NEW a \in Actors, NEW w, v4' = [v4 EXCEPT ![a] = w]
  PROVE  \A b \in Actors : b = a /\ v4'[b] = w
  BY DEF OneAtATime, LeaveInv, Leaves!TypeOK

(* A decision, or a cancellation, has read a pending request,              *)
LEMMA LeaveAsking ==
  ASSUME PeopleAssumption, OneAtATime, LeaveInv, NEW a \in Actors, NEW q \in Requests,
         NEW to \in Leaves!Decision,
         Leaves!Read(a, q, to)
  PROVE  LeaveInv'
<1>. DEFINE t == v3[q].type
            w == [at |-> "decide", request |-> q, read |-> v3[q], to |-> to,
                  tracks |-> t = NULL \/ v1[t].tracks, days |-> IF t = NULL THEN 0
                    ELSE v1[t].days]
<1>1. v3[q].status = "PENDING" /\ v4' = [v4 EXCEPT ![a] = w] /\ UNCHANGED <<v1, v2, v3>>
  BY DEF Leaves!Read
<1>2. v3[q] # Leaves!NoRow
  BY <1>1 DEF Leaves!NoRow
<1>3. t # NULL /\ v1[t].tracks \in BOOLEAN /\ v1[t].days \in Leaves!Days
        /\ v3[q] \in Leaves!Request
  BY <1>2, LeaveRows DEF Leaves!Days, Leaves!TypeOK
<1>4. w \in [at : {"decide"}, request : Requests, read : Leaves!Request, tracks : BOOLEAN,
            days : Leaves!Days, to : Leaves!Decision]
  BY <1>3
<1>5. w.at = "decide" /\ w.request = q /\ w.read = v3[q]
  OBVIOUS
<1>. HIDE DEF w
<1>6. \A b \in Actors : v4'[b] = w
  BY <1>1, OthersIdle
<1>7. Leaves!TypeOK'
  BY <1>1, <1>4 DEF LeaveInv, Leaves!TypeOK
<1>8. Leaves!LeaveHolds'
  BY <1>1 DEF LeaveInv, Leaves!LeaveHolds, Leaves!Exists
<1>. QED  BY <1>1, <1>5, <1>6, <1>7, <1>8 DEF LeaveInv, LeaveReads

(* and decides it: the balance that changes is of a type there is.         *)
LEMMA LeaveDeciding ==
  ASSUME PeopleAssumption, OneAtATime, LeaveInv, NEW a \in Actors, Leaves!DecideCommit(a)
  PROVE  LeaveInv'
<1>. DEFINE w == v4[a]
            k == <<w.read.member, w.read.type>>
            takes == w.to = "APPROVED" /\ w.tracks /\ w.read.type # NULL
            row == [v3[w.request] EXCEPT !.status = w.to]
<1>1. /\ w \in [at : {"decide"}, request : Requests, read : Leaves!Request, tracks : BOOLEAN,
                days : Leaves!Days, to : Leaves!Decision]
      /\ w.read = v3[w.request] /\ w.read.status = "PENDING"
  BY DEF Leaves!DecideCommit, LeaveInv, LeaveReads, Leaves!TypeOK, Leaves!Idle
<1>2. w.read # Leaves!NoRow
  BY <1>1 DEF Leaves!NoRow
<1>3. /\ v3[w.request] \in [status : {"PENDING", "APPROVED", "REJECTED", "CANCELLED"},
           member : Leavers,
                            type : Types \cup {NULL}, days : 1..MaxDays]
      /\ w.read.type # NULL /\ w.read.type \in Types /\ v1[w.read.type] # Leaves!NoRow
           /\ w.read.member \in Leavers
      /\ w.read.days \in Int
  BY <1>1, <1>2, LeaveRows
<1>4. /\ v3' = [v3 EXCEPT ![w.request] = row]
      /\ v2' = IF takes THEN [v2 EXCEPT ![k] = Leaves!Take(v2[k], w.read.days, w.days)] ELSE v2
      /\ v4' = [v4 EXCEPT ![a] = Leaves!Idle] /\ v1' = v1
  BY <1>3 DEF Leaves!DecideCommit, Leaves!Exists
<1>5. row \in Leaves!Request /\ row.type = w.read.type
  BY <1>1, <1>3 DEF Leaves!Request, Leaves!Decision
<1>6. Leaves!Take(v2[k], w.read.days, w.days) \in Leaves!Balance
  <2>1. w.days \in Int /\ NULL \notin Int
    BY <1>1, LeaveRows DEF Leaves!Days
  <2>2. CASE v2[k] = Leaves!NoRow
    BY <2>1, <2>2, <1>3 DEF Leaves!Take, Leaves!Balance
  <2>3. CASE v2[k] # Leaves!NoRow
    <3>1. v2[k] \in [status : {"BALANCE"}, own : Leaves!Days \cup {NULL}, left : Int]
      BY <2>3, <1>3, LeaveRows DEF Leaves!Days
    <3>. HIDE DEF k, w
    <3>. QED  BY <3>1, <2>3, <1>3 DEF Leaves!Take, Leaves!Balance
  <2>. QED  BY <2>2, <2>3
<1>7. k \in Leavers \X Types /\ v1[k[2]] # Leaves!NoRow
  BY <1>3
<1>. HIDE DEF row, k, w, takes
<1>8. v2' \in [Leavers \X Types -> Leaves!Balance] /\ v3' \in [Requests -> Leaves!Request]
  BY <1>4, <1>5, <1>6, <1>7 DEF LeaveInv, Leaves!TypeOK
<1>9. Leaves!TypeOK'
  BY <1>4, <1>8 DEF LeaveInv, Leaves!TypeOK
<1>10. \A j \in Leavers \X Types : v2'[j] # Leaves!NoRow => v1'[j[2]] # Leaves!NoRow
  BY <1>4, <1>7, TypesKept, LeaveRows DEF Leaves!TypeOK
<1>11. \A q \in Requests : v3'[q] # Leaves!NoRow => v3'[q].type # NULL
         /\ v1'[v3'[q].type] # Leaves!NoRow
  BY <1>1, <1>3, <1>4, <1>5, TypesKept, LeaveRows DEF Leaves!TypeOK
<1>12. (\E t \in Types : v1'[t] # Leaves!NoRow) => v1'[MANUAL].status = "ACTIVE"
  BY <1>4, LeaveRows
<1>13. \A b \in Actors : v4'[b] = Leaves!Idle
  BY <1>4, OthersIdle
<1>. QED  BY <1>9, <1>10, <1>11, <1>12, <1>13, LeaveNext

(* A type that requests name is deactivated; the one deleted is named by   *)
(* none.                                                                   *)
LEMMA LeaveDeleting ==
  ASSUME PeopleAssumption, OneAtATime, LeaveInv, NEW a \in Actors
  PROVE  /\ \A t \in Types : Leaves!DeleteLeaveType(a, t) => LeaveInv'
         /\ Leaves!DeleteCommit(a) => LeaveInv'
<1>1. ASSUME NEW t \in Types, Leaves!DeleteLeaveType(a, t), Leaves!Named(t) # {}
      PROVE  LeaveInv'
  <2>. DEFINE row == [v1[t] EXCEPT !.status = "INACTIVE"]
  <2>1. v1[t] # Leaves!NoRow /\ t # MANUAL /\ v1' = [v1 EXCEPT ![t] = row]
       /\ UNCHANGED <<v2, v3, v4>> /\ v4[a] = Leaves!Idle
    BY <1>1 DEF Leaves!DeleteLeaveType, Leaves!Exists
  <2>2. row \in Leaves!Type /\ row # Leaves!NoRow
    BY <2>1, LeaveRows DEF Leaves!Type, Leaves!Days, Leaves!NoRow
  <2>. HIDE DEF row
  <2>3. /\ v1' \in [Types -> Leaves!Type] /\ \A u \in Types : v1[u] # Leaves!NoRow =>
             v1'[u] # Leaves!NoRow
        /\ v1'[MANUAL].status = "ACTIVE"
    BY <2>1, <2>2, LeaveRows DEF Leaves!TypeOK
  <2>4. Leaves!TypeOK'
    BY <2>1, <2>3 DEF LeaveInv, Leaves!TypeOK
  <2>5. \A b \in Actors : v4'[b] = Leaves!Idle
    BY <2>1 DEF OneAtATime
  <2>. QED  BY <2>1, <2>3, <2>4, <2>5, TypesKept, LeaveNext
<1>2. ASSUME NEW t \in Types, Leaves!DeleteLeaveType(a, t), Leaves!Named(t) = {}
      PROVE  LeaveInv'
  <2>. DEFINE w == [at |-> "delete", type |-> t]
  <2>1. t # MANUAL /\ v4' = [v4 EXCEPT ![a] = w] /\ UNCHANGED <<v1, v2, v3>>
    BY <1>2 DEF Leaves!DeleteLeaveType
  <2>2. w \in [at : {"delete"}, type : Types] /\ w.at = "delete" /\ w.type = t
    OBVIOUS
  <2>. HIDE DEF w
  <2>3. \A b \in Actors : v4'[b] = w
    BY <2>1, OthersIdle
  <2>4. Leaves!TypeOK'
    BY <2>1, <2>2 DEF LeaveInv, Leaves!TypeOK
  <2>5. Leaves!LeaveHolds'
    BY <2>1 DEF LeaveInv, Leaves!LeaveHolds, Leaves!Exists
  <2>6. LeaveReads(w)'
    BY <2>1, <2>2, <1>2 DEF LeaveReads, Leaves!Named
  <2>. QED  BY <2>3, <2>4, <2>5, <2>6 DEF LeaveInv
<1>3. ASSUME Leaves!DeleteCommit(a)
      PROVE  LeaveInv'
  <2>. DEFINE t == v4[a].type
  <2>1. t \in Types /\ t # MANUAL /\ Leaves!Named(t) = {}
    <3>1. v4[a].at = "delete" /\ LeaveReads(v4[a])
      BY <1>3 DEF Leaves!DeleteCommit, LeaveInv
    <3>2. v4[a] \in [at : {"delete"}, type : Types]
      BY <3>1 DEF LeaveInv, Leaves!TypeOK, Leaves!Idle
    <3>. QED  BY <3>1, <3>2 DEF LeaveReads
  <2>2. /\ v1' = [v1 EXCEPT ![t] = Leaves!NoRow]
        /\ v2' = [k \in DOMAIN v2 |-> IF k[2] = t THEN Leaves!NoRow ELSE v2[k]]
        /\ v3' = [q \in Requests |-> IF q \in Leaves!Named(t) THEN [v3[q] EXCEPT !.type = NULL]
             ELSE v3[q]]
        /\ v4' = [v4 EXCEPT ![a] = Leaves!Idle]
    BY <1>3 DEF Leaves!DeleteCommit
  <2>. HIDE DEF t
  <2>3. v3' = v3
    BY <2>1, <2>2 DEF LeaveInv, Leaves!TypeOK
  <2>4. Leaves!NoRow \in Leaves!Type /\ Leaves!NoRow \in Leaves!Balance
    BY DEF Leaves!Type, Leaves!Balance
  <2>5. Leaves!TypeOK'
    BY <2>1, <2>2, <2>3, <2>4 DEF LeaveInv, Leaves!TypeOK
  <2>6. \A q \in Requests : v3'[q] # Leaves!NoRow => v3'[q].type # NULL
          /\ v1'[v3'[q].type] # Leaves!NoRow
    BY <2>1, <2>2, <2>3, LeaveRows DEF Leaves!Named, Leaves!TypeOK
  <2>7. \A k \in Leavers \X Types : v2'[k] # Leaves!NoRow => v1'[k[2]] # Leaves!NoRow
    BY <2>2, TypesKept, LeaveRows DEF Leaves!TypeOK
  <2>8. (\E u \in Types : v1'[u] # Leaves!NoRow) => v1'[MANUAL].status = "ACTIVE"
    BY <2>1, <2>2, LeaveRows DEF Leaves!TypeOK
  <2>9. \A b \in Actors : v4'[b] = Leaves!Idle
    BY <2>2, OthersIdle
  <2>. QED  BY <2>5, <2>6, <2>7, <2>8, <2>9, LeaveNext
<1>. QED  BY <1>1, <1>2, <1>3

(* Every step of leave keeps the invariant.                                *)
LEMMA LeaveGoesOn ==
  ASSUME PeopleAssumption, OneAtATime, LeaveInv, Leaves!Next
  PROVE  LeaveInv'
<1>1. CASE \E a \in Actors :
             \/ \E t \in Types : Leaves!DeleteLeaveType(a, t)
             \/ \E q \in Requests : Leaves!CancelMyLeave(a, q)
                                     \/ \E to \in Leaves!Decision : Leaves!DecideLeave(a, q, to)
             \/ Leaves!DeleteCommit(a) \/ Leaves!DecideCommit(a)
  <2>1. PICK a \in Actors :
             \/ \E t \in Types : Leaves!DeleteLeaveType(a, t)
             \/ \E q \in Requests, to \in Leaves!Decision : Leaves!Read(a, q, to)
             \/ Leaves!DeleteCommit(a) \/ Leaves!DecideCommit(a)
    BY <1>1 DEF Leaves!CancelMyLeave, Leaves!DecideLeave, Leaves!Decision
  <2>. QED  BY <2>1, LeaveDeleting, LeaveDeciding, LeaveAsking
<1>2. CASE ~\E a \in Actors :
             \/ \E t \in Types : Leaves!DeleteLeaveType(a, t)
             \/ \E q \in Requests : Leaves!CancelMyLeave(a, q)
                                     \/ \E to \in Leaves!Decision : Leaves!DecideLeave(a, q, to)
             \/ Leaves!DeleteCommit(a) \/ Leaves!DecideCommit(a)
  <2>1. PICK b \in Actors : v4[b] = Leaves!Idle
    BY <1>2 DEF Leaves!Next
  <2>2. \A a \in Actors : v4[a] = Leaves!Idle
    BY <2>1 DEF OneAtATime
  <2>3. UNCHANGED v4
    BY <1>2 DEF Leaves!Next, Leaves!EnsureLeaveTypes, Leaves!CreateLeaveType,
       Leaves!UpdateLeaveType,
       Leaves!SetStaffLeaveOverrides, Leaves!CreateLeaveForMembership
  <2>. QED  BY <2>2, <2>3, <1>2, LeaveEditing DEF Leaves!Next
<1>. QED  BY <1>1, <1>2
-----------------------------------------------------------------------------
(* The scans of a profile that came later than the window after the one    *)
(* before.                                                                 *)
Later(s) == {i \in 1..(Len(s) - 1) : s[i + 1] - s[i] > Gap}
Latest(s) == s[Len(s)]
Agrees(p, l) ==
  LET seen == <<p.made>> \o l
  IN p.visits = 1 + Cardinality(Later(seen)) /\ p.last = Latest(seen)

(* They can be counted.                                                    *)
LEMMA LaterFinite ==
  ASSUME NEW s \in Seq(Int)
  PROVE  IsFiniteSet(Later(s)) /\ Cardinality(Later(s)) \in Nat
<1>1. IsFiniteSet(1..(Len(s) - 1))
  BY FS_Interval
<1>2. Later(s) \subseteq 1..(Len(s) - 1)
  BY DEF Later
<1>3. IsFiniteSet(Later(s))
  BY <1>1, <1>2, FS_Subset
<1>. QED  BY <1>3, FS_CardinalityType

(* One more scan adds at most one to them.                                 *)
LEMMA OneMore ==
  ASSUME NEW s \in Seq(Int), s # <<>>, NEW t \in Int
  PROVE  /\ Append(s, t) \in Seq(Int) /\ Latest(Append(s, t)) = t
         /\ Cardinality(Later(Append(s, t))) = Cardinality(Later(s))
              + (IF t - Latest(s) > Gap THEN 1 ELSE 0)
<1>. DEFINE n == Len(s)
            u == Append(s, t)
<1>1. n \in Nat /\ n >= 1 /\ Len(u) = n + 1 /\ u[n + 1] = t /\ \A i \in 1..n : u[i] = s[i]
  OBVIOUS
<1>2. n \notin Later(s) /\ Later(s) \subseteq 1..(n - 1)
  BY <1>1 DEF Later
<1>3. CASE t - Latest(s) > Gap
  <2>1. Later(u) = Later(s) \cup {n}
    BY <1>1, <1>3 DEF Later, Latest
  <2>2. IsFiniteSet(Later(s)) /\ n \notin Later(s)
    BY <1>2, LaterFinite
  <2>3. Cardinality(Later(s) \cup {n}) = Cardinality(Later(s)) + 1
    BY <2>2, FS_AddElement
  <2>4. Cardinality(Later(u)) = Cardinality(Later(s)) + 1
    BY <2>1, <2>3
  <2>. QED  BY <2>4, <1>1, <1>3 DEF Latest
<1>4. CASE ~(t - Latest(s) > Gap)
  <2>1. Later(u) = Later(s)
    BY <1>1, <1>4 DEF Later, Latest
  <2>2. Cardinality(Later(s)) \in Nat
    BY LaterFinite
  <2>3. Cardinality(Later(u)) = Cardinality(Later(s)) + 0
    BY <2>1, <2>2
  <2>. QED  BY <2>3, <1>1, <1>4 DEF Latest
<1>. QED  BY <1>3, <1>4

(* A new profile agrees with an empty log.                                 *)
LEMMA FirstVisit ==
  ASSUME NEW p, p.made \in Int, p.last = p.made, p.visits = 1
  PROVE  Agrees(p, << >>)
<1>1. <<p.made>> \o << >> = <<p.made>> /\ Len(<<p.made>>) = 1
  OBVIOUS
<1>2. Later(<<p.made>>) = {}
  BY DEF Later
<1>3. Cardinality(Later(<<p.made>>)) = 0 /\ Latest(<<p.made>>) = p.made
  BY <1>1, <1>2, FS_EmptySet DEF Latest
<1>. QED  BY <1>1, <1>3 DEF Agrees

(* What a scan makes of profile and log together.                          *)
LEMMA VisitAgrees ==
  ASSUME PeopleAssumption, NEW p, NEW r, NEW l \in Seq(Int), NEW t \in Int, p.made \in Int,
         Agrees(p, l),
         r.made = p.made, r.last = t, r.visits = Faces!Visits(p, t)
  PROVE  Agrees(r, Append(l, t))
<1>. DEFINE s == <<p.made>> \o l
<1>1. s \in Seq(Int) /\ s # << >> /\ <<r.made>> \o Append(l, t) = Append(s, t)
  OBVIOUS
<1>2. Cardinality(Later(s)) \in Nat
  BY <1>1, LaterFinite
<1>3. p.visits = 1 + Cardinality(Later(s)) /\ p.last = Latest(s)
  BY DEF Agrees
<1>. HIDE DEF s
<1>4. r.visits = p.visits + (IF t - Latest(s) > Gap THEN 1 ELSE 0)
  BY <1>2, <1>3 DEF Faces!Visits, Faces!IsNewDiningSession
<1>5. r.visits = 1 + Cardinality(Later(Append(s, t))) /\ t = Latest(Append(s, t))
  BY <1>1, <1>2, <1>3, <1>4, OneMore
<1>. QED  BY <1>1, <1>5 DEF Agrees

(* What scans have read and are still to log.                              *)
Counting(c, f) == v5[c].at = "count" /\ v5[c].profile = f
Logging(c, f) == v5[c].at = "log" /\ v5[c].profile = f
Unscanned == {Faces!NoRow, Faces!Gone}
GuestTypes ==
  /\ v1 \in Faces!Time /\ v2 \in [Profiles -> Unscanned \cup Faces!Profile]
  /\ v3 \in [Profiles -> Seq(Faces!Time)]
  /\ v5 \in [Cameras -> {Faces!Idle}
        \cup [at : {"count"}, profile : Profiles, was : Faces!Profile, time : Faces!Time]
        \cup [at : {"log"}, profile : Profiles, time : Faces!Time]
        \cup [at : {"enrol"}, person : Persons]]
(* A profile says what the log does, unless a scan of it was not logged.    *)
Tells(p, l) == p.logged = "some" \/ Agrees(p, l)
GuestRow(f) ==
  /\ ~Faces!Exists(f) => v3[f] = << >>
  /\ Faces!Exists(f) =>
       /\ v2[f].visits <= v2[f].last + 1 /\ v2[f].last <= v1
       /\ Tells(v2[f], v3[f]) \/ \E c \in Cameras : Logging(c, f)
       /\ \A c \in Cameras : Logging(c, f) => Tells(v2[f], Append(v3[f], v5[c].time))
GuestScan(c, f) ==
  /\ Counting(c, f) \/ Logging(c, f) => v2[f] # Faces!NoRow
  /\ Counting(c, f) /\ Faces!Exists(f) =>
       /\ v5[c].was.visits = v2[f].visits /\ v5[c].was.last = v2[f].last
       /\ v2[f].last <= v5[c].time /\ v5[c].time <= v1
(* Counts and logs agree, but for the profile of a scan half done.         *)
GuestInv ==
  /\ GuestTypes /\ \A f \in Profiles : GuestRow(f)
  /\ \A c \in Cameras, f \in Profiles : GuestScan(c, f)

(* With no profiles the counts agree with the logs.                        *)
LEMMA GuestStarts ==
  ASSUME PeopleAssumption, Faces!Init
  PROVE  GuestInv
<1>1. GuestTypes
  BY DEF PeopleAssumption, Faces!GuestsAssumption, Faces!Init, GuestTypes, Faces!Time, Unscanned
<1>2. \A f \in Profiles : ~Faces!Exists(f) /\ v3[f] = << >>
  BY DEF Faces!Init, Faces!Exists
<1>3. \A c \in Cameras, f \in Profiles : ~Counting(c, f) /\ ~Logging(c, f)
  BY DEF Faces!Init, Faces!Idle, Counting, Logging
<1>. QED  BY <1>1, <1>2, <1>3 DEF GuestInv, GuestRow, GuestScan

(* When no scan is under way they agree for every profile.                 *)
LEMMA GuestsCounted ==
  ASSUME GuestInv
  PROVE  Faces!VisitsCounted
<1>1. SUFFICES ASSUME NEW f \in Profiles, Faces!Exists(f), v2[f].logged = "all",
                      \A c \in Cameras : v5[c] = Faces!Idle
               PROVE  LET seen == <<v2[f].made>> \o v3[f]
                          later == {i \in 1..(Len(seen) - 1) : seen[i + 1] - seen[i] > Gap} IN
                        v2[f].visits = 1 + Faces!Cardinality(later)
  BY DEF Faces!VisitsCounted
<1>2. \A c \in Cameras : ~Logging(c, f)
  BY <1>1 DEF Logging, Faces!Idle
<1>3. Agrees(v2[f], v3[f])
  BY <1>1, <1>2 DEF GuestInv, GuestRow, Tells
<1>. QED  BY <1>3, Counts DEF Agrees, Later

(* The parts of the invariant.                                             *)
LEMMA GuestParts ==
  ASSUME PeopleAssumption, GuestInv
  PROVE  /\ GuestTypes /\ LastScan \in Nat /\ Gap \in Nat \ {0}
         /\ \A f \in Profiles : GuestRow(f) /\ (Faces!Exists(f) <=> v2[f] \in Faces!Profile)
         /\ \A c \in Cameras, f \in Profiles : GuestScan(c, f)
  BY DEF GuestInv, GuestTypes, PeopleAssumption, Faces!GuestsAssumption, Faces!Exists, Unscanned,
   Faces!NoRow, Faces!Gone, Faces!Profile, Faces!Tiers

(* No other camera is at work.                                             *)
LEMMA CamerasAlone ==
  ASSUME OneAtATime, GuestTypes, NEW c \in Cameras, NEW w, v5' = [v5 EXCEPT ![c] = w]
  PROVE  \A d \in Cameras : d = c /\ v5'[d] = w
  BY DEF OneAtATime, GuestTypes

(* Time passes.                                                            *)
LEMMA Ticked ==
  ASSUME PeopleAssumption, GuestInv, Faces!Tick
  PROVE  GuestInv'
<1>1. v1' = v1 + 1 /\ v1' \in Faces!Time /\ UNCHANGED <<v2, v3, v5>>
  BY GuestParts DEF Faces!Tick, Faces!Time, GuestTypes
<1>2. \A f \in Profiles : Faces!Exists(f) => v2[f].last \in Int /\ v2[f].made \in Int
  BY GuestParts DEF Faces!Profile, Faces!Time
<1>3. GuestTypes'
  BY <1>1, GuestParts DEF GuestTypes
<1>4. ASSUME NEW f \in Profiles PROVE GuestRow(f)'
  BY <1>1, <1>2, GuestParts DEF GuestRow, Faces!Exists, Logging, Faces!Time, GuestTypes
<1>5. ASSUME NEW f \in Profiles, NEW c \in Cameras PROVE GuestScan(c, f)'
  <2>1. Counting(c, f) => v5[c].time \in Int
    BY DEF Counting, GuestInv, GuestTypes, Faces!Time, Faces!Idle
  <2>. QED  BY <1>1, <2>1, GuestParts DEF GuestScan, Faces!Exists, Counting, Logging, Faces!Time,
         GuestTypes
<1>. QED  BY <1>3, <1>4, <1>5 DEF GuestInv

(* A scan begins and remembers the profile as it is.                       *)
LEMMA ScanStarts ==
  ASSUME PeopleAssumption, OneAtATime, GuestInv, NEW c \in Cameras
  PROVE  /\ \A f \in Profiles : Faces!ScanMatched(c, f) => GuestInv'
         /\ \A p \in Persons : Faces!ScanUnknown(c, p) => GuestInv'
<1>1. ASSUME NEW w, w \in [at : {"enrol"}, person : Persons]
               \/ \E f \in Profiles : Faces!Exists(f) /\ w = [at |-> "count", profile |-> f,
                    was |-> v2[f], time |-> v1],
             v5[c] = Faces!Idle, v5' = [v5 EXCEPT ![c] = w], UNCHANGED <<v1, v2, v3>>
      PROVE  GuestInv'
  <2>1. \A d \in Cameras : d = c /\ v5'[d] = w
    BY <1>1, GuestParts, CamerasAlone
  <2>2. GuestTypes'
    BY <1>1, GuestParts DEF GuestTypes
  <2>3. \A f \in Profiles : ~Logging(c, f) /\ ~Logging(c, f)'
    BY <1>1, <2>1 DEF Logging, Faces!Idle
  <2>4. ASSUME NEW f \in Profiles PROVE GuestRow(f)'
    BY <1>1, <2>1, <2>3, GuestParts DEF GuestRow, Faces!Exists
  <2>5. ASSUME NEW f \in Profiles PROVE GuestScan(c, f)'
    <3>1. v2[f] \in Faces!Profile => v2[f] # Faces!NoRow
      BY DEF Faces!Profile, Faces!NoRow
    <3>2. Faces!Exists(f) => v2[f].last <= v1
      BY GuestParts DEF GuestRow
    <3>3. v1 \in Int
      BY GuestParts DEF GuestTypes, Faces!Time
    <3>. QED  BY <1>1, <2>1, <2>3, <3>1, <3>2, <3>3, GuestParts DEF GuestScan, Faces!Exists,
           Counting
  <2>. QED  BY <2>1, <2>2, <2>4, <2>5 DEF GuestInv
<1>2. ASSUME NEW f \in Profiles, Faces!ScanMatched(c, f) PROVE GuestInv'
  <2>. DEFINE w == [at |-> "count", profile |-> f, was |-> v2[f], time |-> v1]
  <2>1. Faces!Exists(f) /\ v5[c] = Faces!Idle /\ v5' = [v5 EXCEPT ![c] = w]
       /\ UNCHANGED <<v1, v2, v3>>
    BY <1>2 DEF Faces!ScanMatched, Faces!Goto
  <2>. QED  BY <2>1, <1>1
<1>3. ASSUME NEW p \in Persons, Faces!ScanUnknown(c, p) PROVE GuestInv'
  <2>. DEFINE w == [at |-> "enrol", person |-> p]
  <2>1. v5[c] = Faces!Idle /\ v5' = [v5 EXCEPT ![c] = w] /\ UNCHANGED <<v1, v2, v3>>
    BY <1>3 DEF Faces!ScanUnknown, Faces!Goto
  <2>. QED  BY <2>1, <1>1
<1>. QED  BY <1>2, <1>3

(* It counts the visit on what it read, which is still so,                 *)
LEMMA VisitCounted ==
  ASSUME PeopleAssumption, OneAtATime, GuestInv, NEW c \in Cameras, Faces!CountVisit(c)
  PROVE  GuestInv'
<1>. DEFINE w == v5[c]
            f == w.profile
            n == Faces!Visits(w.was, w.time)
            p == v2[f]
            row == [p EXCEPT !.visits = n, !.last = w.time,
              !.tier = Faces!Promoted(w.was.tier, n)]
<1>1. /\ w \in [at : {"count"}, profile : Profiles, was : Faces!Profile, time : Faces!Time]
      /\ UNCHANGED <<v1, v3>> /\ Counting(c, f) /\ \A g \in Profiles : ~Logging(c, g)
  BY GuestParts DEF Faces!CountVisit, GuestTypes, Faces!Idle, Counting, Logging
<1>2. GuestRow(f) /\ GuestScan(c, f) /\ f \in Profiles /\ p # Faces!NoRow
  BY <1>1, GuestParts DEF GuestScan
<1>3. CASE ~Faces!Exists(f)
  <2>1. v2' = v2 /\ v5' = [v5 EXCEPT ![c] = Faces!Idle]
    BY <1>3 DEF Faces!CountVisit, Faces!Goto
  <2>2. \A d \in Cameras : d = c /\ v5'[d] = Faces!Idle
    BY <2>1, GuestParts, CamerasAlone
  <2>3. GuestTypes'
    BY <1>1, <2>1, GuestParts DEF GuestTypes
  <2>4. \A g \in Profiles : ~Logging(c, g)' /\ ~Counting(c, g)'
    BY <2>2 DEF Logging, Counting, Faces!Idle
  <2>. HIDE DEF w, n, row
  <2>5. \A g \in Profiles : GuestRow(g)' /\ GuestScan(c, g)'
    BY <1>1, <2>1, <2>2, <2>4, GuestParts DEF GuestRow, GuestScan, Faces!Exists
  <2>. QED  BY <2>2, <2>3, <2>5 DEF GuestInv
<1>4. CASE Faces!Exists(f)
  <2>. DEFINE x == [at |-> "log", profile |-> f, time |-> w.time]
  <2>1. v2' = [v2 EXCEPT ![f] = row] /\ v5' = [v5 EXCEPT ![c] = x]
    BY <1>4 DEF Faces!CountVisit, Faces!Goto
  <2>2. /\ p \in Faces!Profile /\ w.was.visits = p.visits /\ w.was.last = p.last
             /\ p.last <= w.time
        /\ w.time <= v1 /\ p.visits <= p.last + 1 /\ \A d \in Cameras : ~Logging(d, f)
    BY <1>1, <1>2, <1>4, GuestParts DEF GuestRow, GuestScan, OneAtATime
  <2>3. p.logged = "some" \/ Agrees(p, v3[f])
    BY <1>2, <1>4, <2>2 DEF GuestRow, Tells
  <2>4. /\ w.time \in Int /\ p.last \in Int /\ p.visits \in Int /\ p.visits >= 1 /\ p.made \in Int
        /\ w.time \in Faces!Time /\ w.time <= LastScan
    BY <1>1, <2>2 DEF Faces!Profile, Faces!Time
  <2>5. n = Faces!Visits(p, w.time) /\ n \in Int /\ n >= 1 /\ n <= w.time + 1
    BY <2>2, <2>4, GuestParts DEF Faces!Visits, Faces!IsNewDiningSession
  <2>6. Faces!Promoted(w.was.tier, n) \in Faces!Tiers
    BY <1>1 DEF Faces!Promoted, Faces!Profile, Faces!Tiers
  <2>7. /\ row \in Faces!Profile /\ row.made = p.made /\ row.last = w.time /\ row.visits = n
        /\ row.logged = p.logged /\ row # Faces!NoRow /\ row # Faces!Gone
    <3>1. n \in 1..(LastScan + 1)
      BY <2>4, <2>5, GuestParts
    <3>. HIDE DEF n
    <3>2. /\ row \in Faces!Profile /\ row.made = p.made /\ row.last = w.time
          /\ row.visits = n /\ row.logged = p.logged
      BY <2>2, <2>4, <2>6, <3>1 DEF Faces!Profile
    <3>. HIDE DEF row
    <3>. QED  BY <3>2 DEF Faces!Profile, Faces!NoRow, Faces!Gone, Faces!Tiers
  <2>8. v3[f] \in Seq(Int)
    BY <1>2, GuestParts DEF GuestTypes, Faces!Time
  <2>. HIDE DEF row, n
  <2>9. Tells(row, Append(v3[f], w.time))
    <3>1. Agrees(p, v3[f]) => Agrees(row, Append(v3[f], w.time))
      BY <2>4, <2>5, <2>7, <2>8, VisitAgrees
    <3>. QED  BY <2>3, <2>7, <3>1 DEF Tells
  <2>10. x \in [at : {"log"}, profile : Profiles, time : Faces!Time]
         /\ x.at = "log" /\ x.profile = f /\ x.time = w.time
    BY <1>1
  <2>. HIDE DEF x, w, p, f
  <2>11. \A d \in Cameras : d = c /\ v5'[d] = x
    BY <2>1, GuestParts, CamerasAlone
  <2>12. GuestTypes'
    BY <1>1, <1>2, <2>1, <2>7, <2>10, GuestParts DEF GuestTypes
  <2>13. v2'[f] = row /\ \A g \in Profiles : g # f => v2'[g] = v2[g]
    BY <1>2, <2>1, GuestParts DEF GuestTypes
  <2>14. \A g \in Profiles : (Logging(c, g)' <=> g = f) /\ ~Counting(c, g)'
    BY <2>10, <2>11 DEF Logging, Counting
  <2>15. ASSUME NEW g \in Profiles PROVE GuestRow(g)'
    <3>1. CASE g = f
      <4>1. Faces!Exists(g)'
        BY <3>1, <2>7, <2>13 DEF Faces!Exists
      <4>2. row.visits <= row.last + 1 /\ row.last <= v1
        BY <2>2, <2>5, <2>7
      <4>. QED  BY <1>1, <1>2, <3>1, <4>1, <4>2, <2>7, <2>9, <2>10, <2>11, <2>13, <2>14
             DEF GuestRow
    <3>2. CASE g # f
      BY <1>1, <1>2, <3>2, <2>11, <2>13, <2>14, GuestParts DEF GuestRow, Faces!Exists
    <3>. QED  BY <3>1, <3>2
  <2>16. ASSUME NEW g \in Profiles PROVE GuestScan(c, g)'
    BY <2>7, <2>13, <2>14 DEF GuestScan
  <2>. QED  BY <2>11, <2>12, <2>15, <2>16 DEF GuestInv
<1>. QED  BY <1>3, <1>4

(* and logs it, which brings count and log together.                       *)
LEMMA VisitLogged ==
  ASSUME PeopleAssumption, OneAtATime, GuestInv, NEW c \in Cameras, Faces!LogVisit(c)
  PROVE  GuestInv'
<1>. DEFINE w == v5[c]
            f == w.profile
            l == IF Faces!Exists(f) THEN Append(v3[f], w.time) ELSE v3[f]
<1>1. /\ w \in [at : {"log"}, profile : Profiles, time : Faces!Time] /\ Logging(c, f)
      /\ UNCHANGED <<v1, v2>> /\ v3' = [v3 EXCEPT ![f] = l] /\ v5' = [v5 EXCEPT ![c] = Faces!Idle]
  BY GuestParts DEF Faces!LogVisit, Faces!Goto, GuestTypes, Faces!Idle, Logging
<1>2. f \in Profiles /\ l \in Seq(Faces!Time) /\ GuestRow(f)
  BY <1>1, GuestParts DEF GuestTypes
<1>3. Faces!Exists(f) => Tells(v2[f], l)
  BY <1>1, <1>2 DEF GuestRow
<1>4. ~Faces!Exists(f) => l = << >>
  BY <1>2 DEF GuestRow
<1>5. \A g \in Profiles : Logging(c, g) => g = f
  BY DEF Logging
<1>. HIDE DEF l, f, w
<1>6. \A d \in Cameras : d = c /\ v5'[d] = Faces!Idle
  BY <1>1, GuestParts, CamerasAlone
<1>7. GuestTypes'
  BY <1>1, <1>2, GuestParts DEF GuestTypes
<1>8. \A g \in Profiles : ~Logging(c, g)' /\ ~Counting(c, g)'
  BY <1>6 DEF Logging, Counting, Faces!Idle
<1>9. ASSUME NEW g \in Profiles PROVE GuestRow(g)' /\ GuestScan(c, g)'
  <2>1. v3'[f] = l /\ (g # f => v3'[g] = v3[g])
    BY <1>1, <1>2, GuestParts DEF GuestTypes
  <2>2. GuestRow(g)'
    BY <1>1, <1>2, <1>3, <1>4, <1>5, <1>6, <1>8, <2>1, GuestParts DEF GuestRow, Faces!Exists
  <2>. QED  BY <2>2, <1>8 DEF GuestScan
<1>. QED  BY <1>6, <1>7, <1>9 DEF GuestInv

(* A scan that stops counted nothing more, and is known not to be logged.  *)
LEMMA ScanStops ==
  ASSUME PeopleAssumption, OneAtATime, GuestInv, NEW c \in Cameras, Faces!Stop(c)
  PROVE  GuestInv'
<1>1. v5' = [v5 EXCEPT ![c] = Faces!Idle] /\ UNCHANGED <<v1, v3>>
  BY DEF Faces!Stop, Faces!Goto
<1>2. \A d \in Cameras : d = c /\ v5'[d] = Faces!Idle
  BY <1>1, GuestParts, CamerasAlone
<1>3. \A g \in Profiles : ~Logging(c, g)' /\ ~Counting(c, g)'
  BY <1>2 DEF Logging, Counting, Faces!Idle
<1>4. v5' \in [Cameras -> {Faces!Idle}]
  BY <1>1, <1>2, GuestParts DEF GuestTypes
<1>5. ASSUME NEW f \in Profiles, Faces!Exists(f), Logging(c, f),
             v2' = [v2 EXCEPT ![f].logged = "some"]
      PROVE  GuestInv'
  <2>1. PICK r : r = [v2[f] EXCEPT !.logged = "some"]
    OBVIOUS
  <2>2. /\ r \in Faces!Profile /\ r.visits = v2[f].visits /\ r.last = v2[f].last
        /\ r.logged = "some"
    BY <1>5, <2>1, GuestParts DEF Faces!Profile
  <2>3. r \notin Unscanned
    BY <2>2 DEF Unscanned, Faces!Profile, Faces!NoRow, Faces!Gone, Faces!Tiers
  <2>4. v2' = [v2 EXCEPT ![f] = r] /\ v2'[f] = r /\ \A g \in Profiles : g # f => v2'[g] = v2[g]
    BY <1>5, <2>1, GuestParts DEF GuestTypes
  <2>5. GuestTypes'
    BY <1>1, <1>4, <2>2, <2>4, GuestParts DEF GuestTypes
  <2>6. \A g \in Profiles : Faces!Exists(g)' <=> Faces!Exists(g)
    BY <1>5, <2>3, <2>4 DEF Faces!Exists, Unscanned
  <2>7. ASSUME NEW g \in Profiles PROVE GuestRow(g)' /\ GuestScan(c, g)'
    <3>1. CASE g = f
      BY <1>1, <1>2, <1>3, <1>5, <3>1, <2>2, <2>4, <2>6, GuestParts DEF GuestRow, GuestScan, Tells
    <3>2. CASE g # f
      <4>1. ~Logging(c, g)
        BY <1>5, <3>2 DEF Logging
      <4>. QED  BY <1>1, <1>2, <1>3, <4>1, <3>2, <2>4, <2>6, GuestParts DEF GuestRow, GuestScan
    <3>. QED  BY <3>1, <3>2
  <2>. QED  BY <1>2, <2>5, <2>7 DEF GuestInv
<1>6. ASSUME UNCHANGED v2, \A f \in Profiles : Logging(c, f) => ~Faces!Exists(f)
      PROVE  GuestInv'
  <2>1. GuestTypes'
    BY <1>1, <1>4, <1>6, GuestParts DEF GuestTypes
  <2>2. ASSUME NEW g \in Profiles PROVE GuestRow(g)' /\ GuestScan(c, g)'
    BY <1>1, <1>2, <1>3, <1>6, GuestParts DEF GuestRow, GuestScan, Faces!Exists
  <2>. QED  BY <1>2, <2>1, <2>2 DEF GuestInv
<1>7. v5[c].at = "log" => v5[c].profile \in Profiles
  BY GuestParts DEF GuestTypes, Faces!Idle
<1>. QED  BY <1>5, <1>6, <1>7 DEF Faces!Stop, Logging

(* A new profile has been seen once, now, and agrees with the log that     *)
(* says so.                                                                *)
LEMMA NewProfile ==
  ASSUME PeopleAssumption, GuestInv, NEW p \in Persons, NEW t \in Faces!Tiers
  PROVE  /\ Faces!New(p, t) \in Faces!Profile /\ Faces!New(p, t) \notin Unscanned
         /\ Faces!New(p, t).visits = 1 /\ Faces!New(p, t).last = v1
         /\ Tells(Faces!New(p, t), << >>) /\ Tells(Faces!New(p, t), Append(<< >>, v1))
         /\ 0 <= v1
<1>. DEFINE r == Faces!New(p, t)
<1>1. v1 \in Faces!Time /\ v1 \in Int /\ 0 <= v1 /\ 1 \in 1..(LastScan + 1)
  BY GuestParts DEF GuestTypes, Faces!Time
<1>2. r \in Faces!Profile /\ r.visits = 1 /\ r.last = v1 /\ r.made = v1
  BY <1>1 DEF Faces!New, Faces!Profile
<1>. HIDE DEF r
<1>3. r \notin Unscanned
  BY <1>2 DEF Unscanned, Faces!Profile, Faces!NoRow, Faces!Gone, Faces!Tiers
<1>4. Agrees(r, << >>)
  BY <1>1, <1>2, FirstVisit
<1>5. r.visits = Faces!Visits(r, v1)
  BY <1>1, <1>2, GuestParts DEF Faces!Visits, Faces!IsNewDiningSession
<1>6. << >> \in Seq(Int)
  OBVIOUS
<1>7. Agrees(r, Append(<< >>, v1))
  BY <1>1, <1>2, <1>4, <1>5, <1>6, VisitAgrees
<1>. QED  BY <1>1, <1>2, <1>3, <1>4, <1>7 DEF r, Tells

(* A profile is made by a scan, which is still to log it, or by a manager. *)
LEMMA ProfileMade ==
  ASSUME PeopleAssumption, OneAtATime, GuestInv, NEW f \in Profiles
  PROVE  /\ \A c \in Cameras : Faces!Enrol(c, f) => GuestInv'
         /\ \A p \in Persons, t \in Faces!Tiers : Faces!CreateCustomer(f, p, t) => GuestInv'
<1>1. ASSUME NEW c \in Cameras, Faces!Enrol(c, f) PROVE GuestInv'
  <2>. DEFINE r == Faces!New(v5[c].person, "REGULAR")
              x == [at |-> "log", profile |-> f, time |-> v1]
  <2>1. /\ v5[c].at = "enrol" /\ v2[f] = Faces!NoRow /\ v2' = [v2 EXCEPT ![f] = r]
        /\ v5' = [v5 EXCEPT ![c] = x] /\ UNCHANGED <<v1, v3>>
    BY <1>1 DEF Faces!Enrol, Faces!Goto
  <2>2. v5[c].person \in Persons /\ "REGULAR" \in Faces!Tiers
    BY <2>1, GuestParts DEF GuestTypes, Faces!Idle, Faces!Tiers
  <2>3. /\ r \in Faces!Profile /\ r \notin Unscanned /\ r.visits = 1 /\ r.last = v1
        /\ Tells(r, Append(<< >>, v1)) /\ 0 <= v1
    BY <2>2, NewProfile
  <2>4. x \in [at : {"log"}, profile : Profiles, time : Faces!Time] /\ x.at = "log"
          /\ x.profile = f /\ x.time = v1
    BY GuestParts DEF GuestTypes
  <2>5. v3[f] = << >>
    BY <2>1, GuestParts DEF GuestRow, Faces!Exists
  <2>. HIDE DEF r, x
  <2>6. \A d \in Cameras : d = c /\ v5'[d] = x
    BY <2>1, GuestParts, CamerasAlone
  <2>7. GuestTypes'
    BY <2>1, <2>3, <2>4, GuestParts DEF GuestTypes
  <2>8. v2'[f] = r /\ \A g \in Profiles : g # f => v2'[g] = v2[g]
    BY <2>1, GuestParts DEF GuestTypes
  <2>9. \A g \in Profiles : ~Logging(c, g) /\ (Logging(c, g)' <=> g = f) /\ ~Counting(c, g)'
    BY <2>1, <2>4, <2>6 DEF Logging, Counting
  <2>10. ASSUME NEW g \in Profiles PROVE GuestRow(g)'
    <3>1. CASE g = f
      <4>1. Faces!Exists(f)' /\ 1 <= v1 + 1
        BY <2>3, <2>8, GuestParts DEF Faces!Exists, Unscanned, GuestTypes, Faces!Time
      <4>2. v1 <= v1
        BY GuestParts DEF GuestTypes, Faces!Time
      <4>. QED  BY <2>1, <3>1, <4>1, <4>2, <2>3, <2>4, <2>5, <2>6, <2>8, <2>9 DEF GuestRow
    <3>2. CASE g # f
      BY <2>1, <3>2, <2>6, <2>8, <2>9, GuestParts DEF GuestRow, Faces!Exists
    <3>. QED  BY <3>1, <3>2
  <2>11. ASSUME NEW g \in Profiles PROVE GuestScan(c, g)'
    BY <2>3, <2>8, <2>9 DEF GuestScan, Unscanned
  <2>. QED  BY <2>6, <2>7, <2>10, <2>11 DEF GuestInv
<1>2. ASSUME NEW p \in Persons, NEW t \in Faces!Tiers, Faces!CreateCustomer(f, p, t)
      PROVE GuestInv'
  <2>. DEFINE r == Faces!New(p, t)
  <2>1. v2[f] = Faces!NoRow /\ v2' = [v2 EXCEPT ![f] = r] /\ UNCHANGED <<v1, v3, v5>>
    BY <1>2 DEF Faces!CreateCustomer
  <2>2. r \in Faces!Profile /\ r \notin Unscanned /\ r.visits = 1 /\ r.last = v1
          /\ Tells(r, << >>) /\ 0 <= v1
    BY NewProfile
  <2>3. v3[f] = << >> /\ \A c \in Cameras : ~Logging(c, f) /\ ~Counting(c, f)
    BY <2>1, GuestParts DEF GuestRow, GuestScan, Faces!Exists
  <2>. HIDE DEF r
  <2>4. GuestTypes'
    BY <2>1, <2>2, GuestParts DEF GuestTypes
  <2>5. v2'[f] = r /\ \A g \in Profiles : g # f => v2'[g] = v2[g]
    BY <2>1, GuestParts DEF GuestTypes
  <2>6. ASSUME NEW g \in Profiles PROVE GuestRow(g)'
    <3>1. CASE g = f
      <4>1. 1 <= v1 + 1 /\ v1 <= v1
        BY <2>2, GuestParts DEF GuestTypes, Faces!Time
      <4>. QED  BY <3>1, <4>1, <2>1, <2>2, <2>3, <2>5 DEF GuestRow, Faces!Exists, Logging
    <3>2. CASE g # f
      BY <2>1, <3>2, <2>5, GuestParts DEF GuestRow, Faces!Exists, Logging
    <3>. QED  BY <3>1, <3>2
  <2>7. ASSUME NEW c \in Cameras, NEW g \in Profiles PROVE GuestScan(c, g)'
    BY <2>1, <2>3, <2>5, GuestParts DEF GuestScan, Faces!Exists, Logging, Counting
  <2>. QED  BY <2>4, <2>6, <2>7 DEF GuestInv
<1>. QED  BY <1>1, <1>2

(* A manager changes the tier, which counts nothing, or deletes the        *)
(* profile with its log.                                                   *)
LEMMA ProfileChanges ==
  ASSUME PeopleAssumption, OneAtATime, GuestInv, NEW f \in Profiles
  PROVE  /\ \A t \in Faces!Tiers : Faces!UpdateCustomer(f, t) => GuestInv'
         /\ Faces!DeleteCustomer(f) => GuestInv'
<1>1. ASSUME NEW t \in Faces!Tiers, Faces!UpdateCustomer(f, t) PROVE GuestInv'
  <2>. DEFINE r == [v2[f] EXCEPT !.tier = t]
  <2>1. Faces!Exists(f) /\ v2' = [v2 EXCEPT ![f] = r] /\ UNCHANGED <<v1, v3, v5>>
    BY <1>1 DEF Faces!UpdateCustomer
  <2>2. r \in Faces!Profile /\ r.visits = v2[f].visits /\ r.last = v2[f].last
          /\ r.made = v2[f].made /\ r.logged = v2[f].logged
    BY <2>1, GuestParts DEF Faces!Profile
  <2>. HIDE DEF r
  <2>3. r \notin Unscanned
    BY <2>2 DEF Unscanned, Faces!Profile, Faces!NoRow, Faces!Gone, Faces!Tiers
  <2>4. GuestTypes'
    BY <2>1, <2>2, GuestParts DEF GuestTypes
  <2>5. v2'[f] = r /\ \A g \in Profiles : g # f => v2'[g] = v2[g]
    BY <2>1, GuestParts DEF GuestTypes
  <2>6. \A g \in Profiles : Faces!Exists(g)' <=> Faces!Exists(g)
    BY <2>1, <2>3, <2>5 DEF Faces!Exists, Unscanned
  <2>7. \A l : Tells(v2[f], l) <=> Tells(r, l)
    BY <2>2 DEF Agrees, Tells
  <2>8. ASSUME NEW g \in Profiles PROVE GuestRow(g)'
    <3>1. CASE g = f
      BY <3>1, <2>1, <2>2, <2>5, <2>6, <2>7, GuestParts DEF GuestRow, Logging
    <3>2. CASE g # f
      BY <2>1, <3>2, <2>5, <2>6, GuestParts DEF GuestRow, Logging
    <3>. QED  BY <3>1, <3>2
  <2>9. ASSUME NEW c \in Cameras, NEW g \in Profiles PROVE GuestScan(c, g)'
    BY <2>1, <2>2, <2>3, <2>5, <2>6, GuestParts DEF GuestScan, Logging, Counting, Unscanned
  <2>. QED  BY <2>4, <2>8, <2>9 DEF GuestInv
<1>2. ASSUME Faces!DeleteCustomer(f) PROVE GuestInv'
  <2>1. v2' = [v2 EXCEPT ![f] = Faces!Gone] /\ v3' = [v3 EXCEPT ![f] = << >>]
       /\ UNCHANGED <<v1, v5>>
    BY <1>2 DEF Faces!DeleteCustomer
  <2>2. GuestTypes'
    BY <2>1, GuestParts DEF GuestTypes, Unscanned
  <2>3. /\ v2'[f] = Faces!Gone /\ \A g \in Profiles : g # f => v2'[g] = v2[g]
        /\ v3'[f] = << >> /\ \A g \in Profiles : g # f => v3'[g] = v3[g]
    BY <2>1, GuestParts DEF GuestTypes
  <2>4. Faces!Gone # Faces!NoRow
    BY DEF Faces!Gone, Faces!NoRow
  <2>5. ASSUME NEW g \in Profiles PROVE GuestRow(g)'
    BY <2>1, <2>3, GuestParts DEF GuestRow, Logging, Faces!Exists
  <2>6. ASSUME NEW c \in Cameras, NEW g \in Profiles PROVE GuestScan(c, g)'
    BY <2>1, <2>3, <2>4, GuestParts DEF GuestScan, Logging, Counting, Faces!Exists
  <2>. QED  BY <2>2, <2>5, <2>6 DEF GuestInv
<1>. QED  BY <1>1, <1>2

(* Every step of recognition keeps the invariant.                          *)
LEMMA GuestGoesOn ==
  ASSUME PeopleAssumption, OneAtATime, GuestInv, Faces!Next
  PROVE  GuestInv'
  BY Ticked, ScanStarts, VisitCounted, VisitLogged, ScanStops, ProfileMade, ProfileChanges DEF Faces!Next
-----------------------------------------------------------------------------
(* Division with remainder.                                                *)
LEMMA Divides ==
  ASSUME NEW H \in Nat \ {0}, NEW t \in Int
  PROVE  /\ t \div H \in Int /\ t % H \in 0..(H - 1) /\ t = H * (t \div H) + (t % H)
         /\ t >= 0 => t \div H >= 0
<1>1. t \div H \in Int /\ t % H \in 0..(H - 1) /\ t = H * (t \div H) + (t % H)
  OBVIOUS
<1>2. t >= 0 => t \div H >= 0
  BY <1>1
<1>. QED  BY <1>1, <1>2

(* What differs from x by a multiple of H and lies below H is the          *)
(* remainder.                                                              *)
LEMMA Remains ==
  ASSUME NEW H \in Nat \ {0}, NEW x \in Int, NEW k \in Int, 0 <= x + k * H, x + k * H < H
  PROVE  x % H = x + k * H
<1>1. x \div H \in Int /\ x % H \in 0..(H - 1) /\ x = H * (x \div H) + (x % H)
  BY Divides
<1>. DEFINE q == x \div H + k
<1>2. q \in Int /\ x + k * H = H * q + (x % H)
  BY <1>1
<1>. HIDE DEF q
<1>3. q <= 0
  <2>1. SUFFICES ASSUME q >= 1 PROVE FALSE
    BY <1>2
  <2>2. H * q >= H
    BY <2>1, <1>2
  <2>. QED  BY <2>2, <1>1, <1>2
<1>4. q >= 0
  <2>1. SUFFICES ASSUME q <= -1 PROVE FALSE
    BY <1>2
  <2>2. H * q <= -H
    BY <2>1, <1>2
  <2>. QED  BY <2>2, <1>1, <1>2
<1>5. H * q = 0
  BY <1>2, <1>3, <1>4
<1>. QED  BY <1>1, <1>2, <1>5

(* The two cases the clock needs.                                          *)
LEMMA Rest ==
  ASSUME NEW H \in Nat \ {0}, NEW x \in Int
  PROVE  /\ 0 <= x /\ x < H => x % H = x
         /\ -H <= x /\ x < 0 => x % H = x + H
<1>1. ASSUME 0 <= x, x < H PROVE x % H = x
  <2>. DEFINE y == x + 0 * H
  <2>1. y = x /\ 0 <= y /\ y < H
    BY <1>1
  <2>2. x % H = y
    BY <2>1, Remains
  <2>. QED  BY <2>1, <2>2
<1>2. ASSUME -H <= x, x < 0 PROVE x % H = x + H
  <2>. DEFINE y == x + 1 * H
  <2>1. y = x + H /\ 0 <= y /\ y < H
    BY <1>2
  <2>2. x % H = y
    BY <2>1, Remains
  <2>. QED  BY <2>1, <2>2
<1>. QED  BY <1>1, <1>2

(* A window does not end before it starts, and nobody is later than it is  *)
(* long.                                                                   *)
Ordered(w) == w.start <= w.end
LateBounded(s) == s # NULL => s.late <= s.end - s.start + s.grace
(* The windows of the plans, and the shifts begun in them.                 *)
ClockInv ==
  /\ Clocks!TypeOK
  /\ \A m \in Workers : (\A a \in v3[m] : Ordered(a)) /\ LateBounded(v5[m])

(* What the constants are.                                                 *)
LEMMA ClockConstants ==
  ASSUME PeopleAssumption
  PROVE  /\ Hours \in Nat \ {0} /\ Zone \in 0..(Hours - 1) /\ WeekDays \in Nat \ {0}
              /\ LastHour \in Nat
         /\ Near \in Nat /\ MaxPlans \in Nat /\ NULL \notin Watches
         /\ \A s \in Watches : s.start \in 0..(Hours - 1) /\ s.end \in 0..(Hours - 1)
              /\ s.grace \in 0..Hours
  BY DEF PeopleAssumption, Clocks!ClockingAssumption

(* The branch's day and hour, and how they make up the clock.              *)
LEMMA LocalTime ==
  ASSUME PeopleAssumption, v1 \in Nat
  PROVE  /\ Clocks!LocalDay(v1) \in Nat /\ Clocks!DayCode(v1) \in 0..(WeekDays - 1)
         /\ Clocks!LocalDay(v1) * Hours \in Int
         /\ (v1 + Zone) % Hours \in 0..(Hours - 1)
         /\ v1 = Clocks!LocalDay(v1) * Hours + ((v1 + Zone) % Hours) - Zone
<1>. DEFINE D == Clocks!LocalDay(v1)
<1>1. v1 + Zone \in Int /\ v1 + Zone >= 0 /\ Hours \in Nat \ {0}
  BY ClockConstants
<1>2. D \in Int /\ D >= 0 /\ (v1 + Zone) % Hours \in 0..(Hours - 1)
        /\ v1 + Zone = Hours * D + ((v1 + Zone) % Hours)
  BY <1>1, Divides DEF Clocks!LocalDay
<1>. HIDE DEF D
<1>3. D % WeekDays \in 0..(WeekDays - 1)
  <2>1. WeekDays \in Nat \ {0}
    BY ClockConstants
  <2>. QED  BY <1>2, <2>1, Divides
<1>4. D * Hours \in Int /\ D * Hours = Hours * D
  BY <1>2, ClockConstants
<1>5. v1 = D * Hours + ((v1 + Zone) % Hours) - Zone
  BY <1>2, <1>4, ClockConstants
<1>. QED  BY <1>2, <1>3, <1>4, <1>5 DEF D, Clocks!DayCode

(* The windows of a shift, by the plan and as assigned.                    *)
LEMMA WindowsOf ==
  ASSUME PeopleAssumption, v1 \in Nat, NEW s \in Watches
  PROVE  /\ Clocks!WindowForDay(s, Clocks!LocalDay(v1)) \in Clocks!Window
         /\ Ordered(Clocks!WindowForDay(s, Clocks!LocalDay(v1)))
         /\ Clocks!Assigned(s) \in Clocks!Assignment /\ Ordered(Clocks!Assigned(s))
<1>. DEFINE d == Clocks!LocalDay(v1) * Hours
            n == (v1 \div Hours) * Hours
<1>1. d \in Int /\ n \in Int
  BY LocalTime, ClockConstants, Divides
<1>2. /\ Clocks!WindowForDay(s, Clocks!LocalDay(v1)) =
             [start |-> d + s.start - Zone,
              end |-> d + s.end - Zone + (IF s.end <= s.start THEN Hours ELSE 0),
                grace |-> s.grace]
      /\ Clocks!Assigned(s) =
             [shift |-> s, start |-> n + s.start, end |-> n + s.end
               + (IF s.end <= s.start THEN Hours ELSE 0),
              status |-> "SCHEDULED"]
  BY DEF Clocks!WindowForDay, Clocks!Assigned
<1>. HIDE DEF d, n
<1>. QED  BY <1>1, <1>2, ClockConstants DEF Clocks!Window, Clocks!Assignment, Ordered

(* So does the window a member clocks in to.                               *)
LEMMA ClockAnswers ==
  ASSUME PeopleAssumption, ClockInv, NEW m \in Workers, NEW asked \in v3[m] \cup {NULL},
         NEW w \in Clocks!ResolveClockInWindow(m, asked)
  PROVE  w \in Clocks!Window /\ Ordered(w)
<1>1. v1 \in Nat /\ v2[m][Clocks!DayCode(v1)] \in Watches \cup {NULL}
  <2>1. v1 \in Nat
    BY ClockConstants DEF ClockInv, Clocks!TypeOK
  <2>. QED  BY <2>1, LocalTime DEF ClockInv, Clocks!TypeOK
<1>2. \A a \in v3[m] : Clocks!WindowOf(a) \in Clocks!Window /\ Ordered(Clocks!WindowOf(a))
  BY ClockConstants DEF ClockInv, Clocks!TypeOK, Clocks!Assignment, Clocks!WindowOf,
     Clocks!Window, Ordered
<1>3. Clocks!Covering(m) \subseteq v3[m]
  BY DEF Clocks!Covering
<1>. QED  BY <1>1, <1>2, <1>3, WindowsOf DEF Clocks!ResolveClockInWindow

(* Nobody has clocked in at first.                                         *)
LEMMA ClockStarts ==
  ASSUME PeopleAssumption, Clocks!Init
  PROVE  ClockInv
  BY ClockConstants DEF Clocks!Init, ClockInv, Clocks!TypeOK, LateBounded

(* Whoever is planned at this hour can clock in, to a window as long as    *)
(* the shift: by the remainder, over midnight as within a day.             *)
LEMMA ClockHoldsThen ==
  ASSUME PeopleAssumption, ClockInv
  PROVE  Clocks!ClockHolds
<1>1. SUFFICES ASSUME NEW m \in Workers
               PROVE  LET s == v2[m][Clocks!DayCode(v1)]
                          clock == (v1 + Zone) % Hours
                          length == ((s.end - s.start - 1) % Hours) + 1
                      IN (s # NULL /\ clock >= s.start /\ (s.end > s.start => clock <= s.end)) =>
                         \E w \in Clocks!ResolveClockInWindow(m, NULL) : Clocks!Within(w)
                           /\ w.end - w.start = length
  BY DEF ClockInv, LateBounded, Clocks!ClockHolds
<1>. DEFINE s == v2[m][Clocks!DayCode(v1)]
            clock == (v1 + Zone) % Hours
            D == Clocks!LocalDay(v1)
            w == Clocks!WindowForDay(s, D)
<1>2. SUFFICES ASSUME s # NULL, clock >= s.start, s.end > s.start => clock <= s.end
               PROVE  Clocks!Within(w) /\ w.end - w.start = ((s.end - s.start - 1) % Hours) + 1
  BY DEF Clocks!ResolveClockInWindow
<1>3. v1 \in Nat
  BY ClockConstants DEF ClockInv, Clocks!TypeOK
<1>4. s \in Watches
  BY <1>2, <1>3, LocalTime DEF ClockInv, Clocks!TypeOK
<1>5. s.start \in 0..(Hours - 1) /\ s.end \in 0..(Hours - 1) /\ s.grace \in 0..Hours
  BY <1>4, ClockConstants
<1>6. clock \in 0..(Hours - 1) /\ D * Hours \in Int /\ v1 = D * Hours + clock - Zone
  BY <1>3, LocalTime
<1>7. /\ w.start = D * Hours + s.start - Zone /\ w.grace = s.grace
      /\ w.end = D * Hours + s.end - Zone + (IF s.end <= s.start THEN Hours ELSE 0)
  BY DEF Clocks!WindowForDay
<1>. HIDE DEF clock, D, w, s
<1>8. Clocks!Within(w)
  BY <1>2, <1>5, <1>6, <1>7, ClockConstants DEF Clocks!Within
<1>9. w.end - w.start = ((s.end - s.start - 1) % Hours) + 1
  <2>1. CASE s.end <= s.start
    <3>1. (s.end - s.start - 1) % Hours = s.end - s.start - 1 + Hours
      BY <2>1, <1>5, ClockConstants, Rest
    <3>. QED  BY <2>1, <3>1, <1>5, <1>6, <1>7, ClockConstants
  <2>2. CASE s.end > s.start
    <3>1. (s.end - s.start - 1) % Hours = s.end - s.start - 1
      BY <2>2, <1>5, ClockConstants, Rest
    <3>. QED  BY <2>2, <3>1, <1>5, <1>6, <1>7, ClockConstants
  <2>. QED  BY <2>1, <2>2, <1>5
<1>. QED  BY <1>8, <1>9

(* Every step of the time clock keeps the invariant.                       *)
LEMMA ClockGoesOn ==
  ASSUME PeopleAssumption, ClockInv, Clocks!Next
  PROVE  ClockInv'
<1>0. v1 \in Nat
  BY ClockConstants DEF ClockInv, Clocks!TypeOK
<1>1. CASE Clocks!Tick
  BY <1>1, ClockConstants DEF ClockInv, Clocks!TypeOK, Clocks!Tick, Ordered, LateBounded
<1>2. ASSUME NEW m \in Workers, NEW week \in [0..(WeekDays - 1) -> Watches \cup {NULL}],
             Clocks!ReplaceStaffDayShifts(m, week)
      PROVE  ClockInv'
  <2>. DEFINE new == {[a EXCEPT !.status = "CANCELLED"] : a \in v3[m]}
                       \cup {Clocks!Assigned(week[d]) :
                         d \in {d \in DOMAIN week : week[d] # NULL}}
  <2>1. /\ v4 < MaxPlans /\ v4' = v4 + 1 /\ v2' = [v2 EXCEPT ![m] = week]
             /\ v3' = [v3 EXCEPT ![m] = new]
        /\ UNCHANGED <<v1, v5>>
    BY <1>2 DEF Clocks!ReplaceStaffDayShifts
  <2>2. new \subseteq Clocks!Assignment /\ \A a \in new : Ordered(a)
    <3>1. \A a \in v3[m] : [a EXCEPT !.status = "CANCELLED"] \in Clocks!Assignment
            /\ Ordered([a EXCEPT !.status = "CANCELLED"])
      BY DEF ClockInv, Clocks!TypeOK, Clocks!Assignment, Ordered
    <3>2. \A d \in DOMAIN week : week[d] # NULL => Clocks!Assigned(week[d]) \in Clocks!Assignment
            /\ Ordered(Clocks!Assigned(week[d]))
      BY <1>0, WindowsOf
    <3>. QED  BY <3>1, <3>2
  <2>. HIDE DEF new
  <2>3. \A n \in Workers : v3'[n] \subseteq Clocks!Assignment /\ \A a \in v3'[n] : Ordered(a)
    <3>1. \A n \in Workers : v3'[n] = new \/ v3'[n] = v3[n]
      BY <2>1 DEF ClockInv, Clocks!TypeOK
    <3>. QED  BY <3>1, <2>2 DEF ClockInv, Clocks!TypeOK
  <2>4. Clocks!TypeOK'
    BY <2>1, <2>3, ClockConstants DEF ClockInv, Clocks!TypeOK
  <2>. QED  BY <2>1, <2>3, <2>4 DEF ClockInv, Ordered, LateBounded
<1>3. ASSUME NEW m \in Workers, Clocks!ClockOut(m)
      PROVE  ClockInv'
  BY <1>3 DEF ClockInv, Clocks!TypeOK, Clocks!ClockOut, Ordered, LateBounded
<1>4. ASSUME NEW m \in Workers, NEW asked \in v3[m] \cup {NULL},
             NEW w \in Clocks!ResolveClockInWindow(m, asked),
             Clocks!ClockIn(m, asked, w)
      PROVE  ClockInv'
  <2>. DEFINE s == [start |-> w.start, end |-> w.end, grace |-> w.grace, at |-> v1,
                    late |-> IF v1 > w.start THEN v1 - w.start ELSE 0,
                      day |-> Clocks!LocalDay(v1)]
  <2>1. Clocks!Within(w) /\ v5' = [v5 EXCEPT ![m] = s] /\ UNCHANGED <<v1, v2, v3, v4>>
    BY <1>4 DEF Clocks!ClockIn
  <2>2. w \in Clocks!Window /\ Ordered(w)
    BY ClockAnswers
  <2>3. s \in Clocks!Open
    BY <2>2, <1>0, LocalTime DEF Clocks!Open, Clocks!Window, ClockInv, Clocks!TypeOK
  <2>4. LateBounded(s)
    BY <2>1, <2>2, <1>0 DEF LateBounded, Clocks!Window, Clocks!Within, Ordered
  <2>. HIDE DEF s
  <2>. QED  BY <2>1, <2>3, <2>4 DEF ClockInv, Clocks!TypeOK, Ordered, LateBounded
<1>. QED  BY <1>1, <1>2, <1>3, <1>4 DEF Clocks!Next
-----------------------------------------------------------------------------
(* Each subject's invariant.                                               *)
PeopleInv ==
  /\ subject \in {"staff", "floor"} => StaffInv
  /\ subject = "payroll" => PayInv
  /\ subject = "leave" => LeaveInv
  /\ subject = "guests" => GuestInv
  /\ subject = "clock" => ClockInv

(* A step of nobody changes nothing they are about.                        *)
LEMMA PeopleRest ==
  ASSUME PeopleInv, UNCHANGED vars
  PROVE  PeopleInv'
<1>1. UNCHANGED <<subject, v1, v2, v3, v4, v5, v6>>
  BY DEF vars
<1>2. StaffInv => StaffInv'
  BY <1>1 DEF StaffInv, Staffs!TypeOK, Staffs!RosterHolds, Staffs!Listed
<1>3. PayInv => PayInv'
  BY <1>1 DEF PayInv, PayRequest, PayRow, Pays!TypeOK
<1>4. LeaveInv => LeaveInv'
  BY <1>1 DEF LeaveInv, LeaveReads, Leaves!TypeOK, Leaves!LeaveHolds, Leaves!Exists, Leaves!Named
<1>5. GuestInv => GuestInv'
  BY <1>1 DEF GuestInv, GuestTypes, GuestRow, GuestScan, Faces!Exists, Counting, Logging
<1>6. ClockInv => ClockInv'
  BY <1>1 DEF ClockInv, Clocks!TypeOK
<1>. QED  BY <1>1, <1>2, <1>3, <1>4, <1>5, <1>6 DEF PeopleInv

(* Each subject's step keeps its invariant.                                *)
LEMMA PeopleGoesOn ==
  ASSUME PeopleAssumption, OneAtATime, PeopleInv, PeopleNext
  PROVE  PeopleInv'
<1>1. UNCHANGED subject
  BY DEF PeopleNext
<1>2. CASE StaffNext
  BY <1>1, <1>2, StaffGoesOn DEF StaffNext, PeopleInv
<1>3. CASE subject = "payroll" /\ Pays!Next
  BY <1>1, <1>3, PayGoesOn DEF PeopleInv
<1>4. CASE subject = "leave" /\ Leaves!Next
  BY <1>1, <1>4, LeaveGoesOn DEF PeopleInv
<1>5. CASE subject = "guests" /\ Faces!Next
  BY <1>1, <1>5, GuestGoesOn DEF PeopleInv
<1>6. CASE subject = "clock" /\ Clocks!Next
  BY <1>1, <1>6, ClockGoesOn DEF PeopleInv
<1>. QED  BY <1>2, <1>3, <1>4, <1>5, <1>6 DEF PeopleNext, OfficeNext

(* What the house owes its people holds: plans and assignments agree       *)
(* (staff-coverage), pay (payroll) and leave (hr) add up, a guest seen     *)
(* again is counted (scanCustomer), a shift may be joined (clockIn).       *)
THEOREM PeopleAreServed ==
  ASSUME PeopleAssumption, OneAtATime
  PROVE  PeopleSpec => []PeopleHold
<1>1. PeopleInit => PeopleInv
  BY StaffStarts, PayStarts, LeaveStarts, GuestStarts, ClockStarts DEF PeopleInit, PeopleInv
<1>2. PeopleInv /\ [PeopleNext]_vars => PeopleInv'
  BY PeopleGoesOn, PeopleRest
<1>3. PeopleInv => PeopleHold
  BY PayHoldsThen, GuestsCounted, ClockHoldsThen DEF PeopleInv, PeopleHold, StaffInv, LeaveInv
<1>. QED  BY <1>1, <1>2, <1>3, PTL DEF PeopleSpec
===============================================================================
