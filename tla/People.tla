-------------------------------- MODULE People --------------------------------
(***************************************************************************)
(* The subjects that are about the people of the house, staff and guests:  *)
(* Staffing, Payroll, Leave, Guests and Clocking, for any values of their  *)
(* constants.                                                              *)
(***************************************************************************)
EXTENDS Turns

CONSTANTS
  Members, Roles, Pins, DiningTables, Shifts, WorkDays, Mon,        \* of Staffing
  Managers, Runs, Payees, Wages, Extras, Cuts,                      \* of Payroll
  Actors, Types, MANUAL, Leavers, Requests, MaxDays,                \* of Leave
  Cameras, Profiles, Persons, Gap, LastScan, VipAt, VvipAt,         \* of Guests
  Workers, Watches, Hours, Zone, Near, WeekDays, LastHour, MaxPlans \* of Clocking

Staffs == INSTANCE Staffing WITH Tables <- DiningTables, Days <- WorkDays, member <- v1, plan <- v2,
  shift <- v3, place <- v4, table <- v5, cover <- v6
Pays == INSTANCE Payroll WITH Staff <- Payees, Pay <- Wages, Extra <- Extras, run <- v1,
  line <- v2, manager <- v3
Leaves == INSTANCE Leave WITH Members <- Leavers, type <- v1, balance <- v2, request <- v3,
  actor <- v4
Faces == INSTANCE Guests WITH People <- Persons, Window <- Gap, MaxTime <- LastScan, now <- v1,
  profile <- v2, log <- v3, recent <- v4, camera <- v5
Clocks == INSTANCE Clocking WITH Members <- Workers, Shifts <- Watches, Week <- WeekDays,
  MaxTime <- LastHour, now <- v1, plan <- v2, assignment <- v3, plans <- v4, session <- v5

(* What the components assume of their constants.                          *)
PeopleAssumption ==
  /\ Staffs!StaffingAssumption /\ Pays!PayrollAssumption /\ Leaves!LeaveAssumption
  /\ Faces!GuestsAssumption /\ Clocks!ClockingAssumption

(* What the properties of payroll, leave and recognition are true of: at   *)
(* most one manager, one actor and one camera at work.                     *)
OneAtATime ==
  /\ \A g, h \in Managers : g = h
  /\ \A g, h \in Actors : g = h
  /\ \A g, h \in Cameras : g = h
-----------------------------------------------------------------------------
(* A subject starts where its component does.                              *)
PeopleInit ==
  \/ subject \in {"staff", "floor"} /\ Staffs!Init /\ Null6
  \/ subject = "payroll" /\ Pays!Init /\ Null3
  \/ subject = "leave" /\ Leaves!Init /\ Null4
  \/ subject = "guests" /\ Faces!Init /\ Null5
  \/ subject = "clock" /\ Clocks!Init /\ Null5

OfficeNext ==
  \/ subject = "payroll" /\ Pays!Next /\ UNCHANGED after3
  \/ subject = "leave" /\ Leaves!Next /\ UNCHANGED after4
  \/ subject = "guests" /\ Faces!Next /\ UNCHANGED after5
  \/ subject = "clock" /\ Clocks!Next /\ UNCHANGED after5
StaffNext == subject \in {"staff", "floor"} /\ Staffs!Next /\ UNCHANGED after6
PeopleNext == (OfficeNext \/ StaffNext) /\ UNCHANGED subject

PeopleSpec == PeopleInit /\ [][PeopleNext]_vars
-----------------------------------------------------------------------------
(* The tables of a subject have their types.                               *)
PeopleTypeOK ==
  /\ subject \in {"staff", "floor"} => Staffs!TypeOK
  /\ subject = "payroll" => Pays!TypeOK
  /\ subject = "leave" => Leaves!TypeOK
  /\ subject = "guests" => Faces!TypeOK
  /\ subject = "clock" => Clocks!TypeOK

(* What the house owes its people: plans and assignments agree, pay and    *)
(* leave add up, a guest seen again is counted, a shift may be joined.     *)
PeopleHold ==
  /\ subject \in {"staff", "floor"} => Staffs!RosterHolds
  /\ subject = "payroll" => Pays!PayAddsUp
  /\ subject = "leave" => Leaves!LeaveHolds
  /\ subject = "guests" => Faces!VisitsCounted
  /\ subject = "clock" => Clocks!ClockHolds
=============================================================================
