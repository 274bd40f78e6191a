-------------------------------- MODULE Clocking --------------------------------
(***************************************************************************)
(* When a member of the staff may clock in (clockIn, resolveClockInWindow  *)
(* and computeShiftWindowForDay of src/shifts/shifts.service.ts), given    *)
(* the weekly plan and the assignments written with it                     *)
(* (replaceStaffDayShifts of src/floor/staff-coverage.service.ts).         *)
(*                                                                         *)
(* Time is counted in hours of which a day has Hours, from midnight UTC;   *)
(* the branch's clock is Zone hours ahead.  A plan names the shift of each *)
(* local day, of a week of Week days.  Who may clock in is a question      *)
(* about the moment, so that what a shift does once it is open is left to  *)
(* CashierDrawer and CashCustody.                                          *)
(***************************************************************************)
EXTENDS Integers, FiniteSets

CONSTANTS Members,  \* memberships
          Shifts,   \* shift_definitions: start and end by the branch's clock, and grace
          Hours,    \* hours of a day
          Zone,     \* hours the branch's clock is ahead of UTC
          Near,     \* hours around an assignment in which it is found
          Week,     \* bound: days of a week
          MaxTime,  \* bound on the time
          MaxPlans, \* bound on the plans written
          NULL      \* no shift that day

(* What the constants are.                                                 *)
ClockingAssumption ==
  /\ Hours \in Nat \ {0} /\ Zone \in 0..(Hours - 1) /\ Week \in Nat \ {0}
  /\ Near \in Nat /\ MaxTime \in Nat /\ MaxPlans \in Nat
  /\ \A s \in Shifts : {s.start, s.end} \subseteq 0..(Hours - 1) /\ s.grace \in 0..Hours
  /\ NULL \notin Shifts

VARIABLES
  now,        \* the time
  plan,       \* staff_day_shifts: the shift of a day of the week, or NULL
  assignment, \* shift_assignments of each member
  plans,      \* how many plans were written
  session     \* the open shift_session of each member, or NULL

vars == <<now, plan, assignment, plans, session>>
-----------------------------------------------------------------------------
Window == [start : Int, end : Int, grace : 0..Hours]
Assignment == [shift : Shifts, start : Int, end : Int, status : {"SCHEDULED", "CANCELLED"}]
Open == [start : Int, end : Int, grace : 0..Hours, at : 0..MaxTime, late : Nat, day : Nat]

(* The tables hold rows of their types.                                    *)
TypeOK ==
  /\ now \in 0..MaxTime /\ plans \in 0..MaxPlans
  /\ plan \in [Members -> [0..(Week - 1) -> Shifts \cup {NULL}]]
  /\ assignment \in [Members -> SUBSET Assignment]
  /\ session \in [Members -> Open \cup {NULL}]

Init ==
  /\ now = 0 /\ plans = 0 /\ plan = [m \in Members |-> [d \in 0..(Week - 1) |-> NULL]]
  /\ assignment = [m \in Members |-> {}] /\ session = [m \in Members |-> NULL]

(* calendarYmd and calendarDayCode: the branch's day at a time, and which  *)
(* of the week it is.                                                      *)
LocalDay(t) == (t + Zone) \div Hours
DayCode(t) == LocalDay(t) % Week
-----------------------------------------------------------------------------
(* Mutant: a shift that ends after midnight ends the same day.             *)
WindowSameDay(s, day) ==
  [start |-> day * Hours + s.start - Zone, end |-> day * Hours + s.end - Zone, grace |-> s.grace]
(* A shift that does not end later than it starts ends on the next day.    *)
WindowForDay(s, day) ==
  [start |-> day * Hours + s.start - Zone,
   end |-> day * Hours + s.end - Zone + (IF s.end <= s.start THEN Hours ELSE 0), grace |-> s.grace]

(* computeShiftWindowDates reads the same columns as hours of a UTC day.   *)
Assigned(s) ==
  LET midnight == (now \div Hours) * Hours
  IN [shift |-> s, start |-> midnight + s.start,
      end |-> midnight + s.end + (IF s.end <= s.start THEN Hours ELSE 0), status |-> "SCHEDULED"]
WindowOf(a) == [start |-> a.start, end |-> a.end, grace |-> a.shift.grace]

(* The first to start of the assignments near.                             *)
Covering(m) ==
  LET near == {a \in assignment[m] : /\ a.status = "SCHEDULED"
                                     /\ a.start <= now + Near /\ a.end >= now - Near}
  IN {a \in near : \A b \in near : a.start <= b.start}

(* The windows resolveClockInWindow may return: today's in the plan, or if *)
(* today is not planned that of an assignment; the one asked for whatever  *)
(* its status.                                                             *)
ResolveClockInWindow(m, asked) ==
  IF asked # NULL THEN {WindowOf(asked)}
  ELSE IF plan[m][DayCode(now)] # NULL THEN {WindowForDay(plan[m][DayCode(now)], LocalDay(now))}
  ELSE {WindowOf(a) : a \in Covering(m)}
Within(w) == w.start - w.grace <= now /\ now <= w.end + w.grace
-----------------------------------------------------------------------------
(* Assignments are written for the day on which the plan is.               *)
ReplaceStaffDayShifts(m, week) ==
  /\ plans < MaxPlans /\ plans' = plans + 1
  /\ plan' = [plan EXCEPT ![m] = week]
  /\ assignment' = [assignment EXCEPT ![m] =
       {[a EXCEPT !.status = "CANCELLED"] : a \in @}
         \cup {Assigned(week[d]) : d \in {d \in DOMAIN week : week[d] # NULL}}]
  /\ UNCHANGED <<now, session>>

ClockIn(m, asked, w) ==
  /\ session[m] = NULL /\ asked \in assignment[m] \cup {NULL}
  /\ w \in ResolveClockInWindow(m, asked) /\ Within(w)
  /\ session' = [session EXCEPT ![m] =
       [start |-> w.start, end |-> w.end, grace |-> w.grace, at |-> now,
        late |-> IF now > w.start THEN now - w.start ELSE 0, day |-> LocalDay(now)]]
  /\ UNCHANGED <<now, plan, assignment, plans>>

ClockOut(m) ==
  /\ session[m] # NULL /\ session' = [session EXCEPT ![m] = NULL]
  /\ UNCHANGED <<now, plan, assignment, plans>>

Tick == now < MaxTime /\ now' = now + 1 /\ UNCHANGED <<plan, assignment, plans, session>>

Next ==
  \/ Tick
  \/ \E m \in Members, week \in [0..(Week - 1) -> Shifts \cup {NULL}] : ReplaceStaffDayShifts(m, week)
  \/ \E m \in Members : ClockOut(m)
  \/ \E m \in Members : \E asked \in assignment[m] \cup {NULL} :
       \E w \in ResolveClockInWindow(m, asked) : ClockIn(m, asked, w)

Spec == Init /\ [][Next]_vars
-----------------------------------------------------------------------------
(* Who is planned today and comes while the shift lasts is let in, also    *)
(* where the shift lasts beyond midnight; and nobody is later than the     *)
(* shift is long ("Clock-in is only allowed during today's assigned window *)
(* (+- grace)").                                                           *)
ClockHolds ==
  \A m \in Members :
    LET s == plan[m][DayCode(now)]
        clock == (now + Zone) % Hours
        length == ((s.end - s.start - 1) % Hours) + 1
    IN /\ (s # NULL /\ clock >= s.start /\ (s.end > s.start => clock <= s.end)) =>
            \E w \in ResolveClockInWindow(m, NULL) : Within(w) /\ w.end - w.start = length
       /\ session[m] # NULL => session[m].late <= session[m].end - session[m].start + session[m].grace

(* Not so: who is planned for a night may still come after midnight.       *)
NightGoesOn ==
  \A m \in Members :
    LET s == plan[m][(LocalDay(now) - 1) % Week]
    IN (LocalDay(now) > 0 /\ s # NULL /\ s.end < s.start /\ (now + Zone) % Hours < s.end) =>
         \E w \in ResolveClockInWindow(m, NULL) : Within(w)

(* Not so: nobody clocks in on a day the plan leaves free.                 *)
PlannedOnly ==
  [][\A m \in Members : (session[m] = NULL /\ session'[m] # NULL) => plan[m][DayCode(now)] # NULL]_vars

(* Not so: an assignment is for the hours of its shift.                    *)
AssignedAsPlanned ==
  \A m \in Members : \A a \in assignment[m] : (a.start + Zone) % Hours = a.shift.start
=============================================================================
