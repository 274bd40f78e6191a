------------------------------ MODULE MCDayEnd ------------------------------
(***************************************************************************)
(* DailyClose for TLC.  A run looks at one subject at a time, chosen at    *)
(* the start: the drawers with all their operations, or the day's close    *)
(* with one cashier who clocks in, receives drops and counts.              *)
(***************************************************************************)
EXTENDS DailyClose

CONSTANTS Subjects, c1, s1
VARIABLE subject

Init ==
  /\ subject \in Subjects /\ CloseInit
  /\ subject = "day" => ~crashes

(* What handlers do in the slice "day".                                    *)
Slice ==
  {"idle", "opening", "fitting", "fitted", "receiving", "submitting", "creating", "refreshing",
   "approving", "abandoning", "reading", "locking", "ordering", "paying", "declaring"}

Next ==
  /\ UNCHANGED subject
  /\ \/ /\ subject = "till" /\ UNCHANGED <<close, floor>>
        /\ (Quiet /\ Initiate) \/ \E h \in Handlers : TillStep(h)
     \/ /\ subject = "day" /\ CloseNext
        /\ \A h \in Handlers : /\ handler'[h].pc \in Slice
                               /\ handler'[h].pc = "opening" => handler'[h].cashier = c1
        /\ \A s \in Shifts \ {s1} : shift'[s] = NoShift

Spec == Init /\ [][Next]_<<subject, closeVars>>
=============================================================================
