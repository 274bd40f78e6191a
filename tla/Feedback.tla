-------------------------------- MODULE Feedback --------------------------------
(***************************************************************************)
(* Guests' reviews, src/feedback/feedback.service.ts: from the QR code on  *)
(* the table or the website, read and resolved by managers.  A review by   *)
(* QR code looks for an earlier one of the same visit and is written       *)
(* later; phone[p] holds what a phone has read in between.                 *)
(*                                                                         *)
(* The public summary and the one of a manager are the same sums over more *)
(* or fewer rows; ratings matter for their sums only.                      *)
(***************************************************************************)
EXTENDS Integers, FiniteSets, FiniteSetsExt

CONSTANTS Branches, \* branches of the tenant
          Tables,   \* dining_tables
          At,       \* the branch a table stands in
          Visits,   \* table_sessions
          Phones,   \* guests submitting at the same time
          Managers, \* who reads reviews
          Reviews,  \* ids of customer_feedback
          Ratings,  \* ratings given
          NULL      \* the SQL null

(* What the constants are.                                                 *)
FeedbackAssumption ==
  /\ At \in [Tables -> Branches] /\ Ratings \subseteq Nat /\ IsFiniteSet(Reviews)
  /\ NULL \notin Visits \cup Managers

VARIABLES
  open,     \* branches that are ACTIVE
  visit,    \* the seating open at a table, or NULL
  gone,     \* seatings that are over
  assigned, \* the branches each manager is assigned to
  phone,    \* what a submission has read
  review    \* table customer_feedback

vars == <<open, visit, gone, assigned, phone, review>>
-----------------------------------------------------------------------------
None == [status |-> "NONE"]
Idle == [at |-> "idle"]
Review == [status : {"NEW", "READ", "RESOLVED"}, branch : Branches, source : {"QR_MENU", "WEBSITE"},
           table : Tables \cup {NULL}, visit : Visits \cup {NULL}, rating : Ratings,
           by : Managers \cup {NULL}]

(* The tables have their types; one seating at a table, and one table to a *)
(* seating.                                                                *)
TypeOK ==
  /\ open \subseteq Branches /\ visit \in [Tables -> Visits \cup {NULL}] /\ gone \subseteq Visits
  /\ assigned \in [Managers -> SUBSET Branches]
  /\ phone \in [Phones -> {Idle} \cup
       [at : {"write"}, table : Tables, visit : Visits \cup {NULL}, branch : Branches]]
  /\ review \in [Reviews -> {None} \cup Review]

Init ==
  /\ open = Branches /\ visit = [t \in Tables |-> NULL] /\ gone = {}
  /\ assigned \in [Managers -> SUBSET Branches]
  /\ phone = [p \in Phones |-> Idle] /\ review = [r \in Reviews |-> None]

Rows == {r \in Reviews : review[r] # None}
-----------------------------------------------------------------------------
(* What happens outside: guests sit down and leave, branches close and     *)
(* open, managers are assigned.                                            *)
Sit(t, v) ==
  /\ visit[t] = NULL /\ v \notin gone /\ \A t2 \in Tables : visit[t2] # v
  /\ visit' = [visit EXCEPT ![t] = v]
  /\ UNCHANGED <<open, gone, assigned, phone, review>>
Leave(t) ==
  /\ visit[t] # NULL
  /\ visit' = [visit EXCEPT ![t] = NULL] /\ gone' = gone \cup {visit[t]}
  /\ UNCHANGED <<open, assigned, phone, review>>
SwitchBranch(b) ==
  /\ open' = (open \ {b}) \cup ({b} \ open)
  /\ UNCHANGED <<visit, gone, assigned, phone, review>>
Assign(m, b) ==
  /\ assigned' = [assigned EXCEPT ![m] = (@ \ {b}) \cup ({b} \ @)]
  /\ UNCHANGED <<open, visit, gone, phone, review>>
-----------------------------------------------------------------------------
(* The branch of a review is any that is ACTIVE, not the table's.          *)
Reviewed(v) == \E r \in Rows : review[r].visit = v /\ review[r].source = "QR_MENU"
(* Mutant: who has reviewed already is not refused.                        *)
MayReviewAgain(v) == TRUE
MayReview(v) == v # NULL => ~Reviewed(v)

SubmitTableFeedback(p, t, b) ==
  /\ phone[p] = Idle /\ b \in open /\ MayReview(visit[t])
  /\ phone' = [phone EXCEPT ![p] = [at |-> "write", table |-> t, visit |-> visit[t], branch |-> b]]
  /\ UNCHANGED <<open, visit, gone, assigned, review>>
Written(p, r, rating) ==
  /\ phone[p].at = "write" /\ review[r] = None
  /\ review' = [review EXCEPT ![r] =
       [status |-> "NEW", branch |-> phone[p].branch, source |-> "QR_MENU", table |-> phone[p].table,
        visit |-> phone[p].visit, rating |-> rating, by |-> NULL]]
  /\ phone' = [phone EXCEPT ![p] = Idle]
  /\ UNCHANGED <<open, visit, gone, assigned>>
SubmitWebsiteFeedback(r, b, rating) ==
  /\ b \in open /\ review[r] = None
  /\ review' = [review EXCEPT ![r] =
       [status |-> "NEW", branch |-> b, source |-> "WEBSITE", table |-> NULL, visit |-> NULL,
        rating |-> rating, by |-> NULL]]
  /\ UNCHANGED <<open, visit, gone, assigned, phone>>

(* A manager of one branch sees that one's; one of several, or of none,    *)
(* sees all.                                                               *)
ResolveScope(m) == IF Cardinality(assigned[m]) = 1 THEN assigned[m] ELSE Branches
List(m) == {r \in Rows : review[r].branch \in ResolveScope(m)}
UpdateStatus(m, r, status) ==
  /\ r \in List(m)
  /\ review' = [review EXCEPT ![r].status = status, ![r].by = IF status = "RESOLVED" THEN m ELSE NULL]
  /\ UNCHANGED <<open, visit, gone, assigned, phone>>

Summary(m) ==
  LET rows == List(m)
      Of(S) == MapThenSumSet(LAMBDA r : review[r].rating, S)
  IN [sum |-> Of(rows), total |-> Cardinality(rows),
      new |-> Cardinality({r \in rows : review[r].status = "NEW"}),
      resolved |-> Cardinality({r \in rows : review[r].status = "RESOLVED"}),
      branch |-> [b \in {review[r].branch : r \in rows} |-> Of({r \in rows : review[r].branch = b})]]
-----------------------------------------------------------------------------
Next ==
  \/ \E t \in Tables : Leave(t) \/ \E v \in Visits : Sit(t, v)
  \/ \E b \in Branches : SwitchBranch(b)
  \/ \E m \in Managers, b \in Branches : Assign(m, b)
  \/ \E p \in Phones, t \in Tables, b \in Branches : SubmitTableFeedback(p, t, b)
  \/ \E p \in Phones, r \in Reviews, n \in Ratings : Written(p, r, n)
  \/ \E r \in Reviews, b \in Branches, n \in Ratings : SubmitWebsiteFeedback(r, b, n)
  \/ \E m \in Managers, r \in Reviews, st \in {"NEW", "READ", "RESOLVED"} : UpdateStatus(m, r, st)

Spec == Init /\ [][Next]_vars
-----------------------------------------------------------------------------
(* With one phone at a time, a visit has one review by QR code ("One       *)
(* review per table visit"), however the guests come and go; a review      *)
(* names who resolved it exactly while it is resolved; and a manager's     *)
(* branches add up to his total.                                           *)
ReviewsHold ==
  /\ \A r1, r2 \in Rows : (review[r1].visit # NULL /\ review[r1].visit = review[r2].visit) => r1 = r2
  /\ \A r \in Rows : review[r].status = "RESOLVED" <=> review[r].by # NULL
  /\ \A m \in Managers :
       LET s == Summary(m)
       IN s.sum = MapThenSumSet(LAMBDA b : s.branch[b], DOMAIN s.branch) /\ s.new + s.resolved <= s.total

(* Not so: the manager of the table's branch sees what its guests write.   *)
GuestsAreHeard ==
  \A m \in Managers, r \in Rows :
    (review[r].table # NULL /\ assigned[m] = {At[review[r].table]}) => r \in List(m)
================================================================================
