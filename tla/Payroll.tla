-------------------------------- MODULE Payroll --------------------------------
(***************************************************************************)
(* The pay runs of src/hr/payroll.service.ts.  No method of the service    *)
(* opens a transaction: every statement is a step, a manager's request     *)
(* (manager) is between two of them, what it read before may be old, and   *)
(* it may stop between any two.                                            *)
(* A line counts its pay, the tips in it and what is deducted.  Runs for   *)
(* the same days are not refused, and nothing cancels a run.               *)
(***************************************************************************)
EXTENDS Integers, FiniteSetsExt, Functions

CONSTANTS Managers, \* those at work on payroll at the same time
          Runs,     \* ids of payroll_runs
          Staff,    \* memberships, each with at most one line in a run
          Pay,      \* amounts of base pay
          Extra,    \* amounts of overtime and of tips
          Cuts,     \* amounts of deductions
          NULL      \* the SQL null

(* What the constants are.                                                 *)
PayrollAssumption ==
  /\ Pay \cup Extra \cup Cuts \subseteq Nat /\ 0 \in Extra \cap Cuts /\ IsFiniteSet(Staff)
  /\ NULL \notin Int

VARIABLES
  run,     \* payroll_runs with their totals
  line,    \* payroll_lines; paid: the net amount handed over, NULL before
  manager  \* the request a manager has under way

vars == <<run, line, manager>>
-----------------------------------------------------------------------------
NoRow == [status |-> "NONE"]
Idle == [at |-> "idle"]
Total == [gross : Nat, tips : Nat, net : Nat]
(* undone is history: what requests that stopped left for a later one.     *)
Run == {NoRow} \cup
  [status : {"DRAFT", "APPROVED", "PAID"}, total : Total, undone : SUBSET {"totals", "status"}]
Line == {NoRow} \cup
  [status : {"LINE"}, base : Pay, over : Extra, tips : Extra, cut : Cuts, paid : Nat \cup {NULL}]
Change == [over : Extra, tips : Extra, cut : Cuts]
AfterRefresh == {"idle", "approve"}
Request ==
  {Idle} \cup [at : {"line"}, run : Runs, left : SUBSET Staff]
  \cup [at : {"edit"}, run : Runs, staff : Staff, change : Change, was : {"DRAFT", "APPROVED"}]
  \cup [at : {"demote"}, run : Runs]
  \cup [at : {"sum"}, run : Runs, then : AfterRefresh]
  \cup [at : {"total"}, run : Runs, then : AfterRefresh, total : Total]
  \cup [at : {"approve"}, run : Runs]
  \cup [at : {"pay"}, run : Runs, lines : SUBSET Staff, was : {"DRAFT", "APPROVED"}]
  \cup [at : {"count"}, run : Runs, was : {"DRAFT", "APPROVED"}]
  \cup [at : {"settle"}, run : Runs, was : {"DRAFT", "APPROVED"}, left : Nat]

(* The tables and the requests have their types.                           *)
TypeOK ==
  /\ run \in [Runs -> Run] /\ line \in [Runs \X Staff -> Line]
  /\ manager \in [Managers -> Request]

Init ==
  /\ run = [r \in Runs |-> NoRow] /\ line = [k \in Runs \X Staff |-> NoRow]
  /\ manager = [h \in Managers |-> Idle]

(* computeLineAmounts: the net pay is never negative.                      *)
Gross(l) == l.base + l.over + l.tips
Net(l) == IF Gross(l) > l.cut THEN Gross(l) - l.cut ELSE 0
Lines(r) == {s \in Staff : line[<<r, s>>] # NoRow}
Unpaid(r) == {s \in Lines(r) : line[<<r, s>>].paid = NULL}
Sum(r) ==
  [gross |-> MapThenSumSet(LAMBDA s : Gross(line[<<r, s>>]), Lines(r)),
   tips |-> MapThenSumSet(LAMBDA s : line[<<r, s>>].tips, Lines(r)),
   net |-> MapThenSumSet(LAMBDA s : Net(line[<<r, s>>]), Lines(r))]
Open(r) == run[r] # NoRow /\ run[r].status # "PAID"

At(h, place) == manager[h].at = place
Goto(h, request) == manager' = [manager EXCEPT ![h] = request]
-----------------------------------------------------------------------------
(* createRun and, in generateLines, a line for every active member.        *)
CreateRun(h, r, members) ==
  /\ At(h, "idle") /\ run[r] = NoRow
  /\ run' = [run EXCEPT ![r] =
       [status |-> "DRAFT", total |-> [gross |-> 0, tips |-> 0, net |-> 0], undone |-> {}]]
  /\ Goto(h, [at |-> "line", run |-> r, left |-> members])
  /\ UNCHANGED line
GenerateLine(h, s, base) ==
  /\ At(h, "line") /\ s \in manager[h].left
  /\ line' = [line EXCEPT ![<<manager[h].run, s>>] =
       [status |-> "LINE", base |-> base, over |-> 0, tips |-> 0, cut |-> 0, paid |-> NULL]]
  /\ Goto(h, [manager[h] EXCEPT !.left = @ \ {s}])
  /\ UNCHANGED run
LinesGenerated(h) ==
  /\ At(h, "line") /\ manager[h].left = {}
  /\ Goto(h, [at |-> "sum", run |-> manager[h].run, then |-> "idle"])
  /\ UNCHANGED <<run, line>>

(* refreshRunTotals adds the lines up in one statement and writes the      *)
(* totals in another.                                                      *)
SumLines(h) ==
  /\ At(h, "sum")
  /\ Goto(h, [at |-> "total", run |-> manager[h].run, then |-> manager[h].then,
              total |-> Sum(manager[h].run)])
  /\ UNCHANGED <<run, line>>
RefreshRunTotals(h) ==
  /\ At(h, "total")
  /\ LET r == manager[h].run IN
       run' = [run EXCEPT ![r] =
         [@ EXCEPT !.total = manager[h].total, !.undone = run[r].undone \ {"totals"}]]
  /\ Goto(h, IF manager[h].then = "idle" THEN Idle ELSE [at |-> "approve", run |-> manager[h].run])
  /\ UNCHANGED line

(* updateLine asks for an open run and an unpaid line, writes the line,    *)
(* makes an approved run a draft again and refreshes its totals.           *)
UpdateLine(h, r, s, change) ==
  /\ At(h, "idle") /\ Open(r) /\ s \in Unpaid(r)
  /\ Goto(h, [at |-> "edit", run |-> r, staff |-> s, change |-> change, was |-> run[r].status])
  /\ UNCHANGED <<run, line>>
(* Mutant: the totals of a draft wait for its approval.                    *)
AfterEditLazy(r, was) == IF was = "APPROVED" THEN [at |-> "demote", run |-> r] ELSE Idle
AfterEdit(r, was) ==
  IF was = "APPROVED" THEN [at |-> "demote", run |-> r] ELSE [at |-> "sum", run |-> r, then |-> "idle"]
WriteLine(h) ==
  /\ At(h, "edit")
  /\ LET r == manager[h].run IN
       /\ line' = [line EXCEPT ![<<r, manager[h].staff>>] =
            [@ EXCEPT !.over = manager[h].change.over, !.tips = manager[h].change.tips,
                      !.cut = manager[h].change.cut]]
       /\ Goto(h, AfterEdit(r, manager[h].was))
  /\ UNCHANGED run
Demote(h) ==
  /\ At(h, "demote")
  /\ run' = [run EXCEPT ![manager[h].run].status = "DRAFT"]
  /\ Goto(h, [at |-> "sum", run |-> manager[h].run, then |-> "idle"])
  /\ UNCHANGED line

(* approveRun refreshes the totals and approves what they are then.        *)
ApproveRun(h, r) ==
  /\ At(h, "idle") /\ Open(r) /\ Lines(r) # {}
  /\ Goto(h, [at |-> "sum", run |-> r, then |-> "approve"])
  /\ UNCHANGED <<run, line>>
Approve(h) ==
  /\ At(h, "approve")
  /\ run' = [run EXCEPT ![manager[h].run].status = "APPROVED"]
  /\ Goto(h, Idle)
  /\ UNCHANGED line

(* markPaid: the chosen lines that are unpaid, then how many are left.     *)
MarkPaid(h, r, chosen) ==
  /\ At(h, "idle") /\ Open(r) /\ chosen \cap Unpaid(r) # {}
  /\ Goto(h, [at |-> "pay", run |-> r, lines |-> chosen \cap Unpaid(r), was |-> run[r].status])
  /\ UNCHANGED <<run, line>>
PayLines(h) ==
  /\ At(h, "pay")
  /\ LET r == manager[h].run IN
       /\ line' = [k \in DOMAIN line |->
            IF k[1] = r /\ k[2] \in manager[h].lines THEN [line[k] EXCEPT !.paid = Net(line[k])]
            ELSE line[k]]
       /\ Goto(h, [at |-> "count", run |-> r, was |-> manager[h].was])
  /\ UNCHANGED run
CountUnpaid(h) ==
  /\ At(h, "count")
  /\ Goto(h, [at |-> "settle", run |-> manager[h].run, was |-> manager[h].was,
              left |-> Cardinality(Unpaid(manager[h].run))])
  /\ UNCHANGED <<run, line>>
SettleRun(h) ==
  /\ At(h, "settle")
  /\ LET r == manager[h].run
         status == IF manager[h].left = 0 THEN "PAID"
                   ELSE IF manager[h].was = "DRAFT" THEN "APPROVED" ELSE run[r].status IN
       run' = [run EXCEPT ![r] =
         [@ EXCEPT !.status = status, !.undone = run[r].undone \ {"status"}]]
  /\ Goto(h, Idle)
  /\ UNCHANGED line

(* A request stops (the process does, or the connection) between two of    *)
(* its statements: lines it wrote may be in no total, or not settled.      *)
LeftUndone(q) ==
  IF q.at \in {"line", "demote"} \/ (q.at \in {"sum", "total"} /\ q.then = "idle") THEN {"totals"}
  ELSE IF q.at \in {"count", "settle"} THEN {"status"}
  ELSE {}
Stop(h) ==
  /\ ~At(h, "idle")
  /\ run' = [run EXCEPT ![manager[h].run].undone = @ \cup LeftUndone(manager[h])]
  /\ Goto(h, Idle)
  /\ UNCHANGED line

Next ==
  \E h \in Managers :
    \/ \E s \in Staff, base \in Pay : GenerateLine(h, s, base)
    \/ LinesGenerated(h) \/ SumLines(h) \/ RefreshRunTotals(h) \/ WriteLine(h) \/ Demote(h)
    \/ Approve(h) \/ PayLines(h) \/ CountUnpaid(h) \/ SettleRun(h) \/ Stop(h)
    \/ \E r \in Runs :
         \/ \E members \in SUBSET Staff : CreateRun(h, r, members)
         \/ \E s \in Staff, change \in Change : UpdateLine(h, r, s, change)
         \/ ApproveRun(h, r)
         \/ \E chosen \in SUBSET Staff : MarkPaid(h, r, chosen)

Spec == Init /\ [][Next]_vars
-----------------------------------------------------------------------------
(* Finance books the totals of the runs that are approved or paid          *)
(* (COUNTED_PAYROLL_STATUSES), never the lines.                            *)
Counted(r) == run[r] # NoRow /\ run[r].status \in {"APPROVED", "PAID"}

(* Whenever no request is under way, what a member was handed is what the  *)
(* line still says and a run that is paid has no unpaid line; unless a     *)
(* request stopped before it wrote them and none has since, the totals of  *)
(* a run are those of its lines and a run whose lines are all paid is      *)
(* paid.  True of one manager at a time.                                   *)
PayAddsUp ==
  (\A h \in Managers : At(h, "idle")) =>
    \A r \in Runs : run[r] # NoRow =>
      /\ \A s \in Lines(r) : line[<<r, s>>].paid \in {NULL, Net(line[<<r, s>>])}
      /\ run[r].status = "PAID" => Lines(r) # {} /\ Unpaid(r) = {}
      /\ "totals" \notin run[r].undone => run[r].total = Sum(r)
      /\ "status" \notin run[r].undone /\ Lines(r) # {} /\ Unpaid(r) = {} =>
           run[r].status = "PAID"

(* What has been paid out is in a run that finance counts.                 *)
PaidIsCounted ==
  (\A h \in Managers : At(h, "idle")) =>
    \A r \in Runs : Lines(r) # Unpaid(r) => Counted(r)
=============================================================================
