-------------------------------- MODULE Finance --------------------------------
(***************************************************************************)
(* The profit and loss of src/finance/finance.service.ts: the entries a    *)
(* manager keeps by hand, and what is reported of them and of the bills,   *)
(* pay runs and stock movements the other services write.  Days are those  *)
(* of Addis Ababa, for which businessDate and localDayRange agree.  A      *)
(* report is a function of the tables and of a scope and a range of days;  *)
(* searching, paging and the row limits of the detail list are left out.   *)
(***************************************************************************)
EXTENDS Integers, FiniteSetsExt

CONSTANTS Clerks,   \* managers with an entry under way
          Branches, \* branches of the restaurant
          Active,   \* those an owner's report on everything adds up
          Entries,  \* ids of manual_finance_entries
          Bills, Runs, Rows, \* ids of bills, payroll_runs, inventory_ledger_entries
          LastDay,  \* bound on the calendar
          MaxVersion, \* bound on the edits of an entry
          MaxFacts, \* bound on the rows of all the tables
          Kinds,    \* the entry types of the ledger that occur
          NULL      \* the SQL null

(* What the constants are.                                                 *)
FinanceAssumption ==
  /\ Active \subseteq Branches /\ NULL \notin Branches /\ LastDay \in Nat /\ MaxVersion \in Nat
  /\ IsFiniteSet(Entries \cup Bills \cup Runs \cup Rows \cup Branches)

VARIABLES
  today,
  entry,   \* manual_finance_entries
  bill,    \* bills
  run,     \* payroll_runs; gross and tips are the totals of the run
  row,     \* the movements of one ingredient, worth one a unit
  clerk    \* the entry a manager has read and is about to change

vars == <<today, entry, bill, run, row, clerk>>
-----------------------------------------------------------------------------
NoRow == [status |-> "NONE"]
Idle == [at |-> "idle"]
Calendar == 1..LastDay
Entry ==
  {NoRow} \cup [status : {"POSTED", "VOID"}, direction : {"INCOME", "EXPENSE"}, branch : Branches,
                amount : Nat, day : Calendar, version : 1..MaxVersion]
Bill == {NoRow} \cup [status : {"GENERATED"}, branch : Branches, total : Nat, day : Calendar]
Run == {NoRow} \cup [status : {"DRAFT", "APPROVED", "PAID"}, branch : Branches \cup {NULL},
                     gross : Nat, tips : Nat, end : Calendar]
Row == {NoRow} \cup [status : {"BOOKED"}, kind : Kinds, branch : Branches \cup {NULL}, delta : Int,
                     day : Calendar]

(* The tables hold rows of their types.                                    *)
TypeOK ==
  /\ today \in Calendar /\ entry \in [Entries -> Entry] /\ bill \in [Bills -> Bill]
  /\ run \in [Runs -> Run] /\ row \in [Rows -> Row]
  /\ clerk \in [Clerks -> {Idle} \cup [at : {"update"}, entry : Entries, amount : Nat, day : Calendar]
                                 \cup [at : {"void"}, entry : Entries]]

Init ==
  /\ today = 1 /\ entry = [e \in Entries |-> NoRow] /\ bill = [b \in Bills |-> NoRow]
  /\ run = [r \in Runs |-> NoRow] /\ row = [i \in Rows |-> NoRow]
  /\ clerk = [c \in Clerks |-> Idle]

Free == \E c \in Clerks : clerk[c] = Idle
Facts(table) == Cardinality({k \in DOMAIN table : table[k] # NoRow})
Room == Free /\ Facts(entry) + Facts(bill) + Facts(run) + Facts(row) < MaxFacts
-----------------------------------------------------------------------------
(* createEntry; updateEntry and voidEntry compare the version they are     *)
(* given, if any, and write in another statement.                          *)
CreateEntry(e, direction, branch, amount) ==
  /\ entry[e] = NoRow /\ Room
  /\ entry' = [entry EXCEPT ![e] =
       [status |-> "POSTED", direction |-> direction, branch |-> branch, amount |-> amount,
        day |-> today, version |-> 1]]
  /\ UNCHANGED <<today, bill, run, row, clerk>>
SameVersion(e, version) == version # NULL => version = entry[e].version
UpdateEntry(c, e, version, amount, day) ==
  /\ clerk[c] = Idle /\ entry[e].status = "POSTED" /\ SameVersion(e, version)
  /\ entry[e].version < MaxVersion
  /\ clerk' = [clerk EXCEPT ![c] = [at |-> "update", entry |-> e, amount |-> amount, day |-> day]]
  /\ UNCHANGED <<today, entry, bill, run, row>>
VoidEntry(c, e, version) ==
  /\ clerk[c] = Idle /\ entry[e].status = "POSTED" /\ SameVersion(e, version)
  /\ entry[e].version < MaxVersion
  /\ clerk' = [clerk EXCEPT ![c] = [at |-> "void", entry |-> e]]
  /\ UNCHANGED <<today, entry, bill, run, row>>
WriteEntry(c) ==
  /\ clerk[c] # Idle
  /\ LET w == clerk[c] IN
       entry' = [entry EXCEPT ![w.entry] =
         IF w.at = "update" THEN [@ EXCEPT !.amount = w.amount, !.day = w.day, !.version = @ + 1]
         ELSE [@ EXCEPT !.status = "VOID", !.version = @ + 1]]
  /\ clerk' = [clerk EXCEPT ![c] = Idle]
  /\ UNCHANGED <<today, bill, run, row>>

(* What the other services write: a bill, which nothing cancels, a pay run *)
(* and its approval, and a movement of stock, whose kind gives the sign.   *)
GenerateBill(b, branch, total) ==
  /\ bill[b] = NoRow /\ Room
  /\ bill' = [bill EXCEPT ![b] =
       [status |-> "GENERATED", branch |-> branch, total |-> total, day |-> today]]
  /\ UNCHANGED <<today, entry, run, row, clerk>>
RunPayroll(r, branch, gross, tips) ==
  /\ run[r] = NoRow /\ Room /\ tips <= gross
  /\ run' = [run EXCEPT ![r] =
       [status |-> "DRAFT", branch |-> branch, gross |-> gross, tips |-> tips, end |-> today]]
  /\ UNCHANGED <<today, entry, bill, row, clerk>>
SettleRun(r, status) ==
  /\ run[r].status \in {"DRAFT", "APPROVED"} /\ Free
  /\ run' = [run EXCEPT ![r].status = status]
  /\ UNCHANGED <<today, entry, bill, row, clerk>>
Signs(kind) ==
  IF kind \in {"RECEIVE", "OPENING", "SALE_DEPLETE_REVERSAL", "REVERSAL", "WASTE_REVERSAL",
               "TRANSFER_IN", "TRANSFER_RETURN", "PRODUCE_OUTPUT"} THEN {1}
  ELSE IF kind = "COUNT_ADJUST" THEN {1, -1}
  ELSE {-1}
Book(i, kind, branch, sign) ==
  /\ row[i] = NoRow /\ Room /\ sign \in Signs(kind)
  /\ row' = [row EXCEPT ![i] =
       [status |-> "BOOKED", kind |-> kind, branch |-> branch, delta |-> sign, day |-> today]]
  /\ UNCHANGED <<today, entry, bill, run, clerk>>
Midnight ==
  /\ today < LastDay /\ Free /\ today' = today + 1
  /\ UNCHANGED <<entry, bill, run, row, clerk>>

Next ==
  \/ Midnight
  \/ \E e \in Entries, branch \in Branches :
       \/ \E d \in {"INCOME", "EXPENSE"} : CreateEntry(e, d, branch, 1)
       \/ \E c \in Clerks, v \in (1..MaxVersion) \cup {NULL} :
            VoidEntry(c, e, v) \/ \E day \in Calendar : UpdateEntry(c, e, v, 2, day)
  \/ \E c \in Clerks : WriteEntry(c)
  \/ \E b \in Bills, branch \in Branches : GenerateBill(b, branch, 3)
  \/ \E r \in Runs :
       \/ \E branch \in Branches \cup {NULL}, tips \in 0..1 : RunPayroll(r, branch, 2, tips)
       \/ \E s \in {"DRAFT", "APPROVED", "PAID"} : SettleRun(r, s)
  \/ \E i \in Rows, k \in Kinds, branch \in Branches \cup {NULL}, s \in {1, -1} : Book(i, k, branch, s)

Spec == Init /\ [][Next]_vars
-----------------------------------------------------------------------------
(* resolveScope: a manager sees the branch of the account, an owner any    *)
(* branch or, with the warehouse and the pay of no branch, all the active  *)
(* ones.                                                                   *)
BranchScope(b) == [branches |-> {b}, all |-> FALSE]
TenantScope == [branches |-> Active, all |-> TRUE]
Scopes == {BranchScope(b) : b \in Branches} \cup {TenantScope}
(* resolveRange: two days given in either order.                           *)
Range2(a, b) == IF a <= b THEN a..b ELSE b..a
Ranges == {Range2(a, b) : a, b \in Calendar}

Sees(scope, branch) == branch \in scope.branches \/ (branch = NULL /\ scope.all)
Booked(scope, days) == {i \in Rows : row[i] # NoRow /\ Sees(scope, row[i].branch) /\ row[i].day \in days}
Abs(x) == IF x < 0 THEN -x ELSE x
Total(S, f(_)) == MapThenSumSet(f, S)

WasteTypes == {"WASTE", "YIELD_TRIM"}
ReversalTypes == {"REVERSAL", "SALE_DEPLETE_REVERSAL", "WASTE_REVERSAL"}
(* computeCore: what a sale used, what was wasted, less what was reversed. *)
Cost(i) ==
  IF row[i].kind = "SALE_DEPLETE" \/ row[i].kind \in WasteTypes THEN Abs(row[i].delta)
  ELSE IF row[i].kind \in ReversalTypes THEN -Abs(row[i].delta)
  ELSE 0
Sold(scope, days) ==
  {b \in Bills : /\ bill[b] # NoRow
                 /\ bill[b].branch \in scope.branches /\ bill[b].day \in days}
Posted(scope, days, direction) ==
  {e \in Entries : /\ entry[e].status = "POSTED" /\ entry[e].direction = direction
                   /\ entry[e].branch \in scope.branches /\ entry[e].day \in days}
Paid(scope, days) ==
  {r \in Runs : run[r].status \in {"APPROVED", "PAID"} /\ Sees(scope, run[r].branch) /\ run[r].end \in days}

Revenue(scope, days) ==
  Total(Sold(scope, days), LAMBDA b : bill[b].total)
    + Total(Posted(scope, days, "INCOME"), LAMBDA e : entry[e].amount)
MaterialCost(scope, days) == Total(Booked(scope, days), Cost)
(* The tips in the pay are no cost of the restaurant.                      *)
Payroll(scope, days) == Total(Paid(scope, days), LAMBDA r : run[r].gross - run[r].tips)
Manual(scope, days) == Total(Posted(scope, days, "EXPENSE"), LAMBDA e : entry[e].amount)
NetProfit(scope, days) ==
  Revenue(scope, days) - MaterialCost(scope, days) - Payroll(scope, days) - Manual(scope, days)
-----------------------------------------------------------------------------
(* classifyStockEntryType.                                                 *)
Classify(kind) ==
  CASE kind = "RECEIVE" -> "received"
    [] kind \in {"SALE_DEPLETE", "SALE_DEPLETE_REVERSAL", "REVERSAL"} -> "consumption"
    [] kind \in WasteTypes \cup {"WASTE_REVERSAL"} -> "waste"
    [] kind \in {"TRANSFER_IN", "TRANSFER_RETURN", "TRANSFER_OUT"} -> "transfer"
    [] kind \in {"COUNT_ADJUST", "TRANSFER_SHORTAGE"} -> "adjustment"
    [] OTHER -> "other"
Buckets == {"received", "consumption", "waste", "transfer", "adjustment", "other"}
Bucket(scope, days, name) ==
  Total({i \in Booked(scope, days) : Classify(row[i].kind) = name}, LAMBDA i : row[i].delta)
(* Mutant: what no bucket is named for is left out of the net.             *)
NetOfNamed(scope, days) == Total(Buckets \ {"other"}, LAMBDA n : Bucket(scope, days, n))
StockBucketsNet(scope, days) == Total(Buckets, LAMBDA n : Bucket(scope, days, n))
Before(days) == {d \in Calendar : \A x \in days : d < x}
(* computeIngredientMovements.                                             *)
OpeningQty(scope, days) == Total(Booked(scope, Before(days)), LAMBDA i : row[i].delta)
ClosingQty(scope, days) == OpeningQty(scope, days) + StockBucketsNet(scope, days)
(* computeIngredientUsage: the closing of each day of the range.           *)
RunningQty(scope, days, day) ==
  OpeningQty(scope, days)
    + Total({i \in Booked(scope, days) : row[i].day <= day}, LAMBDA i : row[i].delta)

(* collectEntryRows: the detail list, signed; pay with the tips in it, and *)
(* movements of a branch only.                                             *)
ListIncome(scope, days) ==
  Total(Sold(scope, days), LAMBDA b : bill[b].total)
    + Total(Posted(scope, days, "INCOME"), LAMBDA e : entry[e].amount)
ListExpense(scope, days) ==
  Manual(scope, days) + Total(Paid(scope, days), LAMBDA r : run[r].gross)
    + Total({i \in Booked(scope, days) : row[i].branch # NULL}, Cost)
-----------------------------------------------------------------------------
(* The report of a range adds up: the net profit of its days, one by one,  *)
(* is its own, and so is that of its branches with what belongs to none.   *)
ProfitAddsUp ==
  \A days \in Ranges :
    /\ \A s \in Scopes : NetProfit(s, days) = Total(days, LAMBDA d : NetProfit(s, {d}))
    /\ LET none == [branches |-> {}, all |-> TRUE] IN
         NetProfit(TenantScope, days)
           = Total(Active, LAMBDA b : NetProfit(BranchScope(b), days)) + NetProfit(none, days)

(* "The per-ingredient bridge always reconciles": what a range closes with *)
(* is what the next day opens with, and what its last day closed with.     *)
BridgeReconciles ==
  \A s \in Scopes, days \in Ranges :
    LET last == Max(days) IN
      /\ last < LastDay => ClosingQty(s, days) = OpeningQty(s, {last + 1})
      /\ RunningQty(s, days, last) = ClosingQty(s, days)

(* The detail list has the income of the report; its expenses differ by    *)
(* the tips in the pay and the warehouse's own material.                   *)
ListExplainsReport ==
  \A s \in Scopes, days \in Ranges :
    /\ ListIncome(s, days) = Revenue(s, days)
    /\ ListExpense(s, days) =
         MaterialCost(s, days) + Payroll(s, days) + Manual(s, days)
           + Total(Paid(s, days), LAMBDA r : run[r].tips)
           - Total({i \in Booked(s, days) : row[i].branch = NULL}, Cost)

FinanceHolds == ProfitAddsUp /\ BridgeReconciles /\ ListExplainsReport

(* The list and the report name the same expenses.                         *)
ListMatchesReport ==
  \A s \in Scopes, days \in Ranges :
    ListExpense(s, days) = MaterialCost(s, days) + Payroll(s, days) + Manual(s, days)
=============================================================================
