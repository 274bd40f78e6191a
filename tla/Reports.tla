-------------------------------- MODULE Reports --------------------------------
(***************************************************************************)
(* The managers' reports and the facts they add up.                        *)
(* src/floor/waiter-performance.service.ts lists the waiters, shows one of *)
(* them and his orders; src/manager-dashboard/manager-reports.service.ts   *)
(* reports waiters, cancellations, stock, cash, stations and food and      *)
(* drink; getBranchRevenue of manager-dashboard.service.ts charts bills    *)
(* and collections.  Each report reads the tables by its own filters, so   *)
(* the same money is selected in several ways.                             *)
(*                                                                         *)
(* Rates, averages, top lists and the drill-down's labels are derived from *)
(* the sums below and left out.                                            *)
(***************************************************************************)
EXTENDS Integers, FiniteSets, FiniteSetsExt

CONSTANTS Waiters,    \* staff memberships with the role WAITER
          Shifts,     \* ids of shift_sessions
          Lines,      \* ids of order_items, an order each
          Dishes,     \* what is sold: [price, cost, category, station, drink]
          Payments,   \* ids of payments
          Amounts,    \* what a payment or a drop is for
          Drops,      \* ids of cash_drops
          Asks,       \* ids of cancellation_requests and order_change_requests
          Entries,    \* ids of inventory_ledger_entries
          MaxDay      \* bound: the last day

(* What the constants are.                                                 *)
ReportsAssumption ==
  /\ MaxDay \in Nat /\ Amounts \subseteq Nat \ {0} /\ IsFiniteSet(Lines)
  /\ \A d \in Dishes : d.price \in Nat /\ d.cost \in Nat /\ d.drink \in BOOLEAN

VARIABLES
  today,   \* the UTC day and the restaurant's own, which changes three hours earlier
  roster,  \* memberships that are ACTIVE and assigned to the branch
  shift,   \* shift_sessions
  line,    \* order_items
  payment, \* payments of the bills
  drop,    \* cash_drops with their disputes
  asked,   \* requests to cancel or to change
  entry    \* inventory_ledger_entries

vars == <<today, roster, shift, line, payment, drop, asked, entry>>
-----------------------------------------------------------------------------
Days == 0..MaxDay
None == [state |-> "NONE"]
Shift == [state : {"OPEN", "CLOSED"}, waiter : Waiters, day : Days]
Line == [state : {"QUEUED", "READY", "SERVED", "CANCELLED"}, shift : Shifts, dish : Dishes,
         day : Days, confirmed : Days, prepared : BOOLEAN, gone : Days]
Payment == [state : {"SETTLED"}, method : {"CASH", "TRANSFER"},
            amount : Amounts, shift : Shifts, day : Days]
Drop == [state : {"INITIATED", "RECEIVED", "DISPUTED"}, shift : Shifts, day : Days,
         declared : Amounts, counted : {0} \cup Amounts]
Asked == [state : {"PENDING", "APPROVED", "REJECTED"}, kind : {"CANCELLATION", "CHANGE"}, day : Days]
Entry == [state : {"RECEIVE", "WASTE", "YIELD_TRIM"}, value : Amounts, day : Days]

(* The tables have their types; the restaurant's day is the UTC day or the *)
(* next one.                                                               *)
TypeOK ==
  /\ today.utc \in Days /\ today.local \in {today.utc, today.utc + 1}
  /\ roster \subseteq Waiters
  /\ shift \in [Shifts -> {None} \cup Shift] /\ line \in [Lines -> {None} \cup Line]
  /\ payment \in [Payments -> {None} \cup Payment] /\ drop \in [Drops -> {None} \cup Drop]
  /\ asked \in [Asks -> {None} \cup Asked] /\ entry \in [Entries -> {None} \cup Entry]

Init ==
  /\ today = [utc |-> 0, local |-> 0] /\ roster = Waiters
  /\ shift = [s \in Shifts |-> None] /\ line = [l \in Lines |-> None]
  /\ payment = [p \in Payments |-> None] /\ drop = [d \in Drops |-> None]
  /\ asked = [a \in Asks |-> None] /\ entry = [e \in Entries |-> None]

Rows(table, S) == {x \in S : table[x].state # "NONE"}
Between(day, from, to) == from <= day /\ day <= to
-----------------------------------------------------------------------------
(* What happens in the restaurant, as far as a report can tell.            *)
ClockIn(s, w) ==
  /\ shift[s] = None /\ w \in roster /\ today.local \in Days
  /\ \A s2 \in Rows(shift, Shifts) : shift[s2].waiter = w => shift[s2].state = "CLOSED"
  /\ shift' = [shift EXCEPT ![s] = [state |-> "OPEN", waiter |-> w, day |-> today.local]]
  /\ UNCHANGED <<today, roster, line, payment, drop, asked, entry>>

ClockOut(s) ==
  /\ shift[s].state = "OPEN"
  /\ shift' = [shift EXCEPT ![s].state = "CLOSED"]
  /\ UNCHANGED <<today, roster, line, payment, drop, asked, entry>>

(* The item takes the seating's day, which may have begun before midnight, *)
(* and its confirmation the moment.                                        *)
Confirm(l, s, dish, day) ==
  /\ line[l] = None /\ shift[s].state = "OPEN" /\ day \in Days /\ Between(day, 0, today.local)
  /\ line' = [line EXCEPT ![l] =
       [state |-> "QUEUED", shift |-> s, dish |-> dish, day |-> day, confirmed |-> today.utc,
        prepared |-> FALSE, gone |-> 0]]
  /\ UNCHANGED <<today, roster, shift, payment, drop, asked, entry>>

Proceed(l) ==
  /\ \/ line[l].state = "QUEUED" /\ line' = [line EXCEPT ![l].state = "READY", ![l].prepared = TRUE]
     \/ line[l].state = "READY" /\ line' = [line EXCEPT ![l].state = "SERVED"]
  /\ UNCHANGED <<today, roster, shift, payment, drop, asked, entry>>

(* A manager may cancel what was cooked already.                           *)
CancelLine(l) ==
  /\ line[l].state \in {"QUEUED", "READY"}
  /\ line' = [line EXCEPT ![l].state = "CANCELLED", ![l].gone = today.utc]
  /\ UNCHANGED <<today, roster, shift, payment, drop, asked, entry>>

(* A payment has its bill's day, the seating's, and the collector's shift; *)
(* a transfer is verified before it is written, settled like cash.         *)
Collect(p, s, method, amount, day) ==
  /\ payment[p] = None /\ shift[s].state = "OPEN" /\ Between(day, 0, today.local) /\ day \in Days
  /\ payment' = [payment EXCEPT ![p] =
       [state |-> "SETTLED", method |-> method, amount |-> amount, shift |-> s, day |-> day]]
  /\ UNCHANGED <<today, roster, shift, line, drop, asked, entry>>

InitiateDrop(d, s, declared) ==
  /\ drop[d] = None /\ shift[s].state = "OPEN"
  /\ drop' = [drop EXCEPT ![d] = [state |-> "INITIATED", shift |-> s, day |-> shift[s].day,
                                  declared |-> declared, counted |-> 0]]
  /\ UNCHANGED <<today, roster, shift, line, payment, asked, entry>>

(* The cashier counts; a count that differs opens a dispute.               *)
CountDrop(d, counted) ==
  /\ drop[d].state = "INITIATED"
  /\ drop' = [drop EXCEPT ![d].counted = counted,
                          ![d].state = IF counted = drop[d].declared THEN "RECEIVED" ELSE "DISPUTED"]
  /\ UNCHANGED <<today, roster, shift, line, payment, asked, entry>>

Ask(a, kind) ==
  /\ asked[a] = None
  /\ asked' = [asked EXCEPT ![a] = [state |-> "PENDING", kind |-> kind, day |-> today.utc]]
  /\ UNCHANGED <<today, roster, shift, line, payment, drop, entry>>

Decide(a, state) ==
  /\ asked[a].state = "PENDING"
  /\ asked' = [asked EXCEPT ![a].state = state]
  /\ UNCHANGED <<today, roster, shift, line, payment, drop, entry>>

Book(e, kind, value) ==
  /\ entry[e] = None
  /\ entry' = [entry EXCEPT ![e] = [state |-> kind, value |-> value, day |-> today.utc]]
  /\ UNCHANGED <<today, roster, shift, line, payment, drop, asked>>

Suspend(w) ==
  /\ w \in roster /\ roster' = roster \ {w}
  /\ UNCHANGED <<today, shift, line, payment, drop, asked, entry>>

Reactivate(w) ==
  /\ w \notin roster /\ roster' = roster \cup {w}
  /\ UNCHANGED <<today, shift, line, payment, drop, asked, entry>>

(* Midnight in Addis Ababa, and three hours later in UTC.                  *)
Midnight ==
  /\ today.utc < MaxDay
  /\ today' = IF today.local = today.utc THEN [today EXCEPT !.local = @ + 1]
              ELSE [today EXCEPT !.utc = @ + 1]
  /\ UNCHANGED <<roster, shift, line, payment, drop, asked, entry>>
-----------------------------------------------------------------------------
(* Waiter performance: list.                                               *)
Price(l) == line[l].dish.price
SessionsOf(w, from, to) ==
  {s \in Rows(shift, Shifts) : shift[s].waiter = w /\ Between(shift[s].day, from, to)}
OrdersOf(w, from, to) == {l \in Rows(line, Lines) : line[l].shift \in SessionsOf(w, from, to)}

(* Mutant: the list counts what was cancelled.                             *)
InAnyRow(l) == line[l].state # "NONE"
InRow(l) == line[l].state # "CANCELLED"
Took(ss, method, states) ==
  MapThenSumSet(LAMBDA p : payment[p].amount,
    {p \in Rows(payment, Payments) : /\ payment[p].shift \in ss /\ payment[p].method = method
                                     /\ payment[p].state \in states})
Dropped(ss) ==
  MapThenSumSet(LAMBDA d : drop[d].counted,
    {d \in Rows(drop, Drops) : drop[d].shift \in ss /\ drop[d].state = "RECEIVED"})
Undropped(ss) ==
  LET pending == MapThenSumSet(LAMBDA d : drop[d].declared,
        {d \in Rows(drop, Drops) : drop[d].shift \in ss /\ drop[d].state \in {"INITIATED", "DISPUTED"}})
      left == Took(ss, "CASH", {"SETTLED"}) - Dropped(ss) - pending
  IN IF left > 0 THEN left ELSE 0

Performance(w, from, to) ==
  LET ss == SessionsOf(w, from, to)
  IN [sales |-> MapThenSumSet(Price, {l \in OrdersOf(w, from, to) : InRow(l)}),
      orders |-> Cardinality(OrdersOf(w, from, to)), cash |-> Took(ss, "CASH", {"SETTLED"}),
      transfer |-> Took(ss, "TRANSFER", {"SETTLED", "VERIFIED"}), dropped |-> Dropped(ss),
      undropped |-> Undropped(ss), in |-> \E s \in ss : shift[s].state = "OPEN"]

(* getDetail reads one waiter's sessions, whatever the waiter's status.    *)
Detail(w, from, to) ==
  LET ss == {s \in Rows(shift, Shifts) : shift[s].waiter = w /\ Between(shift[s].day, from, to)}
      taken == {p \in Rows(payment, Payments) : payment[p].shift \in ss}
      given == {d \in Rows(drop, Drops) : drop[d].shift \in ss}
      cash == MapThenSumSet(LAMBDA p : payment[p].amount,
                {p \in taken : payment[p].method = "CASH" /\ payment[p].state = "SETTLED"})
      received == MapThenSumSet(LAMBDA d : drop[d].counted, {d \in given : drop[d].state = "RECEIVED"})
      waiting == MapThenSumSet(LAMBDA d : drop[d].declared,
                   {d \in given : drop[d].state \in {"INITIATED", "DISPUTED"}})
  IN [sales |-> MapThenSumSet(Price, {l \in Rows(line, Lines) : line[l].shift \in ss /\ line[l].state # "CANCELLED"}),
      orders |-> Cardinality({l \in Rows(line, Lines) : line[l].shift \in ss}), cash |-> cash,
      transfer |-> MapThenSumSet(LAMBDA p : payment[p].amount,
        {p \in taken : payment[p].method = "TRANSFER" /\ payment[p].state \in {"SETTLED", "VERIFIED"}}),
      dropped |-> received,
      undropped |-> IF cash - received - waiting > 0 THEN cash - received - waiting ELSE 0,
      in |-> \E s \in ss : shift[s].state = "OPEN"]

(* listOrders: a row for each order with its own net sales.                *)
History(w, from, to) ==
  {[line |-> l, net |-> IF line[l].state = "CANCELLED" THEN 0 ELSE Price(l)] : l \in OrdersOf(w, from, to)}
-----------------------------------------------------------------------------
(* Manager reports.                                                        *)
CashReport(from, to) ==
  LET in == {d \in Rows(drop, Drops) : Between(drop[d].day, from, to)}
      Of(state) == {d \in in : drop[d].state = state}
      Declared(ds) == MapThenSumSet(LAMBDA d : drop[d].declared, ds)
  IN [dropped |-> Declared(in),
      received |-> MapThenSumSet(LAMBDA d : drop[d].counted, Of("RECEIVED")),
      pending |-> Declared(Of("INITIATED")), disputed |-> Declared(Of("DISPUTED")),
      variance |-> MapThenSumSet(LAMBDA d : drop[d].counted - drop[d].declared,
                                 Of("RECEIVED") \cup Of("DISPUTED"))]

CancelReport(from, to) ==
  LET in == {a \in Rows(asked, Asks) : Between(asked[a].day, from, to)}
      Count(kind, state) == Cardinality({a \in in : asked[a].kind = kind /\ asked[a].state = state})
  IN [cancelled |-> MapThenSumSet(Price,
        {l \in Rows(line, Lines) : line[l].state = "CANCELLED" /\ Between(line[l].gone, from, to)}),
      requests |-> Cardinality(in),
      approved |-> Count("CANCELLATION", "APPROVED") + Count("CHANGE", "APPROVED"),
      rejected |-> Count("CANCELLATION", "REJECTED") + Count("CHANGE", "REJECTED"),
      pending |-> Count("CANCELLATION", "PENDING") + Count("CHANGE", "PENDING")]

Booked(kinds, from, to) ==
  MapThenSumSet(LAMBDA e : entry[e].value,
    {e \in Rows(entry, Entries) : entry[e].state \in kinds /\ Between(entry[e].day, from, to)})
InventoryReport(from, to) ==
  [waste |-> Booked({"WASTE"}, from, to), received |-> Booked({"RECEIVE"}, from, to)]

(* What a station finished, cancelled afterwards or not.                   *)
StationReport(from, to) ==
  [k \in {d.station : d \in Dishes} |->
     Cardinality({l \in Rows(line, Lines) : /\ line[l].dish.station = k /\ line[l].prepared
                                            /\ Between(line[l].day, from, to)})]

FbLines(from, to) ==
  {l \in Rows(line, Lines) : line[l].state # "CANCELLED" /\ Between(line[l].confirmed, from, to)}
FbRevenue(S) == MapThenSumSet(Price, S)
FbWaste(from, to) == Booked({"WASTE", "YIELD_TRIM"}, from, to)
FbParts(ls) ==
  [drink |-> FbRevenue({l \in ls : line[l].dish.drink}),
   food |-> FbRevenue({l \in ls : ~line[l].dish.drink}),
   category |-> [c \in {d.category : d \in Dishes} |-> FbRevenue({l \in ls : line[l].dish.category = c})],
   station |-> [k \in {d.station : d \in Dishes} |-> FbRevenue({l \in ls : line[l].dish.station = k})],
   item |-> [d \in Dishes |-> FbRevenue({l \in ls : line[l].dish = d})]]
FbDaily(ls, from, to) == [day \in from..to |-> FbRevenue({l \in ls : line[l].confirmed = day})]
FbReport(from, to) ==
  LET ls == FbLines(from, to)
  IN [revenue |-> FbRevenue(ls), cost |-> MapThenSumSet(LAMBDA l : line[l].dish.cost, ls),
      parts |-> FbParts(ls), daily |-> FbDaily(ls, from, to), waste |-> FbWaste(from, to)]
-----------------------------------------------------------------------------
(* getBranchRevenue.  Cash counts unless it failed, a transfer when it is  *)
(* through.                                                                *)
Collected(p) ==
  \/ payment[p].method = "CASH" /\ payment[p].state # "FAILED"
  \/ payment[p].method = "TRANSFER" /\ payment[p].state \in {"VERIFIED", "SETTLED"}
Collections(from, to) ==
  MapThenSumSet(LAMBDA p : payment[p].amount,
    {p \in Rows(payment, Payments) : Collected(p) /\ Between(payment[p].day, from, to)})
Series(from, to) == [day \in from..to |-> Collections(day, day)]
-----------------------------------------------------------------------------
Sum(f) == MapThenSumSet(LAMBDA x : f[x], DOMAIN f)

(* The list, the waiter's page and the list of his orders tell the same.   *)
WaitersAgree(from, to) ==
  \A w \in roster :
    /\ Performance(w, from, to) = Detail(w, from, to)
    /\ Performance(w, from, to).sales = MapThenSumSet(LAMBDA r : r.net, History(w, from, to))

(* Cash that was dropped is received, waiting or disputed, up to what the  *)
(* counts differed; while everybody is on the roster, the waiters' rows    *)
(* say what the cashier received; and the collections of all days are the  *)
(* waiters' cash and transfers (of one day they are not: a payment has its *)
(* seating's day, a waiter's row his shift's).                             *)
CashAgrees(from, to) ==
  LET cash == CashReport(from, to)
      counted == MapThenSumSet(LAMBDA d : drop[d].counted,
                   {d \in Rows(drop, Drops) : drop[d].state = "DISPUTED" /\ Between(drop[d].day, from, to)})
  IN /\ cash.dropped + cash.variance = cash.received + cash.pending + counted
     /\ cash.dropped = cash.received + cash.pending + cash.disputed
     /\ roster = Waiters =>
          /\ MapThenSumSet(LAMBDA w : Performance(w, from, to).dropped, roster) = cash.received
          /\ from = 0 /\ to = MaxDay =>
               MapThenSumSet(LAMBDA w : Performance(w, from, to).cash + Performance(w, from, to).transfer, roster)
                 = Collections(from, to)
     /\ Sum(Series(from, to)) = Collections(from, to)

(* However food and drink are split, the parts make the whole; a request   *)
(* is counted once; waste in the two reports differs by the trim.          *)
SplitsAgree(from, to) ==
  LET fb == FbReport(from, to)
      cancels == CancelReport(from, to)
  IN /\ fb.revenue = fb.parts.food + fb.parts.drink /\ fb.revenue = Sum(fb.parts.category)
     /\ fb.revenue = Sum(fb.parts.station) /\ fb.revenue = Sum(fb.parts.item)
     /\ fb.revenue = Sum(fb.daily)
     /\ cancels.requests = cancels.approved + cancels.rejected + cancels.pending
     /\ fb.waste = InventoryReport(from, to).waste + Booked({"YIELD_TRIM"}, from, to)
     /\ Sum(StationReport(from, to)) >= Cardinality(
          {l \in Rows(line, Lines) : line[l].state \in {"READY", "SERVED"} /\ Between(line[l].day, from, to)})

(* Reports of the same days do not contradict one another, whatever        *)
(* happened in the restaurant before they are drawn.                       *)
ReportsAgree ==
  \A from \in Days : \A to \in from..MaxDay :
    WaitersAgree(from, to) /\ CashAgrees(from, to) /\ SplitsAgree(from, to)

(* Not so: what the waiters sold in all days is what food and drink sold.  *)
(* A suspended waiter leaves the list, his sales stay in the other.        *)
SalesAgree ==
  MapThenSumSet(LAMBDA w : Performance(w, 0, MaxDay).sales, roster) = FbReport(0, MaxDay).revenue
-----------------------------------------------------------------------------
Selling ==
  \/ \E s \in Shifts, w \in Waiters : ClockIn(s, w)
  \/ \E s \in Shifts : ClockOut(s)
  \/ \E l \in Lines, s \in Shifts, dish \in Dishes, day \in Days :
       Confirm(l, s, dish, day)
  \/ \E l \in Lines : Proceed(l) \/ CancelLine(l)
  \/ Midnight
Money ==
  \/ \E s \in Shifts, w \in Waiters : ClockIn(s, w)
  \/ \E p \in Payments, s \in Shifts, method \in {"CASH", "TRANSFER"}, amount \in Amounts,
        day \in Days : Collect(p, s, method, amount, day)
  \/ \E d \in Drops, s \in Shifts, n \in Amounts : InitiateDrop(d, s, n)
  \/ \E d \in Drops, n \in Amounts : CountDrop(d, n)
  \/ \E w \in Waiters : Suspend(w) \/ Reactivate(w)
  \/ Midnight
Keeping ==
  \/ \E a \in Asks, kind \in {"CANCELLATION", "CHANGE"} : Ask(a, kind)
  \/ \E a \in Asks, state \in {"APPROVED", "REJECTED"} : Decide(a, state)
  \/ \E e \in Entries, kind \in {"RECEIVE", "WASTE", "YIELD_TRIM"}, n \in Amounts : Book(e, kind, n)
  \/ Midnight

Next == Selling \/ Money \/ Keeping
Spec == Init /\ [][Next]_vars
================================================================================
