------------------------------- MODULE Dashboard -------------------------------
(***************************************************************************)
(* What a manager sees of the day: the dashboard and the revenue of a      *)
(* branch (src/manager-dashboard/manager-dashboard.service.ts), the page   *)
(* of a table (src/floor/floor-layout.service.ts), and the page, the queue *)
(* and the history of a station (src/stations/stations.service.ts).  They  *)
(* count the same tickets, bills and payments, each with filters, days and *)
(* fallbacks of its own.                                                   *)
(*                                                                         *)
(* Tickets, Alerts and Seating say how the tables are written, step by     *)
(* step; here a write is one action, and the moments are kept.  A ticket   *)
(* is of one portion.  Orders of rooms and of outside, VIP prices, percent *)
(* and rounding are left out, and so is what the pages cut off: the first  *)
(* 8 waiters, 10 requests and 5000 tickets.                                *)
(***************************************************************************)
EXTENDS Integers, SequencesExt

CONSTANTS Tables,       \* ids of dining_tables
          Branches,     \* what a page may be about: the tables of a branch, or all
          Waiters,      \* ids of members who wait
          Stations,     \* ids of preparation_stations
          Visits,       \* ids of table_sessions
          Items,        \* ids of order_items
          At,           \* the table of a visit
          By,           \* its primary waiter
          Of,           \* the visit that orders a ticket
          Guests,       \* how many they are
          Price,        \* what a ticket costs
          Dish,         \* its name
          Station,      \* where it is made
          Quick,        \* stations that need not start what they make
          Ways,         \* how a payment is made: CASH, or a transfer channel
          Slots,        \* the hours of a day that are told apart
          Opens,        \* the hours the hourly chart always shows: 8 ..
          Shuts,        \* .. to 21
          Week,         \* the days of a week
          Monday,       \* the weekday of day 0
          Longest,      \* how many days a chart shows day by day: 45
          Target,       \* expected_prep_minutes_snapshot
          TooLong,      \* READY_STALE_MS
          Stale,        \* STALE_EXCEPTION_SECONDS
          Endless,      \* what is no preparation time: 7200 seconds
          MaxPayments,  \* bound: payments
          MaxTime,      \* bound: the last moment
          NULL          \* the SQL null

(* What the constants are.                                                 *)
DashboardAssumption ==
  /\ IsFiniteSet(Visits) /\ IsFiniteSet(Items)
  /\ Of \in [Items -> Visits] /\ At \in [Visits -> Tables] /\ Branches \subseteq SUBSET Tables
  /\ By \in [Visits -> Waiters] /\ Guests \in [Visits -> Nat]
  /\ Price \in [Items -> Nat \ {0}] /\ Station \in [Items -> Stations] /\ Quick \subseteq Stations
  /\ DOMAIN Dish = Items /\ {Slots, Week} \subseteq Nat \ {0} /\ Monday \in 0..(Week - 1)
  /\ Opens \in 0..(Slots - 1) /\ Shuts \in Opens..(Slots - 1)
  /\ {Longest, Target, TooLong, Stale, Endless, MaxPayments, MaxTime} \subseteq Nat

VARIABLES
  now,      \* hours since the midnight before the first day
  visit,    \* table_sessions, with the bill request that is pending
  item,     \* order_items
  bill,     \* bills: there is one of a visit
  payment   \* payments, oldest first

vars == <<now, visit, item, bill, payment>>
-----------------------------------------------------------------------------
Cooking == {"QUEUED", "ACKNOWLEDGED", "IN_PREPARATION"}
Orderable == {"OPEN", "ACTIVE_ORDER", "BILL_REQUESTED"}
Moment == 0..MaxTime
None == [status |-> "NONE"]
Visit ==
  [day : Nat, status : Orderable \cup {"BILL_READY", "PAID", "CLOSED"}, asked : BOOLEAN]
Item ==
  [status : Cooking \cup {"READY", "SERVED", "PARKED", "CANCELLED"},
   was : {"IN_PREPARATION", "READY", NULL}, queued : Moment, started : Moment \cup {NULL},
   ready : Moment \cup {NULL}, timer : Int, alerted : BOOLEAN]
Bill ==
  [status : {"GENERATED", "PAYMENT_PENDING", "PAID", "CLOSED"}, total : Nat, paid : Nat, at : Moment]
Payment == [visit : Visits, amount : Nat, way : Ways, at : Moment]

(* The tables have their types.                                            *)
TypeOK ==
  /\ now \in Moment
  /\ visit \in [Visits -> {None} \cup Visit] /\ item \in [Items -> {None} \cup Item]
  /\ bill \in [Visits -> {None} \cup Bill] /\ payment \in Seq(Payment)

Init ==
  /\ now = 0
  /\ visit = [v \in Visits |-> None] /\ item = [i \in Items |-> None]
  /\ bill = [v \in Visits |-> None] /\ payment = <<>>
-----------------------------------------------------------------------------
(* The writers of the tables.  A visit keeps the day on which it began,    *)
(* and its orders, its bill and its payments take that day from it.        *)
LocalDay(m) == m \div Slots
Hour(m) == m % Slots
Today == LocalDay(now)
Open(v) == visit[v].status \notin {"NONE", "CLOSED"}
Chargeable(v) ==
  {i \in Items : item[i] # None /\ Of[i] = v /\ item[i].status # "CANCELLED"}
SumOver(S, Op(_)) == MapThenSumSet(Op, S)

StartSession(v) ==
  /\ visit[v] = None /\ \A w \in Visits : At[w] = At[v] => ~Open(w)
  /\ visit' = [visit EXCEPT ![v] = [day |-> Today, status |-> "OPEN", asked |-> FALSE]]
  /\ UNCHANGED <<now, item, bill, payment>>

ConfirmOrder(i) ==
  /\ visit[Of[i]].status \in Orderable /\ item[i] = None
  /\ item' = [item EXCEPT ![i] =
       [status |-> "QUEUED", was |-> NULL, queued |-> now, started |-> NULL, ready |-> NULL,
        timer |-> now + Target, alerted |-> FALSE]]
  /\ visit' = [visit EXCEPT ![Of[i]].status = "ACTIVE_ORDER"]
  /\ UNCHANGED <<now, bill, payment>>

SetItem(i, row) == item' = [item EXCEPT ![i] = row] /\ UNCHANGED <<now, visit, bill, payment>>
Acknowledge(i) == item[i].status = "QUEUED" /\ SetItem(i, [item[i] EXCEPT !.status = "ACKNOWLEDGED"])
StartPreparation(i) ==
  /\ item[i].status \in {"QUEUED", "ACKNOWLEDGED"}
  /\ SetItem(i, [item[i] EXCEPT !.status = "IN_PREPARATION", !.started = now])
(* Ready tickets have no timer any more.                                   *)
MarkReady(i) ==
  /\ item[i].status \in (IF Station[i] \in Quick THEN Cooking ELSE {"IN_PREPARATION"})
  /\ SetItem(i, [item[i] EXCEPT !.status = "READY", !.ready = now, !.timer = MaxTime + 1])
MarkServed(i) == item[i].status = "READY" /\ SetItem(i, [item[i] EXCEPT !.status = "SERVED"])

(* What has been started waits for a manager, to be cancelled or changed.  *)
Park(i) ==
  /\ item[i].status \in {"IN_PREPARATION", "READY"}
  /\ SetItem(i, [item[i] EXCEPT !.status = "PARKED", !.was = item[i].status])
Reject(i) ==
  /\ item[i].status = "PARKED"
  /\ SetItem(i, [item[i] EXCEPT !.status = item[i].was, !.was = NULL])
(* A new dish starts over; with a new instruction a ticket that had been   *)
(* started, or was ready, is queued with the times it has.                 *)
ChangeDish(i) ==
  /\ item[i].status \in {"QUEUED", "ACKNOWLEDGED", "PARKED"}
  /\ SetItem(i, [item[i] EXCEPT !.status = "QUEUED", !.was = NULL, !.queued = now, !.started = NULL,
                                !.ready = NULL, !.alerted = FALSE])
ChangeInstruction(i) ==
  /\ item[i].status = "PARKED"
  /\ SetItem(i, [item[i] EXCEPT !.status = "QUEUED", !.was = NULL])

(* applyCancel, by the waiter or by a manager: the last ticket of a table  *)
(* clears ACTIVE_ORDER.                                                    *)
Cancel(i) ==
  /\ item[i].status \in {"QUEUED", "ACKNOWLEDGED", "PARKED"}
  /\ item' = [item EXCEPT ![i].status = "CANCELLED", ![i].was = NULL]
  /\ LET v == Of[i] IN
       visit' = IF Chargeable(v) = {i} /\ visit[v].status = "ACTIVE_ORDER"
                THEN [visit EXCEPT ![v].status = "OPEN"] ELSE visit
  /\ UNCHANGED <<now, bill, payment>>

(* The delay alert, by the timer set for the first dish or by the monitor. *)
AlertDelay(i) ==
  /\ item[i].status \in Cooking /\ ~item[i].alerted
  /\ now >= item[i].timer \/ now - item[i].queued > Target
  /\ SetItem(i, [item[i] EXCEPT !.alerted = TRUE])

RequestBill(v) ==
  /\ visit[v].status \in {"OPEN", "ACTIVE_ORDER"} /\ ~visit[v].asked
  /\ bill[v] = None /\ Chargeable(v) # {}
  /\ visit' = [visit EXCEPT ![v].status = "BILL_REQUESTED", ![v].asked = TRUE]
  /\ UNCHANGED <<now, item, bill, payment>>
GenerateBill(v) ==
  /\ visit[v] # None /\ visit[v].asked /\ bill[v] = None /\ Chargeable(v) # {}
  /\ bill' = [bill EXCEPT ![v] =
       [status |-> "GENERATED", total |-> SumOver(Chargeable(v), LAMBDA i : Price[i]), paid |-> 0, at |-> now]]
  /\ visit' = [visit EXCEPT ![v].status = "BILL_READY", ![v].asked = FALSE]
  /\ UNCHANGED <<now, item, payment>>
Pay(v, amount, way) ==
  /\ bill[v].status \in {"GENERATED", "PAYMENT_PENDING"} /\ Len(payment) < MaxPayments
  /\ amount \in 1..(bill[v].total - bill[v].paid)
  /\ LET paid == bill[v].paid + amount
         full == paid = bill[v].total
     IN /\ bill' = [bill EXCEPT ![v].paid = paid, ![v].status = IF full THEN "PAID" ELSE "PAYMENT_PENDING"]
        /\ visit' = IF full THEN [visit EXCEPT ![v].status = "PAID"] ELSE visit
  /\ payment' = Append(payment, [visit |-> v, amount |-> amount, way |-> way, at |-> now])
  /\ UNCHANGED <<now, item>>
(* closeSession: whatever the tickets are in, and whatever is due.         *)
CloseSession(v) ==
  /\ Open(v) /\ (Chargeable(v) = {} \/ visit[v].status = "PAID")
  /\ visit' = [visit EXCEPT ![v].status = "CLOSED"]
  /\ bill' = IF bill[v].status = "PAID" THEN [bill EXCEPT ![v].status = "CLOSED"] ELSE bill
  /\ UNCHANGED <<now, item, payment>>

Pass == now < MaxTime /\ now' = now + 1 /\ UNCHANGED <<visit, item, bill, payment>>
-----------------------------------------------------------------------------
(* getDashboard of the tables T, of a branch or of all: the rows of its    *)
(* days.                                                                   *)
VisitsIn(T, days) == {v \in Visits : visit[v] # None /\ At[v] \in T /\ visit[v].day \in days}
BillsIn(T, days) == {v \in VisitsIn(T, days) : bill[v] # None}
PaymentsIn(T, days) == {p \in DOMAIN payment : payment[p].visit \in VisitsIn(T, days)}
ItemsIn(T, days) == {i \in Items : item[i] # None /\ Of[i] \in VisitsIn(T, days)}
Sold(T, days) == {i \in ItemsIn(T, days) : item[i].status # "CANCELLED"}

Larger(a, b) == IF a >= b THEN a ELSE b
Smaller(a, b) == IF a <= b THEN a ELSE b
Billed(vs) == SumOver(vs, LAMBDA v : bill[v].total)
Paid(vs) == SumOver(vs, LAMBDA v : bill[v].paid)
Amounts(ps) == SumOver(ps, LAMBDA p : payment[p].amount)
Worth(is) == SumOver(is, LAMBDA i : Price[i])

(* The money of a period: what was billed, or else paid, or else ordered.  *)
BilledTotal(T, days) ==
  LET bs == BillsIn(T, days) IN
  IF Billed(bs) > 0 THEN Billed(bs) ELSE IF Paid(bs) > 0 THEN Paid(bs) ELSE Worth(Sold(T, days))
Collections(T, days) == Amounts(PaymentsIn(T, days))
CollectionGap(T, days) == Larger(0, BilledTotal(T, days) - Collections(T, days))
Cash(ps) == {p \in ps : payment[p].way = "CASH"}
Channel(way) ==
  CASE way = "CASH" -> "cash" [] way = "TELEBIRR" -> "telebirr" [] way = "CBE" -> "cbe"
    [] way \in {"AWASH", "DASHEN", "BANK"} -> "transfer" [] OTHER -> "other"
Channels(T, days) ==
  [c \in {"telebirr", "cbe", "transfer", "cash", "other"} |->
     Amounts({p \in PaymentsIn(T, days) : Channel(payment[p].way) = c})]
Dishes(T, days) ==
  [d \in {Dish[i] : i \in Items} |-> Worth({i \in Sold(T, days) : Dish[i] = d})]

(* The charts: a point of every day, or in a long period of every week,    *)
(* where a week that has no bill shows what was ordered.                   *)
Point(T, days, net) ==
  LET ps == PaymentsIn(T, days) IN
  [net |-> net, collections |-> Amounts(ps), cash |-> Amounts(Cash(ps)), digital |-> Amounts(ps \ Cash(ps)),
   covers |-> SumOver(VisitsIn(T, days), LAMBDA v : Guests[v])]
Daily(T, from, to) == [d \in from..to |-> Point(T, {d}, Billed(BillsIn(T, {d})))]
WeekFrom(d, to) == d..Smaller(d + Week - 1, to)
Weekly(T, from, to) ==
  [d \in {x \in from..to : (x - from) % Week = 0} |->
     LET days == WeekFrom(d, to) IN
     Point(T, days, IF BillsIn(T, days) = {} THEN Worth(Sold(T, days)) ELSE Billed(BillsIn(T, days)))]
Trend(T, from, to) == IF to - from + 1 > Longest THEN Weekly(T, from, to) ELSE Daily(T, from, to)

(* A day by its hours, the hour being that of the bill or the payment,     *)
(* which may be of the next morning; without a bill, that of the order.    *)
HourSlot(T, day, h) ==
  LET bs == BillsIn(T, {day}) IN
  [billed |-> IF bs = {} THEN Worth({i \in Sold(T, {day}) : Hour(item[i].queued) = h})
              ELSE Billed({v \in bs : Hour(bill[v].at) = h}),
   collected |-> Amounts({p \in PaymentsIn(T, {day}) : Hour(payment[p].at) = h})]
Hourly(T, day) ==
  LET slot == [h \in 0..(Slots - 1) |-> HourSlot(T, day, h)]
      active == {h \in DOMAIN slot : slot[h].billed > 0 \/ slot[h].collected > 0}
      shown == {h \in DOMAIN slot : /\ h >= Opens \/ \E x \in active : x <= h
                                    /\ h <= Shuts \/ \E x \in active : x >= h}
  IN [h \in shown |-> slot[h]]

(* The bills of today that something is due on.                            *)
Unpaid(T) == {v \in BillsIn(T, {Today}) : bill[v].total > bill[v].paid}
UnpaidGap(T) == SumOver(Unpaid(T), LAMBDA v : bill[v].total - bill[v].paid)

WaiterPerformance(T, days) ==
  [w \in Waiters |->
     LET mine == {v \in VisitsIn(T, days) : By[v] = w} IN
     [covers |-> SumOver(mine, LAMBDA v : Guests[v]), tables |-> Cardinality(mine),
      revenue |-> Billed({v \in mine : bill[v] # None})]]
-----------------------------------------------------------------------------
(* getBranchRevenue of a quarter to date: its series has a point for every *)
(* week it comes to when it goes on by seven days from the first one.      *)
WeekOf(d) == d - ((d + Monday) % Week)
SeriesKeys(from, to) == {WeekOf(d) : d \in {x \in from..to : (x - from) % Week = 0}}
RevenueSeries(T, from, to) ==
  [k \in SeriesKeys(from, to) |->
     LET days == {d \in from..to : WeekOf(d) = k} IN
     [net |-> Billed(BillsIn(T, days)), collections |-> Collections(T, days)]]
RevenueValue(T, days) ==
  IF Billed(BillsIn(T, days)) > 0 THEN Billed(BillsIn(T, days)) ELSE Collections(T, days)
-----------------------------------------------------------------------------
(* The page of a table: its guests now, what it has earned, its visits.    *)
TableVisits(t, days) == {v \in VisitsIn({t}, days) : visit[v].status = "CLOSED"}
TableKpis(t, days) ==
  LET vs == TableVisits(t, days) IN
  [turns |-> Cardinality(vs), covers |-> SumOver(vs, LAMBDA v : Guests[v]),
   revenue |-> SumOver({v \in vs : bill[v] # None},
                       LAMBDA v : IF bill[v].paid > 0 THEN bill[v].paid ELSE bill[v].total)]
TableLate(i) == item[i].status \in Cooking /\ now - item[i].queued > Target
TableLive(t) ==
  LET mine == {i \in Items : /\ item[i] # None /\ item[i].status # "CANCELLED"
                             /\ At[Of[i]] = t /\ Open(Of[i])}
  IN [open |-> mine, cooking |-> {i \in mine : item[i].status \in Cooking},
      ready |-> {i \in mine : item[i].status = "READY"}, delayed |-> {i \in mine : TableLate(i)}]
-----------------------------------------------------------------------------
(* What goes on now: the tickets of today, and what is left of before.     *)
Live(T) ==
  ItemsIn(T, {Today})
    \cup {i \in Items : item[i] # None /\ At[Of[i]] \in T /\ item[i].status \in Cooking \cup {"READY"}}
Backlog(T) == {i \in Live(T) : item[i].status \in Cooking}
ReadyItems(T) == {i \in Live(T) : item[i].status = "READY"}
ReadyTooLong(T) == {i \in ReadyItems(T) : now - item[i].ready >= TooLong}
Begun(i) == IF item[i].started # NULL THEN item[i].started ELSE item[i].queued
LatePrep(T) == {i \in Backlog(T) : item[i].alerted \/ now - Begun(i) >= Target}

StationBacklog(T, s) ==
  LET mine == {i \in Backlog(T) : Station[i] = s}
      inPrep == {i \in mine : item[i].status = "IN_PREPARATION"}
  IN [queued |-> mine \ inPrep, inPrep |-> inPrep]
Throughput(T, s) ==
  LET In(states) == {i \in Live(T) : Station[i] = s /\ item[i].status \in states}
  IN [cancelled |-> In({"CANCELLED"}), queued |-> In({"QUEUED", "ACKNOWLEDGED"}),
      inPrep |-> In({"IN_PREPARATION"}), ready |-> In({"READY"}), served |-> In({"SERVED"})]

(* The times of preparation.                                               *)
PrepTime(i) ==
  IF item[i].ready = NULL THEN NULL
  ELSE LET took == item[i].ready - Begun(i)
       IN IF took > 0 /\ took < Endless THEN took ELSE NULL
Timed(T, days) == {i \in ItemsIn(T, days) : PrepTime(i) # NULL}
PrepBuckets(T, days) ==
  [b \in 1..3 |-> {i \in Timed(T, days) : IF b = 3 THEN PrepTime(i) >= 3 ELSE PrepTime(i) = b}]
StationPrep(T, days) == [s \in Stations |-> {i \in Timed(T, days) : Station[i] = s}]
-----------------------------------------------------------------------------
(* The page of a station, its queue and its history; how a ticket looks in *)
(* the queue, and on the waiter's list.                                    *)
StationDetail(s) ==
  LET mine == {i \in Items : item[i] # None /\ Station[i] = s /\ item[i].status # "CANCELLED"}
      today == {i \in mine : visit[Of[i]].day = Today}
  IN [open |-> {i \in mine : item[i].status \in Cooking}, today |-> today,
      served |-> {i \in today : item[i].status \in {"READY", "SERVED"}}]
Queue(s) == {i \in Items : /\ item[i] # None /\ Station[i] = s
                           /\ item[i].status \in Cooking \cup {"READY"}}
HistoryPrep(i) == IF item[i].ready = NULL THEN NULL ELSE Larger(0, item[i].ready - Begun(i))
TicketDelayed(i) ==
  LET elapsed == now - item[i].queued IN
  \/ item[i].status \in Cooking /\ Target > 0 /\ elapsed > Target
  \/ item[i].status \in Cooking \cup {"READY"} /\ elapsed >= Stale
WaiterDelayed(i) == item[i].alerted \/ TableLate(i)
-----------------------------------------------------------------------------
(* What the pages promise each other.                                      *)
Periods == {p \in (0..Today) \X (0..Today) : p[1] <= p[2]}
PointsOf(points, Op(_)) == SumOver(DOMAIN points, LAMBDA d : Op(points[d]))

(* What was collected in a period is one number: that of its channels, of  *)
(* cash and the rest, of every chart, and of what its bills have been      *)
(* paid; and it is never above what was billed.                            *)
CollectionsAgree ==
  \A T \in Branches, p \in Periods :
    LET days == p[1]..p[2]
        got == Collections(T, days)
        channels == Channels(T, days)
    IN /\ got = PointsOf(channels, LAMBDA amount : amount)
       /\ got = Paid(BillsIn(T, days)) /\ got <= Billed(BillsIn(T, days))
       /\ \A points \in {Trend(T, p[1], p[2]), Weekly(T, p[1], p[2])} :
            /\ got = PointsOf(points, LAMBDA x : x.collections)
            /\ got = PointsOf(points, LAMBDA x : x.cash) + PointsOf(points, LAMBDA x : x.digital)
            /\ channels["cash"] = PointsOf(points, LAMBDA x : x.cash)

(* What was billed in a period is what its days were billed, but a week    *)
(* without a bill shows its orders, as a whole period without one does;    *)
(* the gap of a period with a bill is what is due of its bills; and dishes *)
(* add up to what was ordered, waiters to what was billed.                 *)
BillsAgree ==
  \A T \in Branches, p \in Periods :
    LET days == p[1]..p[2]
        bs == BillsIn(T, days)
        weeks == Weekly(T, p[1], p[2])
        bare == {d \in DOMAIN weeks : BillsIn(T, WeekFrom(d, p[2])) = {}}
        waiters == WaiterPerformance(T, days)
    IN /\ BilledTotal(T, days) = IF bs = {} THEN Worth(Sold(T, days)) ELSE Billed(bs)
       /\ Billed(bs) = PointsOf(Daily(T, p[1], p[2]), LAMBDA x : x.net)
       /\ PointsOf(weeks, LAMBDA x : x.net)
            = Billed(bs) + SumOver(bare, LAMBDA d : Worth(Sold(T, WeekFrom(d, p[2]))))
       /\ CollectionGap(T, days)
            = IF bs = {} THEN Worth(Sold(T, days)) ELSE SumOver(bs, LAMBDA v : bill[v].total - bill[v].paid)
       /\ Worth(Sold(T, days)) = PointsOf(Dishes(T, days), LAMBDA amount : amount)
       /\ Billed(bs) = PointsOf(waiters, LAMBDA x : x.revenue)
       /\ PointsOf(weeks, LAMBDA x : x.covers) = PointsOf(waiters, LAMBDA x : x.covers)

(* The hours of a day add up to the day, those of its guests who left      *)
(* after midnight too; and what is unpaid of today is today's gap.         *)
DayAgrees ==
  \A T \in Branches, day \in 0..Today :
    LET hours == Hourly(T, day) IN
    /\ PointsOf(hours, LAMBDA x : x.billed) = BilledTotal(T, {day})
    /\ PointsOf(hours, LAMBDA x : x.collected) = Collections(T, {day})
    /\ day = Today /\ BillsIn(T, {day}) # {} => UnpaidGap(T) = CollectionGap(T, {day})
    /\ Unpaid(T) = {v \in BillsIn(T, {Today}) : bill[v].status \in {"GENERATED", "PAYMENT_PENDING"}}

(* The revenue of a branch is what its weeks show, when the last day of    *)
(* the period is not earlier in its week than the first day is in its own: *)
(* else the week that goes on has no point.                                *)
SeriesAgrees ==
  \A T \in Branches, p \in Periods :
    LET days == p[1]..p[2]
        series == RevenueSeries(T, p[1], p[2])
        shown == {d \in days : (p[2] + Monday) % Week >= (p[1] + Monday) % Week
                                 \/ WeekOf(d) # WeekOf(p[2])}
    IN /\ PointsOf(series, LAMBDA x : x.net) = Billed(BillsIn(T, shown))
       /\ PointsOf(series, LAMBDA x : x.collections) = Collections(T, shown)
       /\ RevenueValue(T, days) = Billed(BillsIn(T, days))

(* A branch is its tables: its bills are theirs, and what it sells never   *)
(* more than they show, as a table without a bill shows its orders.  What  *)
(* a table has earned is what its visits that ended paid.                  *)
TablesAgree ==
  \A p \in Periods :
    LET days == p[1]..p[2]
        Each(Op(_)) == SumOver(Tables, Op)
    IN /\ Billed(BillsIn(Tables, days)) = Each(LAMBDA t : Billed(BillsIn({t}, days)))
       /\ BilledTotal(Tables, days) <= Each(LAMBDA t : BilledTotal({t}, days))
       /\ \A t \in Tables :
            LET kpis == TableKpis(t, days) IN
            /\ kpis.revenue <= Billed(BillsIn({t}, days))
            /\ kpis.turns <= 1 + SumOver(Waiters, LAMBDA w : WaiterPerformance({t}, days)[w].tables)
            /\ (\A v \in TableVisits(t, days) : bill[v] = None \/ Chargeable(v) # {})
                 => kpis.revenue = Paid({v \in TableVisits(t, days) : bill[v] # None})
-----------------------------------------------------------------------------
(* A ticket that is being made is at one station, in one column there, and *)
(* on every page: the backlog of the branch, that of the station, its      *)
(* throughput, its own page and its queue.                                 *)
BacklogAgrees ==
  LET columns(s) == Throughput(Tables, s) IN
  /\ \A s \in Stations :
       LET here == StationBacklog(Tables, s) IN
       /\ here.queued = columns(s).queued /\ here.inPrep = columns(s).inPrep
       /\ here.queued \cap here.inPrep = {}
       /\ StationDetail(s).open = here.queued \cup here.inPrep
       /\ Queue(s) = StationDetail(s).open \cup columns(s).ready
       /\ StationDetail(s).served \subseteq columns(s).ready \cup columns(s).served
       /\ columns(s).served \subseteq StationDetail(s).today
  /\ Backlog(Tables) = UNION {StationDetail(s).open : s \in Stations}
  /\ Cardinality(Backlog(Tables))
       = SumOver(Stations, LAMBDA s : Cardinality(columns(s).queued) + Cardinality(columns(s).inPrep))
  /\ ReadyItems(Tables) = UNION {columns(s).ready : s \in Stations}
  /\ Live(Tables) = UNION {UNION {columns(s)[c] : c \in DOMAIN columns(s)} : s \in Stations}
                      \cup {i \in Live(Tables) : item[i].status = "PARKED"}

(* The tables show the cooking of their guests; what was left by guests    *)
(* who are gone is on the pages of the kitchen alone.                      *)
TablesCook ==
  LET left == {i \in Items : item[i] # None /\ ~Open(Of[i])} IN
  /\ UNION {TableLive(t).cooking : t \in Tables} = Backlog(Tables) \ left
  /\ UNION {TableLive(t).ready : t \in Tables} = ReadyItems(Tables) \ left
  /\ \A t \in Tables : TableLive(t).delayed \subseteq TableLive(t).cooking

(* Late is late: a ticket that a table or a waiter shows as delayed and    *)
(* nobody has begun is among the manager's late ones, and so is every one  *)
(* that alerted; and the manager's list has none that was not either so    *)
(* long in the queue or alerted.                                           *)
LatenessAgrees ==
  \A i \in Backlog(Tables) :
    /\ WaiterDelayed(i) /\ item[i].started = NULL => i \in LatePrep(Tables)
    /\ item[i].alerted => i \in LatePrep(Tables) /\ WaiterDelayed(i)
    /\ i \in LatePrep(Tables) => item[i].alerted \/ now - item[i].queued >= Target
    /\ TableLate(i) /\ Target > 0 => TicketDelayed(i)

(* What is ready took no less than no time, and what the charts of         *)
(* preparation times count, each ticket once, is what the history shows: a *)
(* ticket that went back to the queue and began again has a ready time     *)
(* from before, and is in none of them.                                    *)
PrepAgrees ==
  /\ \A i \in Items : item[i] # None =>
       /\ item[i].started # NULL => item[i].started >= item[i].queued
       /\ PrepTime(i) # NULL => HistoryPrep(i) = PrepTime(i)
       /\ item[i].status \in {"READY", "SERVED"} =>
            item[i].ready # NULL /\ HistoryPrep(i) = item[i].ready - Begun(i)
  /\ \A T \in Branches, p \in Periods :
       LET days == p[1]..p[2]
           Size(parts) == SumOver(DOMAIN parts, LAMBDA x : Cardinality(parts[x]))
       IN /\ Size(PrepBuckets(T, days)) = Cardinality(Timed(T, days))
          /\ Size(StationPrep(T, days)) = Cardinality(Timed(T, days))

ChargingHolds == CollectionsAgree /\ BillsAgree /\ DayAgrees /\ SeriesAgrees /\ TablesAgree
CookingHolds == BacklogAgrees /\ TablesCook /\ LatenessAgrees /\ PrepAgrees
DashboardHolds == ChargingHolds /\ CookingHolds
-----------------------------------------------------------------------------
Sitting == (\E v \in Visits : StartSession(v)) \/ (\E i \in Items : ConfirmOrder(i)) \/ Pass
Charging ==
  \E v \in Visits :
    \/ RequestBill(v) \/ GenerateBill(v) \/ CloseSession(v)
    \/ \E amount \in 1..Worth(Items), way \in Ways : Pay(v, amount, way)
Making ==
  \E i \in Items :
    \/ Acknowledge(i) \/ StartPreparation(i) \/ MarkReady(i) \/ MarkServed(i)
    \/ Park(i) \/ Reject(i) \/ ChangeDish(i) \/ ChangeInstruction(i) \/ Cancel(i) \/ AlertDelay(i)
Next == Sitting \/ Charging \/ Making
Spec == Init /\ [][Next]_vars
=============================================================================
