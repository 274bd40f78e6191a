------------------------------ MODULE DailyClose ------------------------------
(***************************************************************************)
(* The close of a business day (src/daily-close/daily-close.service.ts)    *)
(* over the drawers of CashierDrawer and over what else its snapshot       *)
(* reads: seatings and their kitchen tickets, cash payments and drops.     *)
(*                                                                         *)
(* The snapshot is read before the transaction that stores it; orders,     *)
(* payments and drops ask whether the day is locked before theirs.  One    *)
(* waiter clocks in on each day, and may stay on shift past midnight.      *)
(* Every payment is one unit of cash.  Sales over the counter and pickups, *)
(* whose sessions block no close, are left out.                            *)
(***************************************************************************)
EXTENDS CashierDrawer, FiniteSetsExt

CONSTANTS Days,      \* bound: business dates 1..Days
          Seats,     \* ids of table_sessions and room_sessions
          MaxPaid    \* bound: cash payments

ASSUME CloseAssumption == Days \in Nat \ {0} /\ MaxPaid \in Nat

VARIABLES
  close,     \* operational_daily_closes, by business date
  seat,      \* sessions: status, business date, and the state of their ticket
  paid,      \* settled cash payments, by the business dates of the session, of the
             \* settlement and of the collector's shift
  declared   \* cash declared in drops, by the date of the waiter's shift

floor == <<seat, paid, declared>>
closeVars == <<till, waiting, handler, today, crashes, close, floor>>
-----------------------------------------------------------------------------
Dates == 1..Days
Payments == Dates \X Dates \X Dates
NoClose == [status |-> "NONE", on |-> NULL]
Close == {NoClose} \cup   \* on: the day of lockedAt
  [status : {"DRAFT", "READY_FOR_REVIEW", "APPROVED", "LOCKED"}, sales : Nat,
   on : Dates \cup {NULL}]
NoSeat == [status |-> "NONE"]
Seat == {NoSeat} \cup
  [status : {"OPEN", "CLOSED"}, day : Dates, ticket : {"NONE", "OPEN", "SERVED", "CANCELLED"},
   lock : Dates \cup {NULL}]

(* The tables hold rows of their types.                                    *)
CloseTypeOK ==
  /\ TypeOK
  /\ close \in [Dates -> Close] /\ seat \in [Seats -> Seat]
  /\ paid \in [Payments -> Nat] /\ declared \in [Dates -> Nat]

CloseInit ==
  /\ TillInit
  /\ close = [d \in Dates |-> NoClose] /\ seat = [x \in Seats |-> NoSeat]
  /\ paid = [p \in Payments |-> 0] /\ declared = [d \in Dates |-> 0]

Quiet == \A h \in Handlers : handler[h] = Idle
Enters(h, q) == Loads(h, q) /\ UNCHANGED <<close, floor>>
Sum(f(_), S) == MapThenSumSet(f, S)
-----------------------------------------------------------------------------
(* buildSnapshot.  A payment belongs to the day of its session and to the  *)
(* day on which it was settled.                                            *)
OfDay(p, d) == d \in {p[1], p[2]}
CashSales(d) == Sum(LAMBDA p : IF OfDay(p, d) THEN paid[p] ELSE 0, Payments)
(* waiterLineForShift, for the shift of the day: what it collected of the  *)
(* day's payments, less the drops it has declared, received or not.        *)
Undropped(d) ==
  LET left == Sum(LAMBDA p : IF p[3] = d /\ OfDay(p, d) THEN paid[p] ELSE 0, Payments)
              - declared[d]
  IN IF left > 0 THEN left ELSE 0
(* summaryForShift of the custody: whatever the shift collected.           *)
OnHand(w) == Sum(LAMBDA p : IF p[3] = w THEN paid[p] ELSE 0, Payments) - declared[w]

DrawersOf(d) == {s \in Shifts : drawer[s] # NoDrawer /\ drawer[s].day = d}
(* Mutant: cash that is still with the waiters does not matter.            *)
HardBlockersButCash(d) ==
  \/ \E x \in Seats : seat[x].status = "OPEN"
  \/ waiting > 0 \/ \E s \in DrawersOf(d) : recon[s].status \in {"NONE", "FLAGGED"}
(* Sessions, tickets and drops block whatever their date.                  *)
HardBlockers(d) ==
  \/ \E x \in Seats : seat[x].status = "OPEN"
  \/ \E x \in Seats : seat[x].status # "NONE" /\ seat[x].ticket = "OPEN"
  \/ waiting > 0
  \/ \E s \in DrawersOf(d) : recon[s].status \in {"NONE", "FLAGGED"}
  \/ Undropped(d) > 0

(* create: one close for a date, whichever the request names, ready when   *)
(* nothing blocks it.                                                      *)
Prepared(d) == IF HardBlockers(d) THEN "DRAFT" ELSE "READY_FOR_REVIEW"
CreateLoad(h, d) ==
  /\ close[d] = NoClose
  /\ Enters(h, [pc |-> "creating", day |-> d, status |-> Prepared(d), sales |-> CashSales(d)])
(* refresh keeps an approval.                                              *)
RefreshLoad(h, d) ==
  /\ close[d].status \in {"DRAFT", "READY_FOR_REVIEW", "APPROVED"}
  /\ Enters(h, [pc |-> "refreshing", day |-> d, sales |-> CashSales(d),
                status |-> IF close[d].status = "APPROVED" THEN "APPROVED" ELSE Prepared(d)])
StoreCommit(h) ==
  /\ In(h, "creating") \/ In(h, "refreshing")
  /\ LET q == handler[h] IN
       close' = IF q.pc = "creating" /\ close[q.day] # NoClose THEN close   \* unique by date
                ELSE [close EXCEPT ![q.day] = [status |-> q.status, sales |-> q.sales, on |-> @.on]]
  /\ Ends(h) /\ UNCHANGED <<till, waiting, floor>>

ApproveLoad(h, d) ==
  /\ close[d].status \in {"DRAFT", "READY_FOR_REVIEW", "APPROVED"}
  /\ Enters(h, [pc |-> "approving", day |-> d])
ApproveCommit(h) ==
  /\ In(h, "approving")
  /\ close' = [close EXCEPT ![handler[h].day].status = "APPROVED"]
  /\ Ends(h) /\ UNCHANGED <<till, waiting, floor>>

(* lock: abandonOpenKitchenTickets first, in a transaction of its own and  *)
(* whatever the date of the tickets; then the snapshot; then the lock.     *)
LockLoad(h, d) ==
  /\ close[d].status \in {"DRAFT", "READY_FOR_REVIEW", "APPROVED"}
  /\ Enters(h, [pc |-> "abandoning", day |-> d])
Abandoned(d) ==
  [x \in Seats |->
     IF seat[x] # NoSeat /\ seat[x].ticket = "OPEN"
     THEN [seat[x] EXCEPT !.ticket = "CANCELLED", !.lock = d] ELSE seat[x]]
AbandonCommit(h) ==
  /\ In(h, "abandoning") /\ seat' = Abandoned(handler[h].day)
  /\ Becomes(h, [handler[h] EXCEPT !.pc = "reading"])
  /\ UNCHANGED <<till, waiting, close, paid, declared>>
LockSnapshot(h) ==
  /\ In(h, "reading")
  /\ LET d == handler[h].day IN
       Becomes(h, IF HardBlockers(d) THEN Idle
                  ELSE [pc |-> "locking", day |-> d, sales |-> CashSales(d)])
  /\ UNCHANGED <<till, waiting, close, floor>>
LockCommit(h) ==
  /\ In(h, "locking")
  /\ LET q == handler[h] IN
       close' = [close EXCEPT ![q.day] = [status |-> "LOCKED", sales |-> q.sales, on |-> today]]
  /\ Ends(h) /\ UNCHANGED <<till, waiting, floor>>
-----------------------------------------------------------------------------
(* assertBusinessDayNotLocked.                                             *)
NotLocked(d) == close[d].status # "LOCKED"

(* startSession does not ask, orders, payments and drops do.               *)
StartSession(x) ==
  /\ Quiet /\ seat[x] = NoSeat
  /\ seat' = [seat EXCEPT ![x] = [status |-> "OPEN", day |-> today, ticket |-> "NONE", lock |-> NULL]]
  /\ UNCHANGED <<till, waiting, handler, today, crashes, close, paid, declared>>
CloseSession(x) ==
  /\ Quiet /\ seat[x].status = "OPEN" /\ seat[x].ticket # "OPEN"
  /\ seat' = [seat EXCEPT ![x].status = "CLOSED"]
  /\ UNCHANGED <<till, waiting, handler, today, crashes, close, paid, declared>>
Serve(x) ==
  /\ Quiet /\ seat[x] # NoSeat /\ seat[x].ticket = "OPEN"
  /\ seat' = [seat EXCEPT ![x].ticket = "SERVED"]
  /\ UNCHANGED <<till, waiting, handler, today, crashes, close, paid, declared>>

OrderLoad(h, x) ==
  /\ seat[x].status = "OPEN" /\ NotLocked(seat[x].day)
  /\ Enters(h, [pc |-> "ordering", seat |-> x])
OrderCommit(h) ==
  /\ In(h, "ordering") /\ seat' = [seat EXCEPT ![handler[h].seat].ticket = "OPEN"]
  /\ Ends(h) /\ UNCHANGED <<till, waiting, close, paid, declared>>

(* payCash asks for the day of the bill, which is that of the session; the *)
(* collector is on shift w.                                                *)
PayLoad(h, x, w) ==
  /\ seat[x].status = "OPEN" /\ NotLocked(seat[x].day) /\ w <= today
  /\ Sum(LAMBDA p : paid[p], Payments) < MaxPaid
  /\ Enters(h, [pc |-> "paying", seat |-> x, shift |-> w])
PayCommit(h) ==
  /\ In(h, "paying")
  /\ LET q == handler[h] IN paid' = [paid EXCEPT ![<<seat[q.seat].day, today, q.shift>>] = @ + 1]
  /\ Ends(h) /\ UNCHANGED <<till, waiting, close, seat, declared>>

(* CashCustodyService.initiate asks for the day of the shift.              *)
DeclareLoad(h, w) ==
  /\ OnHand(w) > 0 /\ NotLocked(w) /\ waiting < MaxCash
  /\ Enters(h, [pc |-> "declaring", day |-> w])
DeclareCommit(h) ==
  /\ In(h, "declaring")
  /\ declared' = [declared EXCEPT ![handler[h].day] = @ + 1] /\ waiting' = waiting + 1
  /\ Ends(h) /\ UNCHANGED <<till, close, seat, paid>>

Midnight ==
  /\ Quiet /\ today < Days /\ today' = today + 1
  /\ UNCHANGED <<till, waiting, handler, crashes, close, floor>>
-----------------------------------------------------------------------------
Closing(h) ==
  \/ \E d \in Dates : CreateLoad(h, d) \/ RefreshLoad(h, d) \/ ApproveLoad(h, d) \/ LockLoad(h, d)
  \/ StoreCommit(h) \/ ApproveCommit(h) \/ AbandonCommit(h) \/ LockSnapshot(h) \/ LockCommit(h)
Serving(h) ==
  \/ \E x \in Seats :
       \/ StartSession(x) \/ CloseSession(x) \/ Serve(x) \/ OrderLoad(h, x)
       \/ \E w \in Dates : PayLoad(h, x, w)
  \/ OrderCommit(h) \/ PayCommit(h) \/ DeclareCommit(h) \/ \E d \in Dates : DeclareLoad(h, d)
DayStep(h) == Closing(h) \/ Serving(h) \/ Midnight

(* The drawers go on meanwhile.  Drops come from DeclareCommit.            *)
CloseNext == \E h \in Handlers : DayStep(h) \/ (TillStep(h) /\ UNCHANGED <<close, floor>>)
CloseSpec == CloseInit /\ [][CloseNext]_closeVars
-----------------------------------------------------------------------------
(* A day that had begun when it was locked stays as its report says: the   *)
(* cash it reports is the cash that was paid, its waiter has dropped all   *)
(* he took for it, nothing of it is being cooked, and none of its seatings *)
(* is open unless it began after the lock (buildSnapshot, lock,            *)
(* assertBusinessDayNotLocked).  For one request at a time: see the README *)
(* for two, and for days that are locked ahead.                            *)
LockedInTime(d) == close[d].status = "LOCKED" /\ close[d].on >= d
LockHolds ==
  \A d \in Dates : LockedInTime(d) =>
    /\ close[d].sales = CashSales(d) /\ Undropped(d) = 0
    /\ \A x \in Seats : (seat[x].status = "OPEN" /\ seat[x].day <= d) =>
         seat[x].day = d /\ seat[x].ticket = "NONE"

(* Only leftover tickets are cancelled with a day, none of a later day     *)
(* that is being cooked (the comment on abandonOpenKitchenTickets).        *)
LeftoversOnly ==
  \A x \in Seats : seat[x] # NoSeat /\ seat[x].lock # NULL => seat[x].day <= seat[x].lock
=============================================================================
