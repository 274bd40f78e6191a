------------------------------ MODULE RoomStays ------------------------------
(***************************************************************************)
(* The hotel rooms of a branch (src/rooms/rooms.service.ts): rooms, the    *)
(* stays of their guests, breakfasts, which waiter serves a floor, and     *)
(* room-service sessions with their way through ordering and billing       *)
(* (src/orders/orders.service.ts, src/billing/billing.service.ts).         *)
(*                                                                         *)
(* Requests come one at a time.  Managers may do everything, so that the   *)
(* switch roomServiceEnabled, which only stops the others, is left out.    *)
(* All rooms are on one floor.                                             *)
(***************************************************************************)
EXTENDS Naturals

CONSTANTS Rooms,     \* ids of hotel_rooms
          Stays,     \* ids of room_stays
          Calls,     \* ids of room_sessions
          Waiters,   \* memberships that serve rooms
          Nights,    \* bound: business dates 1..Nights
          NULL       \* the SQL null

(* What the constants are.                                                 *)
RoomAssumption == Nights \in Nat \ {0} /\ NULL \notin Waiters

VARIABLES
  room,       \* hotel_rooms
  stay,       \* room_stays with their stay_meal_entitlements
  call,       \* room_sessions with their tickets, bill request and bill
  coverage,   \* the waiters in room_floor_coverages
  breakfast,  \* tenant_settings.breakfastEntitlementEnabled
  today       \* the business date

vars == <<room, stay, call, coverage, breakfast, today>>
-----------------------------------------------------------------------------
NoRow == [status |-> "NONE"]
Room == {NoRow} \cup
  [status : {"AVAILABLE", "OCCUPIED", "OOO"}, waiter : Waiters \cup {NULL}, archived : BOOLEAN]
(* used: by night, how many of the breakfasts of the adults are eaten.     *)
Stay == {NoRow} \cup
  [status : {"IN_HOUSE", "CHECKED_OUT"}, room : Rooms, adults : 1..2,
   used : UNION {[S -> 0..2] : S \in SUBSET (1..Nights)}]
Call == {NoRow} \cup
  [status : {"OPEN", "ACTIVE_ORDER", "BILL_REQUESTED", "BILL_READY", "PAID", "CLOSED"},
   stay : Stays, waiter : Waiters, tickets : 0..1, ordered : BOOLEAN, request : BOOLEAN,
   bill : {"NONE", "GENERATED", "PAYMENT_PENDING", "PAID", "CLOSED"}]

(* The tables hold rows of their types.                                    *)
TypeOK ==
  /\ room \in [Rooms -> Room] /\ stay \in [Stays -> Stay] /\ call \in [Calls -> Call]
  /\ coverage \subseteq Waiters /\ breakfast \in BOOLEAN /\ today \in 1..Nights

Init ==
  /\ room = [r \in Rooms |-> NoRow] /\ stay = [y \in Stays |-> NoRow]
  /\ call = [c \in Calls |-> NoRow]
  /\ coverage = {} /\ breakfast = FALSE /\ today = 1

Listed(r) == room[r] # NoRow /\ ~room[r].archived
InHouse(r) == {y \in Stays : stay[y].status = "IN_HOUSE" /\ stay[y].room = r}
(* Room sessions that are not CLOSED.                                      *)
OpenCalls(y) == {c \in Calls : call[c] # NoRow /\ call[c].status # "CLOSED" /\ call[c].stay = y}
-----------------------------------------------------------------------------
UpdateSettings ==
  breakfast' = ~breakfast /\ UNCHANGED <<room, stay, call, coverage, today>>

CreateRoom(r, w) ==
  /\ room[r] = NoRow
  /\ room' = [room EXCEPT ![r] = [status |-> "AVAILABLE", waiter |-> w, archived |-> FALSE]]
  /\ UNCHANGED <<stay, call, coverage, breakfast, today>>

(* updateRoom sets any status, also while a guest is in house.             *)
UpdateRoom(r, status, w) ==
  /\ Listed(r)
  /\ room' = [room EXCEPT ![r].status = status, ![r].waiter = w]
  /\ UNCHANGED <<stay, call, coverage, breakfast, today>>

ArchiveRoom(r) ==
  /\ Listed(r) /\ InHouse(r) = {}
  /\ room' = [room EXCEPT ![r].status = "OOO", ![r].archived = TRUE]
  /\ UNCHANGED <<stay, call, coverage, breakfast, today>>

(* eachBusinessNight: from the day of arrival to the eve of departure.     *)
EachBusinessNight(leaves) == today..(leaves - 1)
CheckIn(y, r, leaves, adults, plan) ==
  /\ stay[y] = NoRow /\ Listed(r) /\ room[r].status # "OOO" /\ InHouse(r) = {}
  /\ stay' = [stay EXCEPT ![y] =
       [status |-> "IN_HOUSE", room |-> r, adults |-> adults,
        used |-> [n \in IF plan /\ breakfast THEN EachBusinessNight(leaves) ELSE {} |-> 0]]]
  /\ room' = [room EXCEPT ![r].status = "OCCUPIED"]
  /\ UNCHANGED <<call, coverage, breakfast, today>>

(* Mutant: only sessions that have ordered keep a guest from leaving.      *)
MayLeaveUnordered(y) == \A c \in OpenCalls(y) : call[c].status = "OPEN"
MayLeave(y) == OpenCalls(y) = {}
CheckOut(y) ==
  /\ stay[y].status = "IN_HOUSE" /\ MayLeave(y)
  /\ stay' = [stay EXCEPT ![y].status = "CHECKED_OUT"]
  /\ room' = [room EXCEPT ![stay[y].room].status = "AVAILABLE"]
  /\ UNCHANGED <<call, coverage, breakfast, today>>

UpsertCoverage(w) ==
  coverage' = coverage \cup {w} /\ UNCHANGED <<room, stay, call, breakfast, today>>
DeleteCoverage(w) ==
  /\ w \in coverage /\ coverage' = coverage \ {w}
  /\ UNCHANGED <<room, stay, call, breakfast, today>>

(* Mutant: breakfasts already eaten are not looked at.                     *)
RedeemAnyway(y, qty) ==
  /\ breakfast /\ stay[y].status = "IN_HOUSE" /\ today \in DOMAIN stay[y].used
  /\ stay' = [stay EXCEPT ![y].used[today] = @ + qty]
  /\ UNCHANGED <<room, call, coverage, breakfast, today>>
RedeemBreakfast(y, qty) ==
  /\ breakfast /\ stay[y].status = "IN_HOUSE" /\ today \in DOMAIN stay[y].used
  /\ stay[y].used[today] + qty <= stay[y].adults
  /\ stay' = [stay EXCEPT ![y].used[today] = @ + qty]
  /\ UNCHANGED <<room, call, coverage, breakfast, today>>

NextDay == today < Nights /\ today' = today + 1 /\ UNCHANGED <<room, stay, call, coverage, breakfast>>
-----------------------------------------------------------------------------
(* assertWaiterCanServeRoom.                                               *)
CanServe(w, r) == room[r].waiter = w \/ w \in coverage
OpenSession(c, y, w) ==
  /\ call[c] = NoRow /\ stay[y].status = "IN_HOUSE" /\ CanServe(w, stay[y].room)
  /\ OpenCalls(y) = {}
  /\ call' = [call EXCEPT ![c] =
       [status |-> "OPEN", stay |-> y, waiter |-> w, tickets |-> 0, ordered |-> FALSE,
        request |-> FALSE, bill |-> "NONE"]]
  /\ UNCHANGED <<room, stay, coverage, breakfast, today>>

Progress(c, row) == call' = [call EXCEPT ![c] = row] /\ UNCHANGED <<room, stay, coverage, breakfast, today>>

(* OrdersService.confirmOrder of a room.  Bound: one ticket at a time.     *)
ConfirmOrder(c) ==
  /\ call[c].status \in {"OPEN", "ACTIVE_ORDER"} /\ stay[call[c].stay].status = "IN_HOUSE"
  /\ call[c].tickets = 0
  /\ Progress(c, [call[c] EXCEPT !.status = "ACTIVE_ORDER", !.tickets = 1, !.ordered = TRUE])
(* OrderItemMutationsService: a ticket that is not served is cancelled.    *)
(* That clears the ACTIVE_ORDER of a table, never that of a room.          *)
CancelTicket(c) ==
  /\ call[c] # NoRow /\ call[c].status # "CLOSED" /\ call[c].tickets = 1
  /\ Progress(c, [call[c] EXCEPT !.tickets = 0])

RequestBillForRoom(c) ==
  /\ call[c].status \in {"OPEN", "ACTIVE_ORDER"}
  /\ call[c].bill = "NONE" /\ ~call[c].request /\ call[c].tickets > 0
  /\ Progress(c, [call[c] EXCEPT !.status = "BILL_REQUESTED", !.request = TRUE])
CancelBillRequest(c) ==
  /\ call[c] # NoRow /\ call[c].request
  /\ Progress(c, [call[c] EXCEPT !.request = FALSE,
                                 !.status = IF call[c].ordered THEN "ACTIVE_ORDER" ELSE "OPEN"])
GenerateBill(c) ==
  /\ call[c] # NoRow /\ call[c].request /\ call[c].bill = "NONE" /\ call[c].tickets > 0
  /\ Progress(c, [call[c] EXCEPT !.request = FALSE, !.bill = "GENERATED", !.status = "BILL_READY"])
(* payCash and payTransfer: a part of the bill, or all of it.              *)
PayPart(c) ==
  /\ call[c] # NoRow /\ call[c].bill = "GENERATED"
  /\ Progress(c, [call[c] EXCEPT !.bill = "PAYMENT_PENDING"])
MarkSeatingPaid(c) ==
  /\ call[c] # NoRow /\ call[c].bill \in {"GENERATED", "PAYMENT_PENDING"}
  /\ Progress(c, [call[c] EXCEPT !.bill = "PAID", !.status = "PAID"])

(* forceCloseSession: there is no other way to close a room's session.     *)
ForceClosable(c) ==
  /\ call[c].tickets > 0 => call[c].status = "PAID"
  /\ call[c].status \notin {"ACTIVE_ORDER", "BILL_REQUESTED", "BILL_READY"}
ForceCloseSession(c) ==
  /\ call[c] # NoRow /\ call[c].status # "CLOSED" /\ ForceClosable(c)
  /\ Progress(c, [call[c] EXCEPT !.status = "CLOSED",
                                 !.bill = IF @ = "PAID" THEN "CLOSED" ELSE @])
-----------------------------------------------------------------------------
Housekeeping ==
  \/ UpdateSettings \/ NextDay
  \/ \E r \in Rooms : ArchiveRoom(r) \/ \E w \in Waiters \cup {NULL} :
       CreateRoom(r, w) \/ \E status \in {"AVAILABLE", "OCCUPIED", "OOO"} : UpdateRoom(r, status, w)
  \/ \E w \in Waiters : UpsertCoverage(w) \/ DeleteCoverage(w)
FrontDesk ==
  \E y \in Stays :
    \/ CheckOut(y)
    \/ \E r \in Rooms, leaves \in today..Nights + 1, adults \in 1..2, plan \in BOOLEAN :
         CheckIn(y, r, leaves, adults, plan)
    \/ \E qty \in 1..2 : RedeemBreakfast(y, qty)
RoomService ==
  \E c \in Calls :
    \/ \E y \in Stays, w \in Waiters : OpenSession(c, y, w)
    \/ ConfirmOrder(c) \/ CancelTicket(c) \/ RequestBillForRoom(c) \/ CancelBillRequest(c)
    \/ GenerateBill(c) \/ PayPart(c) \/ MarkSeatingPaid(c) \/ ForceCloseSession(c)
Next == Housekeeping \/ FrontDesk \/ RoomService
Spec == Init /\ [][Next]_vars
-----------------------------------------------------------------------------
(* A room has one party at a time and is not archived under it, nobody     *)
(* leaves while a session of room service is still open, or is served      *)
(* after leaving, and no more breakfasts are eaten than were promised      *)
(* (checkIn, checkOut, archiveRoom, openSession, forceCloseSession,        *)
(* redeemBreakfast).                                                       *)
StayHolds ==
  /\ \A y, z \in Stays :
       stay[y].status = "IN_HOUSE" /\ stay[z].status = "IN_HOUSE" /\ stay[y].room = stay[z].room => y = z
  /\ \A y \in Stays : stay[y].status = "IN_HOUSE" => Listed(stay[y].room)
  /\ \A c, d \in Calls :
       call[c] # NoRow /\ call[c].status # "CLOSED" =>
         /\ stay[call[c].stay].status = "IN_HOUSE"
         /\ d \in OpenCalls(call[c].stay) => d = c
  /\ \A y \in Stays : stay[y] # NoRow => \A n \in DOMAIN stay[y].used : stay[y].used[n] <= stay[y].adults

(* A session whose tickets are all cancelled and which has no bill can be  *)
(* closed by the manager, as the refusal of forceCloseSession asks: "Cancel *)
(* kitchen tickets or settle the bill before force-closing."               *)
CancelledRoomCloses ==
  \A c \in Calls :
    call[c] # NoRow /\ call[c].status # "CLOSED" /\ call[c].bill = "NONE" /\ ~call[c].request
      /\ call[c].tickets = 0 => ForceClosable(c)
=============================================================================
