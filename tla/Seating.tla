------------------------------ MODULE Seating ------------------------------
(***************************************************************************)
(* A seating from the first guest to the closed bill: table sessions       *)
(* (src/floor/floor.service.ts), orders by waiters and by guests           *)
(* (src/orders/orders.service.ts, src/qr-menu/qr-menu.service.ts), bill    *)
(* requests, bills and payments (src/billing/billing.service.ts), counter  *)
(* sales, and the room sessions that share most of this code               *)
(* (src/rooms/rooms.service.ts).                                           *)
(*                                                                         *)
(* A handler reads, checks, and then writes by id in one transaction; what *)
(* it read is in handler[h].  Only the bill is updated under the version   *)
(* that was read.  The tickets of an item are module Tickets'; here an     *)
(* item is confirmed, with the kitchen, served or cancelled.               *)
(***************************************************************************)
EXTENDS Naturals, FiniteSets

CONSTANTS Sessions,   \* ids of table_sessions and room_sessions
          Tables,     \* dining tables
          Rooms,      \* room stays
          Items,      \* ids of order_items, each at the price of 1
          BillAsks,   \* ids of bill_requests
          Collectors, \* users who take payments
          Refs,       \* reference numbers of bank transfers
          Handlers,   \* HTTP requests being handled at the same time
          Bakery,     \* the branch's serviceMode is BAKERY
          VerifyEt,   \* transfers are verified by Verify.ET
          Migrated,   \* the database has the partial unique indexes
          NULL        \* the SQL null

ASSUME SeatingAssumption ==
  /\ Tables \cap Rooms = {} /\ IsFiniteSet(Items)
  /\ Bakery \in BOOLEAN /\ VerifyEt \in BOOLEAN /\ Migrated \in BOOLEAN
  /\ NULL \notin Sessions

VARIABLES
  session,   \* tables table_sessions and room_sessions
  table,     \* dining_tables.status
  item,      \* table order_items
  ask,       \* table bill_requests
  bill,      \* table bills with its bill_lines, by session
  settled,   \* sum of the payments of each bill
  refRow,    \* idempotency_commands of type bank_transfer_reference, by actor
  transfers, \* audit_events TRANSFER_PAYMENT_VERIFIED
  confirmed, \* the transfers Verify.ET has confirmed once
  handler    \* the requests in flight, with what each has read

tables == <<session, table, item, ask, bill, settled>>
banking == <<refRow, transfers, confirmed>>
vars == <<tables, banking, handler>>
-----------------------------------------------------------------------------
Status == {"OPEN", "ACTIVE_ORDER", "BILL_REQUESTED", "BILL_READY", "PAID", "CLOSED"}

Orderable == {"OPEN", "ACTIVE_ORDER"}

(* Mutant: guests may order when the bill is there.                        *)
GuestOrderableBillReady == {"OPEN", "ACTIVE_ORDER", "BILL_REQUESTED", "BILL_READY"}
GuestOrderable == {"OPEN", "ACTIVE_ORDER", "BILL_REQUESTED"}

Payable == {"GENERATED", "PAYMENT_PENDING"}

(* Three fields are history: the session was closed by a forced clock-out, *)
(* its table was marked OCCUPIED for it, and sendToKitchen has made it     *)
(* ACTIVE_ORDER again when its bill was there.                             *)
NoSession == [status |-> "NONE"]
Session == {NoSession} \cup
  [seat : Tables \cup Rooms, kind : {"DINE_IN", "COUNTER"}, status : Status, closed : BOOLEAN,
   forced : BOOLEAN, marked : BOOLEAN, reopened : BOOLEAN]
Opened(t, kind, status, marked) ==
  [seat |-> t, kind |-> kind, status |-> status, closed |-> FALSE, forced |-> FALSE,
   marked |-> marked, reopened |-> FALSE]

NoItem == [state |-> "NONE"]
Item == {NoItem} \cup
  [session : Sessions, state : {"CONFIRMED", "KITCHEN", "SERVED", "CANCELLED"}]

NoAsk == [status |-> "NONE"]
Ask == {NoAsk} \cup [session : Sessions, status : {"PENDING", "CANCELLED", "FULFILLED"}]

NoBill == [status |-> "NONE"]
Bill == {NoBill} \cup
  [status : Payable \cup {"PAID", "CLOSED"}, lines : SUBSET Items, paid : Nat, version : Nat]

InRoom(s) == session[s].seat \in Rooms
Exists(s) == session[s] # NoSession
Active(s) == Exists(s) /\ ~session[s].closed /\ session[s].status # "CLOSED"
ActiveAt(t) == {s \in Sessions : Active(s) /\ session[s].seat = t}

Chargeable(s) ==
  {i \in Items : item[i] # NoItem /\ item[i].session = s /\ item[i].state # "CANCELLED"}
Total(b) == Cardinality(b.lines)
Pending(a) == ask[a].status = "PENDING"

(* What a handler has read, by the method it is in.                        *)
Idle == [pc |-> "idle"]
Handler ==
  {Idle} \cup
  [pc : {"seating"}, seat : Tables \cup Rooms] \cup
  [pc : {"opening"}, seat : Tables, state : {"CONFIRMED", "KITCHEN"}] \cup
  [pc : {"marking", "ordering"}, session : Sessions, state : {"CONFIRMED", "KITCHEN"}] \cup
  [pc : {"sending", "asking"}, session : Sessions] \cup
  [pc : {"cancelling"}, item : Items] \cup
  [pc : {"withdrawing"}, ask : BillAsks] \cup
  [pc : {"billing"}, ask : BillAsks, lines : SUBSET Items] \cup
  [pc : {"verifying", "settling"}, session : Sessions, amount : Nat, paid : Nat, version : Nat,
   by : Collectors, ref : Refs \cup {NULL}] \cup
  [pc : {"closing"}, session : Sessions, paid : BOOLEAN] \cup
  [pc : {"clockingOut"}, sessions : SUBSET Sessions]

(* The tables hold rows of their types, and handlers what they have read.  *)
TypeOK ==
  /\ session \in [Sessions -> Session]
  /\ table \in [Tables -> {"AVAILABLE", "OCCUPIED"}]
  /\ item \in [Items -> Item]
  /\ ask \in [BillAsks -> Ask]
  /\ bill \in [Sessions -> Bill]
  /\ settled \in [Sessions -> Nat]
  /\ refRow \in [Collectors \X Refs -> Sessions \cup {NULL}]
  /\ transfers \subseteq [ref : Refs, bill : Sessions]
  /\ confirmed \subseteq Refs
  /\ handler \in [Handlers -> Handler]

Init ==
  /\ session = [s \in Sessions |-> NoSession]
  /\ table = [t \in Tables |-> "AVAILABLE"]
  /\ item = [i \in Items |-> NoItem]
  /\ ask = [a \in BillAsks |-> NoAsk]
  /\ bill = [s \in Sessions |-> NoBill]
  /\ settled = [s \in Sessions |-> 0]
  /\ refRow = [x \in Collectors \X Refs |-> NULL]
  /\ transfers = {} /\ confirmed = {}
  /\ handler = [h \in Handlers |-> Idle]

Loads(h, q) ==
  /\ handler[h] = Idle
  /\ handler' = [handler EXCEPT ![h] = q]
  /\ UNCHANGED <<tables, banking>>
Ends(h) == handler' = [handler EXCEPT ![h] = Idle]
In(h, pc) == handler[h].pc = pc

SetStatus(s, status) == session' = [session EXCEPT ![s].status = status]
-----------------------------------------------------------------------------
(* startSession, and openSession of a room.                                *)
StartLoad(h, t) ==
  /\ ActiveAt(t) = {} /\ (t \in Tables => table[t] # "OCCUPIED")
  /\ Loads(h, [pc |-> "seating", seat |-> t])

(* uq_table_sessions__one_active_per_table.                                *)
MayInsert(s, t) ==
  /\ session[s] = NoSession
  /\ (Migrated /\ t \in Tables) => ActiveAt(t) = {}

StartCommit(h, s) ==
  LET t == handler[h].seat IN
  /\ In(h, "seating") /\ MayInsert(s, t)
  /\ session' = [session EXCEPT ![s] = Opened(t, "DINE_IN", "OPEN", TRUE)]
  /\ table' = IF t \in Tables THEN [table EXCEPT ![t] = "OCCUPIED"] ELSE table
  /\ Ends(h)
  /\ UNCHANGED <<item, ask, bill, settled, banking>>

(* confirmOrder by the waiter.                                             *)
OrderLoad(h, s) ==
  /\ Active(s) /\ session[s].status \in Orderable
  /\ Loads(h, [pc |-> "ordering", session |-> s, state |-> "KITCHEN"])

(* submitGuestOrder: a QR code finds the session that may be ordered on .. *)
(* Whether the kitchen gets the order at once (autoSendToKitchen) is a     *)
(* setting of the branch, read with each order.                            *)
GuestLoad(h, t, state) ==
  LET found == {s \in ActiveAt(t) : session[s].status \in GuestOrderable} IN
  /\ \/ \E s \in found : Loads(h, [pc |-> "ordering", session |-> s, state |-> state])
     \/ found = {} /\ Loads(h, [pc |-> "opening", seat |-> t, state |-> state])

(* .. or creates one, and only then marks the table: two writes, the       *)
(* second of which is lost when the process stops.                         *)
GuestOpens(h, s) ==
  LET q == handler[h] IN
  /\ In(h, "opening") /\ MayInsert(s, q.seat)
  /\ session' = [session EXCEPT ![s] = Opened(q.seat, "DINE_IN", "ACTIVE_ORDER", FALSE)]
  /\ handler' = [handler EXCEPT ![h] = [pc |-> "marking", session |-> s, state |-> q.state]]
  /\ UNCHANGED <<table, item, ask, bill, settled, banking>>

GuestMarks(h) ==
  LET s == handler[h].session IN
  /\ In(h, "marking")
  /\ session' = [session EXCEPT ![s].marked = TRUE]
  /\ table' = [table EXCEPT ![session[s].seat] = "OCCUPIED"]
  /\ handler' = [handler EXCEPT ![h].pc = "ordering"]
  /\ UNCHANGED <<item, ask, bill, settled, banking>>

(* Either order ends in a transaction that makes the session ACTIVE_ORDER, *)
(* whatever it has become.                                                 *)
OrderCommit(h, new) ==
  LET q == handler[h] IN
  /\ In(h, "ordering")
  /\ new # {} /\ \A i \in new : item[i] = NoItem
  /\ item' = [i \in Items |-> IF i \in new THEN [session |-> q.session, state |-> q.state]
                                           ELSE item[i]]
  /\ SetStatus(q.session, "ACTIVE_ORDER")
  /\ Ends(h)
  /\ UNCHANGED <<table, ask, bill, settled, banking>>

Unsent(s) == {i \in Chargeable(s) : item[i].state = "CONFIRMED"}

(* sendToKitchen: any session that is not closed, its bill requested,      *)
(* there or paid, is ACTIVE_ORDER again.                                   *)
Reopened(x, b) == [x EXCEPT !.status = "ACTIVE_ORDER", !.reopened = @ \/ b # NoBill]

SendLoad(h, s) ==
  /\ Active(s) /\ ~InRoom(s) /\ Unsent(s) # {}
  /\ Loads(h, [pc |-> "sending", session |-> s])

SendCommit(h) ==
  LET s == handler[h].session IN
  /\ In(h, "sending")
  /\ item' = [i \in Items |-> IF i \in Unsent(s) THEN [item[i] EXCEPT !.state = "KITCHEN"]
                                                 ELSE item[i]]
  /\ session' = [session EXCEPT ![s] = Reopened(@, bill[s])]
  /\ Ends(h)
  /\ UNCHANGED <<table, ask, bill, settled, banking>>

(* The station and the waiter serve a ticket: see Tickets.                 *)
Serve(i) ==
  /\ item[i].state = "KITCHEN"
  /\ item' = [item EXCEPT ![i].state = "SERVED"]
  /\ UNCHANGED <<session, table, ask, bill, settled, banking, handler>>

CancelLoad(h, i) ==
  /\ item[i].state \in {"CONFIRMED", "KITCHEN"}
  /\ Loads(h, [pc |-> "cancelling", item |-> i])

(* applyCancel: the last ticket of a table clears ACTIVE_ORDER.            *)
CancelCommit(h) ==
  LET i == handler[h].item
      s == item[i].session
      cleared == ~InRoom(s) /\ Chargeable(s) \ {i} = {} /\ session[s].status = "ACTIVE_ORDER"
  IN
  /\ In(h, "cancelling")
  /\ item' = [item EXCEPT ![i].state = "CANCELLED"]
  /\ session' = IF cleared THEN [session EXCEPT ![s].status = "OPEN"] ELSE session
  /\ Ends(h)
  /\ UNCHANGED <<table, ask, bill, settled, banking>>
-----------------------------------------------------------------------------
(* requestBill and requestBillForRoom.                                     *)
AskLoad(h, s) ==
  /\ Exists(s) /\ session[s].status \in Orderable
  /\ bill[s] = NoBill /\ Chargeable(s) # {}
  /\ \A a \in BillAsks : Pending(a) => ask[a].session # s
  /\ Loads(h, [pc |-> "asking", session |-> s])

(* uq_bill_requests__one_pending, on table_session_id only.                *)
AskCommit(h, a) ==
  LET s == handler[h].session IN
  /\ In(h, "asking") /\ ask[a] = NoAsk
  /\ (Migrated /\ ~InRoom(s)) => \A b \in BillAsks : Pending(b) => ask[b].session # s
  /\ ask' = [ask EXCEPT ![a] = [session |-> s, status |-> "PENDING"]]
  /\ SetStatus(s, "BILL_REQUESTED")
  /\ Ends(h)
  /\ UNCHANGED <<table, item, bill, settled, banking>>

(* cancelBillRequest.                                                      *)
WithdrawLoad(h, a) == Pending(a) /\ Loads(h, [pc |-> "withdrawing", ask |-> a])

(* Orders are counted, not tickets, and the session is not looked at.      *)
WithdrawCommit(h) ==
  LET a == handler[h].ask
      s == ask[a].session
      hasOrders == \E i \in Items : item[i] # NoItem /\ item[i].session = s
  IN
  /\ In(h, "withdrawing")
  /\ ask' = [ask EXCEPT ![a].status = "CANCELLED"]
  /\ SetStatus(s, IF hasOrders THEN "ACTIVE_ORDER" ELSE "OPEN")
  /\ Ends(h)
  /\ UNCHANGED <<table, item, bill, settled, banking>>

(* generateBill: the lines are what was chargeable when they were read.    *)
BillLoad(h, a) ==
  LET s == ask[a].session IN
  /\ Pending(a) /\ bill[s] = NoBill /\ Chargeable(s) # {}
  /\ Loads(h, [pc |-> "billing", ask |-> a, lines |-> Chargeable(s)])

(* Mutant: the request is not fulfilled.                                   *)
BillCommitKeepsRequest(h) ==
  LET q == handler[h]
      s == ask[q.ask].session
  IN
  /\ In(h, "billing")
  /\ bill[s] = NoBill
  /\ bill' = [bill EXCEPT ![s] =
       [status |-> "GENERATED", lines |-> q.lines, paid |-> 0, version |-> 1]]
  /\ SetStatus(s, "BILL_READY")
  /\ Ends(h)
  /\ UNCHANGED <<table, item, ask, settled, banking>>

BillCommit(h) ==
  LET q == handler[h]
      s == ask[q.ask].session
  IN
  /\ In(h, "billing")
  /\ bill[s] = NoBill
  /\ bill' = [bill EXCEPT ![s] =
       [status |-> "GENERATED", lines |-> q.lines, paid |-> 0, version |-> 1]]
  /\ ask' = [ask EXCEPT ![q.ask].status = "FULFILLED"]
  /\ SetStatus(s, "BILL_READY")
  /\ Ends(h)
  /\ UNCHANGED <<table, item, settled, banking>>
-----------------------------------------------------------------------------
(* loadPayableBill, with the amount the collector asks to settle.          *)
PayableLoad(h, pc, s, amount, by, ref) ==
  /\ bill[s].status \in Payable
  /\ amount \in 1..(Total(bill[s]) - bill[s].paid)
  /\ Loads(h, [pc |-> pc, session |-> s, amount |-> amount, paid |-> bill[s].paid,
               version |-> bill[s].version, by |-> by, ref |-> ref])

CashLoad(h, s, amount, by) == PayableLoad(h, "settling", s, amount, by, NULL)
TransferLoad(h, s, amount, by, ref) == PayableLoad(h, "verifying", s, amount, by, ref)

(* Mutant: the confirmation history is not looked at.                      *)
TransferVerifiedAgain(h) ==
  LET q == handler[h] IN
  /\ In(h, "verifying")
  /\ \A c \in Collectors : refRow[<<c, q.ref>>] \in {NULL, q.session}
  /\ handler' = [handler EXCEPT ![h].pc = "settling"]
  /\ UNCHANGED <<tables, banking>>

(* Verify.ET confirms a transfer once; then the reference is looked up.    *)
TransferVerified(h) ==
  LET q == handler[h] IN
  /\ In(h, "verifying")
  /\ VerifyEt => q.ref \notin confirmed
  /\ \A c \in Collectors : refRow[<<c, q.ref>>] \in {NULL, q.session}
  /\ confirmed' = IF VerifyEt THEN confirmed \cup {q.ref} ELSE confirmed
  /\ handler' = [handler EXCEPT ![h].pc = "settling"]
  /\ UNCHANGED <<tables, refRow, transfers>>

(* applyPartialBillPayment: the bill as it was read, plus the amount, and  *)
(* only if its version is still the one that was read.                     *)
Applied(q) ==
  LET b == bill[q.session]
      full == q.paid + q.amount >= Total(b)
  IN [b EXCEPT !.status = IF full THEN "PAID" ELSE "PAYMENT_PENDING",
               !.paid = IF full THEN Total(b) ELSE q.paid + q.amount,
               !.version = @ + 1]

(* Mutant: the UPDATE does not compare the version.                        *)
UnchangedIfPayable(q) == bill[q.session].status \in Payable
Unchanged(q) == bill[q.session].version = q.version /\ bill[q.session].status \in Payable

(* Mutant: a part payment settles the session.                             *)
SettledAtOnce(q) == [session EXCEPT ![q.session].status = "PAID"]
(* Mutant: only counter sessions are updated.                              *)
SettledBillOnly(q) ==
  IF q.paid + q.amount >= Total(bill[q.session]) /\ session[q.session].kind = "COUNTER"
  THEN [session EXCEPT ![q.session].status = "CLOSED", ![q.session].closed = TRUE] ELSE session
(* Mutant: a part payment gives the session the status of the bill.        *)
SettledInPart(q) ==
  [session EXCEPT ![q.session].status =
     IF q.paid + q.amount < Total(bill[q.session]) THEN "PAYMENT_PENDING" ELSE "PAID"]

(* markSeatingPaid; a counter sale closes when it is paid in cash.         *)
Settled(q) ==
  IF q.paid + q.amount < Total(bill[q.session]) THEN session
  ELSE IF q.ref = NULL /\ session[q.session].kind = "COUNTER"
       THEN [session EXCEPT ![q.session].status = "CLOSED", ![q.session].closed = TRUE]
       ELSE [session EXCEPT ![q.session].status = "PAID"]

PayCommit(h) ==
  LET q == handler[h] IN
  /\ In(h, "settling")
  /\ Unchanged(q)
  /\ bill' = [bill EXCEPT ![q.session] = Applied(q)]
  /\ settled' = [settled EXCEPT ![q.session] = @ + q.amount]
  /\ session' = Settled(q)
  /\ refRow' = IF q.ref # NULL /\ refRow[<<q.by, q.ref>>] = NULL
               THEN [refRow EXCEPT ![<<q.by, q.ref>>] = q.session] ELSE refRow
  /\ transfers' = IF q.ref = NULL THEN transfers
                  ELSE transfers \cup {[ref |-> q.ref, bill |-> q.session]}
  /\ Ends(h)
  /\ UNCHANGED <<table, item, ask, confirmed>>
-----------------------------------------------------------------------------
(* Mutant: the gate lets a session go when its bill is there.              *)
CloseLoadBilled(h, s) ==
  /\ Active(s) /\ ~InRoom(s)
  /\ Chargeable(s) = {} \/ session[s].status \in {"BILL_READY", "PAID"}
  /\ Loads(h, [pc |-> "closing", session |-> s, paid |-> session[s].status = "PAID"])

(* closeSession of a table by its waiter.                                  *)
CloseLoad(h, s) ==
  /\ Active(s) /\ ~InRoom(s)
  /\ Chargeable(s) = {} \/ session[s].status = "PAID"
  /\ Loads(h, [pc |-> "closing", session |-> s, paid |-> session[s].status = "PAID"])

(* Mutant: the gate of rooms, for tables too.                              *)
ForceClosableLikeRoom(s) ==
  LET status == session[s].status IN
  /\ Active(s)
  /\ status = "PAID" \/ \A i \in Chargeable(s) : item[i].state = "CONFIRMED"
  /\ status \notin {"ACTIVE_ORDER", "BILL_REQUESTED", "BILL_READY"}
(* forceCloseSession of a table, and of a room, by a manager.              *)
ForceClosable(s) ==
  LET status == session[s].status IN
  /\ Active(s)
  /\ status = "PAID" \/ \A i \in Chargeable(s) : item[i].state = "CONFIRMED"
  /\ status \notin {"BILL_REQUESTED", "BILL_READY"}
  /\ status = "ACTIVE_ORDER" => ~InRoom(s) /\ Chargeable(s) = {}

ForceCloseLoad(h, s) ==
  /\ ForceClosable(s)
  /\ Loads(h, [pc |-> "closing", session |-> s,
               paid |-> session[s].status = "PAID" \/ bill[s].status = "PAID"])

ClosedBill(b) ==
  IF b.status = "PAID" THEN [b EXCEPT !.status = "CLOSED", !.version = @ + 1] ELSE b

(* Mutant: the dining table is not updated.                                *)
CloseCommitTableStays(h) ==
  LET q == handler[h] IN
  /\ In(h, "closing")
  /\ session' = [session EXCEPT ![q.session].status = "CLOSED", ![q.session].closed = TRUE]
  /\ bill' = IF q.paid THEN [bill EXCEPT ![q.session] = ClosedBill(@)] ELSE bill
  /\ Ends(h)
  /\ UNCHANGED <<table, item, ask, settled, banking>>

CloseCommit(h) ==
  LET q == handler[h] IN
  /\ In(h, "closing")
  /\ session' = [session EXCEPT ![q.session].status = "CLOSED", ![q.session].closed = TRUE]
  /\ table' = IF InRoom(q.session) THEN table
              ELSE [table EXCEPT ![session[q.session].seat] = "AVAILABLE"]
  /\ bill' = IF q.paid THEN [bill EXCEPT ![q.session] = ClosedBill(@)] ELSE bill
  /\ Ends(h)
  /\ UNCHANGED <<item, ask, settled, banking>>

(* managerForceClockOut with closeOpenTables: whatever is unpaid stays so. *)
ClockOutLoad(h, open) ==
  /\ open # {} /\ \A s \in open : Active(s) /\ ~InRoom(s)
  /\ Loads(h, [pc |-> "clockingOut", sessions |-> open])

ClockOutCommit(h) ==
  LET open == handler[h].sessions IN
  /\ In(h, "clockingOut")
  /\ session' = [s \in Sessions |->
       IF s \in open THEN [session[s] EXCEPT !.status = "CLOSED", !.closed = TRUE, !.forced = TRUE]
                     ELSE session[s]]
  /\ table' = [t \in Tables |->
       IF \E s \in open : session[s].seat = t THEN "AVAILABLE" ELSE table[t]]
  /\ Ends(h)
  /\ UNCHANGED <<item, ask, bill, settled, banking>>

(* createCounterSale: whatever is open at the counter is closed first.     *)
CounterSale(s, t, new) ==
  /\ Bakery
  /\ session[s] = NoSession /\ new # {} /\ \A i \in new : item[i] = NoItem
  /\ session' = [x \in Sessions |->
       IF x = s THEN Opened(t, "COUNTER", "OPEN", FALSE)
       ELSE IF x \in ActiveAt(t) THEN [session[x] EXCEPT !.status = "CLOSED", !.closed = TRUE]
       ELSE session[x]]
  /\ item' = [i \in Items |-> IF i \in new THEN [session |-> s, state |-> "SERVED"] ELSE item[i]]
  /\ bill' = [bill EXCEPT ![s] =
       [status |-> "GENERATED", lines |-> new, paid |-> 0, version |-> 1]]
  /\ UNCHANGED <<table, ask, settled, banking, handler>>
-----------------------------------------------------------------------------
(* The database refuses the transaction, a later check fails, or the       *)
(* process stops: what was committed before remains.                       *)
RolledBack(h) == handler[h] # Idle /\ Ends(h) /\ UNCHANGED <<tables, banking>>

Arrives(h) ==
  \/ \E t \in Tables \cup Rooms : StartLoad(h, t)
  \/ \E t \in Tables, state \in {"CONFIRMED", "KITCHEN"} : GuestLoad(h, t, state)
  \/ \E i \in Items : CancelLoad(h, i)
  \/ \E a \in BillAsks : WithdrawLoad(h, a) \/ BillLoad(h, a)
  \/ \E open \in SUBSET Sessions : ClockOutLoad(h, open)
  \/ \E s \in Sessions :
       \/ OrderLoad(h, s) \/ SendLoad(h, s) \/ AskLoad(h, s)
       \/ CloseLoad(h, s) \/ ForceCloseLoad(h, s)
       \/ \E amount \in 1..Cardinality(Items), by \in Collectors :
            CashLoad(h, s, amount, by) \/ \E ref \in Refs : TransferLoad(h, s, amount, by, ref)

Finishes(h) ==
  \/ \E s \in Sessions : StartCommit(h, s) \/ GuestOpens(h, s)
  \/ \E new \in SUBSET Items : OrderCommit(h, new)
  \/ \E a \in BillAsks : AskCommit(h, a)
  \/ GuestMarks(h) \/ SendCommit(h) \/ CancelCommit(h) \/ WithdrawCommit(h) \/ BillCommit(h)
  \/ TransferVerified(h) \/ PayCommit(h) \/ CloseCommit(h) \/ ClockOutCommit(h)

Next ==
  \/ \E h \in Handlers : Arrives(h) \/ Finishes(h) \/ RolledBack(h)
  \/ \E i \in Items : Serve(i)
  \/ \E s \in Sessions, t \in Tables, new \in SUBSET Items : CounterSale(s, t, new)

Spec == Init /\ [][Next]_vars
-----------------------------------------------------------------------------
(* What has been paid towards a bill is what its payments add up to, never *)
(* more than its total, and the bill is paid exactly when nothing is due:  *)
(* two collectors who read the same bill cannot both settle what was due   *)
(* (applyPartialBillPayment).                                              *)
PaidMatchesPayments ==
  \A s \in Sessions : LET b == bill[s] IN
    IF b = NoBill THEN settled[s] = 0
    ELSE /\ settled[s] = b.paid /\ b.paid <= Total(b)
         /\ b.status = "GENERATED" <=> b.paid = 0
         /\ b.status \in {"PAID", "CLOSED"} <=> b.paid = Total(b)

(* A session is PAID only with a bill that is: a close, an order or a      *)
(* cancellation that read the session earlier cannot make it look paid     *)
(* (markSeatingPaid is in the transaction of the last payment).            *)
PaidSessionHasPaidBill ==
  \A s \in Sessions : session[s].status = "PAID" => bill[s].status \in {"PAID", "CLOSED"}

(* One bank transfer pays one bill: 'This transaction reference was        *)
(* already used for payment on another bill. Duplicate receipts are not    *)
(* permitted.' (payTransfer).                                              *)
TransferOneBill == \A x, y \in transfers : x.ref = y.ref => x.bill = y.bill

(* Once the bill exists everything the guests are served is on it: the     *)
(* only way an order slips in behind the bill is that sendToKitchen has    *)
(* reopened the session (confirmOrder and submitGuestOrder check the       *)
(* status of the session, generateBill reads the orders).                  *)
BillCoversOrder ==
  \A s \in Sessions :
    bill[s] # NoBill /\ ~session[s].reopened => Chargeable(s) \subseteq bill[s].lines

(* Unless a clock-out was forced, a seating in which anything was charged  *)
(* ends with a bill that is paid in full, and with everything on it unless *)
(* sendToKitchen had reopened it (closeSession and forceCloseSession gate  *)
(* on chargeable items and on the status PAID, not on the bill's lines).   *)
ClosedSettled ==
  \A s \in Sessions :
    Exists(s) /\ session[s].closed /\ ~session[s].forced /\ Chargeable(s) # {} =>
      /\ bill[s].status \in {"PAID", "CLOSED"}
      /\ Chargeable(s) \subseteq bill[s].lines \/ session[s].reopened

(* A dining table is OCCUPIED exactly while a session is open that has     *)
(* marked it, through orders, bills, payments and every way of closing: no *)
(* free table is kept from the floor, and a session open at a table that   *)
(* looks free is one a guest's order has opened and did not mark.          *)
SeatedIsOccupied ==
  \A t \in Tables : table[t] = "OCCUPIED" <=> \E s \in ActiveAt(t) : session[s].marked

(* A session whose bill is paid is PAID until it is closed, so that the    *)
(* gate of closeSession and forceCloseSession can let it go; only          *)
(* sendToKitchen can take that from it.                                    *)
PaidSessionCloses ==
  \A s \in Sessions :
    bill[s].status = "PAID" /\ ~session[s].closed =>
      session[s].status = "PAID" \/ session[s].reopened

(* A bill is requested at most once at a time and is not requested again   *)
(* when it exists ('BILL_REQUEST_PENDING', 'BILL_ALREADY_EXISTS').         *)
RequestedOnce ==
  \A a, b \in BillAsks :
    Pending(a) => /\ bill[ask[a].session] = NoBill
                  /\ Pending(b) /\ ask[b].session = ask[a].session => a = b

(* A table with nothing left to charge, no bill and no request for one can *)
(* be closed by a manager: 'clear ACTIVE_ORDER so the table can close.'    *)
(* (applyCancel.)                                                          *)
EmptyTableCloses ==
  \A s \in Sessions :
    Active(s) /\ ~InRoom(s) /\ Chargeable(s) = {} /\ bill[s] = NoBill
      /\ (\A a \in BillAsks : Pending(a) => ask[a].session # s)
      => ForceClosable(s)

(* A session is closed or it is not: the floor goes by closed_at           *)
(* ('alreadyClosed'), the end-of-day by the status ('OPEN_TABLE_SESSION'   *)
(* blocks the day), and the two agree.                                     *)
ClosedIsClosed ==
  \A s \in Sessions : Exists(s) => (session[s].closed <=> session[s].status = "CLOSED")
=============================================================================
