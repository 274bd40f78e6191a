------------------------------- MODULE Supply -------------------------------
(***************************************************************************)
(* The supply chain between the main warehouse and the branch stores       *)
(* (src/inventory/inventory.service.ts): supply requests, transfers, their *)
(* drivers, push drops, and switching the main warehouse on and off.       *)
(*                                                                         *)
(* The stock is that of one ingredient, in its base unit; the lines of a   *)
(* transfer are independent rows of one transaction.  Every handler reads  *)
(* and checks first and writes by id later; handler[h] is what it has read.*)
(* A dispatch writes three times, each in a transaction of its own.        *)
(***************************************************************************)
EXTENDS Integers, FiniteSets, FiniteSetsExt

CONSTANTS Mains,       \* ids of MAIN_WAREHOUSE locations
          Stores,      \* the BRANCH_STORE of each branch
          Transfers,   \* ids of inventory_transfers
          Requests,    \* ids of inventory_supply_requests
          Drivers,     \* ids of drivers
          Handlers,    \* HTTP requests being handled at the same time
          MaxReceived, \* bound: stock received from vendors
          AutoApprove, \* tenantSettings.autoApproveSupplyRequests
          Unset        \* the SQL null of a request or a driver

(* What the constants are.                                                 *)
ASSUME SupplyAssumption ==
  /\ Mains \cap Stores = {} /\ IsFiniteSet(Mains) /\ IsFiniteSet(Stores)
  /\ IsFiniteSet(Transfers)
  /\ MaxReceived \in Nat /\ AutoApprove \in BOOLEAN
  /\ Unset \notin Requests \cup Drivers

VARIABLES
  place,     \* inventory_locations.status
  onHand,    \* inventory_stock_balances.on_hand_qty
  received,  \* sum of the RECEIVE entries of the ledger
  transfer,  \* table inventory_transfers with its line
  request,   \* table inventory_supply_requests
  driver,    \* drivers.status
  handler,   \* the requests in flight, with what each has read
  crashes    \* whether handlers may die half-way

stock == <<onHand, received>>
rows == <<place, stock, transfer, request, driver>>
supplyVars == <<rows, handler, crashes>>
-----------------------------------------------------------------------------
Depots == Mains \cup Stores
Open == {"SENT", "IN_TRANSIT", "ARRIVED"}

NoTransfer == [status |-> "NONE"]
Transfer == {NoTransfer} \cup
  [status : Open \cup {"RECEIVED", "CANCELLED"}, from : Mains, to : Stores, sent : Nat, got : Nat,
   request : Requests \cup {Unset}, driver : Drivers \cup {Unset}]

NoRequest == [status |-> "NONE"]
Request == {NoRequest} \cup
  [status : {"SUBMITTED", "APPROVED", "REJECTED", "PREPARING", "FULFILLED"}, store : Stores,
   main : Mains, qty : Nat]

(* What a handler has read, by the method it is in.                        *)
Idle == [pc |-> "idle"]
Handler ==
  {Idle} \cup
  [pc : {"sending", "shipping"}, from : Mains, to : Stores, qty : Nat,
   request : Requests \cup {Unset}, rest : SUBSET Stores, driver : Drivers \cup {Unset}] \cup
  [pc : {"linking"}, transfer : Transfers, request : Requests \cup {Unset}, rest : SUBSET Stores,
   from : Mains, qty : Nat, driver : Drivers \cup {Unset}] \cup
  [pc : {"fulfilling"}, request : Requests] \cup
  [pc : {"deciding"}, request : Requests, status : {"APPROVED", "REJECTED", "PREPARING"}] \cup
  [pc : {"accepting", "returning", "assigning", "starting", "arriving"}, transfer : Transfers,
   driver : Drivers \cup {Unset}] \cup
  [pc : {"enabling", "disabling"}, main : Mains]

(* The tables hold rows of their types, and handlers what they have read.  *)
SupplyTypeOK ==
  /\ place \in [Depots -> {"NONE", "ACTIVE", "INACTIVE"}]
  /\ onHand \in [Depots -> Int] /\ received \in 0..MaxReceived
  /\ transfer \in [Transfers -> Transfer]
  /\ request \in [Requests -> Request]
  /\ driver \in [Drivers -> {"NONE", "ACTIVE", "INACTIVE"}]
  /\ handler \in [Handlers -> Handler]
  /\ crashes \in BOOLEAN

SupplyInit ==
  /\ place = [p \in Depots |-> IF p \in Stores THEN "ACTIVE" ELSE "NONE"]
  /\ onHand = [p \in Depots |-> 0] /\ received = 0
  /\ transfer = [t \in Transfers |-> NoTransfer]
  /\ request = [r \in Requests |-> NoRequest]
  /\ driver = [d \in Drivers |-> "NONE"]
  /\ handler = [h \in Handlers |-> Idle]
  /\ crashes \in BOOLEAN

Loads(h, q) ==
  /\ handler[h] = Idle
  /\ handler' = [handler EXCEPT ![h] = q]
  /\ UNCHANGED <<rows, crashes>>
Becomes(h, q) == handler' = [handler EXCEPT ![h] = q] /\ UNCHANGED crashes
Ends(h) == Becomes(h, Idle)
In(h, pc) == handler[h].pc = pc
(* Receiving and the drivers' list: handlers of one write.                 *)
Quiet == \A h \in Handlers : handler[h] = Idle

ActiveMain == {m \in Mains : place[m] = "ACTIVE"}
ApplyDelta(p, n) == onHand' = [onHand EXCEPT ![p] = @ + n]
SetTransfer(t, status) == transfer' = [transfer EXCEPT ![t].status = status]
-----------------------------------------------------------------------------
(* createMainWarehouse: at most one is active, if nobody else is at it.    *)
EnableLoad(h, m) ==
  /\ ActiveMain = {}
  /\ (\E n \in Mains : place[n] = "INACTIVE") => place[m] = "INACTIVE"
  /\ Loads(h, [pc |-> "enabling", main |-> m])
EnableCommit(h) ==
  /\ In(h, "enabling")
  /\ place' = [place EXCEPT ![handler[h].main] = "ACTIVE"]
  /\ Ends(h) /\ UNCHANGED <<stock, transfer, request, driver>>

(* Mutant: the warehouse is switched off with stock on its way.            *)
MayDisableUnsettled(m) == onHand[m] <= 0
(* disableMainWarehouse looks at SENT transfers, stock and SUBMITTED       *)
(* requests, not at transfers on the road or at approved requests.         *)
MayDisable(m) ==
  /\ \A t \in Transfers : transfer[t].status = "SENT" => transfer[t].from # m
  /\ onHand[m] <= 0
  /\ \A r \in Requests : request[r].status = "SUBMITTED" => request[r].main # m
DisableLoad(h, m) ==
  /\ place[m] = "ACTIVE" /\ MayDisable(m)
  /\ Loads(h, [pc |-> "disabling", main |-> m])
DisableCommit(h) ==
  /\ In(h, "disabling")
  /\ place' = [place EXCEPT ![handler[h].main] = "INACTIVE"]
  /\ Ends(h) /\ UNCHANGED <<stock, transfer, request, driver>>

(* receive into the location the caller may write.                         *)
ReceiveAt(p, n) ==
  /\ Quiet /\ place[p] = "ACTIVE" /\ received + n <= MaxReceived
  /\ ApplyDelta(p, n) /\ received' = received + n
  /\ UNCHANGED <<place, transfer, request, driver, handler, crashes>>

CreateDriver(d) ==
  /\ Quiet /\ driver[d] = "NONE" /\ driver' = [driver EXCEPT ![d] = "ACTIVE"]
  /\ UNCHANGED <<place, stock, transfer, request, handler, crashes>>
UpdateDriver(d, status) ==
  /\ Quiet /\ driver[d] # "NONE" /\ driver' = [driver EXCEPT ![d] = status]
  /\ UNCHANGED <<place, stock, transfer, request, handler, crashes>>
DeleteDriver(d) ==
  /\ Quiet /\ driver[d] # "NONE" /\ driver' = [driver EXCEPT ![d] = "NONE"]
  /\ transfer' = [t \in Transfers |->
       IF transfer[t] # NoTransfer /\ transfer[t].driver = d
       THEN [transfer[t] EXCEPT !.driver = Unset] ELSE transfer[t]]
  /\ UNCHANGED <<place, stock, request, handler, crashes>>
-----------------------------------------------------------------------------
(* createSupplyRequest, with the second write that approves it when the    *)
(* owner does not want to be asked.                                        *)
Submit(h, r, s, n) ==
  /\ handler[h] = Idle
  /\ request[r] = NoRequest /\ place[s] = "ACTIVE"
  /\ \E m \in ActiveMain :
       request' = [request EXCEPT ![r] =
         [status |-> "SUBMITTED", store |-> s, main |-> m, qty |-> n]]
  /\ Becomes(h, IF AutoApprove THEN [pc |-> "deciding", request |-> r, status |-> "APPROVED"]
                ELSE Idle)
  /\ UNCHANGED <<place, stock, transfer, driver>>

Decides(h, r, from, status) ==
  /\ request[r].status \in from
  /\ Loads(h, [pc |-> "deciding", request |-> r, status |-> status])
ApproveLoad(h, r) == Decides(h, r, {"SUBMITTED"}, "APPROVED")
(* Mutant: whatever was not rejected yet can be.                           *)
RejectRequestLate(h, r) ==
  Decides(h, r, {"SUBMITTED", "APPROVED", "PREPARING", "FULFILLED"}, "REJECTED")
RejectRequestLoad(h, r) == Decides(h, r, {"SUBMITTED", "APPROVED"}, "REJECTED")
PrepareLoad(h, r) ==
  Decides(h, r, IF AutoApprove THEN {"SUBMITTED", "APPROVED"} ELSE {"APPROVED"}, "PREPARING")
DecideCommit(h) ==
  /\ In(h, "deciding")
  /\ request' = [request EXCEPT ![handler[h].request].status = handler[h].status]
  /\ Ends(h) /\ UNCHANGED <<place, stock, transfer, driver>>
-----------------------------------------------------------------------------
(* createAndSendTransfer, called on its own, for a dispatch, and once for  *)
(* every store of a push drop.  Bound: there are Transfers ids.            *)
Room == \E t \in Transfers : transfer[t] = NoTransfer
Sending(from, to, n, r, rest, d) ==
  [pc |-> "sending", from |-> from, to |-> to, qty |-> n, request |-> r, rest |-> rest, driver |-> d]
SendLoad(h, m, s, n) ==
  /\ m \in ActiveMain /\ place[s] = "ACTIVE" /\ n > 0 /\ Room
  /\ Loads(h, Sending(m, s, n, Unset, {}, Unset))

Dispatchable == {"PREPARING", "APPROVED"}
DispatchLoad(h, r, d) ==
  /\ request[r].status \in Dispatchable
  /\ request[r].main \in ActiveMain /\ Room
  /\ Loads(h, Sending(request[r].main, request[r].store, request[r].qty, r, {}, d))

PushLoad(h, m, dests, n, d) ==
  /\ m \in ActiveMain /\ dests # {} /\ \A s \in dests : place[s] = "ACTIVE"
  /\ d # Unset => driver[d] = "ACTIVE"
  /\ Room /\ \E s \in dests : Loads(h, Sending(m, s, n, Unset, dests \ {s}, d))

Enough(m, n) == onHand[m] >= n

(* The transaction reads the stock, then writes: PostgreSQL's READ         *)
(* COMMITTED lets another one write in between.                            *)
ShipCheck(h) ==
  /\ In(h, "sending")
  /\ IF Enough(handler[h].from, handler[h].qty)
     THEN Becomes(h, [handler[h] EXCEPT !.pc = "shipping"])
     ELSE Ends(h)
  /\ UNCHANGED rows

(* Mutant: the transfer is written and the stock is forgotten.             *)
ShippedForgotten(m, n) == UNCHANGED onHand
Shipped(m, n) == ApplyDelta(m, -n)
ShipCommit(h, t) ==
  /\ In(h, "shipping") /\ transfer[t] = NoTransfer
  /\ LET q == handler[h] IN
       /\ transfer' = [transfer EXCEPT ![t] =
            [status |-> "SENT", from |-> q.from, to |-> q.to, sent |-> q.qty, got |-> 0,
             request |-> Unset, driver |-> Unset]]
       /\ Shipped(q.from, q.qty)
       /\ Becomes(h, IF q.request = Unset /\ q.rest = {} /\ q.driver = Unset THEN Idle ELSE
            [pc |-> "linking", transfer |-> t, request |-> q.request, rest |-> q.rest,
             from |-> q.from, qty |-> q.qty, driver |-> q.driver])
  /\ UNCHANGED <<place, received, request, driver>>

(* The second write of a dispatch links the transfer to its request, under *)
(* a unique constraint, and hands it to the driver if he is active.        *)
Unlinked(r) == \A t \in Transfers : transfer[t] # NoTransfer => transfer[t].request # r
LinkCommit(h, status) ==
  /\ In(h, "linking") /\ handler[h].request # Unset
  /\ LET q == handler[h]
         given == q.driver # Unset /\ driver[q.driver] = "ACTIVE" IN
       IF Unlinked(q.request)
       THEN /\ transfer' = [transfer EXCEPT ![q.transfer].request = q.request,
                 ![q.transfer].driver = IF given THEN q.driver ELSE @,
                 ![q.transfer].status = IF given THEN status ELSE @]
            /\ Becomes(h, [pc |-> "fulfilling", request |-> q.request])
       ELSE Ends(h) /\ UNCHANGED transfer
  /\ UNCHANGED <<place, stock, request, driver>>
FulfilCommit(h) ==
  /\ In(h, "fulfilling")
  /\ request' = [request EXCEPT ![handler[h].request].status = "FULFILLED"]
  /\ Ends(h) /\ UNCHANGED <<place, stock, transfer, driver>>

(* A driver that was deleted meanwhile makes the write fail.               *)
Gone(d) == d # Unset /\ driver[d] = "NONE"
Assigned(t, d) ==
  transfer' = IF d = Unset \/ Gone(d) THEN transfer ELSE [transfer EXCEPT ![t].driver = d]

(* A push drop hands the transfer to its driver and goes on to the next    *)
(* store, which must still be one.                                         *)
PushNext(h) ==
  /\ In(h, "linking") /\ handler[h].request = Unset
  /\ LET q == handler[h]
         stops == q.rest = {} \/ q.from \notin ActiveMain \/ ~Room \/ Gone(q.driver) IN
       /\ Assigned(q.transfer, q.driver)
       /\ \/ stops /\ Ends(h)
          \/ ~stops /\ \E s \in q.rest :
               Becomes(h, Sending(q.from, s, q.qty, Unset, q.rest \ {s}, q.driver))
  /\ UNCHANGED <<place, stock, request, driver>>
-----------------------------------------------------------------------------
(* The moves of a transfer: the status is read first and written by id.    *)
Moves(h, pc, t, from, d) ==
  /\ transfer[t].status \in from
  /\ Loads(h, [pc |-> pc, transfer |-> t, driver |-> d])

AssignLoad(h, t, d) == driver[d] = "ACTIVE" /\ Moves(h, "assigning", t, {"SENT"}, d)
AssignCommit(h) ==
  /\ In(h, "assigning") /\ Assigned(handler[h].transfer, handler[h].driver)
  /\ Ends(h) /\ UNCHANGED <<place, stock, request, driver>>

TripLoad(h, t, d) == Moves(h, "starting", t, {"SENT"}, d)
TripCommit(h) ==
  /\ In(h, "starting")
  /\ LET q == handler[h]
         d == IF transfer[q.transfer].driver = Unset THEN q.driver ELSE transfer[q.transfer].driver IN
       transfer' = IF Gone(d) THEN transfer
                   ELSE [transfer EXCEPT ![q.transfer].status = "IN_TRANSIT", ![q.transfer].driver = d]
  /\ Ends(h) /\ UNCHANGED <<place, stock, request, driver>>

ArriveLoad(h, t) == Moves(h, "arriving", t, {"IN_TRANSIT"}, Unset)
ArriveCommit(h) ==
  /\ In(h, "arriving") /\ SetTransfer(handler[h].transfer, "ARRIVED")
  /\ Ends(h) /\ UNCHANGED <<place, stock, request, driver>>

(* acceptTransfer: the store says how much has come; what is short is      *)
(* written down in the ledger with a difference of zero.                   *)
Acceptable == Open
AcceptLoad(h, t) == Moves(h, "accepting", t, Acceptable, Unset)
AcceptCommit(h, n) ==
  /\ In(h, "accepting")
  /\ LET t == handler[h].transfer IN
       /\ n \in 0..transfer[t].sent
       /\ transfer' = [transfer EXCEPT ![t].status = "RECEIVED", ![t].got = n]
       /\ ApplyDelta(transfer[t].to, n)
  /\ Ends(h) /\ UNCHANGED <<place, received, request, driver>>

Rejectable == {"SENT", "IN_TRANSIT"}
RejectLoad(h, t) == Moves(h, "returning", t, Rejectable, Unset)
RejectCommit(h) ==
  /\ In(h, "returning")
  /\ LET t == handler[h].transfer IN
       SetTransfer(t, "CANCELLED") /\ ApplyDelta(transfer[t].from, transfer[t].sent)
  /\ Ends(h) /\ UNCHANGED <<place, received, request, driver>>

(* The process dies, or a write fails: what is not yet written stays so.   *)
Crash(h) ==
  /\ crashes /\ handler[h] # Idle
  /\ Ends(h) /\ UNCHANGED rows
-----------------------------------------------------------------------------
Warehouse(h) ==
  \/ \E m \in Mains : EnableLoad(h, m) \/ DisableLoad(h, m)
  \/ EnableCommit(h) \/ DisableCommit(h)
Asking(h) ==
  \/ \E r \in Requests :
       \/ \E s \in Stores : Submit(h, r, s, 1)
       \/ ApproveLoad(h, r) \/ RejectRequestLoad(h, r) \/ PrepareLoad(h, r)
       \/ \E d \in Drivers \cup {Unset} : DispatchLoad(h, r, d)
  \/ DecideCommit(h) \/ FulfilCommit(h)
  \/ \E status \in {"SENT", "IN_TRANSIT"} : LinkCommit(h, status)
Shipping(h) ==
  \/ \E m \in Mains : \E s \in Stores : SendLoad(h, m, s, 1)
  \/ \E m \in Mains : \E dests \in SUBSET Stores : \E d \in Drivers \cup {Unset} :
       PushLoad(h, m, dests, 1, d)
  \/ ShipCheck(h) \/ PushNext(h)
  \/ \E t \in Transfers : ShipCommit(h, t)
Moving(h) ==
  \/ \E t \in Transfers :
       \/ \E d \in Drivers : AssignLoad(h, t, d)
       \/ \E d \in Drivers \cup {Unset} : TripLoad(h, t, d)
       \/ ArriveLoad(h, t) \/ AcceptLoad(h, t) \/ RejectLoad(h, t)
  \/ AssignCommit(h) \/ TripCommit(h) \/ ArriveCommit(h) \/ RejectCommit(h)
  \/ \E n \in 0..MaxReceived : AcceptCommit(h, n)

SupplyNext ==
  \/ \E h \in Handlers : Warehouse(h) \/ Asking(h) \/ Shipping(h) \/ Moving(h) \/ Crash(h)
  \/ \E p \in Depots : ReceiveAt(p, 1)
  \/ \E d \in Drivers :
       \/ CreateDriver(d) \/ DeleteDriver(d)
       \/ \E status \in {"ACTIVE", "INACTIVE"} : UpdateDriver(d, status)

SupplySpec == SupplyInit /\ [][SupplyNext]_supplyVars
-----------------------------------------------------------------------------
(* What has left one place and not come to another.                        *)
OnTheRoad(t) == IF transfer[t].status \in Open THEN transfer[t].sent ELSE 0
Short(t) == IF transfer[t].status = "RECEIVED" THEN transfer[t].sent - transfer[t].got ELSE 0
Total(f(_), S) == MapThenSumSet(f, S)

(* Stock is not made and not lost between the warehouse and the stores:    *)
(* what vendors delivered is on a shelf, on the road, or written off as    *)
(* short (acceptTransfer, rejectTransfer), and the warehouse sends nothing *)
(* it has not got (createAndSendTransfer), also when a handler dies.       *)
(* Holds for one handler at a time: see the README for two.                *)
StockConserved ==
  /\ received = Total(LAMBDA p : onHand[p], Depots) + Total(OnTheRoad, Transfers)
                  + Total(Short, Transfers)
  /\ \A m \in Mains : onHand[m] >= 0

(* A fulfilled request has been shipped by exactly one transfer, and a     *)
(* rejected one by none (dispatchSupplyRequest, rejectSupplyRequest), when *)
(* nothing crashes between the three writes.                               *)
ShipmentsOf(r) == {t \in Transfers : transfer[t] # NoTransfer /\ transfer[t].request = r}
ShipsOnce ==
  ~crashes => \A r \in Requests :
    /\ request[r].status = "FULFILLED" => Cardinality(ShipmentsOf(r)) = 1
    /\ request[r].status = "REJECTED" => ShipmentsOf(r) = {}

(* A warehouse that was switched off has no transfer in SENT and no        *)
(* request nobody answered, and what stock it has a store sent back        *)
(* (disableMainWarehouse, rejectTransfer).  A transfer a driver has taken  *)
(* may still be on the road: see the README.  Holds for one handler at a   *)
(* time.                                                                   *)
OffIsSettled ==
  \A m \in Mains : place[m] = "INACTIVE" =>
    /\ \A t \in Transfers : transfer[t].status = "SENT" => transfer[t].from # m
    /\ \A r \in Requests : request[r].status = "SUBMITTED" => request[r].main # m
    /\ onHand[m] > 0 =>
         \E t \in Transfers : transfer[t].status = "CANCELLED" /\ transfer[t].from = m
=============================================================================
