------------------------------ MODULE StoreProofs ------------------------------
(***************************************************************************)
(* What Supply promises when requests come one at a time, with crashes:    *)
(* stock is neither made nor lost between the warehouse and the stores, a  *)
(* fulfilled supply request is shipped by one transfer, and a warehouse    *)
(* that was switched off has nothing in SENT.  What Stockroom promises,    *)
(* for any number of ingredients, sales and movements: the tables keep     *)
(* their types and every balance is the sum of its ledger.  And supply     *)
(* chain and stockroom together, as MCStore has them, do as each of them.  *)
(***************************************************************************)
EXTENDS MCStore, SumTheorems

Serial == \A g, h \in Handlers : g = h

(* The warehouses send nothing they have not got: StockConserved's second  *)
(* half.                                                                   *)
NothingOwed == \A m \in Mains : onHand[m] >= 0

Sent(t) == transfer[t] # NoTransfer
Linked(r) == \E t \in Transfers : Sent(t) /\ transfer[t].request = r
LinkedOnce ==
  \A t, u \in Transfers :
    Sent(t) /\ Sent(u) /\ transfer[t].request = transfer[u].request /\ transfer[t].request # Unset
      => t = u

(* Unless a handler dies, a request is linked to a transfer exactly when   *)
(* it is fulfilled or about to be.                                         *)
Fulfils(q, r) == q.pc = "fulfilling" /\ q.request = r
LinkedIsFulfilled ==
  ~crashes => \A r \in Requests :
    Linked(r) <=> request[r].status = "FULFILLED" \/ \E h \in Handlers : Fulfils(handler[h], r)

(* What the request has read is still so.                                  *)
StillTrue(q) ==
  /\ q.pc \in {"sending", "shipping"} => q.from \in ActiveMain
  /\ q.pc \in {"sending", "shipping", "linking"} /\ q.request # Unset =>
       request[q.request].status \in Dispatchable
  /\ q.pc = "fulfilling" => request[q.request].status \in Dispatchable
  /\ q.pc = "shipping" => onHand[q.from] >= q.qty
  /\ q.pc = "linking" => /\ transfer[q.transfer].status = "SENT"
                         /\ transfer[q.transfer].request = Unset
  /\ q.pc = "deciding" => request[q.request].status \in {"SUBMITTED", "APPROVED"}
  /\ q.pc \in {"accepting", "returning", "assigning", "starting", "arriving"} => Sent(q.transfer)
  /\ q.pc \in {"assigning", "starting"} => transfer[q.transfer].status = "SENT"
  /\ q.pc = "arriving" => transfer[q.transfer].status = "IN_TRANSIT"
  /\ q.pc = "accepting" => transfer[q.transfer].status \in Open
  /\ q.pc = "returning" => transfer[q.transfer].status \in {"SENT", "IN_TRANSIT"}
  /\ q.pc = "disabling" => MayDisable(q.main)

ReadsHold == \A h \in Handlers, q \in Handler : handler[h] = q => StillTrue(q)

SupplyInv == SupplyTypeOK /\ OffIsSettled /\ NothingOwed /\ LinkedOnce /\ LinkedIsFulfilled /\ ReadsHold
-----------------------------------------------------------------------------
TransferRow ==
  [status : Open \cup {"RECEIVED", "CANCELLED"}, from : Mains, to : Stores, sent : Nat, got : Nat,
   request : Requests \cup {Unset}, driver : Drivers \cup {Unset}]
RequestRow ==
  [status : {"SUBMITTED", "APPROVED", "REJECTED", "PREPARING", "FULFILLED"}, store : Stores,
   main : Mains, qty : Nat]

(* A row is there when it has a status.                                    *)
LEMMA RowKinds ==
  /\ \A x \in Transfer : (x # NoTransfer <=> x.status # "NONE") /\ (x # NoTransfer => x \in TransferRow)
  /\ TransferRow \subseteq Transfer \ {NoTransfer}
  /\ \A x \in Request : (x # NoRequest <=> x.status # "NONE") /\ (x # NoRequest => x \in RequestRow)
  /\ RequestRow \subseteq Request \ {NoRequest}
<1>1. \A x \in TransferRow : x.status # "NONE"
  BY DEF TransferRow, Open
<1>2. \A x \in RequestRow : x.status # "NONE"
  BY DEF RequestRow
<1>3. NoTransfer.status = "NONE" /\ NoRequest.status = "NONE"
  BY DEF NoTransfer, NoRequest
<1>4. Transfer = {NoTransfer} \cup TransferRow /\ Request = {NoRequest} \cup RequestRow
  BY DEF Transfer, TransferRow, Request, RequestRow
<1>. QED  BY <1>1, <1>2, <1>3, <1>4

(* What a handler has read.                                                *)
LEMMA Held ==
  \A q \in Handler :
    /\ q.pc \in {"sending", "shipping", "linking"} =>
         /\ q.from \in Mains /\ q.qty \in Nat /\ q.request \in Requests \cup {Unset}
         /\ q.rest \in SUBSET Stores /\ q.driver \in Drivers \cup {Unset}
    /\ q.pc \in {"sending", "shipping"} => q.to \in Stores
    /\ q.pc \in {"linking", "accepting", "returning", "assigning", "starting", "arriving"} =>
         q.transfer \in Transfers /\ q.driver \in Drivers \cup {Unset}
    /\ q.pc \in {"fulfilling", "deciding"} => q.request \in Requests
    /\ q.pc = "deciding" => q.status \in {"APPROVED", "REJECTED", "PREPARING"}
    /\ q.pc \in {"enabling", "disabling"} => q.main \in Mains
  BY DEF Handler, Idle

(* The one request that is handled goes on with q or ends.                 *)
LEMMA Goes ==
  ASSUME Serial, SupplyInv, NEW h \in Handlers, NEW q \in Handler, Becomes(h, q), StillTrue(q)',
         place' \in [Depots -> {"NONE", "ACTIVE", "INACTIVE"}], onHand' \in [Depots -> Int],
         received' \in 0..MaxReceived, transfer' \in [Transfers -> Transfer],
         request' \in [Requests -> Request], driver' = driver,
         OffIsSettled', NothingOwed', LinkedOnce',
         crashes \/ \A r \in Requests : Linked(r)' <=> request'[r].status = "FULFILLED" \/ Fulfils(q, r)
  PROVE  SupplyInv'
<1>1. handler' \in [Handlers -> Handler] /\ UNCHANGED crashes
  BY DEF SupplyInv, SupplyTypeOK, Becomes
<1>2. SupplyTypeOK'
  BY <1>1 DEF SupplyInv, SupplyTypeOK
<1>3. \A g \in Handlers : handler'[g] = q
  BY DEF Serial, Becomes, SupplyInv, SupplyTypeOK
<1>4. ReadsHold'
  BY <1>3 DEF ReadsHold
<1>5. LinkedIsFulfilled'
  BY <1>1, <1>3 DEF LinkedIsFulfilled
<1>. QED  BY <1>2, <1>4, <1>5 DEF SupplyInv

(* A request that has ended holds nothing.                                 *)
LEMMA IdleFits == Idle \in Handler /\ StillTrue(Idle) /\ \A r : ~Fulfils(Idle, r)
  BY DEF Handler, StillTrue, Idle, Fulfils

(* What the request holds, and that it is still so.                        *)
LEMMA Read ==
  ASSUME Serial, SupplyInv, NEW h \in Handlers
  PROVE  \E q \in Handler :
           /\ handler[h] = q /\ StillTrue(q)
           /\ ~crashes => \A r \in Requests :
                Linked(r) <=> request[r].status = "FULFILLED" \/ Fulfils(q, r)
<1>1. handler[h] \in Handler /\ StillTrue(handler[h])
  BY DEF SupplyInv, SupplyTypeOK, ReadsHold
<1>2. ~crashes => \A r \in Requests :
        Linked(r) <=> request[r].status = "FULFILLED" \/ Fulfils(handler[h], r)
  BY DEF SupplyInv, LinkedIsFulfilled, Serial
<1>. QED  BY <1>1, <1>2

(* Nothing is written to the tables.                                       *)
LEMMA Unwritten ==
  ASSUME SupplyInv, UNCHANGED rows
  PROVE  /\ place' \in [Depots -> {"NONE", "ACTIVE", "INACTIVE"}] /\ onHand' \in [Depots -> Int]
         /\ received' \in 0..MaxReceived /\ transfer' \in [Transfers -> Transfer]
         /\ request' \in [Requests -> Request] /\ driver' = driver
         /\ OffIsSettled' /\ NothingOwed' /\ LinkedOnce'
         /\ \A r : Linked(r)' = Linked(r) /\ request'[r] = request[r]
         /\ \A q : StillTrue(q)' = StillTrue(q)
<1>1. UNCHANGED <<place, onHand, received, transfer, request, driver>>
  BY DEF rows, stock
<1>2. \A t : Sent(t)' = Sent(t)
  BY <1>1 DEF Sent
<1>3. \A r : Linked(r)' = Linked(r)
  BY <1>1, <1>2 DEF Linked
<1>4. OffIsSettled' /\ NothingOwed' /\ LinkedOnce'
  BY <1>1, <1>2 DEF SupplyInv, OffIsSettled, NothingOwed, LinkedOnce
<1>5. \A q : StillTrue(q)' = StillTrue(q)
  BY <1>1, <1>2 DEF StillTrue, ActiveMain, MayDisable
<1>. QED  BY <1>1, <1>3, <1>4, <1>5 DEF SupplyInv, SupplyTypeOK

(* The request has read q, or goes on with it, and has written nothing.    *)
LEMMA Reading ==
  ASSUME Serial, SupplyInv, NEW h \in Handlers, NEW q \in Handler, Becomes(h, q), StillTrue(q),
         UNCHANGED rows, crashes \/ (q.pc # "fulfilling" /\ handler[h].pc # "fulfilling")
  PROVE  SupplyInv'
<1>1. PICK p \in Handler :
        /\ handler[h] = p
        /\ ~crashes => \A r \in Requests :
             Linked(r) <=> request[r].status = "FULFILLED" \/ Fulfils(p, r)
  BY Read
<1>2. crashes \/ \A r \in Requests : Linked(r)' <=> request'[r].status = "FULFILLED" \/ Fulfils(q, r)
  BY <1>1, Unwritten DEF Fulfils
<1>3. StillTrue(q)'
  BY Unwritten
<1>. QED  BY <1>2, <1>3, Unwritten, Goes

(* A request that comes has read q.                                        *)
LEMMA Loading ==
  ASSUME Serial, SupplyInv, NEW h \in Handlers, NEW q \in Handler, Loads(h, q), StillTrue(q),
         q.pc # "fulfilling"
  PROVE  SupplyInv'
<1>1. Becomes(h, q) /\ UNCHANGED rows /\ handler[h].pc # "fulfilling"
  BY DEF Loads, Becomes, Idle
<1>. QED  BY <1>1, Reading
-----------------------------------------------------------------------------
(* The warehouse is switched on and off.                                   *)
LEMMA Switches ==
  ASSUME Serial, SupplyInv, NEW h \in Handlers, Warehouse(h)
  PROVE  SupplyInv'
<1>1. ASSUME NEW m \in Mains, EnableLoad(h, m) PROVE SupplyInv'
  <2>. DEFINE q == [pc |-> "enabling", main |-> m]
  <2>1. q \in Handler /\ StillTrue(q) /\ q.pc # "fulfilling" /\ Loads(h, q)
    BY <1>1 DEF EnableLoad, Handler, StillTrue
  <2>. HIDE DEF q
  <2>. QED  BY <2>1, Loading
<1>2. ASSUME NEW m \in Mains, DisableLoad(h, m) PROVE SupplyInv'
  <2>. DEFINE q == [pc |-> "disabling", main |-> m]
  <2>1. q \in Handler /\ StillTrue(q) /\ q.pc # "fulfilling" /\ Loads(h, q)
    BY <1>2 DEF DisableLoad, Handler, StillTrue
  <2>. HIDE DEF q
  <2>. QED  BY <2>1, Loading
<1>3. ASSUME NEW m \in Mains, NEW at \in {"ACTIVE", "INACTIVE"}, place' = [place EXCEPT ![m] = at],
             at = "INACTIVE" => MayDisable(m),
             Ends(h), UNCHANGED <<stock, transfer, request, driver>>, handler[h].pc # "fulfilling"
      PROVE  SupplyInv'
  <2>1. UNCHANGED <<onHand, received, transfer, request, driver>>
    BY <1>3 DEF stock
  <2>2. /\ place' \in [Depots -> {"NONE", "ACTIVE", "INACTIVE"}] /\ place'[m] = at
        /\ \A p \in Depots : p # m => place'[p] = place[p]
    BY <1>3 DEF SupplyInv, SupplyTypeOK, Depots
  <2>3. OffIsSettled'
    <3>1. ASSUME NEW l \in Mains, place'[l] = "INACTIVE", l # m
          PROVE  place[l] = "INACTIVE"
      BY <2>2, <3>1 DEF Depots
    <3>2. place'[m] = "INACTIVE" => MayDisable(m) /\ onHand[m] \in Int
      BY <1>3, <2>2 DEF SupplyInv, SupplyTypeOK, Depots
    <3>3. place'[m] = "INACTIVE" => ~(onHand[m] > 0)
      BY <3>2 DEF MayDisable
    <3>. QED  BY <2>1, <3>1, <3>2, <3>3 DEF OffIsSettled, SupplyInv, MayDisable
  <2>4. NothingOwed' /\ LinkedOnce' /\ \A r \in Requests : Linked(r)' = Linked(r)
    BY <2>1 DEF SupplyInv, NothingOwed, LinkedOnce, Linked, Sent
  <2>5. crashes \/ \A r \in Requests : Linked(r)' <=> request'[r].status = "FULFILLED" \/ Fulfils(Idle, r)
    BY <1>3, <2>1, <2>4, Read DEF Fulfils, Idle
  <2>6. StillTrue(Idle)'
    BY DEF StillTrue, Idle
  <2>7. UNCHANGED <<received, transfer, request, driver>> /\ SupplyTypeOK /\ onHand' = onHand
    BY <2>1 DEF SupplyInv
  <2>. QED  BY <1>3, <2>2, <2>3, <2>4, <2>5, <2>6, <2>7, IdleFits, Goes DEF Ends, SupplyTypeOK
<1>4. CASE EnableCommit(h)
  <2>1. PICK q \in Handler : handler[h] = q /\ q.pc = "enabling"
    BY <1>4, Read DEF EnableCommit, In
  <2>. QED  BY <1>3, <1>4, <2>1, Held DEF EnableCommit
<1>5. CASE DisableCommit(h)
  <2>1. PICK q \in Handler : handler[h] = q /\ q.pc = "disabling" /\ MayDisable(q.main)
    BY <1>5, Read DEF DisableCommit, In, StillTrue
  <2>. QED  BY <1>3, <1>5, <2>1, Held DEF DisableCommit
<1>. QED  BY <1>1, <1>2, <1>4, <1>5 DEF Warehouse

(* Nothing is in flight while a delivery is booked or a driver is written. *)
LEMMA Calm ==
  ASSUME SupplyInv, Quiet, UNCHANGED <<handler, crashes>>
  PROVE  /\ ReadsHold'
         /\ (\A r \in Requests : Linked(r)' = Linked(r) /\ request'[r] = request[r]) => LinkedIsFulfilled'
<1>1. \A h \in Handlers : handler'[h] = Idle
  BY DEF Quiet
<1>2. StillTrue(Idle)'
  BY DEF StillTrue, Idle
<1>3. ReadsHold'
  BY <1>1, <1>2 DEF ReadsHold
<1>4. (\A r \in Requests : Linked(r)' = Linked(r) /\ request'[r] = request[r]) => LinkedIsFulfilled'
  BY <1>1 DEF SupplyInv, LinkedIsFulfilled
<1>. QED  BY <1>3, <1>4

(* A delivery comes.                                                       *)
LEMMA Receives ==
  ASSUME SupplyAssumption, SupplyInv, NEW p \in Depots, ReceiveAt(p, 1)
  PROVE  SupplyInv'
<1>1. /\ Quiet /\ received + 1 <= MaxReceived /\ onHand' = [onHand EXCEPT ![p] = onHand[p] + 1]
      /\ received' = received + 1
      /\ UNCHANGED <<place, transfer, request, driver, handler, crashes>>
  BY DEF ReceiveAt, ApplyDelta
<1>2. onHand' \in [Depots -> Int] /\ received' \in 0..MaxReceived
  BY <1>1 DEF SupplyInv, SupplyTypeOK, SupplyAssumption
<1>3. NothingOwed'
  BY <1>1 DEF SupplyInv, SupplyTypeOK, NothingOwed, Depots
<1>4. \A m \in Mains : place'[m] = "INACTIVE" => onHand'[m] = onHand[m]
  BY DEF ReceiveAt, ApplyDelta, SupplyInv, SupplyTypeOK, Depots
<1>5. OffIsSettled' /\ LinkedOnce' /\ \A r \in Requests : Linked(r)' = Linked(r)
  BY <1>1, <1>4 DEF SupplyInv, OffIsSettled, LinkedOnce, Linked, Sent
<1>. QED  BY <1>1, <1>2, <1>3, <1>5, Calm DEF SupplyInv, SupplyTypeOK

(* A driver is written.                                                    *)
LEMMA DriversChange ==
  ASSUME SupplyInv, NEW d \in Drivers,
         \/ CreateDriver(d) \/ DeleteDriver(d)
         \/ \E status \in {"ACTIVE", "INACTIVE"} : UpdateDriver(d, status)
  PROVE  SupplyInv'
<1>1. /\ Quiet /\ UNCHANGED <<place, onHand, received, request, handler, crashes>>
      /\ driver' \in [Drivers -> {"NONE", "ACTIVE", "INACTIVE"}]
  BY DEF CreateDriver, DeleteDriver, UpdateDriver, stock, SupplyInv, SupplyTypeOK
<1>2. \/ transfer' = transfer
      \/ transfer' = [t \in Transfers |->
           IF transfer[t] # NoTransfer /\ transfer[t].driver = d
           THEN [transfer[t] EXCEPT !.driver = Unset] ELSE transfer[t]]
  BY DEF CreateDriver, DeleteDriver, UpdateDriver
<1>3. ASSUME NEW t \in Transfers
      PROVE  /\ transfer'[t] \in Transfer /\ Sent(t)' = Sent(t)
             /\ transfer'[t].status = transfer[t].status
             /\ Sent(t) => transfer'[t].request = transfer[t].request /\ transfer'[t].from = transfer[t].from
  <2>1. transfer[t] \in Transfer /\ (Sent(t) => transfer[t] \in TransferRow)
    BY RowKinds DEF SupplyInv, SupplyTypeOK, Sent
  <2>2. CASE transfer'[t] = transfer[t]
    BY <2>1, <2>2 DEF Sent
  <2>3. CASE Sent(t) /\ transfer'[t] = [transfer[t] EXCEPT !.driver = Unset]
    <3>. DEFINE r == [transfer[t] EXCEPT !.driver = Unset]
    <3>1. r \in TransferRow /\ r.status = transfer[t].status /\ r.request = transfer[t].request
          /\ r.from = transfer[t].from
      BY <2>1, <2>3 DEF TransferRow
    <3>. HIDE DEF r
    <3>2. transfer'[t] = r
      BY <2>3 DEF r
    <3>. QED  BY <2>3, <3>1, <3>2, RowKinds DEF Sent
  <2>. QED  BY <1>2, <2>2, <2>3 DEF Sent
<1>4. transfer' \in [Transfers -> Transfer]
  BY <1>2, <1>3 DEF SupplyInv, SupplyTypeOK
<1>5. OffIsSettled'
  BY <1>1, <1>3, RowKinds DEF SupplyInv, OffIsSettled, Sent, NoTransfer
<1>6. LinkedOnce' /\ \A r \in Requests : Linked(r)' = Linked(r)
  BY <1>3 DEF SupplyInv, LinkedOnce, Linked
<1>7. NothingOwed'
  BY <1>1 DEF SupplyInv, NothingOwed
<1>. QED  BY <1>1, <1>4, <1>5, <1>6, <1>7, Calm DEF SupplyInv, SupplyTypeOK
-----------------------------------------------------------------------------
(* A supply request is written.                                            *)
LEMMA RequestSet ==
  ASSUME Serial, SupplyInv, NEW h \in Handlers, NEW q \in Handler, Becomes(h, q), StillTrue(q)',
         NEW r \in Requests, NEW x \in RequestRow, request' = [request EXCEPT ![r] = x],
         UNCHANGED <<place, stock, transfer, driver>>,
         x.status # "SUBMITTED" \/ x.main \in ActiveMain,
         crashes \/ \A s \in Requests : Linked(s) <=> request'[s].status = "FULFILLED" \/ Fulfils(q, s)
  PROVE  SupplyInv'
<1>1. UNCHANGED <<place, onHand, received, transfer, driver>>
  BY DEF stock
<1>2. /\ request' \in [Requests -> Request] /\ request'[r] = x
      /\ \A s \in Requests : s # r => request'[s] = request[s]
  BY RowKinds DEF SupplyInv, SupplyTypeOK
<1>3. OffIsSettled'
  BY <1>1, <1>2 DEF SupplyInv, OffIsSettled, ActiveMain
<1>4. NothingOwed' /\ LinkedOnce' /\ \A s \in Requests : Linked(s)' = Linked(s)
  BY <1>1 DEF SupplyInv, NothingOwed, LinkedOnce, Linked, Sent
<1>5. /\ place' \in [Depots -> {"NONE", "ACTIVE", "INACTIVE"}] /\ onHand' \in [Depots -> Int]
      /\ received' \in 0..MaxReceived /\ transfer' \in [Transfers -> Transfer]
  BY <1>1 DEF SupplyInv, SupplyTypeOK
<1>6. crashes \/ \A s \in Requests :
        Linked(s)' <=> request'[s].status = "FULFILLED" \/ Fulfils(q, s)
  BY <1>4
<1>. QED  BY <1>1, <1>2, <1>3, <1>4, <1>5, <1>6, Goes

(* A supply request is made and answered.                                  *)
LEMMA Asks ==
  ASSUME Serial, SupplyAssumption, SupplyInv, NEW h \in Handlers, NEW r \in Requests
  PROVE  /\ \A s \in Stores : Submit(h, r, s, 1) => SupplyInv'
         /\ ApproveLoad(h, r) \/ RejectRequestLoad(h, r) \/ PrepareLoad(h, r) => SupplyInv'
         /\ \A d \in Drivers \cup {Unset} : DispatchLoad(h, r, d) => SupplyInv'
<1>1. ASSUME NEW s \in Stores, Submit(h, r, s, 1) PROVE SupplyInv'
  <2>1. PICK m \in ActiveMain :
          request' = [request EXCEPT ![r] =
            [status |-> "SUBMITTED", store |-> s, main |-> m, qty |-> 1]]
    BY <1>1 DEF Submit
  <2>. DEFINE x == [status |-> "SUBMITTED", store |-> s, main |-> m, qty |-> 1]
              q == [pc |-> "deciding", request |-> r, status |-> "APPROVED"]
  <2>2. /\ handler[h] = Idle /\ request[r] = NoRequest /\ (Becomes(h, q) \/ Becomes(h, Idle))
        /\ UNCHANGED <<place, stock, transfer, driver>>
    BY <1>1 DEF Submit
  <2>3. x \in RequestRow /\ x.status = "SUBMITTED" /\ x.main \in ActiveMain
    BY DEF RequestRow, ActiveMain
  <2>4. q \in Handler /\ \A s2 : ~Fulfils(q, s2)
    BY DEF Handler, Fulfils
  <2>5. request' = [request EXCEPT ![r] = x]
    BY <2>1
  <2>. HIDE DEF x
  <2>6. request'[r].status = "SUBMITTED" /\ \A s2 \in Requests : s2 # r => request'[s2] = request[s2]
    BY <2>3, <2>5 DEF SupplyInv, SupplyTypeOK
  <2>7. StillTrue(q)' /\ StillTrue(Idle)'
    BY <2>6 DEF StillTrue, Idle
  <2>. HIDE DEF q
  <2>8. crashes \/ \A s2 \in Requests : Linked(s2) <=> request'[s2].status = "FULFILLED"
    BY <2>2, <2>6, Read DEF Fulfils, Idle, NoRequest
  <2>9. CASE Becomes(h, q)
    BY <2>2, <2>3, <2>4, <2>5, <2>7, <2>8, <2>9, RequestSet
  <2>10. CASE Becomes(h, Idle)
    BY <2>2, <2>3, <2>5, <2>7, <2>8, <2>10, IdleFits, RequestSet
  <2>. QED  BY <2>2, <2>9, <2>10
<1>2. ASSUME NEW from \in SUBSET {"SUBMITTED", "APPROVED"},
             NEW st \in {"APPROVED", "REJECTED", "PREPARING"}, Decides(h, r, from, st)
      PROVE  SupplyInv'
  <2>. DEFINE q == [pc |-> "deciding", request |-> r, status |-> st]
  <2>1. q \in Handler /\ StillTrue(q) /\ q.pc # "fulfilling" /\ Loads(h, q)
    BY <1>2 DEF Decides, Handler, StillTrue
  <2>. HIDE DEF q
  <2>. QED  BY <2>1, Loading
<1>3. ApproveLoad(h, r) \/ RejectRequestLoad(h, r) \/ PrepareLoad(h, r) => SupplyInv'
  BY <1>2 DEF ApproveLoad, RejectRequestLoad, PrepareLoad
<1>4. ASSUME NEW d \in Drivers \cup {Unset}, DispatchLoad(h, r, d) PROVE SupplyInv'
  <2>. DEFINE q == Sending(request[r].main, request[r].store, request[r].qty, r, {}, d)
  <2>1. request[r].status \in Dispatchable /\ request[r].main \in ActiveMain /\ Loads(h, q)
    BY <1>4 DEF DispatchLoad
  <2>2. request[r] \in RequestRow
    BY <2>1, RowKinds DEF SupplyInv, SupplyTypeOK, Dispatchable
  <2>3. q \in Handler
    BY <2>2 DEF Sending, Handler, RequestRow
  <2>4. StillTrue(q) /\ q.pc # "fulfilling"
    BY <2>1 DEF Sending, StillTrue
  <2>. HIDE DEF q
  <2>. QED  BY <2>1, <2>3, <2>4, Loading
<1>. QED  BY <1>1, <1>3, <1>4

(* The answer, or the last of the three writes of a dispatch.              *)
LEMMA Answers ==
  ASSUME Serial, SupplyInv, NEW h \in Handlers, DecideCommit(h) \/ FulfilCommit(h)
  PROVE  SupplyInv'
<1>1. PICK q \in Handler :
        /\ handler[h] = q /\ StillTrue(q)
        /\ ~crashes => \A r \in Requests :
             Linked(r) <=> request[r].status = "FULFILLED" \/ Fulfils(q, r)
  BY Read
<1>2. PICK r \in Requests, st \in {"APPROVED", "REJECTED", "PREPARING", "FULFILLED"} :
        /\ r = q.request /\ request' = [request EXCEPT ![r].status = st]
        /\ \/ q.pc = "deciding" /\ request[r].status \in {"SUBMITTED", "APPROVED"} /\ st # "FULFILLED"
           \/ q.pc = "fulfilling" /\ request[r].status \in Dispatchable /\ st = "FULFILLED"
        /\ Ends(h) /\ UNCHANGED <<place, stock, transfer, driver>>
  <2>1. CASE DecideCommit(h)
    BY <1>1, <2>1, Held DEF DecideCommit, In, StillTrue
  <2>2. CASE FulfilCommit(h)
    BY <1>1, <2>2, Held DEF FulfilCommit, In, StillTrue
  <2>. QED  BY <2>1, <2>2
<1>. DEFINE x == [request[r] EXCEPT !.status = st]
<1>3. request[r] \in RequestRow
  BY <1>2, RowKinds DEF SupplyInv, SupplyTypeOK, Dispatchable
<1>4. x \in RequestRow /\ x.status = st /\ request' = [request EXCEPT ![r] = x]
  BY <1>2, <1>3 DEF RequestRow
<1>. HIDE DEF x
<1>5. request'[r].status = st /\ \A s \in Requests : s # r => request'[s] = request[s]
  BY <1>4 DEF SupplyInv, SupplyTypeOK
<1>6. ASSUME ~crashes, NEW s \in Requests
      PROVE  Linked(s) <=> request'[s].status = "FULFILLED" \/ Fulfils(Idle, s)
  <2>1. Linked(s) <=> request[s].status = "FULFILLED" \/ Fulfils(q, s)
    BY <1>1, <1>6
  <2>2. ~Fulfils(Idle, s)
    BY IdleFits
  <2>3. CASE s = r
    BY <1>2, <1>5, <2>1, <2>2, <2>3 DEF Fulfils, Dispatchable
  <2>4. CASE s # r
    BY <1>2, <1>5, <2>1, <2>2, <2>4 DEF Fulfils
  <2>. QED  BY <2>3, <2>4
<1>7. StillTrue(Idle)' /\ x.status # "SUBMITTED"
  BY <1>4 DEF StillTrue, Idle
<1>8. Becomes(h, Idle) /\ UNCHANGED <<place, stock, transfer, driver>> /\ Idle \in Handler
  BY <1>2, IdleFits DEF Ends
<1>9. crashes \/ \A s \in Requests : Linked(s) <=> request'[s].status = "FULFILLED" \/ Fulfils(Idle, s)
  BY <1>6
<1>. QED  BY <1>4, <1>7, <1>8, <1>9, RequestSet
-----------------------------------------------------------------------------
(* The stock of a warehouse was there before the transfer x is written, or *)
(* x sends it back.                                                        *)
Back(x) ==
  \A m \in Mains : onHand'[m] > 0 => onHand[m] > 0 \/ (x.status = "CANCELLED" /\ x.from = m)

(* A transfer is written with the link it has.                             *)
LEMMA TransferSet ==
  ASSUME Serial, SupplyAssumption, SupplyInv,
         NEW h \in Handlers, NEW q \in Handler, Becomes(h, q), StillTrue(q)',
         q.pc # "fulfilling", handler[h].pc # "fulfilling",
         NEW t \in Transfers, NEW x \in TransferRow, transfer' = [transfer EXCEPT ![t] = x],
         UNCHANGED <<place, received, request, driver>>,
         onHand' \in [Depots -> Int], NothingOwed', Back(x),
         transfer[t].status = "CANCELLED" => x.status = "CANCELLED" /\ x.from = transfer[t].from,
         x.status = "SENT" =>
           x.from \in ActiveMain \/ (transfer[t].status = "SENT" /\ x.from = transfer[t].from),
         x.request = IF Sent(t) THEN transfer[t].request ELSE Unset
  PROVE  SupplyInv'
<1>1. /\ transfer' \in [Transfers -> Transfer] /\ transfer'[t] = x
      /\ \A u \in Transfers : u # t => transfer'[u] = transfer[u]
  BY RowKinds DEF SupplyInv, SupplyTypeOK
<1>2. x # NoTransfer
  BY RowKinds
<1>3. OffIsSettled'
  <2>1. ASSUME NEW m \in Mains, place'[m] = "INACTIVE", onHand'[m] > 0
        PROVE  \E u \in Transfers : transfer'[u].status = "CANCELLED" /\ transfer'[u].from = m
    <3>1. CASE x.status = "CANCELLED" /\ x.from = m
      BY <1>1, <3>1
    <3>2. CASE onHand[m] > 0
      BY <1>1, <2>1, <3>2 DEF SupplyInv, OffIsSettled
    <3>. QED  BY <2>1, <3>1, <3>2 DEF Back
  <2>2. ASSUME NEW m \in Mains, place'[m] = "INACTIVE", NEW u \in Transfers,
               transfer'[u].status = "SENT"
        PROVE  transfer'[u].from # m
    BY <1>1, <2>2 DEF SupplyInv, OffIsSettled, ActiveMain
  <2>3. \A m \in Mains, u \in Requests :
          place'[m] = "INACTIVE" /\ request'[u].status = "SUBMITTED" => request'[u].main # m
    BY DEF SupplyInv, OffIsSettled
  <2>. QED  BY <2>1, <2>2, <2>3 DEF OffIsSettled
<1>4. LinkedOnce'
  BY <1>1, <1>2 DEF SupplyInv, LinkedOnce, Sent
<1>5. ASSUME NEW r \in Requests PROVE Linked(r)' <=> Linked(r)
  <2>1. r # Unset
    BY DEF SupplyAssumption
  <2>. QED  BY <1>1, <1>2, <2>1 DEF Linked, Sent
<1>6. crashes \/ \A r \in Requests : Linked(r)' <=> request'[r].status = "FULFILLED" \/ Fulfils(q, r)
  BY <1>5, Read DEF Fulfils
<1>. QED  BY <1>1, <1>3, <1>4, <1>6, Goes DEF SupplyInv, SupplyTypeOK

(* A transfer is about to be sent.                                         *)
LEMMA SendingFits ==
  ASSUME NEW m \in Mains, NEW s \in Stores, NEW n \in Nat, NEW rest \in SUBSET Stores,
         NEW d \in Drivers \cup {Unset}
  PROVE  /\ Sending(m, s, n, Unset, rest, d) \in Handler
         /\ Sending(m, s, n, Unset, rest, d).pc # "fulfilling"
         /\ m \in ActiveMain => StillTrue(Sending(m, s, n, Unset, rest, d))
  BY DEF Sending, Handler, StillTrue

(* A transfer on its own, or to the first store of a push drop.            *)
LEMMA Sends ==
  ASSUME Serial, SupplyInv, NEW h \in Handlers, NEW m \in Mains
  PROVE  /\ \A s \in Stores : SendLoad(h, m, s, 1) => SupplyInv'
         /\ \A dests \in SUBSET Stores, d \in Drivers \cup {Unset} :
              PushLoad(h, m, dests, 1, d) => SupplyInv'
<1>1. ASSUME NEW s \in Stores, SendLoad(h, m, s, 1) PROVE SupplyInv'
  <2>1. m \in ActiveMain /\ Loads(h, Sending(m, s, 1, Unset, {}, Unset))
    BY <1>1 DEF SendLoad
  <2>2. 1 \in Nat /\ {} \in SUBSET Stores /\ Unset \in Drivers \cup {Unset}
    OBVIOUS
  <2>. QED  BY <2>1, <2>2, SendingFits, Loading
<1>2. ASSUME NEW dests \in SUBSET Stores, NEW d \in Drivers \cup {Unset},
             PushLoad(h, m, dests, 1, d)
      PROVE  SupplyInv'
  <2>1. PICK s \in dests : Loads(h, Sending(m, s, 1, Unset, dests \ {s}, d))
    BY <1>2 DEF PushLoad
  <2>2. m \in ActiveMain /\ 1 \in Nat /\ s \in Stores /\ dests \ {s} \in SUBSET Stores
    BY <1>2 DEF PushLoad
  <2>. QED  BY <2>1, <2>2, SendingFits, Loading
<1>. QED  BY <1>1, <1>2

(* The stock is looked at.                                                 *)
LEMMA ChecksStock ==
  ASSUME Serial, SupplyInv, NEW h \in Handlers, ShipCheck(h)
  PROVE  SupplyInv'
<1>1. PICK q \in Handler : handler[h] = q /\ StillTrue(q) /\ q.pc = "sending"
  BY Read DEF ShipCheck, In
<1>. DEFINE p == [q EXCEPT !.pc = "shipping"]
<1>2. /\ UNCHANGED rows
      /\ \/ onHand[q.from] >= q.qty /\ Becomes(h, p)
         \/ Becomes(h, Idle)
  BY <1>1 DEF ShipCheck, Enough, Ends
<1>3. q \in [pc : {"sending", "shipping"}, from : Mains, to : Stores, qty : Nat,
             request : Requests \cup {Unset}, rest : SUBSET Stores, driver : Drivers \cup {Unset}]
  BY <1>1 DEF Handler, Idle
<1>4. /\ p \in [pc : {"sending", "shipping"}, from : Mains, to : Stores, qty : Nat,
                request : Requests \cup {Unset}, rest : SUBSET Stores, driver : Drivers \cup {Unset}]
      /\ p.pc = "shipping" /\ p.from = q.from /\ p.qty = q.qty /\ p.request = q.request
  BY <1>3
<1>. HIDE DEF p
<1>5. p \in Handler
  BY <1>4 DEF Handler
<1>6. onHand[q.from] >= q.qty => StillTrue(p)
  BY <1>1, <1>4 DEF StillTrue
<1>7. Idle.pc # "fulfilling" /\ p.pc # "fulfilling" /\ handler[h].pc # "fulfilling"
  BY <1>1, <1>4 DEF Idle
<1>. QED  BY <1>2, <1>5, <1>6, <1>7, IdleFits, Reading

(* A transfer is written and the stock leaves the warehouse.               *)
LEMMA Ships ==
  ASSUME Serial, SupplyAssumption, SupplyInv, NEW h \in Handlers, NEW t \in Transfers, ShipCommit(h, t)
  PROVE  SupplyInv'
<1>1. PICK q \in Handler : handler[h] = q /\ StillTrue(q) /\ q.pc = "shipping"
  BY Read DEF ShipCommit, In
<1>2. /\ q.from \in Mains /\ q.to \in Stores /\ q.qty \in Nat /\ q.request \in Requests \cup {Unset}
      /\ q.rest \in SUBSET Stores /\ q.driver \in Drivers \cup {Unset}
      /\ q.from \in ActiveMain /\ onHand[q.from] >= q.qty
      /\ q.request # Unset => request[q.request].status \in Dispatchable
  BY <1>1, Held DEF StillTrue
<1>. DEFINE x == [status |-> "SENT", from |-> q.from, to |-> q.to, sent |-> q.qty, got |-> 0,
                  request |-> Unset, driver |-> Unset]
            p == [pc |-> "linking", transfer |-> t, request |-> q.request, rest |-> q.rest,
                  from |-> q.from, qty |-> q.qty, driver |-> q.driver]
<1>3. /\ transfer[t] = NoTransfer /\ transfer' = [transfer EXCEPT ![t] = x]
      /\ onHand' = [onHand EXCEPT ![q.from] = onHand[q.from] - q.qty]
      /\ Becomes(h, p) \/ Becomes(h, Idle)
      /\ UNCHANGED <<place, received, request, driver>>
  BY <1>1, <1>2 DEF ShipCommit, Shipped, ApplyDelta
<1>4. x \in TransferRow /\ x.status = "SENT" /\ x.from \in ActiveMain /\ x.request = Unset
  BY <1>2 DEF TransferRow, Open
<1>. HIDE DEF x
<1>5. onHand' \in [Depots -> Int] /\ NothingOwed'
  <2>1. q.from \in Depots /\ onHand[q.from] \in Int
    BY <1>2 DEF SupplyInv, SupplyTypeOK, Depots
  <2>2. onHand[q.from] - q.qty \in Int /\ onHand[q.from] - q.qty >= 0
    BY <1>2, <2>1
  <2>. QED  BY <1>3, <2>1, <2>2 DEF SupplyInv, SupplyTypeOK, NothingOwed, Depots
<1>6. p \in Handler
  BY <1>2 DEF Handler
<1>7. transfer'[t] = x
  BY <1>3 DEF SupplyInv, SupplyTypeOK
<1>8. StillTrue(p)' /\ StillTrue(Idle)'
  BY <1>2, <1>3, <1>4, <1>7 DEF StillTrue, Idle
<1>9. p.pc # "fulfilling" /\ Idle.pc # "fulfilling" /\ handler[h].pc # "fulfilling"
  BY <1>1 DEF Idle
<1>. HIDE DEF p
<1>10. x.request = IF Sent(t) THEN transfer[t].request ELSE Unset
  BY <1>3, <1>4 DEF Sent
<1>11. Back(x)
  <2>1. \A m \in Mains : m \in Depots /\ onHand[m] \in Int
    BY DEF SupplyInv, SupplyTypeOK, Depots
  <2>. QED  BY <1>2, <1>3, <2>1 DEF Back, SupplyInv, SupplyTypeOK
<1>12. transfer[t].status # "CANCELLED"
  BY <1>3 DEF NoTransfer
<1>. QED
  BY <1>3, <1>4, <1>5, <1>6, <1>8, <1>9, <1>10, <1>11, <1>12, IdleFits, TransferSet
-----------------------------------------------------------------------------
(* A driver is assigned, and the request ends or goes on to another store. *)
LEMMA Assigns ==
  ASSUME Serial, SupplyAssumption, SupplyInv,
         NEW h \in Handlers, NEW q \in Handler, Becomes(h, q), StillTrue(q), StillTrue(q)',
         q.pc # "fulfilling", handler[h].pc # "fulfilling",
         NEW t \in Transfers, Sent(t), NEW d \in Drivers \cup {Unset}, Assigned(t, d),
         UNCHANGED <<place, stock, request, driver>>
  PROVE  SupplyInv'
<1>1. UNCHANGED <<place, onHand, received, request, driver>>
  BY DEF stock
<1>2. CASE transfer' = transfer
  <2>1. UNCHANGED rows
    BY <1>1, <1>2 DEF rows, stock
  <2>. QED  BY <2>1, Reading
<1>3. CASE transfer' = [transfer EXCEPT ![t].driver = d]
  <2>. DEFINE x == [transfer[t] EXCEPT !.driver = d]
  <2>1. transfer[t] \in TransferRow
    BY RowKinds DEF SupplyInv, SupplyTypeOK, Sent
  <2>2. /\ x \in TransferRow /\ x.status = transfer[t].status /\ x.from = transfer[t].from
        /\ x.request = transfer[t].request
    BY <2>1 DEF TransferRow
  <2>3. transfer' = [transfer EXCEPT ![t] = x]
    BY <1>3
  <2>. HIDE DEF x
  <2>4. onHand' \in [Depots -> Int] /\ NothingOwed' /\ Back(x)
    BY <1>1 DEF SupplyInv, SupplyTypeOK, NothingOwed, Back
  <2>. QED  BY <1>1, <2>2, <2>3, <2>4, TransferSet
<1>. QED  BY <1>2, <1>3 DEF Assigned

(* A push drop goes on to its next store.                                  *)
LEMMA PushesOn ==
  ASSUME Serial, SupplyAssumption, SupplyInv, NEW h \in Handlers, PushNext(h)
  PROVE  SupplyInv'
<1>1. PICK q \in Handler : handler[h] = q /\ StillTrue(q) /\ q.pc = "linking"
  BY Read DEF PushNext, In
<1>2. PICK t \in Transfers : t = q.transfer /\ transfer[t].status = "SENT"
  BY <1>1, Held DEF StillTrue
<1>3. /\ q.from \in Mains /\ q.qty \in Nat /\ q.rest \in SUBSET Stores /\ q.driver \in Drivers \cup {Unset}
      /\ Sent(t)
  BY <1>1, <1>2, Held DEF Sent, NoTransfer
<1>4. /\ Assigned(t, q.driver) /\ UNCHANGED <<place, stock, request, driver>>
      /\ \/ Becomes(h, Idle)
         \/ q.from \in ActiveMain /\ \E s \in q.rest :
              Becomes(h, Sending(q.from, s, q.qty, Unset, q.rest \ {s}, q.driver))
  BY <1>1, <1>2 DEF PushNext, Ends
<1>5. handler[h].pc # "fulfilling" /\ Idle.pc # "fulfilling" /\ StillTrue(Idle)'
  BY <1>1 DEF Idle, StillTrue
<1>6. CASE Becomes(h, Idle)
  BY <1>3, <1>4, <1>5, <1>6, IdleFits, Assigns
<1>7. ASSUME q.from \in ActiveMain, NEW s \in q.rest,
             Becomes(h, Sending(q.from, s, q.qty, Unset, q.rest \ {s}, q.driver))
      PROVE  SupplyInv'
  <2>. DEFINE p == Sending(q.from, s, q.qty, Unset, q.rest \ {s}, q.driver)
  <2>1. s \in Stores /\ q.rest \ {s} \in SUBSET Stores
    BY <1>3
  <2>2. p \in Handler /\ p.pc # "fulfilling" /\ StillTrue(p)
    BY <1>3, <1>7, <2>1, SendingFits
  <2>3. q.from \in ActiveMain'
    BY <1>4, <1>7 DEF ActiveMain
  <2>4. StillTrue(p)'
    BY <2>3 DEF Sending, StillTrue
  <2>. HIDE DEF p
  <2>5. Becomes(h, p)
    BY <1>7 DEF p
  <2>. QED  BY <1>3, <1>4, <1>5, <2>2, <2>4, <2>5, Assigns
<1>. QED  BY <1>4, <1>6, <1>7

(* The second write of a dispatch.                                         *)
LEMMA Links ==
  ASSUME Serial, SupplyAssumption, SupplyInv, NEW h \in Handlers,
         NEW status \in {"SENT", "IN_TRANSIT"}, LinkCommit(h, status)
  PROVE  SupplyInv'
<1>1. PICK q \in Handler :
        /\ handler[h] = q /\ StillTrue(q) /\ q.pc = "linking" /\ q.request # Unset
        /\ ~crashes => \A r \in Requests :
             Linked(r) <=> request[r].status = "FULFILLED" \/ Fulfils(q, r)
  BY Read DEF LinkCommit, In
<1>2. PICK t \in Transfers, r \in Requests :
        /\ t = q.transfer /\ r = q.request /\ request[r].status \in Dispatchable
        /\ transfer[t].status = "SENT" /\ transfer[t].request = Unset /\ q.driver \in Drivers \cup {Unset}
  BY <1>1, Held DEF StillTrue
<1>. DEFINE given == q.driver # Unset /\ driver[q.driver] = "ACTIVE"
            d == IF given THEN q.driver ELSE transfer[t].driver
            st == IF given THEN status ELSE transfer[t].status
            x == [transfer[t] EXCEPT !.request = r, !.driver = d, !.status = st]
            p == [pc |-> "fulfilling", request |-> r]
<1>3. /\ UNCHANGED <<place, stock, request, driver>>
      /\ \/ /\ Unlinked(r) /\ Becomes(h, p)
            /\ transfer' = [transfer EXCEPT ![t].request = r,
                 ![t].driver = IF given THEN q.driver ELSE @, ![t].status = IF given THEN status ELSE @]
         \/ Becomes(h, Idle) /\ transfer' = transfer
  BY <1>1, <1>2 DEF LinkCommit, Ends
<1>4. UNCHANGED <<place, onHand, received, request, driver>>
  BY <1>3 DEF stock
<1>5. CASE Becomes(h, Idle) /\ transfer' = transfer
  <2>1. UNCHANGED rows /\ Idle.pc # "fulfilling" /\ handler[h].pc # "fulfilling"
    BY <1>1, <1>4, <1>5 DEF rows, stock, Idle
  <2>. QED  BY <1>5, <2>1, IdleFits, Reading
<1>6. CASE /\ Unlinked(r) /\ Becomes(h, p)
           /\ transfer' = [transfer EXCEPT ![t].request = r,
                ![t].driver = IF given THEN q.driver ELSE @, ![t].status = IF given THEN status ELSE @]
  <2>1. transfer[t] \in TransferRow /\ Sent(t)
    BY <1>2, RowKinds DEF SupplyInv, SupplyTypeOK, Sent, NoTransfer
  <2>2. d \in Drivers \cup {Unset} /\ st \in Open
    BY <1>2, <2>1 DEF TransferRow, Open
  <2>3. transfer' = [transfer EXCEPT ![t] = x]
    BY <1>6
  <2>. HIDE DEF d, st
  <2>4. x \in TransferRow /\ x.request = r /\ x.from = transfer[t].from
    BY <2>1, <2>2 DEF TransferRow
  <2>. HIDE DEF x
  <2>5. x # NoTransfer
    BY <2>4, RowKinds
  <2>6. /\ transfer' \in [Transfers -> Transfer] /\ transfer'[t] = x
        /\ \A u \in Transfers : u # t => transfer'[u] = transfer[u]
    BY <2>3, <2>4, RowKinds DEF SupplyInv, SupplyTypeOK
  <2>7. OffIsSettled'
    <3>1. transfer[t].status # "CANCELLED"
      BY <1>2
    <3>. QED  BY <1>2, <1>4, <2>4, <2>6, <3>1 DEF SupplyInv, OffIsSettled
  <2>8. LinkedOnce'
    <3>1. \A u \in Transfers : u # t /\ Sent(u) => transfer[u].request # r
      BY <1>6 DEF Unlinked, Sent
    <3>. QED  BY <2>4, <2>5, <2>6, <3>1 DEF SupplyInv, LinkedOnce, Sent
  <2>9. crashes \/ \A s \in Requests : Linked(s)' <=> request'[s].status = "FULFILLED" \/ Fulfils(p, s)
    <3>. SUFFICES ASSUME ~crashes, NEW s \in Requests
         PROVE  Linked(s)' <=> request'[s].status = "FULFILLED" \/ Fulfils(p, s)
      OBVIOUS
    <3>1. Linked(s) <=> request[s].status = "FULFILLED"
      BY <1>1 DEF Fulfils
    <3>2. CASE s = r
      BY <2>4, <2>5, <2>6, <3>2 DEF Linked, Sent, Fulfils
    <3>3. CASE s # r
      <4>1. s # Unset
        BY DEF SupplyAssumption
      <4>2. Linked(s)' <=> Linked(s)
        BY <1>2, <2>1, <2>4, <2>6, <3>3, <4>1 DEF Linked, Sent
      <4>. QED  BY <1>4, <3>1, <3>3, <4>2 DEF Fulfils
    <3>. QED  BY <3>2, <3>3
  <2>10. p \in Handler
    BY DEF Handler
  <2>11. StillTrue(p)'
    BY <1>2, <1>4 DEF StillTrue
  <2>12. NothingOwed' /\ onHand' \in [Depots -> Int]
    BY <1>4 DEF SupplyInv, SupplyTypeOK, NothingOwed
  <2>13. /\ place' \in [Depots -> {"NONE", "ACTIVE", "INACTIVE"}] /\ received' \in 0..MaxReceived
         /\ request' \in [Requests -> Request] /\ driver' = driver
    BY <1>4 DEF SupplyInv, SupplyTypeOK
  <2>. HIDE DEF p, given
  <2>. QED  BY <1>6, <2>6, <2>7, <2>8, <2>9, <2>10, <2>11, <2>12, <2>13, Goes
<1>. QED  BY <1>3, <1>5, <1>6
-----------------------------------------------------------------------------
(* What becomes of a transfer is read.                                     *)
LEMMA Moved ==
  ASSUME Serial, SupplyInv, NEW h \in Handlers, NEW t \in Transfers,
         NEW pc \in {"accepting", "returning", "assigning", "starting", "arriving"},
         NEW from \in SUBSET Open, NEW d \in Drivers \cup {Unset}, Moves(h, pc, t, from, d),
         pc \in {"assigning", "starting"} => from = {"SENT"}, pc = "arriving" => from = {"IN_TRANSIT"},
         pc = "returning" => from = {"SENT", "IN_TRANSIT"}
  PROVE  SupplyInv'
<1>. DEFINE q == [pc |-> pc, transfer |-> t, driver |-> d]
<1>1. Sent(t) /\ Loads(h, q) /\ transfer[t].status \in from
  BY DEF Moves, Sent, NoTransfer, Open
<1>2. q \in Handler /\ StillTrue(q) /\ q.pc # "fulfilling"
  BY <1>1 DEF Handler, StillTrue
<1>. HIDE DEF q
<1>. QED  BY <1>1, <1>2, Loading

(* A transfer is no longer SENT, and the stock it carries moves.           *)
LEMMA MovesOn ==
  ASSUME Serial, SupplyAssumption, SupplyInv, NEW h \in Handlers, handler[h].pc # "fulfilling",
         NEW t \in Transfers, Sent(t), NEW x \in TransferRow, transfer' = [transfer EXCEPT ![t] = x],
         x.request = transfer[t].request, x.status # "SENT", transfer[t].status # "CANCELLED",
         onHand' \in [Depots -> Int], NothingOwed', Back(x),
         Ends(h), UNCHANGED <<place, received, request, driver>>
  PROVE  SupplyInv'
<1>1. StillTrue(Idle)' /\ Idle.pc # "fulfilling"
  BY DEF StillTrue, Idle
<1>. QED  BY <1>1, IdleFits, TransferSet DEF Ends

(* Assigning, starting, arriving, accepting and rejecting.                 *)
LEMMA Travels ==
  ASSUME Serial, SupplyAssumption, SupplyInv, NEW h \in Handlers, Moving(h)
  PROVE  SupplyInv'
<1>1. ASSUME NEW t \in Transfers,
             \/ \E d \in Drivers : AssignLoad(h, t, d)
             \/ \E d \in Drivers \cup {Unset} : TripLoad(h, t, d)
             \/ ArriveLoad(h, t) \/ AcceptLoad(h, t) \/ RejectLoad(h, t)
      PROVE  SupplyInv'
  <2>1. {"SENT"} \in SUBSET Open /\ {"IN_TRANSIT"} \in SUBSET Open /\ Acceptable \in SUBSET Open
        /\ Rejectable \in SUBSET Open /\ Unset \in Drivers \cup {Unset}
        /\ Rejectable = {"SENT", "IN_TRANSIT"}
    BY DEF Open, Acceptable, Rejectable
  <2>. QED  BY <1>1, <2>1, Moved DEF AssignLoad, TripLoad, ArriveLoad, AcceptLoad, RejectLoad
<1>2. ASSUME AssignCommit(h) PROVE SupplyInv'
  <2>1. PICK q \in Handler : handler[h] = q /\ StillTrue(q) /\ q.pc = "assigning"
    BY <1>2, Read DEF AssignCommit, In
  <2>2. q.transfer \in Transfers /\ Sent(q.transfer) /\ q.driver \in Drivers \cup {Unset}
    BY <2>1, Held DEF StillTrue
  <2>3. /\ Becomes(h, Idle) /\ Assigned(q.transfer, q.driver) /\ UNCHANGED <<place, stock, request, driver>>
        /\ StillTrue(Idle)' /\ Idle.pc # "fulfilling" /\ handler[h].pc # "fulfilling"
    BY <1>2, <2>1 DEF AssignCommit, Ends, StillTrue, Idle
  <2>. QED  BY <2>2, <2>3, IdleFits, Assigns
<1>3. ASSUME TripCommit(h) PROVE SupplyInv'
  <2>1. PICK q \in Handler : handler[h] = q /\ StillTrue(q) /\ q.pc = "starting"
    BY <1>3, Read DEF TripCommit, In
  <2>2. PICK t \in Transfers : /\ t = q.transfer /\ Sent(t) /\ q.driver \in Drivers \cup {Unset}
                              /\ transfer[t].status # "CANCELLED"
    BY <2>1, Held DEF StillTrue
  <2>. DEFINE d == IF transfer[t].driver = Unset THEN q.driver ELSE transfer[t].driver
              x == [transfer[t] EXCEPT !.status = "IN_TRANSIT", !.driver = d]
  <2>3. /\ Ends(h) /\ UNCHANGED <<place, onHand, received, request, driver>>
        /\ transfer' = transfer
           \/ transfer' = [transfer EXCEPT ![t].status = "IN_TRANSIT", ![t].driver = d]
        /\ handler[h].pc # "fulfilling"
    BY <1>3, <2>1, <2>2 DEF TripCommit, stock
  <2>4. CASE transfer' = transfer
    <3>1. UNCHANGED rows /\ Becomes(h, Idle) /\ Idle.pc # "fulfilling"
      BY <2>3, <2>4 DEF rows, stock, Ends, Idle
    <3>. QED  BY <2>3, <3>1, IdleFits, Reading
  <2>5. CASE transfer' = [transfer EXCEPT ![t].status = "IN_TRANSIT", ![t].driver = d]
    <3>1. transfer[t] \in TransferRow
      BY <2>2, RowKinds DEF SupplyInv, SupplyTypeOK, Sent
    <3>2. d \in Drivers \cup {Unset}
      BY <2>2, <3>1 DEF TransferRow
    <3>3. transfer' = [transfer EXCEPT ![t] = x]
      BY <2>5
    <3>. HIDE DEF d
    <3>4. x \in TransferRow /\ x.request = transfer[t].request /\ x.status # "SENT"
      BY <3>1, <3>2 DEF TransferRow, Open
    <3>. HIDE DEF x
    <3>5. onHand' \in [Depots -> Int] /\ NothingOwed' /\ Back(x)
      BY <2>3 DEF SupplyInv, SupplyTypeOK, NothingOwed, Back
    <3>. QED  BY <2>2, <2>3, <3>3, <3>4, <3>5, MovesOn
  <2>. QED  BY <2>3, <2>4, <2>5
<1>4. ASSUME ArriveCommit(h) PROVE SupplyInv'
  <2>1. PICK q \in Handler : handler[h] = q /\ StillTrue(q) /\ q.pc = "arriving"
    BY <1>4, Read DEF ArriveCommit, In
  <2>2. PICK t \in Transfers : t = q.transfer /\ Sent(t) /\ transfer[t].status # "CANCELLED"
    BY <2>1, Held DEF StillTrue, Open
  <2>. DEFINE x == [transfer[t] EXCEPT !.status = "ARRIVED"]
  <2>3. /\ Ends(h) /\ UNCHANGED <<place, onHand, received, request, driver>>
        /\ transfer' = [transfer EXCEPT ![t] = x] /\ handler[h].pc # "fulfilling"
    BY <1>4, <2>1, <2>2 DEF ArriveCommit, SetTransfer, stock
  <2>4. transfer[t] \in TransferRow
    BY <2>2, RowKinds DEF SupplyInv, SupplyTypeOK, Sent
  <2>5. x \in TransferRow /\ x.request = transfer[t].request /\ x.status # "SENT"
    BY <2>4 DEF TransferRow, Open
  <2>. HIDE DEF x
  <2>6. onHand' \in [Depots -> Int] /\ NothingOwed' /\ Back(x)
    BY <2>3 DEF SupplyInv, SupplyTypeOK, NothingOwed, Back
  <2>. QED  BY <2>2, <2>3, <2>5, <2>6, MovesOn
<1>5. ASSUME NEW n \in 0..MaxReceived, AcceptCommit(h, n) PROVE SupplyInv'
  <2>1. PICK q \in Handler : handler[h] = q /\ StillTrue(q) /\ q.pc = "accepting"
    BY <1>5, Read DEF AcceptCommit, In
  <2>2. PICK t \in Transfers : t = q.transfer /\ Sent(t) /\ transfer[t].status # "CANCELLED"
    BY <2>1, Held DEF StillTrue, Open
  <2>. DEFINE x == [transfer[t] EXCEPT !.status = "RECEIVED", !.got = n]
              s == transfer[t].to
  <2>3. /\ Ends(h) /\ UNCHANGED <<place, received, request, driver>>
        /\ transfer' = [transfer EXCEPT ![t] = x] /\ handler[h].pc # "fulfilling"
        /\ onHand' = [onHand EXCEPT ![s] = onHand[s] + n]
    BY <1>5, <2>1, <2>2 DEF AcceptCommit, ApplyDelta
  <2>4. transfer[t] \in TransferRow /\ n \in Nat
    BY <2>2, RowKinds DEF SupplyInv, SupplyTypeOK, Sent, SupplyAssumption
  <2>5. x \in TransferRow /\ x.request = transfer[t].request /\ x.status # "SENT"
    BY <2>4 DEF TransferRow, Open
  <2>6. s \in Stores
    BY <2>4 DEF TransferRow
  <2>. HIDE DEF x, s
  <2>7. onHand' \in [Depots -> Int] /\ NothingOwed'
    BY <2>3, <2>4, <2>6 DEF SupplyInv, SupplyTypeOK, NothingOwed, Depots
  <2>8. Back(x)
    <3>1. \A m \in Mains : onHand'[m] = onHand[m]
      BY <2>3, <2>6 DEF SupplyAssumption, SupplyInv, SupplyTypeOK, Depots
    <3>. QED  BY <3>1 DEF Back
  <2>. QED  BY <2>2, <2>3, <2>5, <2>7, <2>8, MovesOn
<1>6. ASSUME RejectCommit(h) PROVE SupplyInv'
  <2>1. PICK q \in Handler : handler[h] = q /\ StillTrue(q) /\ q.pc = "returning"
    BY <1>6, Read DEF RejectCommit, In
  <2>2. PICK t \in Transfers : t = q.transfer /\ Sent(t) /\ transfer[t].status # "CANCELLED"
    BY <2>1, Held DEF StillTrue, Open
  <2>. DEFINE x == [transfer[t] EXCEPT !.status = "CANCELLED"]
              m == transfer[t].from
              n == transfer[t].sent
  <2>3. /\ Ends(h) /\ UNCHANGED <<place, received, request, driver>>
        /\ transfer' = [transfer EXCEPT ![t] = x] /\ handler[h].pc # "fulfilling"
        /\ onHand' = [onHand EXCEPT ![m] = onHand[m] + n]
    BY <1>6, <2>1, <2>2 DEF RejectCommit, SetTransfer, ApplyDelta
  <2>4. transfer[t] \in TransferRow
    BY <2>2, RowKinds DEF SupplyInv, SupplyTypeOK, Sent
  <2>5. x \in TransferRow /\ x.request = transfer[t].request /\ x.status # "SENT"
    BY <2>4 DEF TransferRow, Open
  <2>6. m \in Mains /\ n \in Nat /\ x.status = "CANCELLED" /\ x.from = m
    BY <2>4 DEF TransferRow
  <2>. HIDE DEF x, m, n
  <2>7. onHand' \in [Depots -> Int] /\ NothingOwed'
    BY <2>3, <2>6 DEF SupplyInv, SupplyTypeOK, NothingOwed, Depots
  <2>8. Back(x)
    <3>1. \A l \in Mains : l # m => onHand'[l] = onHand[l]
      BY <2>3 DEF SupplyInv, SupplyTypeOK, Depots
    <3>. QED  BY <2>6, <3>1 DEF Back
  <2>. QED  BY <2>2, <2>3, <2>5, <2>7, <2>8, MovesOn
<1>. QED  BY <1>1, <1>2, <1>3, <1>4, <1>5, <1>6 DEF Moving
-----------------------------------------------------------------------------
(* A chain without warehouse, transfers and requests.                      *)
LEMMA SetUp ==
  ASSUME SupplyAssumption
  PROVE  SupplyInit => SupplyInv
<1>. SUFFICES ASSUME SupplyInit PROVE SupplyInv
  OBVIOUS
<1>1. SupplyTypeOK
  BY IdleFits DEF SupplyInit, SupplyTypeOK, Transfer, Request, SupplyAssumption
<1>2. \A t \in Transfers : transfer[t] = NoTransfer /\ transfer[t].status = "NONE"
  BY DEF SupplyInit, NoTransfer
<1>3. \A r \in Requests : request[r].status = "NONE"
  BY DEF SupplyInit, NoRequest
<1>4. OffIsSettled /\ LinkedOnce
  BY <1>2, <1>3 DEF OffIsSettled, LinkedOnce, Sent, SupplyInit, Depots
<1>5. NothingOwed
  BY DEF SupplyInit, NothingOwed, Depots
<1>6. \A h \in Handlers : handler[h] = Idle
  BY DEF SupplyInit
<1>7. LinkedIsFulfilled
  BY <1>2, <1>3, <1>6, IdleFits DEF LinkedIsFulfilled, Linked, Sent
<1>8. ReadsHold
  BY <1>6, IdleFits DEF ReadsHold
<1>. QED  BY <1>1, <1>4, <1>5, <1>7, <1>8 DEF SupplyInv

(* Every step keeps the invariant.                                         *)
LEMMA SupplyKeeps ==
  ASSUME Serial, SupplyAssumption, SupplyInv, [SupplyNext]_supplyVars
  PROVE  SupplyInv'
<1>1. CASE UNCHANGED supplyVars
  <2>1. UNCHANGED rows /\ UNCHANGED <<handler, crashes>>
    BY <1>1 DEF supplyVars
  <2>2. SupplyTypeOK' /\ ReadsHold' /\ LinkedIsFulfilled'
    BY <2>1, Unwritten DEF SupplyInv, SupplyTypeOK, ReadsHold, LinkedIsFulfilled
  <2>. QED  BY <2>1, <2>2, Unwritten DEF SupplyInv
<1>2. ASSUME NEW h \in Handlers, Asking(h) PROVE SupplyInv'
  BY <1>2, Asks, Answers, Links DEF Asking
<1>3. ASSUME NEW h \in Handlers, Shipping(h) PROVE SupplyInv'
  BY <1>3, Sends, ChecksStock, PushesOn, Ships DEF Shipping
<1>4. ASSUME NEW h \in Handlers, Crash(h) PROVE SupplyInv'
  BY <1>4, IdleFits, Reading DEF Crash, Ends
<1>. QED
  BY <1>1, <1>2, <1>3, <1>4, Switches, Travels, Receives, DriversChange DEF SupplyNext

(* The inductive invariant holds.                                          *)
LEMMA SupplyInvHolds ==
  ASSUME Serial, SupplyAssumption
  PROVE  SupplySpec => []SupplyInv
<1>1. SupplyInv /\ [SupplyNext]_supplyVars => SupplyInv'
  BY SupplyKeeps
<1>. QED  BY <1>1, SetUp, PTL DEF SupplySpec

(* The tables of the supply chain hold rows of their types, and the        *)
(* warehouses send nothing they have not got (createAndSendTransfer).      *)
THEOREM NothingOwedHolds ==
  ASSUME Serial, SupplyAssumption
  PROVE  SupplySpec => [](SupplyTypeOK /\ NothingOwed)
<1>1. SupplyInv => SupplyTypeOK /\ NothingOwed
  BY DEF SupplyInv
<1>. QED  BY <1>1, SupplyInvHolds, PTL

(* A warehouse that was switched off has no transfer in SENT and no        *)
(* request without an answer, and its stock came back from a store         *)
(* (disableMainWarehouse, rejectTransfer), also when requests die half-way.*)
THEOREM OffIsSettledHolds ==
  ASSUME Serial, SupplyAssumption
  PROVE  SupplySpec => []OffIsSettled
<1>1. SupplyInv => OffIsSettled
  BY DEF SupplyInv
<1>. QED  BY <1>1, SupplyInvHolds, PTL

(* Unless a request dies half-way, a fulfilled supply request is shipped   *)
(* by exactly one transfer and a rejected one by none                      *)
(* (dispatchSupplyRequest, rejectSupplyRequest).                           *)
THEOREM ShipsOnceHolds ==
  ASSUME Serial, SupplyAssumption
  PROVE  SupplySpec => []ShipsOnce
<1>1. SupplyInv => ShipsOnce
  <2>. SUFFICES ASSUME SupplyInv, ~crashes, NEW r \in Requests
       PROVE  /\ request[r].status = "FULFILLED" => Cardinality(ShipmentsOf(r)) = 1
              /\ request[r].status = "REJECTED" => ShipmentsOf(r) = {}
    BY DEF ShipsOnce
  <2>1. \A t, u \in ShipmentsOf(r) : t = u
    BY DEF SupplyInv, LinkedOnce, Sent, ShipmentsOf, SupplyAssumption
  <2>2. Linked(r) <=> ShipmentsOf(r) # {}
    BY DEF Linked, Sent, ShipmentsOf
  <2>3. CASE request[r].status = "FULFILLED"
    <3>1. PICK t : ShipmentsOf(r) = {t}
      BY <2>1, <2>2, <2>3 DEF SupplyInv, LinkedIsFulfilled
    <3>. QED  BY <2>3, <3>1, FS_Singleton
  <2>4. CASE request[r].status = "REJECTED"
    <3>1. ASSUME NEW h \in Handlers PROVE ~Fulfils(handler[h], r)
      BY <2>4 DEF SupplyInv, SupplyTypeOK, ReadsHold, StillTrue, Fulfils, Dispatchable
    <3>. QED  BY <2>2, <2>4, <3>1 DEF SupplyInv, LinkedIsFulfilled
  <2>. QED  BY <2>3, <2>4
<1>. QED  BY <1>1, SupplyInvHolds, PTL
-----------------------------------------------------------------------------
(* What vendors delivered is on a shelf, on the road, or short: the first  *)
(* half of StockConserved.                                                 *)
Roads == [t \in Transfers |-> OnTheRoad(t)]
Shorts == [t \in Transfers |-> Short(t)]
Balanced == received = SumOf(onHand, Depots) + SumOf(Roads, Transfers) + SumOf(Shorts, Transfers)

LEMMA Amounts ==
  ASSUME SupplyTypeOK
  PROVE  Roads \in [Transfers -> Int] /\ Shorts \in [Transfers -> Int] /\ onHand \in [Depots -> Int]
<1>1. ASSUME NEW t \in Transfers PROVE OnTheRoad(t) \in Int /\ Short(t) \in Int
  <2>1. transfer[t] = NoTransfer \/ transfer[t] \in TransferRow
    BY RowKinds DEF SupplyTypeOK
  <2>. QED  BY <2>1 DEF OnTheRoad, Short, TransferRow, NoTransfer, Open
<1>. QED  BY <1>1 DEF Roads, Shorts, SupplyTypeOK

(* The same a step later.                                                  *)
LEMMA AmountsNext ==
  SupplyTypeOK' => (Roads \in [Transfers -> Int] /\ Shorts \in [Transfers -> Int])'
<1>1. SupplyTypeOK => Roads \in [Transfers -> Int] /\ Shorts \in [Transfers -> Int]
  BY Amounts
<1>. QED  BY <1>1, PTL

LEMMA DepotsFinite ==
  ASSUME SupplyAssumption
  PROVE  IsFiniteSet(Depots) /\ IsFiniteSet(Transfers)
  BY FS_Union DEF Depots, SupplyAssumption

(* The sums are those of the model.                                        *)
LEMMA SumsAre ==
  ASSUME SupplyAssumption, SupplyTypeOK
  PROVE  /\ Total(LAMBDA p : onHand[p], Depots) = SumOf(onHand, Depots)
         /\ Total(OnTheRoad, Transfers) = SumOf(Roads, Transfers)
         /\ Total(Short, Transfers) = SumOf(Shorts, Transfers)
<1>1. MapThenSumSet(LAMBDA p : onHand[p], Depots) = SumOf(onHand, Depots)
  BY DepotsFinite, Amounts, Unfolds
<1>2. MapThenSumSet(OnTheRoad, Transfers) = SumOf(Roads, Transfers)
  <2>. DEFINE G(g) == [s \in SUBSET Transfers |->
                        IF s = {} THEN 0 ELSE OnTheRoad(First(s)) + g[s \ {First(s)}]]
              it == CHOOSE g : g = G(g)
              g == Partial(Roads, Transfers)
  <2>1. MapThenSumSet(OnTheRoad, Transfers) = it[Transfers]
    BY DEF MapThenSumSet, MapThenFoldSet, First
  <2>2. \A s \in SUBSET Transfers : s # {} => Roads[First(s)] = OnTheRoad(First(s))
    BY FirstIn DEF Roads
  <2>3. IsSum(g, Roads, Transfers)
    BY DepotsFinite, Amounts, SumExists
  <2>4. g = G(g)
    <3>. HIDE DEF g
    <3>. QED  BY <2>2, <2>3 DEF IsSum, Adds
  <2>5. it = G(it)
    BY <2>4
  <2>. HIDE DEF it
  <2>6. Adds(it, Roads, Transfers)
    BY <2>2, <2>5 DEF Adds
  <2>. QED  BY <2>1, <2>6, DepotsFinite, Amounts, Folded
<1>3. MapThenSumSet(Short, Transfers) = SumOf(Shorts, Transfers)
  <2>. DEFINE G(g) == [s \in SUBSET Transfers |->
                        IF s = {} THEN 0 ELSE Short(First(s)) + g[s \ {First(s)}]]
              it == CHOOSE g : g = G(g)
              g == Partial(Shorts, Transfers)
  <2>1. MapThenSumSet(Short, Transfers) = it[Transfers]
    BY DEF MapThenSumSet, MapThenFoldSet, First
  <2>2. \A s \in SUBSET Transfers : s # {} => Shorts[First(s)] = Short(First(s))
    BY FirstIn DEF Shorts
  <2>3. IsSum(g, Shorts, Transfers)
    BY DepotsFinite, Amounts, SumExists
  <2>4. g = G(g)
    <3>. HIDE DEF g
    <3>. QED  BY <2>2, <2>3 DEF IsSum, Adds
  <2>5. it = G(it)
    BY <2>4
  <2>. HIDE DEF it
  <2>6. Adds(it, Shorts, Transfers)
    BY <2>2, <2>5 DEF Adds
  <2>. QED  BY <2>1, <2>6, DepotsFinite, Amounts, Folded
<1>. QED  BY <1>1, <1>2, <1>3 DEF Total

(* Stock comes to a place, or leaves it.                                   *)
LEMMA StockMoves ==
  ASSUME SupplyAssumption, SupplyTypeOK, NEW p \in Depots, NEW n \in Int,
         onHand' = [onHand EXCEPT ![p] = onHand[p] + n]
  PROVE  SumOf(onHand, Depots)' = SumOf(onHand, Depots) + n
<1>1. onHand \in [Depots -> Int] /\ onHand' \in [Depots -> Int] /\ onHand'[p] = onHand[p] + n
  BY DEF SupplyTypeOK
<1>2. \A x \in Depots \ {p} : onHand'[x] = onHand[x]
  OBVIOUS
<1>3. ASSUME NEW f \in [Depots -> Int], NEW e \in [Depots -> Int], \A x \in Depots \ {p} : e[x] = f[x]
      PROVE  SumOf(e, Depots) = SumOf(f, Depots) + e[p] - f[p]
  BY <1>3, DepotsFinite, SumChanges
<1>4. SumOf(onHand, Depots) \in Int
  BY <1>1, DepotsFinite, SumIsInt
<1>5. SumOf(onHand', Depots) = SumOf(onHand, Depots) + onHand'[p] - onHand[p]
  BY <1>1, <1>2, <1>3
<1>. QED  BY <1>1, <1>4, <1>5

(* A transfer is written.                                                  *)
LEMMA TransferMoves ==
  ASSUME SupplyAssumption, SupplyTypeOK, SupplyTypeOK', NEW t \in Transfers,
         \A u \in Transfers \ {t} : transfer'[u] = transfer[u]
  PROVE  /\ SumOf(Roads, Transfers)' = SumOf(Roads, Transfers) + OnTheRoad(t)' - OnTheRoad(t)
         /\ SumOf(Shorts, Transfers)' = SumOf(Shorts, Transfers) + Short(t)' - Short(t)
<1>1. Roads \in [Transfers -> Int] /\ Shorts \in [Transfers -> Int]
  BY Amounts
<1>2. Roads' \in [Transfers -> Int] /\ Shorts' \in [Transfers -> Int]
  BY AmountsNext
<1>3. \A u \in Transfers \ {t} : Roads'[u] = Roads[u] /\ Shorts'[u] = Shorts[u]
  BY DEF Roads, Shorts, OnTheRoad, Short
<1>4. /\ SumOf(Roads', Transfers) = SumOf(Roads, Transfers) + Roads'[t] - Roads[t]
      /\ SumOf(Shorts', Transfers) = SumOf(Shorts, Transfers) + Shorts'[t] - Shorts[t]
  BY <1>1, <1>2, <1>3, DepotsFinite, SumChanges
<1>5. /\ Roads'[t] = OnTheRoad(t)' /\ Roads[t] = OnTheRoad(t)
      /\ Shorts'[t] = Short(t)' /\ Shorts[t] = Short(t)
  BY DEF Roads, Shorts
<1>. QED  BY <1>4, <1>5

(* No stock moves, and a transfer goes on with what it carries.            *)
LEMMA Untouched ==
  ASSUME Balanced, UNCHANGED <<onHand, received, transfer>>
  PROVE  Balanced'
  BY DEF Balanced, Roads, Shorts, OnTheRoad, Short

LEMMA Carries ==
  ASSUME SupplyTypeOK, Balanced, UNCHANGED <<onHand, received>>,
         NEW t \in Transfers, NEW x, transfer' = [transfer EXCEPT ![t] = x],
         x.sent = transfer[t].sent, x.got = transfer[t].got,
         x.status = transfer[t].status \/ {x.status, transfer[t].status} \subseteq Open
  PROVE  Balanced'
<1>1. transfer'[t] = x /\ \A u \in Transfers : u # t => transfer'[u] = transfer[u]
  BY DEF SupplyTypeOK
<1>2. ASSUME NEW u \in Transfers PROVE OnTheRoad(u)' = OnTheRoad(u) /\ Short(u)' = Short(u)
  BY <1>1 DEF OnTheRoad, Short, Open
<1>3. Roads' = Roads /\ Shorts' = Shorts
  BY <1>2 DEF Roads, Shorts
<1>. QED  BY <1>3 DEF Balanced

(* Stock moves between a place and one transfer.                           *)
LEMMA Changes ==
  ASSUME SupplyAssumption, SupplyTypeOK, SupplyTypeOK', Balanced, NEW t \in Transfers,
         NEW x \in Transfer, transfer' = [transfer EXCEPT ![t] = x],
         NEW p \in Depots, NEW n \in Int, onHand' = [onHand EXCEPT ![p] = onHand[p] + n],
         received' = received,
         n + OnTheRoad(t)' + Short(t)' = OnTheRoad(t) + Short(t)
  PROVE  Balanced'
<1>1. \A u \in Transfers \ {t} : transfer'[u] = transfer[u]
  BY DEF SupplyTypeOK
<1>2. OnTheRoad(t) \in Int /\ Short(t) \in Int /\ OnTheRoad(t)' \in Int /\ Short(t)' \in Int
  <2>1. OnTheRoad(t) = Roads[t] /\ Short(t) = Shorts[t] /\ OnTheRoad(t)' = Roads'[t] /\ Short(t)' = Shorts'[t]
    BY DEF Roads, Shorts
  <2>2. Roads' \in [Transfers -> Int] /\ Shorts' \in [Transfers -> Int]
    BY AmountsNext
  <2>. QED  BY <2>1, <2>2, Amounts
<1>3. SumOf(onHand, Depots) \in Int /\ SumOf(Roads, Transfers) \in Int /\ SumOf(Shorts, Transfers) \in Int
  BY Amounts, DepotsFinite, SumIsInt
<1>4. SumOf(onHand, Depots)' = SumOf(onHand, Depots) + n
  BY StockMoves
<1>5. /\ SumOf(Roads, Transfers)' = SumOf(Roads, Transfers) + OnTheRoad(t)' - OnTheRoad(t)
      /\ SumOf(Shorts, Transfers)' = SumOf(Shorts, Transfers) + Short(t)' - Short(t)
  BY <1>1, TransferMoves
<1>. QED  BY <1>2, <1>3, <1>4, <1>5 DEF Balanced
-----------------------------------------------------------------------------
(* An empty chain is balanced.                                             *)
LEMMA BalancedAtFirst ==
  ASSUME SupplyAssumption, SupplyInit
  PROVE  Balanced
<1>1. IsFiniteSet(Depots) /\ IsFiniteSet(Transfers)
  BY DepotsFinite
<1>2. \A t \in Transfers : OnTheRoad(t) = 0 /\ Short(t) = 0
  BY DEF SupplyInit, OnTheRoad, Short, NoTransfer, Open
<1>3. /\ onHand \in [Depots -> Int] /\ \A p \in Depots : onHand[p] = 0
      /\ Roads \in [Transfers -> Int] /\ \A t \in Transfers : Roads[t] = 0
      /\ Shorts \in [Transfers -> Int] /\ \A t \in Transfers : Shorts[t] = 0
  BY <1>2 DEF SupplyInit, Roads, Shorts
<1>4. SumOf(onHand, Depots) = 0 /\ SumOf(Roads, Transfers) = 0 /\ SumOf(Shorts, Transfers) = 0
  BY <1>1, <1>3, SumOfNone
<1>. QED  BY <1>4 DEF Balanced, SupplyInit

(* A delivery comes.                                                       *)
LEMMA ReceivesBalanced ==
  ASSUME SupplyAssumption, SupplyTypeOK, Balanced, NEW p \in Depots, ReceiveAt(p, 1)
  PROVE  Balanced'
<1>1. onHand' = [onHand EXCEPT ![p] = onHand[p] + 1] /\ received' = received + 1 /\ transfer' = transfer
      /\ 1 \in Int
  BY DEF ReceiveAt, ApplyDelta
<1>2. SumOf(onHand, Depots)' = SumOf(onHand, Depots) + 1
  BY <1>1, StockMoves
<1>3. Roads' = Roads /\ Shorts' = Shorts
  BY <1>1 DEF Roads, Shorts, OnTheRoad, Short
<1>4. SumOf(onHand, Depots) \in Int /\ SumOf(Roads, Transfers) \in Int /\ SumOf(Shorts, Transfers) \in Int
  BY Amounts, DepotsFinite, SumIsInt
<1>. QED  BY <1>1, <1>2, <1>3, <1>4 DEF Balanced

(* A driver is written.                                                    *)
LEMMA DriversBalanced ==
  ASSUME SupplyInv, Balanced, NEW d \in Drivers,
         \/ CreateDriver(d) \/ DeleteDriver(d)
         \/ \E status \in {"ACTIVE", "INACTIVE"} : UpdateDriver(d, status)
  PROVE  Balanced'
<1>1. UNCHANGED <<onHand, received>>
  BY DEF CreateDriver, DeleteDriver, UpdateDriver, stock
<1>2. \/ transfer' = transfer
      \/ transfer' = [t \in Transfers |->
           IF transfer[t] # NoTransfer /\ transfer[t].driver = d
           THEN [transfer[t] EXCEPT !.driver = Unset] ELSE transfer[t]]
  BY DEF CreateDriver, DeleteDriver, UpdateDriver
<1>3. ASSUME NEW t \in Transfers PROVE OnTheRoad(t)' = OnTheRoad(t) /\ Short(t)' = Short(t)
  <2>1. transfer[t] = NoTransfer \/ transfer[t] \in TransferRow
    BY RowKinds DEF SupplyInv, SupplyTypeOK
  <2>2. CASE transfer'[t] = transfer[t]
    BY <2>2 DEF OnTheRoad, Short
  <2>3. CASE transfer[t] # NoTransfer /\ transfer'[t] = [transfer[t] EXCEPT !.driver = Unset]
    <3>. DEFINE r == [transfer[t] EXCEPT !.driver = Unset]
    <3>1. r.status = transfer[t].status /\ r.sent = transfer[t].sent /\ r.got = transfer[t].got
      BY <2>1, <2>3 DEF TransferRow
    <3>. HIDE DEF r
    <3>2. transfer'[t] = r
      BY <2>3 DEF r
    <3>. QED  BY <3>1, <3>2 DEF OnTheRoad, Short
  <2>. QED  BY <1>2, <2>2, <2>3
<1>4. Roads' = Roads /\ Shorts' = Shorts
  BY <1>3 DEF Roads, Shorts
<1>. QED  BY <1>1, <1>4 DEF Balanced

(* A transfer is assigned.                                                 *)
LEMMA AssignsBalanced ==
  ASSUME SupplyInv, Balanced, NEW t \in Transfers, Sent(t), NEW d, Assigned(t, d),
         UNCHANGED <<onHand, received>>
  PROVE  Balanced'
<1>1. CASE transfer' = transfer
  BY <1>1, Untouched
<1>2. CASE transfer' = [transfer EXCEPT ![t].driver = d]
  <2>. DEFINE x == [transfer[t] EXCEPT !.driver = d]
  <2>1. transfer[t] \in TransferRow
    BY RowKinds DEF SupplyInv, SupplyTypeOK, Sent
  <2>2. x.status = transfer[t].status /\ x.sent = transfer[t].sent /\ x.got = transfer[t].got
    BY <2>1 DEF TransferRow
  <2>3. transfer' = [transfer EXCEPT ![t] = x]
    BY <1>2
  <2>. HIDE DEF x
  <2>. QED  BY <2>2, <2>3, Carries DEF SupplyInv
<1>. QED  BY <1>1, <1>2 DEF Assigned

(* Requests are asked for, answered and linked.                            *)
LEMMA AsksBalanced ==
  ASSUME Serial, SupplyInv, Balanced, NEW h \in Handlers, Asking(h)
  PROVE  Balanced'
<1>1. ASSUME NEW status \in {"SENT", "IN_TRANSIT"}, LinkCommit(h, status) PROVE Balanced'
  <2>1. PICK q \in Handler : handler[h] = q /\ StillTrue(q) /\ q.pc = "linking"
    BY <1>1, Read DEF LinkCommit, In
  <2>2. PICK t \in Transfers : t = q.transfer /\ transfer[t].status = "SENT"
    BY <2>1, Held DEF StillTrue
  <2>. DEFINE given == q.driver # Unset /\ driver[q.driver] = "ACTIVE"
              d == IF given THEN q.driver ELSE transfer[t].driver
              st == IF given THEN status ELSE transfer[t].status
              x == [transfer[t] EXCEPT !.request = q.request, !.driver = d, !.status = st]
  <2>3. /\ UNCHANGED <<onHand, received>>
        /\ \/ transfer' = transfer
           \/ transfer' = [transfer EXCEPT ![t].request = q.request,
                ![t].driver = IF given THEN q.driver ELSE @, ![t].status = IF given THEN status ELSE @]
    BY <1>1, <2>1, <2>2 DEF LinkCommit, stock
  <2>4. CASE transfer' = transfer
    BY <2>3, <2>4, Untouched
  <2>5. CASE transfer' = [transfer EXCEPT ![t].request = q.request,
               ![t].driver = IF given THEN q.driver ELSE @, ![t].status = IF given THEN status ELSE @]
    <3>1. transfer[t] \in TransferRow
      BY <2>2, RowKinds DEF SupplyInv, SupplyTypeOK, NoTransfer
    <3>2. transfer' = [transfer EXCEPT ![t] = x]
      BY <2>5
    <3>3. st \in Open
      BY <2>2 DEF Open
    <3>. HIDE DEF given, d, st
    <3>4. x.status = st /\ x.sent = transfer[t].sent /\ x.got = transfer[t].got
      BY <3>1 DEF TransferRow
    <3>5. {x.status, transfer[t].status} \subseteq Open
      BY <2>2, <3>3, <3>4 DEF Open
    <3>. HIDE DEF x
    <3>. QED  BY <2>3, <3>2, <3>4, <3>5, Carries DEF SupplyInv
  <2>. QED  BY <2>3, <2>4, <2>5
<1>2. \/ UNCHANGED <<onHand, received, transfer>>
      \/ \E status \in {"SENT", "IN_TRANSIT"} : LinkCommit(h, status)
  BY DEF Asking, Submit, ApproveLoad, RejectRequestLoad, PrepareLoad, DispatchLoad, Decides, Loads,
         DecideCommit, FulfilCommit, rows, stock
<1>. QED  BY <1>1, <1>2, Untouched

(* Stock leaves the warehouse.                                             *)
LEMMA ShipsBalanced ==
  ASSUME Serial, SupplyAssumption, SupplyInv, SupplyInv', Balanced, NEW h \in Handlers, Shipping(h)
  PROVE  Balanced'
<1>1. ASSUME NEW t \in Transfers, ShipCommit(h, t) PROVE Balanced'
  <2>1. PICK q \in Handler : handler[h] = q /\ q.pc = "shipping"
    BY <1>1, Read DEF ShipCommit, In
  <2>2. /\ q.from \in Mains /\ q.to \in Stores /\ q.qty \in Nat
    BY <2>1, Held
  <2>. DEFINE x == [status |-> "SENT", from |-> q.from, to |-> q.to, sent |-> q.qty, got |-> 0,
                    request |-> Unset, driver |-> Unset]
              n == -q.qty
  <2>3. /\ transfer[t] = NoTransfer /\ transfer' = [transfer EXCEPT ![t] = x] /\ received' = received
        /\ onHand' = [onHand EXCEPT ![q.from] = onHand[q.from] + n]
    BY <1>1, <2>1 DEF ShipCommit, Shipped, ApplyDelta
  <2>4. x \in Transfer /\ x.status = "SENT" /\ x.sent = q.qty
    <3>1. x \in TransferRow
      BY <2>2 DEF TransferRow, Open
    <3>. QED  BY <3>1, RowKinds
  <2>5. q.from \in Depots /\ n \in Int
    BY <2>2 DEF Depots
  <2>. HIDE DEF x
  <2>6. transfer'[t] = x
    BY <2>3 DEF SupplyInv, SupplyTypeOK
  <2>7. n + OnTheRoad(t)' + Short(t)' = OnTheRoad(t) + Short(t)
    BY <2>2, <2>3, <2>4, <2>6 DEF OnTheRoad, Short, Open, NoTransfer
  <2>8. SupplyTypeOK /\ SupplyTypeOK'
    BY DEF SupplyInv
  <2>. HIDE DEF n
  <2>. QED  BY <2>3, <2>4, <2>5, <2>7, <2>8, Changes
<1>2. CASE PushNext(h)
  <2>1. PICK q \in Handler : handler[h] = q /\ StillTrue(q) /\ q.pc = "linking"
    BY <1>2, Read DEF PushNext, In
  <2>2. q.transfer \in Transfers /\ Sent(q.transfer)
    BY <2>1, Held DEF StillTrue, Sent, NoTransfer
  <2>3. Assigned(q.transfer, q.driver) /\ UNCHANGED <<onHand, received>>
    BY <1>2, <2>1 DEF PushNext, stock
  <2>. QED  BY <2>2, <2>3, AssignsBalanced
<1>3. \/ UNCHANGED <<onHand, received, transfer>>
      \/ PushNext(h) \/ \E t \in Transfers : ShipCommit(h, t)
  BY DEF Shipping, SendLoad, PushLoad, ShipCheck, Loads, rows, stock
<1>. QED  BY <1>1, <1>2, <1>3, Untouched

(* A transfer travels, is accepted or comes back.                          *)
LEMMA TravelsBalanced ==
  ASSUME Serial, SupplyAssumption, SupplyInv, SupplyInv', Balanced, NEW h \in Handlers, Moving(h)
  PROVE  Balanced'
<1>1. CASE AssignCommit(h)
  <2>1. PICK q \in Handler : handler[h] = q /\ StillTrue(q) /\ q.pc = "assigning"
    BY <1>1, Read DEF AssignCommit, In
  <2>2. q.transfer \in Transfers /\ Sent(q.transfer)
    BY <2>1, Held DEF StillTrue
  <2>3. Assigned(q.transfer, q.driver) /\ UNCHANGED <<onHand, received>>
    BY <1>1, <2>1 DEF AssignCommit, stock
  <2>. QED  BY <2>2, <2>3, AssignsBalanced
<1>2. CASE TripCommit(h) \/ ArriveCommit(h)
  <2>1. PICK q \in Handler : handler[h] = q /\ StillTrue(q) /\ q.pc \in {"starting", "arriving"}
    BY <1>2, Read DEF TripCommit, ArriveCommit, In
  <2>2. PICK t \in Transfers : t = q.transfer /\ transfer[t].status \in Open
    BY <2>1, Held DEF StillTrue, Open
  <2>3. transfer[t] \in TransferRow
    BY <2>2, RowKinds DEF SupplyInv, SupplyTypeOK, NoTransfer, Open
  <2>4. UNCHANGED <<onHand, received>>
    BY <1>2 DEF TripCommit, ArriveCommit, stock
  <2>5. ASSUME NEW st \in Open, NEW d, transfer' = [transfer EXCEPT ![t].status = st, ![t].driver = d]
        PROVE  Balanced'
    <3>. DEFINE x == [transfer[t] EXCEPT !.status = st, !.driver = d]
    <3>1. transfer' = [transfer EXCEPT ![t] = x]
      BY <2>5
    <3>2. x.status = st /\ x.sent = transfer[t].sent /\ x.got = transfer[t].got
      BY <2>3 DEF TransferRow
    <3>3. {x.status, transfer[t].status} \subseteq Open
      BY <2>2, <3>2
    <3>. HIDE DEF x
    <3>. QED  BY <2>4, <3>1, <3>2, <3>3, Carries DEF SupplyInv
  <2>6. CASE TripCommit(h)
    <3>1. \/ transfer' = transfer
          \/ \E d : transfer' = [transfer EXCEPT ![t].status = "IN_TRANSIT", ![t].driver = d]
      BY <2>1, <2>2, <2>6 DEF TripCommit
    <3>2. "IN_TRANSIT" \in Open
      BY DEF Open
    <3>. QED  BY <2>4, <2>5, <3>1, <3>2, Untouched
  <2>7. CASE ArriveCommit(h)
    <3>. DEFINE x == [transfer[t] EXCEPT !.status = "ARRIVED"]
    <3>1. transfer' = [transfer EXCEPT ![t] = x]
      BY <2>1, <2>2, <2>7 DEF ArriveCommit, SetTransfer
    <3>2. x.status = "ARRIVED" /\ x.sent = transfer[t].sent /\ x.got = transfer[t].got
      BY <2>3 DEF TransferRow
    <3>3. {x.status, transfer[t].status} \subseteq Open
      BY <2>2, <3>2 DEF Open
    <3>. HIDE DEF x
    <3>. QED  BY <2>4, <3>1, <3>2, <3>3, Carries DEF SupplyInv
  <2>. QED  BY <1>2, <2>6, <2>7
<1>3. ASSUME NEW n \in 0..MaxReceived, AcceptCommit(h, n) PROVE Balanced'
  <2>1. PICK q \in Handler : handler[h] = q /\ StillTrue(q) /\ q.pc = "accepting"
    BY <1>3, Read DEF AcceptCommit, In
  <2>2. PICK t \in Transfers : t = q.transfer /\ transfer[t].status \in Open
    BY <2>1, Held DEF StillTrue
  <2>3. transfer[t] \in TransferRow /\ n \in Nat /\ n \in Int
    BY <2>2, RowKinds DEF SupplyInv, SupplyTypeOK, NoTransfer, Open, SupplyAssumption
  <2>. DEFINE x == [transfer[t] EXCEPT !.status = "RECEIVED", !.got = n]
              s == transfer[t].to
  <2>4. /\ transfer' = [transfer EXCEPT ![t] = x] /\ received' = received
        /\ onHand' = [onHand EXCEPT ![s] = onHand[s] + n]
    BY <1>3, <2>1, <2>2 DEF AcceptCommit, ApplyDelta
  <2>5. x.status = "RECEIVED" /\ x.sent = transfer[t].sent /\ x.got = n /\ x \in TransferRow
    BY <2>3 DEF TransferRow, Open
  <2>6. s \in Depots /\ transfer[t].sent \in Nat
    BY <2>3 DEF TransferRow, Depots
  <2>. HIDE DEF x, s
  <2>7. transfer'[t] = x /\ x \in Transfer
    BY <2>4, <2>5, RowKinds DEF SupplyInv, SupplyTypeOK
  <2>8. n + OnTheRoad(t)' + Short(t)' = OnTheRoad(t) + Short(t)
    BY <2>2, <2>3, <2>5, <2>6, <2>7 DEF OnTheRoad, Short, Open
  <2>9. SupplyTypeOK /\ SupplyTypeOK'
    BY DEF SupplyInv
  <2>. QED  BY <2>3, <2>4, <2>6, <2>7, <2>8, <2>9, Changes
<1>4. CASE RejectCommit(h)
  <2>1. PICK q \in Handler : handler[h] = q /\ StillTrue(q) /\ q.pc = "returning"
    BY <1>4, Read DEF RejectCommit, In
  <2>2. PICK t \in Transfers : t = q.transfer /\ transfer[t].status \in Open
    BY <2>1, Held DEF StillTrue, Open
  <2>3. transfer[t] \in TransferRow
    BY <2>2, RowKinds DEF SupplyInv, SupplyTypeOK, NoTransfer, Open
  <2>. DEFINE x == [transfer[t] EXCEPT !.status = "CANCELLED"]
              m == transfer[t].from
              n == transfer[t].sent
  <2>4. /\ transfer' = [transfer EXCEPT ![t] = x] /\ received' = received
        /\ onHand' = [onHand EXCEPT ![m] = onHand[m] + n]
    BY <1>4, <2>1, <2>2 DEF RejectCommit, SetTransfer, ApplyDelta
  <2>5. x.status = "CANCELLED" /\ x \in TransferRow
    BY <2>3 DEF TransferRow, Open
  <2>6. m \in Depots /\ n \in Nat /\ n \in Int /\ n = transfer[t].sent
    BY <2>3 DEF TransferRow, Depots
  <2>. HIDE DEF x, m, n
  <2>7. transfer'[t] = x /\ x \in Transfer
    BY <2>4, <2>5, RowKinds DEF SupplyInv, SupplyTypeOK
  <2>8. n + OnTheRoad(t)' + Short(t)' = OnTheRoad(t) + Short(t)
    BY <2>2, <2>5, <2>6, <2>7 DEF OnTheRoad, Short, Open
  <2>9. SupplyTypeOK /\ SupplyTypeOK'
    BY DEF SupplyInv
  <2>. QED  BY <2>4, <2>6, <2>7, <2>8, <2>9, Changes
<1>5. \/ UNCHANGED <<onHand, received, transfer>>
      \/ AssignCommit(h) \/ TripCommit(h) \/ ArriveCommit(h) \/ RejectCommit(h)
      \/ \E n \in 0..MaxReceived : AcceptCommit(h, n)
  BY DEF Moving, AssignLoad, TripLoad, ArriveLoad, AcceptLoad, RejectLoad, Moves, Loads, rows, stock
<1>. QED  BY <1>1, <1>2, <1>3, <1>4, <1>5, Untouched

(* Every step keeps the balance.                                           *)
LEMMA BalanceKept ==
  ASSUME Serial, SupplyAssumption, SupplyInv, SupplyInv', Balanced, [SupplyNext]_supplyVars
  PROVE  Balanced'
<1>1. ASSUME NEW h \in Handlers, Warehouse(h) \/ Crash(h) PROVE Balanced'
  <2>1. UNCHANGED <<onHand, received, transfer>>
    BY <1>1 DEF Warehouse, EnableLoad, EnableCommit, DisableLoad, DisableCommit, Crash, Loads, rows, stock
  <2>. QED  BY <2>1, Untouched
<1>2. CASE UNCHANGED supplyVars
  BY <1>2, Untouched DEF supplyVars, rows, stock
<1>3. SupplyTypeOK
  BY DEF SupplyInv
<1>. QED
  BY <1>1, <1>2, <1>3, AsksBalanced, ShipsBalanced, TravelsBalanced, ReceivesBalanced, DriversBalanced
     DEF SupplyNext

(* What vendors delivered is on a shelf, on the road or written off as     *)
(* short, and the warehouses send nothing they have not got                *)
(* (createAndSendTransfer, acceptTransfer, rejectTransfer), also when      *)
(* requests die half-way.                                                  *)
THEOREM StockConservedHolds ==
  ASSUME Serial, SupplyAssumption
  PROVE  SupplySpec => []StockConserved
<1>1. SupplyInv /\ SupplyInv' /\ Balanced /\ [SupplyNext]_supplyVars => Balanced'
  BY BalanceKept
<1>2. SupplyInit => Balanced
  BY BalancedAtFirst
<1>3. SupplyInv /\ Balanced => StockConserved
  <2>. SUFFICES ASSUME SupplyInv, Balanced PROVE StockConserved
    OBVIOUS
  <2>1. /\ Total(LAMBDA p : onHand[p], Depots) = SumOf(onHand, Depots)
        /\ Total(OnTheRoad, Transfers) = SumOf(Roads, Transfers)
        /\ Total(Short, Transfers) = SumOf(Shorts, Transfers)
    BY SumsAre DEF SupplyInv
  <2>2. received = Total(LAMBDA p : onHand[p], Depots) + Total(OnTheRoad, Transfers)
                     + Total(Short, Transfers)
    BY <2>1 DEF Balanced
  <2>. QED  BY <2>2 DEF StockConserved, SupplyInv, NothingOwed
<1>. QED  BY <1>1, <1>2, <1>3, SupplyInvHolds, PTL DEF SupplySpec
-----------------------------------------------------------------------------
(* The stock rows have their types.                                        *)
StockTypes ==
  /\ shelf \in [Places \X Goods -> Int \cup {NULL}]
  /\ booked \in [Places \X Goods -> Int] /\ moves \in Nat
  /\ count \in {NoCount} \cup
       [status : {"DRAFT", "POSTED"}, snap : [Goods -> Int \cup {NULL}],
        counted : [Goods -> Nat \cup {NULL}], stale : BOOLEAN]
  /\ half \in {NULL} \cup [good : Goods, qty : Nat]
  /\ lapse \in BOOLEAN

(* A count under way that is not stale has the balances of now.            *)
SnapshotIsCurrent ==
  count.status = "DRAFT" /\ ~count.stale =>
    \A g \in Goods : count.snap[g] # NULL => count.snap[g] = OnHand(Store, g)

StockOK == StockTypes /\ BalanceIsBooked /\ SnapshotIsCurrent

(* Everything but the stock.                                               *)
RestOK ==
  /\ good \in [Goods -> Good] /\ tests \in Seq(Test)
  /\ line \in [Goods -> {NoLine} \cup [typed : Nat, qty : Nat, unit : Units]]
  /\ sold \in [Sales ->
       [status : {"NONE", "SOLD", "REVERSED"}, out : [Goods -> Nat], due : [Goods -> Nat]]]
  /\ unit \in Presence /\ pair \in Presence /\ category \in Presence /\ vendor \in Vendor

Inv == StockOK /\ RestOK
-----------------------------------------------------------------------------
(* What the invariant is for.                                              *)
LEMMA InvParts == Inv => TypeOK /\ BalanceIsBooked
  BY DEF Inv, StockOK, RestOK, StockTypes, TypeOK

(* Movements of one transaction, each of an integer quantity.              *)
LEMMA Movement ==
  ASSUME StockroomAssumption, StockOK,
         NEW D, DOMAIN D \subseteq Places \X Goods, \A x \in DOMAIN D : D[x] \in Int,
         Move(D)
  PROVE  StockOK'
<1>1. \A p \in Places, g \in Goods :
        /\ shelf'[<<p, g>>] = IF <<p, g>> \in DOMAIN D THEN OnHand(p, g) + D[<<p, g>>] ELSE shelf[<<p, g>>]
        /\ booked'[<<p, g>>] = booked[<<p, g>>] + (IF <<p, g>> \in DOMAIN D THEN D[<<p, g>>] ELSE 0)
  BY DEF Move, ApplyDeltas, Empty
<1>2. \A p \in Places, g \in Goods :
        OnHand(p, g) \in Int /\ booked[<<p, g>>] \in Int /\ shelf[<<p, g>>] \in Int \cup {NULL}
  BY DEF StockroomAssumption, StockOK, StockTypes, OnHand
<1>3. shelf' \in [Places \X Goods -> Int \cup {NULL}] /\ booked' \in [Places \X Goods -> Int]
  <2>1. /\ shelf' = [x \in Places \X Goods |-> shelf'[x]]
        /\ booked' = [x \in Places \X Goods |-> booked'[x]]
    BY DEF Move, ApplyDeltas
  <2>. QED  BY <1>1, <1>2, <2>1
<1>4. StockTypes'
  <2>1. count' \in {NoCount} \cup
          [status : {"DRAFT", "POSTED"}, snap : [Goods -> Int \cup {NULL}],
           counted : [Goods -> Nat \cup {NULL}], stale : BOOLEAN]
    <3>1. CASE count' = count
      BY <3>1 DEF StockOK, StockTypes
    <3>2. CASE count.status = "DRAFT" /\ count' = [count EXCEPT !.stale = TRUE]
      BY <3>2 DEF NoCount, StockOK, StockTypes
    <3>. QED  BY <3>1, <3>2 DEF Move, Unseen
  <2>. QED  BY <1>3, <2>1 DEF StockOK, StockTypes, Move, ApplyDeltas
<1>5. \A p \in Places, g \in Goods :
        OnHand(p, g)' = OnHand(p, g) + (IF <<p, g>> \in DOMAIN D THEN D[<<p, g>>] ELSE 0)
  <2>1. SUFFICES ASSUME NEW p \in Places, NEW g \in Goods
                 PROVE  OnHand(p, g)' = OnHand(p, g) + (IF <<p, g>> \in DOMAIN D THEN D[<<p, g>>] ELSE 0)
    OBVIOUS
  <2>2. CASE <<p, g>> \in DOMAIN D
    <3>1. shelf'[<<p, g>>] = OnHand(p, g) + D[<<p, g>>] /\ OnHand(p, g) + D[<<p, g>>] \in Int
      BY <2>2, <1>1, <1>2
    <3>. QED  BY <2>2, <3>1 DEF OnHand, StockroomAssumption
  <2>3. CASE <<p, g>> \notin DOMAIN D
    <3>1. shelf'[<<p, g>>] = shelf[<<p, g>>]
      BY <2>3, <1>1
    <3>. QED  BY <2>3, <3>1, <1>2 DEF OnHand
  <2>. QED  BY <2>2, <2>3
<1>6. BalanceIsBooked'
  <2>1. half = NULL /\ half' = NULL /\ lapse' = lapse
    BY DEF Move, ApplyDeltas
  <2>2. ASSUME ~lapse, NEW p \in Places, NEW g \in Goods
        PROVE  OnHand(p, g)' = booked'[<<p, g>>]
    <3>1. OnHand(p, g) = booked[<<p, g>>]
      BY <2>1, <2>2, <1>2 DEF StockOK, BalanceIsBooked
    <3>. QED  BY <3>1, <1>1, <1>2, <1>5
  <2>3. \A p \in Places, g \in Goods : booked'[<<p, g>>] \in Int /\ booked'[<<p, g>>] - 0 = booked'[<<p, g>>]
    BY <1>3
  <2>. QED  BY <2>1, <2>2, <2>3 DEF BalanceIsBooked
<1>7. SnapshotIsCurrent'
  <2>1. SUFFICES ASSUME count'.status = "DRAFT", ~count'.stale, NEW g \in Goods, count'.snap[g] # NULL
                 PROVE  count'.snap[g] = OnHand(Store, g)'
    BY DEF SnapshotIsCurrent
  <2>2. count' = count
    BY <2>1 DEF Move, Unseen
  <2>3. count.snap[g] = OnHand(Store, g)
    BY <2>1, <2>2 DEF StockOK, SnapshotIsCurrent
  <2>4. <<Store, g>> \in DOMAIN D => D[<<Store, g>>] = 0
    BY <2>1, <2>2 DEF Move, Unseen
  <2>5. <<Store, g>> \in Places \X Goods
    BY DEF Places
  <2>. QED  BY <2>2, <2>3, <2>4, <2>5, <1>2, <1>5
<1>. QED  BY <1>4, <1>6, <1>7 DEF StockOK

(* The stock does not change.                                              *)
LEMMA Still ==
  StockOK /\ UNCHANGED <<ledger, count, half, lapse>> => StockOK'
  BY DEF StockOK, StockTypes, ledger, BalanceIsBooked, SnapshotIsCurrent, OnHand

(* Nothing but the stock changes.                                          *)
LEMMA Rest ==
  RestOK /\ UNCHANGED <<good, tests, line, sold, listing>> => RestOK'
  BY DEF RestOK, listing

(* One movement of one ingredient.                                         *)
LEMMA MovingOne ==
  ASSUME StockroomAssumption, StockOK, NEW p \in Places, NEW g \in Goods, NEW n \in Int,
         Move(One(p, g, n))
  PROVE  StockOK'
<1>1. DOMAIN One(p, g, n) \subseteq Places \X Goods /\ \A x \in DOMAIN One(p, g, n) : One(p, g, n)[x] \in Int
  BY DEF One
<1>. QED  BY <1>1, Movement

(* A quantity times a factor or a yield is a quantity.                     *)
LEMMA Product == \A a, b \in Nat : a * b \in Nat
  OBVIOUS

(* A row of an ingredient stays one when a column changes.                 *)
LEMMA GoodRecord ==
  \A r \in Good :
    /\ \A s \in Presence : [r EXCEPT !.status = s] \in Good
    /\ \A p \in Places : [r EXCEPT !.home = p] \in Good
    /\ \A y \in {NULL, 1, 2} : [r EXCEPT !.yield = y] \in Good
    /\ [r EXCEPT !.category = FALSE] \in Good
  BY DEF Good

(* A yield is that of a test or none.                                      *)
LEMMA YieldOfTests ==
  ASSUME NEW ts \in Seq(Test), NEW g, NEW z \in LatestYield(ts, g)
  PROVE  z \in {NULL, 1, 2}
<1>1. \A i \in DOMAIN ts : ts[i] \in Test
  OBVIOUS
<1>. QED  BY <1>1 DEF LatestYield, Latest, TestsOf, Test

(* Deliveries, opening balances and waste.                                 *)
LEMMA StockingStep ==
  ASSUME StockroomAssumption, Inv, Stocking
  PROVE  Inv'
<1>. USE DEF Inv
<1>1. ASSUME NEW g \in Goods, NEW p \in Places, NEW n \in 0..1, CreateIngredient(g, p, n)
      PROVE  Inv'
  <2>1. StockOK'
    BY <1>1, MovingOne DEF CreateIngredient
  <2>2. RestOK'
    <3>1. good' \in [Goods -> Good]
      <4>1. [[good[g] EXCEPT !.status = "ACTIVE"] EXCEPT !.home = p] \in Good
        BY GoodRecord DEF RestOK, Presence
      <4>2. good' = [good EXCEPT ![g] = [[good[g] EXCEPT !.status = "ACTIVE"] EXCEPT !.home = p]]
        BY <1>1 DEF CreateIngredient, RestOK
      <4>. QED  BY <4>1, <4>2 DEF RestOK
    <3>. QED  BY <1>1, <3>1 DEF CreateIngredient, RestOK, listing
  <2>. QED  BY <2>1, <2>2
<1>2. ASSUME NEW g \in Goods, DeleteIngredient(g)
      PROVE  Inv'
  <2>1. StockOK'
    BY <1>2, Still DEF DeleteIngredient
  <2>2. RestOK'
    <3>1. good' \in [Goods -> Good]
      <4>1. [good[g] EXCEPT !.status = "INACTIVE"] \in Good
        BY GoodRecord DEF RestOK, Presence
      <4>2. good' = [good EXCEPT ![g] = [good[g] EXCEPT !.status = "INACTIVE"]]
        BY <1>2 DEF DeleteIngredient, RestOK
      <4>. QED  BY <4>1, <4>2 DEF RestOK
    <3>. QED  BY <1>2, <3>1 DEF DeleteIngredient, RestOK, listing
  <2>. QED  BY <2>1, <2>2
<1>3. ASSUME NEW g \in Goods, NEW p \in Places, NEW named \in BOOLEAN, Receive(p, g, 2, named)
      PROVE  Inv'
  <2>1. StockOK'
    BY <1>3, MovingOne DEF Receive
  <2>2. RestOK'
    BY <1>3 DEF Receive, RestOK, Vendor
  <2>. QED  BY <2>1, <2>2
<1>4. ASSUME NEW p \in Places, ReceiveBatch(p, 2)
      PROVE  Inv'
  <2>. DEFINE D == [x \in {p} \X Goods |-> 2]
  <2>1. DOMAIN D \subseteq Places \X Goods /\ \A x \in DOMAIN D : D[x] \in Int
    OBVIOUS
  <2>2. Move(D)
    BY <1>4 DEF ReceiveBatch
  <2>3. StockOK'
    <3>. HIDE DEF D
    <3>. QED  BY <2>1, <2>2, Movement
  <2>. QED  BY <1>4, <2>3, Rest DEF ReceiveBatch
<1>5. ASSUME NEW g \in Goods, WasteBalance(g, 1)
      PROVE  Inv'
  <2>1. /\ half = NULL /\ half' = [good |-> g, qty |-> 1] /\ booked' = booked /\ lapse' = lapse
        /\ shelf' = [shelf EXCEPT ![<<Store, g>>] = OnHand(Store, g) - 1]
        /\ moves' = moves
    BY <1>5 DEF WasteBalance
  <2>2. \A p \in Places, h \in Goods :
          OnHand(p, h) \in Int /\ booked[<<p, h>>] \in Int /\ <<p, h>> \in Places \X Goods
    BY DEF StockroomAssumption, StockOK, StockTypes, OnHand
  <2>3. Store \in Places /\ NULL \notin Int
    BY DEF Places, StockroomAssumption
  <2>4. \A p \in Places, h \in Goods :
          OnHand(p, h)' = OnHand(p, h) - (IF p = Store /\ h = g THEN 1 ELSE 0)
    <3>1. SUFFICES ASSUME NEW p \in Places, NEW h \in Goods
                   PROVE  OnHand(p, h)' = OnHand(p, h) - (IF p = Store /\ h = g THEN 1 ELSE 0)
      OBVIOUS
    <3>2. CASE p = Store /\ h = g
      <4>1. shelf'[<<p, h>>] = OnHand(p, h) - 1 /\ OnHand(p, h) - 1 \in Int
        BY <3>2, <2>1, <2>2 DEF StockOK, StockTypes
      <4>. QED  BY <3>2, <4>1, <2>3 DEF OnHand
    <3>3. CASE ~(p = Store /\ h = g)
      <4>1. shelf'[<<p, h>>] = shelf[<<p, h>>]
        BY <3>3, <2>1, <2>2 DEF StockOK, StockTypes
      <4>. QED  BY <3>3, <4>1, <2>2 DEF OnHand
    <3>. QED  BY <3>2, <3>3
  <2>5. StockTypes'
    <3>1. shelf' \in [Places \X Goods -> Int \cup {NULL}]
      BY <2>1, <2>2, <2>3 DEF StockOK, StockTypes
    <3>2. count' \in {NoCount} \cup
            [status : {"DRAFT", "POSTED"}, snap : [Goods -> Int \cup {NULL}],
             counted : [Goods -> Nat \cup {NULL}], stale : BOOLEAN]
      <4>1. CASE count' = count
        BY <4>1 DEF StockOK, StockTypes
      <4>2. CASE count.status = "DRAFT" /\ count' = [count EXCEPT !.stale = TRUE]
        BY <4>2 DEF NoCount, StockOK, StockTypes
      <4>. QED  BY <1>5, <4>1, <4>2 DEF WasteBalance, Unseen
    <3>3. half' \in {NULL} \cup [good : Goods, qty : Nat]
      BY <2>1
    <3>. QED  BY <2>1, <3>1, <3>2, <3>3 DEF StockOK, StockTypes
  <2>6. BalanceIsBooked'
    <3>1. ASSUME ~lapse, NEW p \in Places, NEW h \in Goods
          PROVE  OnHand(p, h)' = booked'[<<p, h>>] - (IF p = Store /\ h = g THEN 1 ELSE 0)
      <4>1. OnHand(p, h) = booked[<<p, h>>]
        BY <3>1, <2>1, <2>2 DEF StockOK, BalanceIsBooked
      <4>. QED  BY <4>1, <2>1, <2>2, <2>4
    <3>2. half' # NULL /\ half'.good = g /\ half'.qty = 1
      BY <2>1 DEF StockroomAssumption
    <3>. QED  BY <2>1, <3>1, <3>2 DEF BalanceIsBooked
  <2>7. SnapshotIsCurrent'
    <3>1. SUFFICES ASSUME count'.status = "DRAFT", ~count'.stale, NEW h \in Goods, count'.snap[h] # NULL
                   PROVE  count'.snap[h] = OnHand(Store, h)'
      BY DEF SnapshotIsCurrent
    <3>2. count' = count /\ h # g
      BY <3>1, <1>5 DEF WasteBalance, Unseen, One
    <3>3. count.snap[h] = OnHand(Store, h)
      BY <3>1, <3>2 DEF StockOK, SnapshotIsCurrent
    <3>4. OnHand(Store, h)' = OnHand(Store, h)
      <4>1. shelf'[<<Store, h>>] = shelf[<<Store, h>>]
        BY <3>2, <2>1, <2>2, <2>3 DEF StockOK, StockTypes
      <4>. QED  BY <4>1 DEF OnHand
    <3>. QED  BY <3>2, <3>3, <3>4
  <2>. QED  BY <1>5, <2>5, <2>6, <2>7, Rest DEF StockOK, WasteBalance
<1>6. ASSUME WasteEntry
      PROVE  Inv'
  <2>1. /\ half # NULL /\ half \in [good : Goods, qty : Nat] /\ half' = NULL
        /\ booked' = [booked EXCEPT ![<<Store, half.good>>] = @ - half.qty]
        /\ shelf' = shelf /\ lapse' = lapse /\ count' = count /\ moves' = moves + 1
    BY <1>6 DEF WasteEntry, StockOK, StockTypes
  <2>2. Store \in Places
    BY DEF Places
  <2>3. StockTypes'
    BY <2>1, <2>2 DEF StockOK, StockTypes
  <2>4. BalanceIsBooked'
    <3>1. ASSUME ~lapse, NEW p \in Places, NEW h \in Goods
          PROVE  OnHand(p, h)' = booked'[<<p, h>>] - 0
      <4>1. /\ OnHand(p, h)' = OnHand(p, h)
            /\ OnHand(p, h) = booked[<<p, h>>] - (IF p = Store /\ h = half.good THEN half.qty ELSE 0)
        BY <3>1, <2>1 DEF StockOK, BalanceIsBooked, OnHand
      <4>2. booked'[<<p, h>>] = booked[<<p, h>>] - (IF p = Store /\ h = half.good THEN half.qty ELSE 0)
        BY <2>1, <2>2 DEF StockOK, StockTypes
      <4>3. booked'[<<p, h>>] \in Int
        BY <2>3 DEF StockTypes
      <4>. QED  BY <4>1, <4>2, <4>3
    <3>. QED  BY <2>1, <3>1 DEF BalanceIsBooked
  <2>5. SnapshotIsCurrent'
    BY <2>1 DEF StockOK, SnapshotIsCurrent, OnHand
  <2>. QED  BY <1>6, <2>3, <2>4, <2>5, Rest DEF StockOK, WasteEntry
<1>7. ASSUME WasteFails
      PROVE  Inv'
  <2>1. lapse' /\ half' = NULL /\ UNCHANGED <<shelf, booked, moves, count>>
    BY <1>7 DEF WasteFails, ledger
  <2>2. StockOK'
    BY <1>7, <2>1 DEF WasteFails, StockOK, StockTypes, BalanceIsBooked, SnapshotIsCurrent, OnHand
  <2>. QED  BY <1>7, <2>2, Rest DEF WasteFails
<1>. QED  BY <1>1, <1>2, <1>3, <1>4, <1>5, <1>6, <1>7 DEF Stocking
-----------------------------------------------------------------------------
(* Physical counts.                                                        *)
LEMMA CountingStep ==
  ASSUME StockroomAssumption, Inv, Counting
  PROVE  Inv'
<1>. USE DEF Inv
<1>1. ASSUME NEW pick \in [Goods -> Places], StartCount(pick)
      PROVE  Inv'
  <2>. DEFINE counted == {g \in Goods : good[g].status = "ACTIVE" /\ good[g].home = Store}
              snap == [g \in Goods |-> IF g \in counted THEN shelf[<<pick[g], g>>] ELSE NULL]
  <2>1. /\ count' = [status |-> "DRAFT", snap |-> snap, counted |-> [g \in Goods |-> NULL],
                     stale |-> \E g \in counted : snap[g] # OnHand(Store, g)]
        /\ UNCHANGED <<ledger, half, lapse>>
    BY <1>1 DEF StartCount
  <2>2. snap \in [Goods -> Int \cup {NULL}]
    BY DEF StockOK, StockTypes
  <2>3. StockTypes'
    BY <2>1, <2>2 DEF StockOK, StockTypes, ledger
  <2>4. BalanceIsBooked'
    BY <2>1 DEF StockOK, BalanceIsBooked, OnHand, ledger
  <2>5. SnapshotIsCurrent'
    <3>1. SUFFICES ASSUME ~count'.stale, NEW g \in Goods, count'.snap[g] # NULL
                   PROVE  count'.snap[g] = OnHand(Store, g)'
      BY DEF SnapshotIsCurrent
    <3>2. OnHand(Store, g)' = OnHand(Store, g)
      BY <2>1 DEF OnHand, ledger
    <3>3. count'.snap[g] = snap[g] /\ g \in counted
      BY <2>1, <3>1
    <3>. QED  BY <2>1, <3>1, <3>2, <3>3
  <2>. QED  BY <1>1, <2>3, <2>4, <2>5, Rest DEF StockOK, StartCount
<1>2. ASSUME NEW g \in Goods, NEW n \in 0..2, CountLine(g, n)
      PROVE  Inv'
  <2>1. /\ count.status = "DRAFT" /\ count' = [count EXCEPT !.counted[g] = n]
        /\ UNCHANGED <<ledger, half, lapse>>
    BY <1>2 DEF CountLine
  <2>2. count \in [status : {"DRAFT", "POSTED"}, snap : [Goods -> Int \cup {NULL}],
                   counted : [Goods -> Nat \cup {NULL}], stale : BOOLEAN]
    BY <2>1 DEF StockOK, StockTypes, NoCount
  <2>3. [count.counted EXCEPT ![g] = n] \in [Goods -> Nat \cup {NULL}]
    BY <2>2
  <2>4. StockTypes'
    BY <2>1, <2>2, <2>3 DEF StockOK, StockTypes, ledger
  <2>5. BalanceIsBooked'
    BY <2>1 DEF StockOK, BalanceIsBooked, OnHand, ledger
  <2>6. SnapshotIsCurrent'
    BY <2>1, <2>2 DEF StockOK, SnapshotIsCurrent, OnHand, ledger
  <2>. QED  BY <1>2, <2>4, <2>5, <2>6, Rest DEF StockOK, CountLine
<1>3. ASSUME PostCount
      PROVE  Inv'
  <2>. DEFINE lines == {g \in Goods : count.snap[g] # NULL}
              off == {g \in lines : count.counted[g] # count.snap[g]}
  <2>1. /\ \A g \in lines : count.counted[g] # NULL
        /\ ApplyDeltas([x \in {Store} \X off |-> CountDelta(x[2])],
                       [x \in {Store} \X off |-> count.counted[x[2]]])
        /\ count.status = "DRAFT" /\ count' = [count EXCEPT !.status = "POSTED"] /\ half' = half
        /\ lapse' = (lapse \/ (count.stale /\ off # {}))
    BY <1>3 DEF PostCount
  <2>2. count \in [status : {"DRAFT", "POSTED"}, snap : [Goods -> Int \cup {NULL}],
                   counted : [Goods -> Nat \cup {NULL}], stale : BOOLEAN]
    BY <2>1 DEF StockOK, StockTypes, NoCount
  <2>3. \A p \in Places, g \in Goods :
          /\ shelf'[<<p, g>>] = IF p = Store /\ g \in off THEN count.counted[g] ELSE shelf[<<p, g>>]
          /\ booked'[<<p, g>>] = booked[<<p, g>>] + (IF p = Store /\ g \in off THEN CountDelta(g) ELSE 0)
    BY <2>1 DEF ApplyDeltas
  <2>4. \A g \in off : /\ count.counted[g] \in Int /\ count.snap[g] \in Int
                       /\ CountDelta(g) = count.counted[g] - count.snap[g]
    BY <2>1, <2>2 DEF CountDelta
  <2>5. \A p \in Places, g \in Goods :
          OnHand(p, g) \in Int /\ booked[<<p, g>>] \in Int /\ shelf[<<p, g>>] \in Int \cup {NULL}
    BY DEF StockroomAssumption, StockOK, StockTypes, OnHand
  <2>6. StockTypes'
    <3>1. shelf' \in [Places \X Goods -> Int \cup {NULL}] /\ booked' \in [Places \X Goods -> Int]
      <4>1. /\ shelf' = [x \in Places \X Goods |-> shelf'[x]]
            /\ booked' = [x \in Places \X Goods |-> booked'[x]]
        BY <2>1 DEF ApplyDeltas
      <4>. HIDE DEF off
      <4>. QED  BY <4>1, <2>3, <2>4, <2>5
    <3>2. lapse' \in BOOLEAN
      BY <2>1, <2>2 DEF StockOK, StockTypes
    <3>3. count' \in {NoCount} \cup
            [status : {"DRAFT", "POSTED"}, snap : [Goods -> Int \cup {NULL}],
             counted : [Goods -> Nat \cup {NULL}], stale : BOOLEAN]
      BY <2>1, <2>2
    <3>4. moves' \in Nat /\ half' \in {NULL} \cup [good : Goods, qty : Nat]
      BY <2>1 DEF StockOK, StockTypes, ApplyDeltas
    <3>. QED  BY <3>1, <3>2, <3>3, <3>4 DEF StockTypes
  <2>7. BalanceIsBooked'
    <3>1. half = NULL /\ half' = NULL
      BY <2>1 DEF ApplyDeltas
    <3>2. ASSUME ~lapse', NEW p \in Places, NEW g \in Goods
          PROVE  OnHand(p, g)' = booked'[<<p, g>>]
      <4>1. OnHand(p, g) = booked[<<p, g>>]
        <5>1. ~lapse
          BY <3>2, <2>1
        <5>. QED  BY <5>1, <3>1, <2>5 DEF StockOK, BalanceIsBooked
      <4>2. CASE p = Store /\ g \in off
        <5>1. count.snap[g] = OnHand(Store, g)
          BY <3>2, <4>2, <2>1 DEF StockOK, SnapshotIsCurrent
        <5>2. shelf'[<<p, g>>] = count.counted[g] /\ shelf'[<<p, g>>] # NULL
          BY <4>2, <2>1, <2>3
        <5>. HIDE DEF off
        <5>3. booked'[<<p, g>>] = count.counted[g]
          BY <4>1, <4>2, <5>1, <2>3, <2>4, <2>5
        <5>. QED  BY <5>2, <5>3 DEF OnHand
      <4>3. CASE ~(p = Store /\ g \in off)
        <5>1. shelf'[<<p, g>>] = shelf[<<p, g>>] /\ booked'[<<p, g>>] = booked[<<p, g>>]
          BY <4>3, <2>3, <2>5
        <5>. QED  BY <4>1, <5>1 DEF OnHand
      <4>. QED  BY <4>2, <4>3
    <3>3. \A p \in Places, g \in Goods : booked'[<<p, g>>] - 0 = booked'[<<p, g>>]
      BY <2>6 DEF StockTypes
    <3>. QED  BY <3>1, <3>2, <3>3 DEF BalanceIsBooked
  <2>8. SnapshotIsCurrent'
    BY <2>1, <2>2 DEF SnapshotIsCurrent
  <2>. QED  BY <1>3, <2>6, <2>7, <2>8, Rest DEF StockOK, PostCount
<1>. QED  BY <1>1, <1>2, <1>3 DEF Counting
-----------------------------------------------------------------------------
(* Yield tests, production, recipes, sales and their cancellation.         *)
LEMMA CookingStep ==
  ASSUME StockroomAssumption, Inv, Cooking
  PROVE  Inv'
<1>. USE DEF Inv
<1>1. ASSUME NEW g \in Goods, NEW p \in Places, NEW y \in {1, 2}, NEW off \in BOOLEAN,
             PostYieldTest(p, g, y, off)
      PROVE  Inv'
  <2>1. StockOK'
    <3>1. CASE off /\ y = 2
      BY <1>1, <3>1, MovingOne DEF PostYieldTest
    <3>2. CASE ~(off /\ y = 2)
      BY <1>1, <3>2, Still DEF PostYieldTest
    <3>. QED  BY <3>1, <3>2
  <2>2. good' \in [Goods -> Good] /\ tests' \in Seq(Test)
    <3>1. [good[g] EXCEPT !.yield = y] \in Good
      BY GoodRecord DEF RestOK
    <3>2. [good |-> g, yield |-> y] \in Test
      BY DEF Test
    <3>3. good' = [good EXCEPT ![g] = [good[g] EXCEPT !.yield = y]]
      BY <1>1 DEF PostYieldTest, RestOK
    <3>. QED  BY <1>1, <3>1, <3>2, <3>3 DEF PostYieldTest, RestOK
  <2>3. RestOK'
    BY <1>1, <2>2 DEF PostYieldTest, RestOK, listing
  <2>. QED  BY <2>1, <2>3
<1>2. ASSUME NEW i \in 1..MaxTests, i \in DOMAIN tests, tests' \in Seq(Test),
             NEW z \in LatestYield(tests', tests[i].good),
             good' = [good EXCEPT ![tests[i].good].yield = z],
             UNCHANGED <<ledger, line, sold, count, half, lapse, listing>>
      PROVE  Inv'
  <2>1. tests[i].good \in Goods /\ z \in {NULL, 1, 2}
    <3>1. tests[i] \in Test
      BY <1>2 DEF RestOK
    <3>2. z \in {NULL, 1, 2}
      <4>. DEFINE ts == tests'
                  g == tests[i].good
      <4>1. ts \in Seq(Test) /\ z \in LatestYield(ts, g)
        BY <1>2
      <4>. HIDE DEF ts, g
      <4>. QED  BY <4>1, YieldOfTests
    <3>. QED  BY <3>1, <3>2 DEF Test
  <2>2. good' \in [Goods -> Good]
    <3>1. [good[tests[i].good] EXCEPT !.yield = z] \in Good
      BY <2>1, GoodRecord DEF RestOK
    <3>2. good' = [good EXCEPT ![tests[i].good] = [good[tests[i].good] EXCEPT !.yield = z]]
      BY <1>2, <2>1 DEF RestOK
    <3>. QED  BY <2>1, <3>1, <3>2 DEF RestOK
  <2>3. RestOK'
    BY <1>2, <2>2 DEF RestOK, listing
  <2>. QED  BY <1>2, <2>3, Still
<1>3. ASSUME NEW i \in 1..MaxTests, NEW y \in {1, 2}, UpdateYieldTest(i, y)
      PROVE  Inv'
  <2>1. i \in DOMAIN tests /\ tests[i] \in Test
    BY <1>3 DEF UpdateYieldTest, RestOK
  <2>2. [tests[i] EXCEPT !.yield = y] \in Test
    BY <2>1 DEF Test
  <2>3. tests' = [tests EXCEPT ![i] = [tests[i] EXCEPT !.yield = y]]
    BY <1>3 DEF UpdateYieldTest
  <2>4. tests' \in Seq(Test)
    BY <2>1, <2>2, <2>3 DEF RestOK
  <2>. QED  BY <1>2, <1>3, <2>1, <2>4 DEF UpdateYieldTest
<1>4. ASSUME NEW i \in 1..MaxTests, DeleteYieldTest(i)
      PROVE  Inv'
  <2>1. i \in DOMAIN tests /\ tests' = SubSeq(tests, 1, i - 1) \o SubSeq(tests, i + 1, Len(tests))
    BY <1>4 DEF DeleteYieldTest, RemoveAt
  <2>2. tests' \in Seq(Test)
    BY <2>1 DEF RestOK
  <2>. QED  BY <1>2, <1>4, <2>1, <2>2 DEF DeleteYieldTest
<1>5. ASSUME NEW from \in Goods, NEW to \in Goods, NEW p \in Places, NEW y \in {1, 2},
             Produce(p, from, to, 1, y)
      PROVE  Inv'
  <2>. DEFINE D == [x \in {<<p, from>>, <<p, to>>} |-> IF x[2] = from THEN -(1 * y) ELSE 1]
  <2>1. DOMAIN D \subseteq Places \X Goods /\ \A x \in DOMAIN D : D[x] \in Int
    OBVIOUS
  <2>2. Move(D)
    BY <1>5 DEF Produce
  <2>3. StockOK'
    <3>. HIDE DEF D
    <3>. QED  BY <2>1, <2>2, Movement
  <2>4. good' \in [Goods -> Good]
    <3>1. [good[to] EXCEPT !.yield = y] \in Good
      BY GoodRecord DEF RestOK
    <3>2. good' = [good EXCEPT ![to] = [good[to] EXCEPT !.yield = y]]
      BY <1>5 DEF Produce, RestOK
    <3>. QED  BY <3>1, <3>2 DEF RestOK
  <2>5. RestOK'
    BY <1>5, <2>4 DEF Produce, RestOK, listing
  <2>. QED  BY <2>3, <2>5
<1>6. ASSUME NEW g \in Goods, NEW u \in Units, ReplaceRecipe(g, 1, u)
      PROVE  Inv'
  <2>1. ToBase(1, u) \in Nat
    BY <1>6 DEF ReplaceRecipe, ToBase, StockroomAssumption
  <2>2. line' \in [Goods -> {NoLine} \cup [typed : Nat, qty : Nat, unit : Units]]
    BY <1>6, <2>1 DEF ReplaceRecipe
  <2>3. RestOK'
    BY <1>6, <2>2 DEF ReplaceRecipe, RestOK, listing
  <2>. QED  BY <1>6, <2>3, Still DEF ReplaceRecipe
<1>7. ASSUME NEW o \in Sales, Sell(o)
      PROVE  Inv'
  <2>. DEFINE portion(g, n) == IF Uses(g) THEN ToBase(n, line[g].unit) * YieldOf(g) ELSE 0
              out == [g \in Goods |-> portion(g, IF Uses(g) THEN line[g].qty ELSE 0)]
              due == [g \in Goods |-> portion(g, IF Uses(g) THEN line[g].typed ELSE 0)]
              D == [x \in {Store} \X {g \in Goods : Uses(g)} |-> -out[x[2]]]
              row == [status |-> "SOLD", out |-> out, due |-> due]
  <2>1. /\ Move(D) /\ sold' = [sold EXCEPT ![o] = row]
        /\ \A g \in Goods : Uses(g) => ToBase(line[g].qty, line[g].unit) # NULL
        /\ UNCHANGED <<good, tests, line, listing>>
    BY <1>7 DEF Sell
  <2>2. \A g \in Goods : Uses(g) =>
          /\ ToBase(line[g].qty, line[g].unit) \in Nat /\ ToBase(line[g].typed, line[g].unit) \in Nat
    <3>1. SUFFICES ASSUME NEW g \in Goods, Uses(g)
                   PROVE  /\ ToBase(line[g].qty, line[g].unit) \in Nat
                          /\ ToBase(line[g].typed, line[g].unit) \in Nat
      OBVIOUS
    <3>2. line[g].qty \in Nat /\ line[g].typed \in Nat
      BY <3>1 DEF Uses, RestOK
    <3>3. line[g].unit = "base" \/ pair = "ACTIVE"
      BY <3>1, <2>1 DEF ToBase
    <3>4. Crate \in Nat
      BY DEF StockroomAssumption
    <3>. QED  BY <3>2, <3>3, <3>4, Product DEF ToBase
  <2>3. \A g \in Goods : YieldOf(g) \in Nat
    <3>1. SUFFICES ASSUME NEW g \in Goods PROVE YieldOf(g) \in Nat
      OBVIOUS
    <3>2. good[g] \in Good
      BY DEF RestOK
    <3>3. good[g].yield \in {NULL, 1, 2}
      BY <3>2 DEF Good
    <3>. QED  BY <3>3 DEF YieldOf
  <2>4. out \in [Goods -> Nat] /\ due \in [Goods -> Nat]
    BY <2>2, <2>3, Product
  <2>5. StockOK'
    <3>. HIDE DEF out
    <3>1. DOMAIN D \subseteq Places \X Goods /\ \A x \in DOMAIN D : D[x] \in Int
      BY <2>4 DEF Places
    <3>. HIDE DEF D
    <3>. QED  BY <2>1, <3>1, Movement
  <2>6. RestOK'
    <3>. HIDE DEF out, due
    <3>1. sold' \in [Sales ->
            [status : {"NONE", "SOLD", "REVERSED"}, out : [Goods -> Nat], due : [Goods -> Nat]]]
      BY <2>1, <2>4 DEF RestOK
    <3>. QED  BY <2>1, <3>1 DEF RestOK, listing
  <2>. QED  BY <2>5, <2>6
<1>8. ASSUME NEW o \in Sales, Cancel(o)
      PROVE  Inv'
  <2>. DEFINE taken == {g \in Goods : sold[o].out[g] # 0}
              D == [x \in {Store} \X taken |-> sold[o].out[x[2]]]
  <2>1. /\ Move(D) /\ sold[o].status = "SOLD" /\ UNCHANGED <<good, tests, line, listing>>
        /\ sold' = [sold EXCEPT ![o].status = "REVERSED"]
    BY <1>8 DEF Cancel
  <2>2. sold[o].out \in [Goods -> Nat]
    BY DEF RestOK
  <2>3. StockOK'
    <3>1. DOMAIN D \subseteq Places \X Goods /\ \A x \in DOMAIN D : D[x] \in Int
      BY <2>2 DEF Places
    <3>. HIDE DEF D
    <3>. QED  BY <2>1, <3>1, Movement
  <2>4. RestOK'
    <3>. DEFINE r == [sold[o] EXCEPT !.status = "REVERSED"]
    <3>0. r \in [status : {"NONE", "SOLD", "REVERSED"}, out : [Goods -> Nat],
                  due : [Goods -> Nat]]
      BY <2>2 DEF RestOK
    <3>1. sold' \in [Sales ->
            [status : {"NONE", "SOLD", "REVERSED"}, out : [Goods -> Nat], due : [Goods -> Nat]]]
      <4>1. sold' = [sold EXCEPT ![o] = r]
        BY <2>1 DEF RestOK
      <4>. HIDE DEF r
      <4>. QED  BY <3>0, <4>1 DEF RestOK
    <3>. HIDE DEF r
    <3>. QED  BY <2>1, <3>1 DEF RestOK, listing
  <2>. QED  BY <2>3, <2>4
<1>. QED  BY <1>1, <1>3, <1>4, <1>5, <1>6, <1>7, <1>8 DEF Cooking
-----------------------------------------------------------------------------
(* Units, conversions, categories, vendors and the rows of ingredients.    *)
LEMMA ListingStep ==
  ASSUME StockroomAssumption, Inv, Listing
  PROVE  Inv'
<1>. USE DEF Inv
<1>1. ASSUME good' \in [Goods -> Good],
             unit' \in Presence, pair' \in Presence, category' \in Presence, vendor' \in Vendor,
             UNCHANGED <<ledger, tests, line, sold, count, half, lapse>>
      PROVE  Inv'
  <2>1. RestOK'
    BY <1>1 DEF RestOK
  <2>. QED  BY <1>1, <2>1, Still
<1>2. /\ good \in [Goods -> Good]
      /\ unit \in Presence /\ pair \in Presence /\ category \in Presence /\ vendor \in Vendor
  BY DEF RestOK
<1>3. CASE SameStock /\ (CreateUnit \/ DeleteUnit \/ CreateConversion \/ DeleteConversion \/ CreateCategory)
  BY <1>1, <1>2, <1>3 DEF SameStock, CreateUnit, DeleteUnit, CreateConversion, DeleteConversion,
                          CreateCategory, Presence
<1>4. CASE SameStock /\ (CreateVendor \/ DeleteVendor)
  <2>1. vendor' \in Vendor
    <3>1. CASE CreateVendor
      BY <3>1 DEF CreateVendor, Vendor, Presence
    <3>2. CASE DeleteVendor
      <4>1. [vendor EXCEPT !.status = "NONE"] \in Vendor
        BY <1>2 DEF Vendor, Presence
      <4>. QED  BY <3>2, <4>1 DEF DeleteVendor
    <3>. QED  BY <1>4, <3>1, <3>2
  <2>. QED  BY <1>1, <1>2, <1>4, <2>1 DEF SameStock, CreateVendor, DeleteVendor
<1>5. ASSUME NEW s \in Presence \ {"NONE"}, SameStock,
             UpdateUnit(s) \/ UpdateConversion(s) \/ UpdateCategory(s) \/ UpdateVendor(s)
      PROVE  Inv'
  <2>1. vendor' \in Vendor
    BY <1>2, <1>5 DEF UpdateUnit, UpdateConversion, UpdateCategory, UpdateVendor, Vendor
  <2>. QED  BY <1>1, <1>2, <1>5, <2>1 DEF SameStock, UpdateUnit, UpdateConversion, UpdateCategory, UpdateVendor
<1>6. CASE DeleteCategory
  <2>1. good' \in [Goods -> Good]
    <3>1. \A g \in Goods : [good[g] EXCEPT !.category = FALSE] \in Good
      BY <1>2, GoodRecord
    <3>2. good' = [g \in Goods |-> [good[g] EXCEPT !.category = FALSE]]
      BY <1>6 DEF DeleteCategory
    <3>. QED  BY <3>1, <3>2
  <2>. QED  BY <1>1, <1>2, <1>6, <2>1 DEF DeleteCategory, Presence
<1>7. ASSUME NEW g \in Goods,
             NEW row \in [status : Presence, home : Places, yield : {NULL, 2}, category : BOOLEAN],
             UpdateIngredient(g, row)
      PROVE  Inv'
  <2>1. good' \in [Goods -> Good]
    <3>1. row \in Good
      BY DEF Good
    <3>. QED  BY <1>2, <1>7, <3>1 DEF UpdateIngredient
  <2>. QED  BY <1>1, <1>2, <1>7, <2>1 DEF UpdateIngredient, listing
<1>. QED  BY <1>3, <1>4, <1>5, <1>6, <1>7 DEF Listing
-----------------------------------------------------------------------------
(* The tables start empty.                                                 *)
LEMMA Start ==
  ASSUME StockroomAssumption, Init
  PROVE  Inv
<1>1. StockTypes
  <2>1. /\ shelf = [x \in Places \X Goods |-> NULL] /\ booked = [x \in Places \X Goods |-> 0]
        /\ moves = 0 /\ count = NoCount /\ half = NULL /\ lapse = FALSE
    BY DEF Init
  <2>2. shelf \in [Places \X Goods -> Int \cup {NULL}] /\ booked \in [Places \X Goods -> Int]
    BY <2>1
  <2>. QED  BY <2>1, <2>2 DEF StockTypes
<1>2. BalanceIsBooked
  BY DEF Init, BalanceIsBooked, OnHand, StockroomAssumption
<1>3. SnapshotIsCurrent
  BY DEF Init, SnapshotIsCurrent, NoCount
<1>4. RestOK
  BY DEF Init, RestOK, Good, Presence, Places, None, Vendor
<1>. QED  BY <1>1, <1>2, <1>3, <1>4 DEF Inv, StockOK

(* Every step of the stockroom, or none, keeps the invariant.              *)
LEMMA Step ==
  ASSUME StockroomAssumption, Inv, [Next]_vars
  PROVE  Inv'
<1>1. CASE UNCHANGED vars
  BY <1>1, Still, Rest DEF vars, Inv
<1>. QED  BY <1>1, StockingStep, CountingStep, CookingStep, ListingStep DEF Next

(* The invariant holds throughout.                                         *)
LEMMA Inductive == StockroomAssumption /\ Spec => []Inv
<1>. SUFFICES ASSUME StockroomAssumption PROVE Spec => []Inv
  OBVIOUS
<1>1. Init => Inv
  BY Start
<1>2. Inv /\ [Next]_vars => Inv'
  BY Step
<1>. QED  BY <1>1, <1>2, PTL DEF Spec

(* The inventory tables hold rows of their types: no operation, in any     *)
(* order, writes a missing quantity, yield or count where one is needed.   *)
THEOREM StockTyped ==
  ASSUME StockroomAssumption
  PROVE  Spec => []TypeOK
<1>1. Spec => []Inv
  BY Inductive
<1>2. Inv => TypeOK
  BY InvParts
<1>. QED  BY <1>1, <1>2, PTL

(* The balance of a shelf is the sum of its ledger (applyDelta), for any   *)
(* number of ingredients and movements, until a waste dies between its     *)
(* writes or a count is posted over stock that moved since its snapshot.   *)
THEOREM BalanceBooked ==
  ASSUME StockroomAssumption
  PROVE  Spec => []BalanceIsBooked
<1>1. Spec => []Inv
  BY Inductive
<1>2. Inv => BalanceIsBooked
  BY InvParts
<1>. QED  BY <1>1, <1>2, PTL
-----------------------------------------------------------------------------
(* A step of the store is one of the supply chain, or none, and one of the *)
(* stockroom, or none.                                                     *)
LEMMA Parts ==
  ASSUME StockroomAssumption, StoreNext
  PROVE  [SupplyNext]_supplyVars /\ [Next]_vars
<1>1. /\ Store \in Places /\ "base" \in Units /\ 0 \in 0..1 /\ 1 \in 0..1
      /\ {"ACTIVE", "INACTIVE"} \subseteq Presence \ {"NONE"}
  BY DEF Places, Units, Presence
<1>2. CASE subject = "supply" /\ SupplyNext /\ UNCHANGED vars
  BY <1>2
<1>3. CASE UNCHANGED supplyVars /\ (Stocking \/ Counting \/ Cooking \/ Listing)
  BY <1>3 DEF Next
<1>4. ASSUME NEW g \in Goods, UNCHANGED supplyVars,
             \/ ReplaceRecipe(g, 1, "base")
             \/ CreateIngredient(g, Store, 0) \/ CreateIngredient(g, Store, 1)
             \/ \E named \in BOOLEAN : Receive(Store, g, 2, named)
      PROVE  Next
  BY <1>1, <1>4 DEF Next, Stocking, Cooking
<1>5. ASSUME NEW o \in Sales, Sell(o) PROVE Next
  BY <1>5 DEF Next, Cooking
<1>6. ASSUME SameStock, CreateUnit \/ CreateConversion \/ \E s \in {"ACTIVE", "INACTIVE"} : UpdateConversion(s)
      PROVE  Next
  BY <1>1, <1>6 DEF Next, Listing
<1>. QED  BY <1>2, <1>3, <1>4, <1>5, <1>6 DEF StoreNext

(* The store of the runs behaves as supply chain and stockroom do: what is *)
(* proved of either holds while they take turns.                           *)
THEOREM StoreComposes ==
  ASSUME StockroomAssumption
  PROVE  StoreSpec => SupplySpec /\ Spec
<1>1. StoreInit => SupplyInit /\ Init
  BY DEF StoreInit
<1>2. [StoreNext]_<<subject, supplyVars, vars>> => [SupplyNext]_supplyVars /\ [Next]_vars
  BY Parts
<1>. QED  BY <1>1, <1>2, PTL DEF StoreSpec, SupplySpec, Spec

(* All tables of the store keep their types while supply chain and         *)
(* stockroom take turns, for any number of both: no request and no         *)
(* operation, crashed or not, writes a row of another kind.                *)
THEOREM StoreTyped ==
  ASSUME Serial, SupplyAssumption, StockroomAssumption
  PROVE  StoreSpec => []TypesOK
<1>1. SupplyTypeOK /\ NothingOwed /\ TypeOK => TypesOK
  BY DEF TypesOK
<1>. QED  BY <1>1, StoreComposes, NothingOwedHolds, StockTyped, PTL
=============================================================================
