------------------------------ MODULE Tickets ------------------------------
(***************************************************************************)
(* The tickets of one table: order items as waiters, kitchen stations and  *)
(* managers move them along (src/orders/orders.service.ts,                 *)
(* src/orders/order-item-mutations.service.ts,                             *)
(* src/stations/stations.service.ts), with the approvals of cancellations  *)
(* and changes, the recipe stock a ticket takes and gives back, and the    *)
(* status of the table's session.                                          *)
(*                                                                         *)
(* A handler reads the ticket, compares state and version, and then writes *)
(* by id.  It holds what it read in handler[h].  The version is compared   *)
(* with what the client last saw, which is free to be current: it is the   *)
(* state check that restricts.  With one handler the requests run one      *)
(* after the other; with two they overlap.                                 *)
(***************************************************************************)
EXTENDS Naturals, FiniteSets

CONSTANTS Items,      \* order items of the table
          Approvals,  \* ids of cancellation_requests and order_change_requests
          Handlers,   \* HTTP requests being handled at the same time
          Dishes,     \* menu items
          QuickServe, \* the station's workflowMode is QUICK_SERVE
          Migrated,   \* the database has the CHECKs and partial unique indexes
          MayCrash,   \* whether the process may stop between two transactions
          NULL        \* the SQL null

ASSUME TicketsAssumption ==
  /\ QuickServe \in BOOLEAN /\ Migrated \in BOOLEAN /\ MayCrash \in BOOLEAN
  /\ NULL \notin Approvals \cup Dishes

VARIABLES
  item,      \* table order_items
  approval,  \* tables cancellation_requests and order_change_requests
  stock,     \* SALE_DEPLETE and REVERSAL rows of each item in the stock ledger
  plate,     \* the dish a station has made for the item, outside the program
  session,   \* table_sessions.status
  handler    \* the requests in flight, with what each has read

vars == <<item, approval, stock, plate, session, handler>>
-----------------------------------------------------------------------------
State == {"CONFIRMED", "QUEUED", "ACKNOWLEDGED", "IN_PREPARATION", "READY", "SERVED",
          "CANCELLATION_REQUESTED", "CHANGE_REQUESTED", "CANCELLED", "CANNOT_PREPARE"}

(* ck_order_items__state, without the states no code writes.               *)
ItemStateCheck == State \ {"CANNOT_PREPARE"}

DirectCancel == {"CONFIRMED", "QUEUED", "ACKNOWLEDGED"}
DirectChange == {"QUEUED", "ACKNOWLEDGED"}
Protected == {"IN_PREPARATION", "READY"}
ActiveCooking == {"QUEUED", "ACKNOWLEDGED", "IN_PREPARATION"}
OpenKitchen == ActiveCooking \cup {"CONFIRMED", "READY", "CANNOT_PREPARE"}

Kind == {"CANCELLATION", "CHANGE"}
Parked(kind) == IF kind = "CANCELLATION" THEN "CANCELLATION_REQUESTED" ELSE "CHANGE_REQUESTED"

NoItem == [state |-> "NONE", cancelled |-> FALSE, dish |-> NULL]
Item == {NoItem} \cup [state : State, cancelled : BOOLEAN, dish : Dishes]

(* "change" is the dish asked for, or NULL when only the instruction is.   *)
NoApproval == [status |-> "NONE"]
Approval == {NoApproval} \cup
  [status : {"PENDING", "APPROVED", "REJECTED", "APPLIED"}, kind : Kind, item : Items,
   stateAt : Protected \cup DirectChange, change : Dishes \cup {NULL}]

(* What a handler has read, by the method it is in.                        *)
Idle == [pc |-> "idle"]
Ordering == [pc : {"ordering"}, by : {"WAITER", "GUEST"}]
Moving == [pc : {"moving"}, item : Items, dish : Dishes,
           to : {"ACKNOWLEDGED", "IN_PREPARATION", "READY", "SERVED"}]
Reporting == [pc : {"reporting"}, item : Items]
Cancelling == [pc : {"cancelling"}, items : SUBSET Items, row : Approvals \cup {NULL}]
Counted == [pc : {"counted"}, items : SUBSET Items, row : Approvals \cup {NULL}, last : BOOLEAN]
Asking == [pc : {"asking"}, kind : Kind, item : Items, stateAt : Protected,
           change : Dishes \cup {NULL}]
Deciding == [pc : {"rejecting", "marking"}, row : Approvals]
Changing == [pc : {"changing"}, item : Items, stateAt : State, change : Dishes \cup {NULL},
             row : Approvals \cup {NULL}]

Handler ==
  {Idle, [pc |-> "sending"]} \cup Ordering \cup Moving \cup Reporting \cup Cancelling
    \cup Counted \cup Asking \cup Deciding
    \cup {q \in Changing : q.row = NULL => q.stateAt \in DirectChange}

(* The tables hold rows of their types, and handlers what they have read.  *)
TypeOK ==
  /\ item \in [Items -> Item]
  /\ approval \in [Approvals -> Approval]
  /\ stock \in [Items -> [depleted : Nat, reversed : Nat]]
  /\ plate \in [Items -> Dishes \cup {NULL}]
  /\ session \in {"OPEN", "ACTIVE_ORDER"}
  /\ handler \in [Handlers -> Handler]

Init ==
  /\ item = [i \in Items |-> NoItem]
  /\ approval = [a \in Approvals |-> NoApproval]
  /\ stock = [i \in Items |-> [depleted |-> 0, reversed |-> 0]]
  /\ plate = [i \in Items |-> NULL]
  /\ session = "OPEN"
  /\ handler = [h \in Handlers |-> Idle]
-----------------------------------------------------------------------------
Loads(h, q) == handler[h] = Idle /\ handler' = [handler EXCEPT ![h] = q]
Ends(h) == handler' = [handler EXCEPT ![h] = Idle]

(* The rows a cancelling transaction has updated and not yet committed.    *)
Locked(i) == \E h \in Handlers : handler[h].pc = "counted" /\ i \in handler[h].items
RowLocked(a) == \E h \in Handlers : handler[h].pc = "counted" /\ a = handler[h].row

Chargeable(i) == ~item[i].cancelled /\ item[i].state \notin {"NONE", "CANCELLED"}

Pending(a) == approval[a].status = "PENDING"
HasPending(kind, i) ==
  \E a \in Approvals : Pending(a) /\ approval[a].kind = kind /\ approval[a].item = i

SetState(i, s) == item' = [item EXCEPT ![i].state = s]

(* Mutant: stock is given back whether or not it was before.               *)
ReverseAgain(cancelled) ==
  [i \in Items |-> IF i \in cancelled
                   THEN [stock[i] EXCEPT !.reversed = @ + stock[i].depleted] ELSE stock[i]]

(* reverseForOrderItem: nothing to give back, or given back already, or    *)
(* one REVERSAL for each SALE_DEPLETE.                                     *)
Reverse(cancelled) ==
  [i \in Items |-> IF i \in cancelled /\ stock[i].reversed = 0
                   THEN [stock[i] EXCEPT !.reversed = stock[i].depleted] ELSE stock[i]]
-----------------------------------------------------------------------------
(* confirmOrder by a waiter and submitGuestOrder by a QR code: the          *)
(* session is found orderable, ..                                          *)
OrderLoad(h, by) ==
  /\ \E i \in Items : item[i] = NoItem
  /\ Loads(h, [pc |-> "ordering", by |-> by])
  /\ UNCHANGED <<item, approval, stock, plate, session>>

(* .. and the items are queued, or left for the waiter to send.  A guest's *)
(* order takes nothing from stock.                                         *)
OrderCommit(h, new, d, autoSendToKitchen) ==
  LET by == handler[h].by IN
  /\ handler[h].pc = "ordering"
  /\ new # {} /\ \A i \in new : item[i] = NoItem
  /\ by = "WAITER" => autoSendToKitchen
  /\ item' = [i \in Items |->
       IF i \in new
       THEN [NoItem EXCEPT !.state = IF autoSendToKitchen THEN "QUEUED" ELSE "CONFIRMED",
                           !.dish = d]
       ELSE item[i]]
  /\ stock' = [i \in Items |-> IF i \in new /\ by = "WAITER"
                               THEN [stock[i] EXCEPT !.depleted = 1] ELSE stock[i]]
  /\ session' = "ACTIVE_ORDER"
  /\ Ends(h)
  /\ UNCHANGED <<approval, plate>>

SendToKitchenLoad(h) ==
  /\ \E i \in Items : item[i].state = "CONFIRMED" /\ ~item[i].cancelled
  /\ Loads(h, [pc |-> "sending"])
  /\ UNCHANGED <<item, approval, stock, plate, session>>

(* sendToKitchen: the items are filtered anew, the session is not.         *)
SendToKitchenCommit(h) ==
  /\ handler[h].pc = "sending"
  /\ \A i \in Items : item[i].state = "CONFIRMED" => ~Locked(i)
  /\ item' = [i \in Items |-> IF item[i].state = "CONFIRMED" /\ ~item[i].cancelled
                              THEN [item[i] EXCEPT !.state = "QUEUED"] ELSE item[i]]
  /\ session' = "ACTIVE_ORDER"
  /\ Ends(h)
  /\ UNCHANGED <<approval, stock, plate>>
-----------------------------------------------------------------------------
(* Mutant: a ticket is served that is still being prepared.                *)
MovesServedEarly ==
  {<<"QUEUED", "ACKNOWLEDGED">>, <<"QUEUED", "IN_PREPARATION">>,
   <<"ACKNOWLEDGED", "IN_PREPARATION">>, <<"IN_PREPARATION", "READY">>, <<"READY", "SERVED">>,
   <<"IN_PREPARATION", "SERVED">>}

(* acknowledge, startPreparation, markReady and markServed: from where to  *)
(* where they move a ticket.                                               *)
Moves ==
  {<<"QUEUED", "ACKNOWLEDGED">>, <<"QUEUED", "IN_PREPARATION">>,
   <<"ACKNOWLEDGED", "IN_PREPARATION">>, <<"IN_PREPARATION", "READY">>, <<"READY", "SERVED">>}
  \cup (IF QuickServe THEN {<<"QUEUED", "READY">>, <<"ACKNOWLEDGED", "READY">>} ELSE {})

MoveLoad(h, i, to) ==
  /\ <<item[i].state, to>> \in Moves
  /\ Loads(h, [pc |-> "moving", item |-> i, to |-> to, dish |-> item[i].dish])
  /\ UNCHANGED <<item, approval, stock, plate, session>>

(* The dish made is the one the ticket showed when it was marked ready.    *)
MoveCommit(h) ==
  LET q == handler[h] IN
  /\ q.pc = "moving"
  /\ ~Locked(q.item)
  /\ SetState(q.item, q.to)
  /\ plate' = IF q.to = "READY" THEN [plate EXCEPT ![q.item] = q.dish] ELSE plate
  /\ Ends(h)
  /\ UNCHANGED <<approval, stock, session>>

(* reportCannotPrepare.                                                    *)
ReportLoad(h, i) ==
  /\ item[i].state \in ActiveCooking
  /\ Loads(h, [pc |-> "reporting", item |-> i])
  /\ UNCHANGED <<item, approval, stock, plate, session>>

ReportCommit(h) ==
  LET q == handler[h] IN
  /\ q.pc = "reporting"
  /\ ~Locked(q.item)
  /\ Migrated => "CANNOT_PREPARE" \in ItemStateCheck
  /\ SetState(q.item, "CANNOT_PREPARE")
  /\ Ends(h)
  /\ UNCHANGED <<approval, stock, plate, session>>
-----------------------------------------------------------------------------
(* directCancel (and requestCancellation of a ticket not yet started).     *)
DirectCancelLoad(h, i) ==
  /\ item[i].state \in DirectCancel
  /\ Loads(h, [pc |-> "cancelling", items |-> {i}, row |-> NULL])
  /\ UNCHANGED <<item, approval, stock, plate, session>>

(* forceCancel by a manager: any ticket that is not served or cancelled.   *)
(* Pending approvals of the ticket stay as they are.                       *)
ForceCancelLoad(h, i) ==
  /\ item[i].state \notin {"NONE", "CANCELLED", "SERVED"} /\ ~item[i].cancelled
  /\ Loads(h, [pc |-> "cancelling", items |-> {i}, row |-> NULL])
  /\ UNCHANGED <<item, approval, stock, plate, session>>

(* abandonOpenKitchenTickets, when the manager locks the business day.     *)
AbandonLoad(h) ==
  LET open == {i \in Items : ~item[i].cancelled /\ item[i].state \in OpenKitchen} IN
  /\ open # {}
  /\ Loads(h, [pc |-> "cancelling", items |-> open, row |-> NULL])
  /\ UNCHANGED <<item, approval, stock, plate, session>>

(* approveCancellation.                                                    *)
ApproveCancellationLoad(h, a) ==
  /\ Pending(a) /\ approval[a].kind = "CANCELLATION"
  /\ Loads(h, [pc |-> "cancelling", items |-> {approval[a].item}, row |-> a])
  /\ UNCHANGED <<item, approval, stock, plate, session>>

(* Mutant: the ticket being cancelled counts as remaining.                 *)
CancelCountsItself(h) ==
  LET q == handler[h] IN
  /\ q.pc = "cancelling"
  /\ \A i \in q.items : ~Locked(i)
  /\ q.row # NULL => ~RowLocked(q.row)
  /\ handler' = [handler EXCEPT ![h] =
       [pc |-> "counted", items |-> q.items, row |-> q.row,
        last |-> \A i \in Items : ~Chargeable(i)]]
  /\ UNCHANGED <<item, approval, stock, plate, session>>

(* The cancelling transaction locks its tickets by updating them, and      *)
(* counts the others as the last commit left them: READ COMMITTED.         *)
CancelCounts(h) ==
  LET q == handler[h] IN
  /\ q.pc = "cancelling"
  /\ \A i \in q.items : ~Locked(i)
  /\ q.row # NULL => ~RowLocked(q.row)
  /\ handler' = [handler EXCEPT ![h] =
       [pc |-> "counted", items |-> q.items, row |-> q.row,
        last |-> \A i \in Items \ q.items : ~Chargeable(i)]]
  /\ UNCHANGED <<item, approval, stock, plate, session>>

CancelCommit(h) ==
  LET q == handler[h] IN
  /\ q.pc = "counted"
  /\ item' = [i \in Items |-> IF i \in q.items
                              THEN [item[i] EXCEPT !.state = "CANCELLED", !.cancelled = TRUE]
                              ELSE item[i]]
  /\ stock' = Reverse(q.items)
  /\ approval' = IF q.row = NULL THEN approval
                 ELSE [approval EXCEPT ![q.row].status = "APPROVED"]
  /\ session' = IF q.last THEN "OPEN" ELSE session
  /\ Ends(h)
  /\ UNCHANGED plate
-----------------------------------------------------------------------------
(* Mutant: a ticket in any state is parked.                                *)
AskLoadAnyState(h, kind, i, change) ==
  /\ item[i].state # "NONE"
  /\ ~HasPending(kind, i)
  /\ Loads(h, [pc |-> "asking", kind |-> kind, item |-> i, stateAt |-> item[i].state,
               change |-> change])
  /\ UNCHANGED <<item, approval, stock, plate, session>>

(* requestCancellation and requestChange of a ticket the kitchen has       *)
(* started: a manager must approve.                                        *)
AskLoad(h, kind, i, change) ==
  /\ item[i].state \in Protected
  /\ ~HasPending(kind, i)
  /\ Loads(h, [pc |-> "asking", kind |-> kind, item |-> i, stateAt |-> item[i].state,
               change |-> change])
  /\ UNCHANGED <<item, approval, stock, plate, session>>

(* Mutant: nothing keeps a second approval from being pending.             *)
AskCommitUnindexed(h, a) ==
  LET q == handler[h] IN
  /\ q.pc = "asking"
  /\ approval[a] = NoApproval
  /\ ~Locked(q.item)
  /\ approval' = [approval EXCEPT ![a] =
       [status |-> "PENDING", kind |-> q.kind, item |-> q.item, stateAt |-> q.stateAt,
        change |-> q.change]]
  /\ SetState(q.item, Parked(q.kind))
  /\ Ends(h)
  /\ UNCHANGED <<stock, plate, session>>

(* uq_.._one_pending: the approval and the parked ticket, or neither.      *)
AskCommit(h, a) ==
  LET q == handler[h] IN
  /\ q.pc = "asking"
  /\ approval[a] = NoApproval
  /\ Migrated => ~HasPending(q.kind, q.item)
  /\ ~Locked(q.item)
  /\ approval' = [approval EXCEPT ![a] =
       [status |-> "PENDING", kind |-> q.kind, item |-> q.item, stateAt |-> q.stateAt,
        change |-> q.change]]
  /\ SetState(q.item, Parked(q.kind))
  /\ Ends(h)
  /\ UNCHANGED <<stock, plate, session>>

(* Mutant: an approval that has been decided is rejected once more.        *)
RejectLoadDecided(h, a) ==
  /\ approval[a] # NoApproval
  /\ Loads(h, [pc |-> "rejecting", row |-> a])
  /\ UNCHANGED <<item, approval, stock, plate, session>>

(* rejectCancellation and rejectChange.                                    *)
RejectLoad(h, a) ==
  /\ Pending(a)
  /\ Loads(h, [pc |-> "rejecting", row |-> a])
  /\ UNCHANGED <<item, approval, stock, plate, session>>

(* Mutant: the approval is decided, the ticket stays parked.               *)
RejectCommitStaysParked(h) ==
  LET a == handler[h].row IN
  /\ handler[h].pc = "rejecting"
  /\ ~RowLocked(a)
  /\ approval' = [approval EXCEPT ![a].status = "REJECTED"]
  /\ Ends(h)
  /\ UNCHANGED <<item, stock, plate, session>>

(* The ticket returns to the state it was in when the approval was asked.  *)
RejectCommit(h) ==
  LET a == handler[h].row IN
  /\ handler[h].pc = "rejecting"
  /\ ~RowLocked(a)
  /\ ~Locked(approval[a].item)
  /\ approval' = [approval EXCEPT ![a].status = "REJECTED"]
  /\ SetState(approval[a].item, approval[a].stateAt)
  /\ Ends(h)
  /\ UNCHANGED <<stock, plate, session>>

(* requestChange of a ticket not yet started.                              *)
DirectChangeLoad(h, i, change) ==
  /\ item[i].state \in DirectChange
  /\ Loads(h, [pc |-> "changing", item |-> i, stateAt |-> item[i].state, change |-> change,
               row |-> NULL])
  /\ UNCHANGED <<item, approval, stock, plate, session>>

(* approveChange.                                                          *)
ApproveChangeLoad(h, a) ==
  /\ Pending(a) /\ approval[a].kind = "CHANGE"
  /\ Loads(h, [pc |-> "changing", item |-> approval[a].item,
               stateAt |-> item[approval[a].item].state, change |-> approval[a].change,
               row |-> a])
  /\ UNCHANGED <<item, approval, stock, plate, session>>

(* applyChange: a new dish goes back to the queue, a new instruction does  *)
(* unless the ticket had not been started.  The stock taken stays taken.   *)
Changed(i, stateAt, change) ==
  [item[i] EXCEPT
    !.dish = IF change = NULL THEN @ ELSE change,
    !.state = IF change = NULL /\ stateAt \in DirectChange THEN stateAt ELSE "QUEUED"]

DirectChangeCommit(h, a) ==
  LET q == handler[h] IN
  /\ q.pc = "changing" /\ q.row = NULL
  /\ approval[a] = NoApproval
  /\ ~Locked(q.item)
  /\ approval' = [approval EXCEPT ![a] =
       [status |-> "APPLIED", kind |-> "CHANGE", item |-> q.item, stateAt |-> q.stateAt,
        change |-> q.change]]
  /\ item' = [item EXCEPT ![q.item] = Changed(q.item, q.stateAt, q.change)]
  /\ Ends(h)
  /\ UNCHANGED <<stock, plate, session>>

(* An approved change is applied in one transaction and marked in another. *)
ApproveChangeApplies(h) ==
  LET q == handler[h] IN
  /\ q.pc = "changing" /\ q.row # NULL
  /\ ~Locked(q.item)
  /\ item' = [item EXCEPT ![q.item] = Changed(q.item, q.stateAt, q.change)]
  /\ handler' = [handler EXCEPT ![h] = [pc |-> "marking", row |-> q.row]]
  /\ UNCHANGED <<approval, stock, plate, session>>

ApproveChangeMarks(h) ==
  LET a == handler[h].row IN
  /\ handler[h].pc = "marking"
  /\ approval' = [approval EXCEPT ![a].status = "APPLIED"]
  /\ Ends(h)
  /\ UNCHANGED <<item, stock, plate, session>>
-----------------------------------------------------------------------------
(* The database refuses the transaction: none of it remains.               *)
RolledBack(h) ==
  LET q == handler[h] IN
  /\ \/ q.pc = "reporting" /\ Migrated /\ "CANNOT_PREPARE" \notin ItemStateCheck
     \/ q.pc = "asking" /\ Migrated /\ HasPending(q.kind, q.item)
  /\ Ends(h)
  /\ UNCHANGED <<item, approval, stock, plate, session>>

(* The process stops: what was not committed is gone, with its locks.      *)
Crash(h) ==
  /\ MayCrash
  /\ handler[h] # Idle
  /\ Ends(h)
  /\ UNCHANGED <<item, approval, stock, plate, session>>

Finishes(h) ==
  \/ SendToKitchenCommit(h) \/ MoveCommit(h) \/ ReportCommit(h)
  \/ CancelCounts(h) \/ CancelCommit(h) \/ RejectCommit(h)
  \/ ApproveChangeApplies(h) \/ ApproveChangeMarks(h) \/ RolledBack(h)
  \/ \E a \in Approvals : AskCommit(h, a) \/ DirectChangeCommit(h, a)
  \/ \E new \in SUBSET Items, d \in Dishes, auto \in BOOLEAN : OrderCommit(h, new, d, auto)

Arrives(h) ==
  \/ \E by \in {"WAITER", "GUEST"} : OrderLoad(h, by)
  \/ SendToKitchenLoad(h) \/ AbandonLoad(h)
  \/ \E i \in Items :
       \/ \E to \in State : MoveLoad(h, i, to)
       \/ ReportLoad(h, i) \/ DirectCancelLoad(h, i) \/ ForceCancelLoad(h, i)
       \/ AskLoad(h, "CANCELLATION", i, NULL)
       \/ \E change \in Dishes \cup {NULL} :
            AskLoad(h, "CHANGE", i, change) \/ DirectChangeLoad(h, i, change)
  \/ \E a \in Approvals :
       ApproveCancellationLoad(h, a) \/ RejectLoad(h, a) \/ ApproveChangeLoad(h, a)

Next == \E h \in Handlers : Arrives(h) \/ Finishes(h) \/ Crash(h)

Spec == Init /\ [][Next]_vars

(* The event loop resumes every handler whose awaited call has returned.   *)
FairSpec == Spec /\ \A h \in Handlers : WF_vars(Finishes(h))
-----------------------------------------------------------------------------
(* However cancellations, approvals, rejections and day locks race for a   *)
(* ticket, its recipe is taken at most once and given back exactly when    *)
(* the ticket has been cancelled, and never twice.                         *)
StockFollowsCancellation ==
  \A i \in Items :
    /\ stock[i].depleted <= 1
    /\ stock[i].reversed = IF item[i].cancelled THEN stock[i].depleted ELSE 0

(* A ticket parked for a manager has an approval the manager can decide:   *)
(* nobody else can move it on, so without one it would be stuck.           *)
ParkedHasPending ==
  \A i \in Items, kind \in Kind : item[i].state = Parked(kind) => HasPending(kind, i)

(* At most one cancellation and one change of a ticket wait for a          *)
(* decision, although two devices may ask at the same time.                *)
OnePendingPerItem ==
  \A a, b \in Approvals :
    (Pending(a) /\ Pending(b) /\ approval[a].kind = approval[b].kind
      /\ approval[a].item = approval[b].item) => a = b

(* The guest is served what the ticket says: a change of the dish takes    *)
(* the ticket back to the queue ("so kitchen sees burger instead of        *)
(* pizza"), and nothing else may make it READY or SERVED.                  *)
ServedAsOrdered ==
  \A i \in Items : item[i].state = "SERVED" => plate[i] = item[i].dish

(* When nothing chargeable remains the session is not ACTIVE_ORDER: the    *)
(* last cancellation clears it "so the table can close".                   *)
EmptyTableOpens == session = "ACTIVE_ORDER" => \E i \in Items : Chargeable(i)

(* The session is ACTIVE_ORDER exactly while something is chargeable, be   *)
(* it ordered, parked, changed, rejected or cancelled.                     *)
ActiveIffChargeable == session = "ACTIVE_ORDER" <=> \E i \in Items : Chargeable(i)

(* A served ticket is final (ORDER_ITEM_NOT_MUTABLE).                      *)
ServedIsFinal ==
  [][\A i \in Items : item[i].state = "SERVED" => item'[i] = item[i]]_vars

(* A cancelled ticket is terminal: it has left the kitchen for good.       *)
CancelledIsTerminal == \A i \in Items : item[i].cancelled => item[i].state = "CANCELLED"

(* A station that reports a dish it cannot prepare has its ticket show it. *)
ReportLands ==
  \A h \in Handlers, i \in Items :
    (handler[h].pc = "reporting" /\ handler[h].item = i) ~> item[i].state = "CANNOT_PREPARE"
=============================================================================
