---------------------------- MODULE TicketsProofs ----------------------------
(***************************************************************************)
(* Proofs about Tickets, for any items, approvals, handlers and dishes.    *)
(* The first part is about requests that are handled at the same time and  *)
(* may die half-way; the second about requests that come one at a time and *)
(* do not: guests get what their tickets say, a served ticket stays as it  *)
(* is, and the session is active exactly while something is chargeable.    *)
(***************************************************************************)
EXTENDS Tickets, TLAPS

(* What a handler has read is there when it commits: tickets and approvals *)
(* are never deleted, and an approval never changes what it is about.      *)
Sound(q) ==
  /\ q.pc \in {"moving", "reporting", "asking", "changing"} => item[q.item] # NoItem
  /\ q.pc \in {"cancelling", "counted"} =>
       /\ \A i \in q.items : item[i] # NoItem
       /\ q.row # NULL => /\ approval[q.row] # NoApproval
                          /\ approval[q.row].kind = "CANCELLATION"
                          /\ q.items = {approval[q.row].item}
  /\ q.pc \in {"rejecting", "marking"} => approval[q.row] # NoApproval
  /\ q.pc = "marking" => approval[q.row].kind = "CHANGE"
  /\ (q.pc = "changing" /\ q.row # NULL) => /\ approval[q.row] # NoApproval
                                            /\ approval[q.row].kind = "CHANGE"
                                            /\ q.item = approval[q.row].item

LoadedExists == \A h \in Handlers : Sound(handler[h])
AskedExists == \A a \in Approvals : approval[a] # NoApproval => item[approval[a].item] # NoItem

TypeInv == TypeOK /\ LoadedExists /\ AskedExists

(* What a step leaves of tickets and approvals.                            *)
Kept ==
  /\ \A i \in Items : item[i] # NoItem => item'[i] # NoItem
  /\ \A a \in Approvals : approval[a] # NoApproval =>
       /\ approval'[a] # NoApproval
       /\ approval'[a].kind = approval[a].kind
       /\ approval'[a].item = approval[a].item

(* A handler in a method has the fields the method gave it.                *)
LEMMA ShapeOf ==
  ASSUME NEW q \in Handler
  PROVE  /\ q.pc = "ordering" => q \in Ordering
         /\ q.pc = "moving" => q \in Moving
         /\ q.pc = "reporting" => q \in Reporting
         /\ q.pc = "cancelling" => q \in Cancelling
         /\ q.pc = "counted" => q \in Counted
         /\ q.pc = "asking" => q \in Asking
         /\ q.pc \in {"rejecting", "marking"} => q \in Deciding
         /\ q.pc = "changing" => q \in Changing /\ (q.row = NULL => q.stateAt \in DirectChange)
<1>1. /\ q \in Ordering => q.pc = "ordering"
      /\ q \in Moving => q.pc = "moving"
      /\ q \in Reporting => q.pc = "reporting"
      /\ q \in Cancelling => q.pc = "cancelling"
      /\ q \in Counted => q.pc = "counted"
      /\ q \in Asking => q.pc = "asking"
      /\ q \in Deciding => q.pc \in {"rejecting", "marking"}
      /\ q \in Changing => q.pc = "changing"
      /\ q = Idle => q.pc = "idle"
      /\ q = [pc |-> "sending"] => q.pc = "sending"
  BY DEF Ordering, Moving, Reporting, Cancelling, Counted, Asking, Deciding, Changing, Idle
<1>2. QED
  BY <1>1 DEF Handler

(* The same, for a handler of the table.                                   *)
LEMMA HandlerShape ==
  ASSUME TypeOK, NEW h \in Handlers
  PROVE  /\ handler[h].pc = "ordering" => handler[h] \in Ordering
         /\ handler[h].pc = "moving" => handler[h] \in Moving
         /\ handler[h].pc = "reporting" => handler[h] \in Reporting
         /\ handler[h].pc = "cancelling" => handler[h] \in Cancelling
         /\ handler[h].pc = "counted" => handler[h] \in Counted
         /\ handler[h].pc = "asking" => handler[h] \in Asking
         /\ handler[h].pc \in {"rejecting", "marking"} => handler[h] \in Deciding
         /\ handler[h].pc = "changing" =>
              handler[h] \in Changing /\ (handler[h].row = NULL => handler[h].stateAt \in DirectChange)
<1>1. handler[h] \in Handler
  BY DEF TypeOK
<1>2. QED
  BY <1>1, ShapeOf

(* A ticket that moves is still a ticket.                                  *)
LEMMA ItemMoves ==
  ASSUME NEW x \in Item, x # NoItem, NEW s \in State
  PROVE  /\ [x EXCEPT !.state = s] \in Item \ {NoItem}
         /\ [x EXCEPT !.state = s].cancelled = x.cancelled
         /\ [x EXCEPT !.state = s].state = s
<1>1. x \in [state : State, cancelled : BOOLEAN, dish : Dishes]
  BY DEF Item
<1>2. "NONE" \notin State
  BY DEF State
<1>3. [x EXCEPT !.state = s] \in [state : State, cancelled : BOOLEAN, dish : Dishes]
  BY <1>1
<1>4. [x EXCEPT !.state = s].state = s /\ [x EXCEPT !.state = s].cancelled = x.cancelled
  BY <1>1
<1>5. QED
  BY <1>2, <1>3, <1>4 DEF Item, NoItem

(* An approval that is decided is still about the same ticket.             *)
LEMMA ApprovalDecided ==
  ASSUME NEW x \in Approval, x # NoApproval, NEW s \in {"APPROVED", "REJECTED", "APPLIED"},
         NEW y, y = [x EXCEPT !.status = s]
  PROVE  /\ y \in Approval \ {NoApproval} /\ y.status = s
         /\ y.kind = x.kind /\ y.item = x.item /\ x.item \in Items
<1> DEFINE Rows == [status : {"PENDING", "APPROVED", "REJECTED", "APPLIED"}, kind : Kind,
                    item : Items, stateAt : Protected \cup DirectChange,
                    change : Dishes \cup {NULL}]
<1>1. x \in Rows
  BY DEF Approval
<1>2. y \in Rows
  BY <1>1
<1>3. y.status = s /\ y.kind = x.kind /\ y.item = x.item /\ x.item \in Items
  BY <1>1
<1>4. y # NoApproval
  BY <1>3 DEF NoApproval
<1>5. QED
  BY <1>2, <1>3, <1>4 DEF Approval

(* Deciding one approval keeps the table.                                  *)
LEMMA ApprovalsDecided ==
  ASSUME approval \in [Approvals -> Approval], NEW a \in Approvals, approval[a] # NoApproval,
         NEW s \in {"APPROVED", "REJECTED", "APPLIED"},
         approval' = [approval EXCEPT ![a].status = s]
  PROVE  /\ approval' \in [Approvals -> Approval]
         /\ \A b \in Approvals : approval[b] # NoApproval =>
              /\ approval'[b] # NoApproval
              /\ approval'[b].kind = approval[b].kind
              /\ approval'[b].item = approval[b].item
         /\ \A b \in Approvals : approval[b] = NoApproval => approval'[b] = NoApproval
         /\ approval'[a].status = s
         /\ \A b \in Approvals : b # a => approval'[b] = approval[b]
<1> DEFINE x == [approval[a] EXCEPT !.status = s]
<1>1. approval' = [approval EXCEPT ![a] = x] /\ x = [approval[a] EXCEPT !.status = s]
  OBVIOUS
<1> HIDE DEF x
<1>2. /\ x \in Approval \ {NoApproval} /\ x.status = s
      /\ x.kind = approval[a].kind /\ x.item = approval[a].item
  BY <1>1, ApprovalDecided
<1>3. QED
  BY <1>1, <1>2

-----------------------------------------------------------------------------
(* The empty table satisfies the type invariant.                           *)
LEMMA InitInv == ASSUME TicketsAssumption, Init PROVE TypeInv
<1>1. NoItem \in Item /\ NoApproval \in Approval /\ Idle \in Handler
  BY DEF Item, Approval, Handler
<1>2. TypeOK
  BY <1>1 DEF Init, TypeOK
<1>3. LoadedExists /\ AskedExists
  BY DEF Init, LoadedExists, AskedExists, Sound, Idle, NoApproval
<1>4. QED
  BY <1>2, <1>3 DEF TypeInv

(* A step of one handler that keeps tickets and approvals keeps what every *)
(* other handler has read.                                                 *)
LEMMA KeepsLoaded ==
  ASSUME TypeInv, TypeOK', Kept, NEW h \in Handlers, NEW q,
         handler' = [handler EXCEPT ![h] = q],
         (Sound(handler[h]))',
         \A a \in Approvals : approval'[a] # NoApproval /\ approval[a] = NoApproval
           => item'[approval'[a].item] # NoItem
  PROVE  TypeInv'
<1>1. ASSUME NEW g \in Handlers, g # h
      PROVE  (Sound(handler[g]))'
  <2>1. handler'[g] = handler[g]
    BY <1>1 DEF TypeInv, TypeOK
  <2>2. Sound(handler[g])
    BY <1>1 DEF TypeInv, LoadedExists
  <2>3. /\ handler[g].pc \in {"moving", "reporting", "asking", "changing"}
             => handler[g].item \in Items
        /\ handler[g].pc \in {"cancelling", "counted"}
             => handler[g].items \subseteq Items /\ handler[g].row \in Approvals \cup {NULL}
        /\ handler[g].pc \in {"rejecting", "marking"} => handler[g].row \in Approvals
        /\ handler[g].pc = "changing" => handler[g].row \in Approvals \cup {NULL}
    BY <1>1, HandlerShape DEF TypeInv, Moving, Reporting, Cancelling, Counted, Asking, Deciding,
       Changing
  <2>4. QED
    BY <2>1, <2>2, <2>3 DEF Sound, Kept
<1>2. LoadedExists'
  BY <1>1 DEF LoadedExists
<1>3. \A a \in Approvals : approval[a] # NoApproval => approval[a].item \in Items
  BY DEF TypeInv, TypeOK, Approval
<1>4. AskedExists'
  BY <1>3 DEF TypeInv, AskedExists, Kept
<1>5. QED
  BY <1>2, <1>4 DEF TypeInv

(* A step that only changes what one handler has read.                     *)
LEMMA HandlerStep ==
  ASSUME TypeInv, NEW h \in Handlers, NEW q \in Handler, Sound(q),
         handler' = [handler EXCEPT ![h] = q],
         UNCHANGED <<item, approval, stock, plate, session>>
  PROVE  TypeInv'
<1>1. TypeOK'
  BY DEF TypeInv, TypeOK
<1>2. Kept
  BY DEF Kept
<1>3. handler'[h] = q
  BY DEF TypeInv, TypeOK
<1>4. (Sound(handler[h]))'
  BY <1>3 DEF Sound
<1>5. QED
  BY <1>1, <1>2, <1>4, KeepsLoaded

(* A step that ends one handler.                                           *)
LEMMA EndsStep ==
  ASSUME TypeInv, TypeOK', Kept, NEW h \in Handlers, Ends(h),
         \A a \in Approvals : approval'[a] # NoApproval /\ approval[a] = NoApproval
           => item'[approval'[a].item] # NoItem
  PROVE  TypeInv'
<1>1. handler'[h] = Idle
  BY DEF Ends, TypeInv, TypeOK
<1>2. (Sound(handler[h]))'
  BY <1>1 DEF Sound, Idle
<1>3. QED
  BY <1>2, KeepsLoaded DEF Ends
-----------------------------------------------------------------------------
(* The steps that only read, count or give up.                             *)
LEMMA ArrivesType ==
  ASSUME TicketsAssumption, TypeInv, NEW h \in Handlers, Arrives(h)
  PROVE  TypeInv'
<1> USE DEF TypeInv
<1>1. \A i \in Items : item[i].state \in State => item[i] # NoItem /\ item[i].dish \in Dishes
  BY DEF TypeOK, Item, NoItem, State
<1>2. ASSUME NEW by \in {"WAITER", "GUEST"}, OrderLoad(h, by)
      PROVE  TypeInv'
  <2> DEFINE q == [pc |-> "ordering", by |-> by]
  <2>1. q \in Handler /\ Sound(q)
    BY DEF Handler, Ordering, Sound
  <2>2. QED
    BY <1>2, <2>1, HandlerStep DEF OrderLoad, Loads
<1>3. ASSUME SendToKitchenLoad(h)
      PROVE  TypeInv'
  <2> DEFINE q == [pc |-> "sending"]
  <2>1. q \in Handler /\ Sound(q)
    BY DEF Handler, Sound
  <2>2. QED
    BY <1>3, <2>1, HandlerStep DEF SendToKitchenLoad, Loads
<1>4. ASSUME NEW S \in SUBSET Items, \A i \in S : item[i] # NoItem,
             Loads(h, [pc |-> "cancelling", items |-> S, row |-> NULL]),
             UNCHANGED <<item, approval, stock, plate, session>>
      PROVE  TypeInv'
  <2> DEFINE q == [pc |-> "cancelling", items |-> S, row |-> NULL]
  <2>1. q \in Handler
    BY DEF Handler, Cancelling
  <2>2. Sound(q)
    BY <1>4 DEF Sound
  <2>3. QED
    BY <1>4, <2>1, <2>2, HandlerStep DEF Loads
<1>5. ASSUME AbandonLoad(h)
      PROVE  TypeInv'
  <2>1. \A i \in Items : item[i].state \in OpenKitchen => item[i] # NoItem
    BY <1>1 DEF OpenKitchen, ActiveCooking, State
  <2>2. QED
    BY <1>4, <1>5, <2>1 DEF AbandonLoad
<1>6. ASSUME NEW i \in Items, DirectCancelLoad(h, i)
      PROVE  TypeInv'
  BY <1>1, <1>4, <1>6 DEF DirectCancelLoad, DirectCancel, State
<1>7. ASSUME NEW i \in Items, ForceCancelLoad(h, i)
      PROVE  TypeInv'
  BY <1>4, <1>7 DEF ForceCancelLoad, NoItem
<1>8. ASSUME NEW i \in Items, NEW to \in State, MoveLoad(h, i, to)
      PROVE  TypeInv'
  <2> DEFINE q == [pc |-> "moving", item |-> i, to |-> to, dish |-> item[i].dish]
  <2>1. item[i].state \in State /\ to \in {"ACKNOWLEDGED", "IN_PREPARATION", "READY", "SERVED"}
    BY <1>8 DEF MoveLoad, Moves, State
  <2>2. q \in Handler /\ Sound(q)
    BY <1>1, <2>1 DEF Handler, Moving, Sound
  <2>3. QED
    BY <1>8, <2>2, HandlerStep DEF MoveLoad, Loads
<1>9. ASSUME NEW i \in Items, ReportLoad(h, i)
      PROVE  TypeInv'
  <2> DEFINE q == [pc |-> "reporting", item |-> i]
  <2>1. q \in Handler /\ Sound(q)
    BY <1>1, <1>9 DEF Handler, Reporting, Sound, ReportLoad, ActiveCooking, State
  <2>2. QED
    BY <1>9, <2>1, HandlerStep DEF ReportLoad, Loads
<1>10. ASSUME NEW kind \in Kind, NEW i \in Items, NEW change \in Dishes \cup {NULL},
              AskLoad(h, kind, i, change)
       PROVE  TypeInv'
  <2> DEFINE q == [pc |-> "asking", kind |-> kind, item |-> i, stateAt |-> item[i].state,
                   change |-> change]
  <2>1. q \in Handler /\ Sound(q)
    BY <1>1, <1>10 DEF Handler, Asking, Sound, AskLoad, Protected, State
  <2>2. QED
    BY <1>10, <2>1, HandlerStep DEF AskLoad, Loads
<1>11. ASSUME NEW i \in Items, NEW change \in Dishes \cup {NULL}, DirectChangeLoad(h, i, change)
       PROVE  TypeInv'
  <2> DEFINE q == [pc |-> "changing", item |-> i, stateAt |-> item[i].state,
                   change |-> change, row |-> NULL]
  <2>1. item[i].state \in DirectChange /\ item[i].state \in State
    BY <1>11 DEF DirectChangeLoad, DirectChange, State
  <2>2. q \in Handler
    BY <2>1 DEF Handler, Changing
  <2>3. Sound(q)
    BY <1>1, <2>1 DEF Sound
  <2>4. QED
    BY <1>11, <2>2, <2>3, HandlerStep DEF DirectChangeLoad, Loads
<1>12. ASSUME NEW a \in Approvals, Pending(a)
       PROVE  /\ approval[a] # NoApproval
              /\ approval[a].item \in Items
              /\ approval[a].change \in Dishes \cup {NULL}
              /\ item[approval[a].item] # NoItem
              /\ item[approval[a].item].state \in State
  <2>1. approval[a] # NoApproval
    BY <1>12 DEF Pending, NoApproval
  <2>2. approval[a].item \in Items /\ approval[a].change \in Dishes \cup {NULL}
    BY <2>1 DEF TypeOK, Approval
  <2>3. item[approval[a].item] # NoItem
    BY <2>1 DEF AskedExists
  <2>4. QED
    BY <2>1, <2>2, <2>3 DEF TypeOK, Item
<1>13. ASSUME NEW a \in Approvals, ApproveCancellationLoad(h, a)
       PROVE  TypeInv'
  <2> DEFINE q == [pc |-> "cancelling", items |-> {approval[a].item}, row |-> a]
  <2>1. Pending(a) /\ approval[a].kind = "CANCELLATION"
    BY <1>13 DEF ApproveCancellationLoad
  <2>2. q \in Handler
    BY <1>12, <2>1 DEF Handler, Cancelling
  <2>3. Sound(q)
    BY <1>12, <2>1 DEF Sound
  <2>4. QED
    BY <1>13, <2>2, <2>3, HandlerStep DEF ApproveCancellationLoad, Loads
<1>14. ASSUME NEW a \in Approvals, RejectLoad(h, a)
       PROVE  TypeInv'
  <2> DEFINE q == [pc |-> "rejecting", row |-> a]
  <2>1. q \in Handler /\ Sound(q)
    BY <1>12, <1>14 DEF RejectLoad, Handler, Deciding, Sound
  <2>2. QED
    BY <1>14, <2>1, HandlerStep DEF RejectLoad, Loads
<1>15. ASSUME NEW a \in Approvals, ApproveChangeLoad(h, a)
       PROVE  TypeInv'
  <2> DEFINE q == [pc |-> "changing", item |-> approval[a].item,
                   stateAt |-> item[approval[a].item].state, change |-> approval[a].change,
                   row |-> a]
  <2>1. Pending(a) /\ approval[a].kind = "CHANGE"
    BY <1>15 DEF ApproveChangeLoad
  <2>2. q \in Changing /\ q.row # NULL
    BY <1>12, <2>1 DEF Changing, TicketsAssumption
  <2>3. q \in Handler
    BY <2>2 DEF Handler
  <2>4. Sound(q)
    BY <1>12, <2>1 DEF Sound
  <2>5. QED
    BY <1>15, <2>3, <2>4, HandlerStep DEF ApproveChangeLoad, Loads
<1>16. "CANCELLATION" \in Kind /\ "CHANGE" \in Kind
  BY DEF Kind
<1>17. QED
  BY <1>2, <1>3, <1>5, <1>6, <1>7, <1>8, <1>9, <1>10, <1>11, <1>13, <1>14, <1>15, <1>16
  DEF Arrives
-----------------------------------------------------------------------------
(* One ticket moves to another state, and the handler ends.                *)
LEMMA SetStateStep ==
  ASSUME TypeInv, NEW h \in Handlers, NEW i \in Items, item[i] # NoItem, NEW s \in State,
         SetState(i, s), Ends(h), approval' \in [Approvals -> Approval],
         \A a \in Approvals : approval[a] # NoApproval =>
           /\ approval'[a] # NoApproval
           /\ approval'[a].kind = approval[a].kind
           /\ approval'[a].item = approval[a].item,
         \A a \in Approvals : approval'[a] # NoApproval /\ approval[a] = NoApproval
           => approval'[a].item = i,
         plate' \in [Items -> Dishes \cup {NULL}], UNCHANGED <<stock, session>>
  PROVE  TypeInv'
<1>1. [item[i] EXCEPT !.state = s] \in Item \ {NoItem}
  BY ItemMoves DEF TypeInv, TypeOK
<1>2. item' = [item EXCEPT ![i] = [item[i] EXCEPT !.state = s]]
  BY DEF SetState, TypeInv, TypeOK
<1>3. item' \in [Items -> Item] /\ \A j \in Items : item[j] # NoItem => item'[j] # NoItem
  BY <1>1, <1>2 DEF TypeInv, TypeOK
<1>4. TypeOK'
  BY <1>3 DEF TypeInv, TypeOK, Ends, Handler
<1>5. Kept
  BY <1>3 DEF Kept
<1>6. item'[i] # NoItem
  BY <1>3
<1>7. QED
  BY <1>4, <1>5, <1>6, EndsStep

(* The dish or the instruction of a ticket changes.                        *)
LEMMA ChangedIsItem ==
  ASSUME TypeInv, NEW i \in Items, item[i] # NoItem, NEW s \in State,
         NEW change \in Dishes \cup {NULL}
  PROVE  /\ Changed(i, s, change) \in Item \ {NoItem}
         /\ Changed(i, s, change).state \in DirectChange
         /\ Changed(i, s, change).cancelled = item[i].cancelled
<1> DEFINE x == item[i]
           d == IF change = NULL THEN x.dish ELSE change
           n == IF change = NULL /\ s \in DirectChange THEN s ELSE "QUEUED"
<1>1. x \in [state : State, cancelled : BOOLEAN, dish : Dishes]
  BY DEF TypeInv, TypeOK, Item
<1>2. d \in Dishes /\ n \in State /\ n \in DirectChange /\ n # "NONE"
  BY <1>1 DEF State, DirectChange
<1>3. Changed(i, s, change) = [x EXCEPT !.dish = d, !.state = n]
  BY <1>1 DEF Changed
<1>4. /\ [x EXCEPT !.dish = d, !.state = n] \in [state : State, cancelled : BOOLEAN, dish : Dishes]
      /\ [x EXCEPT !.dish = d, !.state = n].state = n
      /\ [x EXCEPT !.dish = d, !.state = n].cancelled = x.cancelled
  BY <1>1, <1>2
<1>5. Changed(i, s, change).state = n /\ Changed(i, s, change).cancelled = x.cancelled
  BY <1>3, <1>4
<1>6. Changed(i, s, change) \in Item /\ Changed(i, s, change) # NoItem
  <2>1. Changed(i, s, change) \in Item
    BY <1>3, <1>4 DEF Item
  <2>2. NoItem.state = "NONE"
    BY DEF NoItem
  <2>3. QED
    BY <1>2, <1>5, <2>1, <2>2
<1>7. QED
  BY <1>2, <1>5, <1>6

(* Every step that ends a request keeps the type invariant.                *)
LEMMA FinishesType ==
  ASSUME TicketsAssumption, TypeInv, NEW h \in Handlers, Finishes(h)
  PROVE  TypeInv'
<1> USE DEF TypeInv
<1> DEFINE q == handler[h]
<1>1. ASSUME NEW new \in SUBSET Items, NEW d \in Dishes, NEW auto \in BOOLEAN,
             OrderCommit(h, new, d, auto)
      PROVE  TypeInv'
  <2>1. \A s \in {"QUEUED", "CONFIRMED"} :
          [NoItem EXCEPT !.state = s, !.dish = d] \in Item \ {NoItem}
    BY DEF Item, NoItem, State
  <2>2. item' \in [Items -> Item] /\ \A i \in Items : item[i] # NoItem => item'[i] # NoItem
    BY <1>1, <2>1 DEF OrderCommit, TypeOK
  <2>3. \A i \in Items : [stock[i] EXCEPT !.depleted = 1] \in [depleted : Nat, reversed : Nat]
    BY DEF TypeOK
  <2>4. stock' \in [Items -> [depleted : Nat, reversed : Nat]]
    BY <1>1, <2>3 DEF OrderCommit, TypeOK
  <2>5. TypeOK'
    BY <1>1, <2>2, <2>4 DEF OrderCommit, TypeOK, Ends, Handler
  <2>6. Kept
    BY <1>1, <2>2 DEF OrderCommit, Kept
  <2>7. QED
    BY <1>1, <2>5, <2>6, EndsStep DEF OrderCommit
<1>2. ASSUME SendToKitchenCommit(h)
      PROVE  TypeInv'
  <2>1. ASSUME NEW i \in Items, item[i].state = "CONFIRMED"
        PROVE  [item[i] EXCEPT !.state = "QUEUED"] \in Item \ {NoItem}
    <3>1. item[i] \in Item /\ item[i] # NoItem /\ "QUEUED" \in State
      BY <2>1 DEF TypeOK, NoItem, State
    <3>2. QED
      BY <3>1, ItemMoves
  <2>2. item' \in [Items -> Item] /\ \A i \in Items : item[i] # NoItem => item'[i] # NoItem
    BY <1>2, <2>1 DEF SendToKitchenCommit, TypeOK
  <2>3. TypeOK'
    BY <1>2, <2>2 DEF SendToKitchenCommit, TypeOK, Ends, Handler
  <2>4. Kept
    BY <1>2, <2>2 DEF SendToKitchenCommit, Kept
  <2>5. QED
    BY <1>2, <2>3, <2>4, EndsStep DEF SendToKitchenCommit
<1>3. ASSUME MoveCommit(h)
      PROVE  TypeInv'
  <2>1. q \in Moving /\ item[q.item] # NoItem
    BY <1>3, HandlerShape DEF MoveCommit, LoadedExists, Sound
  <2>2. q.item \in Items /\ q.to \in State /\ q.dish \in Dishes
    BY <2>1 DEF Moving, State
  <2>3. plate' \in [Items -> Dishes \cup {NULL}]
    BY <1>3, <2>2 DEF MoveCommit, TypeOK
  <2>4. QED
    BY <1>3, <2>1, <2>2, <2>3, SetStateStep DEF MoveCommit, TypeOK
<1>4. ASSUME ReportCommit(h)
      PROVE  TypeInv'
  <2>1. q \in Reporting /\ item[q.item] # NoItem
    BY <1>4, HandlerShape DEF ReportCommit, LoadedExists, Sound
  <2>2. q.item \in Items /\ "CANNOT_PREPARE" \in State
    BY <2>1 DEF Reporting, State
  <2>3. QED
    BY <1>4, <2>1, <2>2, SetStateStep DEF ReportCommit, TypeOK
<1>5. ASSUME CancelCounts(h)
      PROVE  TypeInv'
  <2> DEFINE p == [pc |-> "counted", items |-> q.items, row |-> q.row,
                   last |-> \A i \in Items \ q.items : ~Chargeable(i)]
  <2>1. q \in Cancelling /\ Sound(q)
    BY <1>5, HandlerShape DEF CancelCounts, LoadedExists
  <2>2. (\A i \in Items \ q.items : ~Chargeable(i)) \in BOOLEAN
    OBVIOUS
  <2>3. p \in Handler
    BY <2>1, <2>2 DEF Cancelling, Counted, Handler
  <2>4. Sound(p)
    BY <1>5, <2>1 DEF Sound, CancelCounts
  <2>5. QED
    BY <1>5, <2>3, <2>4, HandlerStep DEF CancelCounts
<1>6. ASSUME CancelCommit(h)
      PROVE  TypeInv'
  <2>1. q \in Counted /\ Sound(q)
    BY <1>6, HandlerShape DEF CancelCommit, LoadedExists
  <2>2. q.items \subseteq Items /\ q.row \in Approvals \cup {NULL}
    BY <2>1 DEF Counted
  <2>3. \A i \in q.items : item[i] \in [state : State, cancelled : BOOLEAN, dish : Dishes]
    BY <1>6, <2>1, <2>2 DEF Sound, CancelCommit, TypeOK, Item
  <2>4. \A i \in q.items :
          [item[i] EXCEPT !.state = "CANCELLED", !.cancelled = TRUE] \in Item \ {NoItem}
    <3>1. ASSUME NEW i \in q.items
          PROVE  [item[i] EXCEPT !.state = "CANCELLED", !.cancelled = TRUE]
                   \in [state : State \ {"NONE"}, cancelled : BOOLEAN, dish : Dishes]
      BY <2>3 DEF State
    <3>2. QED
      BY <3>1 DEF Item, NoItem
  <2>5. item' \in [Items -> Item] /\ \A i \in Items : item[i] # NoItem => item'[i] # NoItem
    BY <1>6, <2>4 DEF CancelCommit, TypeOK
  <2>6. \A i \in Items :
          [stock[i] EXCEPT !.reversed = stock[i].depleted] \in [depleted : Nat, reversed : Nat]
    BY DEF TypeOK
  <2>7. stock' \in [Items -> [depleted : Nat, reversed : Nat]]
    BY <1>6, <2>6 DEF CancelCommit, Reverse, TypeOK
  <2>8. /\ approval' \in [Approvals -> Approval]
        /\ \A a \in Approvals : approval[a] # NoApproval =>
             /\ approval'[a] # NoApproval
             /\ approval'[a].kind = approval[a].kind
             /\ approval'[a].item = approval[a].item
        /\ \A a \in Approvals : approval[a] = NoApproval => approval'[a] = NoApproval
    <3>1. CASE q.row = NULL
      BY <1>6, <3>1 DEF CancelCommit, TypeOK
    <3>2. CASE q.row # NULL
      <4>1. q.row \in Approvals /\ approval[q.row] # NoApproval
        BY <1>6, <2>1, <2>2, <3>2 DEF Sound, CancelCommit
      <4>2. approval' = [approval EXCEPT ![q.row].status = "APPROVED"]
        BY <1>6, <3>2 DEF CancelCommit
      <4>3. QED
        BY <4>1, <4>2, ApprovalsDecided DEF TypeOK
    <3>3. QED
      BY <3>1, <3>2
  <2>9. TypeOK'
    BY <1>6, <2>5, <2>7, <2>8 DEF CancelCommit, TypeOK, Ends, Handler
  <2>10. Kept
    BY <2>5, <2>8 DEF Kept
  <2>11. QED
    BY <1>6, <2>8, <2>9, <2>10, EndsStep DEF CancelCommit
<1>7. ASSUME NEW a \in Approvals, AskCommit(h, a)
      PROVE  TypeInv'
  <2> DEFINE x == [status |-> "PENDING", kind |-> q.kind, item |-> q.item, stateAt |-> q.stateAt,
                   change |-> q.change]
  <2>1. q \in Asking /\ item[q.item] # NoItem
    BY <1>7, HandlerShape DEF AskCommit, LoadedExists, Sound
  <2>2. /\ q.item \in Items /\ Parked(q.kind) \in State
        /\ x \in Approval /\ x # NoApproval /\ x.item = q.item
    BY <2>1 DEF Asking, Parked, State, Approval, NoApproval
  <2>3. approval' = [approval EXCEPT ![a] = x]
    BY <1>7 DEF AskCommit
  <2>4. QED
    BY <1>7, <2>1, <2>2, <2>3, SetStateStep DEF AskCommit, TypeOK
<1>8. ASSUME RejectCommit(h)
      PROVE  TypeInv'
  <2> DEFINE a == q.row
  <2>1. a \in Approvals /\ approval[a] # NoApproval
    BY <1>8, HandlerShape DEF RejectCommit, LoadedExists, Sound, Deciding
  <2>2. approval[a].item \in Items /\ approval[a].stateAt \in State
    BY <2>1 DEF TypeOK, Approval, Protected, DirectChange, State
  <2>3. item[approval[a].item] # NoItem
    BY <2>1 DEF AskedExists
  <2>4. approval' = [approval EXCEPT ![a].status = "REJECTED"]
    BY <1>8 DEF RejectCommit
  <2>5. /\ approval' \in [Approvals -> Approval]
        /\ \A b \in Approvals : approval[b] # NoApproval =>
             /\ approval'[b] # NoApproval
             /\ approval'[b].kind = approval[b].kind
             /\ approval'[b].item = approval[b].item
        /\ \A b \in Approvals : approval[b] = NoApproval => approval'[b] = NoApproval
    BY <2>1, <2>4, ApprovalsDecided DEF TypeOK
  <2>6. QED
    BY <1>8, <2>2, <2>3, <2>5, SetStateStep DEF RejectCommit, TypeOK
<1>9. ASSUME NEW i \in Items, item[i] # NoItem, NEW s \in State, NEW change \in Dishes \cup {NULL},
             item' = [item EXCEPT ![i] = Changed(i, s, change)]
      PROVE  /\ item' \in [Items -> Item]
             /\ \A j \in Items : item[j] # NoItem => item'[j] # NoItem
  BY <1>9, ChangedIsItem DEF TypeOK
<1>10. ASSUME NEW a \in Approvals, DirectChangeCommit(h, a)
       PROVE  TypeInv'
  <2> DEFINE x == [status |-> "APPLIED", kind |-> "CHANGE", item |-> q.item,
                   stateAt |-> q.stateAt, change |-> q.change]
  <2>1. q \in Changing /\ q.stateAt \in DirectChange /\ item[q.item] # NoItem
    BY <1>10, HandlerShape DEF DirectChangeCommit, LoadedExists, Sound
  <2>2. /\ q.item \in Items /\ q.stateAt \in State /\ q.change \in Dishes \cup {NULL}
        /\ x \in Approval /\ x # NoApproval /\ x.item = q.item
    BY <2>1 DEF Changing, Approval, NoApproval, Kind
  <2>3. item' \in [Items -> Item] /\ \A i \in Items : item[i] # NoItem => item'[i] # NoItem
    BY <1>9, <1>10, <2>1, <2>2 DEF DirectChangeCommit
  <2>4. approval' = [approval EXCEPT ![a] = x]
    BY <1>10 DEF DirectChangeCommit
  <2>5. TypeOK'
    BY <1>10, <2>2, <2>3, <2>4 DEF DirectChangeCommit, TypeOK, Ends, Handler
  <2>6. Kept
    BY <1>10, <2>3, <2>4 DEF Kept, DirectChangeCommit, TypeOK
  <2>7. QED
    BY <1>10, <2>1, <2>2, <2>3, <2>4, <2>5, <2>6, EndsStep DEF DirectChangeCommit, TypeOK
<1>11. ASSUME ApproveChangeApplies(h)
       PROVE  TypeInv'
  <2> DEFINE p == [pc |-> "marking", row |-> q.row]
  <2>1. q \in Changing /\ Sound(q)
    BY <1>11, HandlerShape DEF ApproveChangeApplies, LoadedExists
  <2>2. /\ q.item \in Items /\ q.stateAt \in State /\ q.change \in Dishes \cup {NULL}
        /\ q.row \in Approvals /\ item[q.item] # NoItem
        /\ approval[q.row] # NoApproval /\ approval[q.row].kind = "CHANGE"
    BY <1>11, <2>1 DEF ApproveChangeApplies, Changing, Sound
  <2>3. item' \in [Items -> Item] /\ \A i \in Items : item[i] # NoItem => item'[i] # NoItem
    BY <1>9, <1>11, <2>2 DEF ApproveChangeApplies
  <2>4. p \in Handler
    BY <2>2 DEF Handler, Deciding
  <2>5. handler' = [handler EXCEPT ![h] = p] /\ handler'[h] = p
    BY <1>11 DEF ApproveChangeApplies, TypeOK
  <2>6. TypeOK'
    BY <1>11, <2>3, <2>4, <2>5 DEF ApproveChangeApplies, TypeOK
  <2>7. Kept
    BY <1>11, <2>3 DEF Kept, ApproveChangeApplies
  <2>8. (Sound(handler[h]))'
    BY <1>11, <2>2, <2>5 DEF Sound, ApproveChangeApplies
  <2>9. QED
    BY <1>11, <2>5, <2>6, <2>7, <2>8, KeepsLoaded DEF ApproveChangeApplies
<1>12. ASSUME ApproveChangeMarks(h)
       PROVE  TypeInv'
  <2> DEFINE a == q.row
  <2>1. a \in Approvals /\ approval[a] # NoApproval
    BY <1>12, HandlerShape DEF ApproveChangeMarks, LoadedExists, Sound, Deciding
  <2>2. approval' = [approval EXCEPT ![a].status = "APPLIED"]
    BY <1>12 DEF ApproveChangeMarks
  <2>3. /\ approval' \in [Approvals -> Approval]
        /\ \A b \in Approvals : approval[b] # NoApproval =>
             /\ approval'[b] # NoApproval
             /\ approval'[b].kind = approval[b].kind
             /\ approval'[b].item = approval[b].item
        /\ \A b \in Approvals : approval[b] = NoApproval => approval'[b] = NoApproval
    BY <2>1, <2>2, ApprovalsDecided DEF TypeOK
  <2>4. TypeOK'
    BY <1>12, <2>3 DEF ApproveChangeMarks, TypeOK, Ends, Handler
  <2>5. Kept
    BY <1>12, <2>3 DEF Kept, ApproveChangeMarks
  <2>6. QED
    BY <1>12, <2>3, <2>4, <2>5, EndsStep DEF ApproveChangeMarks
<1>13. ASSUME RolledBack(h)
       PROVE  TypeInv'
  <2>1. Idle \in Handler /\ Sound(Idle)
    BY DEF Handler, Sound, Idle
  <2>2. QED
    BY <1>13, <2>1, HandlerStep DEF RolledBack, Ends
<1>14. QED
  BY <1>1, <1>2, <1>3, <1>4, <1>5, <1>6, <1>7, <1>8, <1>10, <1>11, <1>12, <1>13 DEF Finishes
(* Every step keeps the type invariant.                                    *)
LEMMA NextInv ==
  ASSUME TicketsAssumption, TypeInv, [Next]_vars
  PROVE  TypeInv'
<1>1. CASE UNCHANGED vars
  BY <1>1 DEF vars, TypeInv, TypeOK, LoadedExists, AskedExists, Sound
<1>2. ASSUME NEW h \in Handlers, Crash(h)
      PROVE  TypeInv'
  <2>1. Idle \in Handler /\ Sound(Idle)
    BY DEF Handler, Sound, Idle
  <2>2. QED
    BY <1>2, <2>1, HandlerStep DEF Crash, Ends
<1>3. QED
  BY <1>1, <1>2, ArrivesType, FinishesType DEF Next

(* The type invariant holds, on either database.                           *)
LEMMA InvHolds == ASSUME TicketsAssumption PROVE Spec => []TypeInv
<1>1. Init => TypeInv
  BY InitInv
<1>2. TypeInv /\ [Next]_vars => TypeInv'
  BY NextInv
<1>3. QED
  BY <1>1, <1>2, PTL DEF Spec

(* The tickets are well typed whatever requests overlap or crash.          *)
THEOREM TypeCorrect == ASSUME TicketsAssumption PROVE Spec => []TypeOK
<1>1. TypeInv => TypeOK
  BY DEF TypeInv
<1>2. QED
  BY <1>1, InvHolds, PTL
-----------------------------------------------------------------------------
(* A ticket that was never ordered has taken nothing from stock.           *)
UntouchedStock ==
  \A i \in Items : item[i] = NoItem => stock[i] = [depleted |-> 0, reversed |-> 0]

StockInv == UntouchedStock /\ StockFollowsCancellation

(* A step that cancels nothing, orders nothing and leaves the stock alone. *)
LEMMA StockLeftAlone ==
  ASSUME StockInv, UNCHANGED stock,
         \A i \in Items : item'[i].cancelled = item[i].cancelled,
         \A i \in Items : item[i] # NoItem => item'[i] # NoItem
  PROVE  StockInv'
BY DEF StockInv, UntouchedStock, StockFollowsCancellation

(* Moving a ticket does not cancel it.                                     *)
LEMMA MovesUncancelled ==
  ASSUME TypeOK, NEW i \in Items, item[i] # NoItem, NEW s \in State, SetState(i, s)
  PROVE  /\ \A j \in Items : item'[j].cancelled = item[j].cancelled
         /\ \A j \in Items : item[j] # NoItem => item'[j] # NoItem
         /\ item'[i].state = s
         /\ \A j \in Items : j # i => item'[j] = item[j]
<1>1. item[i] \in Item /\ item' = [item EXCEPT ![i] = [item[i] EXCEPT !.state = s]]
  BY DEF TypeOK, SetState
<1>2. QED
  BY <1>1, ItemMoves DEF TypeOK

(* A change never touches whether the ticket is cancelled.                 *)
LEMMA ChangeUncancelled ==
  ASSUME TypeInv, NEW i \in Items, item[i] # NoItem, NEW s \in State,
         NEW change \in Dishes \cup {NULL}, item' = [item EXCEPT ![i] = Changed(i, s, change)]
  PROVE  /\ \A j \in Items : item'[j].cancelled = item[j].cancelled
         /\ \A j \in Items : item[j] # NoItem => item'[j] # NoItem
         /\ item'[i].state \in DirectChange
         /\ \A j \in Items : j # i => item'[j] = item[j]
BY ChangedIsItem DEF TypeInv, TypeOK

(* Every step keeps stock and cancellation together.                       *)
LEMMA NextStock ==
  ASSUME TicketsAssumption, TypeInv, StockInv, [Next]_vars
  PROVE  StockInv'
<1> DEFINE q(h) == handler[h]
<1>1. ASSUME UNCHANGED <<item, stock>>
      PROVE  StockInv'
  BY <1>1 DEF StockInv, UntouchedStock, StockFollowsCancellation
<1>2. ASSUME NEW h \in Handlers, NEW new \in SUBSET Items, NEW d \in Dishes, NEW auto \in BOOLEAN,
             OrderCommit(h, new, d, auto)
      PROVE  StockInv'
  <2>1. ASSUME NEW i \in new
        PROVE  /\ item'[i] # NoItem /\ ~item'[i].cancelled
               /\ stock'[i].depleted <= 1 /\ stock'[i].reversed = 0
    <3>1. item[i] = NoItem
      BY <1>2, <2>1 DEF OrderCommit
    <3>2. item'[i].state \in {"QUEUED", "CONFIRMED"} /\ item'[i].cancelled = FALSE
      BY <1>2, <2>1 DEF OrderCommit, NoItem
    <3>3. stock[i] = [depleted |-> 0, reversed |-> 0]
      BY <3>1 DEF StockInv, UntouchedStock
    <3>4. stock'[i] \in {stock[i], [stock[i] EXCEPT !.depleted = 1]}
      BY <1>2, <2>1 DEF OrderCommit
    <3>5. QED
      BY <3>2, <3>3, <3>4 DEF NoItem
  <2>2. \A i \in Items \ new : item'[i] = item[i] /\ stock'[i] = stock[i]
    BY <1>2 DEF OrderCommit
  <2>3. UntouchedStock'
    BY <2>1, <2>2 DEF StockInv, UntouchedStock
  <2>4. StockFollowsCancellation'
    BY <2>1, <2>2 DEF StockInv, StockFollowsCancellation
  <2>5. QED
    BY <2>3, <2>4 DEF StockInv
<1>3. ASSUME NEW h \in Handlers, SendToKitchenCommit(h)
      PROVE  StockInv'
  <2>1. ASSUME NEW i \in Items, item[i].state = "CONFIRMED"
        PROVE  /\ [item[i] EXCEPT !.state = "QUEUED"].cancelled = item[i].cancelled
               /\ [item[i] EXCEPT !.state = "QUEUED"] # NoItem
    <3>1. item[i] \in Item /\ item[i] # NoItem /\ "QUEUED" \in State
      BY <2>1 DEF TypeInv, TypeOK, NoItem, State
    <3>2. QED
      BY <3>1, ItemMoves
  <2>2. /\ \A i \in Items : item'[i].cancelled = item[i].cancelled
        /\ \A i \in Items : item[i] # NoItem => item'[i] # NoItem
    BY <1>3, <2>1 DEF SendToKitchenCommit
  <2>3. QED
    BY <1>3, <2>2, StockLeftAlone DEF SendToKitchenCommit
<1>4. ASSUME NEW h \in Handlers, MoveCommit(h)
      PROVE  StockInv'
  <2>1. q(h) \in Moving /\ item[q(h).item] # NoItem
    BY <1>4, HandlerShape DEF MoveCommit, TypeInv, LoadedExists, Sound
  <2>2. q(h).item \in Items /\ q(h).to \in State
    BY <2>1 DEF Moving, State
  <2>3. QED
    BY <1>4, <2>1, <2>2, MovesUncancelled, StockLeftAlone DEF MoveCommit, TypeInv
<1>5. ASSUME NEW h \in Handlers, ReportCommit(h)
      PROVE  StockInv'
  <2>1. q(h) \in Reporting /\ item[q(h).item] # NoItem
    BY <1>5, HandlerShape DEF ReportCommit, TypeInv, LoadedExists, Sound
  <2>2. q(h).item \in Items /\ "CANNOT_PREPARE" \in State
    BY <2>1 DEF Reporting, State
  <2>3. QED
    BY <1>5, <2>1, <2>2, MovesUncancelled, StockLeftAlone DEF ReportCommit, TypeInv
<1>6. ASSUME NEW h \in Handlers, CancelCommit(h)
      PROVE  StockInv'
  <2>1. q(h) \in Counted /\ \A i \in q(h).items : item[i] # NoItem
    BY <1>6, HandlerShape DEF CancelCommit, TypeInv, LoadedExists, Sound
  <2>2. q(h).items \subseteq Items
    BY <2>1 DEF Counted
  <2>3. ASSUME NEW i \in q(h).items
        PROVE  /\ item'[i] # NoItem /\ item'[i].cancelled
               /\ stock'[i].depleted <= 1 /\ stock'[i].reversed = stock'[i].depleted
    <3>1. item[i] \in [state : State, cancelled : BOOLEAN, dish : Dishes]
      BY <2>1, <2>2 DEF TypeInv, TypeOK, Item
    <3>2. item'[i] = [item[i] EXCEPT !.state = "CANCELLED", !.cancelled = TRUE]
      BY <1>6, <2>2 DEF CancelCommit
    <3>3. item'[i].cancelled = TRUE /\ item'[i] # NoItem
      <4>1. item'[i].cancelled = TRUE /\ item'[i].state = "CANCELLED"
        BY <3>1, <3>2
      <4>2. NoItem.state = "NONE"
        BY DEF NoItem
      <4>3. QED
        BY <4>1, <4>2
    <3>4. /\ stock[i] \in [depleted : Nat, reversed : Nat]
          /\ stock[i].depleted <= 1
          /\ stock[i].reversed = IF item[i].cancelled THEN stock[i].depleted ELSE 0
      BY <2>2 DEF TypeInv, TypeOK, StockInv, StockFollowsCancellation
    <3>5. stock'[i] = IF stock[i].reversed = 0
                      THEN [stock[i] EXCEPT !.reversed = stock[i].depleted] ELSE stock[i]
      BY <1>6, <2>2 DEF CancelCommit, Reverse
    <3>6. QED
      BY <3>3, <3>4, <3>5
  <2>4. \A i \in Items \ q(h).items : item'[i] = item[i] /\ stock'[i] = stock[i]
    BY <1>6 DEF CancelCommit, Reverse
  <2>5. UntouchedStock'
    BY <2>3, <2>4 DEF StockInv, UntouchedStock
  <2>6. StockFollowsCancellation'
    BY <2>3, <2>4 DEF StockInv, StockFollowsCancellation
  <2>7. QED
    BY <2>5, <2>6 DEF StockInv
<1>7. ASSUME NEW h \in Handlers, NEW a \in Approvals, AskCommit(h, a)
      PROVE  StockInv'
  <2>1. q(h) \in Asking /\ item[q(h).item] # NoItem
    BY <1>7, HandlerShape DEF AskCommit, TypeInv, LoadedExists, Sound
  <2>2. q(h).item \in Items /\ Parked(q(h).kind) \in State
    BY <2>1 DEF Asking, Parked, State
  <2>3. QED
    BY <1>7, <2>1, <2>2, MovesUncancelled, StockLeftAlone DEF AskCommit, TypeInv
<1>8. ASSUME NEW h \in Handlers, RejectCommit(h)
      PROVE  StockInv'
  <2> DEFINE a == q(h).row
  <2>1. a \in Approvals /\ approval[a] # NoApproval
    BY <1>8, HandlerShape DEF RejectCommit, TypeInv, LoadedExists, Sound, Deciding
  <2>2. /\ approval[a].item \in Items /\ approval[a].stateAt \in State
        /\ item[approval[a].item] # NoItem
    BY <2>1 DEF TypeInv, TypeOK, AskedExists, Approval, Protected, DirectChange, State
  <2>3. QED
    BY <1>8, <2>2, MovesUncancelled, StockLeftAlone DEF RejectCommit, TypeInv
<1>9. ASSUME NEW h \in Handlers,
             \/ \E a \in Approvals : DirectChangeCommit(h, a)
             \/ ApproveChangeApplies(h)
      PROVE  StockInv'
  <2>1. q(h) \in Changing /\ item[q(h).item] # NoItem
    BY <1>9, HandlerShape DEF DirectChangeCommit, ApproveChangeApplies, TypeInv, LoadedExists, Sound
  <2>2. q(h).item \in Items /\ q(h).stateAt \in State /\ q(h).change \in Dishes \cup {NULL}
    BY <2>1 DEF Changing
  <2>3. /\ item' = [item EXCEPT ![q(h).item] = Changed(q(h).item, q(h).stateAt, q(h).change)]
        /\ UNCHANGED stock
    BY <1>9 DEF DirectChangeCommit, ApproveChangeApplies
  <2>4. QED
    BY <2>1, <2>2, <2>3, ChangeUncancelled, StockLeftAlone
<1>10. ASSUME NEW h \in Handlers,
              Arrives(h) \/ CancelCounts(h) \/ ApproveChangeMarks(h) \/ RolledBack(h) \/ Crash(h)
       PROVE  UNCHANGED <<item, stock>>
  BY <1>10 DEF Arrives, CancelCounts, ApproveChangeMarks, RolledBack, Crash, OrderLoad,
     SendToKitchenLoad, AbandonLoad, MoveLoad, ReportLoad, DirectCancelLoad, ForceCancelLoad,
     AskLoad, DirectChangeLoad, ApproveCancellationLoad, RejectLoad, ApproveChangeLoad
<1>11. CASE UNCHANGED vars
  BY <1>1, <1>11 DEF vars
<1>12. QED
  BY <1>1, <1>2, <1>3, <1>4, <1>5, <1>6, <1>7, <1>8, <1>9, <1>10, <1>11 DEF Next, Finishes

(* On either database, and whatever requests overlap or crash, a ticket's  *)
(* recipe is taken at most once and given back once it is cancelled.       *)
THEOREM StockFollowsCancellationHolds ==
  ASSUME TicketsAssumption PROVE Spec => []StockFollowsCancellation
<1>1. Init => StockInv
  BY DEF Init, StockInv, UntouchedStock, StockFollowsCancellation, NoItem
<1>2. TypeInv /\ StockInv /\ [Next]_vars => StockInv'
  BY NextStock
<1>3. StockInv => StockFollowsCancellation
  BY DEF StockInv
<1>4. QED
  BY <1>1, <1>2, <1>3, InvHolds, PTL DEF Spec
-----------------------------------------------------------------------------
(* A change that has been applied and not yet marked has taken its ticket  *)
(* out of CHANGE_REQUESTED, and nobody can ask for another one before it   *)
(* is marked or decided.                                                   *)
MarkedMovedOn ==
  \A h \in Handlers : (handler[h].pc = "marking" /\ Pending(handler[h].row))
    => item[approval[handler[h].row].item].state # "CHANGE_REQUESTED"

ApprovalInv == ParkedHasPending /\ OnePendingPerItem /\ MarkedMovedOn

(* A step after which no ticket is parked that was not before, and which   *)
(* neither decides nor adds an approval.                                   *)
LEMMA ApprovalsLeftAlone ==
  ASSUME TypeInv, ApprovalInv, UNCHANGED approval,
         \A i \in Items : item'[i].state \in {"CANCELLATION_REQUESTED", "CHANGE_REQUESTED"}
           => item'[i].state = item[i].state,
         \A h \in Handlers : handler'[h].pc = "marking" =>
           \/ handler'[h] = handler[h]
           \/ item'[approval[handler'[h].row].item].state # "CHANGE_REQUESTED"
  PROVE  ApprovalInv'
<1>1. ParkedHasPending'
  BY DEF ApprovalInv, ParkedHasPending, HasPending, Pending, Parked, Kind
<1>2. OnePendingPerItem'
  BY DEF ApprovalInv, OnePendingPerItem, Pending
<1>3. ASSUME NEW h \in Handlers, handler'[h].pc = "marking", handler'[h] = handler[h],
             approval[handler[h].row].status = "PENDING"
      PROVE  item'[approval[handler[h].row].item].state # "CHANGE_REQUESTED"
  <2>1. handler[h].row \in Approvals /\ approval[handler[h].row] # NoApproval
    BY <1>3, HandlerShape DEF TypeInv, LoadedExists, Sound, Deciding
  <2>2. approval[handler[h].row].item \in Items
    BY <2>1 DEF TypeInv, TypeOK, Approval
  <2>3. QED
    BY <1>3, <2>2 DEF ApprovalInv, MarkedMovedOn, Pending
<1>4. MarkedMovedOn'
  BY <1>3 DEF MarkedMovedOn, Pending
<1>5. QED
  BY <1>1, <1>2, <1>4 DEF ApprovalInv

(* A step that decides approval a and takes its ticket out of whatever     *)
(* parking it was in, or leaves it where it was when it was not parked.    *)
LEMMA OneApprovalDecided ==
  ASSUME TypeInv, ApprovalInv, NEW h \in Handlers, Ends(h),
         NEW a \in Approvals, approval[a] # NoApproval,
         NEW s \in {"APPROVED", "REJECTED", "APPLIED"},
         approval' = [approval EXCEPT ![a].status = s],
         \A i \in Items : item'[i].state \in {"CANCELLATION_REQUESTED", "CHANGE_REQUESTED"}
           => item'[i].state = item[i].state,
         Pending(a) => item'[approval[a].item].state # Parked(approval[a].kind)
  PROVE  ApprovalInv'
<1>1. /\ \A b \in Approvals : approval[b] # NoApproval =>
           /\ approval'[b] # NoApproval
           /\ approval'[b].kind = approval[b].kind
           /\ approval'[b].item = approval[b].item
      /\ \A b \in Approvals : approval[b] = NoApproval => approval'[b] = NoApproval
      /\ approval'[a].status = s
      /\ \A b \in Approvals : b # a => approval'[b] = approval[b]
  BY ApprovalsDecided DEF TypeInv, TypeOK
<1>2. \A b \in Approvals : approval'[b].status = "PENDING" => b # a
  BY <1>1
<1>3. ASSUME NEW i \in Items, NEW kind \in Kind, item'[i].state = Parked(kind)
      PROVE  HasPending(kind, i)'
  <2>1. item[i].state = Parked(kind)
    BY <1>3 DEF Parked
  <2>2. PICK b \in Approvals : Pending(b) /\ approval[b].kind = kind /\ approval[b].item = i
    BY <2>1 DEF ApprovalInv, ParkedHasPending, HasPending
  <2>3. b # a
    BY <1>3, <2>2
  <2>4. approval'[b] = approval[b]
    BY <1>1, <2>3
  <2>5. QED
    BY <2>2, <2>4 DEF HasPending, Pending
<1>4. ParkedHasPending'
  BY <1>3 DEF ParkedHasPending, Parked
<1>5. OnePendingPerItem'
  BY <1>1, <1>2 DEF ApprovalInv, OnePendingPerItem, Pending
<1>6. ASSUME NEW g \in Handlers, handler'[g].pc = "marking",
             approval'[handler'[g].row].status = "PENDING"
      PROVE  item'[approval'[handler'[g].row].item].state # "CHANGE_REQUESTED"
  <2>1. handler'[g] = handler[g]
    BY <1>6 DEF Ends, Idle, TypeInv, TypeOK
  <2>2. handler[g].row \in Approvals /\ approval[handler[g].row] # NoApproval
    BY <1>6, <2>1, HandlerShape DEF TypeInv, LoadedExists, Sound, Deciding
  <2>3. approval'[handler[g].row] = approval[handler[g].row]
    BY <1>1, <1>6, <2>1, <2>2
  <2>4. approval[handler[g].row].item \in Items
    BY <2>2 DEF TypeInv, TypeOK, Approval
  <2>5. QED
    BY <1>6, <2>1, <2>3, <2>4 DEF ApprovalInv, MarkedMovedOn, Pending
<1>7. MarkedMovedOn'
  BY <1>6 DEF MarkedMovedOn, Pending
<1>8. QED
  BY <1>4, <1>5, <1>7 DEF ApprovalInv

(* A step that adds approval a, already decided or the only one pending.   *)
LEMMA OneApprovalAdded ==
  ASSUME TicketsAssumption, TypeInv, ApprovalInv, NEW h \in Handlers, Ends(h),
         NEW a \in Approvals, approval[a] = NoApproval,
         NEW x, x # NoApproval, approval' = [approval EXCEPT ![a] = x],
         x.status = "PENDING" => ~HasPending(x.kind, x.item),
         \A i \in Items : item'[i].state \in {"CANCELLATION_REQUESTED", "CHANGE_REQUESTED"} =>
           \/ item'[i].state = item[i].state
           \/ /\ x.status = "PENDING" /\ x.item = i
              /\ x.kind \in Kind /\ item'[i].state = Parked(x.kind)
  PROVE  ApprovalInv'
<1>1. approval'[a] = x /\ \A b \in Approvals : b # a => approval'[b] = approval[b]
  BY DEF TypeInv, TypeOK
<1>2. ~Pending(a)
  BY DEF Pending, NoApproval
<1>3. ASSUME NEW i \in Items, NEW kind \in Kind, item'[i].state = Parked(kind)
      PROVE  HasPending(kind, i)'
  <2>1. CASE item'[i].state = item[i].state
    <3>1. item[i].state = Parked(kind)
      BY <1>3, <2>1
    <3>2. PICK b \in Approvals : Pending(b) /\ approval[b].kind = kind /\ approval[b].item = i
      BY <3>1 DEF ApprovalInv, ParkedHasPending, HasPending
    <3>3. approval'[b] = approval[b]
      BY <1>1, <1>2, <3>2
    <3>4. QED
      BY <3>2, <3>3 DEF HasPending, Pending
  <2>2. CASE item'[i].state # item[i].state
    <3>1. x.status = "PENDING" /\ x.item = i /\ x.kind \in Kind /\ Parked(x.kind) = Parked(kind)
      BY <1>3, <2>2 DEF Parked
    <3>2. x.kind = kind
      BY <3>1 DEF Parked, Kind
    <3>3. QED
      BY <1>1, <3>1, <3>2 DEF HasPending, Pending
  <2>3. QED
    BY <2>1, <2>2
<1>4. ParkedHasPending'
  BY <1>3 DEF ParkedHasPending, Parked
<1>5. \A b \in Approvals : (x.status = "PENDING" /\ approval[b].status = "PENDING")
        => ~(approval[b].kind = x.kind /\ approval[b].item = x.item)
  BY DEF HasPending, Pending
<1>6. OnePendingPerItem'
  BY <1>1, <1>5 DEF ApprovalInv, OnePendingPerItem, Pending
<1>7. ASSUME NEW g \in Handlers, handler'[g].pc = "marking",
             approval'[handler'[g].row].status = "PENDING"
      PROVE  item'[approval'[handler'[g].row].item].state # "CHANGE_REQUESTED"
  <2> DEFINE b == handler[g].row
  <2>1. handler'[g] = handler[g]
    BY <1>7 DEF Ends, Idle, TypeInv, TypeOK
  <2>2. b \in Approvals /\ approval[b] # NoApproval /\ approval[b].kind = "CHANGE"
    BY <1>7, <2>1, HandlerShape DEF TypeInv, LoadedExists, Sound, Deciding
  <2>3. approval'[b] = approval[b] /\ Pending(b)
    BY <1>1, <1>7, <2>1, <2>2 DEF Pending
  <2>4. approval[b].item \in Items
    BY <2>2 DEF TypeInv, TypeOK, Approval
  <2>5. item[approval[b].item].state # "CHANGE_REQUESTED"
    BY <1>7, <2>1, <2>3 DEF ApprovalInv, MarkedMovedOn
  <2>6. HasPending("CHANGE", approval[b].item)
    BY <2>2, <2>3 DEF HasPending
  <2>7. ASSUME item'[approval[b].item].state = "CHANGE_REQUESTED"
        PROVE  FALSE
    <3>1. /\ x.status = "PENDING" /\ x.item = approval[b].item
          /\ x.kind \in Kind /\ Parked(x.kind) = "CHANGE_REQUESTED"
      BY <2>4, <2>5, <2>7
    <3>2. x.kind = "CHANGE"
      BY <3>1 DEF Parked, Kind
    <3>3. QED
      BY <2>6, <3>1, <3>2
  <2>8. QED
    BY <2>1, <2>3, <2>7
<1>8. MarkedMovedOn'
  BY <1>7 DEF MarkedMovedOn, Pending
<1>9. QED
  BY <1>4, <1>6, <1>8 DEF ApprovalInv
(* On the migrated database every step keeps the approvals.                *)
LEMMA NextApproval ==
  ASSUME TicketsAssumption, Migrated, TypeInv, ApprovalInv, [Next]_vars
  PROVE  ApprovalInv'
<1> DEFINE q(h) == handler[h]
           ParkedState == {"CANCELLATION_REQUESTED", "CHANGE_REQUESTED"}
<1>1. ASSUME UNCHANGED <<item, approval>>,
             \A h \in Handlers : handler'[h].pc = "marking" => handler'[h] = handler[h]
      PROVE  ApprovalInv'
  BY <1>1, ApprovalsLeftAlone
<1>2. ASSUME NEW h \in Handlers, Ends(h)
      PROVE  \A g \in Handlers : handler'[g].pc = "marking" => handler'[g] = handler[g]
  BY <1>2 DEF Ends, Idle, TypeInv, TypeOK
<1>3. ASSUME NEW h \in Handlers, NEW new \in SUBSET Items, NEW d \in Dishes, NEW auto \in BOOLEAN,
             OrderCommit(h, new, d, auto)
      PROVE  ApprovalInv'
  <2>1. \A i \in new : item'[i].state \in {"QUEUED", "CONFIRMED"}
    BY <1>3 DEF OrderCommit, NoItem
  <2>2. \A i \in Items \ new : item'[i] = item[i]
    BY <1>3 DEF OrderCommit
  <2>3. \A i \in Items : item'[i].state \in ParkedState => item'[i].state = item[i].state
    BY <2>1, <2>2
  <2>4. QED
    BY <1>2, <1>3, <2>3, ApprovalsLeftAlone DEF OrderCommit
<1>4. ASSUME NEW h \in Handlers, SendToKitchenCommit(h)
      PROVE  ApprovalInv'
  <2>1. ASSUME NEW i \in Items, item[i].state = "CONFIRMED"
        PROVE  [item[i] EXCEPT !.state = "QUEUED"].state = "QUEUED"
    <3>1. item[i] \in Item /\ item[i] # NoItem /\ "QUEUED" \in State
      BY <2>1 DEF TypeInv, TypeOK, NoItem, State
    <3>2. QED
      BY <3>1, ItemMoves
  <2>2. \A i \in Items : item'[i].state \in ParkedState => item'[i].state = item[i].state
    BY <1>4, <2>1 DEF SendToKitchenCommit
  <2>3. QED
    BY <1>2, <1>4, <2>2, ApprovalsLeftAlone DEF SendToKitchenCommit
<1>5. ASSUME NEW h \in Handlers, MoveCommit(h)
      PROVE  ApprovalInv'
  <2>1. q(h) \in Moving /\ item[q(h).item] # NoItem
    BY <1>5, HandlerShape DEF MoveCommit, TypeInv, LoadedExists, Sound
  <2>2. q(h).item \in Items /\ q(h).to \in State /\ q(h).to \notin ParkedState
    BY <2>1 DEF Moving, State
  <2>3. \A i \in Items : item'[i].state \in ParkedState => item'[i].state = item[i].state
    BY <1>5, <2>1, <2>2, MovesUncancelled DEF MoveCommit, TypeInv
  <2>4. QED
    BY <1>2, <1>5, <2>3, ApprovalsLeftAlone DEF MoveCommit
<1>6. ASSUME NEW h \in Handlers, ReportCommit(h)
      PROVE  ApprovalInv'
  <2>1. "CANNOT_PREPARE" \notin ItemStateCheck
    BY DEF ItemStateCheck
  <2>2. Migrated => "CANNOT_PREPARE" \in ItemStateCheck
    BY <1>6, Zenon DEF ReportCommit
  <2>3. Migrated
    OBVIOUS
  <2>4. QED
    BY <2>1, <2>2, <2>3, Zenon
<1>7. ASSUME NEW h \in Handlers, CancelCommit(h)
      PROVE  ApprovalInv'
  <2>1. q(h) \in Counted /\ Sound(q(h))
    BY <1>7, HandlerShape DEF CancelCommit, TypeInv, LoadedExists
  <2>2. q(h).items \subseteq Items /\ q(h).row \in Approvals \cup {NULL}
    BY <2>1 DEF Counted
  <2>3. ASSUME NEW i \in q(h).items
        PROVE  item'[i].state = "CANCELLED"
    <3>1. item[i] \in [state : State, cancelled : BOOLEAN, dish : Dishes]
      BY <1>7, <2>1, <2>2 DEF CancelCommit, Sound, TypeInv, TypeOK, Item
    <3>2. item'[i] = [item[i] EXCEPT !.state = "CANCELLED", !.cancelled = TRUE]
      BY <1>7, <2>2 DEF CancelCommit
    <3>3. QED
      BY <3>1, <3>2
  <2>4. \A i \in Items : item'[i].state \in ParkedState => item'[i].state = item[i].state
    BY <1>7, <2>3 DEF CancelCommit
  <2>5. CASE q(h).row = NULL
    BY <1>2, <1>7, <2>4, <2>5, ApprovalsLeftAlone DEF CancelCommit
  <2>6. CASE q(h).row # NULL
    <3>1. /\ q(h).row \in Approvals /\ approval[q(h).row] # NoApproval
          /\ approval[q(h).row].item \in q(h).items
      BY <1>7, <2>1, <2>2, <2>6 DEF CancelCommit, Sound
    <3>2. item'[approval[q(h).row].item].state # Parked(approval[q(h).row].kind)
      BY <2>3, <3>1 DEF Parked
    <3>3. QED
      BY <1>7, <2>4, <2>6, <3>1, <3>2, OneApprovalDecided DEF CancelCommit
  <2>7. QED
    BY <2>5, <2>6
<1>8. ASSUME NEW h \in Handlers, NEW a \in Approvals, AskCommit(h, a)
      PROVE  ApprovalInv'
  <2> DEFINE x == [status |-> "PENDING", kind |-> q(h).kind, item |-> q(h).item,
                   stateAt |-> q(h).stateAt, change |-> q(h).change]
  <2>1. q(h) \in Asking /\ item[q(h).item] # NoItem
    BY <1>8, HandlerShape DEF AskCommit, TypeInv, LoadedExists, Sound
  <2>2. /\ q(h).item \in Items /\ q(h).kind \in Kind /\ Parked(q(h).kind) \in State
        /\ x.status = "PENDING" /\ x.item = q(h).item /\ x.kind = q(h).kind
    BY <2>1 DEF Asking, Parked, State
  <2>3. x # NoApproval
    BY <2>2 DEF NoApproval
  <2>4. \A i \in Items : item'[i].state \in ParkedState =>
          item'[i].state = item[i].state \/ (q(h).item = i /\ item'[i].state = Parked(q(h).kind))
    BY <1>8, <2>1, <2>2, MovesUncancelled DEF AskCommit, TypeInv
  <2>5. approval' = [approval EXCEPT ![a] = x] /\ ~HasPending(q(h).kind, q(h).item)
    BY <1>8 DEF AskCommit
  <2>6. approval[a] = NoApproval /\ Ends(h)
    BY <1>8 DEF AskCommit
  <2>7. \A i \in Items : item'[i].state \in ParkedState =>
          \/ item'[i].state = item[i].state
          \/ /\ x.status = "PENDING" /\ x.item = i
             /\ x.kind \in Kind /\ item'[i].state = Parked(x.kind)
    BY <2>2, <2>4
  <2>8. x.status = "PENDING" => ~HasPending(x.kind, x.item)
    BY <2>2, <2>5
  <2> HIDE DEF x
  <2>9. QED
    BY <2>3, <2>5, <2>6, <2>7, <2>8, OneApprovalAdded
<1>9. ASSUME NEW h \in Handlers, RejectCommit(h)
      PROVE  ApprovalInv'
  <2> DEFINE a == q(h).row
  <2>1. a \in Approvals /\ approval[a] # NoApproval
    BY <1>9, HandlerShape DEF RejectCommit, TypeInv, LoadedExists, Sound, Deciding
  <2>2. /\ approval[a].item \in Items /\ approval[a].stateAt \in State
        /\ approval[a].stateAt \notin ParkedState /\ item[approval[a].item] # NoItem
    BY <2>1 DEF TypeInv, TypeOK, AskedExists, Approval, Protected, DirectChange, State
  <2>3. /\ \A i \in Items : item'[i].state \in ParkedState => item'[i].state = item[i].state
        /\ item'[approval[a].item].state \notin ParkedState
    BY <1>9, <2>2, MovesUncancelled DEF RejectCommit, TypeInv
  <2>4. item'[approval[a].item].state # Parked(approval[a].kind)
    BY <2>3 DEF Parked
  <2>5. QED
    BY <1>9, <2>1, <2>3, <2>4, OneApprovalDecided DEF RejectCommit
<1>10. ASSUME NEW h \in Handlers, q(h) \in Changing, item[q(h).item] # NoItem,
              item' = [item EXCEPT ![q(h).item] = Changed(q(h).item, q(h).stateAt, q(h).change)]
       PROVE  /\ \A i \in Items : item'[i].state \in ParkedState => item'[i].state = item[i].state
              /\ item'[q(h).item].state \notin ParkedState
  <2>1. q(h).item \in Items /\ q(h).stateAt \in State /\ q(h).change \in Dishes \cup {NULL}
    BY <1>10 DEF Changing
  <2>2. /\ item'[q(h).item].state \in DirectChange
        /\ \A j \in Items : j # q(h).item => item'[j] = item[j]
    BY <1>10, <2>1, ChangeUncancelled
  <2>3. QED
    BY <2>2 DEF DirectChange
<1>11. ASSUME NEW h \in Handlers, NEW a \in Approvals, DirectChangeCommit(h, a)
       PROVE  ApprovalInv'
  <2> DEFINE x == [status |-> "APPLIED", kind |-> "CHANGE", item |-> q(h).item,
                   stateAt |-> q(h).stateAt, change |-> q(h).change]
  <2>1. q(h) \in Changing /\ item[q(h).item] # NoItem
    BY <1>11, HandlerShape DEF DirectChangeCommit, TypeInv, LoadedExists, Sound
  <2>2. x.status = "APPLIED" /\ x # NoApproval
    BY DEF NoApproval
  <2>3. \A i \in Items : item'[i].state \in ParkedState => item'[i].state = item[i].state
    BY <1>10, <1>11, <2>1 DEF DirectChangeCommit
  <2>4. approval' = [approval EXCEPT ![a] = x] /\ approval[a] = NoApproval /\ Ends(h)
    BY <1>11 DEF DirectChangeCommit
  <2>5. x.status # "PENDING"
    BY <2>2
  <2> HIDE DEF x
  <2>6. QED
    BY <2>2, <2>3, <2>4, <2>5, OneApprovalAdded
<1>12. ASSUME NEW h \in Handlers, ApproveChangeApplies(h)
       PROVE  ApprovalInv'
  <2>1. q(h) \in Changing /\ Sound(q(h))
    BY <1>12, HandlerShape DEF ApproveChangeApplies, TypeInv, LoadedExists
  <2>2. item[q(h).item] # NoItem /\ q(h).item = approval[q(h).row].item
    BY <1>12, <2>1 DEF ApproveChangeApplies, Sound
  <2>3. /\ \A i \in Items : item'[i].state \in ParkedState => item'[i].state = item[i].state
        /\ item'[q(h).item].state \notin ParkedState
    BY <1>10, <1>12, <2>1, <2>2 DEF ApproveChangeApplies
  <2>4. /\ handler'[h].row = q(h).row
        /\ \A g \in Handlers : g # h => handler'[g] = handler[g]
    BY <1>12 DEF ApproveChangeApplies, TypeInv, TypeOK
  <2>5. \A g \in Handlers : handler'[g].pc = "marking" =>
          \/ handler'[g] = handler[g]
          \/ item'[approval[handler'[g].row].item].state # "CHANGE_REQUESTED"
    BY <2>2, <2>3, <2>4
  <2>6. QED
    BY <1>12, <2>3, <2>5, ApprovalsLeftAlone DEF ApproveChangeApplies
<1>13. ASSUME NEW h \in Handlers, ApproveChangeMarks(h)
       PROVE  ApprovalInv'
  <2> DEFINE a == q(h).row
  <2>1. a \in Approvals /\ approval[a] # NoApproval /\ approval[a].kind = "CHANGE"
    BY <1>13, HandlerShape DEF ApproveChangeMarks, TypeInv, LoadedExists, Sound, Deciding
  <2>2. Pending(a) => item[approval[a].item].state # Parked(approval[a].kind)
    BY <1>13, <2>1 DEF ApproveChangeMarks, ApprovalInv, MarkedMovedOn, Parked
  <2>3. QED
    BY <1>13, <2>1, <2>2, OneApprovalDecided DEF ApproveChangeMarks
<1>14. ASSUME NEW h \in Handlers, Arrives(h) \/ CancelCounts(h) \/ RolledBack(h) \/ Crash(h)
       PROVE  ApprovalInv'
  <2>1. UNCHANGED <<item, approval>>
    BY <1>14 DEF Arrives, CancelCounts, RolledBack, Crash, OrderLoad, SendToKitchenLoad,
       AbandonLoad, MoveLoad, ReportLoad, DirectCancelLoad, ForceCancelLoad, AskLoad,
       DirectChangeLoad, ApproveCancellationLoad, RejectLoad, ApproveChangeLoad
  <2>2. ASSUME NEW p, p.pc # "marking", handler' = [handler EXCEPT ![h] = p]
        PROVE  ApprovalInv'
    BY <1>1, <2>1, <2>2 DEF TypeInv, TypeOK
  <2>3. CASE CancelCounts(h)
    BY <2>2, <2>3 DEF CancelCounts
  <2>4. CASE RolledBack(h) \/ Crash(h)
    BY <2>2, <2>4 DEF RolledBack, Crash, Ends, Idle
  <2>5. CASE Arrives(h)
    BY <2>2, <2>5 DEF Arrives, Loads, OrderLoad, SendToKitchenLoad, AbandonLoad, MoveLoad,
       ReportLoad, DirectCancelLoad, ForceCancelLoad, AskLoad, DirectChangeLoad,
       ApproveCancellationLoad, RejectLoad, ApproveChangeLoad
  <2>6. QED
    BY <1>14, <2>3, <2>4, <2>5
<1>15. CASE UNCHANGED vars
  BY <1>1, <1>15 DEF vars
<1>16. QED
  BY <1>3, <1>4, <1>5, <1>6, <1>7, <1>8, <1>9, <1>11, <1>12, <1>13, <1>14, <1>15 DEF Next, Finishes

(* The invariant of the approvals holds on the migrated database.          *)
LEMMA ApprovalHolds == ASSUME TicketsAssumption, Migrated PROVE Spec => []ApprovalInv
<1>1. Init => ApprovalInv
  BY DEF Init, ApprovalInv, ParkedHasPending, OnePendingPerItem, MarkedMovedOn, Pending, Parked,
     Idle, NoItem, NoApproval
<1>2. TypeInv /\ ApprovalInv /\ [Next]_vars => ApprovalInv'
  BY NextApproval
<1>3. QED
  BY <1>1, <1>2, InvHolds, PTL DEF Spec

(* With the migrations applied, no ticket is ever parked without an        *)
(* approval that a manager can decide.                                     *)
THEOREM ParkedHasPendingHolds ==
  ASSUME TicketsAssumption, Migrated PROVE Spec => []ParkedHasPending
<1>1. ApprovalInv => ParkedHasPending
  BY DEF ApprovalInv
<1>2. QED
  BY <1>1, ApprovalHolds, PTL

(* With the migrations applied, at most one cancellation and one change of *)
(* a ticket are pending.                                                   *)
THEOREM OnePendingHolds ==
  ASSUME TicketsAssumption, Migrated PROVE Spec => []OnePendingPerItem
<1>1. ApprovalInv => OnePendingPerItem
  BY DEF ApprovalInv
<1>2. QED
  BY <1>1, ApprovalHolds, PTL
-----------------------------------------------------------------------------
(* Requests come one at a time and none dies half-way, on either database. *)
Serial == (\A g, h \in Handlers : g = h) /\ ~MayCrash

(* The change of a has been applied and its approval is yet to be marked.  *)
Marking(a) == \E h \in Handlers : handler[h].pc = "marking" /\ handler[h].row = a

(* The ticket of a pending approval stays where the approval put it, or    *)
(* has been cancelled, and can go back to READY with the dish it has.      *)
Waits(a) ==
  /\ item[approval[a].item].state \in {Parked(approval[a].kind), "CANCELLED"}
  /\ approval[a].stateAt = "READY" => plate[approval[a].item] = item[approval[a].item].dish

PendingWaits == \A a \in Approvals : Pending(a) => Marking(a) \/ Waits(a)

(* A ticket has one pending approval, whatever its kind.                   *)
OneWaits ==
  \A a, b \in Approvals :
    Pending(a) /\ Pending(b) /\ approval[a].item = approval[b].item => a = b

CancelledSet == \A i \in Items : item[i].state = "CANCELLED" => item[i].cancelled

PlateRight == \A i \in Items : item[i].state \in {"READY", "SERVED"} => plate[i] = item[i].dish

Rows == PendingWaits /\ OneWaits /\ CancelledSet /\ PlateRight /\ ActiveIffChargeable

(* What a request has read is still so when it writes.                     *)
StillTrue(q) ==
  /\ q.pc = "sending" => \E i \in Items : item[i].state = "CONFIRMED" /\ ~item[i].cancelled
  /\ q.pc = "moving" => <<item[q.item].state, q.to>> \in Moves /\ item[q.item].dish = q.dish
  /\ q.pc = "reporting" => item[q.item].state \in ActiveCooking
  /\ q.pc \in {"cancelling", "counted"} => \A i \in q.items : item[i].state # "SERVED"
  /\ q.pc = "counted" => (q.last <=> \A i \in Items \ q.items : ~Chargeable(i))
  /\ q.pc = "asking" => item[q.item].state = q.stateAt
  /\ q.pc = "rejecting" => Pending(q.row)
  /\ q.pc = "changing" /\ q.row = NULL => item[q.item].state = q.stateAt
  /\ q.pc = "changing" /\ q.row # NULL => Pending(q.row)

ReadsHold == \A h \in Handlers, q \in Handler : handler[h] = q => StillTrue(q)

SerialInv == TypeInv /\ Rows /\ ReadsHold

Final == \A i \in Items : item[i].state = "SERVED" => item'[i] = item[i]
-----------------------------------------------------------------------------
(* A request that writes nothing but what it has read.                     *)
LEMMA Reads ==
  ASSUME Serial, SerialInv, TypeInv', NEW h \in Handlers, NEW q,
         handler[h].pc # "marking", StillTrue(q), handler' = [handler EXCEPT ![h] = q],
         UNCHANGED <<item, approval, stock, plate, session>>
  PROVE  SerialInv' /\ Final
<1>1. \A g \in Handlers : g = h
  BY DEF Serial
<1>2. handler'[h] = q
  BY DEF SerialInv, TypeInv, TypeOK
<1>3. StillTrue(q)'
  BY DEF StillTrue, Chargeable, Pending
<1>4. ReadsHold'
  BY <1>1, <1>2, <1>3 DEF ReadsHold
<1>5. \A a \in Approvals : ~Marking(a)
  BY <1>1 DEF Marking
<1>6. PendingWaits'
  BY <1>5 DEF SerialInv, Rows, PendingWaits, Pending, Waits
<1>7. (OneWaits /\ CancelledSet /\ PlateRight /\ ActiveIffChargeable)'
  BY DEF SerialInv, Rows, OneWaits, Pending, CancelledSet, PlateRight, ActiveIffChargeable,
     Chargeable
<1>8. QED
  BY <1>4, <1>6, <1>7 DEF SerialInv, Rows, Final

(* A request that ends leaves nothing read.                                *)
LEMMA Done ==
  ASSUME Serial, SerialInv, TypeInv', NEW h \in Handlers, Ends(h), Rows'
  PROVE  SerialInv'
<1>1. \A g \in Handlers : g = h
  BY DEF Serial
<1>2. handler'[h] = Idle
  BY DEF SerialInv, TypeInv, TypeOK, Ends
<1>3. StillTrue(Idle)'
  BY DEF StillTrue, Idle
<1>4. ReadsHold'
  BY <1>1, <1>2, <1>3 DEF ReadsHold
<1>5. QED
  BY <1>4 DEF SerialInv

(* Some tickets S change; the others, and the approvals that wait for      *)
(* them, stay as they are.                                                 *)
LEMMA Touched ==
  ASSUME SerialInv, NEW S \in SUBSET Items,
         \A j \in Items : j \notin S => item'[j] = item[j] /\ plate'[j] = plate[j],
         \A i \in S : /\ item[i].state # "SERVED"
                      /\ item'[i].state = "CANCELLED" => item'[i].cancelled
                      /\ item'[i].state \in {"READY", "SERVED"} => plate'[i] = item'[i].dish,
         \A a \in Approvals : Pending(a)' =>
           \/ Marking(a)'
           \/ Waits(a)'
           \/ /\ Pending(a) /\ ~Marking(a)
              /\ approval'[a] = approval[a] /\ approval[a].item \notin S,
         OneWaits', ActiveIffChargeable'
  PROVE  Rows' /\ Final
<1>1. CancelledSet' /\ PlateRight'
  BY DEF SerialInv, Rows, CancelledSet, PlateRight
<1>2. ASSUME NEW a \in Approvals, Pending(a), ~Marking(a), approval'[a] = approval[a],
             approval[a].item \notin S
      PROVE  Waits(a)'
  <2>1. approval[a].item \in Items
    BY <1>2 DEF SerialInv, TypeInv, TypeOK, Approval, Pending, NoApproval
  <2>2. Waits(a)
    BY <1>2 DEF SerialInv, Rows, PendingWaits
  <2>3. QED
    BY <1>2, <2>1, <2>2 DEF Waits
<1>3. PendingWaits'
  BY <1>2 DEF PendingWaits
<1>4. Final
  BY DEF Final
<1>5. QED
  BY <1>1, <1>3, <1>4 DEF Rows

(* A ticket that keeps its cancellation and is not cancelled by its state  *)
(* is as chargeable as it was.                                             *)
LEMMA AsChargeable ==
  ASSUME SerialInv, NEW i \in Items, item[i] # NoItem,
         \A j \in Items : j # i => item'[j] = item[j],
         item'[i].cancelled = item[i].cancelled, item'[i].state \in State \ {"CANCELLED"},
         UNCHANGED session
  PROVE  ActiveIffChargeable'
<1>1. item[i].state # "NONE" /\ item'[i].state # "NONE"
  BY DEF SerialInv, TypeInv, TypeOK, Item, State
<1>2. item[i].state = "CANCELLED" => item[i].cancelled
  BY DEF SerialInv, Rows, CancelledSet
<1>3. \A j \in Items : Chargeable(j)' <=> Chargeable(j)
  BY <1>1, <1>2 DEF Chargeable
<1>4. QED
  BY <1>3 DEF SerialInv, Rows, ActiveIffChargeable

(* The same, where one ticket changes and keeps its cancellation.          *)
LEMMA TouchedOne ==
  ASSUME SerialInv, NEW i \in Items, item[i] # NoItem, item[i].state # "SERVED",
         \A j \in Items : j # i => item'[j] = item[j] /\ plate'[j] = plate[j],
         item'[i].cancelled = item[i].cancelled, item'[i].state \in State \ {"CANCELLED"},
         item'[i].state \in {"READY", "SERVED"} => plate'[i] = item'[i].dish,
         \A a \in Approvals : Pending(a)' =>
           \/ Marking(a)'
           \/ Waits(a)'
           \/ /\ Pending(a) /\ ~Marking(a)
              /\ approval'[a] = approval[a] /\ approval[a].item # i,
         OneWaits', UNCHANGED session
  PROVE  Rows' /\ Final
<1>1. ActiveIffChargeable'
  BY AsChargeable
<1> DEFINE S == {i}
<1>2. S \in SUBSET Items /\ \A j : j \in S <=> j = i
  OBVIOUS
<1> HIDE DEF S
<1>3. \A a \in Approvals : Pending(a)' =>
        \/ Marking(a)'
        \/ Waits(a)'
        \/ /\ Pending(a) /\ ~Marking(a)
           /\ approval'[a] = approval[a] /\ approval[a].item \notin S
  BY <1>2
<1>4. \A j \in S : /\ item[j].state # "SERVED"
                   /\ item'[j].state = "CANCELLED" => item'[j].cancelled
                   /\ item'[j].state \in {"READY", "SERVED"} => plate'[j] = item'[j].dish
  BY <1>2
<1>5. \A j \in Items : j \notin S => item'[j] = item[j] /\ plate'[j] = plate[j]
  BY <1>2
<1>6. QED
  BY <1>1, <1>2, <1>3, <1>4, <1>5, Touched

(* Approvals that are decided leave one pending for each ticket.           *)
LEMMA StillOne ==
  ASSUME SerialInv,
         \A a \in Approvals : Pending(a)' => Pending(a) /\ approval'[a] = approval[a]
  PROVE  OneWaits'
BY DEF SerialInv, Rows, OneWaits

(* A ticket that is neither parked nor cancelled has no pending approval,  *)
(* and neither has one that does not exist.                                *)
LEMMA Unawaited ==
  ASSUME Serial, SerialInv, NEW h \in Handlers, handler[h].pc # "marking",
         NEW a \in Approvals, Pending(a)
  PROVE  /\ ~Marking(a) /\ Waits(a)
         /\ approval[a].item \in Items /\ item[approval[a].item] # NoItem
         /\ item[approval[a].item].state
              \in {"CANCELLATION_REQUESTED", "CHANGE_REQUESTED", "CANCELLED"}
<1>1. ~Marking(a)
  BY DEF Marking, Serial
<1>2. Waits(a)
  BY <1>1 DEF SerialInv, Rows, PendingWaits
<1>3. approval[a].item \in Items /\ item[approval[a].item] # NoItem
  BY DEF SerialInv, TypeInv, TypeOK, AskedExists, Approval, Pending, NoApproval
<1>4. QED
  BY <1>1, <1>2, <1>3 DEF Waits, Parked

(* Where SetState takes a ticket.                                          *)
LEMMA MovedTo ==
  ASSUME TypeOK, NEW i \in Items, item[i] # NoItem, NEW s \in State, SetState(i, s)
  PROVE  /\ item'[i].state = s
         /\ item'[i].cancelled = item[i].cancelled /\ item'[i].dish = item[i].dish
         /\ \A j \in Items : j # i => item'[j] = item[j]
<1>1. item[i] \in [state : State, cancelled : BOOLEAN, dish : Dishes]
  BY DEF TypeOK, Item
<1>2. item' = [item EXCEPT ![i] = [item[i] EXCEPT !.state = s]]
  BY DEF SetState
<1>3. QED
  BY <1>1, <1>2 DEF TypeOK
-----------------------------------------------------------------------------
(* What the request in flight has read.                                    *)
LEMMA InFlight ==
  ASSUME Serial, SerialInv, NEW h \in Handlers
  PROVE  handler[h] \in Handler /\ StillTrue(handler[h]) /\ Sound(handler[h])
BY DEF SerialInv, TypeInv, TypeOK, LoadedExists, ReadsHold

LEMMA MoveKeeps ==
  ASSUME Serial, SerialInv, TypeInv', NEW h \in Handlers, MoveCommit(h)
  PROVE  SerialInv' /\ Final
<1>1. PICK q \in Handler : handler[h] = q /\ StillTrue(q) /\ Sound(q)
  BY InFlight
<1>2. q \in Moving
  BY <1>1, ShapeOf DEF MoveCommit
<1> DEFINE i == q.item
<1>3. /\ i \in Items /\ item[i] # NoItem /\ <<item[i].state, q.to>> \in Moves
      /\ item[i].dish = q.dish
  BY <1>1, <1>2 DEF Moving, Sound, StillTrue
<1>4. /\ q.to \in State \ {"CANCELLED"}
      /\ item[i].state \in {"QUEUED", "ACKNOWLEDGED", "IN_PREPARATION", "READY"}
      /\ q.to = "SERVED" => item[i].state = "READY"
  BY <1>3 DEF Moves, State
<1>5. /\ item'[i].state = q.to
      /\ item'[i].cancelled = item[i].cancelled /\ item'[i].dish = item[i].dish
      /\ \A j \in Items : j # i => item'[j] = item[j]
  BY <1>1, <1>3, <1>4, MovedTo DEF MoveCommit, SerialInv, TypeInv
<1>6. plate' = IF q.to = "READY" THEN [plate EXCEPT ![i] = q.dish] ELSE plate
  BY <1>1 DEF MoveCommit
<1>7. /\ \A j \in Items : j # i => plate'[j] = plate[j]
      /\ q.to = "READY" => plate'[i] = item[i].dish
      /\ q.to = "SERVED" => plate'[i] = item[i].dish
  BY <1>3, <1>4, <1>6 DEF SerialInv, TypeInv, TypeOK, Rows, PlateRight
<1>8. UNCHANGED <<approval, session>>
  BY DEF MoveCommit
<1>9. \A a \in Approvals : Pending(a)' =>
        Pending(a) /\ ~Marking(a) /\ approval'[a] = approval[a] /\ approval[a].item # i
  BY <1>1, <1>2, <1>4, <1>8, Unawaited DEF Moving, Pending
<1>10. OneWaits'
  BY <1>9, StillOne
<1> HIDE DEF i
<1>11. Rows' /\ Final
  BY <1>3, <1>4, <1>5, <1>7, <1>8, <1>9, <1>10, TouchedOne
<1>12. QED
  BY <1>11, Done DEF MoveCommit

LEMMA ReportKeeps ==
  ASSUME Serial, SerialInv, TypeInv', NEW h \in Handlers, ReportCommit(h)
  PROVE  SerialInv' /\ Final
<1>1. PICK q \in Handler : handler[h] = q /\ StillTrue(q) /\ Sound(q)
  BY InFlight
<1>2. q \in Reporting
  BY <1>1, ShapeOf DEF ReportCommit
<1> DEFINE i == q.item
<1>3. i \in Items /\ item[i] # NoItem /\ item[i].state \in ActiveCooking
  BY <1>1, <1>2 DEF Reporting, Sound, StillTrue
<1>4. /\ item'[i].state = "CANNOT_PREPARE"
      /\ item'[i].cancelled = item[i].cancelled /\ item'[i].dish = item[i].dish
      /\ \A j \in Items : j # i => item'[j] = item[j]
  <2>1. "CANNOT_PREPARE" \in State
    BY DEF State
  <2>2. QED
    BY <1>1, <1>3, <2>1, MovedTo DEF ReportCommit, SerialInv, TypeInv
<1>5. UNCHANGED <<approval, plate, session>>
  BY DEF ReportCommit
<1>6. \A a \in Approvals : Pending(a)' =>
        Pending(a) /\ ~Marking(a) /\ approval'[a] = approval[a] /\ approval[a].item # i
  BY <1>1, <1>2, <1>3, <1>5, Unawaited DEF Reporting, Pending, ActiveCooking
<1>7. OneWaits'
  BY <1>6, StillOne
<1>8. item[i].state # "SERVED" /\ "CANNOT_PREPARE" \in State
  BY <1>3 DEF ActiveCooking, State
<1> HIDE DEF i
<1>9. Rows' /\ Final
  BY <1>3, <1>4, <1>5, <1>6, <1>7, <1>8, TouchedOne
<1>10. QED
  BY <1>9, Done DEF ReportCommit

LEMMA AskKeeps ==
  ASSUME Serial, SerialInv, TypeInv', NEW h \in Handlers, NEW a \in Approvals, AskCommit(h, a)
  PROVE  SerialInv' /\ Final
<1>1. PICK q \in Handler : handler[h] = q /\ StillTrue(q) /\ Sound(q)
  BY InFlight
<1>2. q \in Asking
  BY <1>1, ShapeOf DEF AskCommit
<1> DEFINE i == q.item
           x == [status |-> "PENDING", kind |-> q.kind, item |-> i, stateAt |-> q.stateAt,
                 change |-> q.change]
<1>3. /\ i \in Items /\ item[i] # NoItem /\ q.kind \in Kind
      /\ item[i].state = q.stateAt /\ q.stateAt \in Protected
  BY <1>1, <1>2 DEF Asking, Sound, StillTrue
<1>4. Parked(q.kind) \in State \ {"CANCELLED", "READY", "SERVED"}
  BY DEF Parked, State
<1>5. /\ item'[i].state = Parked(q.kind)
      /\ item'[i].cancelled = item[i].cancelled /\ item'[i].dish = item[i].dish
      /\ \A j \in Items : j # i => item'[j] = item[j]
  BY <1>1, <1>3, <1>4, MovedTo DEF AskCommit, SerialInv, TypeInv
<1>6. approval' = [approval EXCEPT ![a] = x]
  BY <1>1 DEF AskCommit
<1>7. approval'[a] = x /\ \A b \in Approvals : b # a => approval'[b] = approval[b]
  BY <1>6 DEF SerialInv, TypeInv, TypeOK
<1>8. UNCHANGED <<plate, session>>
  BY DEF AskCommit
<1>9. Waits(a)'
  <2>1. approval'[a].item = i /\ approval'[a].kind = q.kind /\ approval'[a].stateAt = q.stateAt
    BY <1>7
  <2>2. q.stateAt = "READY" => plate'[i] = item'[i].dish
    BY <1>3, <1>5, <1>8 DEF SerialInv, Rows, PlateRight
  <2>3. QED
    BY <1>5, <2>1, <2>2 DEF Waits
<1>10. \A b \in Approvals : Pending(b)' /\ b # a =>
         Pending(b) /\ ~Marking(b) /\ approval'[b] = approval[b] /\ approval[b].item # i
  BY <1>1, <1>2, <1>3, <1>7, Unawaited DEF Asking, Pending, Protected
<1>11. OneWaits'
  <2>1. approval'[a].item = i
    BY <1>7
  <2> HIDE DEF i
  <2>2. QED
    BY <1>10, <2>1 DEF OneWaits, SerialInv, Rows
<1>12. item[i].state # "SERVED"
  BY <1>3 DEF Protected
<1> HIDE DEF i, x
<1>13. Rows' /\ Final
  BY <1>3, <1>4, <1>5, <1>8, <1>9, <1>10, <1>11, <1>12, TouchedOne
<1>14. QED
  BY <1>13, Done DEF AskCommit

LEMMA RejectKeeps ==
  ASSUME Serial, SerialInv, TypeInv', NEW h \in Handlers, RejectCommit(h)
  PROVE  SerialInv' /\ Final
<1>1. PICK q \in Handler : handler[h] = q /\ StillTrue(q) /\ Sound(q)
  BY InFlight
<1>2. q \in Deciding /\ q.pc = "rejecting"
  BY <1>1, ShapeOf DEF RejectCommit
<1> DEFINE a == q.row
           i == approval[a].item
<1>3. a \in Approvals /\ Pending(a) /\ approval[a] # NoApproval
  BY <1>1, <1>2 DEF Deciding, StillTrue, Sound
<1>4. /\ i \in Items /\ item[i] # NoItem /\ Waits(a)
      /\ item[i].state # "SERVED"
  BY <1>1, <1>2, <1>3, Unawaited
<1>5. approval[a].stateAt \in State \ {"CANCELLED", "SERVED"}
  BY <1>3 DEF SerialInv, TypeInv, TypeOK, Approval, Protected, DirectChange, State
<1>6. SetState(i, approval[a].stateAt)
  BY <1>1 DEF RejectCommit
<1>7. /\ item'[i].state = approval[a].stateAt
      /\ item'[i].cancelled = item[i].cancelled /\ item'[i].dish = item[i].dish
      /\ \A j \in Items : j # i => item'[j] = item[j]
  BY <1>4, <1>5, <1>6, MovedTo DEF SerialInv, TypeInv
<1>8. UNCHANGED <<plate, session>>
  BY DEF RejectCommit
<1>9. approval' = [approval EXCEPT ![a].status = "REJECTED"]
  BY <1>1 DEF RejectCommit
<1>10. approval'[a].status = "REJECTED" /\ \A b \in Approvals : b # a => approval'[b] = approval[b]
  BY <1>3, <1>9, ApprovalsDecided DEF SerialInv, TypeInv, TypeOK
<1>11. \A b \in Approvals : Pending(b)' => b # a /\ Pending(b) /\ approval'[b] = approval[b]
  BY <1>10 DEF Pending
<1>12. \A b \in Approvals : Pending(b)' =>
         Pending(b) /\ ~Marking(b) /\ approval'[b] = approval[b] /\ approval[b].item # i
  BY <1>1, <1>2, <1>3, <1>11, Unawaited DEF SerialInv, Rows, OneWaits
<1>13. OneWaits'
  BY <1>11, StillOne
<1>14. item'[i].state \in {"READY", "SERVED"} => plate'[i] = item'[i].dish
  BY <1>4, <1>5, <1>7, <1>8 DEF Waits
<1>15. item'[i].state \in State \ {"CANCELLED"}
  BY <1>5, <1>7
<1> HIDE DEF a, i
<1>16. Rows' /\ Final
  BY <1>4, <1>7, <1>8, <1>12, <1>13, <1>14, <1>15, TouchedOne
<1>17. QED
  BY <1>16, Done DEF RejectCommit

(* Where applyChange takes a ticket that no pending approval but one       *)
(* that is being marked waits for.                                         *)
LEMMA ChangeTouches ==
  ASSUME SerialInv, NEW i \in Items, item[i] # NoItem, item[i].state # "SERVED",
         NEW s \in State, NEW change \in Dishes \cup {NULL},
         item' = [item EXCEPT ![i] = Changed(i, s, change)], UNCHANGED <<plate, session>>,
         \A a \in Approvals : Pending(a)' =>
           \/ Marking(a)'
           \/ /\ Pending(a) /\ ~Marking(a)
              /\ approval'[a] = approval[a] /\ approval[a].item # i,
         OneWaits'
  PROVE  Rows' /\ Final
<1>1. /\ item'[i].cancelled = item[i].cancelled
      /\ item'[i].state \in DirectChange
      /\ \A j \in Items : j # i => item'[j] = item[j]
  BY ChangeUncancelled DEF SerialInv
<1>2. /\ item'[i].state \in State \ {"CANCELLED"}
      /\ item'[i].state \notin {"READY", "SERVED"}
  BY <1>1 DEF DirectChange, State
<1>3. QED
  BY <1>1, <1>2, TouchedOne

LEMMA DirectChangeKeeps ==
  ASSUME Serial, SerialInv, TypeInv', NEW h \in Handlers, NEW a \in Approvals,
         DirectChangeCommit(h, a)
  PROVE  SerialInv' /\ Final
<1>1. PICK q \in Handler : handler[h] = q /\ StillTrue(q) /\ Sound(q)
  BY InFlight
<1>2. q \in Changing /\ q.row = NULL /\ q.stateAt \in DirectChange
  BY <1>1, ShapeOf DEF DirectChangeCommit
<1> DEFINE i == q.item
           x == [status |-> "APPLIED", kind |-> "CHANGE", item |-> i, stateAt |-> q.stateAt,
                 change |-> q.change]
<1>3. /\ i \in Items /\ item[i] # NoItem /\ item[i].state = q.stateAt
      /\ q.stateAt \in State /\ q.change \in Dishes \cup {NULL} /\ q.pc = "changing"
  BY <1>1, <1>2 DEF Changing, Sound, StillTrue
<1>4. approval' = [approval EXCEPT ![a] = x] /\ UNCHANGED <<plate, session>>
  BY <1>1 DEF DirectChangeCommit
<1>5. approval'[a].status = "APPLIED" /\ \A b \in Approvals : b # a => approval'[b] = approval[b]
  BY <1>4 DEF SerialInv, TypeInv, TypeOK
<1>6. \A b \in Approvals : Pending(b)' =>
        Pending(b) /\ ~Marking(b) /\ approval'[b] = approval[b] /\ approval[b].item # i
  BY <1>1, <1>2, <1>3, <1>5, Unawaited DEF Pending, DirectChange
<1>7. OneWaits'
  BY <1>6, StillOne
<1>8. item' = [item EXCEPT ![i] = Changed(i, q.stateAt, q.change)]
  BY <1>1 DEF DirectChangeCommit
<1>9. item[i].state # "SERVED"
  BY <1>2, <1>3 DEF DirectChange
<1> HIDE DEF i, x
<1>10. Rows' /\ Final
  BY <1>3, <1>4, <1>6, <1>7, <1>8, <1>9, ChangeTouches
<1>11. QED
  BY <1>10, Done DEF DirectChangeCommit

LEMMA AppliesKeeps ==
  ASSUME Serial, SerialInv, TypeInv', NEW h \in Handlers, ApproveChangeApplies(h)
  PROVE  SerialInv' /\ Final
<1>1. PICK q \in Handler : handler[h] = q /\ StillTrue(q) /\ Sound(q)
  BY InFlight
<1>2. q \in Changing /\ q.row # NULL /\ q.pc = "changing"
  BY <1>1, ShapeOf DEF ApproveChangeApplies
<1> DEFINE i == q.item
           p == [pc |-> "marking", row |-> q.row]
<1>3. /\ q.row \in Approvals /\ Pending(q.row) /\ i = approval[q.row].item
      /\ q.stateAt \in State /\ q.change \in Dishes \cup {NULL}
  BY <1>1, <1>2 DEF Changing, Sound, StillTrue
<1>4. i \in Items /\ item[i] # NoItem /\ item[i].state # "SERVED"
  BY <1>1, <1>2, <1>3, Unawaited
<1>5. /\ item' = [item EXCEPT ![i] = Changed(i, q.stateAt, q.change)]
      /\ handler' = [handler EXCEPT ![h] = p]
      /\ UNCHANGED <<approval, plate, session>>
  BY <1>1 DEF ApproveChangeApplies
<1>6. handler'[h] = p /\ \A g \in Handlers : g = h
  BY <1>5 DEF SerialInv, TypeInv, TypeOK, Serial
<1>7. Marking(q.row)'
  BY <1>6 DEF Marking
<1>8. \A b \in Approvals : Pending(b)' =>
        \/ Marking(b)'
        \/ /\ Pending(b) /\ ~Marking(b)
           /\ approval'[b] = approval[b] /\ approval[b].item # i
  <2>1. SUFFICES ASSUME NEW b \in Approvals, Pending(b)', b # q.row
                 PROVE  /\ Pending(b) /\ ~Marking(b)
                        /\ approval'[b] = approval[b] /\ approval[b].item # i
    BY <1>7
  <2>2. Pending(b) /\ approval'[b] = approval[b]
    BY <1>5, <2>1 DEF Pending
  <2>3. ~Marking(b)
    BY <1>1, <1>2, <2>2, Unawaited
  <2>4. QED
    BY <1>3, <2>1, <2>2, <2>3 DEF SerialInv, Rows, OneWaits
<1>9. OneWaits'
  BY <1>5, StillOne DEF Pending
<1>10. StillTrue(p)'
  BY DEF StillTrue
<1>11. ReadsHold'
  BY <1>6, <1>10 DEF ReadsHold
<1> HIDE DEF i, p
<1>12. Rows' /\ Final
  BY <1>3, <1>4, <1>5, <1>8, <1>9, ChangeTouches
<1>13. QED
  BY <1>11, <1>12 DEF SerialInv

LEMMA MarksKeeps ==
  ASSUME Serial, SerialInv, TypeInv', NEW h \in Handlers, ApproveChangeMarks(h)
  PROVE  SerialInv' /\ Final
<1>1. PICK q \in Handler : handler[h] = q /\ StillTrue(q) /\ Sound(q)
  BY InFlight
<1>2. q \in Deciding /\ q.pc = "marking"
  BY <1>1, ShapeOf DEF ApproveChangeMarks
<1> DEFINE a == q.row
<1>3. a \in Approvals /\ approval[a] # NoApproval
  BY <1>1, <1>2 DEF Deciding, Sound
<1>4. /\ approval' = [approval EXCEPT ![a].status = "APPLIED"]
      /\ UNCHANGED <<item, plate, session>>
  BY <1>1 DEF ApproveChangeMarks
<1>5. approval'[a].status = "APPLIED" /\ \A b \in Approvals : b # a => approval'[b] = approval[b]
  BY <1>3, <1>4, ApprovalsDecided DEF SerialInv, TypeInv, TypeOK
<1>6. \A b \in Approvals : Pending(b)' => Pending(b) /\ approval'[b] = approval[b] /\ b # a
  BY <1>5 DEF Pending
<1>7. \A b \in Approvals : Marking(b) => b = a
  BY <1>1 DEF Marking, Serial
<1>8. OneWaits'
  BY <1>6, StillOne
<1>9. ActiveIffChargeable'
  BY <1>4 DEF SerialInv, Rows, ActiveIffChargeable, Chargeable
<1> HIDE DEF a
<1>10. Rows' /\ Final
  <2> DEFINE S == {}
  <2>1. S \in SUBSET Items /\ \A j : j \notin S
    OBVIOUS
  <2>2. \A j \in Items : item'[j] = item[j] /\ plate'[j] = plate[j]
    BY <1>4
  <2> HIDE DEF S
  <2>3. QED
    BY <1>6, <1>7, <1>8, <1>9, <2>1, <2>2, Touched
<1>11. QED
  BY <1>10, Done DEF ApproveChangeMarks
-----------------------------------------------------------------------------
LEMMA OrderKeeps ==
  ASSUME Serial, SerialInv, TypeInv', NEW h \in Handlers, NEW new \in SUBSET Items,
         NEW d \in Dishes, NEW auto \in BOOLEAN, OrderCommit(h, new, d, auto)
  PROVE  SerialInv' /\ Final
<1>1. /\ handler[h].pc = "ordering" /\ new # {} /\ \A i \in new : item[i] = NoItem
      /\ session' = "ACTIVE_ORDER" /\ Ends(h) /\ UNCHANGED <<approval, plate>>
  BY DEF OrderCommit
<1>2. \A i \in new : /\ item'[i].state \in {"QUEUED", "CONFIRMED"}
                     /\ item'[i].cancelled = FALSE
  BY DEF OrderCommit, NoItem
<1>3. \A i \in Items : i \notin new => item'[i] = item[i]
  BY DEF OrderCommit
<1>4. \A a \in Approvals : Pending(a)' =>
        Pending(a) /\ ~Marking(a) /\ approval'[a] = approval[a] /\ approval[a].item \notin new
  BY <1>1, Unawaited DEF Pending
<1>5. OneWaits'
  BY <1>4, StillOne
<1>6. ActiveIffChargeable'
  BY <1>1, <1>2 DEF ActiveIffChargeable, Chargeable
<1>7. Rows' /\ Final
  BY <1>1, <1>2, <1>3, <1>4, <1>5, <1>6, Touched DEF NoItem
<1>8. QED
  BY <1>1, <1>7, Done

LEMMA SendKeeps ==
  ASSUME Serial, SerialInv, TypeInv', NEW h \in Handlers, SendToKitchenCommit(h)
  PROVE  SerialInv' /\ Final
<1>1. PICK q \in Handler : handler[h] = q /\ StillTrue(q) /\ Sound(q)
  BY InFlight
<1>2. q.pc = "sending" /\ session' = "ACTIVE_ORDER" /\ Ends(h) /\ UNCHANGED <<approval, plate>>
  BY <1>1 DEF SendToKitchenCommit
<1> DEFINE S == {i \in Items : item[i].state = "CONFIRMED" /\ ~item[i].cancelled}
<1>3. \A i \in Items : i \notin S => item'[i] = item[i]
  BY DEF SendToKitchenCommit
<1>4. ASSUME NEW i \in S
      PROVE  item'[i].state = "QUEUED" /\ item'[i].cancelled = FALSE
  <2>1. item'[i] = [item[i] EXCEPT !.state = "QUEUED"]
    BY DEF SendToKitchenCommit
  <2>2. item[i] \in Item /\ item[i] # NoItem /\ "QUEUED" \in State /\ item[i].cancelled = FALSE
    BY DEF SerialInv, TypeInv, TypeOK, NoItem, State, Item
  <2>3. QED
    BY <2>1, <2>2, ItemMoves
<1>5. \A a \in Approvals : Pending(a)' =>
        Pending(a) /\ ~Marking(a) /\ approval'[a] = approval[a] /\ approval[a].item \notin S
  BY <1>1, <1>2, Unawaited DEF Pending
<1>6. OneWaits'
  BY <1>5, StillOne
<1>7. S # {} /\ S \in SUBSET Items /\ \A i \in S : item[i].state # "SERVED"
  BY <1>1, <1>2 DEF StillTrue
<1> HIDE DEF S
<1>8. ActiveIffChargeable'
  BY <1>2, <1>4, <1>7 DEF ActiveIffChargeable, Chargeable
<1>9. Rows' /\ Final
  BY <1>2, <1>3, <1>4, <1>5, <1>6, <1>7, <1>8, Touched
<1>10. QED
  BY <1>2, <1>9, Done

LEMMA CountsKeeps ==
  ASSUME Serial, SerialInv, TypeInv', NEW h \in Handlers, CancelCounts(h)
  PROVE  SerialInv' /\ Final
<1>1. PICK q \in Handler : handler[h] = q /\ StillTrue(q) /\ Sound(q)
  BY InFlight
<1> DEFINE p == [pc |-> "counted", items |-> q.items, row |-> q.row,
                 last |-> \A i \in Items \ q.items : ~Chargeable(i)]
<1>2. q.pc = "cancelling" /\ handler' = [handler EXCEPT ![h] = p]
      /\ UNCHANGED <<item, approval, stock, plate, session>>
  BY <1>1 DEF CancelCounts
<1>3. StillTrue(p)
  <2>1. /\ p.pc = "counted" /\ p.items = q.items
        /\ p.last = (\A i \in Items \ q.items : ~Chargeable(i))
    OBVIOUS
  <2> HIDE DEF p
  <2>2. \A i \in q.items : item[i].state # "SERVED"
    BY <1>1, <1>2 DEF StillTrue
  <2>3. QED
    BY <2>1, <2>2 DEF StillTrue
<1> HIDE DEF p
<1>4. QED
  BY <1>1, <1>2, <1>3, Reads

LEMMA CancelKeeps ==
  ASSUME Serial, SerialInv, TypeInv', NEW h \in Handlers, CancelCommit(h)
  PROVE  SerialInv' /\ Final
<1>1. PICK q \in Handler : handler[h] = q /\ StillTrue(q) /\ Sound(q)
  BY InFlight
<1>2. q \in Counted /\ q.pc = "counted"
  BY <1>1, ShapeOf DEF CancelCommit
<1> DEFINE S == q.items
<1>3. /\ S \in SUBSET Items /\ \A i \in S : item[i] # NoItem /\ item[i].state # "SERVED"
      /\ q.row \in Approvals \cup {NULL}
      /\ q.row # NULL => approval[q.row] # NoApproval
      /\ q.last <=> \A i \in Items \ S : ~Chargeable(i)
  BY <1>1, <1>2 DEF Counted, Sound, StillTrue
<1>4. /\ item' = [i \in Items |-> IF i \in S
                                 THEN [item[i] EXCEPT !.state = "CANCELLED", !.cancelled = TRUE]
                                 ELSE item[i]]
      /\ approval' = IF q.row = NULL THEN approval
                     ELSE [approval EXCEPT ![q.row].status = "APPROVED"]
      /\ session' = IF q.last THEN "OPEN" ELSE session
      /\ UNCHANGED plate /\ Ends(h)
  BY <1>1 DEF CancelCommit
<1>5. ASSUME NEW i \in S
      PROVE  /\ item'[i].state = "CANCELLED" /\ item'[i].cancelled = TRUE
             /\ item'[i].dish = item[i].dish
  <2>1. item[i] \in [state : State, cancelled : BOOLEAN, dish : Dishes]
    BY <1>3 DEF SerialInv, TypeInv, TypeOK, Item
  <2>2. item'[i] = [item[i] EXCEPT !.state = "CANCELLED", !.cancelled = TRUE]
    BY <1>3, <1>4
  <2>3. QED
    BY <2>1, <2>2
<1>6. \A i \in Items : i \notin S => item'[i] = item[i]
  BY <1>4
<1>7. \A b \in Approvals : Pending(b)' => Pending(b) /\ approval'[b] = approval[b]
  <2>1. CASE q.row = NULL
    BY <1>4, <2>1 DEF Pending
  <2>2. CASE q.row # NULL
    <3>1. /\ q.row \in Approvals /\ approval[q.row] # NoApproval
          /\ approval' = [approval EXCEPT ![q.row].status = "APPROVED"]
      BY <1>3, <1>4, <2>2
    <3>2. /\ approval'[q.row].status = "APPROVED"
          /\ \A b \in Approvals : b # q.row => approval'[b] = approval[b]
      BY <3>1, ApprovalsDecided DEF SerialInv, TypeInv, TypeOK
    <3>3. QED
      BY <3>2 DEF Pending
  <2>3. QED
    BY <2>1, <2>2
<1> HIDE DEF S
<1>8. ASSUME NEW b \in Approvals, Pending(b)'
      PROVE  Waits(b)'
  <2>0. Pending(b) /\ approval'[b] = approval[b]
    BY <1>7, <1>8
  <2>1. /\ Pending(b) /\ approval'[b] = approval[b] /\ Waits(b)
        /\ approval[b].item \in Items
    BY <1>1, <1>2, <2>0, Unawaited
  <2>2. CASE approval[b].item \in S
    <3>1. /\ item'[approval[b].item].state = "CANCELLED"
          /\ item'[approval[b].item].dish = item[approval[b].item].dish
      BY <1>5, <2>2
    <3>2. plate' = plate
      BY <1>4
    <3>3. QED
      BY <2>1, <3>1, <3>2 DEF Waits
  <2>3. CASE approval[b].item \notin S
    BY <1>4, <1>6, <2>1, <2>3 DEF Waits
  <2>4. QED
    BY <2>2, <2>3
<1>9. OneWaits'
  BY <1>7, StillOne
<1>10. ActiveIffChargeable'
  <2>1. \A i \in Items : Chargeable(i)' <=> i \notin S /\ Chargeable(i)
    BY <1>5, <1>6 DEF Chargeable
  <2>2. ActiveIffChargeable /\ session' = IF q.last THEN "OPEN" ELSE session
    BY <1>4 DEF SerialInv, Rows
  <2>3. q.last <=> \A i \in Items : ~(i \notin S /\ Chargeable(i))
    BY <1>3
  <2>4. session' = "ACTIVE_ORDER" <=> \E i \in Items : i \notin S /\ Chargeable(i)
    BY <2>2, <2>3 DEF ActiveIffChargeable
  <2>5. QED
    BY <2>1, <2>4 DEF ActiveIffChargeable
<1>11. Rows' /\ Final
  BY <1>3, <1>4, <1>5, <1>6, <1>8, <1>9, <1>10, Touched
<1>12. QED
  BY <1>4, <1>11, Done

(* A transaction that is refused leaves everything as it was.              *)
LEMMA RollsBack ==
  ASSUME Serial, SerialInv, TypeInv', NEW h \in Handlers, RolledBack(h)
  PROVE  SerialInv' /\ Final
<1>1. StillTrue(Idle)
  BY DEF StillTrue, Idle
<1>2. QED
  BY <1>1, Reads DEF RolledBack, Ends

(* A request that arrives reads what it finds.                             *)
LEMMA Loading ==
  ASSUME Serial, SerialInv, TypeInv', NEW h \in Handlers, NEW q, Loads(h, q), StillTrue(q),
         UNCHANGED <<item, approval, stock, plate, session>>
  PROVE  SerialInv' /\ Final
<1>1. handler[h].pc # "marking" /\ handler' = [handler EXCEPT ![h] = q]
  BY DEF Loads, Idle
<1>2. QED
  BY <1>1, Reads

LEMMA ArrivesKeeps ==
  ASSUME Serial, SerialInv, TypeInv', NEW h \in Handlers, Arrives(h)
  PROVE  SerialInv' /\ Final
<1>1. ASSUME NEW by \in {"WAITER", "GUEST"}, OrderLoad(h, by) PROVE SerialInv' /\ Final
  <2> DEFINE q == [pc |-> "ordering", by |-> by]
  <2>1. StillTrue(q)
    BY DEF StillTrue
  <2>2. QED
    BY <1>1, <2>1, Loading DEF OrderLoad
<1>2. ASSUME SendToKitchenLoad(h) PROVE SerialInv' /\ Final
  <2> DEFINE q == [pc |-> "sending"]
  <2>1. StillTrue(q)
    BY <1>2 DEF StillTrue, SendToKitchenLoad
  <2>2. QED
    BY <1>2, <2>1, Loading DEF SendToKitchenLoad
<1>3. ASSUME NEW S \in SUBSET Items, NEW row, \A i \in S : item[i].state # "SERVED",
             Loads(h, [pc |-> "cancelling", items |-> S, row |-> row]),
             UNCHANGED <<item, approval, stock, plate, session>>
      PROVE  SerialInv' /\ Final
  <2> DEFINE q == [pc |-> "cancelling", items |-> S, row |-> row]
  <2>1. StillTrue(q)
    BY <1>3 DEF StillTrue
  <2>2. QED
    BY <1>3, <2>1, Loading
<1>4. CASE AbandonLoad(h)
  <2>1. \A i \in Items : item[i].state \in OpenKitchen => item[i].state # "SERVED"
    BY DEF OpenKitchen, ActiveCooking
  <2>2. QED
    BY <1>3, <1>4, <2>1 DEF AbandonLoad
<1>5. ASSUME NEW i \in Items, DirectCancelLoad(h, i) \/ ForceCancelLoad(h, i)
      PROVE  SerialInv' /\ Final
  BY <1>3, <1>5 DEF DirectCancelLoad, ForceCancelLoad, DirectCancel
<1>6. ASSUME NEW i \in Items, NEW to \in State, MoveLoad(h, i, to) PROVE SerialInv' /\ Final
  <2> DEFINE q == [pc |-> "moving", item |-> i, to |-> to, dish |-> item[i].dish]
  <2>1. StillTrue(q)
    BY <1>6 DEF StillTrue, MoveLoad
  <2>2. QED
    BY <1>6, <2>1, Loading DEF MoveLoad
<1>7. ASSUME NEW i \in Items, ReportLoad(h, i) PROVE SerialInv' /\ Final
  <2> DEFINE q == [pc |-> "reporting", item |-> i]
  <2>1. StillTrue(q)
    BY <1>7 DEF StillTrue, ReportLoad
  <2>2. QED
    BY <1>7, <2>1, Loading DEF ReportLoad
<1>8. ASSUME NEW kind, NEW i \in Items, NEW change, AskLoad(h, kind, i, change)
      PROVE  SerialInv' /\ Final
  <2> DEFINE q == [pc |-> "asking", kind |-> kind, item |-> i, stateAt |-> item[i].state,
                   change |-> change]
  <2>1. StillTrue(q)
    BY DEF StillTrue
  <2>2. QED
    BY <1>8, <2>1, Loading DEF AskLoad
<1>9. ASSUME NEW i \in Items, NEW change, DirectChangeLoad(h, i, change)
      PROVE  SerialInv' /\ Final
  <2> DEFINE q == [pc |-> "changing", item |-> i, stateAt |-> item[i].state, change |-> change,
                   row |-> NULL]
  <2>1. StillTrue(q)
    BY DEF StillTrue
  <2>2. QED
    BY <1>9, <2>1, Loading DEF DirectChangeLoad
<1>10. ASSUME NEW a \in Approvals, Pending(a), handler[h] = Idle
       PROVE  approval[a].item \in Items /\ item[approval[a].item].state # "SERVED"
  BY <1>10, Unawaited DEF Idle
<1>11. ASSUME NEW a \in Approvals, ApproveCancellationLoad(h, a) PROVE SerialInv' /\ Final
  <2> DEFINE S == {approval[a].item}
  <2>1. S \in SUBSET Items /\ \A i \in S : item[i].state # "SERVED"
    BY <1>10, <1>11 DEF ApproveCancellationLoad, Loads
  <2>2. QED
    BY <1>3, <1>11, <2>1 DEF ApproveCancellationLoad
<1>12. ASSUME NEW a \in Approvals, RejectLoad(h, a) PROVE SerialInv' /\ Final
  <2> DEFINE q == [pc |-> "rejecting", row |-> a]
  <2>1. StillTrue(q)
    BY <1>12 DEF StillTrue, RejectLoad
  <2>2. QED
    BY <1>12, <2>1, Loading DEF RejectLoad
<1>13. ASSUME NEW a \in Approvals, ApproveChangeLoad(h, a) PROVE SerialInv' /\ Final
  <2> DEFINE q == [pc |-> "changing", item |-> approval[a].item,
                   stateAt |-> item[approval[a].item].state, change |-> approval[a].change,
                   row |-> a]
  <2>1. StillTrue(q)
    BY <1>13 DEF StillTrue, ApproveChangeLoad
  <2>2. QED
    BY <1>13, <2>1, Loading DEF ApproveChangeLoad
<1>14. QED
  BY <1>1, <1>2, <1>4, <1>5, <1>6, <1>7, <1>8, <1>9, <1>11, <1>12, <1>13 DEF Arrives

(* Every step keeps the invariant, and the served tickets as they are.     *)
LEMMA NextSerial ==
  ASSUME TicketsAssumption, Serial, SerialInv, [Next]_vars
  PROVE  SerialInv' /\ Final
<1>1. TypeInv'
  BY NextInv DEF SerialInv
<1>2. ASSUME NEW h \in Handlers, Finishes(h) PROVE SerialInv' /\ Final
  BY <1>1, <1>2, OrderKeeps, SendKeeps, MoveKeeps, ReportKeeps, CountsKeeps, CancelKeeps,
     AskKeeps, RejectKeeps, DirectChangeKeeps, AppliesKeeps, MarksKeeps, RollsBack DEF Finishes
<1>3. ASSUME NEW h \in Handlers, Arrives(h) PROVE SerialInv' /\ Final
  BY <1>1, <1>3, ArrivesKeeps
<1>4. ASSUME NEW h \in Handlers, Crash(h) PROVE FALSE
  BY <1>4 DEF Crash, Serial
<1>5. CASE UNCHANGED vars
  <2>1. UNCHANGED <<item, approval, plate, session, handler>>
    BY <1>5 DEF vars
  <2>2. Rows'
    BY <2>1 DEF SerialInv, Rows, PendingWaits, Marking, Waits, OneWaits, CancelledSet,
       PlateRight, ActiveIffChargeable, Chargeable, Pending
  <2>3. \A q \in Handler : StillTrue(q)' <=> StillTrue(q)
    BY <2>1 DEF StillTrue, Chargeable, Pending
  <2>4. ReadsHold'
    BY <2>1, <2>3 DEF SerialInv, ReadsHold
  <2>5. QED
    BY <1>1, <2>1, <2>2, <2>4 DEF SerialInv, Final
<1>6. QED
  BY <1>2, <1>3, <1>4, <1>5 DEF Next

LEMMA InitSerial ==
  ASSUME TicketsAssumption, Init
  PROVE  SerialInv
<1>1. /\ \A i \in Items : item[i] = NoItem /\ item[i].state = "NONE"
      /\ \A a \in Approvals : approval[a] = NoApproval /\ ~Pending(a)
      /\ \A h \in Handlers : handler[h] = Idle
      /\ session = "OPEN"
  BY DEF Init, NoItem, NoApproval, Pending
<1>2. Rows
  BY <1>1 DEF Rows, PendingWaits, OneWaits, CancelledSet, PlateRight, ActiveIffChargeable,
     Chargeable
<1>3. ReadsHold
  BY <1>1 DEF ReadsHold, StillTrue, Idle
<1>4. QED
  BY <1>2, <1>3, InitInv DEF SerialInv

LEMMA SerialInvHolds ==
  ASSUME TicketsAssumption, Serial
  PROVE  Spec => []SerialInv
<1>1. Init => SerialInv
  BY InitSerial
<1>2. SerialInv /\ [Next]_vars => SerialInv'
  BY NextSerial
<1>3. QED
  BY <1>1, <1>2, PTL DEF Spec

(* A guest is served the dish the ticket names (applyChange, markReady,    *)
(* markServed), also where a force-cancelled ticket came back by the       *)
(* rejection of an approval.                                               *)
THEOREM ServedAsOrderedHolds ==
  ASSUME TicketsAssumption, Serial
  PROVE  Spec => []ServedAsOrdered
<1>1. SerialInv => ServedAsOrdered
  BY DEF SerialInv, Rows, PlateRight, ServedAsOrdered
<1>2. QED
  BY <1>1, SerialInvHolds, PTL

(* The session is ACTIVE_ORDER exactly while something on the table is     *)
(* chargeable (confirmOrder, directCancel, forceCancel).                     *)
THEOREM ActiveIffChargeableHolds ==
  ASSUME TicketsAssumption, Serial
  PROVE  Spec => []ActiveIffChargeable
<1>1. SerialInv => ActiveIffChargeable
  BY DEF SerialInv, Rows
<1>2. QED
  BY <1>1, SerialInvHolds, PTL

(* No operation moves, changes or cancels a ticket that has been served    *)
(* (ORDER_ITEM_NOT_MUTABLE).                                               *)
THEOREM ServedIsFinalHolds ==
  ASSUME TicketsAssumption, Serial
  PROVE  Spec => ServedIsFinal
<1>1. SerialInv /\ [Next]_vars =>
        [\A i \in Items : item[i].state = "SERVED" => item'[i] = item[i]]_vars
  BY NextSerial DEF Final
<1>2. QED
  BY <1>1, SerialInvHolds, PTL DEF Spec, ServedIsFinal
=============================================================================
