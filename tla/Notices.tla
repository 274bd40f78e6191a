-------------------------------- MODULE Notices --------------------------------
(***************************************************************************)
(* How staff are told: src/realtime writes a notification for each         *)
(* recipient and shows it on his screen, which joins rooms when it         *)
(* connects; fan-outs go on recipient by recipient and the process may die *)
(* in between.  The events are those of orders, stations, billing, cash    *)
(* custody and the guests' QR code (qr-menu.service.submitServiceRequest). *)
(*                                                                         *)
(* A member has one screen.  What a message says is left out.              *)
(***************************************************************************)
EXTENDS Integers, FiniteSets

CONSTANTS Members,   \* tenant_staff_memberships of one tenant
          Branches,  \* its branches, each with one preparation station
          Roles,     \* role codes that occur
          Events,    \* events that are told
          MaxTold,   \* bound: times an event is counted on one screen
          NULL       \* the SQL null

(* What the constants are.                                                 *)
NoticesAssumption ==
  /\ MaxTold \in Nat /\ NULL \notin Members
  /\ Roles \subseteq {"WAITER", "CASHIER", "MANAGER", "OWNER_ADMIN", "STATION"}

VARIABLES
  staff,  \* memberships with their role and branch
  screen, \* rooms the member's socket has joined, {} when there is none
  inbox,  \* table notifications: "unread" or "read" by event and recipient
  task,   \* the handler that tells an event
  told    \* how often the socket got an event since it connected

vars == <<staff, screen, inbox, task, told>>
-----------------------------------------------------------------------------
(* served: was a waiter once; a revoked role stays as a row.               *)
Staff == [active : BOOLEAN, role : Roles, branch : Branches, served : BOOLEAN]
Kinds == {"WAITERS", "CASHIERS", "MANAGERS", "ONE", "READY", "TICKET"}
Idle == [at |-> "idle"]
Task == [at : {"row", "emit", "room", "done"}, kind : Kinds, branch : Branches, todo : SUBSET Members,
         first : SUBSET Members, now : Members \cup {NULL}]

staffRoom(m) == <<"staff", m>>
branchRoom(b) == <<"branch", b>>
cashierRoom(b) == <<"cashier", b>>
managerRoom(b) == <<"manager", b>>
stationRoom(b) == <<"station", b>>
Rooms == {staffRoom(m) : m \in Members} \cup
         UNION {{branchRoom(b), cashierRoom(b), managerRoom(b), stationRoom(b)} : b \in Branches}

(* Sockets are in rooms, rows belong to members, and a handler is where    *)
(* its kind of event has a next step.                                      *)
TypeOK ==
  /\ staff \in [Members -> Staff] /\ screen \in [Members -> SUBSET Rooms]
  /\ inbox \in [Events -> [Members -> {"none", "unread", "read"}]]
  /\ task \in [Events -> {Idle} \cup Task]
  /\ told \in [Events -> [Members -> 0..MaxTold]]

Init ==
  /\ staff \in [Members -> [active : {TRUE}, role : Roles, branch : Branches, served : BOOLEAN]]
  /\ \A m \in Members : staff[m].served <=> staff[m].role = "WAITER"
  /\ screen = [m \in Members |-> {}] /\ inbox = [e \in Events |-> [m \in Members |-> "none"]]
  /\ task = [e \in Events |-> Idle] /\ told = [e \in Events |-> [m \in Members |-> 0]]
-----------------------------------------------------------------------------
(* handleConnection: the rooms of what the member is at this moment.       *)
RoomsOf(m) ==
  LET s == staff[m]
      leads == s.role \in {"MANAGER", "OWNER_ADMIN"}
  IN {staffRoom(m), branchRoom(s.branch)}
     \cup (IF s.role = "CASHIER" \/ leads THEN {cashierRoom(s.branch)} ELSE {})
     \cup (IF leads THEN {managerRoom(s.branch)} ELSE {})
     \cup (IF s.role = "STATION" THEN {stationRoom(s.branch)} ELSE {})
HandleConnection(m) ==
  /\ staff[m].active /\ screen[m] = {}
  /\ screen' = [screen EXCEPT ![m] = RoomsOf(m)]
  /\ told' = [e \in Events |-> [told[e] EXCEPT ![m] = 0]]
  /\ UNCHANGED <<staff, inbox, task>>
HandleDisconnect(m) ==
  /\ screen[m] # {} /\ screen' = [screen EXCEPT ![m] = {}]
  /\ UNCHANGED <<staff, inbox, task, told>>
(* A manager changes what a member is; nobody tells the socket.            *)
Reassign(m, active, role, branch) ==
  /\ staff' = [staff EXCEPT ![m] = [active |-> active, role |-> role, branch |-> branch,
                                          served |-> staff[m].served \/ role = "WAITER"]]
  /\ UNCHANGED <<screen, inbox, task, told>>

(* dispatch: a message for each room, to whoever is in it.                 *)
Hears(m, rooms) == Cardinality(screen[m] \cap rooms)
Dispatch(e, rooms) ==
  told' = [told EXCEPT ![e] = [m \in Members |->
    IF told[e][m] + Hears(m, rooms) > MaxTold THEN MaxTold ELSE told[e][m] + Hears(m, rooms)]]
-----------------------------------------------------------------------------
(* Whom a fan-out reads; cashiers are those of all branches.               *)
Recipients(kind, b) ==
  {m \in Members :
     /\ staff[m].active
     /\ \/ kind = "WAITERS" /\ staff[m].role = "WAITER" /\ staff[m].branch = b
        \/ kind = "CASHIERS" /\ staff[m].role = "CASHIER"
        \/ kind = "MANAGERS" /\ staff[m].role = "MANAGER" /\ staff[m].branch = b
        \/ kind = "MANAGERS" /\ staff[m].role = "OWNER_ADMIN"}
(* Mutant: the cashiers' room is pinged as well.                           *)
PingCashiersToo(kind, b) ==
  CASE kind = "TICKET" -> {stationRoom(b), branchRoom(b), managerRoom(b)}
    [] kind = "ONE" -> {}
    [] OTHER -> {managerRoom(b), cashierRoom(b)}
(* The room that is pinged once: after a fan-out the managers, when an     *)
(* item is ready they too, before the waiter, and never the station; a new *)
(* ticket goes to three rooms.                                             *)
PingRooms(kind, b) ==
  CASE kind = "TICKET" -> {stationRoom(b), branchRoom(b), managerRoom(b)}
    [] kind = "ONE" -> {}
    [] OTHER -> {managerRoom(b)}
(* submitServiceRequest: the table's waiter, else who opened the seating,  *)
(* else any member of the tenant who is or was a waiter, else nobody; the  *)
(* guest is thanked.                                                       *)
RequestRecipient(assigned, primary) ==
  LET waiters == {m \in Members : staff[m].active /\ staff[m].served}
  IN IF assigned # NULL THEN {{assigned}}
     ELSE IF primary # NULL THEN {{primary}}
     ELSE IF waiters # {} THEN {{m} : m \in waiters} ELSE {{}}

Starts(e, kind, b, who) ==
  /\ task[e] = Idle
  /\ task' = [task EXCEPT ![e] =
       [at |-> IF who # {} THEN "row" ELSE IF kind = "ONE" THEN "done" ELSE "room",
        kind |-> kind, branch |-> b, todo |-> who, first |-> who, now |-> NULL]]
  /\ UNCHANGED <<staff, screen, inbox>>
NotifyAll(e, kind, b) ==
  /\ kind \in {"WAITERS", "CASHIERS", "MANAGERS"} /\ Starts(e, kind, b, Recipients(kind, b))
  /\ UNCHANGED told
SubmitServiceRequest(e, b, assigned, primary) ==
  /\ \E who \in RequestRecipient(assigned, primary) : Starts(e, "ONE", b, who)
  /\ UNCHANGED told
(* emitTicketTransition to READY: managers first, then the waiter.         *)
ItemReady(e, b, waiter) ==
  Starts(e, "READY", b, {waiter}) /\ Dispatch(e, PingRooms("READY", b))
TicketQueued(e, b) == Starts(e, "TICKET", b, {}) /\ UNCHANGED told

(* notify: the row first,                                                  *)
NotifyCreates(e, m) ==
  /\ task[e].at = "row" /\ m \in task[e].todo
  /\ inbox' = [inbox EXCEPT ![e][m] = "unread"]
  /\ task' = [task EXCEPT ![e].at = "emit", ![e].now = m]
  /\ UNCHANGED <<staff, screen, told>>
(* then the recipient's room.                                              *)
NotifyEmits(e) ==
  LET t == task[e] rest == t.todo \ {t.now} IN
  /\ t.at = "emit" /\ Dispatch(e, {staffRoom(t.now)})
  /\ task' = [task EXCEPT ![e] =
       [t EXCEPT !.at = IF rest # {} THEN "row" ELSE IF t.kind \in {"ONE", "READY"} THEN "done"
                        ELSE "room",
                 !.todo = rest, !.now = NULL]]
  /\ UNCHANGED <<staff, screen, inbox>>
Broadcast(e) ==
  /\ task[e].at = "room" /\ Dispatch(e, PingRooms(task[e].kind, task[e].branch))
  /\ task' = [task EXCEPT ![e].at = "done"]
  /\ UNCHANGED <<staff, screen, inbox>>

(* The process dies: handlers are gone and so are the sockets.             *)
Crash ==
  /\ \E e \in Events : task[e].at \notin {"idle", "done"}
  /\ task' = [e \in Events |-> IF task[e] = Idle THEN Idle ELSE [task[e] EXCEPT !.at = "done"]]
  /\ screen' = [m \in Members |-> {}]
  /\ UNCHANGED <<staff, inbox, told>>

MarkRead(m, e) ==
  /\ staff[m].active /\ inbox[e][m] # "none" /\ inbox' = [inbox EXCEPT ![e][m] = "read"]
  /\ UNCHANGED <<staff, screen, task, told>>
MarkAllRead(m) ==
  /\ staff[m].active
  /\ inbox' = [e \in Events |-> [inbox[e] EXCEPT ![m] = IF @ = "none" THEN @ ELSE "read"]]
  /\ UNCHANGED <<staff, screen, task, told>>
ListForUser(m) == {e \in Events : inbox[e][m] # "none"}
-----------------------------------------------------------------------------
Next ==
  \/ \E m \in Members : HandleConnection(m) \/ HandleDisconnect(m) \/ MarkAllRead(m)
  \/ \E m \in Members, active \in BOOLEAN, role \in Roles, b \in Branches : Reassign(m, active, role, b)
  \/ \E e \in Events, kind \in Kinds, b \in Branches : NotifyAll(e, kind, b)
  \/ \E e \in Events, b \in Branches :
       \/ \E x, y \in Members \cup {NULL} : SubmitServiceRequest(e, b, x, y)
       \/ \E m \in Members : ItemReady(e, b, m)
       \/ TicketQueued(e, b)
  \/ \E e \in Events, m \in Members : NotifyCreates(e, m) \/ MarkRead(m, e)
  \/ \E e \in Events : NotifyEmits(e) \/ Broadcast(e)
  \/ Crash

Spec == Init /\ [][Next]_vars
-----------------------------------------------------------------------------
(* Whoever is told something that is meant for him finds it in his inbox   *)
(* afterwards: the fan-out has written a row for each recipient it is done *)
(* with, whatever dies on the way, and a screen that is in no manager's    *)
(* room hears of a fan-out only when its member has the row, and once      *)
(* ("no duplicate cashier toast").                                         *)
ToldOnce ==
  \A e \in Events : task[e] # Idle =>
    LET t == task[e] IN
    /\ \A m \in t.first \ t.todo : inbox[e][m] # "none"
    /\ \A m \in Members :
         (t.kind # "TICKET" /\ screen[m] # {} /\ \A b \in Branches : managerRoom(b) \notin screen[m]) =>
           /\ told[e][m] <= 1
           /\ told[e][m] = 1 => m \in t.first /\ inbox[e][m] # "none"

(* An item that is ready is never announced to a station, which has marked *)
(* it itself.                                                              *)
StationNotTold ==
  \A e \in Events : task[e] # Idle =>
    (task[e].kind = "READY" =>
       \A m \in Members : (\E b \in Branches : stationRoom(b) \in screen[m]) =>
         (m \notin task[e].first => told[e][m] = 0))

NoticesHold == ToldOnce /\ StationNotTold

(* Not so: only who still works there hears what goes on.  A socket keeps  *)
(* the rooms it joined, whatever became of its member, and the cashiers of *)
(* other branches are told too.                                            *)
ScreensAreCurrent == \A m \in Members : screen[m] # {} => staff[m].active /\ screen[m] = RoomsOf(m)
================================================================================
