---------------------------- MODULE SeatingProofs ----------------------------
(***************************************************************************)
(* What Seating promises however many requests overlap, on either          *)
(* database: the tables keep their types, a bill is paid exactly as far as *)
(* its payments go, a session looks paid only if its bill is, and a        *)
(* transfer that Verify.ET confirms once settles one bill.  And, from      *)
(* Serial on, when requests come one at a time and may stop half-way: as   *)
(* far as sendToKitchen has not reopened a session, bills cover what is    *)
(* served, nobody leaves unbilled and no session gets stuck; and the floor *)
(* shows whoever has marked a table.                                       *)
(***************************************************************************)
EXTENDS Seating, FiniteSetTheorems, TLAPS

(* The rows that rows refer to are there.                                  *)
RowsRefer ==
  /\ \A i \in Items : item[i] # NoItem => Exists(item[i].session)
  /\ \A a \in BillAsks : ask[a] # NoAsk => Exists(ask[a].session)
  /\ \A s \in Sessions : bill[s] # NoBill => Exists(s) /\ bill[s].lines # {}

TableTypes ==
  /\ session \in [Sessions -> Session]
  /\ table \in [Tables -> {"AVAILABLE", "OCCUPIED"}]
  /\ item \in [Items -> Item]
  /\ ask \in [BillAsks -> Ask]
  /\ bill \in [Sessions -> Bill]
  /\ settled \in [Sessions -> Nat]

BankTypes ==
  /\ refRow \in [Collectors \X Refs -> Sessions \cup {NULL}]
  /\ transfers \subseteq [ref : Refs, bill : Sessions]
  /\ confirmed \subseteq Refs

TablesOK == TableTypes /\ RowsRefer /\ PaidMatchesPayments /\ PaidSessionHasPaidBill

(* What a request has read is there, and a bill whose version it still has *)
(* is the bill it has read.                                                *)
Fits(q) ==
  /\ q.pc \in {"marking", "ordering", "sending", "asking", "closing"} => Exists(q.session)
  /\ q.pc = "cancelling" => item[q.item] # NoItem
  /\ q.pc = "withdrawing" => ask[q.ask] # NoAsk
  /\ q.pc = "billing" => ask[q.ask] # NoAsk /\ q.lines # {}
  /\ q.pc = "clockingOut" => \A s \in q.sessions : Exists(s)
  /\ q.pc \in {"verifying", "settling"} =>
       /\ bill[q.session] # NoBill /\ q.amount >= 1
       /\ q.paid + q.amount <= Total(bill[q.session])
       /\ q.version <= bill[q.session].version
       /\ q.version = bill[q.session].version => q.paid = bill[q.session].paid
  /\ q.pc = "verifying" => q.ref \in Refs

HandlersOK ==
  /\ handler \in [Handlers -> Handler]
  /\ \A h \in Handlers, q \in Handler : handler[h] = q => Fits(q)

Inv == TablesOK /\ BankTypes /\ HandlersOK

(* No step takes a row away or changes the lines of a bill, and a bill     *)
(* that changes gets a new version.                                        *)
Grows ==
  /\ \A s \in Sessions : Exists(s) => Exists(s)'
  /\ \A i \in Items : item[i] # NoItem => item'[i] # NoItem
  /\ \A a \in BillAsks : ask[a] # NoAsk => ask'[a] # NoAsk
  /\ \A s \in Sessions : bill[s] # NoBill =>
       /\ bill'[s] # NoBill /\ bill'[s].lines = bill[s].lines
       /\ bill'[s] = bill[s] \/ bill'[s].version = bill[s].version + 1
-----------------------------------------------------------------------------
(* What the invariant is for.                                              *)
LEMMA InvParts == Inv => TypeOK /\ PaidMatchesPayments /\ PaidSessionHasPaidBill
  BY DEF Inv, TablesOK, TableTypes, BankTypes, HandlersOK, TypeOK

(* A row is there when it has a status.                                    *)
LEMMA SessionRow ==
  \A x \in Session :
    /\ x # NoSession <=> x.status # "NONE"
    /\ x # NoSession => /\ x \in [seat : Tables \cup Rooms, kind : {"DINE_IN", "COUNTER"},
                                  status : Status, closed : BOOLEAN, forced : BOOLEAN,
                                  marked : BOOLEAN, reopened : BOOLEAN]
  BY DEF Session, NoSession, Status

(* A ticket is there when it has a state.                                  *)
LEMMA ItemRow ==
  \A x \in Item :
    /\ x # NoItem <=> x.state # "NONE"
    /\ x # NoItem => x \in [session : Sessions, state : {"CONFIRMED", "KITCHEN", "SERVED", "CANCELLED"}]
  BY DEF Item, NoItem

(* A bill request is there when it has a status.                           *)
LEMMA AskRow ==
  \A x \in Ask :
    /\ x # NoAsk <=> x.status # "NONE"
    /\ x # NoAsk => x \in [session : Sessions, status : {"PENDING", "CANCELLED", "FULFILLED"}]
  BY DEF Ask, NoAsk

(* A bill is there when it has a status.                                   *)
LEMMA BillRow ==
  \A x \in Bill :
    /\ x # NoBill <=> x.status # "NONE"
    /\ x # NoBill => x \in [status : Payable \cup {"PAID", "CLOSED"}, lines : SUBSET Items,
                            paid : Nat, version : Nat]
  BY DEF Bill, NoBill, Payable

(* A bill with lines is for something.                                     *)
LEMMA TotalPositive ==
  ASSUME NEW b, b.lines \in SUBSET Items
  PROVE  Total(b) \in Nat /\ (b.lines # {} => Total(b) > 0)
<1>1. IsFiniteSet(b.lines)
  BY FS_Subset, SeatingAssumption
<1>2. Cardinality(b.lines) \in Nat
  BY <1>1, FS_CardinalityType
<1>3. Cardinality(b.lines) = 0 <=> b.lines = {}
  BY <1>1, FS_EmptySet
<1>. QED  BY <1>2, <1>3 DEF Total

(* What a request holds, by the method it is in.                           *)
LEMMA HandlerRow ==
  \A q \in Handler :
    /\ q.pc = "seating" => q.seat \in Tables \cup Rooms
    /\ q.pc = "opening" => q.seat \in Tables
    /\ q.pc \in {"opening", "marking", "ordering"} => q.state \in {"CONFIRMED", "KITCHEN"}
    /\ q.pc \in {"marking", "ordering"} =>
         /\ q.session \in Sessions
         /\ q \in [pc : {"marking", "ordering"}, session : Sessions, state : {"CONFIRMED", "KITCHEN"}]
    /\ q.pc \in {"sending", "asking", "closing"} => q.session \in Sessions
    /\ q.pc = "cancelling" => q.item \in Items
    /\ q.pc = "withdrawing" => q.ask \in BillAsks
    /\ q.pc = "billing" => q.ask \in BillAsks /\ q.lines \in SUBSET Items
    /\ q.pc \in {"verifying", "settling"} =>
         /\ q \in [pc : {"verifying", "settling"}, session : Sessions, amount : Nat, paid : Nat,
                   version : Nat, by : Collectors, ref : Refs \cup {NULL}]
    /\ q.pc = "closing" => q.paid \in BOOLEAN
    /\ q.pc = "clockingOut" => q.sessions \in SUBSET Sessions
  BY DEF Handler, Idle

(* What fits goes on fitting while the tables grow.                        *)
LEMMA FitsOn ==
  ASSUME TablesOK, TablesOK', Grows, NEW q \in Handler, Fits(q)
  PROVE  Fits(q)'
<1>1. CASE q.pc \in {"verifying", "settling"}
  <2>. DEFINE b == bill[q.session]
              c == bill'[q.session]
  <2>1. q.session \in Sessions /\ q.version \in Nat
    BY <1>1, HandlerRow
  <2>2. b # NoBill /\ q.version <= b.version /\ (q.version = b.version => q.paid = b.paid)
    BY <1>1 DEF Fits
  <2>3. c # NoBill /\ c.lines = b.lines /\ (c = b \/ c.version = b.version + 1)
    BY <2>1, <2>2 DEF Grows
  <2>4. b.version \in Nat
    BY <2>1, <2>2, BillRow DEF TablesOK, TableTypes
  <2>5. q.version <= c.version /\ (q.version = c.version => q.paid = c.paid)
    BY <2>1, <2>2, <2>3, <2>4
  <2>6. q.amount >= 1 /\ q.paid + q.amount <= Total(c)
    BY <1>1, <2>3 DEF Fits, Total
  <2>. QED  BY <1>1, <2>3, <2>5, <2>6 DEF Fits, Total
<1>2. CASE q.pc \notin {"verifying", "settling"}
  BY <1>2, HandlerRow DEF Fits, Grows
<1>. QED  BY <1>1, <1>2

(* The tables grow, and the request that did it goes on with q or ends.    *)
LEMMA Continuing ==
  ASSUME Inv, TablesOK', Grows, BankTypes', NEW h \in Handlers, NEW q \in Handler,
         handler' = [handler EXCEPT ![h] = q], Fits(q)'
  PROVE  Inv'
<1>1. handler' \in [Handlers -> Handler]
  BY DEF Inv, HandlersOK
<1>2. ASSUME NEW g \in Handlers, NEW r \in Handler, handler'[g] = r
      PROVE  Fits(r)'
  <2>1. CASE g = h
    <3>1. r = q
      BY <1>2, <2>1 DEF Inv, HandlersOK
    <3>. QED  BY <3>1
  <2>2. CASE g # h
    <3>1. handler[g] = r /\ Fits(r)
      BY <1>2, <2>2 DEF Inv, HandlersOK
    <3>. QED  BY <3>1, FitsOn DEF Inv
  <2>. QED  BY <2>1, <2>2
<1>. QED  BY <1>1, <1>2 DEF Inv, HandlersOK

(* The tables grow, and the request that did it ends.                      *)
LEMMA Ending ==
  ASSUME Inv, TablesOK', Grows, BankTypes', NEW h \in Handlers, Ends(h)
  PROVE  Inv'
<1>1. Idle \in Handler
  BY DEF Handler
<1>2. Fits(Idle)'
  BY DEF Fits, Idle
<1>. QED  BY <1>1, <1>2, Continuing DEF Ends

(* No request is touched.                                                  *)
LEMMA Aside ==
  ASSUME Inv, TablesOK', Grows, BankTypes', handler' = handler
  PROVE  Inv'
<1>1. ASSUME NEW g \in Handlers, NEW r \in Handler, handler'[g] = r
      PROVE  Fits(r)'
  BY <1>1, FitsOn DEF Inv, HandlersOK
<1>. QED  BY <1>1 DEF Inv, HandlersOK

(* Nothing is written.                                                     *)
LEMMA Unwritten ==
  ASSUME Inv, UNCHANGED tables
  PROVE  TablesOK' /\ Grows
  BY DEF Inv, tables, TablesOK, TableTypes, RowsRefer, PaidMatchesPayments,
         PaidSessionHasPaidBill, Grows, Exists

(* A request has read what it needs and keeps it.                          *)
LEMMA Loading ==
  ASSUME Inv, NEW h \in Handlers, NEW q \in Handler, Loads(h, q), Fits(q)
  PROVE  Inv'
<1>1. TablesOK' /\ Grows
  BY Unwritten DEF Loads
<1>2. BankTypes'
  BY DEF Loads, banking, Inv, BankTypes
<1>3. Fits(q)'
  BY <1>1, FitsOn DEF Inv
<1>. QED  BY <1>1, <1>2, <1>3, Continuing DEF Loads

(* The status of a session there is changes.                               *)
LEMMA StatusSet ==
  ASSUME session \in [Sessions -> Session], NEW s \in Sessions, Exists(s), NEW status \in Status,
         SetStatus(s, status)
  PROVE  /\ session' \in [Sessions -> Session]
         /\ \A x \in Sessions : Exists(x) => Exists(x)'
         /\ \A x \in Sessions : session'[x].status = IF x = s THEN status ELSE session[x].status
         /\ \A x \in Sessions : Exists(x) =>
              /\ session'[x].seat = session[x].seat /\ session'[x].kind = session[x].kind
              /\ session'[x].closed = session[x].closed /\ session'[x].forced = session[x].forced
              /\ session'[x].marked = session[x].marked
              /\ session'[x].reopened = session[x].reopened
         /\ \A x \in Sessions : x # s => session'[x] = session[x]
<1>. DEFINE r == [session[s] EXCEPT !.status = status]
            Row == [seat : Tables \cup Rooms, kind : {"DINE_IN", "COUNTER"},
                    status : Status, closed : BOOLEAN, forced : BOOLEAN,
                    marked : BOOLEAN, reopened : BOOLEAN]
<1>1. session[s] \in Row
  BY SessionRow DEF Exists
<1>2. r \in Row /\ r.status = status /\ r.seat = session[s].seat /\ r.kind = session[s].kind
      /\ r.closed = session[s].closed /\ r.forced = session[s].forced
      /\ r.marked = session[s].marked /\ r.reopened = session[s].reopened
  BY <1>1
<1>3. r \in Session /\ r # NoSession
  BY <1>2 DEF Session, NoSession, Status
<1>4. session' = [session EXCEPT ![s] = r]
  BY DEF SetStatus
<1>. HIDE DEF r
<1>. QED  BY <1>2, <1>3, <1>4 DEF Exists

(* A session is reopened, or its table is marked.                          *)
LEMMA SessionNoted ==
  ASSUME NEW x \in Session, x # NoSession, NEW b
  PROVE  LET y == Reopened(x, b)
             z == [x EXCEPT !.marked = TRUE] IN
         /\ y \in Session /\ y # NoSession /\ y.status = "ACTIVE_ORDER"
         /\ y.seat = x.seat /\ y.kind = x.kind /\ y.closed = x.closed /\ y.forced = x.forced
         /\ y.marked = x.marked /\ (b # NoBill => y.reopened)
         /\ z \in Session /\ z # NoSession /\ z.status = x.status /\ z.marked
         /\ z.seat = x.seat /\ z.kind = x.kind /\ z.closed = x.closed /\ z.forced = x.forced
         /\ z.reopened = x.reopened
<1>. DEFINE Row == [seat : Tables \cup Rooms, kind : {"DINE_IN", "COUNTER"},
                    status : Status, closed : BOOLEAN, forced : BOOLEAN,
                    marked : BOOLEAN, reopened : BOOLEAN]
            y == [x EXCEPT !.status = "ACTIVE_ORDER", !.reopened = @ \/ b # NoBill]
            z == [x EXCEPT !.marked = TRUE]
<1>1. x \in Row /\ "ACTIVE_ORDER" \in Status /\ (x.reopened \/ b # NoBill) \in BOOLEAN
  BY SessionRow DEF Status
<1>2. /\ y \in Row /\ y.status = "ACTIVE_ORDER" /\ y.seat = x.seat /\ y.kind = x.kind
      /\ y.closed = x.closed /\ y.forced = x.forced /\ y.marked = x.marked
      /\ y.reopened = (x.reopened \/ b # NoBill)
  BY <1>1
<1>3. /\ z \in Row /\ z.status = x.status /\ z.marked /\ z.seat = x.seat /\ z.kind = x.kind
      /\ z.closed = x.closed /\ z.forced = x.forced /\ z.reopened = x.reopened
  BY <1>1
<1>4. \A r \in Row : r \in Session /\ r # NoSession
  BY DEF Session, NoSession, Status
<1>. QED  BY <1>2, <1>3, <1>4 DEF Reopened

(* A session is opened in a free row.                                      *)
LEMMA SessionOpened ==
  ASSUME session \in [Sessions -> Session], NEW s \in Sessions, session[s] = NoSession,
         NEW t \in Tables \cup Rooms, NEW kind \in {"DINE_IN", "COUNTER"},
         NEW status \in {"OPEN", "ACTIVE_ORDER"},
         NEW marked \in BOOLEAN,
         session' = [session EXCEPT ![s] = Opened(t, kind, status, marked)]
  PROVE  /\ session' \in [Sessions -> Session]
         /\ Exists(s)' /\ session'[s].status = status
         /\ \A x \in Sessions : x # s => session'[x] = session[x]
         /\ \A x \in Sessions : Exists(x) => Exists(x)'
<1>1. /\ Opened(t, kind, status, marked) \in Session
      /\ Opened(t, kind, status, marked) # NoSession
      /\ Opened(t, kind, status, marked).status = status
  BY DEF Opened, Session, NoSession, Status
<1>. QED  BY <1>1 DEF Exists

(* Sessions, tickets and bill requests change, but no bill.                *)
LEMMA BillsUntouched ==
  ASSUME TablesOK, UNCHANGED <<bill, settled>>,
         session' \in [Sessions -> Session],
         \A x \in Sessions : Exists(x) => Exists(x)',
         \A x \in Sessions : session'[x].status = "PAID" => session[x].status = "PAID",
         table' \in [Tables -> {"AVAILABLE", "OCCUPIED"}],
         item' \in [Items -> Item],
         \A i \in Items : item[i] # NoItem => item'[i] # NoItem,
         \A i \in Items : (item[i] # NoItem => Exists(item[i].session))',
         ask' \in [BillAsks -> Ask],
         \A a \in BillAsks : ask[a] # NoAsk => ask'[a] # NoAsk,
         \A a \in BillAsks : (ask[a] # NoAsk => Exists(ask[a].session))'
  PROVE  TablesOK' /\ Grows
<1>1. TableTypes'
  BY DEF TablesOK, TableTypes
<1>2. RowsRefer'
  BY DEF TablesOK, RowsRefer
<1>3. PaidMatchesPayments'
  BY DEF TablesOK, PaidMatchesPayments
<1>4. PaidSessionHasPaidBill'
  BY DEF TablesOK, PaidSessionHasPaidBill
<1>5. Grows
  BY DEF Grows
<1>. QED  BY <1>1, <1>2, <1>3, <1>4, <1>5 DEF TablesOK

(* Tickets and bill requests that do not change still refer to a session.  *)
LEMMA TicketsStay ==
  ASSUME TablesOK, item' = item, \A x \in Sessions : Exists(x) => Exists(x)'
  PROVE  /\ item' \in [Items -> Item]
         /\ \A i \in Items : item[i] # NoItem => item'[i] # NoItem
         /\ \A i \in Items : (item[i] # NoItem => Exists(item[i].session))'
<1>1. \A i \in Items : item[i] # NoItem => item[i].session \in Sessions /\ Exists(item[i].session)
  BY ItemRow DEF TablesOK, TableTypes, RowsRefer
<1>2. \A i \in Items : item'[i] # NoItem => Exists(item[i].session)'
  BY <1>1 DEF Exists
<1>. QED  BY <1>2 DEF TablesOK, TableTypes

(* Bill requests that do not change still refer to a session.              *)
LEMMA RequestsStay ==
  ASSUME TablesOK, ask' = ask, \A x \in Sessions : Exists(x) => Exists(x)'
  PROVE  /\ ask' \in [BillAsks -> Ask]
         /\ \A a \in BillAsks : ask[a] # NoAsk => ask'[a] # NoAsk
         /\ \A a \in BillAsks : (ask[a] # NoAsk => Exists(ask[a].session))'
<1>1. \A a \in BillAsks : ask[a] # NoAsk => ask[a].session \in Sessions /\ Exists(ask[a].session)
  BY AskRow DEF TablesOK, TableTypes, RowsRefer
<1>2. \A a \in BillAsks : ask'[a] # NoAsk => Exists(ask[a].session)'
  BY <1>1 DEF Exists
<1>. QED  BY <1>2 DEF TablesOK, TableTypes

(* What request h has read.                                                *)
LEMMA Held ==
  ASSUME Inv, NEW h \in Handlers
  PROVE  \E q \in Handler : handler[h] = q /\ Fits(q)
  BY DEF Inv, HandlersOK

(* No bank row is written.                                                 *)
LEMMA BankStays ==
  ASSUME Inv, UNCHANGED banking
  PROVE  BankTypes'
  BY DEF Inv, banking, BankTypes
-----------------------------------------------------------------------------
(* Seatings and orders.                                                    *)
LEMMA SeatingSteps ==
  ASSUME Inv, NEW h \in Handlers, NEW s \in Sessions, StartCommit(h, s) \/ GuestOpens(h, s)
  PROVE  Inv'
<1>1. PICK q \in Handler : handler[h] = q /\ Fits(q)
  BY Held
<1>2. /\ q.pc \in {"seating", "opening"} /\ q.seat \in Tables \cup Rooms /\ session[s] = NoSession
      /\ q.pc = "opening" => q.state \in {"CONFIRMED", "KITCHEN"}
  BY <1>1, HandlerRow DEF StartCommit, GuestOpens, In, MayInsert
<1>3. PICK status \in {"OPEN", "ACTIVE_ORDER"}, marked \in BOOLEAN :
        session' = [session EXCEPT ![s] = Opened(q.seat, "DINE_IN", status, marked)]
  BY <1>1 DEF StartCommit, GuestOpens
<1>4. session \in [Sessions -> Session]
  BY DEF Inv, TablesOK, TableTypes
<1>5. /\ session' \in [Sessions -> Session] /\ Exists(s)' /\ session'[s].status = status
      /\ \A x \in Sessions : x # s => session'[x] = session[x]
      /\ \A x \in Sessions : Exists(x) => Exists(x)'
  BY <1>2, <1>3, <1>4, SessionOpened
<1>6. UNCHANGED <<item, ask, bill, settled, banking>>
  BY DEF StartCommit, GuestOpens
<1>7. table' \in [Tables -> {"AVAILABLE", "OCCUPIED"}]
  BY DEF StartCommit, GuestOpens, Inv, TablesOK, TableTypes
<1>8. \A x \in Sessions : session'[x].status = "PAID" => session[x].status = "PAID"
  BY <1>5
<1>9. TablesOK' /\ Grows
  <2>. USE DEF Inv
  <2>. QED  BY <1>5, <1>6, <1>7, <1>8, BillsUntouched, TicketsStay, RequestsStay
<1>10. BankTypes'
  BY <1>6, BankStays
<1>11. CASE StartCommit(h, s)
  BY <1>9, <1>10, <1>11, Ending DEF StartCommit
<1>12. CASE GuestOpens(h, s)
  <2>. DEFINE r == [pc |-> "marking", session |-> s, state |-> q.state]
  <2>1. handler' = [handler EXCEPT ![h] = r] /\ q.pc = "opening"
    BY <1>1, <1>12 DEF GuestOpens, In
  <2>2. r \in Handler
    BY <1>2, <2>1 DEF Handler
  <2>3. Fits(r)'
    BY <1>5 DEF Fits
  <2>. HIDE DEF r
  <2>. QED  BY <1>9, <1>10, <2>1, <2>2, <2>3, Continuing
<1>. QED  BY <1>11, <1>12

(* A guest's order goes on, with the table marked.                         *)
LEMMA MarkStep ==
  ASSUME Inv, NEW h \in Handlers, GuestMarks(h)
  PROVE  Inv'
<1>1. PICK q \in Handler : handler[h] = q /\ Fits(q)
  BY Held
<1>. DEFINE Row == [pc : {"marking", "ordering"}, session : Sessions, state : {"CONFIRMED", "KITCHEN"}]
            s == q.session
            r == [q EXCEPT !.pc = "ordering"]
            z == [session[s] EXCEPT !.marked = TRUE]
<1>2. q.pc = "marking" /\ q \in Row /\ s \in Sessions /\ Exists(s)
  BY <1>1, HandlerRow DEF GuestMarks, In, Fits
<1>3. /\ session' = [session EXCEPT ![s] = z] /\ handler' = [handler EXCEPT ![h] = r]
      /\ table' = [table EXCEPT ![session[s].seat] = "OCCUPIED"]
      /\ UNCHANGED <<item, ask, bill, settled, banking>>
  BY <1>1 DEF GuestMarks
<1>4. session \in [Sessions -> Session] /\ table' \in [Tables -> {"AVAILABLE", "OCCUPIED"}]
  BY <1>3 DEF Inv, TablesOK, TableTypes
<1>5. z \in Session /\ z # NoSession /\ z.status = session[s].status
  BY <1>2, <1>4, SessionNoted DEF Exists
<1>6. r \in Row /\ r.pc = "ordering" /\ r.session = s
  BY <1>2
<1>7. r \in Handler
  BY <1>6 DEF Handler
<1>. HIDE DEF z, r
<1>8. /\ session' \in [Sessions -> Session]
      /\ \A x \in Sessions : Exists(x) => Exists(x)'
      /\ \A x \in Sessions : session'[x].status = "PAID" => session[x].status = "PAID"
  BY <1>2, <1>3, <1>4, <1>5 DEF Exists
<1>9. TablesOK' /\ Grows
  <2>. USE DEF Inv
  <2>. QED  BY <1>3, <1>4, <1>8, BillsUntouched, TicketsStay, RequestsStay
<1>10. Fits(r)'
  BY <1>2, <1>6, <1>8 DEF Fits
<1>. QED  BY <1>3, <1>7, <1>9, <1>10, BankStays, Continuing

(* The tickets that change are of sessions there, and one of these sessions*)
(* gets another status.                                                    *)
LEMMA TicketsChange ==
  ASSUME Inv, UNCHANGED <<table, ask, bill, settled>>,
         item' \in [Items -> Item],
         \A i \in Items : item[i] # NoItem => item'[i] # NoItem,
         \A i \in Items : item'[i] # NoItem => Exists(item'[i].session),
         \/ session' = session
         \/ \E s \in Sessions, status \in Status \ {"PAID"} : Exists(s) /\ SetStatus(s, status)
         \/ \E s \in Sessions, r \in Session :
              r # NoSession /\ r.status # "PAID" /\ session' = [session EXCEPT ![s] = r]
  PROVE  TablesOK' /\ Grows
<1>. USE DEF Inv
<1>1. session \in [Sessions -> Session]
  BY DEF TablesOK, TableTypes
<1>2. /\ session' \in [Sessions -> Session]
      /\ \A x \in Sessions : Exists(x) => Exists(x)'
      /\ \A x \in Sessions : session'[x].status = "PAID" => session[x].status = "PAID"
  <2>1. CASE session' = session
    BY <1>1, <2>1 DEF Exists
  <2>2. ASSUME NEW s \in Sessions, NEW status \in Status \ {"PAID"}, Exists(s), SetStatus(s, status)
        PROVE  /\ session' \in [Sessions -> Session]
               /\ \A x \in Sessions : Exists(x) => Exists(x)'
               /\ \A x \in Sessions : session'[x].status = "PAID" => session[x].status = "PAID"
    BY <1>1, <2>2, StatusSet
  <2>3. ASSUME NEW s \in Sessions, NEW r \in Session, r # NoSession, r.status # "PAID",
               session' = [session EXCEPT ![s] = r]
        PROVE  /\ session' \in [Sessions -> Session]
               /\ \A x \in Sessions : Exists(x) => Exists(x)'
               /\ \A x \in Sessions : session'[x].status = "PAID" => session[x].status = "PAID"
    BY <1>1, <2>3 DEF Exists
  <2>. QED  BY <2>1, <2>2, <2>3
<1>3. \A i \in Items : (item[i] # NoItem => Exists(item[i].session))'
  BY <1>2, ItemRow DEF Exists
<1>4. table' \in [Tables -> {"AVAILABLE", "OCCUPIED"}]
  BY DEF TablesOK, TableTypes
<1>. QED  BY <1>2, <1>3, <1>4, RequestsStay, BillsUntouched

(* An order inserts its tickets (confirmOrder, submitGuestOrder).          *)
LEMMA OrderStep ==
  ASSUME Inv, NEW h \in Handlers, NEW new \in SUBSET Items, OrderCommit(h, new)
  PROVE  Inv'
<1>1. PICK q \in Handler : handler[h] = q /\ Fits(q)
  BY Held
<1>2. /\ q.session \in Sessions /\ q.state \in {"CONFIRMED", "KITCHEN"} /\ Exists(q.session)
  BY <1>1, HandlerRow DEF OrderCommit, In, Fits
<1>. DEFINE r == [session |-> q.session, state |-> q.state]
<1>3. /\ item' = [i \in Items |-> IF i \in new THEN r ELSE item[i]]
      /\ SetStatus(q.session, "ACTIVE_ORDER") /\ UNCHANGED <<table, ask, bill, settled, banking>>
      /\ Ends(h)
  BY <1>1 DEF OrderCommit
<1>4. r \in Item /\ r # NoItem /\ r.session = q.session
  BY <1>2 DEF Item, NoItem
<1>5. item' \in [Items -> Item]
  <2>. HIDE DEF r
  <2>. QED  BY <1>3, <1>4 DEF Inv, TablesOK, TableTypes
<1>6. /\ \A i \in Items : item[i] # NoItem => item'[i] # NoItem
      /\ \A i \in Items : item'[i] # NoItem => Exists(item'[i].session)
  <2>. HIDE DEF r
  <2>. QED  BY <1>2, <1>3, <1>4 DEF Inv, TablesOK, RowsRefer
<1>7. "ACTIVE_ORDER" \in Status \ {"PAID"}
  BY DEF Status
<1>8. \E s \in Sessions, status \in Status \ {"PAID"} : Exists(s) /\ SetStatus(s, status)
  BY <1>2, <1>3, <1>7
<1>9. TablesOK' /\ Grows
  BY <1>3, <1>5, <1>6, <1>8, TicketsChange
<1>. QED  BY <1>3, <1>9, BankStays, Ending

(* Tickets go to the kitchen, are served or cancelled.                     *)
LEMMA TicketMoved ==
  ASSUME NEW x \in Item, x # NoItem, NEW st \in {"KITCHEN", "SERVED", "CANCELLED"},
         NEW y, y = [x EXCEPT !.state = st]
  PROVE  y \in Item /\ y # NoItem /\ y.session = x.session /\ y.state = st
<1>. DEFINE Row == [session : Sessions, state : {"CONFIRMED", "KITCHEN", "SERVED", "CANCELLED"}]
<1>1. x \in Row
  BY ItemRow
<1>2. y \in Row /\ y.session = x.session /\ y.state = st
  BY <1>1
<1>3. y \in Item /\ y # NoItem
  BY <1>2 DEF Item, NoItem
<1>. QED  BY <1>2, <1>3

LEMMA TicketMoves ==
  ASSUME NEW x \in Item, x # NoItem, NEW st \in {"KITCHEN", "SERVED", "CANCELLED"}
  PROVE  /\ [x EXCEPT !.state = st] \in Item /\ [x EXCEPT !.state = st] # NoItem
         /\ [x EXCEPT !.state = st].session = x.session /\ [x EXCEPT !.state = st].state = st
  BY TicketMoved, Zenon

(* Some tickets get another state and stay at their sessions.              *)
LEMMA TicketsMove ==
  ASSUME TablesOK, NEW S \in SUBSET Items, \A i \in S : item[i] # NoItem,
         NEW st \in {"KITCHEN", "SERVED", "CANCELLED"},
         \A i \in Items : item'[i] = IF i \in S THEN [item[i] EXCEPT !.state = st] ELSE item[i],
         DOMAIN item' = Items, item' = [i \in Items |-> item'[i]]
  PROVE  /\ item' \in [Items -> Item]
         /\ \A i \in Items : item[i] # NoItem => item'[i] # NoItem
         /\ \A i \in Items : item'[i] # NoItem => Exists(item'[i].session)
         /\ \A i \in Items : item[i] = NoItem => item'[i] = NoItem
         /\ \A i \in Items : item[i] # NoItem => item'[i].session = item[i].session
<1>1. ASSUME NEW i \in S
      PROVE  /\ [item[i] EXCEPT !.state = st] \in Item /\ [item[i] EXCEPT !.state = st] # NoItem
             /\ [item[i] EXCEPT !.state = st].session = item[i].session
  <2>. DEFINE y == [item[i] EXCEPT !.state = st]
  <2>1. item[i] \in Item /\ item[i] # NoItem /\ y = [item[i] EXCEPT !.state = st]
    BY DEF TablesOK, TableTypes
  <2>. HIDE DEF y
  <2>2. y \in Item /\ y # NoItem /\ y.session = item[i].session
    BY <2>1, TicketMoved
  <2>. QED  BY <2>2, Zenon DEF y
<1>2. \A i \in Items : item'[i] \in Item /\ (item[i] # NoItem <=> item'[i] # NoItem)
                        /\ (item[i] # NoItem => item'[i].session = item[i].session)
  BY <1>1 DEF TablesOK, TableTypes
<1>3. \A i \in Items : item'[i] # NoItem => Exists(item'[i].session)
  BY <1>2 DEF TablesOK, RowsRefer
<1>. QED  BY <1>2, <1>3

(* Tickets go to the kitchen (sendToKitchen).                              *)
LEMMA SendStep ==
  ASSUME Inv, NEW h \in Handlers, SendCommit(h)
  PROVE  Inv'
<1>1. PICK q \in Handler : handler[h] = q /\ Fits(q)
  BY Held
<1>2. q.session \in Sessions /\ Exists(q.session)
  BY <1>1, HandlerRow DEF SendCommit, In, Fits
<1>. DEFINE S == Unsent(q.session)
            r == Reopened(session[q.session], bill[q.session])
<1>3. /\ item' = [i \in Items |-> IF i \in S THEN [item[i] EXCEPT !.state = "KITCHEN"] ELSE item[i]]
      /\ session' = [session EXCEPT ![q.session] = r] /\ UNCHANGED <<table, ask, bill, settled, banking>>
      /\ Ends(h)
  BY <1>1 DEF SendCommit
<1>4. S \in SUBSET Items /\ \A i \in S : item[i] # NoItem
  BY DEF Unsent, Chargeable
<1>5. /\ item' \in [Items -> Item]
      /\ \A i \in Items : item[i] # NoItem => item'[i] # NoItem
      /\ \A i \in Items : item'[i] # NoItem => Exists(item'[i].session)
  <2>. HIDE DEF S
  <2>1. item' = [i \in Items |-> item'[i]] /\ DOMAIN item' = Items
    BY <1>3
  <2>2. \A i \in Items : item'[i] = IF i \in S THEN [item[i] EXCEPT !.state = "KITCHEN"] ELSE item[i]
    BY <1>3
  <2>. QED  BY <1>4, <2>1, <2>2, TicketsMove DEF Inv
<1>6. r \in Session /\ r # NoSession /\ r.status # "PAID"
  <2>1. session[q.session] \in Session
    BY <1>2 DEF Inv, TablesOK, TableTypes
  <2>. QED  BY <1>2, <2>1, SessionNoted DEF Exists
<1>. HIDE DEF r, S
<1>7. TablesOK' /\ Grows
  BY <1>2, <1>3, <1>5, <1>6, TicketsChange
<1>. QED  BY <1>3, <1>7, BankStays, Ending

(* One ticket gets another state.                                          *)
LEMMA TicketMovesOn ==
  ASSUME TablesOK, NEW i \in Items, item[i] # NoItem, NEW st \in {"KITCHEN", "SERVED", "CANCELLED"},
         item' = [item EXCEPT ![i].state = st]
  PROVE  /\ item' \in [Items -> Item]
         /\ \A j \in Items : item[j] # NoItem => item'[j] # NoItem
         /\ \A j \in Items : item'[j] # NoItem => Exists(item'[j].session)
         /\ \A j \in Items : item[j] = NoItem => item'[j] = NoItem
         /\ \A j \in Items : item[j] # NoItem => item'[j].session = item[j].session
<1>1. item \in [Items -> Item]
  BY DEF TablesOK, TableTypes
<1>2. item' = [j \in Items |-> item'[j]] /\ DOMAIN item' = Items
  BY <1>1
<1>3. \A j \in Items : item'[j] = IF j \in {i} THEN [item[j] EXCEPT !.state = st] ELSE item[j]
  BY <1>1
<1>4. {i} \in SUBSET Items /\ \A j \in {i} : item[j] # NoItem
  OBVIOUS
<1>. QED  BY <1>2, <1>3, <1>4, TicketsMove

(* A ticket is served.                                                     *)
LEMMA ServeStep ==
  ASSUME Inv, NEW i \in Items, Serve(i)
  PROVE  Inv'
<1>1. item[i] # NoItem
  BY DEF Serve, NoItem
<1>2. /\ item' \in [Items -> Item]
      /\ \A j \in Items : item[j] # NoItem => item'[j] # NoItem
      /\ \A j \in Items : item'[j] # NoItem => Exists(item'[j].session)
  BY <1>1, TicketMovesOn DEF Serve, Inv
<1>3. TablesOK' /\ Grows
  BY <1>2, TicketsChange DEF Serve
<1>. QED  BY <1>3, BankStays, Aside DEF Serve

(* A ticket is cancelled (applyCancel).                                    *)
LEMMA CancelStep ==
  ASSUME Inv, NEW h \in Handlers, CancelCommit(h)
  PROVE  Inv'
<1>1. PICK q \in Handler : handler[h] = q /\ Fits(q)
  BY Held
<1>2. q.item \in Items /\ item[q.item] # NoItem
  BY <1>1, HandlerRow DEF CancelCommit, In, Fits
<1>. DEFINE s == item[q.item].session
<1>3. s \in Sessions /\ Exists(s)
  BY <1>2, ItemRow DEF Inv, TablesOK, TableTypes, RowsRefer
<1>4. /\ item' = [item EXCEPT ![q.item].state = "CANCELLED"]
      /\ session' = session \/ SetStatus(s, "OPEN")
      /\ UNCHANGED <<table, ask, bill, settled, banking>> /\ Ends(h)
  BY <1>1 DEF CancelCommit, SetStatus
<1>5. /\ item' \in [Items -> Item]
      /\ \A j \in Items : item[j] # NoItem => item'[j] # NoItem
      /\ \A j \in Items : item'[j] # NoItem => Exists(item'[j].session)
  BY <1>2, <1>4, TicketMovesOn DEF Inv
<1>6. \/ session' = session
      \/ \E x \in Sessions, status \in Status \ {"PAID"} : Exists(x) /\ SetStatus(x, status)
  <2>1. "OPEN" \in Status \ {"PAID"}
    BY DEF Status
  <2>. HIDE DEF s
  <2>. QED  BY <1>3, <1>4, <2>1
<1>7. TablesOK' /\ Grows
  BY <1>4, <1>5, <1>6, TicketsChange
<1>. QED  BY <1>4, <1>7, BankStays, Ending
-----------------------------------------------------------------------------
(* Bill requests.                                                          *)
LEMMA RequestsChange ==
  ASSUME Inv, UNCHANGED <<table, item, bill, settled>>,
         NEW a \in BillAsks, NEW r \in Ask, r # NoAsk, ask' = [ask EXCEPT ![a] = r],
         NEW s \in Sessions, Exists(s), r.session = s, NEW status \in Status \ {"PAID"},
         SetStatus(s, status)
  PROVE  TablesOK' /\ Grows
<1>. USE DEF Inv
<1>1. session \in [Sessions -> Session] /\ ask \in [BillAsks -> Ask]
      /\ table' \in [Tables -> {"AVAILABLE", "OCCUPIED"}]
  BY DEF TablesOK, TableTypes
<1>2. /\ session' \in [Sessions -> Session]
      /\ \A x \in Sessions : Exists(x) => Exists(x)'
      /\ \A x \in Sessions : session'[x].status = "PAID" => session[x].status = "PAID"
  BY <1>1, StatusSet
<1>3. \A b \in BillAsks : ask'[b] # NoAsk => ask'[b].session \in Sessions /\ Exists(ask'[b].session)
  <2>1. \A b \in BillAsks : ask[b] # NoAsk => ask[b].session \in Sessions /\ Exists(ask[b].session)
    BY <1>1, AskRow DEF TablesOK, RowsRefer
  <2>. QED  BY <1>1, <2>1
<1>4. /\ ask' \in [BillAsks -> Ask]
      /\ \A b \in BillAsks : ask[b] # NoAsk => ask'[b] # NoAsk
      /\ \A b \in BillAsks : (ask[b] # NoAsk => Exists(ask[b].session))'
  BY <1>1, <1>2, <1>3 DEF Exists
<1>. QED  BY <1>1, <1>2, <1>4, TicketsStay, BillsUntouched

(* A bill is requested (requestBill).                                      *)
LEMMA AskStep ==
  ASSUME Inv, NEW h \in Handlers, NEW a \in BillAsks, AskCommit(h, a)
  PROVE  Inv'
<1>1. PICK q \in Handler : handler[h] = q /\ Fits(q)
  BY Held
<1>2. q.session \in Sessions /\ Exists(q.session)
  BY <1>1, HandlerRow DEF AskCommit, In, Fits
<1>. DEFINE r == [session |-> q.session, status |-> "PENDING"]
<1>3. /\ ask' = [ask EXCEPT ![a] = r] /\ SetStatus(q.session, "BILL_REQUESTED")
      /\ UNCHANGED <<table, item, bill, settled, banking>> /\ Ends(h)
  BY <1>1 DEF AskCommit
<1>4. r \in Ask /\ r # NoAsk /\ r.session = q.session
  BY <1>2 DEF Ask, NoAsk
<1>5. "BILL_REQUESTED" \in Status \ {"PAID"}
  BY DEF Status
<1>6. TablesOK' /\ Grows
  <2>. HIDE DEF r
  <2>. QED  BY <1>2, <1>3, <1>4, <1>5, RequestsChange
<1>. QED  BY <1>3, <1>6, BankStays, Ending

(* A bill request that is decided is still one of the same session.        *)
LEMMA RequestDecided ==
  ASSUME NEW x \in Ask, x # NoAsk, NEW st \in {"CANCELLED", "FULFILLED"}
  PROVE  /\ [x EXCEPT !.status = st] \in Ask /\ [x EXCEPT !.status = st] # NoAsk
         /\ [x EXCEPT !.status = st].session = x.session /\ [x EXCEPT !.status = st].status = st
<1>. DEFINE Row == [session : Sessions, status : {"PENDING", "CANCELLED", "FULFILLED"}]
            y == [x EXCEPT !.status = st]
<1>1. x \in Row
  BY AskRow
<1>2. y \in Row /\ y.session = x.session /\ y.status = st
  BY <1>1
<1>3. y \in Ask /\ y # NoAsk
  BY <1>2 DEF Ask, NoAsk
<1>. QED  BY <1>2, <1>3

(* A request for a bill is withdrawn (cancelBillRequest).                  *)
LEMMA WithdrawStep ==
  ASSUME Inv, NEW h \in Handlers, WithdrawCommit(h)
  PROVE  Inv'
<1>1. PICK q \in Handler : handler[h] = q /\ Fits(q)
  BY Held
<1>2. q.ask \in BillAsks /\ ask[q.ask] # NoAsk
  BY <1>1, HandlerRow DEF WithdrawCommit, In, Fits
<1>. DEFINE s == ask[q.ask].session
            r == [ask[q.ask] EXCEPT !.status = "CANCELLED"]
<1>3. s \in Sessions /\ Exists(s) /\ ask[q.ask] \in Ask
  BY <1>2, AskRow DEF Inv, TablesOK, TableTypes, RowsRefer
<1>4. PICK status \in {"ACTIVE_ORDER", "OPEN"} : SetStatus(s, status)
  BY <1>1 DEF WithdrawCommit
<1>5. /\ ask' = [ask EXCEPT ![q.ask] = r]
      /\ UNCHANGED <<table, item, bill, settled, banking>> /\ Ends(h)
  BY <1>1 DEF WithdrawCommit
<1>6. r \in Ask /\ r # NoAsk /\ r.session = s
  BY <1>2, <1>3, RequestDecided
<1>7. status \in Status \ {"PAID"}
  BY DEF Status
<1>8. TablesOK' /\ Grows
  <2>. HIDE DEF r, s
  <2>. QED  BY <1>2, <1>3, <1>4, <1>5, <1>6, <1>7, RequestsChange
<1>. QED  BY <1>5, <1>8, BankStays, Ending
-----------------------------------------------------------------------------
(* Bills and what is paid of them.                                         *)
BillPaid(b, n) ==
  IF b = NoBill THEN n = 0
  ELSE /\ n = b.paid /\ b.paid <= Total(b)
       /\ b.status = "GENERATED" <=> b.paid = 0
       /\ b.status \in {"PAID", "CLOSED"} <=> b.paid = Total(b)

(* The bill of one session changes.                                        *)
LEMMA OneBillChanges ==
  ASSUME Inv,
         item' \in [Items -> Item],
         \A i \in Items : item[i] # NoItem => item'[i] # NoItem,
         \A i \in Items : (item[i] # NoItem => Exists(item[i].session))',
         table' \in [Tables -> {"AVAILABLE", "OCCUPIED"}],
         session' \in [Sessions -> Session],
         \A x \in Sessions : Exists(x) => Exists(x)',
         ask' \in [BillAsks -> Ask],
         \A a \in BillAsks : ask[a] # NoAsk => ask'[a] # NoAsk,
         \A a \in BillAsks : (ask[a] # NoAsk => Exists(ask[a].session))',
         NEW s \in Sessions, Exists(s)', NEW b \in Bill, b # NoBill, b.lines # {},
         bill' = [bill EXCEPT ![s] = b],
         bill[s] # NoBill => b.lines = bill[s].lines /\ (b = bill[s] \/ b.version = bill[s].version + 1),
         NEW n \in Nat, settled' = [settled EXCEPT ![s] = n], BillPaid(b, n),
         bill[s].status \in {"PAID", "CLOSED"} => b.status \in {"PAID", "CLOSED"},
         \A x \in Sessions : session'[x].status = "PAID" =>
           session[x].status = "PAID" \/ (x = s /\ b.status \in {"PAID", "CLOSED"})
  PROVE  TablesOK' /\ Grows
<1>. USE DEF Inv
<1>1. bill \in [Sessions -> Bill] /\ settled \in [Sessions -> Nat]
  BY DEF TablesOK, TableTypes
<1>2. bill'[s] = b /\ settled'[s] = n /\ \A x \in Sessions : x # s => bill'[x] = bill[x] /\ settled'[x] = settled[x]
  BY <1>1
<1>4. TableTypes'
  BY <1>1 DEF TableTypes
<1>5. RowsRefer'
  <2>1. ASSUME NEW x \in Sessions, bill'[x] # NoBill PROVE Exists(x)' /\ bill'[x].lines # {}
    BY <1>2, <2>1 DEF TablesOK, RowsRefer
  <2>. QED  BY <2>1 DEF RowsRefer
<1>6. PaidMatchesPayments'
  <2>1. ASSUME NEW x \in Sessions PROVE BillPaid(bill'[x], settled'[x])
    <3>1. CASE x = s
      BY <1>2, <3>1
    <3>2. CASE x # s
      BY <1>2, <3>2 DEF TablesOK, PaidMatchesPayments, BillPaid
    <3>. QED  BY <3>1, <3>2
  <2>. QED  BY <2>1 DEF PaidMatchesPayments, BillPaid
<1>7. PaidSessionHasPaidBill'
  BY <1>2 DEF TablesOK, PaidSessionHasPaidBill
<1>8. Grows
  BY <1>2 DEF Grows
<1>. QED  BY <1>4, <1>5, <1>6, <1>7, <1>8 DEF TablesOK

(* A bill is generated from what was chargeable (generateBill).            *)
LEMMA BillStep ==
  ASSUME Inv, NEW h \in Handlers, BillCommit(h)
  PROVE  Inv'
<1>1. PICK q \in Handler : handler[h] = q /\ Fits(q)
  BY Held
<1>2. q.ask \in BillAsks /\ ask[q.ask] # NoAsk /\ q.lines \in SUBSET Items /\ q.lines # {}
  BY <1>1, HandlerRow DEF BillCommit, In, Fits
<1>3. PICK s \in Sessions : s = ask[q.ask].session /\ Exists(s) /\ ask[q.ask] \in Ask
  BY <1>2, AskRow DEF Inv, TablesOK, TableTypes, RowsRefer
<1>. DEFINE r == [ask[q.ask] EXCEPT !.status = "FULFILLED"]
            b == [status |-> "GENERATED", lines |-> q.lines, paid |-> 0, version |-> 1]
<1>4. /\ bill[s] = NoBill /\ bill' = [bill EXCEPT ![s] = b] /\ ask' = [ask EXCEPT ![q.ask] = r]
      /\ SetStatus(s, "BILL_READY") /\ UNCHANGED <<table, item, settled, banking>> /\ Ends(h)
  BY <1>1, <1>3 DEF BillCommit
<1>5. r \in Ask /\ r # NoAsk /\ r.session = s
  BY <1>2, <1>3, RequestDecided
<1>6. b \in Bill /\ b # NoBill /\ b.lines # {} /\ b.lines = q.lines
  BY <1>2 DEF Bill, NoBill, Payable
<1>7. BillPaid(b, 0)
  <2>1. Total(b) \in Nat /\ Total(b) > 0
    BY <1>2, <1>6, TotalPositive
  <2>2. b.status = "GENERATED" /\ b.paid = 0
    OBVIOUS
  <2>. HIDE DEF b
  <2>. QED  BY <1>6, <2>1, <2>2 DEF BillPaid
<1>8. settled' = [settled EXCEPT ![s] = 0]
  <2>1. settled[s] = 0
    BY <1>3, <1>4 DEF Inv, TablesOK, PaidMatchesPayments
  <2>. QED  BY <1>4, <2>1 DEF Inv, TablesOK, TableTypes
<1>9. /\ session' \in [Sessions -> Session]
      /\ \A x \in Sessions : Exists(x) => Exists(x)'
      /\ \A x \in Sessions : session'[x].status = "PAID" => session[x].status = "PAID"
  <2>1. session \in [Sessions -> Session] /\ "BILL_READY" \in Status \ {"PAID"}
    BY DEF Inv, TablesOK, TableTypes, Status
  <2>. HIDE DEF b
  <2>. QED  BY <1>3, <1>4, <2>1, StatusSet
<1>10. /\ ask' \in [BillAsks -> Ask]
       /\ \A a \in BillAsks : ask[a] # NoAsk => ask'[a] # NoAsk
       /\ \A a \in BillAsks : (ask[a] # NoAsk => Exists(ask[a].session))'
  <2>. HIDE DEF r
  <2>1. ask \in [BillAsks -> Ask]
    BY DEF Inv, TablesOK, TableTypes
  <2>2. \A a \in BillAsks : ask[a] # NoAsk => ask[a].session \in Sessions /\ Exists(ask[a].session)
    BY <2>1, AskRow DEF Inv, TablesOK, RowsRefer
  <2>3. \A a \in BillAsks : ask'[a] # NoAsk => ask'[a].session \in Sessions /\ Exists(ask'[a].session)
    BY <1>2, <1>3, <1>4, <1>5, <2>1, <2>2
  <2>. QED  BY <1>2, <1>4, <1>5, <1>9, <2>1, <2>3 DEF Exists
<1>11. TablesOK' /\ Grows
  <2>1. table' \in [Tables -> {"AVAILABLE", "OCCUPIED"}] /\ item' = item
    BY <1>4 DEF Inv, TablesOK, TableTypes
  <2>2. bill[s].status \notin {"PAID", "CLOSED"}
    BY <1>4 DEF NoBill
  <2>3. Exists(s)'
    BY <1>3, <1>9
  <2>4. /\ item' \in [Items -> Item]
        /\ \A i \in Items : item[i] # NoItem => item'[i] # NoItem
        /\ \A i \in Items : (item[i] # NoItem => Exists(item[i].session))'
    BY <1>4, <1>9, TicketsStay DEF Inv
  <2>. HIDE DEF b
  <2>. QED  BY <1>3, <1>4, <1>6, <1>7, <1>8, <1>9, <1>10, <2>1, <2>2, <2>3, <2>4, OneBillChanges
<1>. QED  BY <1>4, <1>11, BankStays, Ending

(* A session that is closed is still one.                                  *)
LEMMA SessionCloses ==
  ASSUME NEW x \in Session, x # NoSession
  PROVE  LET y == [x EXCEPT !.status = "CLOSED", !.closed = TRUE]
             z == [x EXCEPT !.status = "CLOSED", !.closed = TRUE, !.forced = TRUE] IN
         /\ y \in Session /\ y # NoSession /\ y.status = "CLOSED"
         /\ z \in Session /\ z # NoSession /\ z.status = "CLOSED"
<1>. DEFINE Row == [seat : Tables \cup Rooms, kind : {"DINE_IN", "COUNTER"},
                    status : Status, closed : BOOLEAN, forced : BOOLEAN,
                    marked : BOOLEAN, reopened : BOOLEAN]
            y == [x EXCEPT !.status = "CLOSED", !.closed = TRUE]
            z == [x EXCEPT !.status = "CLOSED", !.closed = TRUE, !.forced = TRUE]
<1>1. x \in Row /\ "CLOSED" \in Status
  BY SessionRow DEF Status
<1>2. y \in Row /\ y.status = "CLOSED"
  BY <1>1
<1>3. z \in Row /\ z.status = "CLOSED"
  BY <1>1
<1>. QED  BY <1>2, <1>3 DEF Session, NoSession

(* A bill after a payment.                                                 *)
LEMMA PaymentApplied ==
  ASSUME Inv, NEW q \in Handler, q.pc = "settling", Fits(q), Unchanged(q)
  PROVE  LET b == bill[q.session] IN
         /\ Applied(q) \in Bill /\ Applied(q) # NoBill /\ Applied(q).lines = b.lines
         /\ Applied(q).version = b.version + 1
         /\ settled[q.session] + q.amount \in Nat
         /\ BillPaid(Applied(q), settled[q.session] + q.amount)
         /\ Applied(q).status =
              IF q.paid + q.amount >= Total(b) THEN "PAID" ELSE "PAYMENT_PENDING"
<1>. DEFINE b == bill[q.session]
            n == q.paid + q.amount
            c == Applied(q)
            Row == [status : Payable \cup {"PAID", "CLOSED"}, lines : SUBSET Items,
                    paid : Nat, version : Nat]
<1>1. q.session \in Sessions /\ q.amount \in Nat /\ q.paid \in Nat /\ q.version \in Nat
  BY HandlerRow
<1>2. b # NoBill /\ q.amount >= 1 /\ n <= Total(b) /\ q.version = b.version /\ q.paid = b.paid
  BY DEF Fits, Unchanged
<1>3. b \in Row /\ b \in Bill
  BY <1>1, <1>2, BillRow DEF Inv, TablesOK, TableTypes
<1>4. Total(b) \in Nat
  BY <1>3, TotalPositive
<1>5. settled[q.session] = b.paid
  BY <1>1, <1>2 DEF Inv, TablesOK, PaidMatchesPayments
<1>6. c = [b EXCEPT !.status = IF n >= Total(b) THEN "PAID" ELSE "PAYMENT_PENDING",
                    !.paid = IF n >= Total(b) THEN Total(b) ELSE n,
                    !.version = @ + 1]
  BY DEF Applied
<1>. HIDE DEF b, c
<1>7. /\ c \in Row /\ c.lines = b.lines /\ c.version = b.version + 1
      /\ c.status = IF n >= Total(b) THEN "PAID" ELSE "PAYMENT_PENDING"
      /\ c.paid = IF n >= Total(b) THEN Total(b) ELSE n
  <2>. DEFINE st == IF n >= Total(b) THEN "PAID" ELSE "PAYMENT_PENDING"
              m == IF n >= Total(b) THEN Total(b) ELSE n
  <2>1. st \in Payable \cup {"PAID", "CLOSED"} /\ m \in Nat /\ b.version + 1 \in Nat
    BY <1>1, <1>3, <1>4 DEF Payable
  <2>2. c = [b EXCEPT !.status = st, !.paid = m, !.version = b.version + 1]
    BY <1>3, <1>6
  <2>. HIDE DEF st, m
  <2>3. /\ c \in Row /\ c.lines = b.lines /\ c.version = b.version + 1
        /\ c.status = st /\ c.paid = m
    BY <1>3, <2>1, <2>2
  <2>. QED  BY <2>3 DEF st, m
<1>8. Total(c) = Total(b)
  BY <1>7 DEF Total
<1>9. c \in Bill /\ c # NoBill
  BY <1>7 DEF Bill, NoBill, Payable
<1>10. settled[q.session] + q.amount = n /\ n \in Nat /\ n > 0
  BY <1>1, <1>2, <1>5
<1>11. BillPaid(c, n)
  <2>1. CASE n >= Total(b)
    <3>1. n = Total(b) /\ c.status = "PAID" /\ c.paid = n
      BY <1>1, <1>2, <1>4, <1>7, <1>10, <2>1
    <3>. HIDE DEF n
    <3>. QED  BY <3>1, <1>8, <1>9, <1>10 DEF BillPaid
  <2>2. CASE ~(n >= Total(b))
    <3>1. n < Total(b) /\ c.status = "PAYMENT_PENDING" /\ c.paid = n
      BY <1>4, <1>7, <1>10, <2>2
    <3>. HIDE DEF n
    <3>. QED  BY <3>1, <1>4, <1>8, <1>9, <1>10 DEF BillPaid
  <2>. QED  BY <2>1, <2>2
<1>. QED  BY <1>7, <1>9, <1>10, <1>11 DEF b, c

(* The session after a payment.                                            *)
LEMMA SessionSettled ==
  ASSUME Inv, NEW q \in Handler, q.pc = "settling", Fits(q), session' = Settled(q)
  PROVE  /\ session' \in [Sessions -> Session]
         /\ \A x \in Sessions : Exists(x) => Exists(x)'
         /\ \A x \in Sessions : session'[x].status = "PAID" =>
              session[x].status = "PAID"
                \/ (x = q.session /\ q.paid + q.amount >= Total(bill[q.session]))
<1>. DEFINE s == q.session
<1>1. s \in Sessions /\ q.paid + q.amount \in Nat
  BY HandlerRow
<1>2. session \in [Sessions -> Session] /\ bill \in [Sessions -> Bill] /\ Exists(s) /\ bill[s] # NoBill
  BY <1>1 DEF Inv, TablesOK, TableTypes, RowsRefer, Fits
<1>3. Total(bill[s]) \in Nat
  BY <1>1, <1>2, BillRow, TotalPositive
<1>4. CASE q.paid + q.amount < Total(bill[s])
  BY <1>2, <1>4 DEF Settled, Exists
<1>5. CASE ~(q.paid + q.amount < Total(bill[s])) /\ q.ref = NULL /\ session[s].kind = "COUNTER"
  <2>. DEFINE r == [session[s] EXCEPT !.status = "CLOSED", !.closed = TRUE]
  <2>1. r \in Session /\ r # NoSession /\ r.status = "CLOSED"
    BY <1>1, <1>2, SessionCloses DEF Exists
  <2>2. session' = [session EXCEPT ![s] = r]
    BY <1>5 DEF Settled
  <2>. HIDE DEF r
  <2>. QED  BY <1>1, <1>2, <2>1, <2>2 DEF Exists
<1>6. CASE ~(q.paid + q.amount < Total(bill[s])) /\ ~(q.ref = NULL /\ session[s].kind = "COUNTER")
  <2>1. SetStatus(s, "PAID") /\ "PAID" \in Status
    BY <1>6 DEF Settled, SetStatus, Status
  <2>2. /\ session' \in [Sessions -> Session]
        /\ \A x \in Sessions : Exists(x) => Exists(x)'
        /\ \A x \in Sessions : session'[x].status = IF x = s THEN "PAID" ELSE session[x].status
    BY <1>1, <1>2, <2>1, StatusSet
  <2>3. q.paid + q.amount >= Total(bill[s])
    BY <1>1, <1>3, <1>6
  <2>. QED  BY <2>2, <2>3
<1>. QED  BY <1>4, <1>5, <1>6

(* A payment is applied to the bill it was read from (payCash, payTransfer). *)
LEMMA PayStep ==
  ASSUME Inv, NEW h \in Handlers, PayCommit(h)
  PROVE  Inv'
<1>1. PICK q \in Handler : handler[h] = q /\ Fits(q)
  BY Held
<1>2. /\ q.pc = "settling" /\ Unchanged(q) /\ session' = Settled(q) /\ Ends(h)
      /\ bill' = [bill EXCEPT ![q.session] = Applied(q)]
      /\ settled' = [settled EXCEPT ![q.session] = @ + q.amount]
      /\ UNCHANGED <<table, item, ask, confirmed>>
  BY <1>1 DEF PayCommit, In
<1>. DEFINE b == Applied(q)
            n == settled[q.session] + q.amount
<1>3. q.session \in Sessions /\ q.by \in Collectors /\ q.ref \in Refs \cup {NULL}
  BY <1>2, HandlerRow
<1>4. /\ b \in Bill /\ b # NoBill /\ b.lines = bill[q.session].lines
      /\ b.version = bill[q.session].version + 1 /\ n \in Nat /\ BillPaid(b, n)
      /\ q.paid + q.amount >= Total(bill[q.session]) => b.status = "PAID"
  BY <1>1, <1>2, PaymentApplied
<1>5. /\ session' \in [Sessions -> Session]
      /\ \A x \in Sessions : Exists(x) => Exists(x)'
      /\ \A x \in Sessions : session'[x].status = "PAID" =>
           session[x].status = "PAID" \/ (x = q.session /\ b.status = "PAID")
  <2>1. /\ session' \in [Sessions -> Session]
        /\ \A x \in Sessions : Exists(x) => Exists(x)'
        /\ \A x \in Sessions : session'[x].status = "PAID" =>
             session[x].status = "PAID"
               \/ (x = q.session /\ q.paid + q.amount >= Total(bill[q.session]))
    BY <1>1, <1>2, SessionSettled
  <2>. HIDE DEF b
  <2>. QED  BY <1>4, <2>1
<1>6. TablesOK' /\ Grows
  <2>. HIDE DEF b
  <2>1. bill[q.session] # NoBill /\ bill[q.session].lines # {} /\ Exists(q.session)
    BY <1>1, <1>2, <1>3 DEF Fits, Inv, TablesOK, RowsRefer
  <2>2. settled' = [settled EXCEPT ![q.session] = n]
    BY <1>2
  <2>3. bill' = [bill EXCEPT ![q.session] = b]
    BY <1>2 DEF b
  <2>4. bill[q.session].status \notin {"PAID", "CLOSED"}
    BY <1>2 DEF Unchanged, Payable
  <2>5. table' \in [Tables -> {"AVAILABLE", "OCCUPIED"}] /\ Exists(q.session)'
    BY <1>2, <1>3, <1>5, <2>1 DEF Inv, TablesOK, TableTypes
  <2>6. /\ ask' \in [BillAsks -> Ask]
        /\ \A a \in BillAsks : ask[a] # NoAsk => ask'[a] # NoAsk
        /\ \A a \in BillAsks : (ask[a] # NoAsk => Exists(ask[a].session))'
    BY <1>2, <1>5, RequestsStay DEF Inv
  <2>7. /\ b.lines # {}
        /\ \A x \in Sessions : session'[x].status = "PAID" =>
             session[x].status = "PAID" \/ (x = q.session /\ b.status \in {"PAID", "CLOSED"})
    BY <1>2, <1>4, <1>5, <2>1
  <2>8. /\ session' \in [Sessions -> Session]
        /\ \A x \in Sessions : Exists(x) => Exists(x)'
    BY <1>5
  <2>9. /\ item' \in [Items -> Item]
        /\ \A i \in Items : item[i] # NoItem => item'[i] # NoItem
        /\ \A i \in Items : (item[i] # NoItem => Exists(item[i].session))'
    BY <1>2, <1>5, TicketsStay DEF Inv
  <2>. HIDE DEF n
  <2>. QED  BY <1>3, <1>4, <2>9, <2>2, <2>3, <2>4, <2>5, <2>6, <2>7, <2>8, OneBillChanges
<1>7. BankTypes'
  <2>1. refRow' \in [Collectors \X Refs -> Sessions \cup {NULL}]
    BY <1>1, <1>3 DEF PayCommit, Inv, BankTypes
  <2>2. transfers' \subseteq [ref : Refs, bill : Sessions]
    BY <1>1, <1>3 DEF PayCommit, Inv, BankTypes
  <2>. QED  BY <1>2, <2>1, <2>2 DEF Inv, BankTypes
<1>. QED  BY <1>2, <1>6, <1>7, Ending
-----------------------------------------------------------------------------
(* Closing: by the waiter, by a manager, by a clock-out, by a counter sale.*)
LEMMA CloseStep ==
  ASSUME Inv, NEW h \in Handlers, CloseCommit(h)
  PROVE  Inv'
<1>1. PICK q \in Handler : handler[h] = q /\ Fits(q)
  BY Held
<1>2. q.session \in Sessions /\ Exists(q.session)
  BY <1>1, HandlerRow DEF CloseCommit, In, Fits
<1>. DEFINE s == q.session
            r == [session[s] EXCEPT !.status = "CLOSED", !.closed = TRUE]
            b == [bill[s] EXCEPT !.status = "CLOSED", !.version = bill[s].version + 1]
<1>3. /\ session' = [session EXCEPT ![s] = r] /\ Ends(h)
      /\ UNCHANGED <<item, ask, settled, banking>>
      /\ \/ bill' = bill
         \/ bill[s].status = "PAID" /\ bill' = [bill EXCEPT ![s] = b]
  <2>1. bill = [bill EXCEPT ![s] = bill[s]]
    BY DEF Inv, TablesOK, TableTypes
  <2>2. bill' = bill \/ bill' = [bill EXCEPT ![s] = ClosedBill(bill[s])]
    BY <1>1 DEF CloseCommit
  <2>3. ClosedBill(bill[s]) = IF bill[s].status = "PAID" THEN b ELSE bill[s]
    BY DEF ClosedBill
  <2>. HIDE DEF b
  <2>4. bill' = bill \/ (bill[s].status = "PAID" /\ bill' = [bill EXCEPT ![s] = b])
    BY <2>1, <2>2, <2>3
  <2>. QED  BY <1>1, <2>4 DEF CloseCommit
<1>4. session \in [Sessions -> Session] /\ bill \in [Sessions -> Bill] /\ settled \in [Sessions -> Nat]
  BY DEF Inv, TablesOK, TableTypes
<1>5. table' \in [Tables -> {"AVAILABLE", "OCCUPIED"}]
  BY <1>1 DEF CloseCommit, Inv, TablesOK, TableTypes
<1>6. /\ session' \in [Sessions -> Session]
      /\ \A x \in Sessions : Exists(x) => Exists(x)'
      /\ \A x \in Sessions : session'[x].status = "PAID" => session[x].status = "PAID"
  <2>1. r \in Session /\ r # NoSession /\ r.status = "CLOSED"
    BY <1>2, <1>4, SessionCloses DEF Exists
  <2>. HIDE DEF r
  <2>. QED  BY <1>2, <1>3, <1>4, <2>1 DEF Exists
<1>7. /\ item' \in [Items -> Item]
      /\ \A i \in Items : item[i] # NoItem => item'[i] # NoItem
      /\ \A i \in Items : (item[i] # NoItem => Exists(item[i].session))'
  BY <1>3, <1>6, TicketsStay DEF Inv
<1>8. /\ ask' \in [BillAsks -> Ask]
      /\ \A a \in BillAsks : ask[a] # NoAsk => ask'[a] # NoAsk
      /\ \A a \in BillAsks : (ask[a] # NoAsk => Exists(ask[a].session))'
  BY <1>3, <1>6, RequestsStay DEF Inv
<1>9. TablesOK' /\ Grows
  <2>. HIDE DEF r
  <2>1. CASE bill' = bill
    BY <1>3, <1>5, <1>6, <1>7, <1>8, <2>1, BillsUntouched DEF Inv
  <2>2. CASE bill[s].status = "PAID" /\ bill' = [bill EXCEPT ![s] = b]
    <3>. DEFINE Row == [status : Payable \cup {"PAID", "CLOSED"}, lines : SUBSET Items,
                        paid : Nat, version : Nat]
                n == settled[s]
    <3>1. bill[s] \in Row /\ bill[s] # NoBill
      BY <1>2, <1>4, <2>2, BillRow DEF NoBill
    <3>2. /\ b \in Row /\ b.status = "CLOSED" /\ b.lines = bill[s].lines /\ b.paid = bill[s].paid
          /\ b.version = bill[s].version + 1
      <4>1. bill[s].version + 1 \in Nat
        BY <3>1
      <4>. QED  BY <3>1, <4>1
    <3>. HIDE DEF b
    <3>3. b \in Bill /\ b # NoBill
      BY <3>2 DEF Bill, NoBill, Payable
    <3>4. bill[s].lines # {}
      BY <1>2, <3>1 DEF Inv, TablesOK, RowsRefer
    <3>5. BillPaid(b, n)
      <4>1. Total(b) = Total(bill[s])
        BY <3>2 DEF Total
      <4>2. n = bill[s].paid /\ bill[s].paid = Total(bill[s]) /\ bill[s].paid # 0
        BY <1>2, <2>2, <3>1 DEF Inv, TablesOK, PaidMatchesPayments
      <4>. HIDE DEF n
      <4>3. b.paid \in Nat
        BY <3>2
      <4>. QED  BY <3>2, <3>3, <4>1, <4>2, <4>3 DEF BillPaid
    <3>6. settled' = [settled EXCEPT ![s] = n] /\ n \in Nat
      BY <1>2, <1>3, <1>4
    <3>7. Exists(s)' /\ b.lines # {}
      BY <1>2, <1>6, <3>2, <3>4
    <3>8. \A x \in Sessions : session'[x].status = "PAID" =>
            session[x].status = "PAID" \/ (x = s /\ b.status \in {"PAID", "CLOSED"})
      BY <1>6
    <3>9. bill' = [bill EXCEPT ![s] = b]
      BY <2>2 DEF b
    <3>. HIDE DEF n
    <3>. QED  BY <1>2, <1>5, <1>6, <1>7, <1>8, <3>2, <3>3, <3>5, <3>6, <3>7, <3>8, <3>9, OneBillChanges
  <2>. QED  BY <1>3, <2>1, <2>2
<1>. QED  BY <1>3, <1>9, BankStays, Ending

(* A waiter's sessions are closed by force (managerForceClockOut).         *)
LEMMA ClockOutStep ==
  ASSUME Inv, NEW h \in Handlers, ClockOutCommit(h)
  PROVE  Inv'
<1>1. PICK q \in Handler : handler[h] = q /\ Fits(q)
  BY Held
<1>2. q.sessions \in SUBSET Sessions /\ \A s \in q.sessions : Exists(s)
  BY <1>1, HandlerRow DEF ClockOutCommit, In, Fits
<1>3. /\ session' = [s \in Sessions |->
           IF s \in q.sessions
           THEN [session[s] EXCEPT !.status = "CLOSED", !.closed = TRUE, !.forced = TRUE]
           ELSE session[s]]
      /\ Ends(h) /\ UNCHANGED <<item, ask, bill, settled, banking>>
      /\ table' \in [Tables -> {"AVAILABLE", "OCCUPIED"}]
  BY <1>1 DEF ClockOutCommit, Inv, TablesOK, TableTypes
<1>4. session \in [Sessions -> Session]
  BY DEF Inv, TablesOK, TableTypes
<1>5. ASSUME NEW s \in Sessions
      PROVE  /\ session'[s] \in Session /\ (Exists(s) => session'[s] # NoSession)
             /\ session'[s].status = "PAID" => session[s].status = "PAID"
  <2>. DEFINE x == session[s]
              z == [x EXCEPT !.status = "CLOSED", !.closed = TRUE, !.forced = TRUE]
  <2>1. CASE s \in q.sessions
    <3>1. x \in Session /\ x # NoSession
      BY <1>2, <1>4, <2>1 DEF Exists
    <3>. HIDE DEF x
    <3>2. z \in Session /\ z # NoSession /\ z.status = "CLOSED"
      BY <3>1, SessionCloses
    <3>3. session'[s] = z
      BY <1>3, <2>1 DEF x
    <3>. HIDE DEF z
    <3>. QED  BY <3>2, <3>3
  <2>2. CASE s \notin q.sessions
    BY <1>3, <1>4, <2>2 DEF Exists
  <2>. QED  BY <2>1, <2>2
<1>6. session' \in [Sessions -> Session] /\ \A x \in Sessions : Exists(x) => Exists(x)'
  <2>1. session' = [s \in Sessions |-> session'[s]]
    BY <1>3
  <2>. QED  BY <1>5, <2>1 DEF Exists
<1>7. TablesOK' /\ Grows
  BY <1>3, <1>5, <1>6, BillsUntouched, TicketsStay, RequestsStay DEF Inv
<1>. QED  BY <1>3, <1>7, BankStays, Ending

(* A counter sale opens a session with its bill (createCounterSale).       *)
LEMMA CounterStep ==
  ASSUME Inv, NEW s \in Sessions, NEW t \in Tables, NEW new \in SUBSET Items, CounterSale(s, t, new)
  PROVE  Inv'
<1>. DEFINE r == Opened(t, "COUNTER", "OPEN", FALSE)
            b == [status |-> "GENERATED", lines |-> new, paid |-> 0, version |-> 1]
            i0 == [session |-> s, state |-> "SERVED"]
<1>1. /\ session[s] = NoSession /\ new # {} /\ \A i \in new : item[i] = NoItem
      /\ session' = [x \in Sessions |->
           IF x = s THEN r
           ELSE IF x \in ActiveAt(t) THEN [session[x] EXCEPT !.status = "CLOSED", !.closed = TRUE]
           ELSE session[x]]
      /\ item' = [i \in Items |-> IF i \in new THEN i0 ELSE item[i]]
      /\ bill' = [bill EXCEPT ![s] = b]
      /\ UNCHANGED <<table, ask, settled, banking, handler>>
  BY DEF CounterSale
<1>2. /\ session \in [Sessions -> Session] /\ bill \in [Sessions -> Bill] /\ settled \in [Sessions -> Nat]
      /\ item \in [Items -> Item] /\ table' \in [Tables -> {"AVAILABLE", "OCCUPIED"}]
  BY <1>1 DEF Inv, TablesOK, TableTypes
<1>3. ASSUME NEW x \in Sessions
      PROVE  /\ session'[x] \in Session /\ (Exists(x) \/ x = s => session'[x] # NoSession)
             /\ session'[x].status = "PAID" => session[x].status = "PAID"
  <2>. DEFINE y == session[x]
              z == [y EXCEPT !.status = "CLOSED", !.closed = TRUE]
  <2>1. CASE x = s
    <3>1. r \in Session /\ r # NoSession /\ r.status = "OPEN"
      BY DEF Opened, Session, NoSession, Status
    <3>. HIDE DEF r
    <3>. QED  BY <1>1, <2>1, <3>1
  <2>2. CASE x # s /\ x \in ActiveAt(t)
    <3>1. y \in Session /\ y # NoSession
      BY <1>2, <2>2 DEF ActiveAt, Active, Exists
    <3>. HIDE DEF y
    <3>2. z \in Session /\ z # NoSession /\ z.status = "CLOSED"
      BY <3>1, SessionCloses
    <3>3. session'[x] = z
      BY <1>1, <2>2 DEF y
    <3>. HIDE DEF z
    <3>. QED  BY <3>2, <3>3
  <2>3. CASE x # s /\ x \notin ActiveAt(t)
    BY <1>1, <1>2, <2>3 DEF Exists
  <2>. QED  BY <2>1, <2>2, <2>3
<1>4. /\ session' \in [Sessions -> Session] /\ Exists(s)'
      /\ \A x \in Sessions : Exists(x) => Exists(x)'
      /\ \A x \in Sessions : session'[x].status = "PAID" => session[x].status = "PAID"
  <2>1. session' = [x \in Sessions |-> session'[x]]
    BY <1>1
  <2>. QED  BY <1>3, <2>1 DEF Exists
<1>5. /\ item' \in [Items -> Item]
      /\ \A i \in Items : item[i] # NoItem => item'[i] # NoItem
      /\ \A i \in Items : (item[i] # NoItem => Exists(item[i].session))'
  <2>1. i0 \in Item /\ i0 # NoItem /\ i0.session = s
    BY DEF Item, NoItem
  <2>. HIDE DEF i0, r
  <2>2. item' \in [Items -> Item] /\ \A i \in Items : item[i] # NoItem => item'[i] # NoItem
    BY <1>1, <1>2, <2>1
  <2>3. ASSUME NEW i \in Items, item'[i] # NoItem PROVE Exists(item[i].session)'
    <3>1. CASE i \in new
      <4>1. item'[i].session = s
        BY <1>1, <2>1, <3>1
      <4>. QED  BY <1>4, <4>1 DEF Exists
    <3>2. CASE i \notin new
      <4>1. item'[i] = item[i] /\ item[i] # NoItem /\ item[i] \in Item
        BY <1>1, <1>2, <2>3, <3>2
      <4>2. item'[i] = item[i] /\ item[i].session \in Sessions /\ Exists(item[i].session)
        BY <4>1, ItemRow DEF Inv, TablesOK, RowsRefer
      <4>. QED  BY <1>4, <4>2 DEF Exists
    <3>. QED  BY <3>1, <3>2
  <2>. QED  BY <2>2, <2>3
<1>6. /\ ask' \in [BillAsks -> Ask]
      /\ \A a \in BillAsks : ask[a] # NoAsk => ask'[a] # NoAsk
      /\ \A a \in BillAsks : (ask[a] # NoAsk => Exists(ask[a].session))'
  BY <1>1, <1>4, RequestsStay DEF Inv
<1>7. bill[s] = NoBill /\ settled[s] = 0 /\ bill[s].status = "NONE"
  <2>1. session[s] = NoSession
    BY <1>1
  <2>. HIDE DEF b, r, i0
  <2>2. bill[s] = NoBill
    BY <2>1 DEF Inv, TablesOK, RowsRefer, Exists
  <2>3. settled[s] = 0
    BY <2>2 DEF Inv, TablesOK, PaidMatchesPayments
  <2>. QED  BY <2>2, <2>3 DEF NoBill
<1>8. b \in Bill /\ b # NoBill /\ b.lines # {} /\ b.status = "GENERATED" /\ b.paid = 0
  BY <1>1 DEF Bill, NoBill, Payable
<1>9. BillPaid(b, 0)
  <2>1. Total(b) \in Nat /\ Total(b) > 0
    BY <1>1, TotalPositive
  <2>. HIDE DEF b
  <2>. QED  BY <1>8, <2>1 DEF BillPaid
<1>10. TablesOK' /\ Grows
  <2>. HIDE DEF b, r, i0
  <2>1. settled' = [settled EXCEPT ![s] = 0]
    BY <1>1, <1>2, <1>7
  <2>2. \A x \in Sessions : session'[x].status = "PAID" =>
          session[x].status = "PAID" \/ (x = s /\ b.status \in {"PAID", "CLOSED"})
    BY <1>4
  <2>3. bill' = [bill EXCEPT ![s] = b]
    BY <1>1
  <2>. QED  BY <1>2, <1>4, <1>5, <1>6, <1>7, <1>8, <1>9, <2>1, <2>2, <2>3, OneBillChanges
<1>. QED  BY <1>1, <1>10, BankStays, Aside
-----------------------------------------------------------------------------
(* Requests arrive.                                                        *)
LEMMA ArrivalsAtSeats ==
  ASSUME Inv, NEW h \in Handlers
  PROVE  /\ \A t \in Tables \cup Rooms : StartLoad(h, t) => Inv'
         /\ \A t \in Tables, state \in {"CONFIRMED", "KITCHEN"} : GuestLoad(h, t, state) => Inv'
<1>1. ASSUME NEW t \in Tables \cup Rooms, StartLoad(h, t) PROVE Inv'
  <2>. DEFINE q == [pc |-> "seating", seat |-> t]
  <2>1. q \in Handler
    BY DEF Handler
  <2>2. Fits(q)
    BY DEF Fits
  <2>3. Loads(h, q)
    BY <1>1 DEF StartLoad
  <2>. HIDE DEF q
  <2>. QED  BY <2>1, <2>2, <2>3, Loading
<1>2. ASSUME NEW s \in Sessions, Exists(s), NEW state \in {"CONFIRMED", "KITCHEN"},
             Loads(h, [pc |-> "ordering", session |-> s, state |-> state])
      PROVE  Inv'
  <2>. DEFINE q == [pc |-> "ordering", session |-> s, state |-> state]
  <2>1. q \in Handler
    BY DEF Handler
  <2>2. Fits(q)
    BY <1>2 DEF Fits
  <2>3. Loads(h, q)
    BY <1>2
  <2>. HIDE DEF q
  <2>. QED  BY <2>1, <2>2, <2>3, Loading
<1>3. ASSUME NEW t \in Tables, NEW state \in {"CONFIRMED", "KITCHEN"},
             Loads(h, [pc |-> "opening", seat |-> t, state |-> state])
      PROVE  Inv'
  <2>. DEFINE q == [pc |-> "opening", seat |-> t, state |-> state]
  <2>1. q \in Handler
    BY DEF Handler
  <2>2. Fits(q)
    BY DEF Fits
  <2>3. Loads(h, q)
    BY <1>3
  <2>. HIDE DEF q
  <2>. QED  BY <2>1, <2>2, <2>3, Loading
<1>4. ASSUME NEW t \in Tables, NEW state \in {"CONFIRMED", "KITCHEN"}, GuestLoad(h, t, state)
      PROVE  Inv'
  BY <1>2, <1>3, <1>4 DEF GuestLoad, ActiveAt, Active
<1>. QED  BY <1>1, <1>4

(* Requests that start from a ticket or a bill request.                    *)
LEMMA ArrivalsAtRows ==
  ASSUME Inv, NEW h \in Handlers
  PROVE  /\ \A i \in Items : CancelLoad(h, i) => Inv'
         /\ \A a \in BillAsks : WithdrawLoad(h, a) \/ BillLoad(h, a) => Inv'
         /\ \A open \in SUBSET Sessions : ClockOutLoad(h, open) => Inv'
<1>1. ASSUME NEW i \in Items, CancelLoad(h, i) PROVE Inv'
  <2>. DEFINE q == [pc |-> "cancelling", item |-> i]
  <2>1. item[i] # NoItem /\ Loads(h, q)
    BY <1>1 DEF CancelLoad, NoItem
  <2>2. q \in Handler
    BY DEF Handler
  <2>3. Fits(q)
    BY <2>1 DEF Fits
  <2>. HIDE DEF q
  <2>. QED  BY <2>1, <2>2, <2>3, Loading
<1>2. ASSUME NEW a \in BillAsks, WithdrawLoad(h, a) PROVE Inv'
  <2>. DEFINE q == [pc |-> "withdrawing", ask |-> a]
  <2>1. ask[a] # NoAsk /\ Loads(h, q)
    BY <1>2 DEF WithdrawLoad, Pending, NoAsk
  <2>2. q \in Handler
    BY DEF Handler
  <2>3. Fits(q)
    BY <2>1 DEF Fits
  <2>. HIDE DEF q
  <2>. QED  BY <2>1, <2>2, <2>3, Loading
<1>3. ASSUME NEW a \in BillAsks, BillLoad(h, a) PROVE Inv'
  <2>1. PICK L \in SUBSET Items : L = Chargeable(ask[a].session) /\ L # {}
    BY <1>3 DEF BillLoad, Chargeable
  <2>. DEFINE q == [pc |-> "billing", ask |-> a, lines |-> L]
  <2>2. ask[a] # NoAsk /\ Loads(h, q)
    BY <1>3, <2>1 DEF BillLoad, Pending, NoAsk
  <2>3. q \in Handler
    BY DEF Handler
  <2>4. Fits(q)
    BY <2>1, <2>2 DEF Fits
  <2>. HIDE DEF q
  <2>. QED  BY <2>2, <2>3, <2>4, Loading
<1>4. ASSUME NEW open \in SUBSET Sessions, ClockOutLoad(h, open) PROVE Inv'
  <2>. DEFINE q == [pc |-> "clockingOut", sessions |-> open]
  <2>1. (\A s \in open : Exists(s)) /\ Loads(h, q)
    BY <1>4 DEF ClockOutLoad, Active
  <2>2. q \in Handler
    BY DEF Handler
  <2>3. Fits(q)
    BY <2>1 DEF Fits
  <2>. HIDE DEF q
  <2>. QED  BY <2>1, <2>2, <2>3, Loading
<1>. QED  BY <1>1, <1>2, <1>3, <1>4

(* Requests that start from a session.                                     *)
LEMMA ArrivalsAtSessions ==
  ASSUME Inv, NEW h \in Handlers, NEW s \in Sessions,
         \/ OrderLoad(h, s) \/ SendLoad(h, s) \/ AskLoad(h, s)
         \/ CloseLoad(h, s) \/ ForceCloseLoad(h, s)
  PROVE  Inv'
<1>1. Exists(s)
  BY DEF OrderLoad, SendLoad, AskLoad, CloseLoad, ForceCloseLoad, ForceClosable, Active
<1>2. PICK q \in Handler : Loads(h, q) /\ q.session = s
                          /\ q.pc \in {"ordering", "sending", "asking", "closing"}
  <2>1. CASE OrderLoad(h, s)
    <3>. DEFINE q == [pc |-> "ordering", session |-> s, state |-> "KITCHEN"]
    <3>1. q \in Handler /\ q.session = s /\ q.pc = "ordering"
      BY DEF Handler
    <3>. QED  BY <2>1, <3>1 DEF OrderLoad
  <2>2. CASE SendLoad(h, s)
    <3>. DEFINE q == [pc |-> "sending", session |-> s]
    <3>1. q \in Handler /\ q.session = s /\ q.pc = "sending"
      BY DEF Handler
    <3>. QED  BY <2>2, <3>1 DEF SendLoad
  <2>3. CASE AskLoad(h, s)
    <3>. DEFINE q == [pc |-> "asking", session |-> s]
    <3>1. q \in Handler /\ q.session = s /\ q.pc = "asking"
      BY DEF Handler
    <3>. QED  BY <2>3, <3>1 DEF AskLoad
  <2>4. CASE CloseLoad(h, s) \/ ForceCloseLoad(h, s)
    <3>1. PICK paid \in BOOLEAN : Loads(h, [pc |-> "closing", session |-> s, paid |-> paid])
      BY <2>4 DEF CloseLoad, ForceCloseLoad
    <3>. DEFINE q == [pc |-> "closing", session |-> s, paid |-> paid]
    <3>2. q \in Handler /\ q.session = s /\ q.pc = "closing"
      BY DEF Handler
    <3>. QED  BY <3>1, <3>2
  <2>. QED  BY <2>1, <2>2, <2>3, <2>4
<1>3. Fits(q)
  BY <1>1, <1>2 DEF Fits
<1>. QED  BY <1>2, <1>3, Loading

(* Requests that start from a bill.                                        *)
LEMMA ArrivalsAtBills ==
  ASSUME Inv, NEW h \in Handlers, NEW s \in Sessions, NEW amount, NEW by \in Collectors,
         NEW ref \in Refs \cup {NULL}, NEW pc \in {"verifying", "settling"},
         pc = "verifying" => ref \in Refs, PayableLoad(h, pc, s, amount, by, ref)
  PROVE  Inv'
<1>1. bill[s] \in Bill /\ bill[s] # NoBill /\ amount \in 1..(Total(bill[s]) - bill[s].paid)
  BY DEF PayableLoad, Payable, NoBill, Inv, TablesOK, TableTypes
<1>2. bill[s].paid \in Nat /\ bill[s].version \in Nat /\ Total(bill[s]) \in Nat
  BY <1>1, BillRow, TotalPositive
<1>3. PICK paid \in Nat, version \in Nat : paid = bill[s].paid /\ version = bill[s].version
  BY <1>2
<1>. DEFINE q == [pc |-> pc, session |-> s, amount |-> amount, paid |-> paid,
                  version |-> version, by |-> by, ref |-> ref]
<1>4. amount \in Nat /\ amount >= 1 /\ paid + amount <= Total(bill[s])
  BY <1>1, <1>2, <1>3
<1>5. q \in Handler
  BY <1>4 DEF Handler
<1>6. Fits(q)
  BY <1>1, <1>3, <1>4 DEF Fits
<1>7. Loads(h, q)
  BY <1>3 DEF PayableLoad
<1>. HIDE DEF q
<1>. QED  BY <1>5, <1>6, <1>7, Loading

(* Whatever arrives has read what it needs.                                *)
LEMMA Arrivals ==
  ASSUME Inv, NEW h \in Handlers, Arrives(h)
  PROVE  Inv'
<1>1. ASSUME NEW s \in Sessions, NEW amount, NEW by \in Collectors,
             CashLoad(h, s, amount, by) \/ \E ref \in Refs : TransferLoad(h, s, amount, by, ref)
      PROVE  Inv'
  <2>1. CASE CashLoad(h, s, amount, by)
    <3>1. PayableLoad(h, "settling", s, amount, by, NULL)
      BY <2>1 DEF CashLoad
    <3>. QED  BY <3>1, ArrivalsAtBills
  <2>2. ASSUME NEW ref \in Refs, TransferLoad(h, s, amount, by, ref)
        PROVE  Inv'
    <3>1. PayableLoad(h, "verifying", s, amount, by, ref)
      BY <2>2 DEF TransferLoad
    <3>. QED  BY <3>1, ArrivalsAtBills
  <2>. QED  BY <1>1, <2>1, <2>2
<1>. QED  BY <1>1, ArrivalsAtSeats, ArrivalsAtRows, ArrivalsAtSessions DEF Arrives

(* Verify.ET confirms a transfer.                                          *)
LEMMA VerifyStep ==
  ASSUME Inv, NEW h \in Handlers, TransferVerified(h)
  PROVE  Inv'
<1>1. PICK q \in Handler : handler[h] = q /\ Fits(q)
  BY Held
<1>. DEFINE r == [q EXCEPT !.pc = "settling"]
            Row == [pc : {"verifying", "settling"}, session : Sessions, amount : Nat, paid : Nat,
                    version : Nat, by : Collectors, ref : Refs \cup {NULL}]
<1>2. q \in Row /\ q.pc = "verifying" /\ handler' = [handler EXCEPT ![h] = r]
      /\ UNCHANGED <<tables, refRow, transfers>>
      /\ confirmed' = IF VerifyEt THEN confirmed \cup {q.ref} ELSE confirmed
  BY <1>1, HandlerRow DEF TransferVerified, In, HandlersOK
<1>3. /\ r \in Row /\ r.pc = "settling" /\ r.session = q.session /\ r.amount = q.amount
      /\ r.paid = q.paid /\ r.version = q.version
  BY <1>2
<1>4. r \in Handler
  BY <1>3 DEF Handler
<1>5. TablesOK' /\ Grows
  BY <1>2, Unwritten
<1>6. Fits(q)'
  BY <1>1, <1>5, FitsOn DEF Inv
<1>7. Fits(r)'
  <2>. HIDE DEF r
  <2>. QED  BY <1>2, <1>3, <1>6 DEF Fits
<1>8. BankTypes'
  BY <1>1, <1>2 DEF Fits, Inv, BankTypes
<1>. HIDE DEF r
<1>. QED  BY <1>2, <1>4, <1>5, <1>7, <1>8, Continuing
-----------------------------------------------------------------------------
(* The evening starts with empty tables.                                   *)
LEMMA Start == Init => Inv
<1>. SUFFICES ASSUME Init PROVE Inv
  OBVIOUS
<1>1. TableTypes
  BY DEF Init, TableTypes, Session, Item, Ask, Bill
<1>2. RowsRefer
  BY DEF Init, RowsRefer
<1>3. PaidMatchesPayments
  BY DEF Init, PaidMatchesPayments
<1>4. PaidSessionHasPaidBill
  BY DEF Init, PaidSessionHasPaidBill, NoSession
<1>5. BankTypes
  BY DEF Init, BankTypes
<1>6. HandlersOK
  <2>1. Idle \in Handler /\ Fits(Idle)
    BY DEF Handler, Idle, Fits
  <2>. QED  BY <2>1 DEF Init, HandlersOK
<1>. QED  BY <1>1, <1>2, <1>3, <1>4, <1>5, <1>6 DEF Inv, TablesOK

(* Whatever the requests do, and in whatever order, the invariant holds.   *)
LEMMA Step == Inv /\ [Next]_vars => Inv'
<1>. SUFFICES ASSUME Inv, [Next]_vars PROVE Inv'
  OBVIOUS
<1>1. ASSUME NEW h \in Handlers, Arrives(h) PROVE Inv'
  BY <1>1, Arrivals
<1>2. ASSUME NEW h \in Handlers, Finishes(h) PROVE Inv'
  BY <1>2, SeatingSteps, MarkStep, OrderStep, AskStep, SendStep, CancelStep, WithdrawStep, BillStep, VerifyStep,
     PayStep, CloseStep, ClockOutStep DEF Finishes
<1>3. ASSUME NEW h \in Handlers, RolledBack(h) PROVE Inv'
  <2>1. TablesOK' /\ Grows /\ BankTypes'
    BY <1>3, Unwritten, BankStays DEF RolledBack
  <2>. QED  BY <1>3, <2>1, Ending DEF RolledBack
<1>4. ASSUME NEW i \in Items, Serve(i) PROVE Inv'
  BY <1>4, ServeStep
<1>5. ASSUME NEW s \in Sessions, NEW t \in Tables, NEW new \in SUBSET Items, CounterSale(s, t, new)
      PROVE  Inv'
  BY <1>5, CounterStep
<1>6. CASE UNCHANGED vars
  <2>1. UNCHANGED tables /\ UNCHANGED banking /\ handler' = handler
    BY <1>6 DEF vars
  <2>2. TablesOK' /\ Grows /\ BankTypes'
    BY <2>1, Unwritten, BankStays
  <2>. QED  BY <2>1, <2>2, Aside
<1>. QED  BY <1>1, <1>2, <1>3, <1>4, <1>5, <1>6 DEF Next

(* The invariant holds in every reachable state.                           *)
LEMMA InvHolds == Spec => []Inv
<1>1. Init => Inv
  BY Start
<1>2. Inv /\ [Next]_vars => Inv'
  BY Step
<1>. QED  BY <1>1, <1>2, PTL DEF Spec

(* The tables keep their types, and a request what it has read, however    *)
(* many requests overlap or are rolled back.                               *)
THEOREM TypeCorrect == Spec => []TypeOK
<1>1. Inv => TypeOK
  BY InvParts
<1>. QED  BY <1>1, InvHolds, PTL

(* A bill is paid exactly as far as its payments go, never over its total, *)
(* however many collectors settle it at once (applyPartialBillPayment).    *)
THEOREM PaidMatchesPaymentsHolds == Spec => []PaidMatchesPayments
<1>1. Inv => PaidMatchesPayments
  BY InvParts
<1>. QED  BY <1>1, InvHolds, PTL

(* No overlap of orders, cancellations, closes and payments makes a        *)
(* session look paid whose bill is not (markSeatingPaid).                  *)
THEOREM PaidSessionHasPaidBillHolds == Spec => []PaidSessionHasPaidBill
<1>1. Inv => PaidSessionHasPaidBill
  BY InvParts
<1>. QED  BY <1>1, InvHolds, PTL
-----------------------------------------------------------------------------
(* A transfer that Verify.ET has confirmed is with one request until it is *)
(* a payment, and not with a request when it is one.                       *)
Paying(h) == handler[h].pc = "settling" /\ handler[h].ref # NULL
TransferInv ==
  /\ \A x \in transfers : x.ref \in confirmed
  /\ \A h \in Handlers : Paying(h) =>
       handler[h].ref \in confirmed /\ \A x \in transfers : x.ref # handler[h].ref
  /\ \A g, h \in Handlers :
       Paying(g) /\ Paying(h) /\ handler[g].ref = handler[h].ref => g = h
  /\ TransferOneBill

(* The step has nothing to do with transfers.                              *)
NoTransfer ==
  /\ UNCHANGED <<transfers, confirmed>>
  /\ \/ handler' = handler
     \/ \E h \in Handlers : \E q :
          handler' = [handler EXCEPT ![h] = q] /\ ~(q.pc = "settling" /\ q.ref # NULL)

(* Only confirmations and payments by transfer matter to transfers.        *)
LEMMA NoTransferKeeps ==
  ASSUME Inv, TransferInv, NoTransfer
  PROVE  TransferInv'
<1>1. \A g \in Handlers : Paying(g)' => Paying(g) /\ handler'[g] = handler[g]
  <2>1. CASE handler' = handler
    BY <2>1 DEF Paying
  <2>2. ASSUME NEW h \in Handlers, NEW q, handler' = [handler EXCEPT ![h] = q],
               ~(q.pc = "settling" /\ q.ref # NULL), NEW g \in Handlers, Paying(g)'
        PROVE  Paying(g) /\ handler'[g] = handler[g]
    <3>1. g # h
      BY <2>2 DEF Paying, Inv, HandlersOK
    <3>. QED  BY <2>2, <3>1 DEF Paying, Inv, HandlersOK
  <2>. QED  BY <2>1, <2>2 DEF NoTransfer
<1>2. transfers' = transfers /\ confirmed' = confirmed
  BY DEF NoTransfer
<1>. QED  BY <1>1, <1>2 DEF TransferInv, TransferOneBill

(* A request that ends is no transfer any more.                            *)
LEMMA EndsQuietly ==
  ASSUME NEW h \in Handlers, Ends(h), UNCHANGED <<transfers, confirmed>>
  PROVE  NoTransfer
<1>1. Idle.pc # "settling"
  BY DEF Idle
<1>. QED  BY <1>1 DEF Ends, NoTransfer

(* A request that arrives pays nothing by transfer yet.                    *)
LEMMA LoadsQuietly ==
  ASSUME NEW h \in Handlers, NEW q, Loads(h, q), ~(q.pc = "settling" /\ q.ref # NULL)
  PROVE  NoTransfer
  BY DEF Loads, banking, NoTransfer

(* No request that arrives pays by transfer at once.                       *)
LEMMA ArrivesQuietly ==
  ASSUME NEW h \in Handlers, Arrives(h)
  PROVE  NoTransfer
<1>1. ASSUME NEW t \in Tables \cup Rooms, StartLoad(h, t) PROVE NoTransfer
  BY <1>1, LoadsQuietly DEF StartLoad
<1>2. ASSUME NEW t \in Tables, NEW state \in {"CONFIRMED", "KITCHEN"}, GuestLoad(h, t, state)
      PROVE  NoTransfer
  <2>1. ASSUME NEW s, Loads(h, [pc |-> "ordering", session |-> s, state |-> state])
        PROVE  NoTransfer
    BY <2>1, LoadsQuietly
  <2>2. ASSUME Loads(h, [pc |-> "opening", seat |-> t, state |-> state]) PROVE NoTransfer
    BY <2>2, LoadsQuietly
  <2>. QED  BY <1>2, <2>1, <2>2 DEF GuestLoad
<1>3. ASSUME NEW i \in Items, CancelLoad(h, i) PROVE NoTransfer
  BY <1>3, LoadsQuietly DEF CancelLoad
<1>4. ASSUME NEW a \in BillAsks, WithdrawLoad(h, a) \/ BillLoad(h, a) PROVE NoTransfer
  <2>1. CASE WithdrawLoad(h, a)
    BY <2>1, LoadsQuietly DEF WithdrawLoad
  <2>2. CASE BillLoad(h, a)
    BY <2>2, LoadsQuietly DEF BillLoad
  <2>. QED  BY <1>4, <2>1, <2>2
<1>5. ASSUME NEW open \in SUBSET Sessions, ClockOutLoad(h, open) PROVE NoTransfer
  BY <1>5, LoadsQuietly DEF ClockOutLoad
<1>6. ASSUME NEW s \in Sessions, OrderLoad(h, s) \/ SendLoad(h, s) \/ AskLoad(h, s) PROVE NoTransfer
  <2>1. CASE OrderLoad(h, s)
    BY <2>1, LoadsQuietly DEF OrderLoad
  <2>2. CASE SendLoad(h, s)
    BY <2>2, LoadsQuietly DEF SendLoad
  <2>3. CASE AskLoad(h, s)
    BY <2>3, LoadsQuietly DEF AskLoad
  <2>. QED  BY <1>6, <2>1, <2>2, <2>3
<1>7. ASSUME NEW s \in Sessions, CloseLoad(h, s) \/ ForceCloseLoad(h, s) PROVE NoTransfer
  <2>1. CASE CloseLoad(h, s)
    BY <2>1, LoadsQuietly DEF CloseLoad
  <2>2. CASE ForceCloseLoad(h, s)
    BY <2>2, LoadsQuietly DEF ForceCloseLoad
  <2>. QED  BY <1>7, <2>1, <2>2
<1>8. ASSUME NEW s \in Sessions, NEW amount, NEW by \in Collectors, CashLoad(h, s, amount, by)
      PROVE  NoTransfer
  BY <1>8, LoadsQuietly DEF CashLoad, PayableLoad
<1>9. ASSUME NEW s \in Sessions, NEW amount, NEW by \in Collectors, NEW ref \in Refs,
             TransferLoad(h, s, amount, by, ref)
      PROVE  NoTransfer
  BY <1>9, LoadsQuietly DEF TransferLoad, PayableLoad
<1>. QED  BY <1>1, <1>2, <1>3, <1>4, <1>5, <1>6, <1>7, <1>8, <1>9 DEF Arrives

(* Verify.ET confirms a reference for one request only.                    *)
LEMMA VerifiedTransfer ==
  ASSUME VerifyEt, Inv, TransferInv, NEW h \in Handlers, TransferVerified(h)
  PROVE  TransferInv'
<1>. DEFINE q == handler[h]
<1>1. /\ q.pc = "verifying" /\ q.ref \notin confirmed /\ confirmed' = confirmed \cup {q.ref}
      /\ transfers' = transfers /\ handler' = [handler EXCEPT ![h].pc = "settling"]
  BY DEF TransferVerified, In
<1>2. \A g \in Handlers : g # h => handler'[g] = handler[g]
  BY <1>1 DEF Inv, HandlersOK
<1>3. handler'[h].ref = q.ref /\ q.ref \in confirmed'
  <2>1. q \in Handler /\ q.pc = "verifying"
    BY <1>1 DEF Inv, HandlersOK
  <2>2. q \in [pc : {"verifying", "settling"}, session : Sessions, amount : Nat, paid : Nat,
               version : Nat, by : Collectors, ref : Refs \cup {NULL}]
    BY <2>1, HandlerRow
  <2>3. handler'[h] = [q EXCEPT !.pc = "settling"]
    BY <1>1 DEF Inv, HandlersOK
  <2>. HIDE DEF q
  <2>. QED  BY <1>1, <2>2, <2>3
<1>4. \A g \in Handlers : g # h /\ Paying(g)' => Paying(g) /\ handler'[g].ref # q.ref
  BY <1>1, <1>2 DEF Paying, TransferInv
<1>5. \A x \in transfers' : x.ref \in confirmed' /\ x.ref # q.ref
  BY <1>1 DEF TransferInv
<1>6. \A g \in Handlers : Paying(g)' =>
        handler'[g].ref \in confirmed' /\ \A x \in transfers' : x.ref # handler'[g].ref
  <2>1. ASSUME NEW g \in Handlers, Paying(g)'
        PROVE  handler'[g].ref \in confirmed' /\ \A x \in transfers' : x.ref # handler'[g].ref
    <3>1. CASE g = h
      BY <1>3, <1>5, <3>1
    <3>2. CASE g # h
      BY <1>1, <1>2, <1>4, <2>1, <3>2 DEF TransferInv
    <3>. QED  BY <3>1, <3>2
  <2>. QED  BY <2>1
<1>7. \A f, g \in Handlers :
        Paying(f)' /\ Paying(g)' /\ handler'[f].ref = handler'[g].ref => f = g
  <2>1. ASSUME NEW f \in Handlers, NEW g \in Handlers, Paying(f)', Paying(g)',
               handler'[f].ref = handler'[g].ref
        PROVE  f = g
    <3>1. CASE f = h \/ g = h
      BY <1>3, <1>4, <2>1, <3>1
    <3>2. CASE f # h /\ g # h
      BY <1>2, <1>4, <2>1, <3>2 DEF TransferInv
    <3>. QED  BY <3>1, <3>2
  <2>. QED  BY <2>1
<1>8. TransferOneBill'
  BY <1>1 DEF TransferInv, TransferOneBill
<1>. QED  BY <1>5, <1>6, <1>7, <1>8 DEF TransferInv

(* A confirmed transfer is paid towards one bill.                          *)
LEMMA PaidTransfer ==
  ASSUME VerifyEt, Inv, TransferInv, NEW h \in Handlers, PayCommit(h)
  PROVE  TransferInv'
<1>. DEFINE q == handler[h]
<1>1. /\ q.pc = "settling" /\ confirmed' = confirmed /\ Ends(h)
      /\ transfers' = IF q.ref = NULL THEN transfers
                      ELSE transfers \cup {[ref |-> q.ref, bill |-> q.session]}
  BY DEF PayCommit, In
<1>2. \A g \in Handlers : Paying(g)' => g # h /\ Paying(g) /\ handler'[g] = handler[g]
  <2>1. ASSUME NEW g \in Handlers, Paying(g)' PROVE g # h
    BY <1>1, <2>1 DEF Ends, Paying, Idle, Inv, HandlersOK
  <2>. QED  BY <1>1, <2>1 DEF Ends, Paying, Inv, HandlersOK
<1>3. CASE q.ref = NULL
  BY <1>1, <1>2, <1>3 DEF TransferInv, TransferOneBill
<1>4. CASE q.ref # NULL
  <2>1. Paying(h) /\ q.ref \in confirmed /\ \A x \in transfers : x.ref # q.ref
    BY <1>1, <1>4 DEF Paying, TransferInv
  <2>2. transfers' = transfers \cup {[ref |-> q.ref, bill |-> q.session]}
    BY <1>1, <1>4
  <2>3. \A x \in transfers' : x \in transfers \/ (x.ref = q.ref /\ x.bill = q.session)
    BY <2>2
  <2>4. \A x \in transfers' : x.ref \in confirmed'
    BY <1>1, <2>1, <2>3 DEF TransferInv
  <2>5. \A g \in Handlers : Paying(g)' => handler[g].ref # q.ref
    BY <1>2, <2>1 DEF TransferInv
  <2>6. TransferOneBill'
    BY <2>1, <2>3 DEF TransferInv, TransferOneBill
  <2>. HIDE DEF q
  <2>7. \A g \in Handlers : Paying(g)' =>
          handler'[g].ref \in confirmed' /\ \A x \in transfers' : x.ref # handler'[g].ref
    BY <1>1, <1>2, <2>3, <2>5 DEF TransferInv
  <2>. QED  BY <1>2, <2>4, <2>6, <2>7 DEF TransferInv
<1>. QED  BY <1>3, <1>4

(* Every step keeps transfers apart.                                       *)
LEMMA TransferStep ==
  ASSUME VerifyEt, Inv, TransferInv, [Next]_vars
  PROVE  TransferInv'
<1>1. ASSUME NEW h \in Handlers, Arrives(h) PROVE TransferInv'
  BY <1>1, ArrivesQuietly, NoTransferKeeps
<1>2. ASSUME NEW h \in Handlers, Finishes(h) PROVE TransferInv'
  <2>1. ASSUME NEW s \in Sessions, StartCommit(h, s) PROVE NoTransfer
    BY <2>1, EndsQuietly DEF StartCommit, banking
  <2>2. ASSUME NEW s \in Sessions, GuestOpens(h, s) PROVE NoTransfer
    <3>1. PICK state : handler' = [handler EXCEPT ![h] = [pc |-> "marking", session |-> s, state |-> state]]
      BY <2>2 DEF GuestOpens
    <3>2. [pc |-> "marking", session |-> s, state |-> state].pc = "marking"
      OBVIOUS
    <3>3. UNCHANGED <<transfers, confirmed>>
      BY <2>2 DEF GuestOpens, banking
    <3>. QED  BY <3>1, <3>2, <3>3 DEF NoTransfer
  <2>3. ASSUME NEW new \in SUBSET Items, OrderCommit(h, new) PROVE NoTransfer
    BY <2>3, EndsQuietly DEF OrderCommit, banking
  <2>4. ASSUME NEW a \in BillAsks, AskCommit(h, a) PROVE NoTransfer
    BY <2>4, EndsQuietly DEF AskCommit, banking
  <2>5. CASE SendCommit(h) \/ CancelCommit(h) \/ WithdrawCommit(h) \/ BillCommit(h)
    BY <2>5, EndsQuietly, NoTransferKeeps DEF SendCommit, CancelCommit, WithdrawCommit, BillCommit, banking
  <2>6. CASE CloseCommit(h) \/ ClockOutCommit(h)
    BY <2>6, EndsQuietly, NoTransferKeeps DEF CloseCommit, ClockOutCommit, banking
  <2>7. CASE GuestMarks(h)
    <3>1. PICK q \in Handler : handler[h] = q
      BY Held
    <3>. DEFINE r == [q EXCEPT !.pc = "ordering"]
    <3>2. q \in [pc : {"marking", "ordering"}, session : Sessions, state : {"CONFIRMED", "KITCHEN"}]
      BY <2>7, <3>1, HandlerRow DEF GuestMarks, In
    <3>3. handler' = [handler EXCEPT ![h] = r] /\ r.pc = "ordering"
      BY <2>7, <3>1, <3>2 DEF GuestMarks
    <3>. HIDE DEF r
    <3>4. NoTransfer
      BY <2>7, <3>3 DEF GuestMarks, banking, NoTransfer
    <3>. QED  BY <3>4, NoTransferKeeps
  <2>. QED  BY <1>2, <2>1, <2>2, <2>3, <2>4, <2>5, <2>6, <2>7, NoTransferKeeps, VerifiedTransfer, PaidTransfer
           DEF Finishes
<1>3. ASSUME NEW h \in Handlers, RolledBack(h) PROVE TransferInv'
  BY <1>3, EndsQuietly, NoTransferKeeps DEF RolledBack, banking
<1>4. ASSUME NEW i \in Items, Serve(i) PROVE TransferInv'
  BY <1>4, NoTransferKeeps DEF Serve, banking, NoTransfer
<1>5. ASSUME NEW s \in Sessions, NEW t \in Tables, NEW new \in SUBSET Items, CounterSale(s, t, new)
      PROVE  TransferInv'
  BY <1>5, NoTransferKeeps DEF CounterSale, banking, NoTransfer
<1>6. CASE UNCHANGED vars
  BY <1>6, NoTransferKeeps DEF vars, banking, NoTransfer
<1>. QED  BY <1>1, <1>2, <1>3, <1>4, <1>5, <1>6 DEF Next

(* A bank transfer pays one bill, however many collectors enter its        *)
(* reference at once, where Verify.ET confirms it only once (payTransfer). *)
THEOREM TransferOneBillHolds ==
  ASSUME VerifyEt
  PROVE  Spec => []TransferOneBill
<1>1. Init => TransferInv
  <2>1. Init => \A h \in Handlers : ~Paying(h)
    BY DEF Init, Paying, Idle
  <2>. QED  BY <2>1 DEF Init, TransferInv, TransferOneBill
<1>2. Inv /\ Inv' /\ TransferInv /\ [Next]_vars => TransferInv'
  BY TransferStep
<1>3. TransferInv => TransferOneBill
  BY DEF TransferInv
<1>. QED  BY <1>1, <1>2, <1>3, InvHolds, PTL DEF Spec
-----------------------------------------------------------------------------
(* What Seating promises when requests come one at a time, on the migrated *)
(* database, where nothing is sold over the counter.  The process may stop *)
(* between any two writes, and orders of guests may wait to be sent.       *)
Serial == /\ \A g, h \in Handlers : g = h
          /\ ~Bakery /\ Migrated

PendingOf(s) == {a \in BillAsks : Pending(a) /\ ask[a].session = s}

(* A session r, with its bill b, its chargeable tickets C and the pending  *)
(* requests P for its bill.                                                *)
InOrder(r, b, C, P) ==
  /\ P # {} => b = NoBill
  /\ \A x, y \in P : x = y
  /\ r = NoSession => C = {} /\ b = NoBill
  /\ r # NoSession =>
       /\ r.kind = "DINE_IN"
       /\ r.status = "CLOSED" => r.closed
       /\ b # NoBill /\ ~r.reopened => C \subseteq b.lines /\ r.status \notin GuestOrderable
       /\ r.status = "OPEN" => C = {}
       /\ r.status = "BILL_REQUESTED" => P # {}
       /\ r.status = "BILL_READY" => b # NoBill
       /\ b.status = "PAID" /\ ~r.closed => r.status = "PAID" \/ r.reopened
       /\ r.closed /\ ~r.forced /\ C # {} => b.status \in {"PAID", "CLOSED"}

SessionsInOrder ==
  \A s \in Sessions : InOrder(session[s], bill[s], Chargeable(s), PendingOf(s))

(* At most one session is open at a table.                                 *)
OneParty == \A t \in Tables : \A x, y \in ActiveAt(t) : x = y

(* What a request has read is still so: nothing but Serve comes between.   *)
StillTrue(q) ==
  /\ q.pc = "seating" => ActiveAt(q.seat) = {}
  /\ q.pc = "marking" => session[q.session].seat \in Tables
  /\ q.pc \in {"marking", "ordering"} =>
       Active(q.session) /\ (bill[q.session] = NoBill \/ session[q.session].reopened)
  /\ q.pc = "sending" => Active(q.session)
  /\ q.pc = "asking" => bill[q.session] = NoBill /\ PendingOf(q.session) = {}
  /\ q.pc = "withdrawing" => Pending(q.ask)
  /\ q.pc = "billing" => Pending(q.ask) /\ q.lines = Chargeable(ask[q.ask].session)
  /\ q.pc = "closing" => /\ Active(q.session)
                         /\ Chargeable(q.session) = {} \/ session[q.session].status = "PAID"
  /\ q.pc = "clockingOut" => \A s \in q.sessions : Active(s)

ReadsHold == \A h \in Handlers, q \in Handler : handler[h] = q => StillTrue(q)

Floor == SeatedIsOccupied /\ OneParty

SerialInv == SessionsInOrder /\ Floor /\ ReadsHold
-----------------------------------------------------------------------------
(* One session changes, and stays in order.                                *)
LEMMA OneSession ==
  ASSUME SessionsInOrder, NEW s \in Sessions,
         \A x \in Sessions : x # s =>
           /\ session'[x] = session[x] /\ bill'[x] = bill[x]
           /\ Chargeable(x)' = Chargeable(x) /\ PendingOf(x)' = PendingOf(x),
         InOrder(session'[s], bill'[s], Chargeable(s)', PendingOf(s)')
  PROVE  SessionsInOrder'
<1>1. ASSUME NEW x \in Sessions
      PROVE  InOrder(session'[x], bill'[x], Chargeable(x)', PendingOf(x)')
  <2>1. CASE x = s
    BY <2>1
  <2>2. CASE x # s
    <3>1. InOrder(session[x], bill[x], Chargeable(x), PendingOf(x))
      BY DEF SessionsInOrder
    <3>. QED  BY <2>2, <3>1
  <2>. QED  BY <2>1, <2>2
<1>. QED  BY <1>1 DEF SessionsInOrder

(* The order of one session.                                               *)
LEMMA Ordered ==
  ASSUME SessionsInOrder, NEW s \in Sessions
  PROVE  InOrder(session[s], bill[s], Chargeable(s), PendingOf(s))
  BY DEF SessionsInOrder

(* A session is active until it has a time of closing.                     *)
LEMMA ActiveIsOpen ==
  ASSUME SessionsInOrder, NEW s \in Sessions
  PROVE  Active(s) <=> Exists(s) /\ ~session[s].closed
  BY Ordered DEF Active, Exists, InOrder

(* No session opens, closes or moves.                                      *)
LEMMA FloorStays ==
  ASSUME SessionsInOrder, SessionsInOrder', Floor, table' = table,
         \A x \in Sessions : Exists(x)' <=> Exists(x),
         \A x \in Sessions : Exists(x) =>
           /\ session'[x].seat = session[x].seat /\ session'[x].closed = session[x].closed
           /\ session'[x].marked = session[x].marked
  PROVE  Floor' /\ \A t : ActiveAt(t)' = ActiveAt(t)
<1>1. \A x \in Sessions : Active(x) <=> Exists(x) /\ ~session[x].closed
  BY ActiveIsOpen
<1>2. \A x \in Sessions : Active(x)' <=> Exists(x)' /\ ~session'[x].closed
  BY Ordered DEF Active, Exists, InOrder, SessionsInOrder
<1>3. \A t : ActiveAt(t)' = ActiveAt(t)
  BY <1>1, <1>2 DEF ActiveAt
<1>4. \A t \in Tables : \A x \in ActiveAt(t) : session'[x].marked = session[x].marked
  BY DEF ActiveAt, Active
<1>. QED  BY <1>3, <1>4 DEF Floor, SeatedIsOccupied, OneParty

(* The only request ends.                                                  *)
LEMMA NothingRead ==
  ASSUME Serial, Inv, NEW h \in Handlers, Ends(h)
  PROVE  ReadsHold'
<1>1. \A g \in Handlers : handler'[g] = Idle
  BY DEF Serial, Ends, Inv, HandlersOK
<1>2. StillTrue(Idle)'
  BY DEF StillTrue, Idle
<1>. QED  BY <1>1, <1>2 DEF ReadsHold

(* The only request has read q.                                            *)
LEMMA AllRead ==
  ASSUME Serial, Inv, NEW h \in Handlers, NEW q \in Handler,
         handler' = [handler EXCEPT ![h] = q], StillTrue(q)'
  PROVE  ReadsHold'
<1>1. \A g \in Handlers : handler'[g] = q
  BY DEF Serial, Inv, HandlersOK
<1>. QED  BY <1>1 DEF ReadsHold

(* Nothing that is read or promised is written.                            *)
LEMMA Unmoved ==
  ASSUME SerialInv, UNCHANGED tables
  PROVE  /\ SessionsInOrder' /\ Floor'
         /\ \A q \in Handler : StillTrue(q) => StillTrue(q)'
<1>1. UNCHANGED <<session, table, item, ask, bill>>
  BY DEF tables
<1>2. \A s : /\ Chargeable(s)' = Chargeable(s) /\ PendingOf(s)' = PendingOf(s)
             /\ ActiveAt(s)' = ActiveAt(s) /\ Active(s)' = Active(s)
  BY <1>1 DEF Chargeable, PendingOf, Pending, ActiveAt, Active, Exists
<1>3. SessionsInOrder'
  BY <1>1, <1>2 DEF SerialInv, SessionsInOrder
<1>4. Floor'
  BY <1>1, <1>2 DEF SerialInv, Floor, SeatedIsOccupied, OneParty
<1>5. ASSUME NEW q \in Handler, StillTrue(q) PROVE StillTrue(q)'
  BY <1>1, <1>2, <1>5 DEF StillTrue, Pending
<1>. QED  BY <1>3, <1>4, <1>5

(* What the request has read, and that it is still so.                     *)
LEMMA Read ==
  ASSUME Inv, SerialInv, NEW h \in Handlers
  PROVE  \E q \in Handler : handler[h] = q /\ Fits(q) /\ StillTrue(q)
  BY Held DEF SerialInv, ReadsHold

(* The one request that is being handled ends.                             *)
LEMMA Finished ==
  ASSUME Serial, Inv, NEW h \in Handlers, Ends(h), SessionsInOrder', Floor'
  PROVE  SerialInv'
  BY NothingRead DEF SerialInv, Floor
-----------------------------------------------------------------------------
(* Every arrival reads what is so.                                         *)
LEMMA ReadsAtLoad ==
  ASSUME Serial, Inv, SerialInv, NEW h \in Handlers, NEW q \in Handler, Loads(h, q), StillTrue(q)
  PROVE  SerialInv'
<1>1. SessionsInOrder' /\ Floor' /\ StillTrue(q)'
  BY Unmoved DEF Loads
<1>2. ReadsHold'
  BY <1>1, AllRead DEF Loads
<1>. QED  BY <1>1, <1>2 DEF SerialInv

(* Arrivals at a table or a room.                                          *)
LEMMA SeatLoads ==
  ASSUME Serial, Inv, SerialInv, NEW h \in Handlers
  PROVE  /\ \A t \in Tables \cup Rooms : StartLoad(h, t) => SerialInv'
         /\ \A t \in Tables, state \in {"CONFIRMED", "KITCHEN"} : GuestLoad(h, t, state) => SerialInv'
<1>1. ASSUME NEW t \in Tables \cup Rooms, StartLoad(h, t) PROVE SerialInv'
  <2>. DEFINE q == [pc |-> "seating", seat |-> t]
  <2>1. q \in Handler /\ Loads(h, q) /\ StillTrue(q)
    BY <1>1 DEF StartLoad, Handler, StillTrue
  <2>. QED  BY <2>1, ReadsAtLoad
<1>2. ASSUME NEW t \in Tables, NEW state \in {"CONFIRMED", "KITCHEN"}, GuestLoad(h, t, state)
      PROVE  SerialInv'
  <2>1. ASSUME NEW s \in ActiveAt(t), session[s].status \in GuestOrderable,
               Loads(h, [pc |-> "ordering", session |-> s, state |-> state])
        PROVE  SerialInv'
    <3>. DEFINE q == [pc |-> "ordering", session |-> s, state |-> state]
    <3>1. s \in Sessions /\ Active(s) /\ Exists(s)
      BY DEF ActiveAt, Active
    <3>2. bill[s] = NoBill \/ session[s].reopened
      BY <2>1, <3>1, Ordered DEF SerialInv, InOrder, Exists
    <3>3. q \in Handler /\ Loads(h, q)
      BY <2>1, <3>1 DEF Handler
    <3>4. StillTrue(q)
      BY <3>1, <3>2 DEF StillTrue
    <3>. QED  BY <3>3, <3>4, ReadsAtLoad
  <2>2. ASSUME Loads(h, [pc |-> "opening", seat |-> t, state |-> state])
        PROVE  SerialInv'
    <3>. DEFINE q == [pc |-> "opening", seat |-> t, state |-> state]
    <3>1. q \in Handler /\ Loads(h, q) /\ StillTrue(q)
      BY <2>2 DEF Handler, StillTrue
    <3>. QED  BY <3>1, ReadsAtLoad
  <2>. QED  BY <1>2, <2>1, <2>2 DEF GuestLoad
<1>. QED  BY <1>1, <1>2

(* Arrivals at a ticket or a bill request.                                 *)
LEMMA RowLoads ==
  ASSUME Serial, Inv, SerialInv, NEW h \in Handlers
  PROVE  /\ \A i \in Items : CancelLoad(h, i) => SerialInv'
         /\ \A a \in BillAsks : WithdrawLoad(h, a) \/ BillLoad(h, a) => SerialInv'
<1>1. ASSUME NEW i \in Items, CancelLoad(h, i) PROVE SerialInv'
  <2>. DEFINE q == [pc |-> "cancelling", item |-> i]
  <2>1. q \in Handler /\ Loads(h, q) /\ StillTrue(q)
    BY <1>1 DEF CancelLoad, Handler, StillTrue
  <2>. QED  BY <2>1, ReadsAtLoad
<1>2. ASSUME NEW a \in BillAsks, WithdrawLoad(h, a) PROVE SerialInv'
  <2>. DEFINE q == [pc |-> "withdrawing", ask |-> a]
  <2>1. q \in Handler /\ Loads(h, q) /\ StillTrue(q)
    BY <1>2 DEF WithdrawLoad, Handler, StillTrue
  <2>. QED  BY <2>1, ReadsAtLoad
<1>3. ASSUME NEW a \in BillAsks, BillLoad(h, a) PROVE SerialInv'
  <2>. DEFINE q == [pc |-> "billing", ask |-> a, lines |-> Chargeable(ask[a].session)]
  <2>1. Pending(a) /\ Loads(h, q) /\ StillTrue(q)
    BY <1>3 DEF BillLoad, StillTrue
  <2>2. Chargeable(ask[a].session) \in SUBSET Items
    BY DEF Chargeable
  <2>3. q \in Handler
    BY <2>2 DEF Handler
  <2>. HIDE DEF q
  <2>. QED  BY <2>1, <2>3, ReadsAtLoad
<1>. QED  BY <1>1, <1>2, <1>3

(* Arrivals at a session.                                                  *)
LEMMA SessionLoads ==
  ASSUME Serial, Inv, SerialInv, NEW h \in Handlers, NEW s \in Sessions,
         \/ OrderLoad(h, s) \/ SendLoad(h, s) \/ AskLoad(h, s)
         \/ CloseLoad(h, s) \/ ForceCloseLoad(h, s)
  PROVE  SerialInv'
<1>1. CASE OrderLoad(h, s)
  <2>. DEFINE q == [pc |-> "ordering", session |-> s, state |-> "KITCHEN"]
  <2>1. Active(s) /\ Exists(s) /\ session[s].status \in Orderable
    BY <1>1 DEF OrderLoad, Active
  <2>2. bill[s] = NoBill \/ session[s].reopened
    BY <2>1, Ordered DEF SerialInv, InOrder, Exists, Orderable, GuestOrderable
  <2>3. q \in Handler /\ Loads(h, q) /\ StillTrue(q)
    BY <1>1, <2>1, <2>2 DEF OrderLoad, Handler, StillTrue
  <2>. QED  BY <2>3, ReadsAtLoad
<1>2. CASE SendLoad(h, s)
  <2>. DEFINE q == [pc |-> "sending", session |-> s]
  <2>1. q \in Handler /\ Loads(h, q) /\ StillTrue(q)
    BY <1>2 DEF SendLoad, Handler, StillTrue
  <2>. QED  BY <2>1, ReadsAtLoad
<1>3. CASE AskLoad(h, s)
  <2>. DEFINE q == [pc |-> "asking", session |-> s]
  <2>1. q \in Handler /\ Loads(h, q) /\ StillTrue(q)
    BY <1>3 DEF AskLoad, Handler, StillTrue, PendingOf
  <2>. QED  BY <2>1, ReadsAtLoad
<1>4. CASE CloseLoad(h, s)
  <2>. DEFINE q == [pc |-> "closing", session |-> s, paid |-> session[s].status = "PAID"]
  <2>1. (session[s].status = "PAID") \in BOOLEAN
    OBVIOUS
  <2>2. q \in Handler /\ Loads(h, q) /\ StillTrue(q)
    BY <1>4, <2>1 DEF CloseLoad, Handler, StillTrue
  <2>. QED  BY <2>2, ReadsAtLoad
<1>5. CASE ForceCloseLoad(h, s)
  <2>. DEFINE p == session[s].status = "PAID" \/ bill[s].status = "PAID"
              q == [pc |-> "closing", session |-> s, paid |-> p]
  <2>1. p \in BOOLEAN
    OBVIOUS
  <2>2. Active(s) /\ (Chargeable(s) = {} \/ session[s].status = "PAID")
    <3>1. Active(s) /\ ForceClosable(s)
      BY <1>5 DEF ForceCloseLoad, ForceClosable
    <3>2. session[s].status \in Status
      BY <3>1, SessionRow DEF Active, Exists, Inv, TablesOK, TableTypes
    <3>3. session[s].status = "OPEN" => Chargeable(s) = {}
      BY <3>1, Ordered DEF SerialInv, InOrder, Active, Exists
    <3>. QED  BY <3>1, <3>2, <3>3 DEF ForceClosable, Status, Active
  <2>3. Loads(h, q)
    BY <1>5 DEF ForceCloseLoad
  <2>. HIDE DEF p
  <2>4. q \in Handler /\ StillTrue(q)
    BY <2>1, <2>2 DEF Handler, StillTrue
  <2>. HIDE DEF q
  <2>. QED  BY <2>3, <2>4, ReadsAtLoad
<1>. QED  BY <1>1, <1>2, <1>3, <1>4, <1>5

(* Arrivals at a bill.                                                     *)
LEMMA BillLoads ==
  ASSUME Serial, Inv, SerialInv, NEW h \in Handlers, NEW s \in Sessions, NEW amount,
         NEW by \in Collectors, NEW ref \in Refs \cup {NULL}, NEW pc \in {"verifying", "settling"},
         PayableLoad(h, pc, s, amount, by, ref)
  PROVE  SerialInv'
<1>. DEFINE q == [pc |-> pc, session |-> s, amount |-> amount, paid |-> bill[s].paid,
                  version |-> bill[s].version, by |-> by, ref |-> ref]
<1>1. Loads(h, q) /\ bill[s].status \in Payable /\ amount \in 1..(Total(bill[s]) - bill[s].paid)
  BY DEF PayableLoad
<1>2. bill[s] \in Bill /\ bill[s] # NoBill
  BY <1>1 DEF Inv, TablesOK, TableTypes, Payable, NoBill
<1>3. bill[s].paid \in Nat /\ bill[s].version \in Nat /\ bill[s].lines \in SUBSET Items
  BY <1>2, BillRow
<1>4. Total(bill[s]) \in Nat
  BY <1>3, TotalPositive
<1>5. amount \in Nat
  BY <1>1, <1>3, <1>4
<1>6. q \in Handler
  BY <1>3, <1>5 DEF Handler
<1>7. StillTrue(q)
  BY DEF StillTrue
<1>. HIDE DEF q
<1>. QED  BY <1>1, <1>6, <1>7, ReadsAtLoad

(* Whatever arrives.                                                       *)
LEMMA SerialArrivals ==
  ASSUME Serial, Inv, SerialInv, NEW h \in Handlers, Arrives(h)
  PROVE  SerialInv'
<1>1. ASSUME NEW s \in Sessions, NEW amount, NEW by \in Collectors, CashLoad(h, s, amount, by)
      PROVE  SerialInv'
  BY <1>1, BillLoads DEF CashLoad
<1>2. ASSUME NEW s \in Sessions, NEW amount, NEW by \in Collectors, NEW ref \in Refs,
             TransferLoad(h, s, amount, by, ref)
      PROVE  SerialInv'
  BY <1>2, BillLoads DEF TransferLoad
<1>3. ASSUME NEW open \in SUBSET Sessions, ClockOutLoad(h, open)
      PROVE  SerialInv'
  <2>. DEFINE q == [pc |-> "clockingOut", sessions |-> open]
  <2>1. q \in Handler /\ Loads(h, q) /\ StillTrue(q)
    BY <1>3 DEF ClockOutLoad, Handler, StillTrue
  <2>. QED  BY <2>1, ReadsAtLoad
<1>. QED  BY <1>1, <1>2, <1>3, SeatLoads, RowLoads, SessionLoads DEF Arrives
-----------------------------------------------------------------------------
(* A session is opened at a table or in a room where nobody is seated.     *)
LEMMA Seats ==
  ASSUME Serial, Inv, SerialInv, NEW h \in Handlers, NEW s \in Sessions,
         StartCommit(h, s) \/ GuestOpens(h, s)
  PROVE  SerialInv'
<1>1. PICK q \in Handler : handler[h] = q /\ Fits(q) /\ StillTrue(q)
  BY Read
<1>. DEFINE t == q.seat
<1>2. t \in Tables \cup Rooms /\ session[s] = NoSession /\ (t \in Tables => ActiveAt(t) = {})
      /\ (GuestOpens(h, s) => t \in Tables /\ q.pc = "opening")
      /\ (t \in Rooms => StartCommit(h, s) /\ ActiveAt(t) = {})
  BY <1>1, HandlerRow, SeatingAssumption
     DEF StartCommit, GuestOpens, In, MayInsert, StillTrue, Serial
<1>3. PICK status \in {"OPEN", "ACTIVE_ORDER"}, marked \in BOOLEAN :
        /\ session' = [session EXCEPT ![s] = Opened(t, "DINE_IN", status, marked)]
        /\ table' = IF marked /\ t \in Tables THEN [table EXCEPT ![t] = "OCCUPIED"] ELSE table
  BY <1>1 DEF StartCommit, GuestOpens
<1>. HIDE DEF t
<1>4. session \in [Sessions -> Session] /\ table \in [Tables -> {"AVAILABLE", "OCCUPIED"}]
  BY DEF Inv, TablesOK, TableTypes
<1>5. UNCHANGED <<item, ask, bill, settled, banking>>
  BY DEF StartCommit, GuestOpens
<1>. DEFINE r == Opened(t, "DINE_IN", status, marked)
<1>6. /\ r # NoSession /\ r.kind = "DINE_IN" /\ r.status = status /\ r.status # "CLOSED"
      /\ ~r.closed /\ r.seat = t /\ r.marked = marked
  BY DEF Opened, NoSession
<1>. HIDE DEF r
<1>7. session'[s] = r /\ \A x \in Sessions : x # s => session'[x] = session[x]
  BY <1>3, <1>4 DEF r
<1>8. \A x : Chargeable(x)' = Chargeable(x) /\ PendingOf(x)' = PendingOf(x)
  BY <1>5 DEF Chargeable, PendingOf, Pending
<1>9. bill[s] = NoBill /\ Chargeable(s) = {}
  BY <1>2, Ordered DEF SerialInv, InOrder
<1>10. SessionsInOrder'
  <2>1. InOrder(r, bill[s], Chargeable(s), PendingOf(s))
    <3>1. InOrder(session[s], bill[s], Chargeable(s), PendingOf(s))
      BY Ordered DEF SerialInv
    <3>2. NoBill.status # "PAID"
      BY DEF NoBill
    <3>. QED  BY <1>6, <1>9, <3>1, <3>2 DEF InOrder
  <2>. QED  BY <1>5, <1>7, <1>8, <2>1, OneSession DEF SerialInv
<1>11. \A x \in Sessions : Active(x)' <=> Active(x) \/ x = s
  BY <1>6, <1>7 DEF Active, Exists
<1>12. \A u : ActiveAt(u)' = IF u = t THEN {s} ELSE ActiveAt(u)
  <2>1. ~Active(s) /\ ActiveAt(t) = {}
    BY <1>2 DEF Active, Exists
  <2>. QED  BY <1>2, <1>6, <1>7, <1>11, <2>1 DEF ActiveAt
<1>13. Floor'
  <2>1. \A u \in Tables :
          table'[u] = IF u = t /\ marked THEN "OCCUPIED" ELSE table[u]
    BY <1>3, <1>4
  <2>2. t \in Tables => table[t] # "OCCUPIED"
    BY <1>2 DEF SerialInv, Floor, SeatedIsOccupied
  <2>3. \A u \in Tables : \A x \in ActiveAt(u) : x # s
    BY <1>2 DEF ActiveAt, Active, Exists
  <2>4. SeatedIsOccupied'
    <3>1. ASSUME NEW u \in Tables
          PROVE  table'[u] = "OCCUPIED" <=> \E x \in ActiveAt(u)' : session'[x].marked
      <4>1. CASE u = t
        BY <1>6, <1>7, <1>12, <2>1, <2>2, <4>1
      <4>2. CASE u # t
        <5>1. \A x \in ActiveAt(u) : session'[x] = session[x]
          BY <1>7, <2>3 DEF ActiveAt
        <5>. QED  BY <1>12, <2>1, <4>2, <5>1 DEF SerialInv, Floor, SeatedIsOccupied
      <4>. QED  BY <4>1, <4>2
    <3>. QED  BY <3>1 DEF SeatedIsOccupied
  <2>5. OneParty'
    BY <1>12 DEF SerialInv, Floor, OneParty
  <2>. QED  BY <2>4, <2>5 DEF Floor
<1>14. CASE StartCommit(h, s)
  BY <1>10, <1>13, <1>14, Finished DEF StartCommit
<1>15. CASE GuestOpens(h, s)
  <2>. DEFINE p == [pc |-> "marking", session |-> s, state |-> q.state]
  <2>1. handler' = [handler EXCEPT ![h] = p]
    BY <1>1, <1>15 DEF GuestOpens
  <2>2. p \in Handler
    BY <1>2, <1>15, HandlerRow DEF Handler
  <2>3. StillTrue(p)'
    BY <1>2, <1>5, <1>6, <1>7, <1>9, <1>11, <1>15 DEF StillTrue
  <2>. HIDE DEF p
  <2>. QED  BY <1>10, <1>13, <2>1, <2>2, <2>3, AllRead DEF SerialInv
<1>. QED  BY <1>14, <1>15

(* One session changes its status, its table's mark or its history, but    *)
(* is neither opened nor closed.                                           *)
LEMMA RowMoves ==
  ASSUME Inv, SerialInv, NEW s \in Sessions, Exists(s), NEW r \in Session, r # NoSession,
         session' = [session EXCEPT ![s] = r],
         r.seat = session[s].seat, r.closed = session[s].closed,
         InOrder(r, bill'[s], Chargeable(s)', PendingOf(s)'),
         \A x \in Sessions : x # s =>
           bill'[x] = bill[x] /\ Chargeable(x)' = Chargeable(x) /\ PendingOf(x)' = PendingOf(x)
  PROVE  /\ SessionsInOrder'
         /\ session'[s] = r /\ \A x \in Sessions : x # s => session'[x] = session[x]
         /\ \A t : ActiveAt(t)' = ActiveAt(t)
         /\ Active(s)' <=> Active(s)
<1>1. session'[s] = r /\ \A x \in Sessions : x # s => session'[x] = session[x]
  BY DEF Inv, TablesOK, TableTypes
<1>2. SessionsInOrder'
  BY <1>1, OneSession DEF SerialInv
<1>3. \A x \in Sessions : Active(x) <=> Exists(x) /\ ~session[x].closed
  BY ActiveIsOpen DEF SerialInv
<1>4. \A x \in Sessions : Active(x)' <=> Exists(x)' /\ ~session'[x].closed
  BY <1>2, Ordered DEF Active, Exists, InOrder, SessionsInOrder
<1>5. \A x \in Sessions : (Active(x)' <=> Active(x)) /\ session'[x].seat = session[x].seat
  BY <1>1, <1>3, <1>4 DEF Exists
<1>. QED  BY <1>1, <1>2, <1>5 DEF ActiveAt

(* The table of a guest's order is marked.                                 *)
LEMMA Marks ==
  ASSUME Serial, Inv, SerialInv, NEW h \in Handlers, GuestMarks(h)
  PROVE  SerialInv'
<1>1. PICK q \in Handler : handler[h] = q /\ Fits(q) /\ StillTrue(q)
  BY Read
<1>. DEFINE Row == [pc : {"marking", "ordering"}, session : Sessions, state : {"CONFIRMED", "KITCHEN"}]
            p == [q EXCEPT !.pc = "ordering"]
<1>2. q \in Row /\ q.pc = "marking"
  BY <1>1, HandlerRow DEF GuestMarks, In
<1>3. PICK s \in Sessions : /\ s = q.session /\ Active(s) /\ Exists(s) /\ session[s].seat \in Tables
                            /\ bill[s] = NoBill \/ session[s].reopened
  BY <1>1, <1>2 DEF StillTrue, Active
<1>. DEFINE r == [session[s] EXCEPT !.marked = TRUE]
            t == session[s].seat
<1>4. /\ session' = [session EXCEPT ![s] = r] /\ handler' = [handler EXCEPT ![h] = p]
      /\ table' = [table EXCEPT ![t] = "OCCUPIED"] /\ UNCHANGED <<item, ask, bill, settled, banking>>
  BY <1>1, <1>3 DEF GuestMarks
<1>5. p \in Handler /\ p.pc = "ordering" /\ p.session = s
  BY <1>2, <1>3 DEF Handler
<1>6. session[s] \in Session /\ table \in [Tables -> {"AVAILABLE", "OCCUPIED"}]
  BY DEF Inv, TablesOK, TableTypes
<1>7. /\ r \in Session /\ r # NoSession /\ r.status = session[s].status /\ r.marked
      /\ r.seat = t /\ r.kind = session[s].kind /\ r.closed = session[s].closed
      /\ r.forced = session[s].forced /\ r.reopened = session[s].reopened
  BY <1>3, <1>6, SessionNoted DEF Exists
<1>. HIDE DEF r, p, t
<1>8. \A x : Chargeable(x)' = Chargeable(x) /\ PendingOf(x)' = PendingOf(x)
  BY <1>4 DEF Chargeable, PendingOf, Pending
<1>9. InOrder(r, bill'[s], Chargeable(s)', PendingOf(s)')
  <2>1. InOrder(session[s], bill[s], Chargeable(s), PendingOf(s)) /\ session[s] # NoSession
    BY <1>3, Ordered DEF SerialInv, Exists
  <2>. QED  BY <1>4, <1>7, <1>8, <2>1 DEF InOrder
<1>10. /\ SessionsInOrder'
       /\ session'[s] = r /\ \A x \in Sessions : x # s => session'[x] = session[x]
       /\ \A u : ActiveAt(u)' = ActiveAt(u)
       /\ Active(s)' <=> Active(s)
  BY <1>3, <1>4, <1>7, <1>8, <1>9, RowMoves DEF t
<1>11. Floor'
  <2>1. ASSUME NEW u \in Tables
        PROVE  table'[u] = "OCCUPIED" <=> \E x \in ActiveAt(u)' : session'[x].marked
    <3>1. CASE u = t
      <4>1. s \in ActiveAt(u)
        BY <1>3, <3>1 DEF ActiveAt, t
      <4>. QED  BY <1>4, <1>6, <1>7, <1>10, <3>1, <4>1
    <3>2. CASE u # t
      <4>1. \A x \in ActiveAt(u) : x # s /\ session'[x] = session[x]
        BY <1>10, <3>2 DEF ActiveAt, t
      <4>2. table'[u] = table[u]
        BY <1>4, <1>6, <3>2
      <4>. QED  BY <1>10, <4>1, <4>2 DEF SerialInv, Floor, SeatedIsOccupied
    <3>. QED  BY <3>1, <3>2
  <2>. QED  BY <1>10, <2>1 DEF SerialInv, Floor, SeatedIsOccupied, OneParty
<1>12. StillTrue(p)'
  BY <1>3, <1>4, <1>5, <1>7, <1>10 DEF StillTrue
<1>. QED  BY <1>4, <1>5, <1>10, <1>11, <1>12, AllRead DEF SerialInv

(* The status of one session is set, and what its order is about stays     *)
(* within it: nothing opens or closes.                                     *)
LEMMA StatusMoves ==
  ASSUME Inv, SerialInv, NEW s \in Sessions, Exists(s), NEW status \in Status,
         SetStatus(s, status), table' = table,
         \A x \in Sessions : x # s =>
           bill'[x] = bill[x] /\ Chargeable(x)' = Chargeable(x) /\ PendingOf(x)' = PendingOf(x),
         \A r \in Session :
           /\ r # NoSession /\ r.status = status /\ r.kind = session[s].kind
           /\ r.closed = session[s].closed /\ r.forced = session[s].forced
           /\ r.reopened = session[s].reopened
           => InOrder(r, bill'[s], Chargeable(s)', PendingOf(s)')
  PROVE  SessionsInOrder' /\ Floor'
<1>1. /\ session' \in [Sessions -> Session]
      /\ \A x \in Sessions : Exists(x) => Exists(x)'
      /\ session'[s].status = status
      /\ \A x \in Sessions : Exists(x) =>
           /\ session'[x].seat = session[x].seat /\ session'[x].kind = session[x].kind
           /\ session'[x].closed = session[x].closed /\ session'[x].forced = session[x].forced
           /\ session'[x].marked = session[x].marked /\ session'[x].reopened = session[x].reopened
      /\ \A x \in Sessions : x # s => session'[x] = session[x]
  BY StatusSet DEF Inv, TablesOK, TableTypes
<1>2. InOrder(session'[s], bill'[s], Chargeable(s)', PendingOf(s)')
  BY <1>1 DEF Exists
<1>3. SessionsInOrder'
  BY <1>1, <1>2, OneSession DEF SerialInv
<1>4. \A x \in Sessions : Exists(x)' <=> Exists(x)
  BY <1>1 DEF Exists
<1>. QED  BY <1>1, <1>3, <1>4, FloorStays DEF SerialInv

(* An order only finds sessions without a bill.                            *)
LEMMA Orders ==
  ASSUME Serial, Inv, SerialInv, NEW h \in Handlers, NEW new \in SUBSET Items, OrderCommit(h, new)
  PROVE  SerialInv'
<1>1. PICK q \in Handler : handler[h] = q /\ Fits(q) /\ StillTrue(q)
  BY Read
<1>2. /\ q.session \in Sessions /\ q.state \in {"CONFIRMED", "KITCHEN"} /\ Active(q.session)
      /\ bill[q.session] = NoBill \/ session[q.session].reopened
  BY <1>1, HandlerRow DEF OrderCommit, In, StillTrue
<1>3. PICK s \in Sessions : s = q.session
  BY <1>2
<1>. DEFINE r == [session |-> s, state |-> q.state]
<1>4. /\ item' = [i \in Items |-> IF i \in new THEN r ELSE item[i]]
      /\ \A i \in new : item[i] = NoItem
      /\ SetStatus(s, "ACTIVE_ORDER") /\ UNCHANGED <<table, ask, bill, settled, banking>>
      /\ Ends(h)
  BY <1>1, <1>2, <1>3 DEF OrderCommit
<1>5. r.session = s
  OBVIOUS
<1>. HIDE DEF r
<1>6. \A x \in Sessions : x # s => Chargeable(x)' = Chargeable(x)
  BY <1>4, <1>5 DEF Chargeable
<1>7. \A x : PendingOf(x)' = PendingOf(x)
  BY <1>4 DEF PendingOf, Pending
<1>8. Exists(s) /\ (bill[s] = NoBill \/ session[s].reopened) /\ ~session[s].closed
  BY <1>2, <1>3 DEF Active
<1>9. ASSUME NEW x \in Session, x # NoSession, x.status = "ACTIVE_ORDER", x.kind = session[s].kind,
             x.closed = session[s].closed, x.reopened = session[s].reopened
      PROVE  InOrder(x, bill'[s], Chargeable(s)', PendingOf(s)')
  <2>1. InOrder(session[s], bill[s], Chargeable(s), PendingOf(s)) /\ session[s] # NoSession
    BY <1>8, Ordered DEF SerialInv, Exists
  <2>2. NoBill.status # "PAID"
    BY DEF NoBill
  <2>. QED  BY <1>4, <1>7, <1>8, <1>9, <2>1, <2>2 DEF InOrder
<1>10. SessionsInOrder' /\ Floor'
  <2>1. "ACTIVE_ORDER" \in Status
    BY DEF Status
  <2>. QED  BY <1>4, <1>6, <1>7, <1>8, <1>9, <2>1, StatusMoves
<1>. QED  BY <1>4, <1>10, Finished

(* Unsent tickets go to the kitchen, and a session with a bill is reopened. *)
LEMMA Sends ==
  ASSUME Serial, Inv, SerialInv, NEW h \in Handlers, SendCommit(h)
  PROVE  SerialInv'
<1>1. PICK q \in Handler : handler[h] = q /\ Fits(q) /\ StillTrue(q)
  BY Read
<1>2. PICK s \in Sessions : s = q.session /\ Active(s) /\ Exists(s)
  BY <1>1, HandlerRow DEF SendCommit, In, StillTrue, Active
<1>. DEFINE S == Unsent(s)
            r == Reopened(session[s], bill[s])
<1>3. /\ item' = [i \in Items |-> IF i \in S THEN [item[i] EXCEPT !.state = "KITCHEN"] ELSE item[i]]
      /\ session' = [session EXCEPT ![s] = r]
      /\ UNCHANGED <<table, ask, bill, settled, banking>> /\ Ends(h)
  BY <1>1, <1>2 DEF SendCommit
<1>4. session[s] \in Session
  BY DEF Inv, TablesOK, TableTypes
<1>5. /\ r \in Session /\ r # NoSession /\ r.status = "ACTIVE_ORDER" /\ r.marked = session[s].marked
      /\ r.seat = session[s].seat /\ r.kind = session[s].kind /\ r.closed = session[s].closed
      /\ r.forced = session[s].forced /\ (bill[s] # NoBill => r.reopened)
  <2>1. session[s] # NoSession
    BY <1>2 DEF Exists
  <2>. QED  BY <1>4, <2>1, SessionNoted, Zenon
<1>. HIDE DEF r
<1>6. \A x : Chargeable(x)' = Chargeable(x)
  <2>1. ASSUME NEW i \in Items
        PROVE  /\ item'[i] # NoItem <=> item[i] # NoItem
               /\ item[i] # NoItem => /\ item'[i].session = item[i].session
                                      /\ item'[i].state = "CANCELLED" <=> item[i].state = "CANCELLED"
    <3>1. CASE i \in S
      <4>1. item[i] \in Item /\ item[i] # NoItem /\ item[i].state = "CONFIRMED"
        BY <3>1 DEF Unsent, Chargeable, Inv, TablesOK, TableTypes
      <4>2. item'[i] = [item[i] EXCEPT !.state = "KITCHEN"]
        BY <1>3, <3>1
      <4>. QED  BY <4>1, <4>2, TicketMoves
    <3>2. CASE i \notin S
      BY <1>3, <3>2
    <3>. QED  BY <3>1, <3>2
  <2>. QED  BY <2>1 DEF Chargeable
<1>7. \A x : PendingOf(x)' = PendingOf(x)
  BY <1>3 DEF PendingOf, Pending
<1>8. ~session[s].closed
  BY <1>2 DEF Active
<1>9. InOrder(r, bill'[s], Chargeable(s)', PendingOf(s)')
  <2>1. InOrder(session[s], bill[s], Chargeable(s), PendingOf(s)) /\ session[s] # NoSession
    BY <1>2, Ordered DEF SerialInv, Exists
  <2>2. NoBill.status # "PAID"
    BY DEF NoBill
  <2>. QED  BY <1>3, <1>5, <1>6, <1>7, <1>8, <2>1, <2>2 DEF InOrder
<1>10. /\ SessionsInOrder'
       /\ session'[s] = r /\ \A x \in Sessions : x # s => session'[x] = session[x]
       /\ \A u : ActiveAt(u)' = ActiveAt(u)
  BY <1>2, <1>3, <1>5, <1>6, <1>7, <1>9, RowMoves
<1>11. Floor'
  <2>1. \A u \in Tables : \A x \in ActiveAt(u) : session'[x].marked = session[x].marked
    BY <1>5, <1>10 DEF ActiveAt
  <2>. QED  BY <1>3, <1>10, <2>1 DEF SerialInv, Floor, SeatedIsOccupied, OneParty
<1>. QED  BY <1>3, <1>10, <1>11, Finished

(* Serving a ticket changes nothing that a request has read.               *)
LEMMA Serves ==
  ASSUME Serial, Inv, SerialInv, NEW i \in Items, Serve(i)
  PROVE  SerialInv'
<1>. DEFINE r == [item[i] EXCEPT !.state = "SERVED"]
<1>1. /\ item[i].state = "KITCHEN" /\ item' = [item EXCEPT ![i] = r]
      /\ UNCHANGED <<session, table, ask, bill, settled, banking, handler>>
  BY DEF Serve
<1>2. item \in [Items -> Item] /\ item[i] # NoItem
  BY <1>1 DEF Inv, TablesOK, TableTypes, NoItem
<1>3. r # NoItem /\ r.session = item[i].session /\ r.state = "SERVED"
  BY <1>2, TicketMoves
<1>. HIDE DEF r
<1>4. \A s : Chargeable(s)' = Chargeable(s)
  BY <1>1, <1>2, <1>3 DEF Chargeable
<1>5. \A s : /\ PendingOf(s)' = PendingOf(s) /\ ActiveAt(s)' = ActiveAt(s)
             /\ Active(s)' = Active(s)
  BY <1>1 DEF PendingOf, Pending, ActiveAt, Active, Exists
<1>6. SessionsInOrder'
  BY <1>1, <1>4, <1>5 DEF SerialInv, SessionsInOrder
<1>7. Floor'
  BY <1>1, <1>5 DEF SerialInv, Floor, SeatedIsOccupied, OneParty
<1>8. ReadsHold'
  <2>1. ASSUME NEW q \in Handler, StillTrue(q) PROVE StillTrue(q)'
    BY <1>1, <1>4, <1>5, <2>1 DEF StillTrue, Pending
  <2>. QED  BY <1>1, <2>1 DEF SerialInv, ReadsHold
<1>. QED  BY <1>6, <1>7, <1>8 DEF SerialInv

(* A cancelled ticket is charged no more; the last of a table clears it.   *)
LEMMA Cancels ==
  ASSUME Serial, Inv, SerialInv, NEW h \in Handlers, CancelCommit(h)
  PROVE  SerialInv'
<1>1. PICK q \in Handler : handler[h] = q /\ Fits(q)
  BY Held
<1>2. PICK i \in Items : i = q.item /\ item[i] # NoItem
  BY <1>1, HandlerRow DEF CancelCommit, In, Fits
<1>3. PICK s \in Sessions : s = item[i].session /\ Exists(s)
  BY <1>2, ItemRow DEF Inv, TablesOK, TableTypes, RowsRefer
<1>. DEFINE r == [item[i] EXCEPT !.state = "CANCELLED"]
<1>4. /\ item' = [item EXCEPT ![i] = r]
      /\ \/ session' = session
         \/ /\ session[s].status = "ACTIVE_ORDER" /\ SetStatus(s, "OPEN")
            /\ Chargeable(s) \ {i} = {}
      /\ UNCHANGED <<table, ask, bill, settled, banking>> /\ Ends(h)
  BY <1>1, <1>2, <1>3 DEF CancelCommit, SetStatus
<1>5. item \in [Items -> Item]
  BY DEF Inv, TablesOK, TableTypes
<1>6. r # NoItem /\ r.session = s /\ r.state = "CANCELLED"
  BY <1>2, <1>3, <1>5, TicketMoves
<1>. HIDE DEF r
<1>7. Chargeable(s)' \subseteq Chargeable(s) \ {i} /\ \A x : x # s => Chargeable(x)' = Chargeable(x)
  BY <1>3, <1>4, <1>5, <1>6 DEF Chargeable
<1>8. \A x : PendingOf(x)' = PendingOf(x)
  BY <1>4 DEF PendingOf, Pending
<1>9. InOrder(session[s], bill[s], Chargeable(s), PendingOf(s)) /\ session[s] # NoSession
  BY <1>3, Ordered DEF SerialInv, Exists
<1>10. SessionsInOrder' /\ Floor'
  <2>1. CASE session' = session
    <3>1. InOrder(session[s], bill[s], Chargeable(s)', PendingOf(s))
      BY <1>7, <1>9 DEF InOrder
    <3>2. SessionsInOrder'
      BY <1>4, <1>7, <1>8, <2>1, <3>1, OneSession DEF SerialInv
    <3>. QED  BY <1>4, <2>1, <3>2, FloorStays DEF SerialInv, Exists
  <2>2. CASE /\ session[s].status = "ACTIVE_ORDER" /\ SetStatus(s, "OPEN")
             /\ Chargeable(s) \ {i} = {}
    <3>1. ASSUME NEW x, x # NoSession, x.status = "OPEN", x.kind = session[s].kind,
                 x.closed = session[s].closed, x.forced = session[s].forced,
                 x.reopened = session[s].reopened
          PROVE  InOrder(x, bill'[s], Chargeable(s)', PendingOf(s)')
      <4>1. bill[s] = NoBill \/ session[s].reopened
        BY <1>9, <2>2 DEF InOrder, GuestOrderable
      <4>2. NoBill.status # "PAID" /\ Chargeable(s)' = {}
        BY <1>7, <2>2 DEF NoBill
      <4>. QED  BY <1>4, <1>8, <1>9, <3>1, <4>1, <4>2 DEF InOrder
    <3>2. "OPEN" \in Status
      BY DEF Status
    <3>. QED  BY <1>3, <1>4, <1>7, <1>8, <2>2, <3>1, <3>2, StatusMoves
  <2>. QED  BY <1>4, <2>1, <2>2
<1>. QED  BY <1>4, <1>10, Finished
-----------------------------------------------------------------------------
(* One bill request changes, at its session.                               *)
LEMMA RequestMoves ==
  ASSUME Inv, NEW a \in BillAsks, NEW r \in Ask, r # NoAsk, ask' = [ask EXCEPT ![a] = r],
         ask[a] = NoAsk \/ ask[a].session = r.session
  PROVE  /\ \A x : x # r.session => PendingOf(x)' = PendingOf(x)
         /\ PendingOf(r.session)' =
              IF r.status = "PENDING" THEN PendingOf(r.session) \cup {a}
                                      ELSE PendingOf(r.session) \ {a}
<1>1. ask \in [BillAsks -> Ask]
  BY DEF Inv, TablesOK, TableTypes
<1>2. NoAsk.status # "PENDING"
  BY DEF NoAsk
<1>. QED  BY <1>1, <1>2 DEF PendingOf, Pending

(* A bill is requested of a session that has neither bill nor request.     *)
LEMMA Asks ==
  ASSUME Serial, Inv, SerialInv, NEW h \in Handlers, NEW a \in BillAsks, AskCommit(h, a)
  PROVE  SerialInv'
<1>1. PICK q \in Handler : handler[h] = q /\ Fits(q) /\ StillTrue(q)
  BY Read
<1>2. PICK s \in Sessions : s = q.session /\ Exists(s) /\ bill[s] = NoBill /\ PendingOf(s) = {}
  BY <1>1, HandlerRow DEF AskCommit, In, Fits, StillTrue
<1>. DEFINE r == [session |-> s, status |-> "PENDING"]
<1>3. /\ ask[a] = NoAsk /\ ask' = [ask EXCEPT ![a] = r] /\ SetStatus(s, "BILL_REQUESTED")
      /\ UNCHANGED <<table, item, bill, settled, banking>> /\ Ends(h)
  BY <1>1, <1>2 DEF AskCommit
<1>4. r \in Ask /\ r # NoAsk /\ r.session = s /\ r.status = "PENDING"
  BY <1>2 DEF Ask, NoAsk
<1>. HIDE DEF r
<1>5. PendingOf(s)' = {a} /\ \A x : x # s => PendingOf(x)' = PendingOf(x)
  BY <1>2, <1>3, <1>4, RequestMoves
<1>6. \A x : Chargeable(x)' = Chargeable(x)
  BY <1>3 DEF Chargeable
<1>7. InOrder(session[s], bill[s], Chargeable(s), PendingOf(s)) /\ session[s] # NoSession
  BY <1>2, Ordered DEF SerialInv, Exists
<1>8. ASSUME NEW x, x # NoSession, x.status = "BILL_REQUESTED", x.kind = session[s].kind,
             x.closed = session[s].closed, x.forced = session[s].forced, x.reopened = session[s].reopened
      PROVE  InOrder(x, bill'[s], Chargeable(s)', PendingOf(s)')
  <2>1. NoBill.status # "PAID"
    BY DEF NoBill
  <2>. QED  BY <1>2, <1>3, <1>5, <1>6, <1>7, <1>8, <2>1 DEF InOrder
<1>9. SessionsInOrder' /\ Floor'
  <2>1. "BILL_REQUESTED" \in Status
    BY DEF Status
  <2>. QED  BY <1>2, <1>3, <1>5, <1>6, <1>8, <2>1, StatusMoves
<1>. QED  BY <1>3, <1>9, Finished

(* A request is withdrawn before there is a bill.                          *)
LEMMA Withdraws ==
  ASSUME Serial, Inv, SerialInv, NEW h \in Handlers, WithdrawCommit(h)
  PROVE  SerialInv'
<1>1. PICK q \in Handler : handler[h] = q /\ Fits(q) /\ StillTrue(q)
  BY Read
<1>2. PICK a \in BillAsks : a = q.ask /\ ask[a] # NoAsk /\ Pending(a)
  BY <1>1, HandlerRow DEF WithdrawCommit, In, Fits, StillTrue
<1>3. PICK s \in Sessions : s = ask[a].session /\ Exists(s) /\ ask[a] \in Ask
  BY <1>2, AskRow DEF Inv, TablesOK, TableTypes, RowsRefer
<1>. DEFINE r == [ask[a] EXCEPT !.status = "CANCELLED"]
<1>4. PICK status \in {"ACTIVE_ORDER", "OPEN"} :
        SetStatus(s, status) /\ (status = "OPEN" => Chargeable(s) = {})
  BY <1>1, <1>2, <1>3 DEF WithdrawCommit, Chargeable
<1>5. /\ ask' = [ask EXCEPT ![a] = r]
      /\ UNCHANGED <<table, item, bill, settled, banking>> /\ Ends(h)
  BY <1>1, <1>2 DEF WithdrawCommit
<1>6. r \in Ask /\ r # NoAsk /\ r.session = s /\ r.status = "CANCELLED"
  BY <1>2, <1>3, RequestDecided
<1>. HIDE DEF r
<1>7. PendingOf(s)' = PendingOf(s) \ {a} /\ \A x : x # s => PendingOf(x)' = PendingOf(x)
  BY <1>3, <1>5, <1>6, RequestMoves
<1>8. \A x : Chargeable(x)' = Chargeable(x)
  BY <1>5 DEF Chargeable
<1>9. InOrder(session[s], bill[s], Chargeable(s), PendingOf(s)) /\ session[s] # NoSession
  BY <1>3, Ordered DEF SerialInv, Exists
<1>10. bill[s] = NoBill
  BY <1>2, <1>3, <1>9 DEF InOrder, PendingOf
<1>11. ASSUME NEW x, x # NoSession, x.status = status, x.kind = session[s].kind,
              x.closed = session[s].closed, x.forced = session[s].forced, x.reopened = session[s].reopened
       PROVE  InOrder(x, bill'[s], Chargeable(s)', PendingOf(s)')
  <2>1. NoBill.status # "PAID"
    BY DEF NoBill
  <2>. QED  BY <1>4, <1>5, <1>7, <1>8, <1>9, <1>10, <1>11, <2>1 DEF InOrder
<1>12. SessionsInOrder' /\ Floor'
  <2>1. status \in Status
    BY DEF Status
  <2>. QED  BY <1>3, <1>4, <1>5, <1>7, <1>8, <1>11, <2>1, StatusMoves
<1>. QED  BY <1>5, <1>12, Finished

(* A bill has everything that was chargeable and fulfils the only request. *)
LEMMA Bills ==
  ASSUME Serial, Inv, SerialInv, NEW h \in Handlers, BillCommit(h)
  PROVE  SerialInv'
<1>1. PICK q \in Handler : handler[h] = q /\ Fits(q) /\ StillTrue(q)
  BY Read
<1>2. PICK a \in BillAsks : a = q.ask /\ ask[a] # NoAsk /\ Pending(a)
  BY <1>1, HandlerRow DEF BillCommit, In, Fits, StillTrue
<1>3. PICK s \in Sessions : s = ask[a].session /\ Exists(s) /\ ask[a] \in Ask
  BY <1>2, AskRow DEF Inv, TablesOK, TableTypes, RowsRefer
<1>. DEFINE r == [ask[a] EXCEPT !.status = "FULFILLED"]
            b == [status |-> "GENERATED", lines |-> Chargeable(s), paid |-> 0, version |-> 1]
<1>4. /\ bill[s] = NoBill /\ bill' = [bill EXCEPT ![s] = b] /\ ask' = [ask EXCEPT ![a] = r]
      /\ SetStatus(s, "BILL_READY") /\ UNCHANGED <<table, item, settled, banking>> /\ Ends(h)
  BY <1>1, <1>2, <1>3 DEF BillCommit, In, StillTrue
<1>5. r \in Ask /\ r # NoAsk /\ r.session = s /\ r.status = "FULFILLED"
  BY <1>2, <1>3, RequestDecided
<1>6. b # NoBill /\ b.lines = Chargeable(s) /\ b.status = "GENERATED"
  BY DEF NoBill
<1>. HIDE DEF r, b
<1>7. bill'[s] = b /\ \A x \in Sessions : x # s => bill'[x] = bill[x]
  BY <1>4 DEF Inv, TablesOK, TableTypes
<1>8. PendingOf(s)' = PendingOf(s) \ {a} /\ \A x : x # s => PendingOf(x)' = PendingOf(x)
  BY <1>3, <1>4, <1>5, RequestMoves
<1>9. \A x : Chargeable(x)' = Chargeable(x)
  BY <1>4 DEF Chargeable
<1>10. InOrder(session[s], bill[s], Chargeable(s), PendingOf(s)) /\ session[s] # NoSession
  BY <1>3, Ordered DEF SerialInv, Exists
<1>11. PendingOf(s)' = {}
  BY <1>2, <1>3, <1>8, <1>10 DEF InOrder, PendingOf
<1>12. ASSUME NEW x, x # NoSession, x.status = "BILL_READY", x.kind = session[s].kind,
              x.closed = session[s].closed, x.forced = session[s].forced, x.reopened = session[s].reopened
       PROVE  InOrder(x, bill'[s], Chargeable(s)', PendingOf(s)')
  <2>1. NoBill.status \notin {"PAID", "CLOSED"}
    BY DEF NoBill
  <2>. QED  BY <1>4, <1>6, <1>7, <1>9, <1>10, <1>11, <1>12, <2>1 DEF InOrder, GuestOrderable
<1>13. SessionsInOrder' /\ Floor'
  <2>1. "BILL_READY" \in Status
    BY DEF Status
  <2>2. \A x \in Sessions : x # s =>
          bill'[x] = bill[x] /\ Chargeable(x)' = Chargeable(x) /\ PendingOf(x)' = PendingOf(x)
    BY <1>7, <1>8, <1>9
  <2>3. SetStatus(s, "BILL_READY") /\ table' = table /\ Exists(s)
    BY <1>3, <1>4
  <2>. QED  BY <1>12, <2>1, <2>2, <2>3, StatusMoves
<1>. QED  BY <1>4, <1>13, Finished

-----------------------------------------------------------------------------
(* Verify.ET answers.                                                      *)
LEMMA Verifies ==
  ASSUME Serial, Inv, SerialInv, NEW h \in Handlers, TransferVerified(h)
  PROVE  SerialInv'
<1>1. PICK q \in Handler : handler[h] = q
  BY Held
<1>. DEFINE r == [q EXCEPT !.pc = "settling"]
            Row == [pc : {"verifying", "settling"}, session : Sessions, amount : Nat, paid : Nat,
                    version : Nat, by : Collectors, ref : Refs \cup {NULL}]
<1>2. q \in Row /\ handler' = [handler EXCEPT ![h] = r] /\ UNCHANGED tables
  BY <1>1, HandlerRow DEF TransferVerified, In
<1>3. r \in Row /\ r.pc = "settling"
  BY <1>2
<1>4. r \in Handler
  BY <1>3 DEF Handler
<1>5. StillTrue(r)'
  BY <1>3 DEF StillTrue
<1>6. SessionsInOrder' /\ Floor'
  BY <1>2, Unmoved
<1>. HIDE DEF r
<1>. QED  BY <1>2, <1>4, <1>5, <1>6, AllRead DEF SerialInv

(* A payment in full makes the session PAID, a part payment leaves it.     *)
LEMMA Pays ==
  ASSUME Serial, Inv, SerialInv, NEW h \in Handlers, PayCommit(h)
  PROVE  SerialInv'
<1>1. PICK q \in Handler : handler[h] = q /\ Fits(q)
  BY Held
<1>2. q.pc = "settling" /\ Unchanged(q)
  BY <1>1 DEF PayCommit, In
<1>3. PICK s \in Sessions : s = q.session /\ bill[s] # NoBill /\ Exists(s)
  BY <1>1, <1>2, HandlerRow DEF Fits, Inv, TablesOK, RowsRefer
<1>. DEFINE c == Applied(q)
            full == q.paid + q.amount >= Total(bill[s])
<1>4. /\ bill' = [bill EXCEPT ![s] = c] /\ session' = Settled(q) /\ Ends(h)
      /\ UNCHANGED <<table, item, ask>>
  BY <1>1, <1>3 DEF PayCommit
<1>5. /\ c # NoBill /\ c.lines = bill[s].lines
      /\ c.status = IF full THEN "PAID" ELSE "PAYMENT_PENDING"
  BY <1>1, <1>2, <1>3, PaymentApplied
<1>. HIDE DEF c
<1>6. InOrder(session[s], bill[s], Chargeable(s), PendingOf(s)) /\ session[s] # NoSession
      /\ bill[s].status \in Payable
  BY <1>2, <1>3, Ordered DEF SerialInv, Exists, Unchanged
<1>7. IF full THEN SetStatus(s, "PAID") ELSE session' = session
  <2>1. q.paid + q.amount \in Nat /\ Total(bill[s]) \in Nat
    <3>1. q.paid \in Nat /\ q.amount \in Nat
      BY <1>2, HandlerRow
    <3>2. bill[s] \in Bill
      BY DEF Inv, TablesOK, TableTypes
    <3>. QED  BY <1>3, <3>1, <3>2, BillRow, TotalPositive
  <2>2. full <=> ~(q.paid + q.amount < Total(bill[s]))
    BY <2>1
  <2>3. session[s].kind # "COUNTER"
    BY <1>6 DEF InOrder
  <2>. QED  BY <1>3, <1>4, <2>2, <2>3 DEF Settled, SetStatus
<1>. HIDE DEF full
<1>8. bill'[s] = c /\ \A x \in Sessions : x # s => bill'[x] = bill[x]
  BY <1>4 DEF Inv, TablesOK, TableTypes
<1>9. \A x : Chargeable(x)' = Chargeable(x) /\ PendingOf(x)' = PendingOf(x)
  BY <1>4 DEF Chargeable, PendingOf, Pending
<1>10. SessionsInOrder' /\ Floor'
  <2>1. CASE full
    <3>1. ASSUME NEW x, x # NoSession, x.status = "PAID", x.kind = session[s].kind,
                 x.closed = session[s].closed, x.forced = session[s].forced, x.reopened = session[s].reopened
          PROVE  InOrder(x, bill'[s], Chargeable(s)', PendingOf(s)')
      BY <1>3, <1>5, <1>6, <1>8, <1>9, <2>1, <3>1 DEF InOrder, GuestOrderable
    <3>2. "PAID" \in Status
      BY DEF Status
    <3>. QED  BY <1>3, <1>4, <1>7, <1>8, <1>9, <2>1, <3>1, <3>2, StatusMoves
  <2>2. CASE ~full
    <3>1. session' = session /\ c.status = "PAYMENT_PENDING"
      BY <1>5, <1>7, <2>2
    <3>2. InOrder(session[s], c, Chargeable(s), PendingOf(s))
      BY <1>3, <1>5, <1>6, <3>1 DEF InOrder, Payable
    <3>3. SessionsInOrder'
      BY <1>8, <1>9, <3>1, <3>2, OneSession DEF SerialInv
    <3>. QED  BY <1>4, <3>1, <3>3, FloorStays DEF SerialInv, Exists
  <2>. QED  BY <2>1, <2>2
<1>. QED  BY <1>4, <1>10, Finished
-----------------------------------------------------------------------------
(* A row of a session that is closed, with or without force.               *)
LEMMA ClosedRow ==
  ASSUME NEW x \in Session, x # NoSession
  PROVE  LET y == [x EXCEPT !.status = "CLOSED", !.closed = TRUE]
             z == [x EXCEPT !.status = "CLOSED", !.closed = TRUE, !.forced = TRUE] IN
         /\ y # NoSession /\ y.status = "CLOSED" /\ y.closed
         /\ y.kind = x.kind /\ y.forced = x.forced /\ y.seat = x.seat
         /\ y.reopened = x.reopened
         /\ z # NoSession /\ z.status = "CLOSED" /\ z.closed /\ z.forced
         /\ z.kind = x.kind /\ z.seat = x.seat /\ z.reopened = x.reopened
<1>. DEFINE Row == [seat : Tables \cup Rooms, kind : {"DINE_IN", "COUNTER"},
                    status : Status, closed : BOOLEAN, forced : BOOLEAN,
                    marked : BOOLEAN, reopened : BOOLEAN]
            y == [x EXCEPT !.status = "CLOSED", !.closed = TRUE]
            z == [x EXCEPT !.status = "CLOSED", !.closed = TRUE, !.forced = TRUE]
<1>1. x \in Row
  BY SessionRow
<1>2. /\ y.status = "CLOSED" /\ y.closed /\ y.kind = x.kind /\ y.forced = x.forced
      /\ y.seat = x.seat /\ y.reopened = x.reopened
  BY <1>1
<1>3. /\ z.status = "CLOSED" /\ z.closed /\ z.forced /\ z.kind = x.kind /\ z.seat = x.seat
      /\ z.reopened = x.reopened
  BY <1>1
<1>4. NoSession.status = "NONE"
  BY DEF NoSession
<1>. HIDE DEF y, z
<1>5. y # NoSession /\ z # NoSession
  BY <1>2, <1>3, <1>4
<1>. QED  BY <1>2, <1>3, <1>5 DEF y, z

(* Closing a bill keeps its lines, and leaves no bill PAID.                *)
LEMMA BillCloses ==
  ASSUME NEW b \in Bill
  PROVE  /\ ClosedBill(b) = NoBill <=> b = NoBill
         /\ b # NoBill => ClosedBill(b).lines = b.lines
         /\ b.status \in {"PAID", "CLOSED"} => ClosedBill(b).status \in {"PAID", "CLOSED"}
<1>1. CASE b.status = "PAID"
  <2>. DEFINE Row == [status : Payable \cup {"PAID", "CLOSED"}, lines : SUBSET Items,
                      paid : Nat, version : Nat]
              c == [b EXCEPT !.status = "CLOSED", !.version = b.version + 1]
  <2>1. b # NoBill /\ b \in Row
    BY <1>1, BillRow DEF NoBill
  <2>2. c.status = "CLOSED" /\ c.lines = b.lines
    BY <2>1
  <2>3. ClosedBill(b) = c
    BY <1>1 DEF ClosedBill
  <2>4. NoBill.status = "NONE"
    BY DEF NoBill
  <2>. HIDE DEF c
  <2>. QED  BY <2>1, <2>2, <2>3, <2>4
<1>2. CASE b.status # "PAID"
  BY <1>2 DEF ClosedBill
<1>. QED  BY <1>1, <1>2

(* A session closes with nothing to charge or paid, and frees its table.   *)
LEMMA Closes ==
  ASSUME Serial, Inv, SerialInv, NEW h \in Handlers, CloseCommit(h)
  PROVE  SerialInv'
<1>1. PICK q \in Handler : handler[h] = q /\ StillTrue(q)
  BY Read
<1>2. PICK s \in Sessions : s = q.session /\ Active(s) /\ Exists(s)
                            /\ (Chargeable(s) = {} \/ session[s].status = "PAID")
  BY <1>1, HandlerRow DEF CloseCommit, In, StillTrue, Active
<1>. DEFINE r == [session[s] EXCEPT !.status = "CLOSED", !.closed = TRUE]
<1>3. /\ session' = [session EXCEPT ![s] = r] /\ Ends(h) /\ UNCHANGED <<item, ask>>
      /\ table' = IF InRoom(s) THEN table ELSE [table EXCEPT ![session[s].seat] = "AVAILABLE"]
      /\ bill' = bill \/ bill' = [bill EXCEPT ![s] = ClosedBill(bill[s])]
  BY <1>1, <1>2 DEF CloseCommit
<1>4. session \in [Sessions -> Session] /\ bill \in [Sessions -> Bill]
      /\ table \in [Tables -> {"AVAILABLE", "OCCUPIED"}]
  BY DEF Inv, TablesOK, TableTypes
<1>5. /\ r # NoSession /\ r.status = "CLOSED" /\ r.closed
      /\ r.kind = session[s].kind /\ r.forced = session[s].forced /\ r.seat = session[s].seat
      /\ r.reopened = session[s].reopened
  BY <1>2, <1>4, ClosedRow DEF Exists
<1>. HIDE DEF r
<1>6. session'[s] = r /\ \A x \in Sessions : x # s => session'[x] = session[x] /\ bill'[x] = bill[x]
  BY <1>3, <1>4
<1>7. /\ bill'[s] = NoBill <=> bill[s] = NoBill
      /\ bill[s] # NoBill => bill'[s].lines = bill[s].lines
      /\ bill[s].status \in {"PAID", "CLOSED"} => bill'[s].status \in {"PAID", "CLOSED"}
  BY <1>3, <1>4, BillCloses
<1>8. \A x : Chargeable(x)' = Chargeable(x) /\ PendingOf(x)' = PendingOf(x)
  BY <1>3 DEF Chargeable, PendingOf, Pending
<1>9. SessionsInOrder'
  <2>1. InOrder(session[s], bill[s], Chargeable(s), PendingOf(s)) /\ session[s] # NoSession
    BY <1>2, Ordered DEF SerialInv, Exists
  <2>2. Chargeable(s) # {} => bill[s].status \in {"PAID", "CLOSED"}
    BY <1>2 DEF Inv, TablesOK, PaidSessionHasPaidBill
  <2>3. InOrder(r, bill'[s], Chargeable(s), PendingOf(s))
    BY <1>5, <1>7, <2>1, <2>2 DEF InOrder, GuestOrderable
  <2>. QED  BY <1>6, <1>8, <2>3, OneSession DEF SerialInv
<1>10. \A x \in Sessions : Active(x)' <=> Active(x) /\ x # s
  BY <1>5, <1>6 DEF Active, Exists
<1>11. \A t : ActiveAt(t)' = ActiveAt(t) \ {s}
  BY <1>6, <1>10 DEF ActiveAt
<1>12. Floor'
  <2>1. \A t \in Tables : session[s].seat = t => ActiveAt(t)' = {} /\ table'[t] = "AVAILABLE"
    <3>1. ASSUME NEW t \in Tables, session[s].seat = t
          PROVE  ActiveAt(t)' = {} /\ table'[t] = "AVAILABLE"
      <4>1. s \in ActiveAt(t)
        BY <1>2, <3>1 DEF ActiveAt
      <4>2. ~InRoom(s)
        BY <3>1, SeatingAssumption DEF InRoom
      <4>. QED  BY <1>3, <1>4, <1>11, <3>1, <4>1, <4>2 DEF SerialInv, Floor, OneParty
    <3>. QED  BY <3>1
  <2>2. \A t \in Tables : session[s].seat # t =>
          /\ ActiveAt(t)' = ActiveAt(t) /\ table'[t] = table[t]
          /\ \A x \in ActiveAt(t) : session'[x] = session[x]
    BY <1>3, <1>4, <1>6, <1>11 DEF ActiveAt
  <2>. QED  BY <2>1, <2>2 DEF SerialInv, Floor, SeatedIsOccupied, OneParty
<1>. QED  BY <1>3, <1>9, <1>12, Finished

(* A forced clock-out closes sessions and frees their tables.              *)
LEMMA ClocksOut ==
  ASSUME Serial, Inv, SerialInv, NEW h \in Handlers, ClockOutCommit(h)
  PROVE  SerialInv'
<1>1. PICK q \in Handler : handler[h] = q /\ StillTrue(q)
  BY Read
<1>2. PICK open \in SUBSET Sessions : open = q.sessions /\ \A s \in open : Active(s) /\ Exists(s)
  BY <1>1, HandlerRow DEF ClockOutCommit, In, StillTrue, Active
<1>3. /\ session' = [s \in Sessions |->
           IF s \in open
           THEN [session[s] EXCEPT !.status = "CLOSED", !.closed = TRUE, !.forced = TRUE]
           ELSE session[s]]
      /\ table' = [t \in Tables |->
           IF \E s \in open : session[s].seat = t THEN "AVAILABLE" ELSE table[t]]
      /\ Ends(h) /\ UNCHANGED <<item, ask, bill>>
  BY <1>1, <1>2 DEF ClockOutCommit
<1>4. session \in [Sessions -> Session] /\ table \in [Tables -> {"AVAILABLE", "OCCUPIED"}]
  BY DEF Inv, TablesOK, TableTypes
<1>5. ASSUME NEW s \in open
      PROVE  /\ session'[s] # NoSession /\ session'[s].status = "CLOSED"
             /\ session'[s].closed /\ session'[s].forced
             /\ session'[s].kind = session[s].kind /\ session'[s].seat = session[s].seat
             /\ session'[s].reopened = session[s].reopened
  <2>. DEFINE x == session[s]
              z == [x EXCEPT !.status = "CLOSED", !.closed = TRUE, !.forced = TRUE]
  <2>1. x \in Session /\ x # NoSession /\ session'[s] = z
    BY <1>2, <1>3, <1>4 DEF Exists
  <2>. HIDE DEF x
  <2>2. /\ z # NoSession /\ z.status = "CLOSED" /\ z.closed /\ z.forced /\ z.kind = x.kind
        /\ z.seat = x.seat /\ z.reopened = x.reopened
    BY <2>1, ClosedRow
  <2>. HIDE DEF z
  <2>. QED  BY <2>1, <2>2 DEF x
<1>6. \A s \in Sessions : s \notin open => session'[s] = session[s]
  BY <1>3
<1>7. \A x : Chargeable(x)' = Chargeable(x) /\ PendingOf(x)' = PendingOf(x)
  BY <1>3 DEF Chargeable, PendingOf, Pending
<1>8. SessionsInOrder'
  <2>1. ASSUME NEW s \in Sessions
        PROVE  InOrder(session'[s], bill'[s], Chargeable(s)', PendingOf(s)')
    <3>1. InOrder(session[s], bill[s], Chargeable(s), PendingOf(s))
      BY Ordered DEF SerialInv
    <3>2. CASE s \in open
      <4>1. session[s] # NoSession
        BY <1>2, <3>2 DEF Exists
      <4>. QED  BY <1>3, <1>5, <1>7, <3>1, <3>2, <4>1 DEF InOrder, GuestOrderable
    <3>3. CASE s \notin open
      BY <1>3, <1>6, <1>7, <3>1, <3>3
    <3>. QED  BY <3>2, <3>3
  <2>. QED  BY <2>1 DEF SessionsInOrder
<1>9. \A s \in Sessions : Active(s)' <=> Active(s) /\ s \notin open
  BY <1>5, <1>6 DEF Active, Exists
<1>10. \A t : ActiveAt(t)' = ActiveAt(t) \ open
  BY <1>6, <1>9 DEF ActiveAt
<1>11. Floor'
  <2>1. ASSUME NEW t \in Tables, NEW s \in open, session[s].seat = t
        PROVE  ActiveAt(t)' = {} /\ table'[t] = "AVAILABLE"
    <3>1. s \in ActiveAt(t)
      BY <1>2, <2>1 DEF ActiveAt
    <3>2. \A x \in ActiveAt(t) : x = s
      BY <3>1 DEF SerialInv, Floor, OneParty
    <3>3. ActiveAt(t)' = {}
      BY <1>10, <3>2
    <3>4. table'[t] = "AVAILABLE"
      BY <1>3, <2>1
    <3>. QED  BY <3>3, <3>4
  <2>2. ASSUME NEW t \in Tables, \A s \in open : session[s].seat # t
        PROVE  /\ ActiveAt(t)' = ActiveAt(t) /\ table'[t] = table[t]
               /\ \A x \in ActiveAt(t) : session'[x] = session[x]
    BY <1>3, <1>6, <1>10, <2>2 DEF ActiveAt
  <2>. QED  BY <2>1, <2>2 DEF SerialInv, Floor, SeatedIsOccupied, OneParty
<1>. QED  BY <1>3, <1>8, <1>11, Finished
-----------------------------------------------------------------------------
(* Nothing is seated, ordered or asked for at first.                       *)
LEMMA SerialStart == Init => SerialInv
<1>. SUFFICES ASSUME Init PROVE SerialInv
  OBVIOUS
<1>1. \A s \in Sessions : /\ session[s] = NoSession /\ bill[s] = NoBill
                          /\ Chargeable(s) = {} /\ PendingOf(s) = {} /\ ~Active(s)
  <2>1. NoAsk.status # "PENDING"
    BY DEF NoAsk
  <2>. QED  BY <2>1 DEF Init, Chargeable, PendingOf, Pending, Active, Exists
<1>2. SessionsInOrder
  BY <1>1 DEF SessionsInOrder, InOrder
<1>3. Floor
  <2>1. \A t : ActiveAt(t) = {}
    BY <1>1 DEF ActiveAt
  <2>. QED  BY <2>1 DEF Init, Floor, SeatedIsOccupied, OneParty
<1>4. ReadsHold
  <2>1. StillTrue(Idle)
    BY DEF StillTrue, Idle
  <2>. QED  BY <2>1 DEF Init, ReadsHold
<1>. QED  BY <1>2, <1>3, <1>4 DEF SerialInv

(* Every step keeps what one request at a time keeps.                      *)
LEMMA SerialStep ==
  ASSUME Serial, Inv, SerialInv, [Next]_vars
  PROVE  SerialInv'
<1>1. ASSUME NEW h \in Handlers, Arrives(h) PROVE SerialInv'
  BY <1>1, SerialArrivals
<1>2. ASSUME NEW h \in Handlers, Finishes(h) PROVE SerialInv'
  BY <1>2, Seats, Marks, Orders, Sends, Asks, Cancels, Withdraws, Bills, Verifies, Pays,
     Closes, ClocksOut DEF Finishes
<1>3. ASSUME NEW h \in Handlers, RolledBack(h) PROVE SerialInv'
  <2>1. SessionsInOrder' /\ Floor'
    BY <1>3, Unmoved DEF RolledBack
  <2>. QED  BY <1>3, <2>1, Finished DEF RolledBack
<1>4. ASSUME NEW i \in Items, Serve(i) PROVE SerialInv'
  BY <1>4, Serves
<1>5. ASSUME NEW s \in Sessions, NEW t \in Tables, NEW new \in SUBSET Items, CounterSale(s, t, new)
      PROVE  SerialInv'
  BY <1>5 DEF CounterSale, Serial
<1>6. CASE UNCHANGED vars
  <2>1. UNCHANGED tables /\ handler' = handler
    BY <1>6 DEF vars
  <2>2. /\ SessionsInOrder' /\ Floor'
        /\ \A q \in Handler : StillTrue(q) => StillTrue(q)'
    BY <2>1, Unmoved
  <2>. QED  BY <2>1, <2>2 DEF SerialInv, ReadsHold
<1>. QED  BY <1>1, <1>2, <1>3, <1>4, <1>5, <1>6 DEF Next

(* One request at a time keeps every session in order, the floor as it is  *)
(* shown, and what the request has read as it was.                         *)
LEMMA SerialInvHolds ==
  ASSUME Serial
  PROVE  Spec => [](Inv /\ SerialInv)
<1>1. Init => SerialInv
  BY SerialStart
<1>2. Inv /\ SerialInv /\ [Next]_vars => SerialInv'
  BY SerialStep
<1>. QED  BY <1>1, <1>2, InvHolds, PTL DEF Spec

(* Once there is a bill, everything the guests are served is on it, unless *)
(* sendToKitchen has reopened the session (confirmOrder, submitGuestOrder, *)
(* generateBill).                                                          *)
THEOREM BillCoversOrderHolds ==
  ASSUME Serial
  PROVE  Spec => []BillCoversOrder
<1>1. SerialInv => BillCoversOrder
  <2>. SUFFICES ASSUME SerialInv, NEW s \in Sessions, bill[s] # NoBill, ~session[s].reopened
                PROVE  Chargeable(s) \subseteq bill[s].lines
    BY DEF BillCoversOrder
  <2>. QED  BY Ordered DEF SerialInv, InOrder
<1>. QED  BY <1>1, SerialInvHolds, PTL

(* A session that was not closed by force has a bill that is paid, with    *)
(* everything on it that was served, unless sendToKitchen reopened it      *)
(* (closeSession, forceCloseSession).                                      *)
THEOREM ClosedSettledHolds ==
  ASSUME Serial
  PROVE  Spec => []ClosedSettled
<1>1. SerialInv => ClosedSettled
  <2>. SUFFICES ASSUME SerialInv, NEW s \in Sessions, Exists(s), session[s].closed,
                       ~session[s].forced, Chargeable(s) # {}
                PROVE  /\ bill[s].status \in {"PAID", "CLOSED"}
                       /\ Chargeable(s) \subseteq bill[s].lines \/ session[s].reopened
    BY DEF ClosedSettled
  <2>1. InOrder(session[s], bill[s], Chargeable(s), PendingOf(s))
    BY Ordered DEF SerialInv
  <2>2. NoBill.status \notin {"PAID", "CLOSED"}
    BY DEF NoBill
  <2>. QED  BY <2>1, <2>2 DEF InOrder, Exists
<1>. QED  BY <1>1, SerialInvHolds, PTL

(* A dining table is shown as OCCUPIED exactly while a session that has    *)
(* marked it is open (startSession, submitGuestOrder, closeSession,        *)
(* managerForceClockOut), wherever the process stops.                      *)
THEOREM SeatedIsOccupiedHolds ==
  ASSUME Serial
  PROVE  Spec => []SeatedIsOccupied
<1>1. SerialInv => SeatedIsOccupied
  BY DEF SerialInv, Floor
<1>. QED  BY <1>1, SerialInvHolds, PTL

(* A session with a paid bill can be closed, unless sendToKitchen has      *)
(* reopened it (markSeatingPaid).                                          *)
THEOREM PaidSessionClosesHolds ==
  ASSUME Serial
  PROVE  Spec => []PaidSessionCloses
<1>1. Inv /\ SerialInv => PaidSessionCloses
  <2>. SUFFICES ASSUME Inv, SerialInv, NEW s \in Sessions, bill[s].status = "PAID",
                       ~session[s].closed
                PROVE  session[s].status = "PAID" \/ session[s].reopened
    BY DEF PaidSessionCloses
  <2>1. Exists(s)
    BY DEF Inv, TablesOK, RowsRefer, NoBill
  <2>. QED  BY <2>1, Ordered DEF SerialInv, InOrder, Exists
<1>. QED  BY <1>1, SerialInvHolds, PTL

(* A bill is requested once at a time, and never again when it is there    *)
(* (requestBill).                                                          *)
THEOREM RequestedOnceHolds ==
  ASSUME Serial
  PROVE  Spec => []RequestedOnce
<1>1. Inv /\ SerialInv => RequestedOnce
  <2>. SUFFICES ASSUME Inv, SerialInv, NEW a \in BillAsks, Pending(a)
                PROVE  /\ bill[ask[a].session] = NoBill
                       /\ \A b \in BillAsks : Pending(b) /\ ask[b].session = ask[a].session => a = b
    BY DEF RequestedOnce
  <2>1. PICK s \in Sessions : s = ask[a].session
    <3>1. ask[a] \in Ask /\ ask[a] # NoAsk
      BY DEF Inv, TablesOK, TableTypes, Pending, NoAsk
    <3>. QED  BY <3>1, AskRow
  <2>2. InOrder(session[s], bill[s], Chargeable(s), PendingOf(s)) /\ a \in PendingOf(s)
    BY <2>1, Ordered DEF SerialInv, PendingOf
  <2>. QED  BY <2>1, <2>2 DEF InOrder, PendingOf
<1>. QED  BY <1>1, SerialInvHolds, PTL

(* A table with nothing to charge can be closed by a manager (applyCancel, *)
(* cancelBillRequest, forceCloseSession).                                  *)
THEOREM EmptyTableClosesHolds ==
  ASSUME Serial
  PROVE  Spec => []EmptyTableCloses
<1>1. SerialInv => EmptyTableCloses
  <2>. SUFFICES ASSUME SerialInv, NEW s \in Sessions, Active(s), ~InRoom(s), Chargeable(s) = {},
                       bill[s] = NoBill, \A a \in BillAsks : Pending(a) => ask[a].session # s
                PROVE  ForceClosable(s)
    BY DEF EmptyTableCloses
  <2>1. InOrder(session[s], bill[s], Chargeable(s), PendingOf(s)) /\ session[s] # NoSession
    BY Ordered DEF SerialInv, Active, Exists
  <2>2. PendingOf(s) = {}
    BY DEF PendingOf
  <2>. QED  BY <2>1, <2>2 DEF InOrder, ForceClosable
<1>. QED  BY <1>1, SerialInvHolds, PTL
=============================================================================
