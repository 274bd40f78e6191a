----------------------------- MODULE DrawerProofs -----------------------------
(***************************************************************************)
(* What CashierDrawer and DailyClose promise when requests come one at a   *)
(* time, with crashes and on either database: one cashier is on shift,     *)
(* only that shift has a drawer that counts, no drawer is closed           *)
(* uncounted, and a day that is locked in time stays as its report says.   *)
(***************************************************************************)
EXTENDS DailyClose, SumTheorems

Serial == \A g, h \in Handlers : g = h

OpenShift(s) == shift[s].state = "OPEN"
Opened(s) == drawer[s] # NoDrawer
Counted(s) == recon[s] # NoRecon

(* What a request holds, by the method it is in: one about a drawer, or    *)
(* one of the day's close and its floor.                                   *)
TillRequest ==
  [pc : {"opening"}, cashier : Cashiers] \cup
  [pc : {"fitting", "fitted", "receiving", "leaving", "left", "reopening"}, shift : Shifts] \cup
  [pc : {"shutting"}, shift : Shifts, to : {"nothing", "stamp", "RECONCILED", "CLOSED"}] \cup
  [pc : {"submitting"}, shift : Shifts, expected : Int, counted : 0..MaxCash, known : BOOLEAN] \cup
  [pc : {"reviewing"}, shift : Shifts, verdict : {"APPROVED", "FLAGGED"}] \cup
  [pc : {"handing"}, shift : Shifts, next : Cashiers, expected : Int, counted : 0..MaxCash,
   float : 0..MaxCash] \cup
  [pc : {"forcing"}, shift : Shifts, drawer : Shifts, expected : Int, counted : 0..MaxCash,
   deposit : BOOLEAN]
Unlocked == {"DRAFT", "READY_FOR_REVIEW", "APPROVED"}
DayRequest ==
  [pc : {"creating", "refreshing"}, day : Dates, status : Unlocked, sales : Nat] \cup
  [pc : {"approving", "abandoning", "reading"}, day : Dates] \cup
  [pc : {"locking"}, day : Dates, sales : Nat] \cup
  [pc : {"ordering"}, seat : Seats] \cup [pc : {"paying"}, seat : Seats, shift : Dates] \cup
  [pc : {"declaring"}, day : Dates]
Request == {Idle} \cup TillRequest \cup DayRequest

Types == TypeOK /\ handler \in [Handlers -> Request]

(* A shift with its drawer r and its count n.                              *)
InOrder(open, r, n) ==
  /\ n # NoRecon => r # NoDrawer
  /\ r # NoDrawer =>
       /\ r.status \in Countable => open
       /\ open => r.out = 0
       /\ n # NoRecon => /\ r.status \in {"RECONCILIATION_PENDING", "RECONCILED"}
                         /\ r.float + r.drops = n.expected
       /\ r.status \in {"RECONCILIATION_PENDING", "RECONCILED"} => n # NoRecon
       /\ r.status = "CLOSED" => r.float + r.drops - r.out = 0

ShiftsInOrder == \A s \in Shifts : InOrder(OpenShift(s), drawer[s], recon[s])

DrawersHaveShifts == \A s \in Shifts : Opened(s) => shift[s] # NoShift

OneOnShift == \A s, t \in Shifts : OpenShift(s) /\ OpenShift(t) => s = t

(* What the request has read is still so.                                  *)
StillTrue(q) ==
  /\ q.pc = "opening" => \A s \in Shifts : ~OpenShift(s)
  /\ q.pc \in {"fitting", "fitted"} => OpenShift(q.shift) /\ ~Opened(q.shift)
  /\ q.pc = "receiving" => /\ waiting > 0 /\ drawer[q.shift].status = "OPEN"
                           /\ drawer[q.shift].drops < MaxCash
  /\ q.pc = "leaving" => OpenShift(q.shift)
  /\ q.pc = "shutting" => OpenShift(q.shift) /\ q.to = Shut(q.shift)
  /\ q.pc = "left" => OpenShift(q.shift) /\ drawer[q.shift].status \notin Countable
  /\ q.pc = "reviewing" => Counted(q.shift)
  /\ q.pc # "reopening"
  /\ q.pc \in {"submitting", "handing"} =>
       /\ drawer[q.shift].status \in Countable
       /\ q.expected = LiveExpectedCash(q.shift)
  /\ q.pc = "submitting" => (q.known <=> Counted(q.shift))
  /\ q.pc = "handing" => OnShift(q.next) = {}
  /\ q.pc = "forcing" => /\ OpenShift(q.shift) /\ q.drawer = q.shift /\ Opened(q.shift)
                         /\ q.expected = LiveExpectedCash(q.shift)

ReadsHold == \A h \in Handlers, q \in Request : handler[h] = q => StillTrue(q)

TillInv == Types /\ ShiftsInOrder /\ DrawersHaveShifts /\ OneOnShift /\ ReadsHold
-----------------------------------------------------------------------------
DrawerRow == [status : {"OPEN", "RECONCILIATION_PENDING", "RECONCILED", "CLOSED"},
              closed : BOOLEAN, float : 0..MaxCash, drops : Nat, out : Nat, day : Nat]

(* A row is there when it has a status.                                    *)
LEMMA Rows ==
  /\ \A x \in Shift : /\ x # NoShift <=> x.state # "NONE"
                      /\ x # NoShift => x \in [state : {"OPEN", "CLOSED"}, cashier : Cashiers, day : Nat]
  /\ \A x \in Drawer : (x # NoDrawer <=> x.status # "NONE") /\ (x # NoDrawer => x \in DrawerRow)
  /\ \A x \in Recon : /\ x # NoRecon <=> x.status # "NONE"
                      /\ x # NoRecon => x \in [status : {"SUBMITTED", "APPROVED", "FLAGGED"},
                                               expected : Int, counted : Nat]
  BY DEF Shift, NoShift, Drawer, NoDrawer, DrawerRow, Recon, NoRecon

(* What is in a drawer is a number.                                        *)
LEMMA CashIsInteger ==
  ASSUME Types, NEW s \in Shifts, Opened(s)
  PROVE  /\ LiveExpectedCash(s) \in Int
         /\ drawer[s] \in DrawerRow /\ drawer[s].float \in Nat
<1>1. drawer[s] \in DrawerRow
  BY Rows DEF Types, TypeOK, Opened
<1>2. drawer[s].float \in Nat
  BY <1>1, DrawerAssumption DEF DrawerRow
<1>. QED  BY <1>1, <1>2 DEF LiveExpectedCash, DrawerRow

(* What a request holds.                                                   *)
LEMMA RequestRow ==
  \A q \in Request :
    /\ q.pc = "opening" => q.cashier \in Cashiers
    /\ q.pc \in {"fitting", "fitted", "receiving", "leaving", "left", "reopening", "shutting",
                 "submitting", "reviewing", "handing", "forcing"} => q.shift \in Shifts
    /\ q.pc = "shutting" => q.to \in {"nothing", "stamp", "RECONCILED", "CLOSED"}
    /\ q.pc \in {"submitting", "handing", "forcing"} => q.expected \in Int /\ q.counted \in 0..MaxCash
    /\ q.pc = "reviewing" => q.verdict \in {"APPROVED", "FLAGGED"}
    /\ q.pc = "handing" => q.next \in Cashiers /\ q.float \in 0..MaxCash
    /\ q.pc = "forcing" => q.drawer \in Shifts /\ q.deposit \in BOOLEAN
<1>1. \A q \in DayRequest :
        q.pc \in {"creating", "refreshing", "approving", "abandoning", "reading", "locking",
                 "ordering", "paying", "declaring"}
  BY DEF DayRequest
<1>. QED  BY <1>1 DEF Request, TillRequest, Idle

(* The order of one shift.                                                 *)
LEMMA Ordered ==
  ASSUME ShiftsInOrder, NEW s \in Shifts
  PROVE  InOrder(OpenShift(s), drawer[s], recon[s])
  BY DEF ShiftsInOrder

(* The one request that is handled goes on with q or ends.                 *)
LEMMA Goes ==
  ASSUME Serial, TillInv, NEW h \in Handlers, NEW q \in Request, Becomes(h, q), StillTrue(q)',
         shift' \in [Shifts -> Shift], drawer' \in [Shifts -> Drawer], recon' \in [Shifts -> Recon],
         waiting' \in 0..MaxCash, ShiftsInOrder', DrawersHaveShifts', OneOnShift'
  PROVE  TillInv'
<1>1. handler' \in [Handlers -> Request] /\ UNCHANGED <<today, crashes>>
  BY DEF TillInv, Types, Becomes
<1>2. Types'
  BY <1>1 DEF TillInv, Types, TypeOK
<1>3. \A g \in Handlers : handler'[g] = q
  BY DEF Serial, Becomes, TillInv, Types
<1>4. ReadsHold'
  BY <1>3 DEF ReadsHold
<1>. QED  BY <1>2, <1>4 DEF TillInv

(* A request that has ended holds nothing.                                 *)
LEMMA IdleFits == Idle \in Request /\ StillTrue(Idle)
  BY DEF Request, TillRequest, StillTrue, Idle

(* The request ends.                                                       *)
LEMMA Finished ==
  ASSUME Serial, TillInv, NEW h \in Handlers, Ends(h),
         shift' \in [Shifts -> Shift], drawer' \in [Shifts -> Drawer], recon' \in [Shifts -> Recon],
         waiting' \in 0..MaxCash, ShiftsInOrder', DrawersHaveShifts', OneOnShift'
  PROVE  TillInv'
<1>1. Idle \in Request /\ StillTrue(Idle)'
  BY DEF Request, TillRequest, StillTrue, Idle
<1>. QED  BY <1>1, Goes DEF Ends

(* Nothing is written to the tables.                                       *)
LEMMA Unwritten ==
  ASSUME TillInv, UNCHANGED till
  PROVE  /\ shift' \in [Shifts -> Shift] /\ drawer' \in [Shifts -> Drawer]
         /\ recon' \in [Shifts -> Recon]
         /\ ShiftsInOrder' /\ DrawersHaveShifts' /\ OneOnShift'
         /\ \A q \in Request : StillTrue(q) /\ (q.pc = "receiving" => waiting' > 0) => StillTrue(q)'
<1>1. UNCHANGED <<shift, drawer, recon>>
  BY DEF till
<1>2. \A s : /\ OpenShift(s)' = OpenShift(s) /\ Opened(s)' = Opened(s) /\ Counted(s)' = Counted(s)
             /\ LiveExpectedCash(s)' = LiveExpectedCash(s) /\ OnShift(s)' = OnShift(s)
             /\ Shut(s)' = Shut(s)
  BY <1>1 DEF OpenShift, Opened, Counted, LiveExpectedCash, OnShift, Shut, Agrees, Variance, HasCash
<1>3. ShiftsInOrder' /\ DrawersHaveShifts' /\ OneOnShift'
  BY <1>1, <1>2 DEF TillInv, ShiftsInOrder, DrawersHaveShifts, OneOnShift
<1>4. ASSUME NEW q \in Request, StillTrue(q), q.pc = "receiving" => waiting' > 0
      PROVE  StillTrue(q)'
  BY <1>1, <1>2, <1>4 DEF StillTrue
<1>. QED  BY <1>1, <1>3, <1>4 DEF TillInv, Types, TypeOK

(* The request has read q, or goes on with it, and has written nothing.    *)
LEMMA Reading ==
  ASSUME Serial, TillInv, NEW h \in Handlers, NEW q \in Request, Becomes(h, q), StillTrue(q),
         UNCHANGED <<till, waiting>>
  PROVE  TillInv'
<1>1. waiting' \in 0..MaxCash /\ (q.pc = "receiving" => waiting' > 0)
  BY DEF TillInv, Types, TypeOK, StillTrue
<1>. QED  BY <1>1, Unwritten, Goes

(* A request that comes has read q.                                        *)
LEMMA Loading ==
  ASSUME Serial, TillInv, NEW h \in Handlers, NEW q \in Request, Loads(h, q), StillTrue(q)
  PROVE  TillInv'
  BY Reading DEF Loads, Becomes

(* What the request holds, and that it is still so.                        *)
LEMMA Read ==
  ASSUME TillInv, NEW h \in Handlers
  PROVE  \E q \in Request : handler[h] = q /\ StillTrue(q)
  BY DEF TillInv, Types, ReadsHold
-----------------------------------------------------------------------------
(* Clocking in.                                                            *)
LEMMA ClocksIn ==
  ASSUME Serial, TillInv, NEW h \in Handlers
  PROVE  /\ \A c \in Cashiers : ClockInLoad(h, c) => TillInv'
         /\ ClockInCommit(h) => TillInv'
<1>1. ASSUME NEW c \in Cashiers, ClockInLoad(h, c) PROVE TillInv'
  <2>. DEFINE q == [pc |-> "opening", cashier |-> c]
  <2>1. q \in Request /\ Loads(h, q)
    BY <1>1 DEF ClockInLoad, Request, TillRequest
  <2>2. \A s \in Shifts : ~OpenShift(s)
    <3>1. \A d \in Cashiers : OnShift(d) = {}
      BY <1>1 DEF ClockInLoad, MayClockIn, NobodyElse
    <3>2. \A s \in Shifts : OpenShift(s) => shift[s].cashier \in Cashiers
      BY Rows DEF OpenShift, TillInv, Types, TypeOK
    <3>. QED  BY <3>1, <3>2 DEF OpenShift, OnShift
  <2>3. StillTrue(q)
    BY <2>2 DEF StillTrue
  <2>. HIDE DEF q
  <2>. QED  BY <2>1, <2>3, Loading
<1>2. ASSUME ClockInCommit(h) PROVE TillInv'
  <2>1. PICK q \in Request : handler[h] = q /\ StillTrue(q)
    BY Read
  <2>2. q.pc = "opening" /\ q.cashier \in Cashiers /\ UNCHANGED <<drawer, recon, waiting>>
        /\ \A t \in Shifts : ~OpenShift(t)
    BY <1>2, <2>1, RequestRow DEF ClockInCommit, In, StillTrue
  <2>3. CASE Ends(h) /\ UNCHANGED shift
    BY <2>2, <2>3, IdleFits, Reading DEF Ends, till
  <2>4. ASSUME NEW s \in Free,
               shift' = [shift EXCEPT ![s] = [state |-> "OPEN", cashier |-> q.cashier, day |-> today]],
               Becomes(h, [pc |-> "fitting", shift |-> s])
        PROVE  TillInv'
    <3>. DEFINE r == [state |-> "OPEN", cashier |-> q.cashier, day |-> today]
                p == [pc |-> "fitting", shift |-> s]
    <3>1. r \in Shift /\ r.state = "OPEN" /\ r # NoShift
      BY <2>2 DEF Shift, NoShift, TillInv, Types, TypeOK
    <3>. HIDE DEF r
    <3>2. s \in Shifts /\ ~Opened(s) /\ p \in Request
      BY DEF Free, TillInv, DrawersHaveShifts, Request, TillRequest
    <3>3. shift' \in [Shifts -> Shift] /\ shift'[s] = r
          /\ \A t \in Shifts : t # s => shift'[t] = shift[t]
      BY <2>4, <3>1, <3>2 DEF r, TillInv, Types, TypeOK
    <3>4. \A t \in Shifts : OpenShift(t)' <=> t = s
      BY <2>2, <3>1, <3>3 DEF OpenShift
    <3>5. ShiftsInOrder'
      <4>1. ASSUME NEW t \in Shifts PROVE InOrder(OpenShift(t)', drawer[t], recon[t])
        <5>1. InOrder(OpenShift(t), drawer[t], recon[t]) /\ ~OpenShift(t)
          BY <2>2, Ordered DEF TillInv
        <5>. QED  BY <3>2, <3>4, <5>1 DEF InOrder, Opened
      <4>. QED  BY <2>2, <4>1 DEF ShiftsInOrder
    <3>6. DrawersHaveShifts' /\ OneOnShift'
      BY <2>2, <3>1, <3>3, <3>4 DEF DrawersHaveShifts, OneOnShift, Opened, TillInv
    <3>7. StillTrue(p)'
      BY <2>2, <3>2, <3>4 DEF StillTrue, Opened
    <3>8. drawer' \in [Shifts -> Drawer] /\ recon' \in [Shifts -> Recon] /\ waiting' \in 0..MaxCash
      BY <2>2 DEF TillInv, Types, TypeOK
    <3>. HIDE DEF p
    <3>. QED  BY <2>4, <3>2, <3>3, <3>5, <3>6, <3>7, <3>8, Goes DEF p
  <2>. QED  BY <1>2, <2>1, <2>3, <2>4 DEF ClockInCommit
<1>. QED  BY <1>1, <1>2

(* One drawer changes with its count, under the shift it has.              *)
LEMMA OneDrawer ==
  ASSUME TillInv, NEW s \in Shifts, shift[s] # NoShift, UNCHANGED shift,
         NEW r \in Drawer, drawer' = [drawer EXCEPT ![s] = r],
         NEW n \in Recon, recon' = [recon EXCEPT ![s] = n],
         InOrder(OpenShift(s), r, n)
  PROVE  /\ shift' \in [Shifts -> Shift] /\ drawer' \in [Shifts -> Drawer]
         /\ recon' \in [Shifts -> Recon] /\ drawer'[s] = r /\ recon'[s] = n
         /\ ShiftsInOrder' /\ DrawersHaveShifts' /\ OneOnShift'
<1>1. /\ drawer' \in [Shifts -> Drawer] /\ recon' \in [Shifts -> Recon]
      /\ drawer'[s] = r /\ recon'[s] = n
      /\ \A t \in Shifts : t # s => drawer'[t] = drawer[t] /\ recon'[t] = recon[t]
  BY DEF TillInv, Types, TypeOK
<1>2. \A t \in Shifts : OpenShift(t)' = OpenShift(t)
  BY DEF OpenShift
<1>3. ShiftsInOrder'
  <2>1. ASSUME NEW t \in Shifts PROVE InOrder(OpenShift(t)', drawer'[t], recon'[t])
    BY <1>1, <1>2, Ordered DEF TillInv
  <2>. QED  BY <2>1 DEF ShiftsInOrder
<1>4. DrawersHaveShifts' /\ OneOnShift'
  BY <1>1, <1>2 DEF DrawersHaveShifts, OneOnShift, Opened, TillInv
<1>. QED  BY <1>1, <1>3, <1>4 DEF TillInv, Types, TypeOK

(* A new drawer is in order with the shift that opens it.                  *)
LEMMA DrawerOpens ==
  ASSUME Types, NEW f \in 0..MaxCash
  PROVE  /\ NewDrawer(f) \in Drawer /\ NewDrawer(f) # NoDrawer
         /\ NewDrawer(f).status = "OPEN" /\ NewDrawer(f).out = 0
         /\ InOrder(TRUE, NewDrawer(f), NoRecon)
<1>1. NewDrawer(f) \in Drawer /\ NewDrawer(f) # NoDrawer
  BY DEF NewDrawer, Drawer, NoDrawer, Types, TypeOK
<1>2. NewDrawer(f).status = "OPEN" /\ NewDrawer(f).out = 0
  BY DEF NewDrawer
<1>. QED  BY <1>1, <1>2 DEF InOrder

(* ensureCashierDrawer.                                                    *)
LEMMA Ensures ==
  ASSUME Serial, TillInv, NEW h \in Handlers, EnsureLoad(h) \/ EnsureCommit(h)
  PROVE  TillInv'
<1>1. PICK q \in Request : handler[h] = q /\ StillTrue(q)
  BY Read
<1>2. PICK s \in Shifts : s = q.shift /\ OpenShift(s) /\ ~Opened(s)
  BY <1>1, RequestRow DEF EnsureLoad, EnsureCommit, In, StillTrue
<1>3. CASE EnsureLoad(h)
  <2>. DEFINE p == [pc |-> "fitted", shift |-> s]
  <2>1. p \in Request /\ StillTrue(p)
    BY <1>2 DEF Request, TillRequest, StillTrue
  <2>2. UNCHANGED <<till, waiting>> /\ (Becomes(h, Idle) \/ Becomes(h, p))
    BY <1>1, <1>2, <1>3 DEF EnsureLoad
  <2>. HIDE DEF p
  <2>. QED  BY <2>1, <2>2, IdleFits, Reading
<1>4. CASE EnsureCommit(h)
  <2>1. UNCHANGED <<shift, recon, waiting>> /\ Ends(h)
        /\ (drawer' = drawer \/ drawer' = [drawer EXCEPT ![s] = NewDrawer(0)])
    BY <1>1, <1>2, <1>4 DEF EnsureCommit
  <2>2. waiting' \in 0..MaxCash /\ recon' = [recon EXCEPT ![s] = recon[s]] /\ recon[s] \in Recon
        /\ 0 \in 0..MaxCash /\ Types /\ shift[s] # NoShift
    BY <1>2, <2>1, DrawerAssumption, Rows DEF TillInv, Types, TypeOK, OpenShift
  <2>3. CASE drawer' = drawer
    BY <2>1, <2>3, IdleFits, Reading DEF Ends, till
  <2>4. CASE drawer' = [drawer EXCEPT ![s] = NewDrawer(0)]
    <3>1. recon[s] = NoRecon
      BY <1>2, Ordered DEF TillInv, InOrder, Opened
    <3>2. InOrder(OpenShift(s), NewDrawer(0), recon[s]) /\ NewDrawer(0) \in Drawer
      <4>1. OpenShift(s) = TRUE
        BY <1>2 DEF OpenShift
      <4>. QED  BY <2>2, <3>1, <4>1, DrawerOpens
    <3>. QED  BY <2>1, <2>2, <2>4, <3>2, OneDrawer, Finished
  <2>. QED  BY <2>1, <2>3, <2>4
<1>. QED  BY <1>3, <1>4

(* A drop is declared.                                                     *)
LEMMA Declares ==
  ASSUME TillInv, Initiate
  PROVE  TillInv'
<1>1. waiting \in 0..MaxCash /\ waiting' \in 0..MaxCash /\ waiting' > 0
  BY DrawerAssumption DEF Initiate, TillInv, Types, TypeOK
<1>2. UNCHANGED till /\ UNCHANGED <<handler, today, crashes>>
  BY DEF Initiate
<1>3. Types'
  BY <1>1, <1>2, Unwritten DEF TillInv, Types, TypeOK
<1>4. ReadsHold'
  BY <1>1, <1>2, Unwritten DEF TillInv, ReadsHold
<1>. QED  BY <1>2, <1>3, <1>4, Unwritten DEF TillInv

(* A drop is received.                                                     *)
LEMMA Receives ==
  ASSUME Serial, TillInv, NEW h \in Handlers, Receiving(h)
  PROVE  TillInv'
<1>1. ASSUME NEW s \in Shifts, ReceiveLoad(h, s) PROVE TillInv'
  <2>. DEFINE q == [pc |-> "receiving", shift |-> s]
  <2>1. q \in Request /\ Loads(h, q) /\ StillTrue(q)
    BY <1>1 DEF ReceiveLoad, Request, TillRequest, StillTrue
  <2>. QED  BY <2>1, Loading
<1>2. CASE ReceiveCommit(h)
  <2>1. PICK q \in Request : handler[h] = q /\ StillTrue(q)
    BY Read
  <2>2. PICK s \in Shifts : s = q.shift /\ waiting > 0 /\ drawer[s].status = "OPEN"
    BY <1>2, <2>1, RequestRow DEF ReceiveCommit, In, StillTrue
  <2>. DEFINE r == [drawer[s] EXCEPT !.drops = drawer[s].drops + 1]
  <2>3. /\ waiting' = waiting - 1 /\ drawer' = [drawer EXCEPT ![s] = r]
        /\ Ends(h) /\ UNCHANGED <<shift, recon>>
    BY <1>2, <2>1, <2>2 DEF ReceiveCommit
  <2>4. drawer[s] \in DrawerRow /\ drawer[s] # NoDrawer
    BY <2>2, Rows DEF TillInv, Types, TypeOK, NoDrawer
  <2>5. r \in DrawerRow /\ r.status = "OPEN" /\ r.out = drawer[s].out
    <3>1. drawer[s].drops + 1 \in Nat
      BY <2>4 DEF DrawerRow
    <3>. QED  BY <2>2, <2>4, <3>1 DEF DrawerRow
  <2>. HIDE DEF r
  <2>6. r \in Drawer /\ r # NoDrawer
    BY <2>5 DEF DrawerRow, Drawer, NoDrawer
  <2>7. InOrder(OpenShift(s), drawer[s], recon[s])
    BY Ordered DEF TillInv
  <2>8. InOrder(OpenShift(s), r, recon[s]) /\ OpenShift(s)
    BY <2>2, <2>4, <2>5, <2>6, <2>7 DEF InOrder, Countable
  <2>9. waiting' \in 0..MaxCash /\ recon' = [recon EXCEPT ![s] = recon[s]] /\ recon[s] \in Recon
        /\ shift[s] # NoShift
    BY <2>2, <2>3, <2>8, DrawerAssumption, Rows DEF TillInv, Types, TypeOK, OpenShift
  <2>. QED  BY <2>3, <2>6, <2>8, <2>9, OneDrawer, Finished
<1>. QED  BY <1>1, <1>2 DEF Receiving
-----------------------------------------------------------------------------
(* What closeCashierDrawerIfNeeded makes of the drawer of an open shift.   *)
LEMMA ShutMeans ==
  ASSUME TillInv, NEW s \in Shifts, OpenShift(s)
  PROVE  /\ Shut(s) \in {"refuse", "nothing", "stamp", "RECONCILED", "CLOSED"}
         /\ Shut(s) = "nothing" => ~Opened(s)
         /\ Shut(s) = "stamp" => drawer[s].status \in {"RECONCILED", "CLOSED"}
         /\ Shut(s) = "RECONCILED" => Opened(s) /\ Counted(s)
         /\ Shut(s) = "CLOSED" =>
              Opened(s) /\ ~Counted(s) /\ drawer[s].float = 0 /\ drawer[s].drops = 0
<1>1. CASE ~Opened(s)
  <2>1. drawer[s] = NoDrawer /\ drawer[s].status = "NONE"
    BY <1>1 DEF Opened, NoDrawer
  <2>2. Shut(s) = "nothing"
    BY <2>1 DEF Shut
  <2>. QED  BY <1>1, <2>2
<1>2. CASE Opened(s)
  <2>1. drawer[s] \in DrawerRow /\ drawer[s].float \in Nat /\ drawer[s].drops \in Nat
    BY <1>2, CashIsInteger DEF TillInv, DrawerRow
  <2>2. recon[s] \in Recon /\ InOrder(OpenShift(s), drawer[s], recon[s])
    BY Ordered DEF TillInv, Types, TypeOK
  <2>3. Counted(s) <=> recon[s].status \in {"SUBMITTED", "APPROVED", "FLAGGED"}
    BY <2>2, Rows DEF Counted
  <2>4. drawer[s].status \in {"OPEN", "RECONCILIATION_PENDING", "RECONCILED", "CLOSED"}
    BY <2>1 DEF DrawerRow
  <2>5. CASE drawer[s].status \in {"RECONCILED", "CLOSED"}
    BY <1>2, <2>5 DEF Shut, Opened
  <2>6. CASE drawer[s].status = "RECONCILIATION_PENDING"
    <3>1. Counted(s)
      BY <1>2, <2>2, <2>6 DEF InOrder, Opened, Counted
    <3>2. Shut(s) \in {"RECONCILED", "refuse"}
      BY <1>2, <2>6 DEF Shut, Opened
    <3>. QED  BY <1>2, <3>1, <3>2
  <2>7. CASE drawer[s].status = "OPEN"
    <3>1. ~Counted(s) /\ recon[s].status = "NONE"
      BY <1>2, <2>2, <2>7 DEF InOrder, Opened, Counted, NoRecon
    <3>2. Shut(s) = IF HasCash(s) THEN "refuse" ELSE "CLOSED"
      BY <1>2, <2>7, <3>1 DEF Shut, Opened
    <3>3. ~HasCash(s) => drawer[s].float = 0 /\ drawer[s].drops = 0
      BY <2>1 DEF HasCash
    <3>. QED  BY <1>2, <3>1, <3>2, <3>3
  <2>. QED  BY <2>4, <2>5, <2>6, <2>7
<1>. QED  BY <1>1, <1>2

(* clockOut and managerForceClockOut: the drawer, then the shift.          *)
LEMMA Leaves ==
  ASSUME Serial, TillInv, NEW h \in Handlers
  PROVE  /\ \A s \in Shifts : ClockOutLoad(h, s) => TillInv'
         /\ ShutLoad(h) => TillInv'
<1>1. ASSUME NEW s \in Shifts, ClockOutLoad(h, s) PROVE TillInv'
  <2>. DEFINE q == [pc |-> "leaving", shift |-> s]
  <2>1. q \in Request /\ Loads(h, q) /\ StillTrue(q)
    BY <1>1 DEF ClockOutLoad, Request, TillRequest, StillTrue, OpenShift
  <2>. QED  BY <2>1, Loading
<1>2. ASSUME ShutLoad(h) PROVE TillInv'
  <2>1. PICK q \in Request : handler[h] = q /\ StillTrue(q)
    BY Read
  <2>2. PICK s \in Shifts : s = q.shift /\ OpenShift(s)
    BY <1>2, <2>1, RequestRow DEF ShutLoad, In, StillTrue
  <2>. DEFINE p == [pc |-> "shutting", shift |-> s, to |-> Shut(s)]
  <2>3. UNCHANGED <<till, waiting>> /\ Becomes(h, IF Shut(s) = "refuse" THEN Idle ELSE p)
    BY <1>2, <2>1, <2>2 DEF ShutLoad
  <2>4. Shut(s) # "refuse" => p \in Request /\ StillTrue(p)
    BY <2>2, ShutMeans DEF Request, TillRequest, StillTrue
  <2>. HIDE DEF p
  <2>. QED  BY <2>3, <2>4, IdleFits, Reading
<1>. QED  BY <1>1, <1>2

(* closeCashierDrawerIfNeeded writes the drawer.                           *)
LEMMA Shuts ==
  ASSUME Serial, TillInv, NEW h \in Handlers, ShutCommit(h)
  PROVE  TillInv'
<1>1. PICK q \in Request : handler[h] = q /\ StillTrue(q)
  BY Read
<1>2. PICK s \in Shifts : /\ s = q.shift /\ OpenShift(s) /\ q.to = Shut(s)
                          /\ q.to \in {"nothing", "stamp", "RECONCILED", "CLOSED"}
  BY <1>1, RequestRow DEF ShutCommit, In, StillTrue
<1>. DEFINE p == [pc |-> "left", shift |-> s]
<1>3. /\ Becomes(h, p) /\ UNCHANGED <<shift, recon, waiting>>
      /\ drawer' = CASE q.to = "nothing" -> drawer
                     [] q.to = "stamp" -> [drawer EXCEPT ![s].closed = TRUE]
                     [] OTHER -> [drawer EXCEPT ![s].closed = TRUE, ![s].status = q.to]
  BY <1>1, <1>2 DEF ShutCommit
<1>4. p \in Request /\ waiting' \in 0..MaxCash /\ recon' = [recon EXCEPT ![s] = recon[s]]
      /\ recon[s] \in Recon /\ shift[s] # NoShift /\ Types
  BY <1>2, <1>3, Rows DEF TillInv, Types, TypeOK, Request, TillRequest, OpenShift
<1>5. InOrder(OpenShift(s), drawer[s], recon[s])
  BY Ordered DEF TillInv
<1>6. ASSUME NEW r \in Drawer, drawer' = [drawer EXCEPT ![s] = r], r.status \notin Countable,
             InOrder(OpenShift(s), r, recon[s])
      PROVE  TillInv'
  <2>1. /\ shift' \in [Shifts -> Shift] /\ drawer' \in [Shifts -> Drawer]
        /\ recon' \in [Shifts -> Recon] /\ drawer'[s] = r
        /\ ShiftsInOrder' /\ DrawersHaveShifts' /\ OneOnShift'
    BY <1>3, <1>4, <1>6, OneDrawer
  <2>2. StillTrue(p)'
    BY <1>2, <1>3, <1>6, <2>1 DEF StillTrue, OpenShift
  <2>. HIDE DEF p
  <2>. QED  BY <1>3, <1>4, <2>1, <2>2, Goes
<1>. HIDE DEF p
<1>7. CASE q.to = "nothing"
  <2>1. drawer' = [drawer EXCEPT ![s] = drawer[s]] /\ drawer[s] \in Drawer
    BY <1>3, <1>7 DEF TillInv, Types, TypeOK
  <2>2. ~Opened(s)
    BY <1>2, <1>7, ShutMeans
  <2>3. drawer[s].status \notin Countable
    BY <2>2 DEF Opened, NoDrawer, Countable
  <2>. QED  BY <1>5, <1>6, <2>1, <2>3
<1>8. CASE q.to = "stamp"
  <2>1. drawer[s].status \in {"RECONCILED", "CLOSED"} /\ Opened(s)
    <3>1. drawer[s].status \in {"RECONCILED", "CLOSED"}
      BY <1>2, <1>8, ShutMeans
    <3>. QED  BY <3>1 DEF Opened, NoDrawer
  <2>. DEFINE r == [drawer[s] EXCEPT !.closed = TRUE]
  <2>2. drawer[s] \in DrawerRow
    BY <1>4, <2>1, CashIsInteger
  <2>3. /\ r \in DrawerRow /\ r.status = drawer[s].status /\ r.out = drawer[s].out
        /\ r.float = drawer[s].float /\ r.drops = drawer[s].drops
    BY <2>2 DEF DrawerRow
  <2>4. drawer' = [drawer EXCEPT ![s] = r]
    BY <1>3, <1>8
  <2>. HIDE DEF r
  <2>5. r \in Drawer /\ r # NoDrawer
    BY <2>3 DEF DrawerRow, Drawer, NoDrawer
  <2>6. InOrder(OpenShift(s), r, recon[s]) /\ r.status \notin Countable
    BY <1>5, <2>1, <2>3, <2>5 DEF InOrder, Countable, Opened
  <2>. QED  BY <1>6, <2>4, <2>5, <2>6
<1>9. CASE q.to \in {"RECONCILED", "CLOSED"}
  <2>1. drawer' = [drawer EXCEPT ![s].closed = TRUE, ![s].status = q.to] /\ Opened(s)
    BY <1>2, <1>3, <1>9, ShutMeans
  <2>. DEFINE r == [drawer[s] EXCEPT !.closed = TRUE, !.status = q.to]
  <2>2. drawer[s] \in DrawerRow
    BY <1>4, <2>1, CashIsInteger
  <2>3. /\ r \in DrawerRow /\ r.status = q.to /\ r.out = drawer[s].out
        /\ r.float = drawer[s].float /\ r.drops = drawer[s].drops
    BY <1>9, <2>2 DEF DrawerRow
  <2>4. drawer' = [drawer EXCEPT ![s] = r]
    BY <2>1
  <2>. HIDE DEF r
  <2>5. /\ r \in Drawer /\ drawer' = [drawer EXCEPT ![s] = r]
        /\ r # NoDrawer /\ r.status = q.to /\ r.out = drawer[s].out
        /\ r.float = drawer[s].float /\ r.drops = drawer[s].drops
    BY <2>3, <2>4 DEF DrawerRow, Drawer, NoDrawer
  <2>6. drawer[s].out = 0 /\ drawer[s] # NoDrawer
    BY <1>2, <1>5, <2>1 DEF InOrder, Opened
  <2>7. InOrder(OpenShift(s), r, recon[s]) /\ r.status \notin Countable
    <3>1. /\ q.to = "RECONCILED" => Counted(s)
          /\ q.to = "CLOSED" => ~Counted(s) /\ drawer[s].float = 0 /\ drawer[s].drops = 0
      BY <1>2, ShutMeans
    <3>2. CASE q.to = "RECONCILED"
      BY <1>5, <2>5, <2>6, <3>1, <3>2 DEF InOrder, Countable, Counted
    <3>3. CASE q.to = "CLOSED"
      BY <1>5, <2>5, <2>6, <3>1, <3>3 DEF InOrder, Countable, Counted
    <3>. QED  BY <1>9, <3>2, <3>3
  <2>. QED  BY <1>6, <2>5, <2>7
<1>. QED  BY <1>2, <1>7, <1>8, <1>9

(* A shift closes when its drawer counts no more.                          *)
LEMMA ShiftCloses ==
  ASSUME TillInv, NEW s \in Shifts, OpenShift(s), shift' = [shift EXCEPT ![s].state = "CLOSED"]
  PROVE  /\ shift' \in [Shifts -> Shift] /\ shift'[s] # NoShift
         /\ \A t \in Shifts : ~OpenShift(t)'
         /\ \A t \in Shifts : t # s => shift'[t] = shift[t]
<1>. DEFINE r == [shift[s] EXCEPT !.state = "CLOSED"]
<1>1. shift[s] \in [state : {"OPEN", "CLOSED"}, cashier : Cashiers, day : Nat]
  BY Rows DEF TillInv, Types, TypeOK, OpenShift
<1>2. r \in Shift /\ r # NoShift /\ r.state = "CLOSED"
  BY <1>1 DEF Shift, NoShift
<1>3. shift' = [shift EXCEPT ![s] = r]
  OBVIOUS
<1>. HIDE DEF r
<1>4. shift' \in [Shifts -> Shift] /\ shift'[s] = r /\ \A t \in Shifts : t # s => shift'[t] = shift[t]
  BY <1>2, <1>3 DEF TillInv, Types, TypeOK
<1>5. \A t \in Shifts : t # s => ~OpenShift(t)
  BY DEF TillInv, OneOnShift
<1>. QED  BY <1>2, <1>4, <1>5 DEF OpenShift

(* clockOut writes the shift, whose drawer counts no more.                 *)
LEMMA ClocksOut ==
  ASSUME Serial, TillInv, NEW h \in Handlers, ClockOutCommit(h)
  PROVE  TillInv'
<1>1. PICK q \in Request : handler[h] = q /\ StillTrue(q)
  BY Read
<1>2. PICK s \in Shifts : s = q.shift /\ OpenShift(s) /\ drawer[s].status \notin Countable
  BY <1>1, RequestRow DEF ClockOutCommit, In, StillTrue
<1>3. shift' = [shift EXCEPT ![s].state = "CLOSED"] /\ Ends(h) /\ UNCHANGED <<drawer, recon, waiting>>
  BY <1>1, <1>2 DEF ClockOutCommit
<1>4. /\ shift' \in [Shifts -> Shift] /\ shift'[s] # NoShift
      /\ \A t \in Shifts : ~OpenShift(t)'
      /\ \A t \in Shifts : t # s => shift'[t] = shift[t]
  BY <1>2, <1>3, ShiftCloses
<1>5. ShiftsInOrder'
  <2>1. ASSUME NEW t \in Shifts PROVE InOrder(OpenShift(t)', drawer[t], recon[t])
    <3>1. InOrder(OpenShift(t), drawer[t], recon[t]) /\ (t # s => ~OpenShift(t))
      BY <1>2, Ordered DEF TillInv, OneOnShift
    <3>. QED  BY <1>2, <1>4, <3>1 DEF InOrder
  <2>. QED  BY <1>3, <2>1 DEF ShiftsInOrder
<1>6. DrawersHaveShifts' /\ OneOnShift'
  BY <1>3, <1>4 DEF DrawersHaveShifts, OneOnShift, Opened, TillInv
<1>. QED  BY <1>3, <1>4, <1>5, <1>6, Finished DEF TillInv, Types, TypeOK
-----------------------------------------------------------------------------
(* A drawer of an open shift is counted: what was expected is the cash in it. *)
LEMMA Counts ==
  ASSUME TillInv, NEW s \in Shifts, drawer[s].status \in Countable
  PROVE  /\ OpenShift(s) /\ Opened(s) /\ drawer[s] \in DrawerRow /\ drawer[s].out = 0
         /\ LiveExpectedCash(s) \in Int
         /\ LiveExpectedCash(s) = drawer[s].float + drawer[s].drops
<1>1. Opened(s)
  BY DEF Opened, NoDrawer, Countable
<1>2. OpenShift(s) /\ drawer[s].out = 0
  BY <1>1, Ordered DEF InOrder, Opened, TillInv
<1>3. LiveExpectedCash(s) \in Int /\ drawer[s] \in DrawerRow /\ drawer[s].float \in Nat
  BY <1>1, CashIsInteger DEF TillInv
<1>. QED  BY <1>1, <1>2, <1>3 DEF LiveExpectedCash, DrawerRow

(* submit.                                                                 *)
LEMMA Submits ==
  ASSUME Serial, TillInv, NEW h \in Handlers
  PROVE  /\ \A s \in Shifts, n \in 0..MaxCash : SubmitLoad(h, s, n) => TillInv'
         /\ SubmitCommit(h) => TillInv'
<1>1. ASSUME NEW s \in Shifts, NEW n \in 0..MaxCash, SubmitLoad(h, s, n) PROVE TillInv'
  <2>. DEFINE q == [pc |-> "submitting", shift |-> s, expected |-> LiveExpectedCash(s),
                    counted |-> n, known |-> recon[s] # NoRecon]
  <2>1. drawer[s].status \in Countable /\ Loads(h, q)
    BY <1>1 DEF SubmitLoad
  <2>2. LiveExpectedCash(s) \in Int
    BY <2>1, Counts
  <2>3. q \in Request
    BY <2>2 DEF Request, TillRequest
  <2>4. StillTrue(q)
    BY <2>1 DEF StillTrue, Counted
  <2>. HIDE DEF q
  <2>. QED  BY <2>1, <2>3, <2>4, Loading
<1>2. ASSUME SubmitCommit(h) PROVE TillInv'
  <2>1. PICK q \in Request : handler[h] = q /\ StillTrue(q)
    BY Read
  <2>2. PICK s \in Shifts :
          /\ s = q.shift /\ drawer[s].status \in Countable
          /\ q.expected = LiveExpectedCash(s) /\ q.counted \in 0..MaxCash
          /\ q.known <=> Counted(s)
    BY <1>2, <2>1, RequestRow DEF SubmitCommit, In, StillTrue
  <2>. DEFINE st == IF q.counted = q.expected THEN "RECONCILED" ELSE "RECONCILIATION_PENDING"
              r == [drawer[s] EXCEPT !.closed = (q.counted = q.expected), !.status = st]
              n == [status |-> "SUBMITTED", expected |-> q.expected, counted |-> q.counted]
  <2>3. /\ recon' = [recon EXCEPT ![s] = n] /\ Ends(h) /\ UNCHANGED <<shift, waiting>>
        /\ drawer' = [drawer EXCEPT ![s].closed = (q.counted = q.expected), ![s].status = st]
    BY <1>2, <2>1, <2>2 DEF SubmitCommit, Counted
  <2>4. /\ OpenShift(s) /\ Opened(s) /\ drawer[s] \in DrawerRow /\ drawer[s].out = 0
        /\ LiveExpectedCash(s) \in Int
        /\ LiveExpectedCash(s) = drawer[s].float + drawer[s].drops
    BY <2>2, Counts
  <2>5. /\ r \in DrawerRow /\ r.status = st /\ r.out = 0
        /\ r.float = drawer[s].float /\ r.drops = drawer[s].drops
    BY <2>4 DEF DrawerRow
  <2>6. drawer' = [drawer EXCEPT ![s] = r]
    BY <2>3
  <2>7. n \in Recon /\ n # NoRecon /\ n.expected = drawer[s].float + drawer[s].drops
    BY <2>2, <2>4, DrawerAssumption DEF Recon, NoRecon
  <2>8. st \in {"RECONCILED", "RECONCILIATION_PENDING"}
    OBVIOUS
  <2>. HIDE DEF r, n, st
  <2>9. r \in Drawer /\ r # NoDrawer
    BY <2>5 DEF DrawerRow, Drawer, NoDrawer
  <2>10. InOrder(OpenShift(s), r, n)
    BY <2>4, <2>5, <2>7, <2>8, <2>9 DEF InOrder
  <2>11. shift[s] # NoShift /\ waiting' \in 0..MaxCash
    BY <2>3, <2>4, Rows DEF TillInv, Types, TypeOK, OpenShift
  <2>. QED  BY <2>3, <2>6, <2>7, <2>9, <2>10, <2>11, OneDrawer, Finished
<1>. QED  BY <1>1, <1>2

(* approve and flag.                                                       *)
LEMMA Reviews ==
  ASSUME Serial, TillInv, NEW h \in Handlers
  PROVE  /\ \A s \in Shifts, verdict \in {"APPROVED", "FLAGGED"} :
              ReviewLoad(h, s, verdict) => TillInv'
         /\ ReviewCommit(h) => TillInv'
<1>1. ASSUME NEW s \in Shifts, NEW verdict \in {"APPROVED", "FLAGGED"}, ReviewLoad(h, s, verdict)
      PROVE  TillInv'
  <2>. DEFINE q == [pc |-> "reviewing", shift |-> s, verdict |-> verdict]
  <2>1. recon[s].status \in Reviewable /\ Loads(h, q)
    BY <1>1 DEF ReviewLoad
  <2>2. Counted(s)
    BY <2>1 DEF Counted, NoRecon, Reviewable
  <2>3. q \in Request /\ StillTrue(q)
    BY <2>2 DEF Request, TillRequest, StillTrue
  <2>. HIDE DEF q
  <2>. QED  BY <2>1, <2>3, Loading
<1>2. ASSUME ReviewCommit(h) PROVE TillInv'
  <2>1. PICK q \in Request : handler[h] = q /\ StillTrue(q)
    BY Read
  <2>2. PICK s \in Shifts : s = q.shift /\ Counted(s) /\ q.verdict \in {"APPROVED", "FLAGGED"}
    BY <1>2, <2>1, RequestRow DEF ReviewCommit, In, StillTrue
  <2>. DEFINE n == [recon[s] EXCEPT !.status = q.verdict]
              r == [drawer[s] EXCEPT !.status = "RECONCILED", !.closed = TRUE]
  <2>3. /\ recon' = [recon EXCEPT ![s].status = q.verdict] /\ Ends(h) /\ UNCHANGED <<shift, waiting>>
        /\ drawer' = IF q.verdict = "APPROVED"
                     THEN [drawer EXCEPT ![s].status = "RECONCILED", ![s].closed = TRUE]
                     ELSE drawer
    BY <1>2, <2>1, <2>2 DEF ReviewCommit
  <2>4. InOrder(OpenShift(s), drawer[s], recon[s])
    BY Ordered DEF TillInv
  <2>5. Opened(s) /\ shift[s] # NoShift
    BY <2>2, <2>4 DEF InOrder, Counted, Opened, TillInv, DrawersHaveShifts
  <2>6. recon[s] \in [status : {"SUBMITTED", "APPROVED", "FLAGGED"}, expected : Int, counted : Nat]
    BY <2>2, Rows DEF Counted, TillInv, Types, TypeOK
  <2>7. n \in Recon /\ n # NoRecon /\ n.expected = recon[s].expected
    BY <2>2, <2>6 DEF Recon, NoRecon
  <2>8. recon' = [recon EXCEPT ![s] = n]
    BY <2>3
  <2>9. drawer[s] \in DrawerRow /\ drawer[s] \in Drawer
    BY <2>5, CashIsInteger DEF TillInv, Types, TypeOK
  <2>10. waiting' \in 0..MaxCash
    BY <2>3 DEF TillInv, Types, TypeOK
  <2>. HIDE DEF n
  <2>11. CASE q.verdict = "APPROVED"
    <3>1. drawer' = [drawer EXCEPT ![s] = r]
      BY <2>3, <2>11
    <3>2. /\ r \in DrawerRow /\ r.status = "RECONCILED" /\ r.out = drawer[s].out
          /\ r.float = drawer[s].float /\ r.drops = drawer[s].drops
      BY <2>9 DEF DrawerRow
    <3>. HIDE DEF r
    <3>3. r \in Drawer /\ r # NoDrawer
      BY <3>2 DEF DrawerRow, Drawer, NoDrawer
    <3>4. InOrder(OpenShift(s), r, n)
      BY <2>2, <2>4, <2>5, <2>7, <3>2, <3>3 DEF InOrder, Opened, Counted, Countable
    <3>. QED  BY <2>3, <2>5, <2>7, <2>8, <2>10, <3>1, <3>3, <3>4, OneDrawer, Finished
  <2>12. CASE q.verdict # "APPROVED"
    <3>1. drawer' = [drawer EXCEPT ![s] = drawer[s]]
      BY <2>3, <2>12 DEF TillInv, Types, TypeOK
    <3>2. InOrder(OpenShift(s), drawer[s], n)
      BY <2>2, <2>4, <2>5, <2>7 DEF InOrder, Opened, Counted
    <3>. QED  BY <2>3, <2>5, <2>7, <2>8, <2>9, <2>10, <3>1, <3>2, OneDrawer, Finished
  <2>. QED  BY <2>11, <2>12
<1>. QED  BY <1>1, <1>2

(* preview: a missing drawer is opened; a counted one is as it was counted. *)
LEMMA Previews ==
  ASSUME Serial, TillInv, NEW h \in Handlers
  PROVE  /\ \A s \in Shifts : PreviewOpens(h, s) => TillInv'
         /\ \A s \in Shifts : ~PreviewLoad(h, s)
         /\ ~PreviewCommit(h)
<1>1. ASSUME NEW s \in Shifts, PreviewOpens(h, s) PROVE TillInv'
  <2>. DEFINE r == [NewDrawer(0) EXCEPT !.day = shift[s].day]
  <2>1. /\ drawer' = [drawer EXCEPT ![s] = r] /\ UNCHANGED <<shift, recon, waiting>>
        /\ OpenShift(s) /\ drawer[s] = NoDrawer /\ handler[h] = Idle
        /\ UNCHANGED <<handler, today, crashes>>
    BY <1>1 DEF PreviewOpens, OpenShift
  <2>2. Ends(h)
    BY <2>1 DEF Ends, Becomes, TillInv, Types
  <2>3. shift[s] # NoShift /\ shift[s].day \in Nat /\ waiting' \in 0..MaxCash /\ 0 \in 0..MaxCash
    BY <2>1, Rows, DrawerAssumption DEF OpenShift, TillInv, Types, TypeOK
  <2>4. r \in DrawerRow /\ r.status = "OPEN" /\ r.out = 0
    BY <2>3 DEF NewDrawer, DrawerRow
  <2>. HIDE DEF r
  <2>5. r \in Drawer /\ r # NoDrawer
    BY <2>4 DEF DrawerRow, Drawer, NoDrawer
  <2>6. recon[s] = NoRecon /\ recon[s] \in Recon /\ recon' = [recon EXCEPT ![s] = recon[s]]
    BY <2>1, Ordered DEF InOrder, TillInv, Types, TypeOK
  <2>7. InOrder(OpenShift(s), r, recon[s])
    BY <2>1, <2>4, <2>5, <2>6 DEF InOrder
  <2>. QED  BY <2>1, <2>2, <2>3, <2>5, <2>6, <2>7, OneDrawer, Finished
<1>2. ASSUME NEW s \in Shifts, PreviewLoad(h, s) PROVE FALSE
  <2>1. OpenShift(s) /\ drawer[s].status \in {"RECONCILED", "CLOSED"} /\ Counted(s) /\ ~Agrees(s)
    BY <1>2 DEF PreviewLoad, OpenShift, Counted
  <2>2. Opened(s)
    BY <2>1 DEF Opened, NoDrawer
  <2>3. drawer[s].out = 0 /\ drawer[s].float + drawer[s].drops = recon[s].expected
    BY <2>1, <2>2, Ordered DEF InOrder, Opened, Counted, TillInv
  <2>4. drawer[s] \in DrawerRow /\ drawer[s].float \in Nat
    BY <2>2, CashIsInteger DEF TillInv
  <2>. QED  BY <2>1, <2>3, <2>4 DEF Agrees, LiveExpectedCash, DrawerRow
<1>3. ~PreviewCommit(h)
  BY Read DEF PreviewCommit, In, StillTrue
<1>. QED  BY <1>1, <1>2, <1>3
-----------------------------------------------------------------------------
(* handover: the drawer that is left, and the one the next cashier gets.   *)
LEMMA HandsOn ==
  ASSUME Serial, TillInv, NEW h \in Handlers
  PROVE  /\ \A s \in Shifts, c \in Cashiers, n \in 0..MaxCash, f \in 0..MaxCash :
              HandoverLoad(h, s, c, n, f) => TillInv'
         /\ HandoverCommit(h) => TillInv'
<1>1. ASSUME NEW s \in Shifts, NEW c \in Cashiers, NEW n \in 0..MaxCash, NEW f \in 0..MaxCash,
             HandoverLoad(h, s, c, n, f)
      PROVE  TillInv'
  <2>. DEFINE q == [pc |-> "handing", shift |-> s, next |-> c, expected |-> LiveExpectedCash(s),
                    counted |-> n, float |-> f]
  <2>1. drawer[s].status \in Countable /\ OnShift(c) = {} /\ Loads(h, q)
    BY <1>1 DEF HandoverLoad, Countable
  <2>2. LiveExpectedCash(s) \in Int
    BY <2>1, Counts
  <2>3. q \in Request
    BY <2>2 DEF Request, TillRequest
  <2>4. StillTrue(q)
    BY <2>1 DEF StillTrue
  <2>. HIDE DEF q
  <2>. QED  BY <2>1, <2>3, <2>4, Loading
<1>2. ASSUME HandoverCommit(h) PROVE TillInv'
  <2>1. PICK q \in Request : handler[h] = q /\ StillTrue(q)
    BY Read
  <2>2. PICK s \in Shifts :
          /\ s = q.shift /\ drawer[s].status \in Countable /\ q.expected = LiveExpectedCash(s)
          /\ q.counted \in 0..MaxCash /\ q.float \in 0..MaxCash /\ q.next \in Cashiers
    BY <1>2, <2>1, RequestRow DEF HandoverCommit, In, StillTrue
  <2>3. Ends(h) /\ UNCHANGED waiting
    BY <1>2 DEF HandoverCommit
  <2>4. CASE UNCHANGED till
    BY <2>3, <2>4, IdleFits, Reading DEF Ends
  <2>5. ASSUME NEW new \in Free,
               recon' = [recon EXCEPT ![s] =
                 [status |-> IF q.counted = q.expected THEN "APPROVED" ELSE "SUBMITTED",
                  expected |-> q.expected, counted |-> q.counted]],
               drawer' = [drawer EXCEPT ![s].status = "RECONCILED", ![s].closed = TRUE,
                                        ![s].out = @ + TakenOut(q), ![new] = NewDrawer(q.float)],
               shift' = [shift EXCEPT ![s].state = "CLOSED",
                 ![new] = [state |-> "OPEN", cashier |-> q.next, day |-> today]]
        PROVE  TillInv'
    <3>. DEFINE n == [status |-> IF q.counted = q.expected THEN "APPROVED" ELSE "SUBMITTED",
                      expected |-> q.expected, counted |-> q.counted]
                o == drawer[s].out + q.counted
                r == [drawer[s] EXCEPT !.status = "RECONCILED", !.closed = TRUE, !.out = o]
                left == [shift[s] EXCEPT !.state = "CLOSED"]
                next == [state |-> "OPEN", cashier |-> q.next, day |-> today]
    <3>1. /\ OpenShift(s) /\ Opened(s) /\ drawer[s] \in DrawerRow /\ drawer[s].out = 0
          /\ LiveExpectedCash(s) \in Int
          /\ LiveExpectedCash(s) = drawer[s].float + drawer[s].drops
      BY <2>2, Counts
    <3>2. o \in Nat
      BY <2>2, <3>1, DrawerAssumption
    <3>3. n \in Recon /\ n # NoRecon /\ n.expected = drawer[s].float + drawer[s].drops
      BY <2>2, <3>1, DrawerAssumption DEF Recon, NoRecon
    <3>4. recon' = [recon EXCEPT ![s] = n]
      BY <2>5
    <3>5. drawer' = [drawer EXCEPT ![s] = r, ![new] = NewDrawer(q.float)]
      BY <2>5 DEF TakenOut
    <3>6. shift' = [shift EXCEPT ![s] = left, ![new] = next]
      BY <2>5
    <3>. HIDE DEF o
    <3>7. /\ r \in DrawerRow /\ r.status = "RECONCILED"
          /\ r.float = drawer[s].float /\ r.drops = drawer[s].drops
      BY <3>1, <3>2 DEF DrawerRow
    <3>8. left \in Shift /\ left # NoShift /\ left.state = "CLOSED"
      <4>1. shift[s] \in [state : {"OPEN", "CLOSED"}, cashier : Cashiers, day : Nat]
        BY <3>1, Rows DEF TillInv, Types, TypeOK, OpenShift
      <4>. QED  BY <4>1 DEF Shift, NoShift
    <3>9. next \in Shift /\ next # NoShift /\ next.state = "OPEN"
      BY <2>2 DEF Shift, NoShift, TillInv, Types, TypeOK
    <3>. HIDE DEF n, r, left, next
    <3>10. r \in Drawer /\ r # NoDrawer
      BY <3>7 DEF DrawerRow, Drawer, NoDrawer
    <3>11. new \in Shifts /\ new # s /\ ~Opened(new) /\ recon[new] = NoRecon
      <4>1. new \in Shifts /\ shift[new] = NoShift
        BY DEF Free
      <4>2. ~Opened(new)
        BY <4>1 DEF TillInv, DrawersHaveShifts
      <4>. QED  BY <3>1, <4>1, <4>2, Ordered DEF TillInv, InOrder, Opened
    <3>12. /\ NewDrawer(q.float) \in Drawer /\ NewDrawer(q.float) # NoDrawer
           /\ InOrder(TRUE, NewDrawer(q.float), NoRecon)
      BY <2>2, DrawerOpens DEF TillInv
    <3>13. /\ shift' \in [Shifts -> Shift] /\ shift'[s] = left /\ shift'[new] = next
           /\ \A t \in Shifts \ {s, new} : shift'[t] = shift[t]
      BY <3>6, <3>8, <3>9, <3>11 DEF TillInv, Types, TypeOK
    <3>14. /\ drawer' \in [Shifts -> Drawer] /\ drawer'[s] = r /\ drawer'[new] = NewDrawer(q.float)
           /\ \A t \in Shifts \ {s, new} : drawer'[t] = drawer[t]
      BY <3>5, <3>10, <3>11, <3>12 DEF TillInv, Types, TypeOK
    <3>15. /\ recon' \in [Shifts -> Recon] /\ recon'[s] = n
           /\ \A t \in Shifts \ {s} : recon'[t] = recon[t]
      BY <3>3, <3>4 DEF TillInv, Types, TypeOK
    <3>16. \A t \in Shifts : OpenShift(t)' <=> t = new
      <4>1. \A t \in Shifts \ {s, new} : ~OpenShift(t)
        BY <3>1 DEF TillInv, OneOnShift
      <4>. QED  BY <3>8, <3>9, <3>11, <3>13, <4>1 DEF OpenShift
    <3>17. ShiftsInOrder'
      <4>1. ASSUME NEW t \in Shifts PROVE InOrder(OpenShift(t)', drawer'[t], recon'[t])
        <5>1. CASE t = s
          <6>1. InOrder(FALSE, r, n)
            BY <3>3, <3>7, <3>10 DEF InOrder, Countable
          <6>2. OpenShift(t)' = FALSE
            BY <3>11, <3>16, <5>1 DEF OpenShift
          <6>. QED  BY <3>14, <3>15, <5>1, <6>1, <6>2
        <5>2. CASE t = new
          <6>1. OpenShift(t)' = TRUE
            BY <3>16, <5>2 DEF OpenShift
          <6>. QED  BY <3>11, <3>12, <3>14, <3>15, <5>2, <6>1
        <5>3. CASE t \notin {s, new}
          <6>1. InOrder(OpenShift(t), drawer[t], recon[t])
            BY Ordered DEF TillInv
          <6>2. OpenShift(t)' = OpenShift(t)
            BY <3>13, <5>3 DEF OpenShift
          <6>. QED  BY <3>14, <3>15, <5>3, <6>1, <6>2
        <5>. QED  BY <5>1, <5>2, <5>3
      <4>. QED  BY <4>1 DEF ShiftsInOrder
    <3>18. DrawersHaveShifts'
      BY <3>8, <3>9, <3>13, <3>14 DEF DrawersHaveShifts, Opened, TillInv
    <3>19. OneOnShift'
      BY <3>16 DEF OneOnShift
    <3>20. waiting' \in 0..MaxCash
      BY <2>3 DEF TillInv, Types, TypeOK
    <3>. QED  BY <2>3, <3>13, <3>14, <3>15, <3>17, <3>18, <3>19, <3>20, Finished
  <2>. QED  BY <1>2, <2>1, <2>2, <2>4, <2>5 DEF HandoverCommit
<1>. QED  BY <1>1, <1>2

(* managerForceCloseCashierDrawer: the drawer it finds is the shift's own. *)
LEMMA Forces ==
  ASSUME Serial, TillInv, NEW h \in Handlers
  PROVE  /\ \A s \in Shifts, n \in 0..MaxCash, deposit \in BOOLEAN :
              ForceCloseLoad(h, s, n, deposit) => TillInv'
         /\ ForceCloseCommit(h) => TillInv'
<1>1. ASSUME NEW s \in Shifts, NEW n \in 0..MaxCash, NEW deposit \in BOOLEAN,
             ForceCloseLoad(h, s, n, deposit)
      PROVE  TillInv'
  <2>1. OpenShift(s)
    BY <1>1 DEF ForceCloseLoad, OpenShift
  <2>2. ASSUME DrawerOf(s) = {}, Loads(h, [pc |-> "left", shift |-> s]) PROVE TillInv'
    <3>. DEFINE q == [pc |-> "left", shift |-> s]
    <3>1. drawer[s].status \notin Countable
      BY <2>2 DEF DrawerOf, NoDrawer, Countable
    <3>2. q \in Request /\ StillTrue(q)
      BY <2>1, <3>1 DEF Request, TillRequest, StillTrue
    <3>. HIDE DEF q
    <3>. QED  BY <2>2, <3>2, Loading DEF q
  <2>3. ASSUME NEW d \in DrawerOf(s),
               Loads(h, [pc |-> "forcing", shift |-> s, drawer |-> d,
                         expected |-> LiveExpectedCash(d), counted |-> n, deposit |-> deposit])
        PROVE  TillInv'
    <3>1. d = s /\ Opened(s)
      <4>1. CASE Opened(s)
        BY <2>3, <4>1 DEF DrawerOf, Opened
      <4>2. CASE ~Opened(s)
        <5>1. d \in Shifts /\ drawer[d].status = "OPEN"
          BY <2>3, <4>2 DEF DrawerOf, Opened, OpenDrawers
        <5>2. OpenShift(d) /\ Opened(d)
          BY <5>1, Counts DEF Countable, TillInv
        <5>. QED  BY <2>1, <4>2, <5>1, <5>2 DEF TillInv, OneOnShift
      <4>. QED  BY <4>1, <4>2
    <3>. DEFINE q == [pc |-> "forcing", shift |-> s, drawer |-> s, expected |-> LiveExpectedCash(s),
                      counted |-> n, deposit |-> deposit]
    <3>2. Loads(h, q)
      BY <2>3, <3>1
    <3>3. q \in Request
      <4>1. LiveExpectedCash(s) \in Int
        BY <3>1, CashIsInteger DEF TillInv
      <4>. QED  BY <4>1 DEF Request, TillRequest
    <3>4. StillTrue(q)
      BY <2>1, <3>1 DEF StillTrue
    <3>. HIDE DEF q
    <3>. QED  BY <3>2, <3>3, <3>4, Loading
  <2>. QED  BY <1>1, <2>2, <2>3 DEF ForceCloseLoad
<1>2. ASSUME ForceCloseCommit(h) PROVE TillInv'
  <2>1. PICK q \in Request : handler[h] = q /\ StillTrue(q)
    BY Read
  <2>2. PICK s \in Shifts :
          /\ s = q.shift /\ q.drawer = s /\ OpenShift(s) /\ Opened(s)
          /\ q.expected = LiveExpectedCash(s) /\ q.counted \in 0..MaxCash /\ q.deposit \in BOOLEAN
    BY <1>2, <2>1, RequestRow DEF ForceCloseCommit, In, StillTrue
  <2>3. Ends(h) /\ UNCHANGED waiting
    BY <1>2 DEF ForceCloseCommit
  <2>4. CASE UNCHANGED till
    BY <2>3, <2>4, IdleFits, Reading DEF Ends
  <2>5. ASSUME recon' = [recon EXCEPT ![s] =
                 [status |-> "APPROVED", expected |-> q.expected, counted |-> q.counted]],
               drawer' = [drawer EXCEPT ![s].status = "RECONCILED", ![s].closed = TRUE,
                            ![s].out = @ + (IF q.deposit THEN q.counted ELSE 0)],
               shift' = [shift EXCEPT ![s].state = "CLOSED"]
        PROVE  TillInv'
    <3>. DEFINE n == [status |-> "APPROVED", expected |-> q.expected, counted |-> q.counted]
                o == drawer[s].out + (IF q.deposit THEN q.counted ELSE 0)
                r == [drawer[s] EXCEPT !.status = "RECONCILED", !.closed = TRUE, !.out = o]
    <3>1. drawer[s] \in DrawerRow /\ drawer[s].float \in Nat /\ LiveExpectedCash(s) \in Int
      BY <2>2, CashIsInteger DEF TillInv
    <3>2. drawer[s].out = 0
      BY <2>2, Ordered DEF TillInv, InOrder, Opened
    <3>3. LiveExpectedCash(s) = drawer[s].float + drawer[s].drops
      BY <3>1, <3>2 DEF LiveExpectedCash, DrawerRow
    <3>4. o \in Nat
      BY <2>2, <3>2, DrawerAssumption
    <3>5. n \in Recon /\ n # NoRecon /\ n.expected = drawer[s].float + drawer[s].drops
      BY <2>2, <3>1, <3>3, DrawerAssumption DEF Recon, NoRecon
    <3>6. recon' = [recon EXCEPT ![s] = n]
      BY <2>5
    <3>7. drawer' = [drawer EXCEPT ![s] = r]
      BY <2>5
    <3>. HIDE DEF o
    <3>8. /\ r \in DrawerRow /\ r.status = "RECONCILED"
          /\ r.float = drawer[s].float /\ r.drops = drawer[s].drops
      BY <3>1, <3>4 DEF DrawerRow
    <3>. HIDE DEF n, r
    <3>9. r \in Drawer /\ r # NoDrawer
      BY <3>8 DEF DrawerRow, Drawer, NoDrawer
    <3>10. InOrder(FALSE, r, n)
      BY <3>5, <3>8, <3>9 DEF InOrder, Countable
    <3>11. /\ shift' \in [Shifts -> Shift] /\ shift'[s] # NoShift
           /\ \A t \in Shifts : ~OpenShift(t)'
           /\ \A t \in Shifts : t # s => shift'[t] = shift[t]
      BY <2>2, <2>5, ShiftCloses
    <3>12. /\ drawer' \in [Shifts -> Drawer] /\ drawer'[s] = r
           /\ \A t \in Shifts \ {s} : drawer'[t] = drawer[t]
      BY <3>7, <3>9 DEF TillInv, Types, TypeOK
    <3>13. /\ recon' \in [Shifts -> Recon] /\ recon'[s] = n
           /\ \A t \in Shifts \ {s} : recon'[t] = recon[t]
      BY <3>5, <3>6 DEF TillInv, Types, TypeOK
    <3>14. ShiftsInOrder'
      <4>1. ASSUME NEW t \in Shifts PROVE InOrder(OpenShift(t)', drawer'[t], recon'[t])
        <5>1. OpenShift(t)' = FALSE
          BY <3>11 DEF OpenShift
        <5>2. CASE t = s
          BY <3>10, <3>12, <3>13, <5>1, <5>2
        <5>3. CASE t # s
          <6>1. InOrder(OpenShift(t), drawer[t], recon[t]) /\ OpenShift(t) = FALSE
            BY <2>2, <5>3, Ordered DEF TillInv, OneOnShift, OpenShift
          <6>. QED  BY <3>12, <3>13, <5>1, <5>3, <6>1
        <5>. QED  BY <5>2, <5>3
      <4>. QED  BY <4>1 DEF ShiftsInOrder
    <3>15. DrawersHaveShifts'
      BY <3>11, <3>12 DEF DrawersHaveShifts, Opened, TillInv
    <3>16. OneOnShift' /\ waiting' \in 0..MaxCash
      BY <2>3, <3>11 DEF OneOnShift, TillInv, Types, TypeOK
    <3>. QED  BY <2>3, <3>11, <3>12, <3>13, <3>14, <3>15, <3>16, Finished
  <2>. QED  BY <1>2, <2>1, <2>2, <2>4, <2>5 DEF ForceCloseCommit
<1>. QED  BY <1>1, <1>2
-----------------------------------------------------------------------------
(* A branch that has just been set up.                                     *)
LEMMA SetUp == TillInit => TillInv
<1>. SUFFICES ASSUME TillInit PROVE TillInv
  OBVIOUS
<1>1. \A s \in Shifts : shift[s] = NoShift /\ drawer[s] = NoDrawer /\ recon[s] = NoRecon
  BY DEF TillInit
<1>2. Types
  BY IdleFits, DrawerAssumption
     DEF TillInit, Types, TypeOK, Shift, Drawer, Recon
<1>3. ShiftsInOrder /\ DrawersHaveShifts
  BY <1>1 DEF ShiftsInOrder, InOrder, DrawersHaveShifts, Opened
<1>4. OneOnShift
  BY <1>1 DEF OneOnShift, OpenShift, NoShift
<1>5. ReadsHold
  <2>1. \A h \in Handlers : handler[h] = Idle
    BY DEF TillInit
  <2>. QED  BY <2>1, IdleFits DEF ReadsHold
<1>. QED  BY <1>2, <1>3, <1>4, <1>5 DEF TillInv

(* Every step keeps what the requests have read and the shifts in order.   *)
LEMMA TillKeeps ==
  ASSUME Serial, TillInv, [TillNext]_tillVars
  PROVE  TillInv'
<1>1. CASE UNCHANGED tillVars
  <2>1. UNCHANGED till /\ UNCHANGED <<waiting, handler, today, crashes>>
    BY <1>1 DEF tillVars
  <2>2. \A q \in Request : StillTrue(q) => (q.pc = "receiving" => waiting' > 0) /\ waiting' = waiting
    BY <2>1 DEF StillTrue
  <2>3. \A q \in Request : StillTrue(q) => StillTrue(q)'
    BY <2>1, <2>2, Unwritten
  <2>4. ReadsHold'
    BY <2>1, <2>3 DEF TillInv, ReadsHold
  <2>5. Types'
    BY <2>1, Unwritten DEF TillInv, Types, TypeOK
  <2>. QED  BY <2>1, <2>4, <2>5, Unwritten DEF TillInv
<1>2. CASE Initiate
  BY <1>2, Declares
<1>3. ASSUME NEW h \in Handlers, TillStep(h) PROVE TillInv'
  <2>1. CASE Attending(h)
    BY <2>1, ClocksIn, Ensures, Leaves, Shuts, ClocksOut DEF Attending
  <2>2. CASE Receiving(h)
    BY <2>2, Receives
  <2>3. CASE Counting(h)
    BY <2>3, Submits, Reviews, Previews DEF Counting
  <2>4. CASE Ending(h)
    BY <2>4, HandsOn, Forces DEF Ending
  <2>5. CASE Crash(h)
    BY <2>5, IdleFits, Reading DEF Crash, Ends
  <2>. QED  BY <1>3, <2>1, <2>2, <2>3, <2>4, <2>5 DEF TillStep
<1>. QED  BY <1>1, <1>2, <1>3 DEF TillNext

(* The inductive invariant holds.                                          *)
LEMMA TillInvHolds ==
  ASSUME Serial
  PROVE  TillSpec => []TillInv
<1>1. TillInv /\ [TillNext]_tillVars => TillInv'
  BY TillKeeps
<1>. QED  BY <1>1, SetUp, PTL DEF TillSpec
-----------------------------------------------------------------------------
(* The day's close.  What is locked, and what a request of the day has read*)
(* and is still so: the report that is about to be locked in, and the day  *)
(* of the session that is ordered or paid for.                             *)
DayPcs == {"creating", "refreshing", "approving", "abandoning", "reading", "locking",
           "ordering", "paying", "declaring"}

DayTypes ==
  /\ close \in [Dates -> Close] /\ seat \in [Seats -> Seat]
  /\ paid \in [Payments -> Nat] /\ declared \in [Dates -> Nat] /\ today \in Dates

Begun ==
  /\ \A d \in Dates : close[d].status = "LOCKED" => close[d].on \in 1..today
  /\ \A x \in Seats : seat[x] # NoSeat => seat[x].day <= today

Unoccupied == \A x \in Seats : seat[x].status # "OPEN"
StillToday(q) ==
  /\ q.pc \in {"approving", "abandoning", "reading", "locking"} => close[q.day] # NoClose
  /\ q.pc = "locking" => q.sales = CashSales(q.day) /\ Undropped(q.day) = 0 /\ Unoccupied
  /\ q.pc \in {"ordering", "paying"} => seat[q.seat].status = "OPEN" /\ NotLocked(seat[q.seat].day)
  /\ q.pc = "declaring" => waiting < MaxCash
DayReadsHold == \A h \in Handlers, q \in Request : handler[h] = q => StillToday(q)

DayInv == TillInv /\ DayTypes /\ Begun /\ DayReadsHold /\ LockHolds
-----------------------------------------------------------------------------
SeatRow ==
  [status : {"OPEN", "CLOSED"}, day : Dates, ticket : {"NONE", "OPEN", "SERVED", "CANCELLED"},
   lock : Dates \cup {NULL}]
CloseRow == [status : {"DRAFT", "READY_FOR_REVIEW", "APPROVED", "LOCKED"}, sales : Nat,
             on : Dates \cup {NULL}]

(* A row is there when it has a status.                                    *)
LEMMA DayRows ==
  /\ \A x \in Seat : (x # NoSeat <=> x.status # "NONE") /\ (x # NoSeat => x \in SeatRow)
  /\ SeatRow \subseteq Seat \ {NoSeat}
  /\ \A x \in Close : (x # NoClose <=> x.status # "NONE") /\ (x # NoClose => x \in CloseRow)
  /\ CloseRow \subseteq Close \ {NoClose}
  /\ \A x \in Close : x.on \in Dates \cup {NULL}
<1>1. Seat = {NoSeat} \cup SeatRow /\ Close = {NoClose} \cup CloseRow
  BY DEF Seat, SeatRow, Close, CloseRow
<1>2. (\A x \in SeatRow : x.status # "NONE") /\ (\A x \in CloseRow : x.status # "NONE")
  BY DEF SeatRow, CloseRow
<1>3. NoSeat.status = "NONE" /\ NoClose.status = "NONE" /\ NoClose.on = NULL
  BY DEF NoSeat, NoClose
<1>4. \A x \in CloseRow : x.on \in Dates \cup {NULL}
  BY DEF CloseRow
<1>. QED  BY <1>1, <1>2, <1>3, <1>4

(* What a request of the day holds, and that none of it is about a drawer. *)
LEMMA DayHeld ==
  /\ \A q \in DayRequest : q \in Request /\ q.pc \in DayPcs /\ StillTrue(q)
  /\ \A q \in Request :
       /\ q.pc \in {"creating", "refreshing", "approving", "abandoning", "reading", "locking",
                    "declaring"} => q.day \in Dates
       /\ q.pc \in {"creating", "refreshing"} => q.status \in Unlocked /\ q.sales \in Nat
       /\ q.pc = "locking" => q.sales \in Nat
       /\ q.pc \in {"ordering", "paying"} => q.seat \in Seats
       /\ q.pc = "paying" => q.shift \in Dates
<1>1. \A q \in DayRequest : q.pc \in DayPcs
  BY DEF DayRequest, DayPcs
<1>2. \A q \in DayRequest : q \in Request /\ StillTrue(q)
  BY <1>1 DEF Request, DayPcs, StillTrue
<1>3. ASSUME NEW q \in Request, q.pc \in DayPcs PROVE q \in DayRequest
  BY <1>3 DEF Request, TillRequest, DayPcs, Idle
<1>4. ASSUME NEW q \in DayRequest
      PROVE  /\ q.pc \in {"creating", "refreshing", "approving", "abandoning", "reading", "locking",
                          "declaring"} => q.day \in Dates
             /\ q.pc \in {"creating", "refreshing"} => q.status \in Unlocked /\ q.sales \in Nat
             /\ q.pc = "locking" => q.sales \in Nat
             /\ q.pc \in {"ordering", "paying"} => q.seat \in Seats
             /\ q.pc = "paying" => q.shift \in Dates
  BY DEF DayRequest
<1>. QED  BY <1>1, <1>2, <1>3, <1>4 DEF DayPcs
-----------------------------------------------------------------------------
(* The sums of the snapshot, as functions.                                 *)
SalesOf(d) == [p \in Payments |-> IF OfDay(p, d) THEN paid[p] ELSE 0]
GotOn(d) == [p \in Payments |-> IF p[3] = d /\ OfDay(p, d) THEN paid[p] ELSE 0]
Left(n) == IF n > 0 THEN n ELSE 0

LEMMA PaymentsFinite == IsFiniteSet(Payments)
<1>1. IsFiniteSet(Dates)
  BY CloseAssumption, FS_Interval DEF Dates
<1>. DEFINE P == (Dates \X Dates) \X Dates
            f == [z \in P |-> <<z[1][1], z[1][2], z[2]>>]
<1>2. IsFiniteSet(P)
  <2>1. IsFiniteSet(Dates \X Dates)
    BY <1>1, FS_Product
  <2>. QED  BY <1>1, <2>1, FS_Product
<1>3. f \in [P -> Payments]
  BY DEF Payments
<1>4. \A p \in Payments : \E z \in P : f[z] = p
  <2>. SUFFICES ASSUME NEW p \in Payments PROVE \E z \in P : f[z] = p
    OBVIOUS
  <2>. DEFINE z == <<<<p[1], p[2]>>, p[3]>>
  <2>1. z \in P /\ <<z[1][1], z[1][2], z[2]>> = p
    BY DEF Payments
  <2>. QED  BY <2>1
<1>. HIDE DEF P, f
<1>5. f \in Surjection(P, Payments)
  BY <1>3, <1>4 DEF Surjection
<1>. QED  BY <1>2, <1>5, FS_Surjection

LEMMA SalesAreNumbers ==
  ASSUME DayTypes, NEW d \in Dates
  PROVE  SalesOf(d) \in [Payments -> Int] /\ (\A p \in Payments : SalesOf(d)[p] >= 0)
         /\ GotOn(d) \in [Payments -> Int]
  BY DEF DayTypes, SalesOf, GotOn

(* The sums of buildSnapshot are sums of these.                            *)
LEMMA SumsNow ==
  DayTypes => \A d \in Dates :
    /\ CashSales(d) = SumOf(SalesOf(d), Payments)
    /\ Undropped(d) = Left(SumOf(GotOn(d), Payments) - declared[d])
<1>. SUFFICES ASSUME DayTypes, NEW d \in Dates
     PROVE  /\ CashSales(d) = SumOf(SalesOf(d), Payments)
            /\ Undropped(d) = Left(SumOf(GotOn(d), Payments) - declared[d])
  OBVIOUS
<1>1. CashSales(d) = SumOf(SalesOf(d), Payments)
  <2>. DEFINE f == SalesOf(d)
              G(g) == [s \in SUBSET Payments |->
                        IF s = {} THEN 0
                        ELSE (IF OfDay(First(s), d) THEN paid[First(s)] ELSE 0) + g[s \ {First(s)}]]
              it == CHOOSE g : g = G(g)
              g == Partial(f, Payments)
  <2>1. CashSales(d) = it[Payments]
    BY DEF CashSales, Sum, MapThenSumSet, MapThenFoldSet, First
  <2>2. \A s \in SUBSET Payments :
          s # {} => f[First(s)] = IF OfDay(First(s), d) THEN paid[First(s)] ELSE 0
    BY FirstIn DEF SalesOf
  <2>3. f \in [Payments -> Int]
    BY SalesAreNumbers
  <2>. HIDE DEF f
  <2>4. IsSum(g, f, Payments)
    BY <2>3, PaymentsFinite, SumExists
  <2>5. g = G(g)
    <3>. HIDE DEF g
    <3>. QED  BY <2>2, <2>4 DEF IsSum, Adds
  <2>6. it = G(it)
    BY <2>5
  <2>. HIDE DEF it
  <2>7. Adds(it, f, Payments)
    BY <2>2, <2>6 DEF Adds
  <2>8. it[Payments] = SumOf(f, Payments)
    BY <2>3, <2>7, PaymentsFinite, Folded
  <2>. QED  BY <2>1, <2>8 DEF f
<1>2. Undropped(d) = Left(SumOf(GotOn(d), Payments) - declared[d])
  <2>. DEFINE f == GotOn(d)
              G(g) == [s \in SUBSET Payments |->
                        IF s = {} THEN 0
                        ELSE (IF First(s)[3] = d /\ OfDay(First(s), d) THEN paid[First(s)] ELSE 0) + g[s \ {First(s)}]]
              it == CHOOSE g : g = G(g)
              g == Partial(f, Payments)
  <2>1. Undropped(d) = Left(it[Payments] - declared[d])
    BY DEF Undropped, Left, Sum, MapThenSumSet, MapThenFoldSet, First
  <2>2. \A s \in SUBSET Payments :
          s # {} => f[First(s)] = IF First(s)[3] = d /\ OfDay(First(s), d) THEN paid[First(s)] ELSE 0
    BY FirstIn DEF GotOn
  <2>3. f \in [Payments -> Int]
    BY SalesAreNumbers
  <2>. HIDE DEF f
  <2>4. IsSum(g, f, Payments)
    BY <2>3, PaymentsFinite, SumExists
  <2>5. g = G(g)
    <3>. HIDE DEF g
    <3>. QED  BY <2>2, <2>4 DEF IsSum, Adds
  <2>6. it = G(it)
    BY <2>5
  <2>. HIDE DEF it
  <2>7. Adds(it, f, Payments)
    BY <2>2, <2>6 DEF Adds
  <2>8. it[Payments] = SumOf(f, Payments)
    BY <2>3, <2>7, PaymentsFinite, Folded
  <2>. QED  BY <2>1, <2>8 DEF f
<1>. QED  BY <1>1, <1>2

(* The same a step later.                                                  *)
LEMMA SumsThen ==
  DayTypes' => (\A d \in Dates :
    /\ CashSales(d) = SumOf(SalesOf(d), Payments)
    /\ Undropped(d) = Left(SumOf(GotOn(d), Payments) - declared[d]))'
  BY SumsNow, PTL

(* Cash of other days changes nothing, and more drops leave nobody more.   *)
LEMMA DayStays ==
  ASSUME DayTypes, DayTypes', NEW d \in Dates,
         \A p \in Payments : OfDay(p, d) => paid'[p] = paid[p], declared'[d] >= declared[d]
  PROVE  CashSales(d)' = CashSales(d) /\ (Undropped(d) = 0 => Undropped(d)' = 0)
<1>1. SalesOf(d)' = SalesOf(d) /\ GotOn(d)' = GotOn(d)
  BY DEF SalesOf, GotOn, OfDay
<1>2. CashSales(d)' = CashSales(d)
  BY <1>1, SumsNow, SumsThen
<1>3. SumOf(GotOn(d), Payments) \in Int /\ declared[d] \in Int /\ declared'[d] \in Int
  BY SalesAreNumbers, PaymentsFinite, SumIsInt DEF DayTypes
<1>4. /\ Undropped(d) = Left(SumOf(GotOn(d), Payments) - declared[d])
      /\ Undropped(d)' = Left(SumOf(GotOn(d), Payments) - declared'[d])
  BY <1>1, SumsNow, SumsThen
<1>. QED  BY <1>2, <1>3, <1>4 DEF Left

(* The report is a number.                                                 *)
LEMMA SalesIsNat ==
  ASSUME DayTypes, NEW d \in Dates
  PROVE  CashSales(d) \in Nat
<1>1. SalesOf(d) \in [Payments -> Int] /\ \A p \in Payments : SalesOf(d)[p] >= 0
  BY SalesAreNumbers
<1>2. SumOf(SalesOf(d), Payments) \in Nat
  BY <1>1, PaymentsFinite, SumIsNat
<1>. QED  BY <1>2, SumsNow
-----------------------------------------------------------------------------
(* The one request that is handled goes on with q or ends.                 *)
LEMMA DayGoes ==
  ASSUME Serial, DayInv, NEW h \in Handlers, NEW q \in Request, Becomes(h, q), StillToday(q)',
         TillInv', DayTypes', Begun', LockHolds'
  PROVE  DayInv'
<1>1. \A g \in Handlers : handler'[g] = q
  BY DEF Serial, Becomes, DayInv, TillInv, Types
<1>2. DayReadsHold'
  BY <1>1 DEF DayReadsHold
<1>. QED  BY <1>2 DEF DayInv

(* What holds nothing of the day.                                          *)
LEMMA Unread == \A q : q.pc \notin DayPcs => StillToday(q) /\ StillToday(q)'
  BY DEF StillToday, DayPcs

LEMMA IdleToday == Idle \in Request /\ Idle.pc \notin DayPcs /\ StillTrue(Idle)'
  BY DEF Request, Idle, DayPcs, StillTrue

(* Neither the floor nor the closes are written.                           *)
LEMMA FloorUnwritten ==
  ASSUME DayInv, UNCHANGED <<close, floor, today>>
  PROVE  /\ DayTypes' /\ Begun' /\ LockHolds'
         /\ \A d \in Dates : CashSales(d)' = CashSales(d) /\ (Undropped(d) = 0 => Undropped(d)' = 0)
         /\ \A q \in Request :
              StillToday(q) /\ (q.pc = "declaring" => waiting' = waiting) => StillToday(q)'
<1>1. UNCHANGED <<close, seat, paid, declared, today>>
  BY DEF floor
<1>2. DayTypes' /\ Begun'
  BY <1>1 DEF DayInv, DayTypes, Begun
<1>3. ASSUME NEW d \in Dates
      PROVE  CashSales(d)' = CashSales(d) /\ (Undropped(d) = 0 => Undropped(d)' = 0)
  <2>1. declared'[d] >= declared[d]
    BY <1>1 DEF DayInv, DayTypes
  <2>2. DayTypes /\ \A p \in Payments : paid'[p] = paid[p]
    BY <1>1 DEF DayInv
  <2>. QED  BY <1>2, <2>1, <2>2, DayStays
<1>4. LockHolds'
  BY <1>1, <1>3 DEF DayInv, LockHolds, LockedInTime
<1>5. ASSUME NEW q \in Request, StillToday(q), q.pc = "declaring" => waiting' = waiting
      PROVE  StillToday(q)'
  <2>1. q.pc = "locking" => q.day \in Dates
    BY DayHeld
  <2>. QED  BY <1>1, <1>3, <1>5, <2>1 DEF StillToday, NotLocked, Unoccupied
<1>. QED  BY <1>2, <1>3, <1>4, <1>5

(* A request has read q, or goes on with it, and has written nothing.      *)
LEMMA DayReading ==
  ASSUME Serial, DayInv, NEW h \in Handlers, NEW q \in Request, Becomes(h, q), StillTrue(q), StillToday(q),
         UNCHANGED <<till, waiting, close, floor>>
  PROVE  DayInv'
<1>1. UNCHANGED <<close, floor, today>> /\ waiting' = waiting
  BY DEF Becomes
<1>2. TillInv'
  BY Reading DEF DayInv
<1>3. DayTypes' /\ Begun' /\ LockHolds' /\ StillToday(q)'
  BY <1>1, FloorUnwritten
<1>. QED  BY <1>2, <1>3, DayGoes

(* A request of the day that comes has read q.                             *)
LEMMA DayLoading ==
  ASSUME Serial, DayInv, NEW h \in Handlers, NEW q \in DayRequest, Enters(h, q), StillToday(q)
  PROVE  DayInv'
<1>1. Becomes(h, q) /\ UNCHANGED <<till, waiting, close, floor>>
  BY DEF Enters, Loads, Becomes
<1>. QED  BY <1>1, DayHeld, DayReading

(* What a request of the day holds, and that it is still so.               *)
LEMMA DayRead ==
  ASSUME DayInv, NEW h \in Handlers
  PROVE  \E q \in Request : handler[h] = q /\ StillToday(q)
  BY DEF DayInv, TillInv, Types, DayReadsHold

(* Nothing of the drawers is written.                                      *)
LEMMA TillUntouched ==
  ASSUME Serial, TillInv, NEW h \in Handlers, NEW q \in Request, Becomes(h, q), q.pc \in DayPcs \cup {"idle"},
         UNCHANGED till, waiting' \in 0..MaxCash
  PROVE  TillInv'
<1>1. StillTrue(q)'
  BY DEF StillTrue, DayPcs
<1>2. /\ shift' \in [Shifts -> Shift] /\ drawer' \in [Shifts -> Drawer] /\ recon' \in [Shifts -> Recon]
      /\ ShiftsInOrder' /\ DrawersHaveShifts' /\ OneOnShift'
  BY Unwritten
<1>. QED  BY <1>1, <1>2, Goes
-----------------------------------------------------------------------------
(* A close is written, and only a true report is locked in.                *)
LEMMA CloseSet ==
  ASSUME Serial, DayInv, NEW h \in Handlers, Ends(h), UNCHANGED <<till, waiting, floor>>,
         NEW d \in Dates, NEW x \in CloseRow, close' = [close EXCEPT ![d] = x],
         x.status = "LOCKED" =>
           x.sales = CashSales(d) /\ Undropped(d) = 0 /\ Unoccupied /\ x.on \in 1..today
  PROVE  DayInv'
<1>1. UNCHANGED <<seat, paid, declared, today>> /\ Becomes(h, Idle) /\ waiting' \in 0..MaxCash
  BY DEF floor, Ends, Becomes, DayInv, TillInv, Types, TypeOK
<1>2. /\ close' \in [Dates -> Close] /\ close'[d] = x
      /\ \A e \in Dates : e # d => close'[e] = close[e]
  BY DayRows DEF DayInv, DayTypes
<1>3. DayTypes' /\ Begun'
  BY <1>1, <1>2 DEF DayInv, DayTypes, Begun
<1>4. \A e \in Dates : CashSales(e)' = CashSales(e) /\ (Undropped(e) = 0 => Undropped(e)' = 0)
  <2>1. \A e \in Dates : declared'[e] >= declared[e]
    BY <1>1 DEF DayInv, DayTypes
  <2>2. DayTypes /\ \A p \in Payments : paid'[p] = paid[p]
    BY <1>1 DEF DayInv
  <2>. QED  BY <1>3, <2>1, <2>2, DayStays
<1>5. LockHolds'
  <2>. SUFFICES ASSUME NEW e \in Dates, LockedInTime(e)'
       PROVE  /\ close'[e].sales = CashSales(e)' /\ Undropped(e)' = 0
              /\ \A y \in Seats : (seat[y].status = "OPEN" /\ seat[y].day <= e) =>
                   seat[y].day = e /\ seat[y].ticket = "NONE"
    BY <1>1 DEF LockHolds
  <2>1. CASE e = d
    BY <1>2, <1>4, <2>1 DEF Unoccupied, LockedInTime
  <2>2. CASE e # d
    BY <1>2, <1>4, <2>2 DEF DayInv, LockHolds, LockedInTime
  <2>. QED  BY <2>1, <2>2
<1>6. TillInv'
  BY <1>1, IdleToday, TillUntouched DEF DayInv, Idle
<1>. QED  BY <1>1, <1>3, <1>5, <1>6, IdleToday, Unread, DayGoes

(* create, refresh, approve and lock.                                      *)
LEMMA ClosesDay ==
  ASSUME Serial, DayInv, NEW h \in Handlers, StoreCommit(h) \/ ApproveCommit(h) \/ LockCommit(h)
  PROVE  DayInv'
<1>1. PICK q \in Request : handler[h] = q /\ StillToday(q)
  BY DayRead
<1>2. q.pc \in {"creating", "refreshing", "approving", "locking"}
      /\ Ends(h) /\ UNCHANGED <<till, waiting, floor>>
  BY <1>1 DEF StoreCommit, ApproveCommit, LockCommit, In
<1>3. PICK d \in Dates : d = q.day
  BY <1>2, DayHeld
<1>5. CASE StoreCommit(h)
  <2>. DEFINE x == [status |-> q.status, sales |-> q.sales, on |-> close[d].on]
  <2>1. q.pc \in {"creating", "refreshing"} /\ (close' = close \/ close' = [close EXCEPT ![d] = x])
    BY <1>1, <1>3, <1>5 DEF StoreCommit, In
  <2>2. CASE close' = close
    BY <1>2, <2>2, IdleToday, IdleFits, Unread, DayReading DEF Ends
  <2>3. CASE close' = [close EXCEPT ![d] = x]
    <3>1. close[d].on \in Dates \cup {NULL}
      BY DayRows DEF DayInv, DayTypes
    <3>2. x \in CloseRow /\ x.status # "LOCKED"
      BY <1>1, <2>1, <3>1, DayHeld DEF CloseRow, Unlocked
    <3>. HIDE DEF x
    <3>. QED  BY <1>2, <2>3, <3>2, CloseSet
  <2>. QED  BY <2>1, <2>2, <2>3
<1>6. CASE ApproveCommit(h)
  <2>. DEFINE x == [close[d] EXCEPT !.status = "APPROVED"]
  <2>1. q.pc = "approving" /\ close' = [close EXCEPT ![d] = x]
    BY <1>1, <1>3, <1>6 DEF ApproveCommit, In
  <2>2. close[d] \in CloseRow
    BY <1>1, <1>3, <2>1, DayRows DEF StillToday, DayInv, DayTypes
  <2>3. x \in CloseRow /\ x.status # "LOCKED"
    BY <2>2 DEF CloseRow
  <2>. HIDE DEF x
  <2>. QED  BY <1>2, <2>1, <2>3, CloseSet
<1>7. CASE LockCommit(h)
  <2>. DEFINE x == [status |-> "LOCKED", sales |-> q.sales, on |-> today]
  <2>1. q.pc = "locking" /\ close' = [close EXCEPT ![d] = x]
    BY <1>1, <1>3, <1>7 DEF LockCommit, In
  <2>2. x \in CloseRow /\ x.on \in 1..today
    BY <1>1, <2>1, DayHeld DEF CloseRow, DayInv, DayTypes, Dates
  <2>3. x.sales = CashSales(d) /\ Undropped(d) = 0 /\ Unoccupied
    BY <1>1, <1>3, <2>1 DEF StillToday
  <2>. HIDE DEF x
  <2>. QED  BY <1>2, <2>1, <2>2, <2>3, CloseSet
<1>. QED  BY <1>5, <1>6, <1>7

(* What is read for it: a snapshot blocked by an open session is a draft.  *)
LEMMA ReadsDay ==
  ASSUME Serial, DayInv, NEW h \in Handlers, NEW d \in Dates,
         CreateLoad(h, d) \/ RefreshLoad(h, d) \/ ApproveLoad(h, d) \/ LockLoad(h, d)
  PROVE  DayInv'
<1>1. Prepared(d) \in Unlocked /\ CashSales(d) \in Nat
  BY SalesIsNat DEF Prepared, Unlocked, DayInv
<1>2. CASE CreateLoad(h, d)
  <2>. DEFINE q == [pc |-> "creating", day |-> d, status |-> Prepared(d), sales |-> CashSales(d)]
  <2>1. Enters(h, q)
    BY <1>2 DEF CreateLoad
  <2>2. q \in DayRequest
    BY <1>1 DEF DayRequest
  <2>3. StillToday(q)
    BY <2>1 DEF StillToday
  <2>. HIDE DEF q
  <2>. QED  BY <2>1, <2>2, <2>3, DayLoading
<1>3. CASE RefreshLoad(h, d) \/ ApproveLoad(h, d) \/ LockLoad(h, d)
  <2>1. close[d].status \in Unlocked /\ close[d] # NoClose
    <3>1. close[d].status \in Unlocked
      BY <1>3 DEF RefreshLoad, ApproveLoad, LockLoad, Unlocked
    <3>2. close[d] # NoClose
      BY <3>1 DEF Unlocked, NoClose
    <3>. QED  BY <3>1, <3>2
  <2>. DEFINE st == IF close[d].status = "APPROVED" THEN "APPROVED" ELSE Prepared(d)
              p == [pc |-> "refreshing", day |-> d, sales |-> CashSales(d), status |-> st]
  <2>2. CASE RefreshLoad(h, d)
    <3>1. Enters(h, p)
      BY <2>2 DEF RefreshLoad
    <3>2. st \in Unlocked
      BY <1>1 DEF Unlocked
    <3>. HIDE DEF st
    <3>3. p \in DayRequest /\ StillToday(p)
      BY <1>1, <2>1, <3>2 DEF DayRequest, StillToday
    <3>. HIDE DEF p
    <3>. QED  BY <3>1, <3>3, DayLoading
  <2>3. ASSUME NEW pc \in {"approving", "abandoning"}, Enters(h, [pc |-> pc, day |-> d])
        PROVE  DayInv'
    <3>. DEFINE q == [pc |-> pc, day |-> d]
    <3>1. q \in DayRequest /\ StillToday(q) /\ Enters(h, q)
      BY <2>1, <2>3 DEF DayRequest, StillToday
    <3>. HIDE DEF q
    <3>. QED  BY <3>1, DayLoading
  <2>. QED  BY <1>3, <2>2, <2>3 DEF ApproveLoad, LockLoad
<1>. QED  BY <1>2, <1>3

(* The snapshot of a lock.                                                 *)
LEMMA Snapshots ==
  ASSUME Serial, DayInv, NEW h \in Handlers, LockSnapshot(h)
  PROVE  DayInv'
<1>1. PICK q \in Request : handler[h] = q /\ StillToday(q) /\ q.pc = "reading"
  BY DayRead DEF LockSnapshot, In
<1>2. PICK d \in Dates : d = q.day /\ close[d] # NoClose
  BY <1>1, DayHeld DEF StillToday
<1>. DEFINE p == [pc |-> "locking", day |-> d, sales |-> CashSales(d)]
<1>3. /\ UNCHANGED <<till, waiting, close, floor>>
      /\ Becomes(h, Idle) \/ (~HardBlockers(d) /\ Becomes(h, p))
  BY <1>1, <1>2 DEF LockSnapshot
<1>4. CASE Becomes(h, Idle)
  BY <1>3, <1>4, IdleToday, IdleFits, Unread, DayReading
<1>5. CASE ~HardBlockers(d) /\ Becomes(h, p)
  <2>1. Unoccupied /\ ~(Undropped(d) > 0)
    BY <1>5 DEF HardBlockers, Unoccupied
  <2>2. Undropped(d) = 0
    BY <2>1, SumsNow DEF Left, DayInv
  <2>3. p \in DayRequest
    BY SalesIsNat DEF DayRequest, DayInv
  <2>4. StillToday(p)
    BY <1>2, <2>1, <2>2 DEF StillToday
  <2>5. Becomes(h, p)
    BY <1>5
  <2>. HIDE DEF p
  <2>. QED  BY <1>3, <2>3, <2>4, <2>5, DayHeld, DayReading
<1>. QED  BY <1>3, <1>4, <1>5
-----------------------------------------------------------------------------
(* A seating changes, and is not in the way of a locked day.               *)
LEMMA SeatSet ==
  ASSUME DayInv, UNCHANGED <<close, paid, declared, today>>, seat' \in [Seats -> Seat],
         \A y \in Seats : seat'[y] # NoSeat => seat'[y].day <= today,
         \A y \in Seats, d \in Dates :
           LockedInTime(d) /\ seat'[y].status = "OPEN" /\ seat'[y].day <= d =>
             seat'[y].day = d /\ seat'[y].ticket = "NONE"
  PROVE  DayTypes' /\ Begun' /\ LockHolds'
<1>1. DayTypes' /\ Begun'
  BY DEF DayInv, DayTypes, Begun
<1>2. \A d \in Dates : CashSales(d)' = CashSales(d) /\ (Undropped(d) = 0 => Undropped(d)' = 0)
  <2>1. \A d \in Dates : declared'[d] >= declared[d]
    BY DEF DayInv, DayTypes
  <2>2. DayTypes /\ \A p \in Payments : paid'[p] = paid[p]
    BY DEF DayInv
  <2>. QED  BY <1>1, <2>1, <2>2, DayStays
<1>3. LockHolds'
  BY <1>2 DEF DayInv, LockHolds, LockedInTime
<1>. QED  BY <1>1, <1>3

(* A locked day has no open session that began before it.                  *)
LEMMA LockedSeats ==
  ASSUME DayInv, NEW y \in Seats, seat[y].status = "OPEN", NEW d \in Dates, LockedInTime(d),
         seat[y].day <= d
  PROVE  seat[y].day = d /\ seat[y].ticket = "NONE"
  BY DEF DayInv, LockHolds

(* One session changes.                                                    *)
LEMMA OneSeat ==
  ASSUME DayInv, UNCHANGED <<close, paid, declared, today>>,
         NEW x \in Seats, NEW r \in SeatRow, seat' = [seat EXCEPT ![x] = r], r.day <= today,
         \A d \in Dates : LockedInTime(d) /\ r.status = "OPEN" /\ r.day <= d =>
           r.day = d /\ r.ticket = "NONE"
  PROVE  DayTypes' /\ Begun' /\ LockHolds'
<1>1. /\ seat' \in [Seats -> Seat] /\ seat'[x] = r
      /\ \A y \in Seats : y # x => seat'[y] = seat[y]
  BY DayRows DEF DayInv, DayTypes
<1>2. \A y \in Seats : seat'[y] # NoSeat => seat'[y].day <= today
  BY <1>1 DEF DayInv, Begun
<1>3. \A y \in Seats, d \in Dates :
        LockedInTime(d) /\ seat'[y].status = "OPEN" /\ seat'[y].day <= d =>
          seat'[y].day = d /\ seat'[y].ticket = "NONE"
  BY <1>1, LockedSeats
<1>. QED  BY <1>1, <1>2, <1>3, SeatSet

(* The session is there, and what it becomes.                              *)
LEMMA SeatKnown ==
  ASSUME DayInv, NEW x \in Seats, seat[x] # NoSeat
  PROVE  seat[x] \in SeatRow /\ seat[x].day <= today
  BY DayRows DEF DayInv, DayTypes, Begun

(* Nothing is in flight while the floor moves.                             *)
LEMMA FloorMoves ==
  ASSUME Serial, DayInv, Quiet, UNCHANGED <<till, waiting, handler, crashes>>,
         today' \in Nat, DayTypes', Begun', LockHolds'
  PROVE  DayInv'
<1>1. \A g \in Handlers : handler'[g] = Idle
  BY DEF Quiet
<1>2. DayReadsHold'
  BY <1>1, IdleToday, Unread DEF DayReadsHold
<1>3. ReadsHold'
  BY <1>1, IdleToday DEF ReadsHold
<1>4. Types' /\ ShiftsInOrder' /\ DrawersHaveShifts' /\ OneOnShift'
  BY Unwritten DEF DayInv, TillInv, Types, TypeOK
<1>. QED  BY <1>2, <1>3, <1>4 DEF DayInv, TillInv

(* A session begins, ends, or is served.                                   *)
LEMMA Sits ==
  ASSUME Serial, DayInv, NEW x \in Seats, StartSession(x) \/ CloseSession(x) \/ Serve(x)
  PROVE  DayInv'
<1>1. Quiet /\ UNCHANGED <<till, waiting, handler, today, crashes, close, paid, declared>>
  BY DEF StartSession, CloseSession, Serve
<1>2. today' \in Nat
  BY <1>1 DEF DayInv, TillInv, Types, TypeOK
<1>3. UNCHANGED <<till, waiting, handler, crashes>> /\ UNCHANGED <<close, paid, declared, today>>
  BY <1>1
<1>4. CASE StartSession(x)
  <2>. DEFINE r == [status |-> "OPEN", day |-> today, ticket |-> "NONE", lock |-> NULL]
  <2>1. seat' = [seat EXCEPT ![x] = r]
    BY <1>4 DEF StartSession
  <2>2. r \in SeatRow /\ r.day = today /\ r.ticket = "NONE" /\ today \in Int
    BY DEF SeatRow, DayInv, DayTypes, Dates
  <2>. HIDE DEF r
  <2>3. \A d \in Dates : LockedInTime(d) => d <= today /\ d \in Int
    BY DEF DayInv, Begun, LockedInTime, DayTypes, Dates
  <2>4. r.day <= today /\ \A d \in Dates :
          LockedInTime(d) /\ r.status = "OPEN" /\ r.day <= d => r.day = d /\ r.ticket = "NONE"
    BY <2>2, <2>3
  <2>5. DayTypes' /\ Begun' /\ LockHolds'
    BY <1>3, <2>1, <2>2, <2>4, OneSeat
  <2>. QED  BY <1>1, <1>2, <1>3, <2>5, FloorMoves
<1>5. CASE CloseSession(x)
  <2>. DEFINE r == [seat[x] EXCEPT !.status = "CLOSED"]
  <2>1. seat' = [seat EXCEPT ![x] = r] /\ seat[x] # NoSeat
    BY <1>5 DEF CloseSession, NoSeat
  <2>2. r \in SeatRow /\ r.day <= today /\ r.status # "OPEN"
    BY <2>1, SeatKnown DEF SeatRow
  <2>. HIDE DEF r
  <2>3. DayTypes' /\ Begun' /\ LockHolds'
    BY <1>3, <2>1, <2>2, OneSeat
  <2>. QED  BY <1>1, <1>2, <1>3, <2>3, FloorMoves
<1>6. CASE Serve(x)
  <2>. DEFINE r == [seat[x] EXCEPT !.ticket = "SERVED"]
  <2>1. seat' = [seat EXCEPT ![x] = r] /\ seat[x] # NoSeat /\ seat[x].ticket = "OPEN"
    BY <1>6 DEF Serve
  <2>2. r \in SeatRow /\ r.day <= today /\ r.status = seat[x].status /\ r.day = seat[x].day
    BY <2>1, SeatKnown DEF SeatRow
  <2>. HIDE DEF r
  <2>3. \A d \in Dates : LockedInTime(d) /\ r.status = "OPEN" => ~(r.day <= d)
    BY <2>1, <2>2, LockedSeats
  <2>4. DayTypes' /\ Begun' /\ LockHolds'
    BY <1>3, <2>1, <2>2, <2>3, OneSeat
  <2>. QED  BY <1>1, <1>2, <1>3, <2>4, FloorMoves
<1>. QED  BY <1>4, <1>5, <1>6

(* abandonOpenKitchenTickets.                                              *)
LEMMA Abandons ==
  ASSUME Serial, DayInv, NEW h \in Handlers, AbandonCommit(h)
  PROVE  DayInv'
<1>1. PICK q \in Request : handler[h] = q /\ StillToday(q) /\ q.pc = "abandoning"
  BY DayRead DEF AbandonCommit, In
<1>2. PICK d \in Dates : d = q.day /\ close[d] # NoClose
  BY <1>1, DayHeld DEF StillToday
<1>. DEFINE p == [pc |-> "reading", day |-> d]
<1>3. q = [pc |-> "abandoning", day |-> d]
  BY <1>1, <1>2 DEF Request, TillRequest, DayRequest, Idle
<1>4. /\ seat' = Abandoned(d) /\ Becomes(h, p) /\ UNCHANGED <<till, waiting, close, paid, declared>>
  BY <1>1, <1>2, <1>3 DEF AbandonCommit
<1>5. ASSUME NEW y \in Seats
      PROVE  \/ seat'[y] = seat[y]
             \/ /\ seat[y] # NoSeat /\ seat[y].ticket = "OPEN" /\ seat'[y] \in SeatRow
                /\ seat'[y].status = seat[y].status /\ seat'[y].day = seat[y].day
  <2>1. CASE seat[y] # NoSeat /\ seat[y].ticket = "OPEN"
    <3>. DEFINE r == [seat[y] EXCEPT !.ticket = "CANCELLED", !.lock = d]
    <3>1. seat'[y] = r
      BY <1>4, <2>1 DEF Abandoned
    <3>2. r \in SeatRow /\ r.status = seat[y].status /\ r.day = seat[y].day
      BY <2>1, SeatKnown DEF SeatRow
    <3>. HIDE DEF r
    <3>. QED  BY <2>1, <3>1, <3>2
  <2>2. CASE ~(seat[y] # NoSeat /\ seat[y].ticket = "OPEN")
    BY <1>4, <2>2 DEF Abandoned
  <2>. QED  BY <2>1, <2>2
<1>6. seat' \in [Seats -> Seat]
  <2>1. \A y \in Seats : seat'[y] \in Seat
    BY <1>5, DayRows DEF DayInv, DayTypes
  <2>2. seat' = [y \in Seats |-> seat'[y]]
    BY <1>4 DEF Abandoned
  <2>. QED  BY <2>1, <2>2
<1>7. \A y \in Seats : seat'[y] # NoSeat => seat'[y].day <= today
  BY <1>5, SeatKnown
<1>8. \A y \in Seats, e \in Dates :
        LockedInTime(e) /\ seat'[y].status = "OPEN" /\ seat'[y].day <= e =>
          seat'[y].day = e /\ seat'[y].ticket = "NONE"
  BY <1>5, LockedSeats
<1>9. UNCHANGED <<close, paid, declared, today>> /\ waiting' \in 0..MaxCash /\ UNCHANGED till
  BY <1>4 DEF Becomes, DayInv, TillInv, Types, TypeOK
<1>10. DayTypes' /\ Begun' /\ LockHolds'
  BY <1>6, <1>7, <1>8, <1>9, SeatSet
<1>11. p \in DayRequest
  BY DEF DayRequest
<1>12. StillToday(p)'
  BY <1>2, <1>9 DEF StillToday
<1>13. Becomes(h, p)
  BY <1>4
<1>. HIDE DEF p
<1>14. p \in Request /\ p.pc \in DayPcs
  BY <1>11, DayHeld
<1>15. TillInv'
  BY <1>9, <1>13, <1>14, TillUntouched DEF DayInv
<1>. QED  BY <1>10, <1>12, <1>13, <1>14, <1>15, DayGoes

(* The end of a request of the floor.                                      *)
LEMMA FloorEnds ==
  ASSUME Serial, DayInv, NEW h \in Handlers, Ends(h), UNCHANGED till, waiting' \in 0..MaxCash,
         DayTypes', Begun', LockHolds'
  PROVE  DayInv'
<1>1. TillInv'
  BY IdleToday, TillUntouched DEF DayInv, Ends, Idle
<1>. QED  BY <1>1, IdleToday, Unread, DayGoes DEF Ends

(* Orders: the session is open and its day is not locked.                  *)
LEMMA Orders ==
  ASSUME Serial, DayInv, NEW h \in Handlers, OrderCommit(h)
  PROVE  DayInv'
<1>1. PICK q \in Request : handler[h] = q /\ StillToday(q) /\ q.pc = "ordering"
  BY DayRead DEF OrderCommit, In
<1>2. PICK x \in Seats : x = q.seat /\ seat[x].status = "OPEN" /\ NotLocked(seat[x].day)
  BY <1>1, DayHeld DEF StillToday
<1>. DEFINE r == [seat[x] EXCEPT !.ticket = "OPEN"]
<1>3. seat' = [seat EXCEPT ![x] = r] /\ Ends(h) /\ UNCHANGED <<till, waiting, close, paid, declared>>
  BY <1>1, <1>2 DEF OrderCommit
<1>4. seat[x] # NoSeat
  BY <1>2 DEF NoSeat
<1>5. r \in SeatRow /\ r.day <= today /\ r.day = seat[x].day
  BY <1>4, SeatKnown DEF SeatRow
<1>. HIDE DEF r
<1>6. \A d \in Dates : LockedInTime(d) => ~(r.day <= d)
  BY <1>2, <1>5, LockedSeats DEF NotLocked, LockedInTime
<1>7. UNCHANGED <<close, paid, declared, today>> /\ waiting' \in 0..MaxCash /\ UNCHANGED till
  BY <1>3 DEF Ends, Becomes, DayInv, TillInv, Types, TypeOK
<1>8. DayTypes' /\ Begun' /\ LockHolds'
  BY <1>3, <1>5, <1>6, <1>7, OneSeat
<1>. QED  BY <1>3, <1>7, <1>8, FloorEnds

(* Payments: they count for the day of the session and for today, and none *)
(* of the two is locked.                                                   *)
LEMMA Pays ==
  ASSUME Serial, DayInv, NEW h \in Handlers, PayCommit(h)
  PROVE  DayInv'
<1>1. PICK q \in Request : handler[h] = q /\ StillToday(q) /\ q.pc = "paying"
  BY DayRead DEF PayCommit, In
<1>2. PICK x \in Seats : x = q.seat /\ seat[x].status = "OPEN" /\ NotLocked(seat[x].day)
  BY <1>1, DayHeld DEF StillToday
<1>3. seat[x] \in SeatRow /\ seat[x].day <= today
  BY <1>2, SeatKnown DEF NoSeat
<1>4. PICK e \in Dates : e = seat[x].day
  BY <1>3 DEF SeatRow
<1>w. PICK w \in Dates : w = q.shift
  BY <1>1, DayHeld
<1>. DEFINE at == <<e, today, w>>
<1>5. /\ paid' = [paid EXCEPT ![at] = paid[at] + 1]
      /\ Ends(h) /\ UNCHANGED <<till, waiting, close, seat, declared>>
  BY <1>1, <1>2, <1>4, <1>w DEF PayCommit
<1>6. UNCHANGED <<close, seat, declared, today>> /\ waiting' \in 0..MaxCash /\ UNCHANGED till
  BY <1>5 DEF Ends, Becomes, DayInv, TillInv, Types, TypeOK
<1>7. at \in Payments /\ at[1] = e /\ at[2] = today
  BY DEF Payments, DayInv, DayTypes
<1>. HIDE DEF at
<1>8. /\ paid' \in [Payments -> Nat]
      /\ \A p \in Payments : p # at => paid'[p] = paid[p]
  BY <1>5, <1>7 DEF DayInv, DayTypes
<1>9. DayTypes' /\ Begun'
  BY <1>6, <1>8 DEF DayInv, DayTypes, Begun
<1>10. ASSUME NEW d \in Dates, LockedInTime(d)
       PROVE  CashSales(d)' = CashSales(d) /\ (Undropped(d) = 0 => Undropped(d)' = 0)
  <2>1. d # e
    BY <1>2, <1>4, <1>10 DEF NotLocked, LockedInTime
  <2>2. d # today
    BY <1>2, <1>3, <1>4, <1>10, <2>1, LockedSeats
  <2>3. \A p \in Payments : OfDay(p, d) => paid'[p] = paid[p]
    BY <1>7, <1>8, <2>1, <2>2 DEF OfDay
  <2>4. declared'[d] >= declared[d] /\ DayTypes
    BY <1>6 DEF DayInv, DayTypes
  <2>. QED  BY <1>9, <2>3, <2>4, DayStays
<1>11. LockHolds'
  BY <1>6, <1>10 DEF DayInv, LockHolds, LockedInTime
<1>. QED  BY <1>5, <1>6, <1>9, <1>11, FloorEnds

(* Drops.                                                                  *)
LEMMA Drops ==
  ASSUME Serial, DayInv, NEW h \in Handlers, DeclareCommit(h)
  PROVE  DayInv'
<1>1. PICK q \in Request : handler[h] = q /\ StillToday(q) /\ q.pc = "declaring"
  BY DayRead DEF DeclareCommit, In
<1>2. PICK e \in Dates : e = q.day /\ waiting < MaxCash
  BY <1>1, DayHeld DEF StillToday
<1>3. /\ declared' = [declared EXCEPT ![e] = declared[e] + 1] /\ waiting' = waiting + 1
      /\ Ends(h) /\ UNCHANGED <<till, close, seat, paid>>
  BY <1>1, <1>2 DEF DeclareCommit
<1>4. UNCHANGED <<close, seat, paid, today>> /\ waiting' \in 0..MaxCash /\ UNCHANGED till
  BY <1>2, <1>3, DrawerAssumption DEF Ends, Becomes, DayInv, TillInv, Types, TypeOK
<1>5. declared' \in [Dates -> Nat] /\ \A d \in Dates : declared'[d] >= declared[d]
  BY <1>3 DEF DayInv, DayTypes
<1>6. DayTypes' /\ Begun'
  BY <1>4, <1>5 DEF DayInv, DayTypes, Begun
<1>7. \A d \in Dates : CashSales(d)' = CashSales(d) /\ (Undropped(d) = 0 => Undropped(d)' = 0)
  <2>1. DayTypes /\ \A p \in Payments : paid'[p] = paid[p]
    BY <1>4 DEF DayInv
  <2>. QED  BY <1>5, <1>6, <2>1, DayStays
<1>8. LockHolds'
  BY <1>4, <1>7 DEF DayInv, LockHolds, LockedInTime
<1>. QED  BY <1>3, <1>4, <1>6, <1>8, FloorEnds

(* What is read for them.                                                  *)
LEMMA ReadsFloor ==
  ASSUME Serial, DayInv, NEW h \in Handlers
  PROVE  /\ \A x \in Seats : OrderLoad(h, x) => DayInv'
         /\ \A x \in Seats, w \in Dates : PayLoad(h, x, w) => DayInv'
         /\ \A w \in Dates : DeclareLoad(h, w) => DayInv'
<1>1. ASSUME NEW x \in Seats, OrderLoad(h, x) PROVE DayInv'
  <2>. DEFINE q == [pc |-> "ordering", seat |-> x]
  <2>1. q \in DayRequest /\ StillToday(q) /\ Enters(h, q)
    BY <1>1 DEF OrderLoad, DayRequest, StillToday
  <2>. HIDE DEF q
  <2>. QED  BY <2>1, DayLoading
<1>2. ASSUME NEW x \in Seats, NEW w \in Dates, PayLoad(h, x, w) PROVE DayInv'
  <2>. DEFINE q == [pc |-> "paying", seat |-> x, shift |-> w]
  <2>1. q \in DayRequest /\ StillToday(q) /\ Enters(h, q)
    BY <1>2 DEF PayLoad, DayRequest, StillToday
  <2>. HIDE DEF q
  <2>. QED  BY <2>1, DayLoading
<1>3. ASSUME NEW w \in Dates, DeclareLoad(h, w) PROVE DayInv'
  <2>. DEFINE q == [pc |-> "declaring", day |-> w]
  <2>1. q \in DayRequest /\ StillToday(q) /\ Enters(h, q)
    BY <1>3 DEF DeclareLoad, DayRequest, StillToday
  <2>. HIDE DEF q
  <2>. QED  BY <2>1, DayLoading
<1>. QED  BY <1>1, <1>2, <1>3

(* The next day begins.                                                    *)
LEMMA Midnights ==
  ASSUME Serial, DayInv, Midnight
  PROVE  DayInv'
<1>1. /\ Quiet /\ today < Days /\ today' = today + 1
      /\ UNCHANGED <<till, waiting, handler, crashes>> /\ UNCHANGED <<close, seat, paid, declared>>
  BY DEF Midnight, floor
<1>2. today' \in Dates /\ today' \in Nat /\ today \in Dates
  BY <1>1, CloseAssumption DEF DayInv, DayTypes, Dates
<1>3. DayTypes'
  BY <1>1, <1>2 DEF DayInv, DayTypes
<1>4. Begun'
  <2>1. (\A d \in Dates : d <= today => d <= today') /\ 1..today \subseteq 1..today'
    BY <1>1, <1>2 DEF Dates
  <2>2. \A x \in Seats : seat[x] # NoSeat => seat[x].day \in Dates
    BY SeatKnown DEF SeatRow
  <2>. QED  BY <1>1, <2>1, <2>2 DEF DayInv, Begun
<1>5. \A d \in Dates : CashSales(d)' = CashSales(d) /\ (Undropped(d) = 0 => Undropped(d)' = 0)
  <2>1. \A d \in Dates : declared'[d] >= declared[d]
    BY <1>1 DEF DayInv, DayTypes
  <2>2. DayTypes /\ \A p \in Payments : paid'[p] = paid[p]
    BY <1>1 DEF DayInv
  <2>. QED  BY <1>3, <2>1, <2>2, DayStays
<1>6. LockHolds'
  BY <1>1, <1>5 DEF DayInv, LockHolds, LockedInTime
<1>. QED  BY <1>1, <1>2, <1>3, <1>4, <1>6, FloorMoves
-----------------------------------------------------------------------------
(* A request about a drawer stays one.                                     *)
LEMMA TillOnly ==
  ASSUME TillInv, NEW h \in Handlers, TillStep(h)
  PROVE  today' = today /\ handler'[h].pc \notin DayPcs
<1>0. DOMAIN handler = Handlers
  BY DEF TillInv, Types, TypeOK
<1>1. ASSUME Attending(h) PROVE today' = today /\ handler'[h].pc \notin DayPcs
  <2>1. CASE \/ ClockInCommit(h) \/ EnsureLoad(h) \/ EnsureCommit(h) \/ \E c \in Cashiers : ClockInLoad(h, c)
    BY <1>0, <2>1 DEF ClockInLoad, ClockInCommit, EnsureLoad, EnsureCommit, Loads, Becomes, Ends, Idle, DayPcs
  <2>2. CASE \/ ShutLoad(h) \/ ShutCommit(h) \/ ClockOutCommit(h) \/ \E s \in Shifts : ClockOutLoad(h, s)
    BY <1>0, <2>2 DEF ClockOutLoad, ShutLoad, ShutCommit, ClockOutCommit, Loads, Becomes, Ends, Idle, DayPcs
  <2>. QED  BY <1>1, <2>1, <2>2 DEF Attending
<1>2. ASSUME Receiving(h) \/ Crash(h) PROVE today' = today /\ handler'[h].pc \notin DayPcs
  BY <1>0, <1>2 DEF Receiving, ReceiveLoad, ReceiveCommit, Crash, Loads, Becomes, Ends, Idle, DayPcs
<1>3. ASSUME Counting(h) PROVE today' = today /\ handler'[h].pc \notin DayPcs
  <2>1. CASE SubmitCommit(h) \/ ReviewCommit(h) \/ PreviewCommit(h)
    BY <1>0, <2>1 DEF SubmitCommit, ReviewCommit, PreviewCommit, Becomes, Ends, Idle, DayPcs
  <2>2. ASSUME NEW s \in Shifts,
               \/ \E n \in 0..MaxCash : SubmitLoad(h, s, n)
               \/ \E verdict \in {"APPROVED", "FLAGGED"} : ReviewLoad(h, s, verdict)
               \/ PreviewOpens(h, s) \/ PreviewLoad(h, s)
        PROVE  today' = today /\ handler'[h].pc \notin DayPcs
    BY <1>0, <2>2 DEF SubmitLoad, ReviewLoad, PreviewOpens, PreviewLoad, Loads, Idle, DayPcs
  <2>. QED  BY <1>3, <2>1, <2>2 DEF Counting
<1>4. ASSUME Ending(h) PROVE today' = today /\ handler'[h].pc \notin DayPcs
  <2>1. CASE HandoverCommit(h)
    BY <1>0, <2>1 DEF HandoverCommit, Becomes, Ends, Idle, DayPcs
  <2>2. CASE ForceCloseCommit(h)
    BY <1>0, <2>2 DEF ForceCloseCommit, Becomes, Ends, Idle, DayPcs
  <2>3. ASSUME NEW s \in Shifts, NEW n \in 0..MaxCash, NEW c \in Cashiers, NEW f \in 0..MaxCash,
               HandoverLoad(h, s, c, n, f)
        PROVE  today' = today /\ handler'[h].pc \notin DayPcs
    BY <1>0, <2>3 DEF HandoverLoad, Loads, DayPcs
  <2>4. ASSUME NEW s \in Shifts, NEW n \in 0..MaxCash, NEW deposit \in BOOLEAN,
               ForceCloseLoad(h, s, n, deposit)
        PROVE  today' = today /\ handler'[h].pc \notin DayPcs
    BY <1>0, <2>4 DEF ForceCloseLoad, Loads, DayPcs
  <2>. QED  BY <1>4, <2>1, <2>2, <2>3, <2>4 DEF Ending
<1>. QED  BY <1>1, <1>2, <1>3, <1>4 DEF TillStep

(* The drawers go on.                                                      *)
LEMMA TillGoesOn ==
  ASSUME Serial, DayInv, NEW h \in Handlers, TillStep(h), UNCHANGED <<close, floor>>
  PROVE  DayInv'
<1>1. TillInv'
  BY TillKeeps DEF DayInv, TillNext
<1>2. today' = today /\ handler'[h].pc \notin DayPcs
  BY TillOnly DEF DayInv
<1>3. DayTypes' /\ Begun' /\ LockHolds'
  BY <1>2, FloorUnwritten
<1>4. \A g \in Handlers : g = h
  BY DEF Serial
<1>5. DayReadsHold'
  BY <1>2, <1>4, Unread DEF DayReadsHold
<1>. QED  BY <1>1, <1>3, <1>5 DEF DayInv

(* A branch that has just been set up.                                     *)
LEMMA DaySetUp == CloseInit => DayInv
<1>. SUFFICES ASSUME CloseInit PROVE DayInv
  OBVIOUS
<1>1. TillInv /\ today = 1 /\ \A h \in Handlers : handler[h] = Idle
  BY SetUp DEF CloseInit, TillInit
<1>2. DayTypes
  BY <1>1, CloseAssumption DEF CloseInit, DayTypes, Close, Seat, Dates
<1>3. Begun /\ LockHolds
  BY DEF CloseInit, Begun, LockHolds, LockedInTime, NoClose
<1>4. DayReadsHold
  BY <1>1, IdleToday, Unread DEF DayReadsHold
<1>. QED  BY <1>1, <1>2, <1>3, <1>4 DEF DayInv

(* Every step of the day keeps the invariant.                              *)
LEMMA DayKeeps ==
  ASSUME Serial, DayInv, [CloseNext]_closeVars
  PROVE  DayInv'
<1>1. CASE UNCHANGED closeVars
  <2>1. UNCHANGED tillVars /\ UNCHANGED <<close, floor, today>> /\ UNCHANGED <<waiting, handler>>
    BY <1>1 DEF closeVars, tillVars
  <2>2. TillInv' /\ DayTypes' /\ Begun' /\ LockHolds'
    BY <2>1, TillKeeps, FloorUnwritten DEF DayInv
  <2>3. DayReadsHold'
    BY <2>1, FloorUnwritten DEF DayInv, DayReadsHold
  <2>. QED  BY <2>2, <2>3 DEF DayInv
<1>2. ASSUME NEW h \in Handlers, Closing(h) PROVE DayInv'
  BY <1>2, ReadsDay, ClosesDay, Abandons, Snapshots DEF Closing
<1>3. ASSUME NEW h \in Handlers, Serving(h) PROVE DayInv'
  BY <1>3, Sits, ReadsFloor, Orders, Pays, Drops DEF Serving
<1>. QED  BY <1>1, <1>2, <1>3, Midnights, TillGoesOn DEF CloseNext, DayStep

(* The inductive invariant of the day holds.                               *)
LEMMA DayInvHolds ==
  ASSUME Serial
  PROVE  CloseSpec => []DayInv
<1>1. DayInv /\ [CloseNext]_closeVars => DayInv'
  BY DayKeeps
<1>. QED  BY <1>1, DaySetUp, PTL DEF CloseSpec

-----------------------------------------------------------------------------
(* The tables of shifts, drawers and reconciliations hold rows of their    *)
(* types.                                                                  *)
THEOREM TypesHold ==
  ASSUME Serial
  PROVE  (TillSpec => []TypeOK) /\ (CloseSpec => []TypeOK)
<1>1. TillInv => TypeOK
  BY DEF TillInv, Types
<1>2. DayInv => TillInv
  BY DEF DayInv
<1>. QED  BY <1>1, <1>2, TillInvHolds, DayInvHolds, PTL

(* At most one cashier is on shift and only that shift has a drawer that   *)
(* is open or waits for its count (clockIn, ensureCashierDrawer, handover, *)
(* clockOut), whatever the database and wherever a request dies.           *)
THEOREM OneCashierHolds ==
  ASSUME Serial
  PROVE  (TillSpec => []OneCashier) /\ (CloseSpec => []OneCashier)
<1>1. TillInv => OneCashier
  <2>. SUFFICES ASSUME TillInv PROVE OneCashier
    OBVIOUS
  <2>. DEFINE S == {s \in Shifts : OpenShift(s)}
  <2>1. \A s, t \in S : s = t
    BY DEF TillInv, OneOnShift
  <2>2. Cardinality(S) <= 1
    <3>1. CASE S = {}
      BY <3>1, FS_EmptySet
    <3>2. CASE S # {}
      <4>1. PICK s : S = {s}
        BY <2>1, <3>2
      <4>. QED  BY <4>1, FS_Singleton
    <3>. QED  BY <3>1, <3>2
  <2>3. \A s \in Shifts : drawer[s].status \in Countable => OpenShift(s)
    BY Counts
  <2>. QED  BY <2>2, <2>3 DEF OneCashier, OpenShift
<1>2. DayInv => TillInv
  BY DEF DayInv
<1>. QED  BY <1>1, <1>2, TillInvHolds, DayInvHolds, PTL

(* A drawer is closed only when it was counted, against what was in it, or *)
(* when nothing was in it (closeCashierDrawerIfNeeded, submit, review,     *)
(* handover, managerForceCloseCashierDrawer).                              *)
THEOREM NothingUncountedHolds ==
  ASSUME Serial
  PROVE  (TillSpec => []NothingUncounted) /\ (CloseSpec => []NothingUncounted)
<1>1. TillInv => NothingUncounted
  <2>. SUFFICES ASSUME TillInv, NEW s \in Shifts
       PROVE  /\ drawer[s].status = "CLOSED" => LiveExpectedCash(s) = 0
              /\ drawer[s].status = "RECONCILED" =>
                   recon[s] # NoRecon /\ drawer[s].float + drawer[s].drops = recon[s].expected
    BY DEF NothingUncounted
  <2>1. drawer[s].status \in {"CLOSED", "RECONCILED"} => Opened(s)
    BY DEF Opened, NoDrawer
  <2>2. InOrder(OpenShift(s), drawer[s], recon[s])
    BY Ordered DEF TillInv
  <2>. QED  BY <2>1, <2>2 DEF InOrder, Opened, LiveExpectedCash
<1>2. DayInv => TillInv
  BY DEF DayInv
<1>. QED  BY <1>1, <1>2, TillInvHolds, DayInvHolds, PTL

(* The tables of the day's close and of its floor hold rows of their types.*)
THEOREM CloseTypesHold ==
  ASSUME Serial
  PROVE  CloseSpec => []CloseTypeOK
<1>1. DayInv => CloseTypeOK
  BY DEF DayInv, DayTypes, TillInv, Types, CloseTypeOK
<1>. QED  BY <1>1, DayInvHolds, PTL

(* A day that had begun when it was locked stays as its report says,       *)
(* whatever is ordered, paid and dropped afterwards, by whomever and on    *)
(* whichever day (buildSnapshot, lock, assertBusinessDayNotLocked).        *)
THEOREM LockHoldsAlways ==
  ASSUME Serial
  PROVE  CloseSpec => []LockHolds
<1>1. DayInv => LockHolds
  BY DEF DayInv
<1>. QED  BY <1>1, DayInvHolds, PTL
=============================================================================
