----------------------------- MODULE CashierDrawer -----------------------------
(***************************************************************************)
(* The cashiers of one branch and their drawers: clocking in and out,      *)
(* handing over, counting and review (src/shifts/shifts.service.ts,        *)
(* src/reconciliation/reconciliation.service.ts).                          *)
(*                                                                         *)
(* A shift has at most one drawer, which goes by the id of the shift.      *)
(* Every received drop is one unit of cash.  A handler reads, checks and   *)
(* then writes by id; handler[h] is what it has read.  Clocking in and out *)
(* are each two writes that are not one transaction.                       *)
(***************************************************************************)
EXTENDS Integers, FiniteSets

CONSTANTS Cashiers,   \* tenant_staff_memberships with the role CASHIER
          Shifts,     \* ids of their shift_sessions
          Handlers,   \* HTTP requests being handled at the same time
          MaxCash,    \* bound: cash in a drawer, and drops declared
          Migrated,   \* whether the database has the constraints
          NULL        \* the SQL null

ASSUME DrawerAssumption ==
  MaxCash \in Nat /\ Migrated \in BOOLEAN /\ NULL \notin Cashiers \cup Shifts

VARIABLES
  shift,     \* shift_sessions
  drawer,    \* cashier_financial_sessions with the sums of their ledger entries
  recon,     \* cashier_reconciliations, by drawer
  waiting,   \* number of cash_drops that are INITIATED
  handler,   \* the requests in flight, with what each has read
  today,     \* the business date of Africa/Addis_Ababa
  crashes    \* whether handlers may die half-way

till == <<shift, drawer, recon>>
-----------------------------------------------------------------------------
NoShift == [state |-> "NONE"]
NoDrawer == [status |-> "NONE"]
NoRecon == [status |-> "NONE"]
Idle == [pc |-> "idle"]

Shift == {NoShift} \cup [state : {"OPEN", "CLOSED"}, cashier : Cashiers, day : Nat]
Drawer == {NoDrawer} \cup
  [status : {"OPEN", "RECONCILIATION_PENDING", "RECONCILED", "CLOSED"}, closed : BOOLEAN,
   float : 0..MaxCash, drops : Nat, out : Nat, day : Nat]
Recon == {NoRecon} \cup
  [status : {"SUBMITTED", "APPROVED", "FLAGGED"}, expected : Int, counted : Nat]

(* The tables hold rows of their types.                                    *)
TypeOK ==
  /\ shift \in [Shifts -> Shift] /\ drawer \in [Shifts -> Drawer] /\ recon \in [Shifts -> Recon]
  /\ waiting \in 0..MaxCash /\ today \in Nat /\ crashes \in BOOLEAN
  /\ DOMAIN handler = Handlers

TillInit ==
  /\ shift = [s \in Shifts |-> NoShift] /\ drawer = [s \in Shifts |-> NoDrawer]
  /\ recon = [s \in Shifts |-> NoRecon]
  /\ waiting = 0 /\ today = 1 /\ crashes \in BOOLEAN
  /\ handler = [h \in Handlers |-> Idle]

Loads(h, q) ==
  /\ handler[h] = Idle /\ handler' = [handler EXCEPT ![h] = q]
  /\ UNCHANGED <<till, waiting, today, crashes>>
Becomes(h, q) == handler' = [handler EXCEPT ![h] = q] /\ UNCHANGED <<today, crashes>>
Ends(h) == Becomes(h, Idle)
In(h, pc) == handler[h].pc = pc

(* liveExpectedCash and computeExpected: the sum of the ledger, the float  *)
(* taken from the session.                                                 *)
LiveExpectedCash(s) == drawer[s].float + drawer[s].drops - drawer[s].out

OnShift(c) == {s \in Shifts : shift[s].state = "OPEN" /\ shift[s].cashier = c}
OpenDrawers(c) ==
  {s \in Shifts : drawer[s].status = "OPEN" /\ shift[s].cashier = c}
(* uq_cashier_financial_sessions__one_open.                                *)
Unclosed(c) == {s \in Shifts : drawer[s] # NoDrawer /\ ~drawer[s].closed /\ shift[s].cashier = c}
OneOpen(c, s) == Migrated => Unclosed(c) \subseteq {s}
NewDrawer(float) ==
  [status |-> "OPEN", closed |-> FALSE, float |-> float, drops |-> 0, out |-> 0, day |-> today]
Free == {s \in Shifts : shift[s] = NoShift}
-----------------------------------------------------------------------------
(* clockIn of a cashier: refused while another cashier is on shift.        *)
NobodyElse(c) == \A d \in Cashiers \ {c} : OnShift(d) = {}
(* Mutant: nobody asks who else is on shift.                               *)
MayClockInAnyway(c) == OnShift(c) = {}
MayClockIn(c) == OnShift(c) = {} /\ NobodyElse(c)
ClockInLoad(h, c) ==
  MayClockIn(c) /\ Free # {} /\ Loads(h, [pc |-> "opening", cashier |-> c])

(* uq_shift_sessions__one_open_per_staff_branch answers with the shift     *)
(* that is already there.                                                  *)
ClockInCommit(h) ==
  /\ In(h, "opening")
  /\ LET c == handler[h].cashier IN
       \/ /\ Migrated /\ OnShift(c) # {} /\ Ends(h) /\ UNCHANGED shift
       \/ /\ Migrated => OnShift(c) = {}
          /\ \E s \in Free :
               /\ shift' = [shift EXCEPT ![s] = [state |-> "OPEN", cashier |-> c, day |-> today]]
               /\ Becomes(h, [pc |-> "fitting", shift |-> s])
  /\ UNCHANGED <<drawer, recon, waiting>>

(* ensureCashierDrawer, after the shift was opened: it is refused while a  *)
(* drawer of somebody else is open, which leaves a shift without a drawer. *)
EnsureLoad(h) ==
  /\ In(h, "fitting")
  /\ LET s == handler[h].shift IN
       Becomes(h, IF drawer[s] # NoDrawer
                     \/ \E d \in Cashiers \ {shift[s].cashier} : OpenDrawers(d) # {}
                  THEN Idle ELSE [pc |-> "fitted", shift |-> s])
  /\ UNCHANGED <<till, waiting>>
EnsureCommit(h) ==
  /\ In(h, "fitted")
  /\ LET s == handler[h].shift IN
       drawer' = IF drawer[s] = NoDrawer /\ OneOpen(shift[s].cashier, s)
                 THEN [drawer EXCEPT ![s] = NewDrawer(0)] ELSE drawer
  /\ Ends(h) /\ UNCHANGED <<shift, recon, waiting>>

(* CashCustodyService.initiate: a waiter's drop waits for the cashier.     *)
Initiate ==
  /\ waiting < MaxCash /\ waiting' = waiting + 1
  /\ UNCHANGED <<till, handler, today, crashes>>

(* CashCustodyService.receive: the cashier on shift takes a drop into the  *)
(* open drawer.                                                            *)
ReceiveLoad(h, s) ==
  /\ waiting > 0 /\ shift[s].state = "OPEN" /\ drawer[s].status = "OPEN"
  /\ drawer[s].drops < MaxCash
  /\ Loads(h, [pc |-> "receiving", shift |-> s])
ReceiveCommit(h) ==
  /\ In(h, "receiving")
  /\ IF waiting > 0
     THEN /\ waiting' = waiting - 1
          /\ drawer' = [drawer EXCEPT ![handler[h].shift].drops = @ + 1]
     ELSE UNCHANGED <<waiting, drawer>>
  /\ Ends(h) /\ UNCHANGED <<shift, recon>>
-----------------------------------------------------------------------------
(* closeCashierDrawerIfNeeded: what becomes of the drawer, "stamp" for its *)
(* closing time alone, "refuse" for an error.                              *)
Agrees(s) == LiveExpectedCash(s) = recon[s].expected
Variance(s) == recon[s].counted - recon[s].expected
(* Mutant: the float of a handover is forgotten.                           *)
HasCashDropsOnly(s) == drawer[s].drops > 0
HasCash(s) == drawer[s].float > 0 \/ drawer[s].drops > 0
Shut(s) ==
  CASE drawer[s] = NoDrawer -> "nothing"
    [] drawer[s].status \in {"RECONCILED", "CLOSED"} -> "stamp"
    [] drawer[s].status \in {"OPEN", "RECONCILIATION_PENDING"} /\ recon[s].status = "APPROVED" ->
         IF Agrees(s) THEN "RECONCILED" ELSE "refuse"
    [] drawer[s].status = "RECONCILIATION_PENDING" /\ recon[s].status # "APPROVED" -> "refuse"
    [] drawer[s].status = "OPEN" /\ recon[s].status = "SUBMITTED" /\ Variance(s) = 0 ->
         IF Agrees(s) THEN "RECONCILED" ELSE "refuse"
    [] OTHER -> IF HasCash(s) THEN "refuse" ELSE "CLOSED"

(* clockOut by the cashier and managerForceClockOut: both close the drawer *)
(* first, outside the transaction, then the shift.                         *)
ClockOutLoad(h, s) ==
  shift[s].state = "OPEN" /\ Loads(h, [pc |-> "leaving", shift |-> s])
ShutLoad(h) ==
  /\ In(h, "leaving")
  /\ LET s == handler[h].shift IN
       Becomes(h, IF Shut(s) = "refuse" THEN Idle
                  ELSE [pc |-> "shutting", shift |-> s, to |-> Shut(s)])
  /\ UNCHANGED <<till, waiting>>
ShutCommit(h) ==
  /\ In(h, "shutting")
  /\ LET s == handler[h].shift
         to == handler[h].to IN
       /\ drawer' = CASE to = "nothing" -> drawer
                      [] to = "stamp" -> [drawer EXCEPT ![s].closed = TRUE]
                      [] OTHER -> [drawer EXCEPT ![s].closed = TRUE, ![s].status = to]
       /\ Becomes(h, [pc |-> "left", shift |-> s])
  /\ UNCHANGED <<shift, recon, waiting>>
ClockOutCommit(h) ==
  /\ In(h, "left")
  /\ shift' = [shift EXCEPT ![handler[h].shift].state = "CLOSED"]
  /\ Ends(h) /\ UNCHANGED <<drawer, recon, waiting>>
-----------------------------------------------------------------------------
(* submit: the drawer of any shift of a cashier who is on shift.  One that *)
(* was counted is counted again only if its cash has changed.              *)
Countable == {"OPEN", "RECONCILIATION_PENDING"}
SubmitLoad(h, s, n) ==
  /\ shift[s] # NoShift /\ OnShift(shift[s].cashier) # {}
  /\ drawer[s].status \in Countable
  /\ recon[s] # NoRecon => ~Agrees(s)
  /\ Loads(h, [pc |-> "submitting", shift |-> s, expected |-> LiveExpectedCash(s),
               counted |-> n, known |-> recon[s] # NoRecon])
SubmitCommit(h) ==
  /\ In(h, "submitting")
  /\ LET q == handler[h]
         even == q.counted = q.expected IN
       IF recon[q.shift] # NoRecon /\ ~q.known   \* uq_cashier_reconciliations__session
       THEN UNCHANGED <<recon, drawer>>
       ELSE /\ recon' = [recon EXCEPT ![q.shift] =
                 [status |-> "SUBMITTED", expected |-> q.expected, counted |-> q.counted]]
            /\ drawer' = [drawer EXCEPT ![q.shift].closed = even,
                 ![q.shift].status = IF even THEN "RECONCILED" ELSE "RECONCILIATION_PENDING"]
  /\ Ends(h) /\ UNCHANGED <<shift, waiting>>

(* approve and flag.                                                       *)
Reviewable == {"SUBMITTED", "FLAGGED"}
ReviewLoad(h, s, verdict) ==
  /\ recon[s].status \in Reviewable
  /\ Loads(h, [pc |-> "reviewing", shift |-> s, verdict |-> verdict])
ReviewCommit(h) ==
  /\ In(h, "reviewing")
  /\ LET q == handler[h] IN
       /\ recon' = [recon EXCEPT ![q.shift].status = q.verdict]
       /\ drawer' = IF q.verdict = "APPROVED"
                    THEN [drawer EXCEPT ![q.shift].status = "RECONCILED", ![q.shift].closed = TRUE]
                    ELSE drawer
  /\ Ends(h) /\ UNCHANGED <<shift, waiting>>

(* preview opens a missing drawer, without asking for other drawers, and   *)
(* opens a counted one again when cash has come since.                     *)
PreviewOpens(h, s) ==
  /\ handler[h] = Idle /\ shift[s].state = "OPEN" /\ drawer[s] = NoDrawer
  /\ OneOpen(shift[s].cashier, s)
  /\ drawer' = [drawer EXCEPT ![s] = [NewDrawer(0) EXCEPT !.day = shift[s].day]]
  /\ UNCHANGED <<shift, recon, waiting, handler, today, crashes>>
PreviewLoad(h, s) ==
  /\ shift[s].state = "OPEN" /\ drawer[s].status \in {"RECONCILED", "CLOSED"}
  /\ recon[s] # NoRecon /\ ~Agrees(s)
  /\ Loads(h, [pc |-> "reopening", shift |-> s])
PreviewCommit(h) ==
  /\ In(h, "reopening")
  /\ LET s == handler[h].shift IN
       drawer' = IF OneOpen(shift[s].cashier, s)
                 THEN [drawer EXCEPT ![s].status = "OPEN", ![s].closed = FALSE] ELSE drawer
  /\ Ends(h) /\ UNCHANGED <<shift, recon, waiting>>
-----------------------------------------------------------------------------
(* handover: the next cashier signs with a PIN for n counted, of which f   *)
(* stay in the drawer as a new float and the rest goes to the safe.        *)
HandoverLoad(h, s, c, n, f) ==
  /\ shift[s].state = "OPEN" /\ drawer[s].status = "OPEN"
  /\ OnShift(c) = {} /\ f <= n /\ Free # {}
  /\ Loads(h, [pc |-> "handing", shift |-> s, next |-> c, expected |-> LiveExpectedCash(s),
               counted |-> n, float |-> f])

(* Mutant: the entry is the variance.                                      *)
TakenOutVariance(q) == q.counted - q.expected
TakenOut(q) == q.counted
(* Rows of the ledger are unique by source, entry type and drawer.         *)
HandsOver(q) ==
  Migrated => /\ OnShift(q.next) = {} /\ Unclosed(q.next) = {}
              /\ q.counted > 0 => drawer[q.shift].out = 0
HandoverCommit(h) ==
  /\ In(h, "handing")
  /\ LET q == handler[h] IN
       IF ~HandsOver(q) THEN UNCHANGED till
       ELSE \E new \in Free :
            /\ recon' = [recon EXCEPT ![q.shift] =
                 [status |-> IF q.counted = q.expected THEN "APPROVED" ELSE "SUBMITTED",
                  expected |-> q.expected, counted |-> q.counted]]
            /\ drawer' = [drawer EXCEPT ![q.shift].status = "RECONCILED", ![q.shift].closed = TRUE,
                                        ![q.shift].out = @ + TakenOut(q), ![new] = NewDrawer(q.float)]
            /\ shift' = [shift EXCEPT ![q.shift].state = "CLOSED",
                 ![new] = [state |-> "OPEN", cashier |-> q.next, day |-> today]]
  /\ Ends(h) /\ UNCHANGED waiting

(* managerForceCloseCashierDrawer.  The source type of its safe deposit is *)
(* one the CHECK of the migrated database refuses.                         *)
DrawerOf(s) == IF drawer[s] # NoDrawer THEN {s} ELSE OpenDrawers(shift[s].cashier)
ForceCloseLoad(h, s, n, deposit) ==
  /\ shift[s].state = "OPEN"
  /\ \/ /\ DrawerOf(s) = {}
        /\ Loads(h, [pc |-> "left", shift |-> s])
     \/ \E d \in DrawerOf(s) :
          Loads(h, [pc |-> "forcing", shift |-> s, drawer |-> d, expected |-> LiveExpectedCash(d),
                    counted |-> n, deposit |-> deposit])
ForceCloseCommit(h) ==
  /\ In(h, "forcing")
  /\ LET q == handler[h] IN
       IF Migrated /\ q.deposit /\ q.counted > 0 THEN UNCHANGED till
       ELSE /\ recon' = [recon EXCEPT ![q.drawer] =
                 [status |-> "APPROVED", expected |-> q.expected, counted |-> q.counted]]
            /\ drawer' = [drawer EXCEPT ![q.drawer].status = "RECONCILED", ![q.drawer].closed = TRUE,
                                        ![q.drawer].out = @ + (IF q.deposit THEN q.counted ELSE 0)]
            /\ shift' = [shift EXCEPT ![q.shift].state = "CLOSED"]
  /\ Ends(h) /\ UNCHANGED waiting

Crash(h) ==
  /\ crashes /\ handler[h] # Idle
  /\ Ends(h) /\ UNCHANGED <<till, waiting>>
-----------------------------------------------------------------------------
Attending(h) ==
  \/ \E c \in Cashiers : ClockInLoad(h, c)
  \/ ClockInCommit(h) \/ EnsureLoad(h) \/ EnsureCommit(h)
  \/ \E s \in Shifts : ClockOutLoad(h, s)
  \/ ShutLoad(h) \/ ShutCommit(h) \/ ClockOutCommit(h)
Receiving(h) == ReceiveCommit(h) \/ \E s \in Shifts : ReceiveLoad(h, s)
Counting(h) ==
  \/ \E s \in Shifts :
       \/ \E n \in 0..MaxCash : SubmitLoad(h, s, n)
       \/ \E verdict \in {"APPROVED", "FLAGGED"} : ReviewLoad(h, s, verdict)
       \/ PreviewOpens(h, s) \/ PreviewLoad(h, s)
  \/ SubmitCommit(h) \/ ReviewCommit(h) \/ PreviewCommit(h)
Ending(h) ==
  \/ \E s \in Shifts, n \in 0..MaxCash :
       \/ \E c \in Cashiers, f \in 0..MaxCash : HandoverLoad(h, s, c, n, f)
       \/ \E deposit \in BOOLEAN : ForceCloseLoad(h, s, n, deposit)
  \/ HandoverCommit(h) \/ ForceCloseCommit(h)
TillStep(h) == Attending(h) \/ Receiving(h) \/ Counting(h) \/ Ending(h) \/ Crash(h)

tillVars == <<till, waiting, handler, today, crashes>>
TillNext == Initiate \/ \E h \in Handlers : TillStep(h)
TillSpec == TillInit /\ [][TillNext]_tillVars
-----------------------------------------------------------------------------
(* A drawer that is closed was counted, against what was in it before it   *)
(* was emptied, or has never held cash (closeCashierDrawerIfNeeded, submit,*)
(* review, handover, managerForceCloseCashierDrawer), also when a handler  *)
(* dies.  For one request at a time: see the README for two.               *)
NothingUncounted ==
  \A s \in Shifts :
    /\ drawer[s].status = "CLOSED" => LiveExpectedCash(s) = 0
    /\ drawer[s].status = "RECONCILED" =>
         recon[s] # NoRecon /\ drawer[s].float + drawer[s].drops = recon[s].expected

(* At most one cashier of the branch is on shift, and at most one drawer   *)
(* is open, that of a cashier on shift (clockIn, ensureCashierDrawer,      *)
(* handover).  For one request at a time.                                  *)
OneCashier ==
  /\ Cardinality({s \in Shifts : shift[s].state = "OPEN"}) <= 1
  /\ \A s \in Shifts : drawer[s].status \in Countable => shift[s].state = "OPEN"
=============================================================================
