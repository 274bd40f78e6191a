---------------------------- MODULE CashCustody ----------------------------
(***************************************************************************)
(* The custody of cash in one branch on one business date: waiters collect *)
(* it, drop it at a cashier's drawer, hand it to the next waiter, or are   *)
(* clocked out by a manager (src/cash-custody/cash-custody.service.ts and  *)
(* the waiter half of src/shifts/shifts.service.ts).                       *)
(*                                                                         *)
(* Every handler reads and checks first, each read on its own, and writes  *)
(* in one transaction at the end; the UPDATEs of the transaction select by *)
(* id only, so nothing re-checks what was read.  A request therefore takes *)
(* a "load" step that keeps what it read, and a "commit" step.  The commit *)
(* is atomic, and what the database refuses (unique indexes and CHECKs)    *)
(* rolls all of it back: RolledBack.  A request refused while loading      *)
(* writes nothing and takes no step.                                       *)
(***************************************************************************)
EXTENDS CashLedger, FiniteSets
LOCAL INSTANCE FiniteSetsExt

CONSTANTS Waiters,   \* waiter shift sessions
          Cashiers,  \* cashier shift sessions, each with at most one drawer
          Drops,     \* ids of cash drops
          Requests,  \* HTTP requests in flight, each used once: bounds the run
          Keys,      \* Idempotency-Key header values
          KeyOf,     \* the key a request carries; a retry shares its original's
          Amounts,   \* the amounts of money the staff may type in
          MaxCash,   \* bound on the cash a waiter shift collects
          NULL       \* the SQL null

ASSUME CustodyAssumption ==
  /\ KeyOf \in [Requests -> Keys]
  /\ Amounts \subseteq Nat
  /\ MaxCash \in Nat
  /\ NULL \notin Nat \cup Cashiers \cup Waiters
  /\ Waiters \cap Cashiers = {}

VARIABLES
  shift,      \* state of each waiter shift session: "NONE", "OPEN", "CLOSED"
  collected,  \* SETTLED cash payments each waiter shift has collected
  drop,       \* table cash_drops
  dispute,    \* table cash_drop_disputes, unique per drop
  ledger,     \* table cash_ledger_entries
  drawer,     \* cashier_financial_sessions: "NONE", "OPEN", or "SHUT" for
              \* every other status
  idem,       \* table idempotency_commands
  dayLocked,  \* operational_daily_closes.status is LOCKED
  req         \* the requests, with what each has read so far

vars == <<shift, collected, drop, dispute, ledger, drawer, idem, dayLocked, req>>
-----------------------------------------------------------------------------
NoDrop == [status |-> "NONE", waiter |-> NULL, declared |-> 0, counted |-> NULL,
           resolution |-> NULL, drawer |-> NULL]
NoDispute == [status |-> "NONE", declared |-> 0, counted |-> 0]
Idle == [pc |-> "idle"]

Drop == {NoDrop} \cup
  [status : {"INITIATED", "RECEIVED", "DISPUTED"}, waiter : Waiters,
   declared : Nat \ {0}, counted : Nat \cup {NULL},
   resolution : Nat \cup {NULL}, drawer : Cashiers \cup {NULL}]

Dispute == [status : {"NONE", "OPEN", "RESOLVED"}, declared : Nat, counted : Nat]

Handling == {"DROP_TO_SAFE", "FLAG_AS_SHORTAGE", "NONE"}

(* What a request has read, by the handler it is in.                       *)
InitiateReq == [pc : {"initiating"}, waiter : Waiters, amount : Nat \ {0}]
ReceiveReq == [pc : {"counting", "receiving"}, cashier : Cashiers, drop : Drops,
               declared : Nat \ {0}, amount : Nat]
ResolveReq == [pc : {"resolving"}, cashier : Cashiers, drop : Drops, drawer : Cashiers,
               amount : Nat]
HandoverReq == [pc : {"handing"}, waiter : Waiters, to : Waiters, fresh : BOOLEAN, amount : Nat]
ForceReq == [pc : {"forcing"}, waiter : Waiters, amount : Nat, handling : Handling]
EndedReq == {Idle, [pc |-> "done"]}
              \cup [pc : {"failed"}, op : {"receiving", "resolving", "handing", "forcing"}]

Request == InitiateReq \cup ReceiveReq \cup ResolveReq \cup HandoverReq \cup ForceReq
             \cup EndedReq

LedgerRow ==
  [id : Requests, holder : Waiters \cup Cashiers,
   entryType : EntryTypeCheck \cup {"WAITER_CASH_DROP", "WAITER_CASH_SHORTAGE"},
   amountDelta : Int,
   sourceType : SourceTypeCheck \cup {"MANAGER_FORCE_DROP", "STAFF_SHORTAGE_RECORD"},
   sourceId : Drops \cup Waiters]

IdemRow == [actor : Waiters \cup Cashiers, key : Keys,
            command : {"INITIATE", "RECEIVE", "RESOLVE"}, resource : Drops]

(* The tables hold rows of their types, and requests what they have read.  *)
TypeOK ==
  /\ shift \in [Waiters -> {"NONE", "OPEN", "CLOSED"}]
  /\ collected \in [Waiters -> Nat]
  /\ drop \in [Drops -> Drop]
  /\ dispute \in [Drops -> Dispute]
  /\ ledger \subseteq LedgerRow
  /\ drawer \in [Cashiers -> {"NONE", "OPEN", "SHUT"}]
  /\ idem \subseteq IdemRow
  /\ dayLocked \in BOOLEAN
  /\ req \in [Requests -> Request]

Init ==
  /\ shift = [w \in Waiters |-> "NONE"]
  /\ collected = [w \in Waiters |-> 0]
  /\ drop = [d \in Drops |-> NoDrop]
  /\ dispute = [d \in Drops |-> NoDispute]
  /\ ledger = {}
  /\ drawer = [c \in Cashiers |-> "NONE"]
  /\ idem = {}
  /\ dayLocked = FALSE
  /\ req = [r \in Requests |-> Idle]
-----------------------------------------------------------------------------
(* summaryForShift and calculateWaiterUndroppedCash: the cash on hand.     *)
Claim(d) ==
  CASE drop[d].status \in {"INITIATED", "DISPUTED"} -> drop[d].declared
    [] drop[d].status = "RECEIVED" ->
         IF drop[d].resolution # NULL THEN drop[d].resolution
         ELSE IF drop[d].counted # NULL THEN drop[d].counted ELSE 0
    [] OTHER -> 0

HandoverRows(w) ==
  {x \in ledger : x.holder = w /\ x.entryType \in {"WAITER_HANDOVER_IN", "WAITER_HANDOVER_OUT"}}

Balance(w) ==
  collected[w] + MapThenSumSet(LAMBDA x : x.amountDelta, HandoverRows(w))
               - MapThenSumSet(Claim, {d \in Drops : drop[d].waiter = w})

Undropped(w) == IF Balance(w) > 0 THEN Balance(w) ELSE 0

(* findIdempotent: a stored command is answered from its row, or refused   *)
(* with 409 when its body differs; the handler goes no further either way. *)
Answered(actor, command, key) ==
  \E i \in idem : i.actor = actor /\ i.command = command /\ i.key = key

(* storeIdempotent: INSERT .. ON CONFLICT DO UPDATE.                       *)
StoreIdempotent(actor, command, key, d) ==
  idem' = {i \in idem : ~(i.actor = actor /\ i.command = command /\ i.key = key)}
            \cup {[actor |-> actor, key |-> key, command |-> command, resource |-> d]}

(* Mutant: the pouch entry is not negated.                                 *)
ReceiveRowsUnsigned(r, d, c, n) ==
  {Row(r, drop[d].waiter, "CASH_DROP_OUT", n, "CASH_DROP", d),
   Row(r, c, "CASH_DROP_IN", n, "CASH_DROP", d)}

(* writeReceiveLedger: the pouch pays and the drawer is paid.              *)
ReceiveRows(r, d, c, n) ==
  {Row(r, drop[d].waiter, "CASH_DROP_OUT", -n, "CASH_DROP", d),
   Row(r, c, "CASH_DROP_IN", n, "CASH_DROP", d)}

HandoverLedger(r, w, to, n) ==
  IF n = 0 THEN {}
  ELSE {Row(r, w, "WAITER_HANDOVER_OUT", -n, "WAITER_SHIFT_HANDOVER", w),
        Row(r, to, "WAITER_HANDOVER_IN", n, "WAITER_SHIFT_HANDOVER", w)}
-----------------------------------------------------------------------------
(* What the transaction of a loaded request inserts into the ledger ..     *)
ForceRows(r, w, d, n, handling) ==
  CASE n > 0 /\ handling = "DROP_TO_SAFE" ->
         {Row(r, w, "WAITER_CASH_DROP", -n, "MANAGER_FORCE_DROP", d)}
    [] n > 0 /\ handling = "FLAG_AS_SHORTAGE" ->
         {Row(r, w, "WAITER_CASH_SHORTAGE", -n, "STAFF_SHORTAGE_RECORD", d)}
    [] OTHER -> {}

(* .. and what ck_cash_drop_disputes__status lets a dispute be.            *)
DisputeStatusCheck ==
  {"OPEN", "RESOLVED_ACCEPT_COUNTED", "RESOLVED_ACCEPT_DECLARED", "RESOLVED_OTHER"}

(* Whether the database accepts all of r's transaction.                    *)
TxAccepted(r) ==
  LET q == req[r] IN
  CASE q.pc = "receiving" /\ q.amount = q.declared ->
         Insertable(ledger, ReceiveRows(r, q.drop, q.cashier, q.amount))
    [] q.pc = "receiving" /\ q.amount # q.declared ->
         dispute[q.drop].status = "NONE"           \* uq_cash_drop_disputes__drop
    [] q.pc = "resolving" ->
         /\ Migrated => "RESOLVED" \in DisputeStatusCheck
         /\ Insertable(ledger, ReceiveRows(r, q.drop, q.drawer, q.amount))
    [] q.pc = "handing" ->
         /\ q.fresh => shift[q.to] = "NONE"        \* one open shift per staff
         /\ Insertable(ledger, HandoverLedger(r, q.waiter, q.to, q.amount))
    [] q.pc = "forcing" ->
         \A d \in Drops : Insertable(ledger, ForceRows(r, q.waiter, d, q.amount, q.handling))
    [] OTHER -> TRUE

Loads(r, q) == req[r] = Idle /\ req' = [req EXCEPT ![r] = q]
Ends(r) == req' = [req EXCEPT ![r] = [pc |-> "done"]]
-----------------------------------------------------------------------------
(* Mutant: a drop of nothing is let through.                               *)
InitiateLoadZero(r, w, n) ==
  /\ shift[w] = "OPEN"
  /\ ~Answered(w, "INITIATE", KeyOf[r])
  /\ n <= Undropped(w)
  /\ ~dayLocked
  /\ Loads(r, [pc |-> "initiating", waiter |-> w, amount |-> n])
  /\ UNCHANGED <<shift, collected, drop, dispute, ledger, drawer, idem, dayLocked>>

(* initiateDrop: the waiter declares a drop he has the cash for.           *)
InitiateLoad(r, w, n) ==
  /\ shift[w] = "OPEN"
  /\ ~Answered(w, "INITIATE", KeyOf[r])
  /\ n > 0
  /\ n <= Undropped(w)
  /\ ~dayLocked
  /\ Loads(r, [pc |-> "initiating", waiter |-> w, amount |-> n])
  /\ UNCHANGED <<shift, collected, drop, dispute, ledger, drawer, idem, dayLocked>>

InitiateCommit(r, d) ==
  /\ req[r].pc = "initiating"
  /\ drop[d] = NoDrop
  /\ drop' = [drop EXCEPT ![d] = [NoDrop EXCEPT !.status = "INITIATED",
                                   !.waiter = req[r].waiter, !.declared = req[r].amount]]
  /\ StoreIdempotent(req[r].waiter, "INITIATE", KeyOf[r], d)
  /\ Ends(r)
  /\ UNCHANGED <<shift, collected, dispute, ledger, drawer, dayLocked>>

(* Mutant: the status of the drop is not checked.                          *)
ReceiveLoadAnyStatus(r, c, d, n) ==
  /\ ~Answered(c, "RECEIVE", KeyOf[r])
  /\ ~dayLocked
  /\ Loads(r, [pc |-> "counting", cashier |-> c, drop |-> d,
               declared |-> drop[d].declared, amount |-> n])
  /\ UNCHANGED <<shift, collected, drop, dispute, ledger, drawer, idem, dayLocked>>

(* receiveDrop: a cashier has counted n.  Reading the drop and finding or  *)
(* opening the drawer are two steps.  The version the caller expects is    *)
(* his to choose, and the UPDATE does not look at it.                      *)
ReceiveLoad(r, c, d, n) ==
  /\ ~Answered(c, "RECEIVE", KeyOf[r])
  /\ ~dayLocked
  /\ drop[d].status = "INITIATED"
  /\ Loads(r, [pc |-> "counting", cashier |-> c, drop |-> d,
               declared |-> drop[d].declared, amount |-> n])
  /\ UNCHANGED <<shift, collected, drop, dispute, ledger, drawer, idem, dayLocked>>

(* ensureCashierFinancialSession: open the drawer of the shift unless it   *)
(* exists; one that is no longer OPEN refuses the request.                 *)
EnsureDrawer(r) ==
  /\ req[r].pc = "counting"
  /\ \/ /\ drawer[req[r].cashier] # "SHUT"
        /\ drawer' = [drawer EXCEPT ![req[r].cashier] = "OPEN"]
        /\ req' = [req EXCEPT ![r].pc = "receiving"]
     \/ /\ drawer[req[r].cashier] = "SHUT"
        /\ Ends(r)
        /\ UNCHANGED drawer
  /\ UNCHANGED <<shift, collected, drop, dispute, ledger, idem, dayLocked>>

(* Mutant: the drop does not record the drawer that took the cash.         *)
ReceiveMatchCommitNoDrawer(r) ==
  LET q == req[r] IN
  /\ q.pc = "receiving"
  /\ q.amount = q.declared
  /\ TxAccepted(r)
  /\ drop' = [drop EXCEPT ![q.drop].status = "RECEIVED", ![q.drop].counted = q.amount,
                          ![q.drop].resolution = q.amount]
  /\ ledger' = ledger \cup ReceiveRows(r, q.drop, q.cashier, q.amount)
  /\ StoreIdempotent(q.cashier, "RECEIVE", KeyOf[r], q.drop)
  /\ Ends(r)
  /\ UNCHANGED <<shift, collected, dispute, drawer, dayLocked>>

ReceiveMatchCommit(r) ==
  LET q == req[r] IN
  /\ q.pc = "receiving"
  /\ q.amount = q.declared
  /\ TxAccepted(r)
  /\ drop' = [drop EXCEPT ![q.drop].status = "RECEIVED", ![q.drop].counted = q.amount,
                          ![q.drop].resolution = q.amount, ![q.drop].drawer = q.cashier]
  /\ ledger' = ledger \cup ReceiveRows(r, q.drop, q.cashier, q.amount)
  /\ StoreIdempotent(q.cashier, "RECEIVE", KeyOf[r], q.drop)
  /\ Ends(r)
  /\ UNCHANGED <<shift, collected, dispute, drawer, dayLocked>>

(* Mutant: the drop is disputed but no dispute is created.                 *)
ReceiveMismatchCommitNoDispute(r) ==
  LET q == req[r] IN
  /\ q.pc = "receiving"
  /\ q.amount # q.declared
  /\ TxAccepted(r)
  /\ drop' = [drop EXCEPT ![q.drop].status = "DISPUTED", ![q.drop].counted = q.amount,
                          ![q.drop].drawer = q.cashier]
  /\ StoreIdempotent(q.cashier, "RECEIVE", KeyOf[r], q.drop)
  /\ Ends(r)
  /\ UNCHANGED <<shift, collected, dispute, ledger, drawer, dayLocked>>

ReceiveMismatchCommit(r) ==
  LET q == req[r] IN
  /\ q.pc = "receiving"
  /\ q.amount # q.declared
  /\ TxAccepted(r)
  /\ drop' = [drop EXCEPT ![q.drop].status = "DISPUTED", ![q.drop].counted = q.amount,
                          ![q.drop].drawer = q.cashier]
  /\ dispute' = [dispute EXCEPT ![q.drop] =
                   [status |-> "OPEN", declared |-> q.declared, counted |-> q.amount]]
  /\ StoreIdempotent(q.cashier, "RECEIVE", KeyOf[r], q.drop)
  /\ Ends(r)
  /\ UNCHANGED <<shift, collected, ledger, drawer, dayLocked>>

(* resolveDispute: accept the count, the declaration, or another amount.   *)
(* The drawer is the one the drop names, else the resolving cashier's.     *)
ResolveLoad(r, c, d, n) ==
  LET other == drop[d].drawer = NULL IN
  /\ ~Answered(c, "RESOLVE", KeyOf[r])
  /\ dispute[d].status = "OPEN"
  /\ drop[d].status = "DISPUTED"
  /\ other => drawer[c] # "SHUT"
  /\ drawer' = IF other THEN [drawer EXCEPT ![c] = "OPEN"] ELSE drawer
  /\ Loads(r, [pc |-> "resolving", cashier |-> c, drop |-> d, amount |-> n,
               drawer |-> IF other THEN c ELSE drop[d].drawer])
  /\ UNCHANGED <<shift, collected, drop, dispute, ledger, idem, dayLocked>>

(* Mutant: the dispute is closed but the drop stays DISPUTED.              *)
ResolveCommitKeepsDrop(r) ==
  LET q == req[r] IN
  /\ q.pc = "resolving"
  /\ TxAccepted(r)
  /\ dispute' = [dispute EXCEPT ![q.drop].status = "RESOLVED"]
  /\ ledger' = ledger \cup ReceiveRows(r, q.drop, q.drawer, q.amount)
  /\ StoreIdempotent(q.cashier, "RESOLVE", KeyOf[r], q.drop)
  /\ Ends(r)
  /\ UNCHANGED <<shift, collected, drop, drawer, dayLocked>>

ResolveCommit(r) ==
  LET q == req[r] IN
  /\ q.pc = "resolving"
  /\ TxAccepted(r)
  /\ dispute' = [dispute EXCEPT ![q.drop].status = "RESOLVED"]
  /\ drop' = [drop EXCEPT ![q.drop].status = "RECEIVED", ![q.drop].resolution = q.amount,
                          ![q.drop].drawer = q.drawer]
  /\ ledger' = ledger \cup ReceiveRows(r, q.drop, q.drawer, q.amount)
  /\ StoreIdempotent(q.cashier, "RESOLVE", KeyOf[r], q.drop)
  /\ Ends(r)
  /\ UNCHANGED <<shift, collected, drawer, dayLocked>>

(* waiterHandover: w leaves, passing n of the cash on hand to the shift    *)
(* "to" of another waiter, which the transaction opens if there was none.  *)
HandoverLoad(r, w, to, n) ==
  /\ w # to
  /\ shift[w] = "OPEN"
  /\ n > 0 => n <= Undropped(w)
  /\ shift[to] \in {"OPEN", "NONE"}
  /\ Loads(r, [pc |-> "handing", waiter |-> w, to |-> to, amount |-> n,
               fresh |-> shift[to] = "NONE"])
  /\ UNCHANGED <<shift, collected, drop, dispute, ledger, drawer, idem, dayLocked>>

HandoverCommit(r) ==
  LET q == req[r] IN
  /\ q.pc = "handing"
  /\ TxAccepted(r)
  /\ shift' = [shift EXCEPT ![q.waiter] = "CLOSED",
                            ![q.to] = IF q.fresh THEN "OPEN" ELSE @]
  /\ ledger' = ledger \cup HandoverLedger(r, q.waiter, q.to, q.amount)
  /\ Ends(r)
  /\ UNCHANGED <<collected, drop, dispute, drawer, idem, dayLocked>>

(* managerForceClockOut of a waiter: his cash is dropped to the safe,      *)
(* booked as a shortage under dispute, or left alone.                      *)
ForceLoad(r, w, n, handling) ==
  /\ shift[w] = "OPEN"
  /\ n = Undropped(w)
  /\ Loads(r, [pc |-> "forcing", waiter |-> w, amount |-> n, handling |-> handling])
  /\ UNCHANGED <<shift, collected, drop, dispute, ledger, drawer, idem, dayLocked>>

(* Mutant: a shift without cash on hand is left open.                      *)
ForceCommitCashOnly(r, d) ==
  LET q == req[r] IN
  /\ q.pc = "forcing"
  /\ drop[d] = NoDrop
  /\ TxAccepted(r)
  /\ shift' = IF q.amount > 0 THEN [shift EXCEPT ![q.waiter] = "CLOSED"] ELSE shift
  /\ Ends(r)
  /\ UNCHANGED <<collected, drop, dispute, ledger, drawer, idem, dayLocked>>

ForceCommit(r, d) ==
  LET q == req[r]
      dropped == q.amount > 0 /\ q.handling = "DROP_TO_SAFE"
      short == q.amount > 0 /\ q.handling = "FLAG_AS_SHORTAGE"
  IN
  /\ q.pc = "forcing"
  /\ drop[d] = NoDrop
  /\ TxAccepted(r)
  /\ drop' = [drop EXCEPT ![d] =
       IF dropped
       THEN [NoDrop EXCEPT !.status = "RECEIVED", !.waiter = q.waiter, !.declared = q.amount,
                           !.counted = q.amount, !.resolution = q.amount]
       ELSE IF short
       THEN [NoDrop EXCEPT !.status = "DISPUTED", !.waiter = q.waiter, !.declared = q.amount]
       ELSE NoDrop]
  /\ dispute' = [dispute EXCEPT ![d] =
       IF short THEN [status |-> "OPEN", declared |-> q.amount, counted |-> 0] ELSE @]
  /\ ledger' = ledger \cup ForceRows(r, q.waiter, d, q.amount, q.handling)
  /\ shift' = [shift EXCEPT ![q.waiter] = "CLOSED"]
  /\ Ends(r)
  /\ UNCHANGED <<collected, drawer, idem, dayLocked>>

(* The database refuses the transaction: nothing of it remains, the caller *)
(* gets an error and the idempotency row is not written.                   *)
RolledBack(r) ==
  /\ req[r].pc \in {"receiving", "resolving", "handing", "forcing"}
  /\ ~TxAccepted(r)
  /\ req' = [req EXCEPT ![r] = [pc |-> "failed", op |-> req[r].pc]]
  /\ UNCHANGED <<shift, collected, drop, dispute, ledger, drawer, idem, dayLocked>>
-----------------------------------------------------------------------------
(* What the rest of the system does to the same tables.                    *)
ClockIn(w) ==
  /\ shift[w] = "NONE"
  /\ shift' = [shift EXCEPT ![w] = "OPEN"]
  /\ UNCHANGED <<collected, drop, dispute, ledger, drawer, idem, dayLocked, req>>

ClockOut(w) ==
  /\ shift[w] = "OPEN"
  /\ shift' = [shift EXCEPT ![w] = "CLOSED"]
  /\ UNCHANGED <<collected, drop, dispute, ledger, drawer, idem, dayLocked, req>>

CollectCash(w, n) ==
  /\ shift[w] = "OPEN"
  /\ n > 0
  /\ collected[w] + n <= MaxCash
  /\ collected' = [collected EXCEPT ![w] = @ + n]
  /\ UNCHANGED <<shift, drop, dispute, ledger, drawer, idem, dayLocked, req>>

(* Submitting a count, clocking out or handing over shuts a drawer; the    *)
(* reconciliation preview may open it again (module CashierDrawer).        *)
ShutDrawer(c) ==
  /\ drawer[c] = "OPEN"
  /\ drawer' = [drawer EXCEPT ![c] = "SHUT"]
  /\ UNCHANGED <<shift, collected, drop, dispute, ledger, idem, dayLocked, req>>

ReopenDrawer(c) ==
  /\ drawer[c] = "SHUT"
  /\ drawer' = [drawer EXCEPT ![c] = "OPEN"]
  /\ UNCHANGED <<shift, collected, drop, dispute, ledger, idem, dayLocked, req>>

LockBusinessDay ==
  /\ ~dayLocked
  /\ dayLocked' = TRUE
  /\ UNCHANGED <<shift, collected, drop, dispute, ledger, drawer, idem, req>>
-----------------------------------------------------------------------------
Finishes(r) ==
  \/ EnsureDrawer(r) \/ ReceiveMatchCommit(r) \/ ReceiveMismatchCommit(r)
  \/ ResolveCommit(r) \/ HandoverCommit(r) \/ RolledBack(r)
  \/ \E d \in Drops : InitiateCommit(r, d) \/ ForceCommit(r, d)

Arrives(r) ==
  \/ \E w \in Waiters :
       \/ \E n \in Amounts : InitiateLoad(r, w, n)
       \/ \E to \in Waiters, n \in Amounts : HandoverLoad(r, w, to, n)
       \/ \E n \in 0 .. Undropped(w), h \in Handling : ForceLoad(r, w, n, h)
  \/ \E c \in Cashiers, d \in Drops :
       \/ \E n \in Amounts : ReceiveLoad(r, c, d, n)
       \/ \E n \in Amounts \cup {dispute[d].declared, dispute[d].counted} :
            ResolveLoad(r, c, d, n)

Surroundings ==
  \/ LockBusinessDay
  \/ \E w \in Waiters : ClockIn(w) \/ ClockOut(w) \/ \E n \in Amounts : CollectCash(w, n)
  \/ \E c \in Cashiers : ShutDrawer(c) \/ ReopenDrawer(c)

Next == Surroundings \/ \E r \in Requests : Arrives(r) \/ Finishes(r)

Spec == Init /\ [][Next]_vars

(* The event loop resumes every handler whose awaited call has returned.   *)
FairSpec == Spec /\ \A r \in Requests : WF_vars(Finishes(r))
-----------------------------------------------------------------------------
Entries(type) == {x \in ledger : x.entryType = type}

(* The cash of a drop leaves the pouch at most once, and enters at most    *)
(* one drawer, however many cashiers count it at the same time: the        *)
(* handlers do not prevent it, the waiter-side index of the ledger does,   *)
(* since the drawer-side one admits one credit per drawer.                 *)
DropMovesOnce ==
  \A type \in {"CASH_DROP_OUT", "CASH_DROP_IN"} :
    \A x, y \in Entries(type) : x.sourceId = y.sourceId => x = y

(* What receiveDrop takes out of a pouch is what it puts into a drawer.    *)
DropConservesCash ==
  /\ \A x \in Entries("CASH_DROP_OUT") : \E y \in Entries("CASH_DROP_IN") :
       y.sourceId = x.sourceId /\ y.amountDelta = -x.amountDelta
  /\ \A y \in Entries("CASH_DROP_IN") : \E x \in Entries("CASH_DROP_OUT") :
       y.sourceId = x.sourceId /\ y.amountDelta = -x.amountDelta

(* A drop that reads RECEIVED is backed by cash in the drawer it names, of *)
(* the amount the pouch summary will deduct, even after competing counts   *)
(* of two cashiers have overwritten each other's columns.                  *)
ReceivedIsCredited ==
  \A d \in Drops : drop[d].status = "RECEIVED" =>
    \E y \in Entries("CASH_DROP_IN") :
      /\ y.sourceId = d
      /\ y.holder = drop[d].drawer
      /\ y.amountDelta = drop[d].resolution

(* Every drop the cashiers see as DISPUTED has a dispute that is not       *)
(* closed: a count that was loaded before the dispute was resolved cannot  *)
(* put the drop back into dispute, where no resolution would be accepted;  *)
(* the unique index on cash_drop_disputes refuses it (receiveDrop).  It    *)
(* says something of the database without CHECKs only: on the migrated one *)
(* ResolveCommit never happens, and every dispute stays open.              *)
DisputedIsOpen ==
  \A d \in Drops : drop[d].status = "DISPUTED" => dispute[d].status = "OPEN"

(* A waiter shift hands its cash over at most once, to one successor, and  *)
(* the successor's pouch gains what the shift's pouch lost, although two   *)
(* devices may run waiterHandover for the shift with different successors. *)
HandoverOnce ==
  /\ \A x, y \in Entries("WAITER_HANDOVER_OUT") : x.holder = y.holder => x = y
  /\ \A y \in Entries("WAITER_HANDOVER_IN") : \E x \in Entries("WAITER_HANDOVER_OUT") :
       /\ x.id = y.id
       /\ x.holder = y.sourceId
       /\ x.holder # y.holder
       /\ x.amountDelta + y.amountDelta = 0

(* The detailed custody implements the abstract one.                       *)
Transfer == INSTANCE CustodyTransfer WITH
  declared <- {d \in Drops : drop[d].status # "NONE"},
  paidOut <- {[drop |-> x.sourceId, amount |-> -x.amountDelta] : x \in Entries("CASH_DROP_OUT")},
  paidIn <- {[drop |-> y.sourceId, drawer |-> y.holder, amount |-> y.amountDelta]
              : y \in Entries("CASH_DROP_IN")}

(* Cash custody moves each drop's cash once, whole, and for good.          *)
ImplementsTransfer == Transfer!TransferSpec

(* A resolution that passed its checks is carried out: the drop ends up    *)
(* RECEIVED (cash-custody.service.ts, resolveDispute, promises a CashDropDto). *)
ResolutionReceives ==
  \A r \in Requests, d \in Drops :
    (req[r].pc = "resolving" /\ req[r].drop = d) ~> drop[d].status = "RECEIVED"

(* A forced clock-out that passed its checks closes the shift, whichever   *)
(* way the manager chose to handle the cash.                               *)
ForceCloses ==
  \A r \in Requests, w \in Waiters :
    (req[r].pc = "forcing" /\ req[r].waiter = w) ~> shift[w] = "CLOSED"
=============================================================================
