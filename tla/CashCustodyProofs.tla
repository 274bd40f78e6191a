------------------------- MODULE CashCustodyProofs -------------------------
(* Proofs about CashCustody, for any staff, drops, requests and amounts.   *)
EXTENDS CashCustody, TLAPS

(* A request that read a drop finds it again when it commits: drops are    *)
(* never deleted.                                                          *)
LoadedDropExists ==
  \A r \in Requests : req[r].pc \in {"counting", "receiving", "resolving"}
                        => drop[req[r].drop] # NoDrop

(* A request that is in a handler has the fields the handler gave it.      *)
LEMMA ShapeOf ==
  ASSUME NEW q \in Request
  PROVE  /\ q.pc = "initiating" => q \in InitiateReq
         /\ q.pc \in {"counting", "receiving"} => q \in ReceiveReq
         /\ q.pc = "resolving" => q \in ResolveReq
         /\ q.pc = "handing" => q \in HandoverReq
         /\ q.pc = "forcing" => q \in ForceReq
<1>1. /\ q \in InitiateReq => q.pc = "initiating"
      /\ q \in ReceiveReq => q.pc \in {"counting", "receiving"}
      /\ q \in ResolveReq => q.pc = "resolving"
      /\ q \in HandoverReq => q.pc = "handing"
      /\ q \in ForceReq => q.pc = "forcing"
      /\ q \in EndedReq => q.pc \in {"idle", "done", "failed"}
  BY DEF InitiateReq, ReceiveReq, ResolveReq, HandoverReq, ForceReq, EndedReq, Idle
<1>2. QED
  BY <1>1 DEF Request

(* A request in a method has the fields the method gave it.                *)
LEMMA RequestShape ==
  ASSUME TypeOK, NEW r \in Requests
  PROVE  /\ req[r].pc = "initiating" => req[r] \in InitiateReq
         /\ req[r].pc \in {"counting", "receiving"} => req[r] \in ReceiveReq
         /\ req[r].pc = "resolving" => req[r] \in ResolveReq
         /\ req[r].pc = "handing" => req[r] \in HandoverReq
         /\ req[r].pc = "forcing" => req[r] \in ForceReq
<1>1. req[r] \in Request
  BY DEF TypeOK
<1>2. QED
  BY <1>1, ShapeOf

(* Every insertion is of well-typed rows.                                  *)
LEMMA RowsType ==
  ASSUME CustodyAssumption, TypeOK, NEW r \in Requests
  PROVE  /\ \A d \in Drops, c \in Cashiers, n \in Nat :
              drop[d] # NoDrop => ReceiveRows(r, d, c, n) \subseteq LedgerRow
         /\ \A w \in Waiters, to \in Waiters, n \in Nat :
              HandoverLedger(r, w, to, n) \subseteq LedgerRow
         /\ \A w \in Waiters, d \in Drops, n \in Nat, h \in Handling :
              ForceRows(r, w, d, n, h) \subseteq LedgerRow
<1>1. \A d \in Drops : drop[d] # NoDrop => drop[d].waiter \in Waiters
  BY DEF TypeOK, Drop
<1>2. \A d \in Drops, c \in Cashiers, n \in Nat :
        drop[d] # NoDrop => ReceiveRows(r, d, c, n) \subseteq LedgerRow
  BY <1>1 DEF ReceiveRows, LedgerRow, Row, EntryTypeCheck, SourceTypeCheck
<1>3. \A w \in Waiters, to \in Waiters, n \in Nat :
        HandoverLedger(r, w, to, n) \subseteq LedgerRow
  BY DEF HandoverLedger, LedgerRow, Row, EntryTypeCheck, SourceTypeCheck
<1>4. \A w \in Waiters, d \in Drops, n \in Nat, h \in Handling :
        ForceRows(r, w, d, n, h) \subseteq LedgerRow
  BY DEF ForceRows, LedgerRow, Row, Handling
<1>5. QED
  BY <1>2, <1>3, <1>4

-----------------------------------------------------------------------------
(* The empty database is well typed.                                       *)
LEMMA InitType == Init => TypeOK
<1>1. NoDrop \in Drop /\ NoDispute \in Dispute /\ Idle \in Request
  BY DEF Drop, Dispute, NoDispute, Request, EndedReq
<1>2. ASSUME Init
      PROVE  TypeOK
  <2>1. shift \in [Waiters -> {"NONE", "OPEN", "CLOSED"}] /\ collected \in [Waiters -> Nat]
    BY <1>2 DEF Init
  <2>2. drop \in [Drops -> Drop] /\ dispute \in [Drops -> Dispute]
    BY <1>1, <1>2 DEF Init
  <2>3. drawer \in [Cashiers -> {"NONE", "OPEN", "SHUT"}] /\ req \in [Requests -> Request]
    BY <1>1, <1>2 DEF Init
  <2>4. ledger \subseteq LedgerRow /\ idem \subseteq IdemRow /\ dayLocked \in BOOLEAN
    BY <1>2 DEF Init
  <2>5. QED
    BY <2>1, <2>2, <2>3, <2>4 DEF TypeOK
<1>3. QED
  BY <1>2

(* Ending a request, or storing its idempotency row, keeps both tables     *)
(* well typed.                                                             *)
LEMMA EndsType ==
  ASSUME TypeOK, NEW r \in Requests, Ends(r)
  PROVE  req' \in [Requests -> Request]
  BY DEF TypeOK, Ends, Request, EndedReq

(* Loading leaves the requests well typed.                                 *)
LEMMA LoadsType ==
  ASSUME TypeOK, NEW r \in Requests, NEW q \in Request, Loads(r, q)
  PROVE  req' \in [Requests -> Request]
  BY DEF TypeOK, Loads

(* Storing an answer leaves the idempotency table well typed.              *)
LEMMA IdemType ==
  ASSUME CustodyAssumption, TypeOK, NEW r \in Requests, NEW a \in Waiters \cup Cashiers,
         NEW k \in {"INITIATE", "RECEIVE", "RESOLVE"}, NEW d \in Drops,
         StoreIdempotent(a, k, KeyOf[r], d)
  PROVE  idem' \subseteq IdemRow
  BY DEF TypeOK, StoreIdempotent, IdemRow, CustodyAssumption

(* A settled or disputed drop is still a drop.                             *)
LEMMA DropUpdate ==
  ASSUME NEW x \in Drop, x # NoDrop, NEW s \in {"RECEIVED", "DISPUTED"}, NEW n \in Nat,
         NEW c \in Cashiers
  PROVE  /\ [x EXCEPT !.status = s, !.counted = n, !.drawer = c] \in Drop
         /\ [x EXCEPT !.status = s, !.resolution = n, !.drawer = c] \in Drop
         /\ [x EXCEPT !.status = s, !.counted = n, !.resolution = n, !.drawer = c] \in Drop
  BY DEF Drop

(* The tables stay well typed through every step of every handler.         *)
LEMMA NextType ==
  ASSUME CustodyAssumption, TypeOK, LoadedDropExists, [Next]_vars
  PROVE  TypeOK'
<1>1. ASSUME NEW r \in Requests, NEW w \in Waiters, NEW n \in Amounts, InitiateLoad(r, w, n)
      PROVE  TypeOK'
  <2>1. [pc |-> "initiating", waiter |-> w, amount |-> n] \in Request
    BY <1>1 DEF InitiateLoad, Request, InitiateReq, CustodyAssumption
  <2>2. req' \in [Requests -> Request]
    BY <1>1, <2>1, LoadsType DEF InitiateLoad
  <2>3. QED
    BY <1>1, <2>2 DEF InitiateLoad, TypeOK
<1>2. ASSUME NEW r \in Requests, NEW w \in Waiters, NEW to \in Waiters, NEW n \in Amounts,
             HandoverLoad(r, w, to, n)
      PROVE  TypeOK'
  <2>1. [pc |-> "handing", waiter |-> w, to |-> to, amount |-> n, fresh |-> shift[to] = "NONE"]
          \in Request
    BY <1>2 DEF Request, HandoverReq, CustodyAssumption
  <2>2. req' \in [Requests -> Request]
    BY <1>2, <2>1, LoadsType DEF HandoverLoad
  <2>3. QED
    BY <1>2, <2>2 DEF HandoverLoad, TypeOK
<1>3. ASSUME NEW r \in Requests, NEW w \in Waiters, NEW n \in 0 .. Undropped(w),
             NEW h \in Handling, ForceLoad(r, w, n, h)
      PROVE  TypeOK'
  <2>1. n \in Nat
    BY <1>3
  <2>2. [pc |-> "forcing", waiter |-> w, amount |-> n, handling |-> h] \in Request
    BY <2>1 DEF Request, ForceReq
  <2>3. req' \in [Requests -> Request]
    BY <1>3, <2>2, LoadsType DEF ForceLoad
  <2>4. QED
    BY <1>3, <2>3 DEF ForceLoad, TypeOK
<1>4. ASSUME NEW r \in Requests, NEW c \in Cashiers, NEW d \in Drops, NEW n \in Amounts,
             ReceiveLoad(r, c, d, n)
      PROVE  TypeOK'
  <2>1. drop[d].declared \in Nat \ {0}
    BY <1>4 DEF ReceiveLoad, TypeOK, Drop, NoDrop
  <2>2. [pc |-> "counting", cashier |-> c, drop |-> d, declared |-> drop[d].declared,
         amount |-> n] \in Request
    BY <2>1 DEF Request, ReceiveReq, CustodyAssumption
  <2>3. req' \in [Requests -> Request]
    BY <1>4, <2>2, LoadsType DEF ReceiveLoad
  <2>4. QED
    BY <1>4, <2>3 DEF ReceiveLoad, TypeOK
<1>5. ASSUME NEW r \in Requests, NEW c \in Cashiers, NEW d \in Drops,
             NEW n \in Amounts \cup {dispute[d].declared, dispute[d].counted},
             ResolveLoad(r, c, d, n)
      PROVE  TypeOK'
  <2>1. n \in Nat
    BY <1>5 DEF TypeOK, Dispute, CustodyAssumption
  <2>2. (IF drop[d].drawer = NULL THEN c ELSE drop[d].drawer) \in Cashiers
    BY <1>5 DEF ResolveLoad, TypeOK, Drop, NoDrop
  <2>3. [pc |-> "resolving", cashier |-> c, drop |-> d, amount |-> n,
         drawer |-> IF drop[d].drawer = NULL THEN c ELSE drop[d].drawer] \in Request
    BY <2>1, <2>2 DEF Request, ResolveReq
  <2>4. req' \in [Requests -> Request]
    BY <1>5, <2>3, LoadsType DEF ResolveLoad
  <2>5. QED
    BY <1>5, <2>4 DEF ResolveLoad, TypeOK
<1>6. ASSUME NEW r \in Requests, NEW d \in Drops, InitiateCommit(r, d)
      PROVE  TypeOK'
  <2>1. req[r] \in InitiateReq
    BY <1>6, RequestShape DEF InitiateCommit
  <2>2. drop' \in [Drops -> Drop]
    BY <1>6, <2>1 DEF InitiateCommit, InitiateReq, TypeOK, Drop, NoDrop
  <2>3. req' \in [Requests -> Request] /\ idem' \subseteq IdemRow
    BY <1>6, <2>1, EndsType, IdemType DEF InitiateCommit, InitiateReq
  <2>4. QED
    BY <1>6, <2>2, <2>3 DEF InitiateCommit, TypeOK
<1>7. ASSUME NEW r \in Requests, EnsureDrawer(r)
      PROVE  TypeOK'
  <2>1. req[r] \in ReceiveReq
    BY <1>7, RequestShape DEF EnsureDrawer
  <2>2. [req[r] EXCEPT !.pc = "receiving"] \in Request
    BY <2>1 DEF ReceiveReq, Request
  <2>3. req' \in [Requests -> Request]
    BY <1>7, <2>2, EndsType DEF EnsureDrawer, TypeOK
  <2>4. QED
    BY <1>7, <2>1, <2>3 DEF EnsureDrawer, TypeOK, ReceiveReq
<1>8. ASSUME NEW r \in Requests, ReceiveMatchCommit(r)
      PROVE  TypeOK'
  <2> DEFINE q == req[r]
  <2>1. q \in ReceiveReq
    BY <1>8, RequestShape DEF ReceiveMatchCommit
  <2>2. drop[q.drop] # NoDrop
    BY <1>8 DEF ReceiveMatchCommit, LoadedDropExists
  <2>3. drop' = [drop EXCEPT ![q.drop] = [@ EXCEPT !.status = "RECEIVED",
                   !.counted = q.amount, !.resolution = q.amount, !.drawer = q.cashier]]
    BY <1>8, <2>1 DEF ReceiveMatchCommit, ReceiveReq, TypeOK
  <2>4. drop' \in [Drops -> Drop]
    BY <2>1, <2>2, <2>3, DropUpdate DEF ReceiveReq, TypeOK
  <2>5. req' \in [Requests -> Request] /\ idem' \subseteq IdemRow
    BY <1>8, <2>1, EndsType, IdemType DEF ReceiveMatchCommit, ReceiveReq
  <2>6. ledger' \subseteq LedgerRow
    BY <1>8, <2>1, <2>2, RowsType DEF ReceiveMatchCommit, ReceiveReq, TypeOK
  <2>7. QED
    BY <1>8, <2>4, <2>5, <2>6 DEF ReceiveMatchCommit, TypeOK
<1>9. ASSUME NEW r \in Requests, ReceiveMismatchCommit(r)
      PROVE  TypeOK'
  <2> DEFINE q == req[r]
  <2>1. q \in ReceiveReq
    BY <1>9, RequestShape DEF ReceiveMismatchCommit
  <2>2. drop[q.drop] # NoDrop
    BY <1>9 DEF ReceiveMismatchCommit, LoadedDropExists
  <2>3. drop' = [drop EXCEPT ![q.drop] = [@ EXCEPT !.status = "DISPUTED",
                   !.counted = q.amount, !.drawer = q.cashier]]
    BY <1>9, <2>1 DEF ReceiveMismatchCommit, ReceiveReq, TypeOK
  <2>4. drop' \in [Drops -> Drop]
    BY <2>1, <2>2, <2>3, DropUpdate DEF ReceiveReq, TypeOK
  <2>5. dispute' \in [Drops -> Dispute]
    BY <1>9, <2>1 DEF ReceiveMismatchCommit, ReceiveReq, TypeOK, Dispute
  <2>6. req' \in [Requests -> Request] /\ idem' \subseteq IdemRow
    BY <1>9, <2>1, EndsType, IdemType DEF ReceiveMismatchCommit, ReceiveReq
  <2>7. QED
    BY <1>9, <2>4, <2>5, <2>6 DEF ReceiveMismatchCommit, TypeOK
<1>10. ASSUME NEW r \in Requests, ResolveCommit(r)
       PROVE  TypeOK'
  <2> DEFINE q == req[r]
  <2>1. q \in ResolveReq
    BY <1>10, RequestShape DEF ResolveCommit
  <2>2. drop[q.drop] # NoDrop
    BY <1>10 DEF ResolveCommit, LoadedDropExists
  <2>3. drop' = [drop EXCEPT ![q.drop] = [@ EXCEPT !.status = "RECEIVED",
                   !.resolution = q.amount, !.drawer = q.drawer]]
    BY <1>10, <2>1 DEF ResolveCommit, ResolveReq, TypeOK
  <2>4. drop' \in [Drops -> Drop]
    BY <2>1, <2>2, <2>3, DropUpdate DEF ResolveReq, TypeOK
  <2>5. dispute' \in [Drops -> Dispute]
    BY <1>10, <2>1 DEF ResolveCommit, ResolveReq, TypeOK, Dispute
  <2>6. req' \in [Requests -> Request] /\ idem' \subseteq IdemRow
    BY <1>10, <2>1, EndsType, IdemType DEF ResolveCommit, ResolveReq
  <2>7. ledger' \subseteq LedgerRow
    BY <1>10, <2>1, <2>2, RowsType DEF ResolveCommit, ResolveReq, TypeOK
  <2>8. QED
    BY <1>10, <2>4, <2>5, <2>6, <2>7 DEF ResolveCommit, TypeOK
<1>11. ASSUME NEW r \in Requests, HandoverCommit(r)
       PROVE  TypeOK'
  <2>1. req[r] \in HandoverReq
    BY <1>11, RequestShape DEF HandoverCommit
  <2>2. shift' \in [Waiters -> {"NONE", "OPEN", "CLOSED"}]
    BY <1>11, <2>1 DEF HandoverCommit, HandoverReq, TypeOK
  <2>3. req' \in [Requests -> Request]
    BY <1>11, EndsType DEF HandoverCommit
  <2>4. ledger' \subseteq LedgerRow
    BY <1>11, <2>1, RowsType DEF HandoverCommit, HandoverReq, TypeOK
  <2>5. QED
    BY <1>11, <2>2, <2>3, <2>4 DEF HandoverCommit, TypeOK
<1>12. ASSUME NEW r \in Requests, NEW d \in Drops, ForceCommit(r, d)
       PROVE  TypeOK'
  <2>1. req[r] \in ForceReq
    BY <1>12, RequestShape DEF ForceCommit
  <2> DEFINE q == req[r]
             rcv == [NoDrop EXCEPT !.status = "RECEIVED", !.waiter = q.waiter,
                       !.declared = q.amount, !.counted = q.amount, !.resolution = q.amount]
             dsp == [NoDrop EXCEPT !.status = "DISPUTED", !.waiter = q.waiter,
                       !.declared = q.amount]
  <2>a. q.amount > 0 => rcv \in Drop /\ dsp \in Drop
    <3>1. q.amount \in Nat /\ q.waiter \in Waiters
      BY <2>1 DEF ForceReq
    <3>2. \A n \in Nat \ {0}, w \in Waiters :
            [NoDrop EXCEPT !.status = "RECEIVED", !.waiter = w, !.declared = n, !.counted = n,
                           !.resolution = n] \in Drop
      BY DEF Drop, NoDrop
    <3>3. \A n \in Nat \ {0}, w \in Waiters :
            [NoDrop EXCEPT !.status = "DISPUTED", !.waiter = w, !.declared = n] \in Drop
      BY DEF Drop, NoDrop
    <3>4. q.amount > 0 => q.amount \in Nat \ {0}
      BY <3>1
    <3>5. QED
      BY <3>1, <3>2, <3>3, <3>4
  <2>b. NoDrop \in Drop
    BY DEF Drop
  <2> HIDE DEF rcv, dsp
  <2>2. drop' \in [Drops -> Drop]
    <3>1. \E x \in Drop : drop' = [drop EXCEPT ![d] = x]
      BY <1>12, <2>a, <2>b DEF ForceCommit, rcv, dsp
    <3>2. QED
      BY <3>1 DEF TypeOK
  <2>3. dispute' \in [Drops -> Dispute]
    BY <1>12, <2>1 DEF ForceCommit, ForceReq, TypeOK, Dispute
  <2>4. shift' \in [Waiters -> {"NONE", "OPEN", "CLOSED"}]
    BY <1>12, <2>1 DEF ForceCommit, ForceReq, TypeOK
  <2>5. req' \in [Requests -> Request]
    BY <1>12, EndsType DEF ForceCommit
  <2>6. ledger' \subseteq LedgerRow
    BY <1>12, <2>1, RowsType DEF ForceCommit, ForceReq, TypeOK
  <2>7. QED
    BY <1>12, <2>2, <2>3, <2>4, <2>5, <2>6 DEF ForceCommit, TypeOK
<1>13. ASSUME NEW r \in Requests, RolledBack(r)
       PROVE  TypeOK'
  <2>1. [pc |-> "failed", op |-> req[r].pc] \in Request
    BY <1>13 DEF RolledBack, Request, EndedReq
  <2>2. QED
    BY <1>13, <2>1 DEF RolledBack, TypeOK
<1>14. ASSUME Surroundings
       PROVE  TypeOK'
  <2>1. CASE LockBusinessDay
    BY <2>1 DEF LockBusinessDay, TypeOK
  <2>2. CASE \E w \in Waiters : ClockIn(w) \/ ClockOut(w)
    BY <2>2 DEF ClockIn, ClockOut, TypeOK
  <2>3. CASE \E c \in Cashiers : ShutDrawer(c) \/ ReopenDrawer(c)
    BY <2>3 DEF ShutDrawer, ReopenDrawer, TypeOK
  <2>4. ASSUME NEW w \in Waiters, NEW n \in Amounts, CollectCash(w, n)
        PROVE  TypeOK'
    <3>1. n \in Nat /\ collected[w] \in Nat
      BY DEF CustodyAssumption, TypeOK
    <3>2. collected' \in [Waiters -> Nat]
      BY <2>4, <3>1 DEF CollectCash, TypeOK
    <3>3. QED
      BY <2>4, <3>2 DEF CollectCash, TypeOK
  <2>5. QED
    BY <1>14, <2>1, <2>2, <2>3, <2>4 DEF Surroundings
<1>15. CASE UNCHANGED vars
  BY <1>15 DEF TypeOK, vars
<1>16. QED
  BY <1>1, <1>2, <1>3, <1>4, <1>5, <1>6, <1>7, <1>8, <1>9, <1>10, <1>11, <1>12, <1>13, <1>14,
     <1>15 DEF Next, Arrives, Finishes

(* The steps that write to the drops, the disputes or the ledger.          *)
LEMMA Writers ==
  ASSUME [Next]_vars
  PROVE  \/ UNCHANGED <<drop, dispute, ledger>>
         \/ \E r \in Requests :
              \/ \E d \in Drops : InitiateCommit(r, d) \/ ForceCommit(r, d)
              \/ ReceiveMatchCommit(r) \/ ReceiveMismatchCommit(r)
              \/ ResolveCommit(r) \/ HandoverCommit(r)
<1>1. CASE UNCHANGED vars
  BY <1>1 DEF vars
<1>2. CASE Surroundings
  BY <1>2 DEF Surroundings, LockBusinessDay, ClockIn, ClockOut, CollectCash, ShutDrawer,
              ReopenDrawer
<1>3. ASSUME NEW r \in Requests, Arrives(r)
      PROVE  UNCHANGED <<drop, dispute, ledger>>
  BY <1>3 DEF Arrives, InitiateLoad, HandoverLoad, ForceLoad, ReceiveLoad, ResolveLoad
<1>4. ASSUME NEW r \in Requests, EnsureDrawer(r) \/ RolledBack(r)
      PROVE  UNCHANGED <<drop, dispute, ledger>>
  BY <1>4 DEF EnsureDrawer, RolledBack
<1>5. ASSUME NEW r \in Requests, Finishes(r)
      PROVE  \/ EnsureDrawer(r) \/ RolledBack(r)
             \/ \E d \in Drops : InitiateCommit(r, d) \/ ForceCommit(r, d)
             \/ ReceiveMatchCommit(r) \/ ReceiveMismatchCommit(r)
             \/ ResolveCommit(r) \/ HandoverCommit(r)
  BY <1>5 DEF Finishes
<1>6. Next => Surroundings \/ \E r \in Requests : Arrives(r) \/ Finishes(r)
  BY DEF Next
<1>7. ASSUME NEW r \in Requests, Arrives(r) \/ Finishes(r)
      PROVE  \/ UNCHANGED <<drop, dispute, ledger>>
             \/ \E d \in Drops : InitiateCommit(r, d) \/ ForceCommit(r, d)
             \/ ReceiveMatchCommit(r) \/ ReceiveMismatchCommit(r)
             \/ ResolveCommit(r) \/ HandoverCommit(r)
  BY <1>3, <1>4, <1>5, <1>7
<1>8. QED
  BY <1>1, <1>2, <1>6, <1>7

(* A drop is never deleted and keeps its waiter.                           *)
LEMMA DropsStay ==
  ASSUME TypeOK, LoadedDropExists, [Next]_vars, NEW d \in Drops, drop[d] # NoDrop
  PROVE  drop'[d] # NoDrop /\ drop'[d].waiter = drop[d].waiter
<1>1. drop[d] \in Drop /\ drop \in [Drops -> Drop]
  BY DEF TypeOK
<1>2. ASSUME NEW r \in Requests, NEW e \in Drops, InitiateCommit(r, e) \/ ForceCommit(r, e)
      PROVE  drop'[d] = drop[d]
  BY <1>1, <1>2 DEF InitiateCommit, ForceCommit
<1>3. ASSUME NEW r \in Requests,
             ReceiveMatchCommit(r) \/ ReceiveMismatchCommit(r) \/ ResolveCommit(r)
      PROVE  /\ drop'[d].status \in {drop[d].status, "RECEIVED", "DISPUTED"}
             /\ drop'[d].waiter = drop[d].waiter
  <2>1. CASE ReceiveMatchCommit(r)
    BY <1>1, <2>1 DEF ReceiveMatchCommit, Drop
  <2>2. CASE ReceiveMismatchCommit(r)
    BY <1>1, <2>2 DEF ReceiveMismatchCommit, Drop
  <2>3. CASE ResolveCommit(r)
    BY <1>1, <2>3 DEF ResolveCommit, Drop
  <2>4. QED
    BY <1>3, <2>1, <2>2, <2>3
<1>4. drop[d].status \in {"INITIATED", "RECEIVED", "DISPUTED"}
  BY <1>1 DEF Drop
<1>5. \A r \in Requests : HandoverCommit(r) => drop' = drop
  BY DEF HandoverCommit
<1>6. QED
  BY <1>2, <1>3, <1>4, <1>5, Writers DEF NoDrop

(* Requests only move forward: one that has ended does not change, and one *)
(* that holds a drop got it while the drop existed.                        *)
LEMMA RequestStep ==
  ASSUME CustodyAssumption, TypeOK, [Next]_vars, NEW s \in Requests
  PROVE  /\ req[s].pc = "done" => req'[s] = req[s]
         /\ req'[s].pc \in {"counting", "receiving", "resolving"} =>
              \/ req[s].pc \in {"counting", "receiving"} /\ req'[s].drop = req[s].drop
              \/ req'[s] = req[s]
              \/ drop[req'[s].drop].status \in {"INITIATED", "DISPUTED"}
         /\ req'[s].pc = "handing" => req'[s] = req[s] \/ req'[s].waiter # req'[s].to
<1>1. req \in [Requests -> Request]
  BY DEF TypeOK
<1>2. ASSUME NEW r \in Requests, Arrives(r)
      PROVE  /\ s = r => req[s] = Idle
             /\ s = r /\ req'[s].pc \in {"counting", "receiving", "resolving"} =>
                           drop[req'[s].drop].status \in {"INITIATED", "DISPUTED"}
             /\ s = r /\ req'[s].pc = "handing" => req'[s].waiter # req'[s].to
             /\ s # r => req'[s] = req[s]
  <2>1. ASSUME NEW w \in Waiters, NEW n \in Amounts, InitiateLoad(r, w, n)
        PROVE  /\ req[r] = Idle /\ req'[r].pc = "initiating"
               /\ s # r => req'[s] = req[s]
    BY <1>1, <2>1 DEF InitiateLoad, Loads
  <2>2. ASSUME NEW w \in Waiters, NEW to \in Waiters, NEW n \in Amounts, HandoverLoad(r, w, to, n)
        PROVE  /\ req[r] = Idle /\ req'[r].pc = "handing" /\ req'[r].waiter # req'[r].to
               /\ s # r => req'[s] = req[s]
    BY <1>1, <2>2 DEF HandoverLoad, Loads
  <2>3. ASSUME NEW w \in Waiters, NEW n \in 0 .. Undropped(w), NEW h \in Handling,
               ForceLoad(r, w, n, h)
        PROVE  /\ req[r] = Idle /\ req'[r].pc = "forcing"
               /\ s # r => req'[s] = req[s]
    BY <1>1, <2>3 DEF ForceLoad, Loads
  <2>4. ASSUME NEW c \in Cashiers, NEW d \in Drops, NEW n \in Amounts, ReceiveLoad(r, c, d, n)
        PROVE  /\ req[r] = Idle /\ req'[r].pc = "counting"
               /\ drop[req'[r].drop].status = "INITIATED"
               /\ s # r => req'[s] = req[s]
    BY <1>1, <2>4 DEF ReceiveLoad, Loads
  <2>5. ASSUME NEW c \in Cashiers, NEW d \in Drops,
               NEW n \in Amounts \cup {dispute[d].declared, dispute[d].counted},
               ResolveLoad(r, c, d, n)
        PROVE  /\ req[r] = Idle /\ req'[r].pc = "resolving"
               /\ drop[req'[r].drop].status = "DISPUTED"
               /\ s # r => req'[s] = req[s]
    BY <1>1, <2>5 DEF ResolveLoad, Loads
  <2>6. QED
    BY <1>2, <2>1, <2>2, <2>3, <2>4, <2>5 DEF Arrives
<1>3. ASSUME NEW r \in Requests, Finishes(r)
      PROVE  /\ s = r => req[s].pc # "done"
             /\ s = r => \/ req'[s].pc \in {"done", "failed"}
                         \/ req[s].pc = "counting" /\ req'[s].pc = "receiving"
                              /\ req'[s].drop = req[s].drop
             /\ s # r => req'[s] = req[s]
  <2>1. CASE EnsureDrawer(r)
    <3>1. req[r] \in ReceiveReq
      BY <2>1, RequestShape DEF EnsureDrawer
    <3>2. QED
      BY <1>1, <2>1, <3>1 DEF EnsureDrawer, Ends, ReceiveReq
  <2>2. CASE RolledBack(r)
    BY <1>1, <2>2 DEF RolledBack
  <2>3. ASSUME Ends(r), req[r].pc # "done"
        PROVE  /\ s = r => req[s].pc # "done" /\ req'[s].pc = "done"
               /\ s # r => req'[s] = req[s]
    BY <1>1, <2>3 DEF Ends
  <2>4. \A d \in Drops : InitiateCommit(r, d) \/ ForceCommit(r, d) => Ends(r) /\ req[r].pc # "done"
    BY DEF InitiateCommit, ForceCommit
  <2>5. ReceiveMatchCommit(r) \/ ReceiveMismatchCommit(r) \/ ResolveCommit(r) \/ HandoverCommit(r)
          => Ends(r) /\ req[r].pc # "done"
    BY DEF ReceiveMatchCommit, ReceiveMismatchCommit, ResolveCommit, HandoverCommit
  <2>6. QED
    BY <1>3, <2>1, <2>2, <2>3, <2>4, <2>5 DEF Finishes
<1>4. Surroundings \/ UNCHANGED vars => req' = req
  BY DEF Surroundings, LockBusinessDay, ClockIn, ClockOut, CollectCash, ShutDrawer,
         ReopenDrawer, vars
<1>5. QED
  BY <1>2, <1>3, <1>4 DEF Next, Idle

(* What a request has loaded stays there.                                  *)
LEMMA NextLoaded ==
  ASSUME CustodyAssumption, TypeOK, LoadedDropExists, [Next]_vars
  PROVE  LoadedDropExists'
<1> SUFFICES ASSUME NEW r \in Requests, req'[r].pc \in {"counting", "receiving", "resolving"}
             PROVE  drop'[req'[r].drop] # NoDrop
  BY DEF LoadedDropExists
<1>1. req'[r].drop \in Drops
  <2>1. req'[r] \in Request
    BY NextType DEF TypeOK
  <2>2. QED
    BY <2>1, ShapeOf DEF ReceiveReq, ResolveReq
<1>2. drop[req'[r].drop] # NoDrop
  BY RequestStep DEF LoadedDropExists, NoDrop
<1>3. QED
  BY <1>1, <1>2, DropsStay

(* The tables of cash custody are well typed in every state of every run:  *)
(* whatever the handlers of cash-custody.service.ts interleave, a drop     *)
(* that is counted, disputed or received has its waiter and a declared     *)
(* amount, and every drawer it names is a cashier's.                       *)
THEOREM TypeCorrect == ASSUME CustodyAssumption PROVE Spec => []TypeOK
<1> DEFINE Inv == TypeOK /\ LoadedDropExists
<1>1. Init => Inv
  BY InitType DEF Init, LoadedDropExists, Idle
<1>2. Inv /\ [Next]_vars => Inv'
  BY NextType, NextLoaded
<1>3. QED
  BY <1>1, <1>2, PTL DEF Spec
(* A step that leaves a drop DISPUTED leaves its dispute OPEN: the one that *)
(* counts differently creates the dispute, the one that resolves it takes  *)
(* the drop out of DISPUTED, and a drop can be disputed once.              *)
LEMMA NextDisputed ==
  ASSUME CustodyAssumption, TypeOK, LoadedDropExists, DisputedIsOpen, [Next]_vars
  PROVE  DisputedIsOpen'
<1> SUFFICES ASSUME NEW d \in Drops, drop'[d].status = "DISPUTED"
             PROVE  dispute'[d].status = "OPEN"
  BY DEF DisputedIsOpen
<1>1. drop \in [Drops -> Drop] /\ dispute \in [Drops -> Dispute] /\ drop[d] \in Drop
  BY DEF TypeOK
<1>2. drop[d].status = "DISPUTED" => dispute[d].status = "OPEN"
  BY DEF DisputedIsOpen
<1>3. CASE UNCHANGED <<drop, dispute, ledger>>
  BY <1>2, <1>3
<1>4. ASSUME NEW r \in Requests, NEW e \in Drops, InitiateCommit(r, e)
      PROVE  dispute'[d].status = "OPEN"
  BY <1>1, <1>2, <1>4 DEF InitiateCommit, NoDrop
<1>5. ASSUME NEW r \in Requests, NEW e \in Drops, ForceCommit(r, e)
      PROVE  dispute'[d].status = "OPEN"
  <2>1. d # e => drop'[d] = drop[d] /\ dispute'[d] = dispute[d]
    BY <1>1, <1>5 DEF ForceCommit
  <2>2. d = e => dispute'[d].status = "OPEN"
    BY <1>1, <1>5 DEF ForceCommit, NoDrop
  <2>3. QED
    BY <1>2, <2>1, <2>2
<1>6. ASSUME NEW r \in Requests, ReceiveMatchCommit(r)
      PROVE  dispute'[d].status = "OPEN"
  BY <1>1, <1>2, <1>6 DEF ReceiveMatchCommit, Drop, NoDrop
<1>7. ASSUME NEW r \in Requests, ReceiveMismatchCommit(r)
      PROVE  dispute'[d].status = "OPEN"
  BY <1>1, <1>2, <1>7 DEF ReceiveMismatchCommit
<1>8. ASSUME NEW r \in Requests, ResolveCommit(r)
      PROVE  dispute'[d].status = "OPEN"
  BY <1>1, <1>2, <1>8 DEF ResolveCommit, Drop, NoDrop
<1>9. ASSUME NEW r \in Requests, HandoverCommit(r)
      PROVE  dispute'[d].status = "OPEN"
  BY <1>2, <1>9 DEF HandoverCommit
<1>10. QED
  BY <1>3, <1>4, <1>5, <1>6, <1>7, <1>8, <1>9, Writers

(* On either database, a DISPUTED drop has an open dispute, however many   *)
(* cashiers count it and resolve it at once: a count that was loaded       *)
(* before the resolution cannot put the drop back into dispute.            *)
THEOREM DisputedIsOpenHolds ==
  ASSUME CustodyAssumption
  PROVE  Spec => []DisputedIsOpen
<1> DEFINE Inv == TypeOK /\ LoadedDropExists /\ DisputedIsOpen
<1>1. Init => Inv
  BY InitType DEF Init, LoadedDropExists, Idle, DisputedIsOpen, NoDrop
<1>2. Inv /\ [Next]_vars => Inv'
  BY NextType, NextLoaded, NextDisputed
<1>3. QED
  BY <1>1, <1>2, PTL DEF Spec
-----------------------------------------------------------------------------
(***************************************************************************)
(* On the migrated database.  DropMovesOnce and the rest are not inductive *)
(* by themselves: that a pouch pays once rests on the unique index (needs  *)
(* OneEffect, and that every CASH_DROP_OUT row is held by the waiter of    *)
(* its drop), that a drawer is paid once on the pairing of the two rows by *)
(* the request that wrote both, and that nothing else takes a request's id *)
(* on a request writing only once, as it ends (Booked).                    *)
(***************************************************************************)
Booked == \A x \in ledger : req[x.id].pc = "done"

OneEffect ==
  \A x, y \in ledger :
    SameEffect(x, y) \/ (x.id = y.id /\ x.entryType = y.entryType) => x = y

Paired ==
  /\ \A x \in Entries("CASH_DROP_OUT") :
       /\ x.sourceType = "CASH_DROP" /\ x.sourceId \in Drops
       /\ drop[x.sourceId] # NoDrop /\ x.holder = drop[x.sourceId].waiter
       /\ \E y \in Entries("CASH_DROP_IN") :
            y.id = x.id /\ y.sourceId = x.sourceId /\ y.amountDelta = -x.amountDelta
  /\ \A y \in Entries("CASH_DROP_IN") : \E x \in Entries("CASH_DROP_OUT") :
       y.id = x.id /\ y.sourceId = x.sourceId /\ y.amountDelta = -x.amountDelta

HandedOver ==
  /\ \A r \in Requests : req[r].pc = "handing" => req[r].waiter # req[r].to
  /\ \A x \in Entries("WAITER_HANDOVER_OUT") :
       x.sourceType = "WAITER_SHIFT_HANDOVER" /\ x.sourceId = x.holder

SafeInv ==
  /\ TypeOK /\ LoadedDropExists
  /\ Booked /\ OneEffect /\ Paired
  /\ ReceivedIsCredited
  /\ HandedOver /\ HandoverOnce

(* The CHECKs of the migrations leave three writers: a resolution is       *)
(* always refused, and a forced clock-out commits only when it books no    *)
(* cash, and then writes no table but the shifts.                          *)
LEMMA MigratedWriters ==
  ASSUME CustodyAssumption, Migrated = TRUE, TypeOK, [Next]_vars
  PROVE  \/ UNCHANGED <<drop, dispute, ledger>>
         \/ \E r \in Requests :
              \/ \E d \in Drops : InitiateCommit(r, d)
              \/ ReceiveMatchCommit(r) \/ ReceiveMismatchCommit(r) \/ HandoverCommit(r)
<1>1. ASSUME NEW r \in Requests, ResolveCommit(r)
      PROVE  FALSE
  BY <1>1 DEF ResolveCommit, TxAccepted, DisputeStatusCheck
<1>2. ASSUME NEW r \in Requests, NEW d \in Drops, ForceCommit(r, d)
      PROVE  UNCHANGED <<drop, dispute, ledger>>
  <2> DEFINE q == req[r]
  <2>1. q \in ForceReq /\ q.amount \in Nat
    BY <1>2, RequestShape DEF ForceCommit, ForceReq
  <2>2. Insertable(ledger, ForceRows(r, q.waiter, d, q.amount, q.handling))
    BY <1>2 DEF ForceCommit, TxAccepted
  <2>3. ~(q.amount > 0 /\ q.handling \in {"DROP_TO_SAFE", "FLAG_AS_SHORTAGE"})
    BY <2>2 DEF ForceRows, Insertable, RowCheck, Row, EntryTypeCheck
  <2>4. ledger' = ledger
    BY <1>2, <2>3 DEF ForceCommit, ForceRows
  <2>5. drop' = [drop EXCEPT ![d] = NoDrop] /\ drop[d] = NoDrop
    BY <1>2, <2>3 DEF ForceCommit
  <2>6. dispute' = [dispute EXCEPT ![d] = dispute[d]]
    BY <1>2, <2>3 DEF ForceCommit
  <2>7. drop' = drop /\ dispute' = dispute
    BY <2>5, <2>6 DEF TypeOK
  <2>8. QED
    BY <2>4, <2>7
<1>3. QED
  BY <1>1, <1>2, Writers

(* What a matching count does, spelled out.                                *)
LEMMA MatchStep ==
  ASSUME CustodyAssumption, Migrated = TRUE, TypeOK, LoadedDropExists,
         NEW r \in Requests, ReceiveMatchCommit(r)
  PROVE  \E d \in Drops, c \in Cashiers, n \in Nat :
           LET out == Row(r, drop[d].waiter, "CASH_DROP_OUT", -n, "CASH_DROP", d)
               in == Row(r, c, "CASH_DROP_IN", n, "CASH_DROP", d)
           IN /\ ledger' = ledger \cup {out, in}
              /\ drop[d] # NoDrop
              /\ drop'[d].status = "RECEIVED" /\ drop'[d].drawer = c
              /\ drop'[d].resolution = n
              /\ \A e \in Drops : e # d => drop'[e] = drop[e]
              /\ \A y \in ledger : ~SameEffect(out, y) /\ ~SameEffect(in, y)
<1> DEFINE q == req[r]
<1>1. q.drop \in Drops /\ q.cashier \in Cashiers /\ q.amount \in Nat
  BY RequestShape DEF ReceiveMatchCommit, ReceiveReq
<1>2. drop[q.drop] # NoDrop
  BY DEF ReceiveMatchCommit, LoadedDropExists
<1>3. Insertable(ledger, ReceiveRows(r, q.drop, q.cashier, q.amount))
  BY DEF ReceiveMatchCommit, TxAccepted
<1>4. drop[q.drop] \in [status : {"INITIATED", "RECEIVED", "DISPUTED"}, waiter : Waiters,
        declared : Nat \ {0}, counted : Nat \cup {NULL},
        resolution : Nat \cup {NULL}, drawer : Cashiers \cup {NULL}]
  BY <1>1, <1>2 DEF TypeOK, Drop
<1>5. /\ drop'[q.drop].status = "RECEIVED" /\ drop'[q.drop].drawer = q.cashier
      /\ drop'[q.drop].resolution = q.amount
      /\ \A e \in Drops : e # q.drop => drop'[e] = drop[e]
  BY <1>1, <1>4 DEF ReceiveMatchCommit, TypeOK
<1>6. \A x \in ReceiveRows(r, q.drop, q.cashier, q.amount) : \A y \in ledger : ~SameEffect(x, y)
  BY <1>3 DEF Insertable
<1>7. ledger' = ledger \cup ReceiveRows(r, q.drop, q.cashier, q.amount)
  BY DEF ReceiveMatchCommit
<1>8. QED
  BY <1>1, <1>2, <1>5, <1>6, <1>7 DEF ReceiveRows

(* What a handover writes.                                                 *)
LEMMA HandoverStep ==
  ASSUME CustodyAssumption, Migrated = TRUE, TypeOK, HandedOver,
         NEW r \in Requests, HandoverCommit(r)
  PROVE  \/ ledger' = ledger
         \/ \E w \in Waiters, to \in Waiters, n \in Nat :
              LET out == Row(r, w, "WAITER_HANDOVER_OUT", -n, "WAITER_SHIFT_HANDOVER", w)
                  in == Row(r, to, "WAITER_HANDOVER_IN", n, "WAITER_SHIFT_HANDOVER", w)
              IN /\ w # to
                 /\ ledger' = ledger \cup {out, in}
                 /\ \A y \in ledger : ~SameEffect(out, y) /\ ~SameEffect(in, y)
<1> DEFINE q == req[r]
           rows == HandoverLedger(r, q.waiter, q.to, q.amount)
<1>1. q.waiter \in Waiters /\ q.to \in Waiters /\ q.amount \in Nat /\ q.waiter # q.to
  BY RequestShape DEF HandoverCommit, HandoverReq, HandedOver
<1>2. ledger' = ledger \cup rows /\ Insertable(ledger, rows)
  BY DEF HandoverCommit, TxAccepted
<1>3. \A x \in rows : \A y \in ledger : ~SameEffect(x, y)
  BY <1>2 DEF Insertable
<1>4. CASE q.amount = 0
  BY <1>2, <1>4 DEF HandoverLedger
<1>5. CASE q.amount # 0
  <2>1. rows = {Row(r, q.waiter, "WAITER_HANDOVER_OUT", -q.amount, "WAITER_SHIFT_HANDOVER", q.waiter),
                Row(r, q.to, "WAITER_HANDOVER_IN", q.amount, "WAITER_SHIFT_HANDOVER", q.waiter)}
    BY <1>5 DEF HandoverLedger
  <2>2. QED
    BY <1>1, <1>2, <1>3, <2>1
<1>6. QED
  BY <1>4, <1>5

-----------------------------------------------------------------------------
(* Rows of a request that has not ended, and of effects not yet booked,    *)
(* may join the ledger.                                                    *)
LEMMA Insertion ==
  ASSUME Booked, OneEffect, NEW r \in Requests, req[r].pc # "done", NEW out, NEW in,
         ledger' = ledger \cup {out, in}, out.id = r, in.id = r,
         out.entryType # in.entryType,
         \A y \in ledger : ~SameEffect(out, y) /\ ~SameEffect(in, y)
  PROVE  OneEffect'
<1>1. \A y \in ledger : y.id # r
  BY DEF Booked
<1>2. \A x, y \in ledger \cup {out, in} :
        SameEffect(x, y) \/ (x.id = y.id /\ x.entryType = y.entryType) => x = y
  BY <1>1 DEF OneEffect, SameEffect
<1>3. QED
  BY <1>2 DEF OneEffect

(* Every step keeps the effects of the ledger rows apart.                  *)
LEMMA NextOneEffect ==
  ASSUME CustodyAssumption, Migrated = TRUE, SafeInv, [Next]_vars
  PROVE  OneEffect'
<1>1. CASE UNCHANGED <<drop, dispute, ledger>>
  BY <1>1 DEF SafeInv, OneEffect
<1>2. ASSUME NEW r \in Requests,
             (\E d \in Drops : InitiateCommit(r, d)) \/ ReceiveMismatchCommit(r)
      PROVE  OneEffect'
  BY <1>2 DEF InitiateCommit, ReceiveMismatchCommit, SafeInv, OneEffect
<1>3. ASSUME NEW r \in Requests, ReceiveMatchCommit(r)
      PROVE  OneEffect'
  <2>1. req[r].pc # "done"
    BY <1>3 DEF ReceiveMatchCommit
  <2>2. PICK d \in Drops, c \in Cashiers, n \in Nat :
          LET out == Row(r, drop[d].waiter, "CASH_DROP_OUT", -n, "CASH_DROP", d)
              in == Row(r, c, "CASH_DROP_IN", n, "CASH_DROP", d)
          IN /\ ledger' = ledger \cup {out, in}
             /\ \A y \in ledger : ~SameEffect(out, y) /\ ~SameEffect(in, y)
    BY <1>3, MatchStep DEF SafeInv
  <2>3. QED
    BY <2>1, <2>2, Insertion DEF SafeInv, Row
<1>4. ASSUME NEW r \in Requests, HandoverCommit(r)
      PROVE  OneEffect'
  <2>1. req[r].pc # "done"
    BY <1>4 DEF HandoverCommit
  <2>2. CASE ledger' = ledger
    BY <2>2 DEF SafeInv, OneEffect
  <2>3. ASSUME NEW w \in Waiters, NEW to \in Waiters, NEW n \in Nat,
               LET out == Row(r, w, "WAITER_HANDOVER_OUT", -n, "WAITER_SHIFT_HANDOVER", w)
                   in == Row(r, to, "WAITER_HANDOVER_IN", n, "WAITER_SHIFT_HANDOVER", w)
               IN /\ ledger' = ledger \cup {out, in}
                  /\ \A y \in ledger : ~SameEffect(out, y) /\ ~SameEffect(in, y)
        PROVE  OneEffect'
    BY <2>1, <2>3, Insertion DEF SafeInv, Row
  <2>4. QED
    BY <1>4, <2>2, <2>3, HandoverStep DEF SafeInv
<1>5. QED
  BY <1>1, <1>2, <1>3, <1>4, MigratedWriters DEF SafeInv

(* Every step books rows only under requests that have ended.              *)
LEMMA NextBooked ==
  ASSUME CustodyAssumption, Migrated = TRUE, SafeInv, [Next]_vars
  PROVE  Booked'
<1>1. \A x \in ledger : req'[x.id].pc = "done"
  <2> SUFFICES ASSUME NEW x \in ledger PROVE req'[x.id].pc = "done"
    OBVIOUS
  <2>1. x.id \in Requests /\ req[x.id].pc = "done"
    BY DEF SafeInv, Booked, TypeOK, LedgerRow
  <2>2. QED
    BY <2>1, RequestStep DEF SafeInv
<1>2. ASSUME NEW x \in ledger', x \notin ledger
      PROVE  req'[x.id].pc = "done"
  <2>1. ASSUME NEW r \in Requests, Ends(r)
        PROVE  req'[r].pc = "done"
    BY <2>1 DEF Ends, SafeInv, TypeOK
  <2>2. ASSUME NEW r \in Requests, ReceiveMatchCommit(r)
        PROVE  Ends(r) /\ x.id = r
    <3>1. Ends(r) /\ x \in ReceiveRows(r, req[r].drop, req[r].cashier, req[r].amount)
      BY <1>2, <2>2 DEF ReceiveMatchCommit
    <3>2. QED
      BY <3>1 DEF ReceiveRows, Row
  <2>3. ASSUME NEW r \in Requests, HandoverCommit(r)
        PROVE  Ends(r) /\ x.id = r
    BY <1>2, <2>3 DEF HandoverCommit, HandoverLedger, Row
  <2>4. ASSUME NEW r \in Requests,
               (\E d \in Drops : InitiateCommit(r, d)) \/ ReceiveMismatchCommit(r)
        PROVE  ledger' = ledger
    BY <2>4 DEF InitiateCommit, ReceiveMismatchCommit
  <2>5. \E r \in Requests : ReceiveMatchCommit(r) \/ HandoverCommit(r)
    BY <1>2, <2>4, MigratedWriters DEF SafeInv
  <2>6. QED
    BY <2>1, <2>2, <2>3, <2>5
<1>3. QED
  BY <1>1, <1>2 DEF Booked

(* Every step keeps debit and credit of a drop paired.                     *)
LEMMA NextPaired ==
  ASSUME CustodyAssumption, Migrated = TRUE, SafeInv, [Next]_vars
  PROVE  Paired'
<1>1. \A d \in Drops : drop[d] # NoDrop => drop'[d] # NoDrop /\ drop'[d].waiter = drop[d].waiter
  BY DropsStay DEF SafeInv
<1>2. ASSUME Entries("CASH_DROP_OUT")' = Entries("CASH_DROP_OUT"),
             Entries("CASH_DROP_IN")' = Entries("CASH_DROP_IN")
      PROVE  Paired'
  BY <1>1, <1>2 DEF SafeInv, Paired
<1>3. CASE ledger' = ledger
  BY <1>2, <1>3 DEF Entries
<1>4. ASSUME NEW r \in Requests, HandoverCommit(r)
      PROVE  Paired'
  <2>1. \A x \in HandoverLedger(r, req[r].waiter, req[r].to, req[r].amount) :
          x.entryType \notin {"CASH_DROP_OUT", "CASH_DROP_IN"}
    BY DEF HandoverLedger, Row
  <2>2. QED
    BY <1>2, <1>4, <2>1 DEF HandoverCommit, Entries
<1>5. ASSUME NEW r \in Requests, ReceiveMatchCommit(r)
      PROVE  Paired'
  <2>1. PICK d \in Drops, c \in Cashiers, n \in Nat :
          LET out == Row(r, drop[d].waiter, "CASH_DROP_OUT", -n, "CASH_DROP", d)
              in == Row(r, c, "CASH_DROP_IN", n, "CASH_DROP", d)
          IN ledger' = ledger \cup {out, in} /\ drop[d] # NoDrop
    BY <1>5, MatchStep DEF SafeInv
  <2> DEFINE out == Row(r, drop[d].waiter, "CASH_DROP_OUT", -n, "CASH_DROP", d)
             in == Row(r, c, "CASH_DROP_IN", n, "CASH_DROP", d)
  <2>2. /\ Entries("CASH_DROP_OUT")' = Entries("CASH_DROP_OUT") \cup {out}
        /\ Entries("CASH_DROP_IN")' = Entries("CASH_DROP_IN") \cup {in}
    BY <2>1 DEF Entries, Row
  <2>3. /\ out.sourceType = "CASH_DROP" /\ out.sourceId = d /\ out.holder = drop[d].waiter
        /\ in.id = out.id /\ in.sourceId = out.sourceId /\ in.amountDelta = -out.amountDelta
    BY DEF Row
  <2> HIDE DEF out, in
  <2>4. \A x \in Entries("CASH_DROP_OUT") \cup {out} :
          /\ x.sourceType = "CASH_DROP" /\ x.sourceId \in Drops
          /\ drop'[x.sourceId] # NoDrop /\ x.holder = drop'[x.sourceId].waiter
          /\ \E y \in Entries("CASH_DROP_IN") \cup {in} :
               y.id = x.id /\ y.sourceId = x.sourceId /\ y.amountDelta = -x.amountDelta
    BY <1>1, <2>1, <2>3 DEF SafeInv, Paired
  <2>5. \A y \in Entries("CASH_DROP_IN") \cup {in} : \E x \in Entries("CASH_DROP_OUT") \cup {out} :
          y.id = x.id /\ y.sourceId = x.sourceId /\ y.amountDelta = -x.amountDelta
    BY <2>3 DEF SafeInv, Paired
  <2>6. QED
    BY <2>2, <2>4, <2>5 DEF Paired
<1>6. ASSUME NEW r \in Requests,
             (\E d \in Drops : InitiateCommit(r, d)) \/ ReceiveMismatchCommit(r)
      PROVE  ledger' = ledger
  BY <1>6 DEF InitiateCommit, ReceiveMismatchCommit
<1>7. QED
  BY <1>3, <1>4, <1>5, <1>6, MigratedWriters DEF SafeInv

(* The ledger only grows.                                                  *)
LEMMA LedgerGrows ==
  ASSUME [Next]_vars
  PROVE  ledger \subseteq ledger'
<1>1. ASSUME NEW r \in Requests, NEW d \in Drops, InitiateCommit(r, d) \/ ForceCommit(r, d)
      PROVE  ledger \subseteq ledger'
  <2>1. CASE InitiateCommit(r, d)
    BY <2>1 DEF InitiateCommit
  <2>2. CASE ForceCommit(r, d)
    BY <2>2 DEF ForceCommit
  <2>3. QED
    BY <1>1, <2>1, <2>2
<1>2. ASSUME NEW r \in Requests,
             ReceiveMatchCommit(r) \/ ReceiveMismatchCommit(r) \/ ResolveCommit(r)
               \/ HandoverCommit(r)
      PROVE  ledger \subseteq ledger'
  <2>1. CASE ReceiveMatchCommit(r)
    BY <2>1 DEF ReceiveMatchCommit
  <2>2. CASE ReceiveMismatchCommit(r)
    BY <2>2 DEF ReceiveMismatchCommit
  <2>3. CASE ResolveCommit(r)
    BY <2>3 DEF ResolveCommit
  <2>4. CASE HandoverCommit(r)
    BY <2>4 DEF HandoverCommit
  <2>5. QED
    BY <1>2, <2>1, <2>2, <2>3, <2>4
<1>3. QED
  BY <1>1, <1>2, Writers

(* Every step keeps the drops as the rows say.                             *)
LEMMA NextCredited ==
  ASSUME CustodyAssumption, Migrated = TRUE, SafeInv, [Next]_vars
  PROVE  ReceivedIsCredited'
<1> DEFINE Credited(d, x, rows) ==
      \E y \in rows : /\ y.entryType = "CASH_DROP_IN" /\ y.sourceId = d
                     /\ y.holder = x.drawer /\ y.amountDelta = x.resolution
           Now(d) == drop'[d].status = "RECEIVED" => Credited(d, drop'[d], ledger')
<1>1. \A d \in Drops : drop[d].status = "RECEIVED" => Credited(d, drop[d], ledger)
  BY DEF SafeInv, ReceivedIsCredited, Entries
<1>2. ASSUME NEW d \in Drops, drop'[d] = drop[d]
      PROVE  Now(d)
  BY <1>1, <1>2, LedgerGrows
<1>3. ASSUME UNCHANGED <<drop, dispute, ledger>>
      PROVE  \A d \in Drops : Now(d)
  BY <1>2, <1>3
<1>4. ASSUME NEW r \in Requests, NEW e \in Drops, InitiateCommit(r, e)
      PROVE  \A d \in Drops : Now(d)
  <2>1. drop'[e].status = "INITIATED"
    BY <1>4 DEF InitiateCommit, SafeInv, TypeOK, NoDrop
  <2>2. \A d \in Drops : d # e => drop'[d] = drop[d]
    BY <1>4 DEF InitiateCommit, SafeInv, TypeOK
  <2>3. QED
    BY <1>2, <2>1, <2>2
<1>5. ASSUME NEW r \in Requests, ReceiveMatchCommit(r)
      PROVE  \A d \in Drops : Now(d)
  <2>1. PICK e \in Drops, c \in Cashiers, n \in Nat :
          LET out == Row(r, drop[e].waiter, "CASH_DROP_OUT", -n, "CASH_DROP", e)
              in == Row(r, c, "CASH_DROP_IN", n, "CASH_DROP", e)
          IN /\ ledger' = ledger \cup {out, in}
             /\ drop'[e].status = "RECEIVED" /\ drop'[e].drawer = c /\ drop'[e].resolution = n
             /\ \A d \in Drops : d # e => drop'[d] = drop[d]
    BY <1>5, MatchStep DEF SafeInv
  <2>2. Credited(e, drop'[e], ledger')
    <3> DEFINE in == Row(r, c, "CASH_DROP_IN", n, "CASH_DROP", e)
    <3>1. in \in ledger'
      BY <2>1
    <3>2. /\ in.entryType = "CASH_DROP_IN" /\ in.sourceId = e
          /\ in.holder = c /\ in.amountDelta = n
      BY DEF Row
    <3> HIDE DEF in
    <3>3. QED
      BY <2>1, <3>1, <3>2
  <2>3. QED
    BY <1>2, <2>1, <2>2
<1>6. ASSUME NEW r \in Requests, ReceiveMismatchCommit(r)
      PROVE  \A d \in Drops : Now(d)
  <2> DEFINE e == req[r].drop
  <2>1. e \in Drops
    BY <1>6, RequestShape DEF ReceiveMismatchCommit, ReceiveReq, SafeInv
  <2>2. drop[e] \in Drop /\ drop[e] # NoDrop
    BY <1>6, <2>1 DEF ReceiveMismatchCommit, SafeInv, TypeOK, LoadedDropExists
  <2>3. drop'[e].status = "DISPUTED"
    BY <1>6, <2>1, <2>2 DEF ReceiveMismatchCommit, SafeInv, TypeOK, Drop
  <2>4. \A d \in Drops : d # e => drop'[d] = drop[d]
    BY <1>6, <2>1 DEF ReceiveMismatchCommit, SafeInv, TypeOK
  <2>5. QED
    BY <1>2, <2>3, <2>4
<1>7. ASSUME NEW r \in Requests, HandoverCommit(r)
      PROVE  drop' = drop
  BY <1>7 DEF HandoverCommit
<1>8. \A d \in Drops : Now(d)
  BY <1>2, <1>3, <1>4, <1>5, <1>6, <1>7, MigratedWriters DEF SafeInv
<1>9. QED
  BY <1>8 DEF ReceivedIsCredited, Entries

(* Every step keeps the handovers in flight well keyed.                    *)
LEMMA NextHandedOver ==
  ASSUME CustodyAssumption, Migrated = TRUE, SafeInv, [Next]_vars
  PROVE  HandedOver' /\ HandoverOnce'
<1> DEFINE Out == Entries("WAITER_HANDOVER_OUT")
           In == Entries("WAITER_HANDOVER_IN")
<1>1. \A r \in Requests : req'[r].pc = "handing" => req'[r].waiter # req'[r].to
  BY RequestStep DEF SafeInv, HandedOver
<1>2. ASSUME Out' = Out, In' = In
      PROVE  HandedOver' /\ HandoverOnce'
  BY <1>1, <1>2 DEF SafeInv, HandedOver, HandoverOnce
<1>3. CASE ledger' = ledger
  BY <1>2, <1>3 DEF Entries
<1>4. ASSUME NEW r \in Requests, ReceiveMatchCommit(r)
      PROVE  HandedOver' /\ HandoverOnce'
  <2>1. \A x \in ReceiveRows(r, req[r].drop, req[r].cashier, req[r].amount) :
          x.entryType \notin {"WAITER_HANDOVER_OUT", "WAITER_HANDOVER_IN"}
    BY DEF ReceiveRows, Row
  <2>2. QED
    BY <1>2, <1>4, <2>1 DEF ReceiveMatchCommit, Entries
<1>5. ASSUME NEW w \in Waiters, NEW to \in Waiters, NEW n \in Nat, NEW r \in Requests,
             NEW out, NEW in,
             out = Row(r, w, "WAITER_HANDOVER_OUT", -n, "WAITER_SHIFT_HANDOVER", w),
             in = Row(r, to, "WAITER_HANDOVER_IN", n, "WAITER_SHIFT_HANDOVER", w),
             w # to, ledger' = ledger \cup {out, in},
             \A y \in ledger : ~SameEffect(out, y)
      PROVE  HandedOver' /\ HandoverOnce'
  <2>1. Out' = Out \cup {out} /\ In' = In \cup {in}
    BY <1>5 DEF Entries, Row
  <2>2. /\ out.sourceType = "WAITER_SHIFT_HANDOVER" /\ out.sourceId = w /\ out.holder = w
        /\ out.entryType = "WAITER_HANDOVER_OUT"
        /\ out.id = in.id /\ in.sourceId = w /\ in.holder = to
        /\ out.amountDelta + in.amountDelta = 0
    BY <1>5 DEF Row
  <2>3. \A x \in Out \cup {out} : x.sourceType = "WAITER_SHIFT_HANDOVER" /\ x.sourceId = x.holder
    BY <2>2 DEF SafeInv, HandedOver
  <2>4. \A x \in Out : x.holder # w
    BY <1>5, <2>2 DEF SafeInv, HandedOver, SameEffect, Entries
  <2>5. \A x, y \in Out \cup {out} : x.holder = y.holder => x = y
    BY <2>2, <2>4 DEF SafeInv, HandoverOnce
  <2>6. \A y \in In \cup {in} : \E x \in Out \cup {out} :
          x.id = y.id /\ x.holder = y.sourceId /\ x.holder # y.holder
            /\ x.amountDelta + y.amountDelta = 0
    BY <1>5, <2>2 DEF SafeInv, HandoverOnce
  <2>7. HandedOver'
    BY <1>1, <2>1, <2>3 DEF HandedOver
  <2>8. HandoverOnce'
    BY <2>1, <2>5, <2>6 DEF HandoverOnce
  <2>9. QED
    BY <2>7, <2>8
<1>6. ASSUME NEW r \in Requests, HandoverCommit(r)
      PROVE  HandedOver' /\ HandoverOnce'
  BY <1>3, <1>5, <1>6, HandoverStep DEF SafeInv
<1>7. ASSUME NEW r \in Requests,
             (\E d \in Drops : InitiateCommit(r, d)) \/ ReceiveMismatchCommit(r)
      PROVE  ledger' = ledger
  BY <1>7 DEF InitiateCommit, ReceiveMismatchCommit
<1>8. QED
  BY <1>3, <1>4, <1>6, <1>7, MigratedWriters DEF SafeInv

-----------------------------------------------------------------------------
(* The strengthened invariant holds on the migrated database.              *)
LEMMA SafeInvariant ==
  ASSUME CustodyAssumption, Migrated = TRUE
  PROVE  Spec => []SafeInv
<1>1. Init => SafeInv
  <2> SUFFICES ASSUME Init PROVE SafeInv
    OBVIOUS
  <2>1. TypeOK
    BY InitType
  <2>2. LoadedDropExists /\ HandedOver
    BY DEF Init, LoadedDropExists, HandedOver, Idle, Entries
  <2>3. Booked /\ OneEffect /\ Paired /\ HandoverOnce
    BY DEF Init, Booked, OneEffect, Paired, HandoverOnce, Entries
  <2>4. ReceivedIsCredited
    BY DEF Init, ReceivedIsCredited, NoDrop
  <2>5. QED
    BY <2>1, <2>2, <2>3, <2>4 DEF SafeInv
<1>2. SafeInv /\ [Next]_vars => SafeInv'
  <2> SUFFICES ASSUME SafeInv, [Next]_vars PROVE SafeInv'
    OBVIOUS
  <2>1. TypeOK' /\ LoadedDropExists'
    BY NextType, NextLoaded DEF SafeInv
  <2>2. Booked' /\ OneEffect' /\ Paired'
    BY NextBooked, NextOneEffect, NextPaired
  <2>3. ReceivedIsCredited' /\ HandedOver' /\ HandoverOnce'
    BY NextCredited, NextHandedOver
  <2>4. QED
    BY <2>1, <2>2, <2>3 DEF SafeInv
<1>3. QED
  BY <1>1, <1>2, PTL DEF Spec

(* The rows a drop has in the ledger are one pair.                         *)
LEMMA PairedOnce ==
  ASSUME OneEffect, Paired
  PROVE  DropMovesOnce
<1>1. ASSUME NEW x \in Entries("CASH_DROP_OUT"), NEW y \in Entries("CASH_DROP_OUT"),
             x.sourceId = y.sourceId
      PROVE  x = y
  BY <1>1 DEF OneEffect, Paired, SameEffect, Entries
<1>2. ASSUME NEW x \in Entries("CASH_DROP_IN"), NEW y \in Entries("CASH_DROP_IN"),
             x.sourceId = y.sourceId
      PROVE  x = y
  <2>1. PICK u \in Entries("CASH_DROP_OUT") : x.id = u.id /\ x.sourceId = u.sourceId
    BY DEF Paired
  <2>2. PICK v \in Entries("CASH_DROP_OUT") : y.id = v.id /\ y.sourceId = v.sourceId
    BY DEF Paired
  <2>3. u = v
    BY <1>1, <1>2, <2>1, <2>2
  <2>4. QED
    BY <2>1, <2>2, <2>3 DEF OneEffect, Entries
<1>3. QED
  BY <1>1, <1>2 DEF DropMovesOnce

(* On the migrated database the cash of a drop leaves the pouch at most    *)
(* once and enters one drawer at most once, however many cashiers receive  *)
(* it concurrently, with no status check inside the transaction.           *)
THEOREM DropMovesOnceHolds ==
  ASSUME CustodyAssumption, Migrated = TRUE
  PROVE  Spec => []DropMovesOnce
<1>1. SafeInv => DropMovesOnce
  BY PairedOnce DEF SafeInv
<1>2. QED
  BY <1>1, SafeInvariant, PTL

(* .. what leaves the pouch is what enters the drawer ..                   *)
THEOREM DropConservesCashHolds ==
  ASSUME CustodyAssumption, Migrated = TRUE
  PROVE  Spec => []DropConservesCash
<1>1. SafeInv => DropConservesCash
  BY DEF SafeInv, Paired, DropConservesCash
<1>2. QED
  BY <1>1, SafeInvariant, PTL

(* .. a RECEIVED drop has its cash in the drawer it names ..               *)
THEOREM ReceivedIsCreditedHolds ==
  ASSUME CustodyAssumption, Migrated = TRUE
  PROVE  Spec => []ReceivedIsCredited
<1>1. SafeInv => ReceivedIsCredited
  BY DEF SafeInv
<1>2. QED
  BY <1>1, SafeInvariant, PTL

(* .. and a shift hands its cash over once, to another shift.              *)
THEOREM HandoverOnceHolds ==
  ASSUME CustodyAssumption, Migrated = TRUE
  PROVE  Spec => []HandoverOnce
<1>1. SafeInv => HandoverOnce
  BY DEF SafeInv
<1>2. QED
  BY <1>1, SafeInvariant, PTL
-----------------------------------------------------------------------------
(* The state of the abstract specification, as the tables show it.         *)
DeclaredNow == {d \in Drops : drop[d].status # "NONE"}
PaidOutNow == {[drop |-> x.sourceId, amount |-> -x.amountDelta] : x \in Entries("CASH_DROP_OUT")}
PaidInNow == {[drop |-> y.sourceId, drawer |-> y.holder, amount |-> y.amountDelta]
               : y \in Entries("CASH_DROP_IN")}

(* A drop that exists is seen by the abstract specification.               *)
LEMMA ExistingDrop ==
  ASSUME TypeOK, NEW d \in Drops
  PROVE  drop[d] # NoDrop <=> drop[d].status # "NONE"
<1>1. drop[d] \in Drop
  BY DEF TypeOK
<1>2. QED
  BY <1>1 DEF Drop, NoDrop

(* A matching count is the abstract Settle.                                *)
LEMMA MatchSettles ==
  ASSUME CustodyAssumption, Migrated = TRUE, SafeInv, SafeInv',
         NEW r \in Requests, ReceiveMatchCommit(r)
  PROVE  /\ DeclaredNow' = DeclaredNow
         /\ \E p \in PaidInNow' :
              /\ p.drop \in DeclaredNow /\ p.drawer \in Cashiers /\ p.amount \in Nat
              /\ \A q \in PaidInNow : q.drop # p.drop
              /\ PaidInNow' = PaidInNow \cup {p}
              /\ PaidOutNow' = PaidOutNow \cup {[drop |-> p.drop, amount |-> p.amount]}
<1>1. PICK d \in Drops, c \in Cashiers, n \in Nat :
        LET out == Row(r, drop[d].waiter, "CASH_DROP_OUT", -n, "CASH_DROP", d)
            in == Row(r, c, "CASH_DROP_IN", n, "CASH_DROP", d)
        IN /\ ledger' = ledger \cup {out, in}
           /\ drop[d] # NoDrop /\ drop'[d].status = "RECEIVED"
           /\ \A e \in Drops : e # d => drop'[e] = drop[e]
  BY MatchStep DEF SafeInv
<1> DEFINE out == Row(r, drop[d].waiter, "CASH_DROP_OUT", -n, "CASH_DROP", d)
           in == Row(r, c, "CASH_DROP_IN", n, "CASH_DROP", d)
           p == [drop |-> d, drawer |-> c, amount |-> n]
<1>2. DeclaredNow' = DeclaredNow /\ d \in DeclaredNow
  BY <1>1, ExistingDrop DEF DeclaredNow, SafeInv
<1>3. /\ Entries("CASH_DROP_OUT")' = Entries("CASH_DROP_OUT") \cup {out}
      /\ Entries("CASH_DROP_IN")' = Entries("CASH_DROP_IN") \cup {in}
  BY <1>1 DEF Entries, Row
<1>4. /\ [drop |-> in.sourceId, drawer |-> in.holder, amount |-> in.amountDelta] = p
      /\ [drop |-> out.sourceId, amount |-> -out.amountDelta] = [drop |-> d, amount |-> n]
      /\ in.sourceId = d /\ in.id = r
  BY DEF Row
<1>5. in \notin ledger
  <2>1. req[r].pc # "done"
    BY DEF ReceiveMatchCommit
  <2>2. QED
    BY <1>4, <2>1 DEF SafeInv, Booked
<1> HIDE DEF in, out
<1>6. \A y \in Entries("CASH_DROP_IN") : y.sourceId # d
  <2>1. \A x, y \in Entries("CASH_DROP_IN")' : x.sourceId = y.sourceId => x = y
    <3>1. DropMovesOnce'
      BY PairedOnce, PTL DEF SafeInv
    <3>2. QED
      BY <3>1 DEF DropMovesOnce
  <2>2. \A y \in Entries("CASH_DROP_IN") : y \in ledger
    BY DEF Entries
  <2>3. QED
    BY <1>3, <1>4, <1>5, <2>1, <2>2
<1>7. /\ PaidInNow' = PaidInNow \cup {p}
      /\ PaidOutNow' = PaidOutNow \cup {[drop |-> d, amount |-> n]}
  BY <1>3, <1>4 DEF PaidInNow, PaidOutNow
<1>8. \A q \in PaidInNow : q.drop # d
  BY <1>6 DEF PaidInNow
<1>9. /\ p \in PaidInNow' /\ p.drop = d /\ p.drawer = c /\ p.amount = n
  BY <1>7
<1> HIDE DEF p
<1>10. QED
  BY <1>2, <1>7, <1>8, <1>9

(* Every step is a step of the abstract transfer, or stutters.             *)
LEMMA NextTransfer ==
  ASSUME CustodyAssumption, Migrated = TRUE, SafeInv, SafeInv', [Next]_vars
  PROVE  [Transfer!TransferNext]_(Transfer!transferVars)
<1>1. /\ UNCHANGED <<DeclaredNow, PaidOutNow, PaidInNow>> => UNCHANGED Transfer!transferVars
      /\ \A d \in Drops : /\ d \in Drops \ DeclaredNow /\ DeclaredNow' = DeclaredNow \cup {d}
                         /\ UNCHANGED <<PaidOutNow, PaidInNow>> => Transfer!Declare(d)
  BY DEF Transfer!transferVars, Transfer!Declare, DeclaredNow, PaidOutNow, PaidInNow
<1>2. ASSUME Entries("CASH_DROP_OUT")' = Entries("CASH_DROP_OUT"),
             Entries("CASH_DROP_IN")' = Entries("CASH_DROP_IN")
      PROVE  UNCHANGED <<PaidOutNow, PaidInNow>>
  BY <1>2 DEF PaidOutNow, PaidInNow
<1>3. CASE UNCHANGED <<drop, dispute, ledger>>
  <2>1. UNCHANGED <<DeclaredNow, PaidOutNow, PaidInNow>>
    BY <1>2, <1>3 DEF DeclaredNow, Entries
  <2>2. QED
    BY <1>1, <2>1
<1>4. ASSUME NEW r \in Requests, NEW d \in Drops, InitiateCommit(r, d)
      PROVE  Transfer!TransferNext
  <2>1. /\ drop[d].status = "NONE" /\ drop'[d].status = "INITIATED"
        /\ \A e \in Drops : e # d => drop'[e] = drop[e]
    BY <1>4 DEF InitiateCommit, SafeInv, TypeOK, NoDrop
  <2>2. d \in Drops \ DeclaredNow /\ DeclaredNow' = DeclaredNow \cup {d}
    BY <2>1 DEF DeclaredNow
  <2>3. UNCHANGED <<PaidOutNow, PaidInNow>>
    BY <1>2, <1>4 DEF InitiateCommit, Entries
  <2>4. QED
    BY <1>1, <2>2, <2>3 DEF Transfer!TransferNext
<1>5. ASSUME NEW r \in Requests, ReceiveMatchCommit(r)
      PROVE  Transfer!TransferNext
  <2>1. Transfer!Settle
    BY <1>5, MatchSettles DEF Transfer!Settle, DeclaredNow, PaidOutNow, PaidInNow
  <2>2. QED
    BY <2>1 DEF Transfer!TransferNext
<1>6. ASSUME NEW r \in Requests, ReceiveMismatchCommit(r)
      PROVE  UNCHANGED Transfer!transferVars
  <2> DEFINE e == req[r].drop
  <2>1. e \in Drops /\ drop[e] # NoDrop
    BY <1>6, RequestShape DEF ReceiveMismatchCommit, ReceiveReq, SafeInv, LoadedDropExists
  <2>2. drop[e].status # "NONE" /\ drop'[e].status # "NONE"
    <3>1. drop'[e] # NoDrop
      BY <2>1, DropsStay, <1>6 DEF SafeInv
    <3>2. drop'[e] \in Drop
      BY <2>1 DEF SafeInv, TypeOK
    <3>3. QED
      BY <2>1, <3>1, <3>2, ExistingDrop DEF SafeInv, Drop, NoDrop
  <2>3. \A d \in Drops : d # e => drop'[d] = drop[d]
    BY <1>6, <2>1 DEF ReceiveMismatchCommit, SafeInv, TypeOK
  <2>4. DeclaredNow' = DeclaredNow
    BY <2>2, <2>3 DEF DeclaredNow
  <2>5. QED
    BY <1>1, <1>2, <1>6, <2>4 DEF ReceiveMismatchCommit, Entries
<1>7. ASSUME NEW r \in Requests, HandoverCommit(r)
      PROVE  UNCHANGED Transfer!transferVars
  <2>1. \A x \in HandoverLedger(r, req[r].waiter, req[r].to, req[r].amount) :
          x.entryType \notin {"CASH_DROP_OUT", "CASH_DROP_IN"}
    BY DEF HandoverLedger, Row
  <2>2. UNCHANGED <<PaidOutNow, PaidInNow>>
    BY <1>2, <1>7, <2>1 DEF HandoverCommit, Entries
  <2>3. DeclaredNow' = DeclaredNow
    BY <1>7 DEF HandoverCommit, DeclaredNow
  <2>4. QED
    BY <1>1, <2>2, <2>3
<1>8. QED
  BY <1>3, <1>4, <1>5, <1>6, <1>7, MigratedWriters DEF SafeInv

(* On the migrated database cash custody implements the abstract transfer: *)
(* the request handlers together move each drop once, whole, for good.     *)
THEOREM TransferImplemented ==
  ASSUME CustodyAssumption, Migrated = TRUE
  PROVE  Spec => ImplementsTransfer
<1>1. Init => Transfer!TransferInit
  BY DEF Init, Transfer!TransferInit, Entries, NoDrop
<1>2. SafeInv /\ SafeInv' /\ [Next]_vars => [Transfer!TransferNext]_(Transfer!transferVars)
  BY NextTransfer
<1>3. QED
  BY <1>1, <1>2, SafeInvariant, PTL DEF Spec, ImplementsTransfer, Transfer!TransferSpec

=============================================================================
