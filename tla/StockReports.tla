----------------------------- MODULE StockReports -----------------------------
(***************************************************************************)
(* What the stock pages read (src/inventory/inventory.service.ts): the     *)
(* series of movements, the analytics of the restaurants and of the main   *)
(* warehouse, the list of balances, the ledger, and the lists of transfers *)
(* and supply requests.  Each of them reads the tables by filters of its   *)
(* own: by role, by location, by type of entry, by a day that is the       *)
(* restaurant's in two of them and the UTC day in the third.               *)
(*                                                                         *)
(* Stockroom and Supply say how the tables are written, step by step; here *)
(* a write is one action, and the ledger keeps the moment.  An ingredient  *)
(* keeps its cost, a transfer has one line.  Rounding, names and the order *)
(* of rows are left out, and so are pages: a list is the whole list.       *)
(***************************************************************************)
EXTENDS Integers, SequencesExt

CONSTANTS Main,       \* the main warehouse
          Stores,     \* the branch stores
          Goods,      \* ids of inventory_ingredients
          Cost,       \* their unit_cost
          Par,        \* their par_level
          Dishes,     \* what order items are called
          Vendors,    \* ids of vendors
          Transfers,  \* ids of inventory_transfers
          Drivers,    \* ids of drivers
          Requests,   \* ids of inventory_supply_requests
          Slots,      \* the moments of a day that are told apart
          Zone,       \* by how many the restaurant's clock is ahead of UTC
          Cap,        \* how many rows the analytics take of a list: 20
          MaxMoves,   \* bound: entries of the ledger
          MaxTime,    \* bound: the last moment
          CENTRAL,    \* a caller who is an owner or a store manager
          NULL        \* the SQL null

(* What the constants are.                                                 *)
StockReportsAssumption ==
  /\ Main \notin Stores /\ IsFiniteSet(Goods) /\ IsFiniteSet(Transfers)
  /\ Cost \in [Goods -> Nat] /\ Par \in [Goods -> Nat]
  /\ Slots \in Nat \ {0} /\ Zone \in 0..Slots /\ {Cap, MaxMoves, MaxTime} \subseteq Nat
  /\ CENTRAL \notin Stores

VARIABLES
  now,       \* moments since a midnight in UTC
  open,      \* branch stores that have a row
  good,      \* inventory_ingredients.status
  shelf,     \* inventory_stock_balances.on_hand_qty
  ledger,    \* inventory_ledger_entries, oldest first
  transfer,  \* inventory_transfers
  request    \* inventory_supply_requests

vars == <<now, open, good, shelf, ledger, transfer, request>>
-----------------------------------------------------------------------------
Places == {Main} \cup Stores
OnTheWay == {"SENT", "IN_TRANSIT", "ARRIVED"}
None == [status |-> "NONE"]
Entry ==
  [type : {"OPENING", "RECEIVE", "WASTE", "SALE_DEPLETE", "REVERSAL", "PRODUCE_CONSUME", "PRODUCE_OUTPUT",
           "TRANSFER_OUT", "TRANSFER_IN", "TRANSFER_RETURN", "TRANSFER_SHORTAGE"},
   place : Places, good : Goods, delta : Int, at : 0..MaxTime, by : Dishes \cup Vendors \cup {NULL}]
Transfer == [status : OnTheWay \cup {"RECEIVED", "CANCELLED"}, to : Stores, good : Goods, sent : Nat,
             at : 0..MaxTime, driver : Drivers \cup {NULL}]
Request == [status : {"SUBMITTED", "APPROVED", "REJECTED", "PREPARING", "FULFILLED"}, store : Stores]

(* The tables have their types.                                            *)
TypeOK ==
  /\ now \in 0..MaxTime /\ open \subseteq Stores
  /\ good \in [Goods -> {"NONE", "ACTIVE", "INACTIVE"}]
  /\ shelf \in [Places \X Goods -> Int] /\ ledger \in Seq(Entry) /\ Len(ledger) <= MaxMoves
  /\ transfer \in [Transfers -> {None} \cup Transfer]
  /\ request \in [Requests -> {None} \cup Request]

Init ==
  /\ now = 0 /\ open = {} /\ good = [g \in Goods |-> "NONE"]
  /\ shelf = [x \in Places \X Goods |-> 0] /\ ledger = <<>>
  /\ transfer = [t \in Transfers |-> None] /\ request = [r \in Requests |-> None]
-----------------------------------------------------------------------------
(* The writers of the tables.                                              *)
Row(type, p, g, n, by) == [type |-> type, place |-> p, good |-> g, delta |-> n, at |-> now, by |-> by]
Usable(p) == p = Main \/ p \in open

(* applyDelta: the balance and the entry, of one row after the other.      *)
Post(es) ==
  /\ Len(ledger) + Len(es) <= MaxMoves /\ ledger' = ledger \o es
  /\ shelf' = [x \in Places \X Goods |->
       shelf[x] + MapThenSumSet(LAMBDA i : es[i].delta,
                                {i \in DOMAIN es : es[i].place = x[1] /\ es[i].good = x[2]})]

(* ensureDefaultLocation: a store is created when somebody looks for it.   *)
OpenStore(s) ==
  /\ s \notin open /\ open' = open \cup {s}
  /\ UNCHANGED <<now, good, shelf, ledger, transfer, request>>

CreateIngredient(p, g, n) ==
  /\ good[g] = "NONE" /\ Usable(p) /\ good' = [good EXCEPT ![g] = "ACTIVE"]
  /\ IF n > 0 THEN Post(<<Row("OPENING", p, g, n, NULL)>>) ELSE UNCHANGED <<shelf, ledger>>
  /\ UNCHANGED <<now, open, transfer, request>>

(* What is on no shelf may be taken off the list, where it still counts.   *)
DeleteIngredient(g) ==
  /\ good[g] = "ACTIVE" /\ MapThenSumSet(LAMBDA p : shelf[p, g], Places) <= 0
  /\ good' = [good EXCEPT ![g] = "INACTIVE"]
  /\ UNCHANGED <<now, open, shelf, ledger, transfer, request>>

Receive(p, g, n, v) ==
  /\ good[g] # "NONE" /\ Usable(p) /\ Post(<<Row("RECEIVE", p, g, n, v)>>)
  /\ UNCHANGED <<now, open, good, transfer, request>>
Waste(s, g) ==
  /\ good[g] # "NONE" /\ Usable(s) /\ Post(<<Row("WASTE", s, g, -1, NULL)>>)
  /\ UNCHANGED <<now, open, good, transfer, request>>

(* A dish is sold, and cancelled after it was.                             *)
Deplete(s, g, d) ==
  /\ good[g] # "NONE" /\ Usable(s) /\ Post(<<Row("SALE_DEPLETE", s, g, -1, d)>>)
  /\ UNCHANGED <<now, open, good, transfer, request>>
Times(type, s, g, d) ==
  Cardinality({j \in DOMAIN ledger : /\ ledger[j].type = type /\ ledger[j].place = s
                                     /\ ledger[j].good = g /\ ledger[j].by = d})
CancelSale(s, g, d) ==
  /\ Times("REVERSAL", s, g, d) < Times("SALE_DEPLETE", s, g, d)
  /\ Post(<<Row("REVERSAL", s, g, 1, d)>>)
  /\ UNCHANGED <<now, open, good, transfer, request>>

(* postProductionBatch.                                                    *)
Produce(p, from, to) ==
  /\ from # to /\ good[from] # "NONE" /\ good[to] # "NONE" /\ Usable(p) /\ shelf[p, from] >= 1
  /\ Post(<<Row("PRODUCE_CONSUME", p, from, -1, NULL), Row("PRODUCE_OUTPUT", p, to, 1, NULL)>>)
  /\ UNCHANGED <<now, open, good, transfer, request>>

(* createAndSendTransfer, the trip, and what the store does with it.       *)
Send(t, s, g, n, d) ==
  /\ transfer[t] = None /\ s \in open /\ good[g] # "NONE" /\ shelf[Main, g] >= n
  /\ transfer' = [transfer EXCEPT ![t] =
       [status |-> "SENT", to |-> s, good |-> g, sent |-> n, at |-> now, driver |-> d]]
  /\ Post(<<Row("TRANSFER_OUT", Main, g, -n, NULL)>>)
  /\ UNCHANGED <<now, open, good, request>>
Drive(t) ==
  /\ \/ transfer[t].status = "SENT" /\ transfer' = [transfer EXCEPT ![t].status = "IN_TRANSIT"]
     \/ transfer[t].status = "IN_TRANSIT" /\ transfer' = [transfer EXCEPT ![t].status = "ARRIVED"]
  /\ UNCHANGED <<now, open, good, shelf, ledger, request>>
Accept(t, n) ==
  /\ transfer[t].status \in OnTheWay /\ n <= transfer[t].sent
  /\ LET in == Row("TRANSFER_IN", transfer[t].to, transfer[t].good, n, NULL)
         short == Row("TRANSFER_SHORTAGE", Main, transfer[t].good, 0, NULL) IN
       Post((IF n > 0 THEN <<in>> ELSE <<>>) \o (IF n < transfer[t].sent THEN <<short>> ELSE <<>>))
  /\ transfer' = [transfer EXCEPT ![t].status = "RECEIVED"]
  /\ UNCHANGED <<now, open, good, request>>
Reject(t) ==
  /\ transfer[t].status \in {"SENT", "IN_TRANSIT"}
  /\ Post(<<Row("TRANSFER_RETURN", Main, transfer[t].good, transfer[t].sent, NULL)>>)
  /\ transfer' = [transfer EXCEPT ![t].status = "CANCELLED"]
  /\ UNCHANGED <<now, open, good, request>>

(* Supply requests and what is decided of them.                            *)
Ask(r, s) ==
  /\ request[r] = None /\ s \in open
  /\ request' = [request EXCEPT ![r] = [status |-> "SUBMITTED", store |-> s]]
  /\ UNCHANGED <<now, open, good, shelf, ledger, transfer>>
Decide(r) ==
  /\ \/ request[r].status = "SUBMITTED" /\ request' = [request EXCEPT ![r].status = "APPROVED"]
     \/ request[r].status \in {"SUBMITTED", "APPROVED"} /\ request' = [request EXCEPT ![r].status = "REJECTED"]
     \/ request[r].status = "APPROVED" /\ request' = [request EXCEPT ![r].status = "PREPARING"]
     \/ request[r].status = "PREPARING" /\ request' = [request EXCEPT ![r].status = "FULFILLED"]
  /\ UNCHANGED <<now, open, good, shelf, ledger, transfer>>

Pass == now < MaxTime /\ now' = now + 1 /\ UNCHANGED <<open, good, shelf, ledger, transfer, request>>
-----------------------------------------------------------------------------
(* resolveScopedLocationId: a restaurant's manager sees his store only; an *)
(* owner sees the location asked for, or all of them.                      *)
MayAsk(caller, asked) == caller = CENTRAL \/ asked \in {NULL, caller}
Scoped(caller, asked) ==
  IF caller # CENTRAL THEN {caller} ELSE IF asked = NULL THEN Places ELSE {asked}

(* listLocations.                                                          *)
Locations(caller) == IF caller = CENTRAL THEN {Main} \cup open ELSE {caller}

(* The restaurant's day, and the moment it begins.                         *)
LocalDay(m) == (m + Zone) \div Slots
UtcDay(m) == m \div Slots
Midnight(day) == day * Slots - Zone

SumOver(S, Op(_)) == MapThenSumSet(Op, S)
Amount(i) == IF ledger[i].delta < 0 THEN -ledger[i].delta ELSE ledger[i].delta
Value(i) == Amount(i) * Cost[ledger[i].good]
Within(P, types, from, to) ==
  {i \in DOMAIN ledger : /\ ledger[i].place \in P /\ ledger[i].type \in types
                         /\ LocalDay(ledger[i].at) \in from..to}
Of(S, g) == {i \in S : ledger[i].good = g}
At(S, day) == {i \in S : LocalDay(ledger[i].at) = day}
-----------------------------------------------------------------------------
(* getMovementSeries: a bucket for each day asked for, named by the UTC    *)
(* day of its local midnight; an entry whose UTC day has no bucket is left *)
(* out.                                                                    *)
Buckets(from, to) == {UtcDay(Midnight(day)) : day \in from..to}
Kinds ==
  [receive |-> {"RECEIVE", "OPENING"}, waste |-> {"WASTE", "YIELD_TRIM"}, produceOut |-> {"PRODUCE_OUTPUT"},
   produceUse |-> {"PRODUCE_CONSUME"}, transferOut |-> {"TRANSFER_OUT"},
   transferIn |-> {"TRANSFER_IN", "TRANSFER_RETURN"}, sales |-> {"SALE_DEPLETE"}]
SeriesRow(P, bucket, from, to) ==
  [k \in DOMAIN Kinds |->
     SumOver({i \in Within(P, Kinds[k], from, to) : UtcDay(ledger[i].at) = bucket}, Value)]
SeriesTotals(P, from, to) ==
  [k \in DOMAIN Kinds |->
     SumOver(Buckets(from, to), LAMBDA b : SeriesRow(P, b, from, to)[k])]

(* listLedger with its groups of types, and what a row is worth.           *)
Groups ==
  [PRODUCTION |-> {"PRODUCE_CONSUME", "PRODUCE_OUTPUT"},
   TRANSFERS |-> {"TRANSFER_OUT", "TRANSFER_IN", "TRANSFER_RETURN", "TRANSFER_SHORTAGE"},
   PURCHASES |-> {"RECEIVE", "OPENING"}]
LedgerRows(P, types) == {i \in DOMAIN ledger : ledger[i].place \in P /\ ledger[i].type \in types}
AnyType == {ledger[i].type : i \in DOMAIN ledger}
LineValue(i) == ledger[i].delta * Cost[ledger[i].good]
-----------------------------------------------------------------------------
(* listBalances: of an ingredient's rows the one of the location, and      *)
(* without a location whichever comes first.  pick says which.             *)
Stocked(g, P) == {p \in P : \E i \in DOMAIN ledger : /\ ledger[i].place = p /\ ledger[i].good = g
                                                     /\ ledger[i].type # "TRANSFER_SHORTAGE"}
Picks(P) == {f \in [Goods -> P] : \A g \in Goods : Stocked(g, P) # {} => f[g] \in Stocked(g, P)}
Listed == {g \in Goods : good[g] = "ACTIVE"}
Balances(pick) ==
  LET held(g) == shelf[pick[g], g]
      low == {g \in Listed : held(g) <= Par[g]}
  IN [count |-> Cardinality(Listed), low |-> low, value |-> SumOver(Listed, LAMBDA g : held(g) * Cost[g]),
      lowValue |-> SumOver(low, LAMBDA g : held(g) * Cost[g])]
-----------------------------------------------------------------------------
(* getBranchAnalytics.  No store at all is no filter at all, so that an    *)
(* owner without a restaurant store reads the warehouse's shelves.         *)
BranchScope(caller) == Locations(caller) \ {Main}
Covered(L) == IF L = {} THEN Places ELSE L

Using == {"SALE_DEPLETE", "PRODUCE_CONSUME"}
Taking == {"RECEIVE", "TRANSFER_IN"}
Incoming(L) == {t \in Transfers : transfer[t].status \in OnTheWay /\ transfer[t].to \in L}
(* The newest rows, up to the cap; which of them is a choice.              *)
Taken(S) == IF Cardinality(S) <= Cap THEN {S} ELSE {T \in SUBSET S : Cardinality(T) = Cap}
Changes(P, g) ==
  SumOver({i \in DOMAIN ledger : ledger[i].place \in P /\ ledger[i].good = g /\ ledger[i].at >= now - Slots},
          LAMBDA i : ledger[i].delta)

BranchItem(L, coming, g, from, to) ==
  LET P == Covered(L)
      used == Of(Within(P, Using, from, to), g)
      taken == Of(Within(P, Taking, from, to), g)
  IN [onHand |-> SumOver(P, LAMBDA p : shelf[p, g]),
      incoming |-> SumOver({t \in coming : transfer[t].good = g}, LAMBDA t : transfer[t].sent),
      used |-> SumOver(used, Amount), waste |-> SumOver(Of(Within(P, {"WASTE"}, from, to), g), Amount),
      change |-> IF good[g] = "ACTIVE" THEN Changes(P, g) ELSE 0,
      dailyUsed |-> [day \in from..to |-> SumOver(At(used, day), Amount)],
      dailyReceived |-> [day \in from..to |-> SumOver(At(taken, day), Amount)]]

(* What an ingredient went into: the kitchen, a dish, or a sale of a dish  *)
(* that is gone.                                                           *)
Label(i) ==
  IF ledger[i].type = "PRODUCE_CONSUME" THEN "Kitchen production"
  ELSE IF ledger[i].by = NULL THEN "Other sales" ELSE ledger[i].by
Labels == {"Kitchen production", "Other sales"} \cup Dishes
UsedBy(L, g, from, to) ==
  [label \in Labels |->
     SumOver({i \in Of(Within(Covered(L), Using, from, to), g) : Label(i) = label}, Amount)]
MenuItem(L, dish, from, to) ==
  [g \in Goods |->
     SumOver({i \in Of(Within(Covered(L), {"SALE_DEPLETE"}, from, to), g) : Label(i) = dish}, Amount)]
BranchTrend(L, from, to) ==
  LET P == Covered(L)
  IN [day \in from..to |->
        [used |-> SumOver(At(Within(P, Using, from, to), day), Amount),
         waste |-> SumOver(At(Within(P, {"WASTE"}, from, to), day), Amount),
         received |-> SumOver(At(Within(P, Taking, from, to), day), Amount)]]
(* An ingredient off the list has no par level here.                       *)
LowStock(P) == {g \in Listed : Par[g] > 0 /\ SumOver(P, LAMBDA p : shelf[p, g]) <= Par[g]}
BranchSummary(L, coming, from, to) ==
  LET item == [g \in Goods |-> BranchItem(L, coming, g, from, to)]
  IN [used |-> SumOver(Goods, LAMBDA g : item[g].used), waste |-> SumOver(Goods, LAMBDA g : item[g].waste),
      usedValue |-> SumOver(Within(Covered(L), Using, from, to), Value), incoming |-> Cardinality(coming),
      value |-> SumOver(Goods, LAMBDA g : item[g].onHand * Cost[g]), low |-> LowStock(Covered(L))]
-----------------------------------------------------------------------------
(* getCentralAnalytics: the warehouse alone.                               *)
CentralEntries(type, from, to) == Within({Main}, {type}, from, to)
CentralItem(g, from, to) ==
  LET received == Of(CentralEntries("RECEIVE", from, to), g)
      sent == Of(CentralEntries("TRANSFER_OUT", from, to), g)
  IN [onHand |-> shelf[Main, g], received |-> SumOver(received, Amount), sent |-> SumOver(sent, Amount),
      waste |-> SumOver(Of(CentralEntries("WASTE", from, to), g), Amount),
      change |-> IF good[g] = "ACTIVE" THEN Changes({Main}, g) ELSE 0,
      dailyReceived |-> [day \in from..to |-> SumOver(At(received, day), Amount)],
      dailySent |-> [day \in from..to |-> SumOver(At(sent, day), Amount)]]
CentralTrend(from, to) ==
  [day \in from..to |->
     [received |-> SumOver(At(CentralEntries("RECEIVE", from, to), day), Amount),
      sent |-> SumOver(At(CentralEntries("TRANSFER_OUT", from, to), day), Amount)]]
ReceivedPerVendor(from, to) ==
  [v \in Vendors \cup {NULL} |->
     SumOver({i \in CentralEntries("RECEIVE", from, to) : ledger[i].by = v}, Amount)]

(* What a branch was sent is read from the transfers, not from the ledger. *)
SentIn(from, to) ==
  {t \in Transfers : /\ transfer[t].status \in OnTheWay \cup {"RECEIVED"}
                     /\ LocalDay(transfer[t].at) \in from..to}
SentPerBranch(from, to) ==
  [s \in Stores |-> SumOver({t \in SentIn(from, to) : transfer[t].to = s}, LAMBDA t : transfer[t].sent)]
CentralSummary(from, to) ==
  LET item == [g \in Goods |-> CentralItem(g, from, to)]
  IN [received |-> SumOver(Goods, LAMBDA g : item[g].received), sent |-> SumOver(Goods, LAMBDA g : item[g].sent),
      waste |-> SumOver(Goods, LAMBDA g : item[g].waste),
      inTransit |-> Cardinality({t \in Transfers : transfer[t].status \in OnTheWay}),
      value |-> SumOver(Goods, LAMBDA g : item[g].onHand * Cost[g]), low |-> LowStock({Main})]
Unanswered == {r \in Requests : request[r].status = "SUBMITTED"}
-----------------------------------------------------------------------------
(* listSupplyRequests: what waits for the owner, what is one's own.        *)
PendingRequests(caller) ==
  IF caller # CENTRAL THEN {}
  ELSE {r \in Requests : request[r].status \in {"SUBMITTED", "APPROVED", "PREPARING"}}
MyRequests(s) == {r \in Requests : request[r] # None /\ request[r].store = s}

(* listTransfers with direction "incoming", and a driver's own list.  Who  *)
(* is no driver sees everybody's.                                          *)
IncomingTo(caller) ==
  {t \in Transfers : transfer[t].status \in OnTheWay /\ (caller # CENTRAL => transfer[t].to = caller)}
DriversTrips(d) ==
  LET mine == {t \in Transfers : /\ transfer[t].status \in OnTheWay \cup {"RECEIVED"}
                                 /\ d # NULL => transfer[t].driver = d}
      In(states) == {t \in mine : transfer[t].status \in states}
  IN [pendingPickup |-> In({"SENT"}), inTransit |-> In({"IN_TRANSIT"}), completed |-> In({"RECEIVED", "ARRIVED"})]
-----------------------------------------------------------------------------
Total(f) == SumOver(DOMAIN f, LAMBDA x : f[x])
Today == LocalDay(now)
Deltas(P, g, S) == SumOver({i \in S : ledger[i].place \in P /\ ledger[i].good = g}, LAMBDA i : ledger[i].delta)

(* The series shows every movement of its days but those of the last       *)
(* day's hours that are the next day in the restaurant and not in UTC ...  *)
(* which it drops, whoever asks (getMovementSeries).                       *)
AfterMidnight(P, k, from, to) == {i \in Within(P, Kinds[k], from, to) : ledger[i].at >= to * Slots}
SeriesComplete(P, from, to) ==
  \A k \in DOMAIN Kinds :
    SeriesTotals(P, from, to)[k] + SumOver(AfterMidnight(P, k, from, to), Value)
      = SumOver(Within(P, Kinds[k], from, to), Value)

(* However the use of an ingredient is split, by day, by what it went into *)
(* or by dish, the parts make the whole.                                   *)
UseAgrees(L, coming, from, to) ==
  LET sum == BranchSummary(L, coming, from, to)
      trend == BranchTrend(L, from, to)
      item(g) == BranchItem(L, coming, g, from, to)
  IN /\ sum.used = SumOver(from..to, LAMBDA day : trend[day].used)
     /\ sum.waste = SumOver(from..to, LAMBDA day : trend[day].waste)
     /\ SumOver(Goods, LAMBDA g : Total(item(g).dailyReceived)) = SumOver(from..to, LAMBDA day : trend[day].received)
     /\ \A g \in Goods :
          LET by == UsedBy(L, g, from, to) IN
            /\ item(g).used = Total(item(g).dailyUsed) /\ item(g).used = Total(by)
            /\ item(g).used = by["Kitchen production"]
                 + SumOver(Dishes \cup {"Other sales"}, LAMBDA d : MenuItem(L, d, from, to)[g])

(* The restaurants' pages add up to the owner's.                           *)
StoresAddUp(from, to) ==
  LET all == BranchSummary(open, Incoming(open), from, to)
      own == {<<s, BranchSummary({s}, Incoming({s}), from, to)>> : s \in open}
  IN IF open = {}
     THEN all.value = CentralSummary(from, to).value /\ all.incoming = 0
     ELSE /\ all.used = SumOver(own, LAMBDA x : x[2].used)
          /\ all.waste = SumOver(own, LAMBDA x : x[2].waste)
          /\ all.value = SumOver(own, LAMBDA x : x[2].value)
          /\ all.incoming = CentralSummary(from, to).inTransit
          /\ all.incoming = SumOver(open, LAMBDA s : Cardinality(IncomingTo(s)))

(* What a page says is on the shelf is what the ledger explains, what has  *)
(* changed in a day is the difference to what was there the day before,    *)
(* and the list of balances and the analytics value the same shelf: they   *)
(* differ by what is off the list, and in what is low only where the par   *)
(* level is zero.                                                          *)
BooksAgree(p) ==
  LET item(g) == BranchItem({p}, {}, g, Today, Today)
      gone == {g \in Goods : good[g] # "ACTIVE"}
      list == Balances([g \in Goods |-> p])
  IN /\ \A g \in Goods :
          /\ item(g).onHand = Deltas({p}, g, LedgerRows({p}, AnyType))
          /\ good[g] = "ACTIVE" =>
               item(g).change = item(g).onHand - Deltas({p}, g, {i \in DOMAIN ledger : ledger[i].at < now - Slots})
     /\ list.value + SumOver(gone, LAMBDA g : item(g).onHand * Cost[g]) = BranchSummary({p}, {}, Today, Today).value
     /\ list.low \cap {g \in Goods : Par[g] > 0} = LowStock({p})
     /\ list.value = SumOver(LedgerRows({p}, AnyType),
          LAMBDA i : IF ledger[i].good \in Listed THEN LineValue(i) ELSE 0)

(* Asked for all locations, the list shows one shelf of each ingredient:   *)
(* it is right as long as no ingredient lies in two places.                *)
ListMissesNothing ==
  (\A g \in Goods : Cardinality(Stocked(g, Places)) <= 1) =>
    \A pick \in Picks(Places) :
      Balances(pick).value = SumOver(Listed, LAMBDA g : SumOver(Places, LAMBDA p : shelf[p, g] * Cost[g]))

(* The warehouse's deliveries are its vendors'; what it sent is what the   *)
(* branches were sent and what was sent back since; of all days, what came *)
(* back is in the ledger, and what is not there yet is on the stores'      *)
(* pages.                                                                  *)
WarehouseAgrees(from, to) ==
  LET sum == CentralSummary(from, to)
      trend == CentralTrend(from, to)
      back == {t \in Transfers : transfer[t].status = "CANCELLED" /\ LocalDay(transfer[t].at) \in from..to}
      returned == Within({Main}, {"TRANSFER_RETURN"}, 0, Today)
  IN /\ sum.received = SumOver(from..to, LAMBDA day : trend[day].received)
     /\ sum.received = Total(ReceivedPerVendor(from, to))
     /\ sum.sent = SumOver(from..to, LAMBDA day : trend[day].sent)
     /\ sum.sent = Total(SentPerBranch(from, to)) + SumOver(back, LAMBDA t : transfer[t].sent)
     /\ from = 0 => sum.sent = Total(SentPerBranch(0, Today)) + SumOver(returned, Amount)
     /\ \A coming \in Taken(Incoming(open)) :
          Cardinality(coming) = IF sum.inTransit < Cap THEN sum.inTransit ELSE Cap

(* Who waits is on somebody's list.                                        *)
ListsComplete ==
  /\ Unanswered \subseteq PendingRequests(CENTRAL)
  /\ PendingRequests(CENTRAL) \subseteq UNION {MyRequests(s) : s \in open}
  /\ \A t \in Transfers : transfer[t] # None =>
       /\ t \in IncomingTo(CENTRAL) => t \in IncomingTo(transfer[t].to)
       /\ transfer[t].status # "CANCELLED" =>
            LET list == DriversTrips(transfer[t].driver)
            IN Cardinality({k \in DOMAIN list : t \in list[k]}) = 1

(* The stock pages do not contradict one another: the restaurants', those  *)
(* of the warehouse, and the lists.                                        *)
KitchenReportsHold ==
  /\ SeriesComplete(Places, 0, Today) /\ ListMissesNothing
  /\ \A from \in {0, Today} :
       /\ \A L \in {BranchScope(caller) : caller \in {CENTRAL} \cup open} : UseAgrees(L, {}, from, Today)
       /\ StoresAddUp(from, Today)
  /\ \A s \in Stores : BooksAgree(s)
DepotReportsHold ==
  /\ \A from \in 0..Today : \A to \in from..Today : SeriesComplete(Scoped(CENTRAL, Main), from, to)
  /\ \A from \in {0, Today} : WarehouseAgrees(from, Today)
  /\ StoresAddUp(Today, Today) /\ BooksAgree(Main) /\ ListsComplete
-----------------------------------------------------------------------------
(* The bounds of what is tried: one unit is moved at a time, of which      *)
(* two may be delivered or sent.                                           *)
Stocking(s) ==
  \/ OpenStore(s)
  \/ \E g \in Goods, n \in {0, 1} : CreateIngredient(s, g, n)
  \/ \E g \in Goods : Receive(s, g, 2, NULL) \/ Waste(s, g)
Serving(s) ==
  \/ \E g \in Goods, d \in Dishes \cup {NULL} : Deplete(s, g, d) \/ CancelSale(s, g, d)
  \/ \E from \in Goods, to \in Goods : Produce(s, from, to)
Clearing == (\E g \in Goods : DeleteIngredient(g)) \/ Pass
Depot ==
  \/ \E s \in Stores : OpenStore(s)
  \/ \E g \in Goods : CreateIngredient(Main, g, 0)
  \/ \E g \in Goods, v \in Vendors \cup {NULL} : Receive(Main, g, 2, v)
  \/ \E t \in Transfers :
       \/ \E s \in Stores, g \in Goods, n \in {1, 2}, d \in Drivers \cup {NULL} : Send(t, s, g, n, d)
       \/ Drive(t) \/ Reject(t) \/ \E n \in 0..2 : Accept(t, n)
  \/ Pass
Asking ==
  \/ \E s \in Stores : OpenStore(s)
  \/ \E r \in Requests : (\E s \in Stores : Ask(r, s)) \/ Decide(r)

Next == (\E s \in Stores : Stocking(s) \/ Serving(s)) \/ Clearing \/ Depot \/ Asking
Spec == Init /\ [][Next]_vars
===============================================================================
