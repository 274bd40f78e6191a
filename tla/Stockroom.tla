----------------------------- MODULE Stockroom -----------------------------
(***************************************************************************)
(* The stock of one branch and its warehouse                               *)
(* (src/inventory/inventory.service.ts): ingredients, balances and the     *)
(* ledger that explains them, deliveries, waste, yield tests, production,  *)
(* physical counts, recipes and what a sold or cancelled dish does to the  *)
(* stock, units and their conversions (units.ts), categories and vendors.  *)
(*                                                                         *)
(* A yield is how many units must be bought for one that can be used: 1    *)
(* for 100 %, 2 for 50 %.  There is one custom unit, a crate of Crate base *)
(* units.  Requests come one at a time; only waste, which does not write   *)
(* in a transaction, can die half-way.                                     *)
(***************************************************************************)
EXTENDS Integers, SequencesExt

CONSTANTS Goods,      \* ids of inventory_ingredients
          Store,      \* the branch store
          Main,       \* the main warehouse
          Sales,      \* ids of order_items of the dish
          Crate,      \* factor of the custom unit
          MaxMoves,   \* bound: stock movements
          MaxTests,   \* bound: yield tests on file
          NULL        \* the SQL null

(* What the constants are.                                                 *)
StockroomAssumption ==
  /\ Store # Main /\ {Crate, MaxMoves, MaxTests} \subseteq Nat
  /\ NULL \notin Int /\ NULL \notin [good : Goods, qty : Nat]

VARIABLES
  good,      \* inventory_ingredients: status, yield, category set
  shelf,     \* inventory_stock_balances.on_hand_qty, NULL where there is no row
  booked,    \* sum of the quantity_delta of the ledger
  moves,     \* number of ledger entries
  tests,     \* inventory_yield_tests, oldest first
  line,      \* the dish's menu_item_recipe_lines, with what was typed
  sold,      \* the SALE_DEPLETE and REVERSAL entries of each order item
  count,     \* the branch's inventory_count_sessions with DRAFT or POSTED
  half,      \* a waste whose ledger entry is still to be written
  lapse,     \* history: a balance and its ledger were written apart
  unit,      \* inventory_units.status of the crate
  pair,      \* inventory_unit_conversions.status of crate -> base
  category,  \* inventory_categories.status
  vendor     \* vendors: status, and whether the ledger names it

ledger == <<shelf, booked, moves>>
listing == <<unit, pair, category, vendor>>
vars == <<good, ledger, tests, line, sold, count, half, lapse, listing>>
-----------------------------------------------------------------------------
Places == {Store, Main}
Units == {"base", "crate"}
Presence == {"NONE", "ACTIVE", "INACTIVE"}
Good == [status : Presence, home : Places, yield : {NULL, 1, 2}, category : BOOLEAN]
Test == [good : Goods, yield : {1, 2}]
Vendor == [status : Presence, named : BOOLEAN]
NoLine == [unit |-> "NONE"]
NoCount == [status |-> "NONE"]
None == [g \in Goods |-> 0]

(* The tables hold rows of their types.                                    *)
TypeOK ==
  /\ good \in [Goods -> Good]
  /\ shelf \in [Places \X Goods -> Int \cup {NULL}]
  /\ booked \in [Places \X Goods -> Int] /\ moves \in Nat
  /\ tests \in Seq(Test)
  /\ line \in [Goods -> {NoLine} \cup [typed : Nat, qty : Nat, unit : Units]]
  /\ sold \in [Sales ->
       [status : {"NONE", "SOLD", "REVERSED"}, out : [Goods -> Nat], due : [Goods -> Nat]]]
  /\ count \in {NoCount} \cup
       [status : {"DRAFT", "POSTED"}, snap : [Goods -> Int \cup {NULL}],
        counted : [Goods -> Nat \cup {NULL}], stale : BOOLEAN]
  /\ half \in {NULL} \cup [good : Goods, qty : Nat]
  /\ lapse \in BOOLEAN /\ unit \in Presence /\ pair \in Presence /\ category \in Presence
  /\ vendor \in Vendor

Init ==
  /\ good = [g \in Goods |->
       [status |-> "NONE", home |-> Store, yield |-> NULL, category |-> FALSE]]
  /\ shelf = [x \in Places \X Goods |-> NULL]
  /\ booked = [x \in Places \X Goods |-> 0] /\ moves = 0
  /\ tests = <<>>
  /\ line = [g \in Goods |-> NoLine]
  /\ sold = [o \in Sales |-> [status |-> "NONE", out |-> None, due |-> None]]
  /\ count = NoCount
  /\ half = NULL /\ lapse = FALSE
  /\ unit = "NONE" /\ pair = "NONE" /\ category = "NONE"
  /\ vendor = [status |-> "NONE", named |-> FALSE]

OnHand(p, g) == IF shelf[<<p, g>>] = NULL THEN 0 ELSE shelf[<<p, g>>]
Exists(g) == good[g].status # "NONE"

(* A count does not know of what moves after its snapshot.                 *)
Unseen(D) ==
  count' = IF count.status = "DRAFT" /\ \E x \in DOMAIN D :
                x[1] = Store /\ count.snap[x[2]] # NULL /\ D[x] # 0
           THEN [count EXCEPT !.stale = TRUE] ELSE count

(* applyDelta for several rows of one transaction: the balance is          *)
(* incremented, or set where setTo says so, and the ledger gets the delta. *)
ApplyDeltas(D, setTo) ==
  /\ half = NULL /\ moves < MaxMoves /\ moves' = moves + 1
  /\ shelf' = [x \in Places \X Goods |->
       IF x \in DOMAIN setTo THEN setTo[x]
       ELSE IF x \in DOMAIN D THEN OnHand(x[1], x[2]) + D[x] ELSE shelf[x]]
  /\ booked' = [x \in Places \X Goods |-> booked[x] + (IF x \in DOMAIN D THEN D[x] ELSE 0)]
Empty == [x \in {} |-> 0]
Move(D) == ApplyDeltas(D, Empty) /\ Unseen(D) /\ UNCHANGED <<half, lapse>>
One(p, g, n) == [x \in {<<p, g>>} |-> n]
-----------------------------------------------------------------------------
(* createIngredient, with its opening balance; one created in the          *)
(* warehouse belongs to no branch.                                         *)
CreateIngredient(g, p, n) ==
  /\ good[g].status = "NONE"
  /\ good' = [good EXCEPT ![g].status = "ACTIVE", ![g].home = p]
  /\ Move(One(p, g, n))
  /\ UNCHANGED <<tests, line, sold, listing>>
(* updateIngredient writes yield, status and category as they are given.   *)
UpdateIngredient(g, row) ==
  /\ Exists(g) /\ row.status # "NONE" /\ (row.category => category # "NONE")
  /\ good' = [good EXCEPT ![g] = row] /\ row.home = good[g].home
  /\ UNCHANGED <<ledger, tests, line, sold, count, half, lapse, listing>>
(* deleteIngredient: the sum over all locations must not be positive.      *)
DeleteIngredient(g) ==
  /\ Exists(g) /\ OnHand(Store, g) + OnHand(Main, g) <= 0
  /\ good' = [good EXCEPT ![g].status = "INACTIVE"]
  /\ UNCHANGED <<ledger, tests, line, sold, count, half, lapse, listing>>

(* receive and receiveBatch.                                               *)
Receive(p, g, n, named) ==
  /\ Exists(g) /\ (named => vendor.status = "ACTIVE")
  /\ Move(One(p, g, n))
  /\ vendor' = [vendor EXCEPT !.named = @ \/ named]
  /\ UNCHANGED <<good, tests, line, sold, unit, pair, category>>
ReceiveBatch(p, n) ==
  /\ \A g \in Goods : Exists(g)
  /\ Move([x \in {p} \X Goods |-> n])
  /\ UNCHANGED <<good, tests, line, sold, listing>>

(* waste: the balance, then the ledger, not in one transaction.            *)
WasteBalance(g, n) ==
  /\ Exists(g) /\ half = NULL /\ moves < MaxMoves
  /\ shelf' = [shelf EXCEPT ![<<Store, g>>] = OnHand(Store, g) - n]
  /\ half' = [good |-> g, qty |-> n]
  /\ Unseen(One(Store, g, n))
  /\ UNCHANGED <<good, booked, moves, tests, line, sold, lapse, listing>>
WasteEntry ==
  /\ half # NULL
  /\ booked' = [booked EXCEPT ![<<Store, half.good>>] = @ - half.qty]
  /\ moves' = moves + 1 /\ half' = NULL
  /\ UNCHANGED <<good, shelf, tests, line, sold, count, lapse, listing>>
WasteFails ==   \* bound: before any other lapse
  /\ half # NULL /\ ~lapse /\ half' = NULL /\ lapse' = TRUE
  /\ UNCHANGED <<good, ledger, tests, line, sold, count, listing>>
-----------------------------------------------------------------------------
TestsOf(ts, g) == {i \in DOMAIN ts : ts[i].good = g}
Latest(ts, g) == {ts[i].yield : i \in {i \in TestsOf(ts, g) : \A j \in TestsOf(ts, g) : j <= i}}
(* Mutant: an ingredient without tests yields nothing.                     *)
LatestYieldZero(ts, g) == IF TestsOf(ts, g) = {} THEN {0} ELSE Latest(ts, g)
(* What becomes of the yield of an ingredient when its tests change: that  *)
(* of the last, the one such.                                              *)
LatestYield(ts, g) == IF TestsOf(ts, g) = {} THEN {NULL} ELSE Latest(ts, g)

(* postYieldTest: two units are bought, all of it or half of it is usable; *)
(* the trim is written off when asked.                                     *)
PostYieldTest(p, g, y, writeOff) ==
  /\ Exists(g) /\ Len(tests) < MaxTests
  /\ writeOff => OnHand(p, g) >= 2
  /\ good' = [good EXCEPT ![g].yield = y]
  /\ tests' = Append(tests, [good |-> g, yield |-> y])
  /\ IF writeOff /\ y = 2 THEN Move(One(p, g, -1)) ELSE UNCHANGED <<ledger, count, half, lapse>>
  /\ UNCHANGED <<line, sold, listing>>
UpdateYieldTest(i, y) ==
  /\ i \in DOMAIN tests
  /\ tests' = [tests EXCEPT ![i].yield = y]
  /\ \E z \in LatestYield(tests', tests[i].good) : good' = [good EXCEPT ![tests[i].good].yield = z]
  /\ UNCHANGED <<ledger, line, sold, count, half, lapse, listing>>
DeleteYieldTest(i) ==
  /\ i \in DOMAIN tests
  /\ tests' = RemoveAt(tests, i)
  /\ \E z \in LatestYield(tests', tests[i].good) : good' = [good EXCEPT ![tests[i].good].yield = z]
  /\ UNCHANGED <<ledger, line, sold, count, half, lapse, listing>>

(* postProductionBatch: n units of one good are made of n * y of another.  *)
Produce(p, from, to, n, y) ==
  /\ from # to /\ Exists(from) /\ Exists(to)
  /\ OnHand(p, from) >= n * y
  /\ Move([x \in {<<p, from>>, <<p, to>>} |-> IF x[2] = from THEN -(n * y) ELSE n])
  /\ good' = [good EXCEPT ![to].yield = y]
  /\ UNCHANGED <<tests, line, sold, listing>>
-----------------------------------------------------------------------------
(* toBaseQty: NULL when there is no conversion.                            *)
ToBase(n, u) == IF u = "base" THEN n ELSE IF pair = "ACTIVE" THEN n * Crate ELSE NULL

(* replaceRecipeLines keeps the converted quantity beside the typed unit.  *)
ReplaceRecipe(g, n, u) ==
  /\ Exists(g) /\ ToBase(n, u) # NULL
  /\ line' = [x \in Goods |-> IF x = g THEN [typed |-> n, qty |-> ToBase(n, u), unit |-> u] ELSE NoLine]
  /\ UNCHANGED <<good, ledger, tests, sold, count, half, lapse, listing>>

Uses(g) == line[g] # NoLine
YieldOf(g) == IF good[g].yield = NULL THEN 1 ELSE good[g].yield

(* depleteForOrderItem: the line's quantity is converted again, then       *)
(* divided by the yield; what is not convertible fails the order.          *)
Sell(o) ==
  /\ sold[o].status = "NONE" /\ \E g \in Goods : Uses(g)
  /\ \A g \in Goods : Uses(g) => ToBase(line[g].qty, line[g].unit) # NULL
  /\ LET portion(g, n) == IF Uses(g) THEN ToBase(n, line[g].unit) * YieldOf(g) ELSE 0
         out == [g \in Goods |-> portion(g, IF Uses(g) THEN line[g].qty ELSE 0)]
         due == [g \in Goods |-> portion(g, IF Uses(g) THEN line[g].typed ELSE 0)] IN
       /\ Move([x \in {Store} \X {g \in Goods : Uses(g)} |-> -out[x[2]]])
       /\ sold' = [sold EXCEPT ![o] = [status |-> "SOLD", out |-> out, due |-> due]]
  /\ UNCHANGED <<good, tests, line, listing>>

(* reverseForOrderItem gives back what the ledger says was taken, once.    *)
Cancel(o) ==
  /\ sold[o].status = "SOLD"
  /\ LET taken == {g \in Goods : sold[o].out[g] # 0} IN
       /\ Move([x \in {Store} \X taken |-> sold[o].out[x[2]]])
       /\ sold' = [sold EXCEPT ![o].status = "REVERSED"]
  /\ UNCHANGED <<good, tests, line, listing>>
-----------------------------------------------------------------------------
(* startCount: the snapshot of an ingredient of the branch is its first    *)
(* balance row, of whichever location (pickBalance without a location).    *)
Rows(g) == {p \in Places : shelf[<<p, g>>] # NULL}
StartCount(pick) ==
  /\ count.status # "DRAFT" /\ half = NULL
  /\ LET counted == {g \in Goods : good[g].status = "ACTIVE" /\ good[g].home = Store}
         snap == [g \in Goods |-> IF g \in counted THEN shelf[<<pick[g], g>>] ELSE NULL] IN
       /\ \A g \in counted : pick[g] \in Rows(g)
       /\ count' = [status |-> "DRAFT", snap |-> snap, counted |-> [g \in Goods |-> NULL],
                    stale |-> \E g \in counted : snap[g] # OnHand(Store, g)]
  /\ UNCHANGED <<good, ledger, tests, line, sold, half, lapse, listing>>
CountLine(g, n) ==
  /\ count.status = "DRAFT" /\ count.snap[g] # NULL
  /\ count' = [count EXCEPT !.counted[g] = n]
  /\ UNCHANGED <<good, ledger, tests, line, sold, half, lapse, listing>>

(* Mutant: the ledger is given the counted quantity itself.                *)
CountDeltaWhole(g) == count.counted[g]
CountDelta(g) == count.counted[g] - count.snap[g]

(* postCount sets the balance to what was counted; the ledger gets the     *)
(* difference to the snapshot; a line without difference is skipped.       *)
PostCount ==
  /\ count.status = "DRAFT"
  /\ LET lines == {g \in Goods : count.snap[g] # NULL}
         off == {g \in lines : count.counted[g] # count.snap[g]} IN
       /\ \A g \in lines : count.counted[g] # NULL
       /\ ApplyDeltas([x \in {Store} \X off |-> CountDelta(x[2])],
                      [x \in {Store} \X off |-> count.counted[x[2]]])
       /\ lapse' = (lapse \/ (count.stale /\ off # {}))
  /\ count' = [count EXCEPT !.status = "POSTED"]
  /\ UNCHANGED <<good, tests, line, sold, half, listing>>
-----------------------------------------------------------------------------
(* Units, conversions, categories and vendors.                             *)
CreateUnit == unit = "NONE" /\ unit' = "ACTIVE" /\ UNCHANGED <<pair, category, vendor>>
UpdateUnit(s) == unit # "NONE" /\ unit' = s /\ UNCHANGED <<pair, category, vendor>>
DeleteUnit == unit # "NONE" /\ unit' = "INACTIVE" /\ UNCHANGED <<pair, category, vendor>>
CreateConversion ==
  unit # "NONE" /\ pair = "NONE" /\ pair' = "ACTIVE" /\ UNCHANGED <<unit, category, vendor>>
UpdateConversion(s) == pair # "NONE" /\ pair' = s /\ UNCHANGED <<unit, category, vendor>>
DeleteConversion == pair # "NONE" /\ pair' = "INACTIVE" /\ UNCHANGED <<unit, category, vendor>>
CreateCategory == category = "NONE" /\ category' = "ACTIVE" /\ UNCHANGED <<unit, pair, vendor>>
UpdateCategory(s) == category # "NONE" /\ category' = s /\ UNCHANGED <<unit, pair, vendor>>
CreateVendor ==
  /\ vendor.status = "NONE" /\ vendor' = [status |-> "ACTIVE", named |-> FALSE]
  /\ UNCHANGED <<unit, pair, category>>
UpdateVendor(s) ==
  /\ vendor.status # "NONE" /\ vendor' = [vendor EXCEPT !.status = s]
  /\ UNCHANGED <<unit, pair, category>>

DeleteVendor ==
  /\ vendor.status # "NONE" /\ ~vendor.named
  /\ vendor' = [vendor EXCEPT !.status = "NONE"]
  /\ UNCHANGED <<unit, pair, category>>
DeleteCategory ==
  /\ category # "NONE" /\ category' = "INACTIVE"
  /\ good' = [g \in Goods |-> [good[g] EXCEPT !.category = FALSE]]
  /\ UNCHANGED <<ledger, tests, line, sold, count, half, lapse, unit, pair, vendor>>
-----------------------------------------------------------------------------
Stocking ==
  \/ \E g \in Goods, p \in Places, n \in 0..1 : CreateIngredient(g, p, n)
  \/ \E g \in Goods : DeleteIngredient(g)
  \/ \E g \in Goods, p \in Places, named \in BOOLEAN : Receive(p, g, 2, named)
  \/ \E p \in Places : ReceiveBatch(p, 2)
  \/ \E g \in Goods : WasteBalance(g, 1)
  \/ WasteEntry \/ WasteFails
Counting ==
  \/ \E pick \in [Goods -> Places] : StartCount(pick)
  \/ \E g \in Goods, n \in 0..2 : CountLine(g, n)
  \/ PostCount
Cooking ==
  \/ \E g \in Goods, p \in Places, y \in {1, 2}, off \in BOOLEAN : PostYieldTest(p, g, y, off)
  \/ \E i \in 1..MaxTests : DeleteYieldTest(i) \/ \E y \in {1, 2} : UpdateYieldTest(i, y)
  \/ \E from, to \in Goods, p \in Places, y \in {1, 2} : Produce(p, from, to, 1, y)
  \/ \E g \in Goods, u \in Units : ReplaceRecipe(g, 1, u)
  \/ \E o \in Sales : Sell(o) \/ Cancel(o)
SameStock == UNCHANGED <<good, ledger, tests, line, sold, count, half, lapse>>
Listing ==
  \/ /\ \/ CreateUnit \/ DeleteUnit \/ CreateConversion \/ DeleteConversion
        \/ CreateCategory \/ CreateVendor \/ DeleteVendor
        \/ \E s \in Presence \ {"NONE"} :
             UpdateUnit(s) \/ UpdateConversion(s) \/ UpdateCategory(s) \/ UpdateVendor(s)
     /\ SameStock
  \/ DeleteCategory
  \/ \E g \in Goods, row \in [status : Presence, home : Places, yield : {NULL, 2}, category : BOOLEAN] :
       UpdateIngredient(g, row)

Next == Stocking \/ Counting \/ Cooking \/ Listing

Spec == Init /\ [][Next]_vars
-----------------------------------------------------------------------------
(* The balance of a shelf is the sum of its ledger (applyDelta), in every  *)
(* mix of deliveries, waste, production, sales, cancellations and counts,  *)
(* until a waste dies between its two writes or a count is posted over     *)
(* stock that has moved since its snapshot.                                *)
BalanceIsBooked ==
  ~lapse => \A p \in Places, g \in Goods :
    OnHand(p, g) =
      booked[<<p, g>>] - (IF half # NULL /\ p = Store /\ g = half.good THEN half.qty ELSE 0)

(* A sold dish takes what its recipe says: the quantity in the unit it was *)
(* typed in, once converted, by the yield (depleteForOrderItem, and the    *)
(* comment at its first conversion).                                       *)
TakesRecipe == \A o \in Sales : sold[o].out = sold[o].due
=============================================================================
