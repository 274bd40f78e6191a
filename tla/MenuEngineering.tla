----------------------------- MODULE MenuEngineering -----------------------------
(***************************************************************************)
(* The menu's analysis, src/menu-engineering/menu-engineering.service.ts:  *)
(* what a plate costs by the stock ledger, how dishes sell, and the matrix *)
(* of stars, plowhorses, puzzles and dogs drawn from both (Kasavana and    *)
(* Smith), with buckets, halves and categories over the days asked for.    *)
(*                                                                         *)
(* Quotients are compared by cross-multiplication instead of rounding them *)
(* to money and percent.  A dish's recipe has one line.                    *)
(***************************************************************************)
EXTENDS Integers, Sequences, FiniteSets, FiniteSetsExt

CONSTANTS Dishes,      \* menu items
          Price,       \* their prices
          Category,    \* and categories
          Ingredients, \* what recipes draw on
          Recipe,      \* a dish's ingredient and quantity, or NULL
          Costs,       \* unit costs that deliveries may have
          Convertible, \* dishes whose recipe has a unit that converts to the ingredient's
  ListCost,    \* inventory_ingredients.unit_cost, in use until a delivery
          MaxQty,      \* bound: portions of a dish sold in a day
          MaxBooked,   \* bound: deliveries of an ingredient
          MaxDay,      \* bound: the last day
          DailyMax,    \* ranges longer than this many days are drawn by week (60)
          Week,        \* days in a week
          Cap,         \* the largest shrink factor (3)
          NULL

(* What the constants are.                                                 *)
MenuEngineeringAssumption ==
  /\ MaxDay \in Nat /\ Week \in Nat \ {0, 1} /\ DailyMax \in Nat /\ Cap \in Nat \ {0}
  /\ Price \in [Dishes -> Nat] /\ ListCost \in [Ingredients -> Nat] /\ Costs \subseteq Nat
  /\ IsFiniteSet(Dishes)

VARIABLES
  today,  \* the day
  sold,   \* portions of a dish sold on a day, not cancelled
  bought, \* unit costs in the stock ledger, by ingredient, the last one last
  lost,   \* waste and what a count found missing on a day, found again is negative
  active  \* menu items that are ACTIVE

vars == <<today, sold, bought, lost, active>>
-----------------------------------------------------------------------------
Days == 0..MaxDay

(* The tables have their types.                                            *)
TypeOK ==
  /\ today \in Days /\ sold \in [Dishes -> [Days -> 0..MaxQty]]
  /\ \A g \in Ingredients : /\ \A i \in DOMAIN bought[g] : bought[g][i] \in Costs
                            /\ lost[g] \in [Days -> -1..1]
  /\ active \subseteq Dishes

Init ==
  /\ today = 0 /\ sold = [d \in Dishes |-> [day \in Days |-> 0]]
  /\ bought = [g \in Ingredients |-> <<>>] /\ lost = [g \in Ingredients |-> [day \in Days |-> 0]]
  /\ active = Dishes

Sell(d) ==
  /\ d \in active /\ sold[d][today] < MaxQty
  /\ sold' = [sold EXCEPT ![d][today] = @ + 1]
  /\ UNCHANGED <<today, bought, lost, active>>

Receive(g, cost) ==
  /\ Len(bought[g]) < MaxBooked
  /\ bought' = [bought EXCEPT ![g] = Append(@, cost)]
  /\ UNCHANGED <<today, sold, lost, active>>

Lose(g) ==
  /\ lost[g][today] = 0
  /\ lost' = [lost EXCEPT ![g][today] = 1]
  /\ UNCHANGED <<today, sold, bought, active>>

(* A count finds more than the books have.                                 *)
Find(g) ==
  /\ lost[g][today] = 0
  /\ lost' = [lost EXCEPT ![g][today] = -1]
  /\ UNCHANGED <<today, sold, bought, active>>

Toggle(d) ==
  /\ active' = (active \ {d}) \cup ({d} \ active)
  /\ UNCHANGED <<today, sold, bought, lost>>

NextDay ==
  /\ today < MaxDay /\ today' = today + 1
  /\ UNCHANGED <<sold, bought, lost, active>>

Trading ==
  \/ \E d \in Dishes : Sell(d)
  \/ \E g \in Ingredients, cost \in Costs : Receive(g, cost)
  \/ \E g \in Ingredients : Lose(g) \/ Find(g)
  \/ NextDay
Next == Trading \/ \E d \in Dishes : Toggle(d)

Spec == Init /\ [][Next]_vars
-----------------------------------------------------------------------------
Sum(f, S) == MapThenSumSet(LAMBDA x : f[x], S)

(* The two last costs in the ledger, whatever kind of entry has them.      *)
CostHistory(g) ==
  LET n == Len(bought[g])
  IN [latest |-> IF n > 0 THEN bought[g][n] ELSE NULL,
      previous |-> IF n > 1 THEN bought[g][n - 1] ELSE NULL]

BaseCost(g) == IF CostHistory(g).latest # NULL THEN CostHistory(g).latest ELSE ListCost[g]
PreviousCost(g) == IF CostHistory(g).previous # NULL THEN CostHistory(g).previous ELSE BaseCost(g)

(* What sales used, and that with losses, over what sales used.            *)
Extra(g, from, to) == Sum(lost[g], from..to)

Used(g, from, to) ==
  MapThenSumSet(LAMBDA d : Recipe[d].qty * Sum(sold[d], from..to),
                {d \in Dishes : Recipe[d] # NULL /\ Recipe[d].of = g})
Shrink(g, from, to) ==
  LET used == Used(g, from, to)
      extra == Extra(g, from, to)
  IN IF used = 0 \/ extra < 0 THEN [num |-> 1, den |-> 1]
     ELSE IF used + extra > Cap * used THEN [num |-> Cap, den |-> 1]
     ELSE [num |-> used + extra, den |-> used]

CostComplete(d) == Recipe[d] # NULL /\ d \in Convertible /\ BaseCost(Recipe[d].of) > 0
PlateCost(d) == IF Recipe[d] = NULL \/ d \notin Convertible THEN 0 ELSE Recipe[d].qty * BaseCost(Recipe[d].of)
PreviousPlateCost(d) ==
  IF Recipe[d] = NULL \/ d \notin Convertible THEN 0 ELSE Recipe[d].qty * PreviousCost(Recipe[d].of)
(* What a plate costs with waste, times the shrink factor's denominator.   *)
AdjustedPlateCost(d, from, to) ==
  IF Recipe[d] = NULL THEN 0 ELSE PlateCost(d) * Shrink(Recipe[d].of, from, to).num
Margin(d) == Price[d] - PlateCost(d)

QuantitySold(d, from, to) == Sum(sold[d], from..to)
Revenue(d, from, to) == QuantitySold(d, from, to) * Price[d]
(* All sales count in the total, those of dishes that are not listed too.  *)
TotalSold(from, to) == MapThenSumSet(LAMBDA d : QuantitySold(d, from, to), Dishes)
Listed(inactive) == IF inactive THEN Dishes ELSE active
Costed(items) == {d \in items : CostComplete(d)}
(* A dish is popular with seven tenths of an equal share of all sales.     *)
AbovePopularity(d, items, from, to) ==
  /\ TotalSold(from, to) > 0
  /\ 10 * QuantitySold(d, from, to) * Cardinality(items) >= 7 * TotalSold(from, to)
(* Its margin is above the average, weighted by sales, of those costed.    *)
AboveMargin(d, items, from, to) ==
  LET qty == MapThenSumSet(LAMBDA x : QuantitySold(x, from, to), Costed(items))
      contribution == MapThenSumSet(LAMBDA x : Margin(x) * QuantitySold(x, from, to), Costed(items))
  IN IF qty > 0 THEN Margin(d) * qty >= contribution ELSE Margin(d) >= 0
Quadrant(d, items, from, to) ==
  LET popular == AbovePopularity(d, items, from, to)
      rich == AboveMargin(d, items, from, to)
  IN CASE ~CostComplete(d) -> "UNCLASSIFIED"
       [] CostComplete(d) /\ popular /\ rich -> "STAR"
       [] CostComplete(d) /\ popular /\ ~rich -> "PLOWHORSE"
       [] CostComplete(d) /\ ~popular /\ rich -> "PUZZLE"
       [] OTHER -> "DOG"
-----------------------------------------------------------------------------
DayCount(from, to) == to - from + 1
StepDays(from, to) == IF DayCount(from, to) <= DailyMax THEN 1 ELSE Week
(* Mutant: the last, shorter week has no bucket of its own.                *)
WholeBuckets(from, to) == DayCount(from, to) \div StepDays(from, to) + (IF DayCount(from, to) < Week THEN 1 ELSE 0)
BucketCount(from, to) == (DayCount(from, to) + StepDays(from, to) - 1) \div StepDays(from, to)
BucketStart(i, from, to) == from + i * StepDays(from, to)
IndexOf(day, from, to) ==
  LET i == (day - from) \div StepDays(from, to)
  IN IF i > BucketCount(from, to) - 1 THEN BucketCount(from, to) - 1 ELSE i
BucketSeries(d, from, to) ==
  [i \in 0..(BucketCount(from, to) - 1) |->
     Sum(sold[d], {day \in from..to : IndexOf(day, from, to) = i})]

FirstHalfDays(from, to) == IF DayCount(from, to) \div 2 > 1 THEN DayCount(from, to) \div 2 ELSE 1
HalfQuantities(d, from, to) ==
  LET boundary == from + FirstHalfDays(from, to) - 1
  IN [first |-> Sum(sold[d], {day \in from..to : day <= boundary}),
      second |-> Sum(sold[d], {day \in from..to : day > boundary})]

(* The period before, as long as the one asked for.                        *)
PreviousPeriod(from, to) == [from |-> from - DayCount(from, to), to |-> from - 1]

Visible(items, minQty, from, to) == {d \in items : QuantitySold(d, from, to) >= minQty}
ByCategory(items, from, to) ==
  [c \in {Category[d] : d \in items} |->
     MapThenSumSet(LAMBDA d : Revenue(d, from, to), {d \in items : Category[d] = c})]
CostSpikes ==
  {g \in Ingredients : /\ CostHistory(g).previous \notin {NULL, 0}
                       /\ 20 * (CostHistory(g).latest - CostHistory(g).previous) >= CostHistory(g).previous}
-----------------------------------------------------------------------------
(* Every day asked for falls in the bucket that is labelled with its days, *)
(* and nothing sold is in two buckets, in two halves or in neither.        *)
SeriesHold(from, to) ==
  /\ \A day \in from..to :
       LET i == IndexOf(day, from, to)
       IN BucketStart(i, from, to) <= day /\ day < BucketStart(i, from, to) + StepDays(from, to)
  /\ BucketStart(BucketCount(from, to) - 1, from, to) <= to
  /\ PreviousPeriod(from, to).to - PreviousPeriod(from, to).from = to - from
  /\ \A d \in Dishes :
       /\ Sum(BucketSeries(d, from, to), DOMAIN BucketSeries(d, from, to)) = QuantitySold(d, from, to)
       /\ HalfQuantities(d, from, to).first + HalfQuantities(d, from, to).second = QuantitySold(d, from, to)

(* Waste never makes a plate cheaper, nor dearer than the cap allows; a    *)
(* spike is a rise of an ingredient whose plates cost more than before.    *)
CostsHold(from, to) ==
  /\ \A d \in Dishes : CostComplete(d) =>
       LET f == Shrink(Recipe[d].of, from, to)
       IN /\ AdjustedPlateCost(d, from, to) >= PlateCost(d) * f.den
          /\ AdjustedPlateCost(d, from, to) <= Cap * PlateCost(d) * f.den
  /\ \A d \in Dishes : (CostComplete(d) /\ Recipe[d].of \in CostSpikes) => PlateCost(d) > PreviousPlateCost(d)

(* Once something is sold and everything is costed, the dish that sells    *)
(* most is popular and the best margin sold is above average: the matrix   *)
(* never leaves every dish a dog, nor every dish a puzzle.  Categories add *)
(* up to what is shown.                                                    *)
MatrixHolds(from, to) ==
  LET items == Listed(TRUE)
      visible == Visible(items, 1, from, to)
  IN /\ (TotalSold(from, to) > 0 /\ Costed(items) = items) =>
          /\ \E d \in items : AbovePopularity(d, items, from, to)
          /\ \E d \in visible : AboveMargin(d, items, from, to)
          /\ \A d \in items : (\A x \in items : Margin(x) <= Margin(d)) => AboveMargin(d, items, from, to)
     /\ Sum(ByCategory(visible, from, to), DOMAIN ByCategory(visible, from, to))
          = MapThenSumSet(LAMBDA d : Revenue(d, from, to), items)

AnalysisHolds ==
  \A from \in Days : \A to \in from..MaxDay :
    SeriesHold(from, to) /\ CostsHold(from, to) /\ MatrixHolds(from, to)

(* Not so once a dish that sold is taken off the menu: the total still     *)
(* counts its sales, and all that is listed may look unpopular.            *)
SomethingIsPopular ==
  LET items == Listed(FALSE)
      Shown(from, to) == \E d \in items : QuantitySold(d, from, to) > 0
  IN \A from \in Days : \A to \in from..MaxDay :
       (Shown(from, to) /\ Costed(items) = items) =>
          \E d \in items : AbovePopularity(d, items, from, to)
================================================================================
