------------------------------ MODULE MCStore ------------------------------
(***************************************************************************)
(* Stockroom and Supply for TLC: a run looks at one group of operations,   *)
(* chosen at the start, so that its states are the sum of the groups' and  *)
(* not their product.                                                      *)
(***************************************************************************)
EXTENDS Supply, Stockroom, TLC

CONSTANTS Subjects, t1, t2, b1, b2, g1

VARIABLE subject

StoreInit ==
  /\ subject \in Subjects
  /\ SupplyInit /\ Init
  /\ subject # "supply" => ~crashes

StoreNext ==
  /\ UNCHANGED subject
  /\ \/ subject = "supply" /\ SupplyNext /\ UNCHANGED vars
     \/ /\ subject = "counting" /\ UNCHANGED supplyVars
        /\ \/ Stocking \/ Counting
           \/ \E g \in Goods : ReplaceRecipe(g, 1, "base")
           \/ \E o \in Sales : Sell(o)
        /\ \A g \in Goods \ {g1} : good'[g] = good[g]
     \/ /\ subject = "cooking" /\ UNCHANGED supplyVars
        /\ \/ \E g \in Goods : CreateIngredient(g, Store, 1)
           \/ \E g \in Goods : Receive(Store, g, 2, FALSE)
           \/ Cooking
           \/ CreateUnit /\ SameStock
           \/ CreateConversion /\ SameStock
           \/ \E s \in {"ACTIVE", "INACTIVE"} : UpdateConversion(s) /\ SameStock
     \/ /\ subject = "listing" /\ UNCHANGED supplyVars
        /\ \/ Listing
           \/ \E g \in Goods : CreateIngredient(g, Store, 0)
           \/ \E g \in Goods, named \in BOOLEAN : Receive(Store, g, 2, named)

StoreSpec == StoreInit /\ [][StoreNext]_<<subject, supplyVars, vars>>

Interchangeable == Permutations({t1, t2} \cap Transfers) \cup Permutations({b1, b2} \cap Stores)

(* The rows of both modules have their types.                              *)
TypesOK == SupplyTypeOK /\ TypeOK
=============================================================================
