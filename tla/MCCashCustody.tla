--------------------------- MODULE MCCashCustody ---------------------------
(* Instances of CashCustody for TLC.                                       *)
EXTENDS CashCustody, TLC

CONSTANTS w1, w2, w3, c1, c2, d1, d2, d3, r1, r2, r3, r4, k1, k2

(* r1 and r2 are one command and its retry, the others have their own key. *)
MCKeyOf == [r \in Requests |-> IF r \in {r1, r2} THEN k1 ELSE k2]

Interchangeable == Permutations({c1, c2} \cap Cashiers)
                     \cup Permutations({w1, w2, w3} \cap Waiters)
                     \cup Permutations({r1, r2} \cap Requests)
                     \cup Permutations({r3, r4} \cap Requests)
=============================================================================
