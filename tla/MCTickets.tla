----------------------------- MODULE MCTickets -----------------------------
(* Instances of Tickets for TLC.                                           *)
EXTENDS Tickets, TLC

CONSTANTS i1, i2, a1, a2, a3, h1, h2, pizza, burger

Interchangeable == Permutations({i1, i2} \cap Items) \cup Permutations({a1, a2, a3} \cap Approvals)
                     \cup Permutations({h1, h2} \cap Handlers)
                     \cup Permutations({pizza, burger} \cap Dishes)
=============================================================================
