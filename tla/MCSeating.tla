----------------------------- MODULE MCSeating -----------------------------
(* Instances of Seating for TLC.                                           *)
EXTENDS Seating, TLC

CONSTANTS s1, s2, t1, room1, i1, i2, i3, a1, a2, c1, c2, r1, h1, h2

Interchangeable ==
  Permutations({s1, s2} \cap Sessions) \cup Permutations({i1, i2, i3} \cap Items)
    \cup Permutations({a1, a2} \cap BillAsks) \cup Permutations({c1, c2} \cap Collectors)
    \cup Permutations({h1, h2} \cap Handlers)

(* What later steps depend on: everything but the history of the sessions. *)
Future ==
  <<[s \in Sessions |-> IF session[s] = NoSession THEN NoSession
      ELSE [session[s] EXCEPT !.forced = FALSE, !.marked = FALSE, !.reopened = FALSE]],
    table, item, ask, bill, settled, banking, handler>>
=============================================================================
