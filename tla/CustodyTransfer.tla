-------------------------- MODULE CustodyTransfer --------------------------
(***************************************************************************)
(* What cash custody promises, with no request, version, dispute or        *)
(* database in sight.  A waiter declares a drop; at some later moment the  *)
(* cash of the drop leaves the waiter's pouch and enters one cashier       *)
(* drawer, in one indivisible step and for the same amount.  It never      *)
(* happens twice, it never happens by halves, and it is never taken back.  *)
(***************************************************************************)
EXTENDS Integers

CONSTANTS Drops,     \* the cash drops
          Cashiers   \* the cashier sessions (drawers)

VARIABLES declared,  \* the drops a waiter has declared
          paidOut,   \* {[drop, amount]}: what left the pouches
          paidIn     \* {[drop, drawer, amount]}: what entered the drawers

transferVars == <<declared, paidOut, paidIn>>

TransferInit == declared = {} /\ paidOut = {} /\ paidIn = {}

Declare(d) == /\ d \in Drops \ declared
              /\ declared' = declared \cup {d}
              /\ UNCHANGED <<paidOut, paidIn>>

Settle ==
  \E p \in paidIn' :
    /\ p.drop \in declared /\ p.drawer \in Cashiers /\ p.amount \in Nat
    /\ \A q \in paidIn : q.drop # p.drop
    /\ paidIn' = paidIn \cup {p}
    /\ paidOut' = paidOut \cup {[drop |-> p.drop, amount |-> p.amount]}
    /\ UNCHANGED declared

TransferNext == Settle \/ \E d \in Drops : Declare(d)

TransferSpec == TransferInit /\ [][TransferNext]_transferVars

=============================================================================
