----------------------------- MODULE BankTransfers -----------------------------
(***************************************************************************)
(* Paying bills by bank transfer: payTransfer of                           *)
(* src/billing/billing.service.ts, with the verification it buys from      *)
(* Verify.ET (src/verify-et/verify-et.service.ts).                         *)
(*                                                                         *)
(* A client has an intent per Idempotency-Key: a bill, the reference of a  *)
(* transfer and the amount it claims.  It may send an intent again at any  *)
(* time, also while the first is still under way, with whatever version of *)
(* the bill it has seen.  Verify.ET is outside: it answers a key it knows  *)
(* as it did before, works while it is polled, and tells whether it        *)
(* confirms a transfer for the first time.  A handler may die anywhere.    *)
(***************************************************************************)
EXTENDS Integers, Sequences, FiniteSetsExt

CONSTANTS Bills,      \* ids of bills
          Total,      \* total_amount of each bill
          Refs,       \* references of bank transfers
          Moved,      \* the amount each transfer moved, 0 if there is none
          Keys,       \* Idempotency-Key header values
          Intent,     \* what each key is sent with
          Handlers,   \* requests being handled at the same time
          MaxTries,   \* bound on the requests sent
          NULL        \* the SQL null

(* What the constants are.                                                 *)
TransfersAssumption ==
  /\ Total \in [Bills -> Nat \ {0}] /\ Moved \in [Refs -> Nat]
  /\ Intent \in [Keys -> [by : STRING, bill : Bills, ref : Refs, claim : Nat \ {0}]]
  /\ MaxTries \in Nat /\ NULL \notin Refs \cup Nat

VARIABLES
  enabled,   \* whether Verify.ET is configured
  bill,      \* bills: what was paid and the version
  payment,   \* payments, in the order of their commits
  command,   \* idempotency_commands of transfer payments: the version sent, by key
  used,      \* idempotency_commands bank_transfer_reference
  job,       \* verifications at Verify.ET, by the key sent there
  confirmed, \* transfers Verify.ET has confirmed
  handler,   \* the requests in flight, with what each has read
  tries      \* requests sent so far

tables == <<bill, payment, command, used>>
vars == <<enabled, tables, job, confirmed, handler, tries>>
-----------------------------------------------------------------------------
Idle == [pc |-> "idle"]
Bill == [status : {"GENERATED", "PAYMENT_PENDING", "PAID"}, paid : Nat, version : Nat \ {0}]
Payment == [key : Keys, ref : Refs, bill : Bills, amount : Nat \ {0}]
Used == [by : STRING, ref : Refs, bill : Bills]
Job == {"none", "processing", "first", "again", "not_found"}
Handler == {Idle} \cup
  [pc : {"submit", "poll", "lookup", "commit"}, key : Keys, expected : Nat, paid : Nat]

(* The tables hold rows of their types.                                    *)
TypeOK ==
  /\ bill \in [Bills -> Bill] /\ payment \in Seq(Payment) /\ command \in [Keys -> Nat \cup {NULL}]
  /\ used \subseteq Used /\ job \in [Keys -> Job] /\ confirmed \subseteq Refs
  /\ handler \in [Handlers -> Handler] /\ enabled \in BOOLEAN /\ tries \in 0..MaxTries

Init ==
  /\ enabled \in BOOLEAN
  /\ bill = [b \in Bills |-> [status |-> "GENERATED", paid |-> 0, version |-> 1]]
  /\ payment = <<>> /\ command = [k \in Keys |-> NULL] /\ used = {}
  /\ job = [k \in Keys |-> "none"] /\ confirmed = {}
  /\ handler = [h \in Handlers |-> Idle] /\ tries = 0

At(h, pc) == handler[h].pc = pc
Becomes(h, pc) == handler' = [handler EXCEPT ![h].pc = pc]
Of(h) == Intent[handler[h].key]
Payable(b) == bill[b].status \in {"GENERATED", "PAYMENT_PENDING"}
Sum(P(_)) == MapThenSumSet(LAMBDA i : payment[i].amount, {i \in DOMAIN payment : P(payment[i])})
-----------------------------------------------------------------------------
(* A key that was answered is answered from its row, or refused because    *)
(* the version sent is another.  The client's version is one it has seen.  *)
Begin(h, k, expected) ==
  LET i == Intent[k] IN
  /\ handler[h] = Idle /\ tries < MaxTries /\ tries' = tries + 1
  /\ command[k] = NULL /\ Payable(i.bill)
  /\ i.claim <= Total[i.bill] - bill[i.bill].paid /\ expected <= bill[i.bill].version
  /\ handler' = [handler EXCEPT ![h] =
       [pc |-> IF enabled THEN "submit" ELSE "lookup", key |-> k, expected |-> expected,
        paid |-> bill[i.bill].paid]]
  /\ UNCHANGED <<enabled, tables, job, confirmed>>

(* verifyPayment: a transfer by its number.                                *)
Submit(h) ==
  /\ At(h, "submit") /\ Becomes(h, "poll")
  /\ job' = [job EXCEPT ![handler[h].key] = IF @ = "none" THEN "processing" ELSE @]
  /\ UNCHANGED <<enabled, tables, confirmed, tries>>

(* Verify.ET, in its own time.                                             *)
Answer(k) ==
  LET r == Intent[k].ref IN
  /\ job[k] = "processing"
  /\ job' = [job EXCEPT ![k] = IF Moved[r] = 0 THEN "not_found" ELSE IF r \in confirmed THEN "again" ELSE "first"]
  /\ confirmed' = IF Moved[r] = 0 THEN confirmed ELSE confirmed \cup {r}
  /\ UNCHANGED <<enabled, tables, handler, tries>>

(* Mutant: whether the transfer was confirmed before is not looked at.     *)
AcceptedAgain(k) == job[k] \in {"first", "again"} /\ Moved[Intent[k].ref] >= Intent[k].claim
(* What payTransfer accepts: confirmed, for the first time, and enough.    *)
Accepted(k) == job[k] = "first" /\ Moved[Intent[k].ref] >= Intent[k].claim

PollUntilDone(h) ==
  /\ At(h, "poll") /\ job[handler[h].key] \notin {"none", "processing"}
  /\ IF Accepted(handler[h].key) THEN Becomes(h, "lookup") ELSE handler' = [handler EXCEPT ![h] = Idle]
  /\ UNCHANGED <<enabled, tables, job, confirmed, tries>>

(* Any of the rows of the reference is found, and must be of this bill.    *)
Lookup(h) ==
  LET rows == {u \in used : u.ref = Of(h).ref} IN
  /\ At(h, "lookup") /\ Becomes(h, "commit")
  /\ rows = {} \/ \E u \in rows : u.bill = Of(h).bill
  /\ UNCHANGED <<enabled, tables, job, confirmed, tries>>

(* Mutant: the version is not compared.                                    *)
AnyVersion(q) == Payable(Intent[q.key].bill)
(* applyPartialBillPayment: only if the version is the one sent.           *)
SameVersion(q) == Payable(Intent[q.key].bill) /\ bill[Intent[q.key].bill].version = q.expected

Commit(h) ==
  LET q == handler[h]
      i == Of(h)
      full == q.paid + i.claim >= Total[i.bill]
  IN
  /\ At(h, "commit") /\ SameVersion(q)
  /\ bill' = [bill EXCEPT ![i.bill] =
       [status |-> IF full THEN "PAID" ELSE "PAYMENT_PENDING",
        paid |-> IF full THEN Total[i.bill] ELSE q.paid + i.claim, version |-> @.version + 1]]
  /\ payment' = Append(payment, [key |-> q.key, ref |-> i.ref, bill |-> i.bill, amount |-> i.claim])
  /\ command' = [command EXCEPT ![q.key] = q.expected]
  /\ used' = IF \E u \in used : u.by = i.by /\ u.ref = i.ref THEN used
             ELSE used \cup {[by |-> i.by, ref |-> i.ref, bill |-> i.bill]}
  /\ handler' = [handler EXCEPT ![h] = Idle]
  /\ UNCHANGED <<enabled, job, confirmed, tries>>

(* A refusal, a deadline that passes, a connection lost, a process killed. *)
GiveUp(h) ==
  /\ handler[h] # Idle /\ handler' = [handler EXCEPT ![h] = Idle]
  /\ UNCHANGED <<enabled, tables, job, confirmed, tries>>

Next ==
  \/ \E h \in Handlers : \E k \in Keys : \E v \in 1..bill[Intent[k].bill].version : Begin(h, k, v)
  \/ \E h \in Handlers : Submit(h) \/ PollUntilDone(h) \/ Lookup(h) \/ Commit(h) \/ GiveUp(h)
  \/ \E k \in Keys : Answer(k)

Spec == Init /\ [][Next]_vars
-----------------------------------------------------------------------------
(* However often a client repeats itself: an intent is paid once; what a   *)
(* bill was paid is the sum of its payments and at most its total; and     *)
(* with Verify.ET, a transfer pays at most what it moved, for one bill     *)
(* ("Reusing receipts or past transfers is not permitted").                *)
TransfersHold ==
  /\ \A i, j \in DOMAIN payment : payment[i].key = payment[j].key => i = j
  /\ \A b \in Bills : /\ bill[b].paid = Sum(LAMBDA p : p.bill = b) /\ bill[b].paid <= Total[b]
                      /\ bill[b].status = "PAID" <=> bill[b].paid = Total[b]
  /\ enabled =>
       \A r \in Refs : /\ Sum(LAMBDA p : p.ref = r) <= Moved[r]
                       /\ Cardinality({payment[i].bill : i \in {i \in DOMAIN payment : payment[i].ref = r}}) <= 1

(* Not so without Verify.ET: two bills at the same time pass the lookup.   *)
OneBillPerTransfer == \A i, j \in DOMAIN payment : payment[i].ref = payment[j].ref => payment[i].bill = payment[j].bill

(* Not so: a transfer the bank confirms can still be claimed ("Try again   *)
(* with the same reference"): with another key it was confirmed before.    *)
ConfirmedIsClaimable ==
  \A r \in confirmed :
    \/ \E i \in DOMAIN payment : payment[i].ref = r
    \/ \E k \in Keys : Intent[k].ref = r /\ Accepted(k)
===============================================================================
