----------------------------- MODULE CashLedger -----------------------------
(***************************************************************************)
(* The table cash_ledger_entries: its rows and what the database enforces  *)
(* when a transaction inserts some.  Two databases exist.  The migrations  *)
(* build one with CHECK constraints and partial unique indexes; when they  *)
(* cannot be applied, startup.prod.sh:9 falls back on `prisma db push`,    *)
(* which knows neither.  Migrated says which of the two the code runs on.  *)
(***************************************************************************)
EXTENDS Integers

CONSTANT Migrated
ASSUME MigratedAssumption == Migrated \in BOOLEAN

(* ck_cash_ledger_entries__entry_type and ..__source_type.                 *)
EntryTypeCheck  == {"CASH_PAYMENT_COLLECTED", "CASH_DROP_OUT", "OPENING_FLOAT",
                    "CASH_DROP_IN", "APPROVED_ADJUSTMENT", "SAFE_DROP_OUT",
                    "HANDOVER_OUT", "WAITER_HANDOVER_OUT", "WAITER_HANDOVER_IN"}
SourceTypeCheck == {"PAYMENT", "CASH_DROP", "FINANCIAL_SESSION", "ADJUSTMENT",
                    "SHIFT_HANDOVER", "WAITER_SHIFT_HANDOVER"}

(* A row: id stands for the generated uuid (the request that wrote it),    *)
(* holder for the waiter shift or the cashier session, whichever is set    *)
(* (ck_cash_ledger_entries__holder makes it exactly one).                  *)
Row(id, holder, entry, amount, source, sourceId) ==
  [id |-> id, holder |-> holder, entryType |-> entry, amountDelta |-> amount,
   sourceType |-> source, sourceId |-> sourceId]

(* The key of the two partial unique indexes, one per kind of holder.      *)
SameEffect(x, y) ==
  /\ x.sourceType = y.sourceType
  /\ x.sourceId = y.sourceId
  /\ x.entryType = y.entryType
  /\ x.holder = y.holder

RowCheck(x) == /\ x.entryType \in EntryTypeCheck
               /\ x.sourceType \in SourceTypeCheck
               /\ x.amountDelta # 0

(* Mutant: without the two unique indexes.                                 *)
InsertableWithoutIndexes(ledger, rows) == Migrated => \A x \in rows : RowCheck(x)

(* Whether the database accepts the insertion of rows into the ledger.     *)
Insertable(ledger, rows) ==
  Migrated => \A x \in rows : RowCheck(x) /\ \A y \in ledger : ~SameEffect(x, y)

=============================================================================
