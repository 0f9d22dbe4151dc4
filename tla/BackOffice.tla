------------------------------ MODULE BackOffice ------------------------------
(***************************************************************************)
(* What the back-office modules share: the stores of a tenant, the product *)
(* variations they carry, and the FinancialMovement rows of purchase orders*)
(* and expenses, by source.  A unique index allows one row per source and  *)
(* category, and each is written in the transaction of its source.  Amounts*)
(* are hundredths of a peso.                                               *)
(***************************************************************************)
EXTENDS Integers

CONSTANTS Stores, Variations, Orders, Expenses, NULL

Entries == [storeID : Stores, amount : Int, taxAmount : Int]

ASSUME AbsentAssumption == NULL \notin Stores \cup Variations \cup Entries

Sources == ({"PURCHASE_ORDER"} \X Orders) \cup ({"EXPENSE"} \X Expenses)

VARIABLE ledger  \* the row of each source, or NULL

Entry(store, amount, taxAmount) ==
    [storeID |-> store, amount |-> amount, taxAmount |-> taxAmount]

LedgerInit == ledger = [s \in Sources |-> NULL]

\* Removes the row there is and writes the new one.
Record(source, entry) == ledger' = [ledger EXCEPT ![source] = entry]
Remove(source)        == ledger' = [ledger EXCEPT ![source] = NULL]

RecordPurchaseOrder(o, row) ==
    Record(<<"PURCHASE_ORDER", o>>, Entry(row.store, row.netTotal, row.tax))
RemovePurchaseOrder(o) == Remove(<<"PURCHASE_ORDER", o>>)

RecordExpense(e, row) ==
    Record(<<"EXPENSE", e>>, Entry(row.store, row.netAmount, row.taxAmount))
================================================================================
