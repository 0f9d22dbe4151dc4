------------------------------ MODULE ExpenseRows ------------------------------
(***************************************************************************)
(* Expenses and the ledger row each keeps.  An update reads the row without*)
(* a lock and saves later, so it is two steps of an editor; create and     *)
(* remove are one.  Names, dates and types are left out, and an update     *)
(* never changes the store: storeID is not a column of the entity.         *)
(***************************************************************************)
EXTENDS BackOffice

CONSTANTS Editors, Amounts

VARIABLES
    expense,  \* Expense rows, or NULL
    editor    \* the update each editor is in the middle of, or NULL

ExpenseRow(store, net, tax) ==
    [store |-> store, netAmount |-> net, taxAmount |-> tax, amount |-> net + tax]

ExpenseEntity == [store : Stores, netAmount : Int, taxAmount : Int, amount : Int]

ASSUME ExpenseAssumption == Amounts \subseteq Int

\* POST /expenses (a removed id does not come back: ids are generated)
CreateExpense(e, store, net, tax) ==
    /\ expense[e] = NULL /\ ledger[<<"EXPENSE", e>>] = NULL
    /\ \A d \in Editors : editor[d] # NULL => editor[d].id # e
    /\ expense' = [expense EXCEPT ![e] = ExpenseRow(store, net, tax)]
    /\ RecordExpense(e, ExpenseRow(store, net, tax))
    /\ UNCHANGED editor

\* PATCH /expenses/:id, up to its findOne; amounts the DTO has not are NULL.
ReadExpense(d, e, net, tax) ==
    /\ editor[d] = NULL /\ expense[e] # NULL
    /\ editor' = [editor EXCEPT ![d] =
                    [id |-> e, read |-> expense[e], netAmount |-> net, taxAmount |-> tax]]
    /\ UNCHANGED <<expense, ledger>>

\* The entity that is saved: the DTO over what was read, and the amount again
\* when it has one of the two it adds.
Edited(edit) ==
    LET given(new, old) == IF new = NULL THEN old ELSE new
    IN  IF edit.netAmount = NULL /\ edit.taxAmount = NULL THEN edit.read
        ELSE ExpenseRow(edit.read.store, given(edit.netAmount, edit.read.netAmount),
                        given(edit.taxAmount, edit.read.taxAmount))

\* save() compares the entity with the row it finds then (base: the row of
\* before or after the transactions that committed meanwhile), writes the
\* columns that differ, or the whole row again when it is gone; a row that is
\* removed after that look stays removed.
Saved(entity, base, row) ==
    IF base = NULL THEN entity
    ELSE IF row = NULL THEN NULL
    ELSE [c \in DOMAIN entity |-> IF entity[c] # base[c] THEN entity[c] ELSE row[c]]

\* A variant: the ledger row is only written once.
SaveExpense_RowOnly(d) ==
    /\ editor[d] # NULL
    /\ expense' = [expense EXCEPT ![editor[d].id] = Edited(editor[d])]
    /\ editor' = [editor EXCEPT ![d] = NULL]
    /\ UNCHANGED ledger

SaveExpense(d) ==
    /\ editor[d] # NULL
    /\ LET e == editor[d].id
           entity == Edited(editor[d])
       IN  /\ \E base \in {editor[d].read, expense[e]} :
                expense' = [expense EXCEPT ![e] = Saved(entity, base, @)]
           /\ RecordExpense(e, entity)
    /\ editor' = [editor EXCEPT ![d] = NULL]

\* DELETE /expenses/:id.  remove() of TypeORM clears the id of the entity, and
\* removeExpense is called with it afterwards: it deletes no ledger row.
RemoveExpense(e) ==
    /\ expense[e] # NULL
    /\ expense' = [expense EXCEPT ![e] = NULL]
    /\ UNCHANGED <<ledger, editor>>

ExpenseInit == expense = [e \in Expenses |-> NULL] /\ editor = [d \in Editors |-> NULL]

ExpenseStep ==
    \/ \E e \in Expenses : RemoveExpense(e)
    \/ \E e \in Expenses, s \in Stores, n, x \in Amounts : CreateExpense(e, s, n, x)
    \/ \E d \in Editors, e \in Expenses, n, x \in Amounts \cup {NULL} :
         ReadExpense(d, e, n, x)
    \/ \E d \in Editors : SaveExpense(d)
================================================================================
