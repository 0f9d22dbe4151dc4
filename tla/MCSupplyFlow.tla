----------------------------- MODULE MCSupplyFlow -----------------------------
(* SupplyFlow for TLC: what refers to a movement, and symmetry of stores. *)
EXTENDS SupplyFlow

CONSTANTS s1, s2, v1, o1, t1, e1, d1, hand

\* Bound: expenses are looked at while no order or transfer is registered (they
\* share the ledger, in rows of their own).
ExpensesAlone ==
    \/ \A e \in Expenses : ledger[<<"EXPENSE", e>>] = NULL
    \/ \A p \in Places : ~level[p].exists
StoreSymmetry == Permutations({s1, s2})
===============================================================================
