---------------------------- MODULE StoreTransfers ----------------------------
(***************************************************************************)
(* Transfers of stock between two stores, over the inventory.  A unique    *)
(* index allows a variation once in a transfer.  CANCELLED is declared and *)
(* never written.                                                          *)
(***************************************************************************)
EXTENDS InventoryMovements

CONSTANTS Transfers, TransferQuantities

VARIABLE transfer

TransferRow ==
    [origin : Stores, destination : Stores, status : {"PENDING", "COMPLETED"},
     items : [Variations -> TransferQuantities \cup {0}]]

ASSUME TransferAssumption ==
    TransferQuantities \subseteq Nat \ {0} /\ NULL \notin TransferRow

\* POST /transfers
CreateTransfer(t, origin, destination) ==
    /\ transfer[t] = NULL
    /\ origin # destination
    /\ transfer' = [transfer EXCEPT ![t] =
                      [origin |-> origin, destination |-> destination,
                       status |-> "PENDING", items |-> [v \in Variations |-> 0]]]
    /\ UNCHANGED <<level, moved>>

\* A variant: the status is not looked at again once the row is locked.
Modifiable_AnyStatus(t) == transfer[t] # NULL

Modifiable(t) == transfer[t] # NULL /\ transfer[t].status = "PENDING"

\* POST /transfers/:id/items
AddItem(t, v, n) ==
    /\ Modifiable(t)
    /\ transfer[t].items[v] = 0
    /\ transfer' = [transfer EXCEPT ![t].items[v] = n]
    /\ UNCHANGED <<level, moved>>

ItemsOf(t) == {v \in Variations : transfer[t].items[v] > 0}

\* Out of one store, which has to have it, and into the other.
TransferMovements(t) ==
    LET row == transfer[t]
    IN  [p \in {row.origin, row.destination} \X ItemsOf(t) |->
           IF p[1] = row.origin THEN Ask("TRANSFER_OUT", row.items[p[2]], "stock", FALSE)
           ELSE Ask("TRANSFER_IN", row.items[p[2]], "stock", TRUE)]

\* POST /transfers/:id/complete
CompleteTransfer(t) ==
    /\ Modifiable(t)
    /\ ItemsOf(t) # {}
    /\ ApplyInventoryMovement(TransferMovements(t), t)
    /\ transfer' = [transfer EXCEPT ![t].status = "COMPLETED"]

TransferStep ==
    \E t \in Transfers :
        \/ \E a, b \in Stores : CreateTransfer(t, a, b)
        \/ \E v \in Variations, n \in TransferQuantities : AddItem(t, v, n)
        \/ CompleteTransfer(t)
===============================================================================
