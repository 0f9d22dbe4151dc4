------------------------------ MODULE SupplyFlow ------------------------------
(***************************************************************************)
(* Purchase orders, transfers between stores and movements by hand over    *)
(* the same stock rows; orders and expenses over the same ledger.          *)
(***************************************************************************)
EXTENDS PurchaseOrders, StoreTransfers, ExpenseRows

supplyVars == <<level, moved, ledger, order, transfer, expense, editor>>

\* What a movement refers to is of one type (referenceType).
ASSUME SupplyAssumption ==
    /\ Orders \cup Transfers \cup {ByHand} \subseteq References
    /\ Orders \cap Transfers = {} /\ ByHand \notin Orders \cup Transfers

SupplyInit ==
    /\ InventoryInit
    /\ LedgerInit
    /\ order = [o \in Orders |-> NULL]
    /\ transfer = [t \in Transfers |-> NULL]
    /\ ExpenseInit

MovementByHand ==
    \E p \in Places, r \in ReasonsByHand, c \in Conditions, n \in Quantities \cup {0} :
        CreateMovement(p, r, n, c)

SupplyNext ==
    \/ PurchaseOrderStep /\ UNCHANGED <<transfer, expense, editor>>
    \/ TransferStep /\ UNCHANGED <<ledger, order, expense, editor>>
    \/ MovementByHand /\ UNCHANGED <<ledger, order, transfer, expense, editor>>
    \/ ExpenseStep /\ UNCHANGED <<level, moved, order, transfer>>

SupplySpec == SupplyInit /\ [][SupplyNext]_supplyVars

-----------------------------------------------------------------------------

\* store-inventory-response.dto.ts: the stock of a row is derived from the
\* movements.  Whoever moved it, by whatever path, both columns are what the
\* log of the row adds up to, and a row that does not exist has no log.
StockIsItsMovements ==
    \A p \in Places :
        /\ \A c \in Columns :
             level[p][c] = SumFunction([r \in References |-> moved[r][p][c]])
        /\ ~level[p].exists => \A r \in References, c \in Columns : moved[r][p][c] = 0

\* A transfer moves its items once and whole, out of one store and into the
\* other, when it is COMPLETED; until then it has moved nothing, and it never
\* moves what it does not list.
TransfersMoveItems ==
    \A t \in Transfers, p \in Places :
        moved[t][p].stock =
            IF transfer[t] = NULL \/ transfer[t].status = "PENDING" THEN 0
            ELSE CASE p[1] = transfer[t].origin -> -transfer[t].items[p[2]]
                   [] p[1] = transfer[t].destination -> transfer[t].items[p[2]]
                   [] OTHER -> 0

\* The ledger has an order while it is PAGADO and only then, in the store and
\* with the totals its lines have now, however it was edited or verified since.
PaidOrdersBooked ==
    \A o \in Orders :
        ledger[<<"PURCHASE_ORDER", o>>] =
            IF order[o] = NULL \/ order[o].paymentStatus # "PAGADO" THEN NULL
            ELSE LET net == Larger(Subtotal(order[o].items) - order[o].discount, 0)
                 IN  Entry(order[o].store, net, Tax(net))

\* An expense there is has its row in the ledger, with its store and amounts,
\* though it is removed in the middle of an edit and the edit brings it back;
\* what it amounts to is its net and its tax.  (Of two edits at once each may
\* leave a column of its own: see the README.)
ExpensesBooked ==
    \A e \in Expenses :
        LET row == expense[e] IN
        row # NULL =>
            /\ ledger[<<"EXPENSE", e>>] = Entry(row.store, row.netAmount, row.taxAmount)
            /\ row.amount = row.netAmount + row.taxAmount

-----------------------------------------------------------------------------
(* What the repository says and the code does not keep.                    *)

\* purchase-orders-repository.helpers.ts: taking a payment back reverts the
\* stock of the order: it leaves what the order has moved at zero.
RevertedOrdersMoveNothing ==
    \A o \in Orders, p \in Places :
        order[o] # NULL /\ order[o].paymentStatus # "PAGADO" => moved[o][p].stock = 0
===============================================================================
