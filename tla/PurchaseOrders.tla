---------------------------- MODULE PurchaseOrders ----------------------------
(***************************************************************************)
(* Purchase orders: lines, totals, commercial and payment status, the      *)
(* verification of what arrived, and what paying does to stock and ledger. *)
(* Each operation is one transaction that holds the order's row.  A        *)
(* request names each variation once; folio, dates and isThirdParty are    *)
(* left out; unit prices and totals are hundredths of a peso.              *)
(***************************************************************************)
EXTENDS InventoryMovements, Functions

CONSTANTS
    Quantities, Prices, Discounts,  \* what a request may carry
    Statuses                        \* bound: the commercial statuses asked for

VARIABLE order

PaymentStatus == {"PENDIENTE", "PAGADO", "ANULADO"}

OrderItem == [quantityRequested : Nat, quantityReceived : Nat, unitPrice : Nat]
OrderRow ==
    [store : Stores, paymentStatus : PaymentStatus,
     status : {"PENDIENTE", "ENVIADO", "ACEPTADO", "RECHAZADO"},
     discount : Nat, items : [Variations -> OrderItem],
     netTotal : Int, tax : Int, total : Int, totalProducts : Int]

ASSUME OrderAssumption ==
    Quantities \cup Prices \cup Discounts \subseteq Nat /\ NULL \notin OrderRow

NoItem == [quantityRequested |-> 0, quantityReceived |-> 0, unitPrice |-> 0]
Item(requested, received, price) ==
    [quantityRequested |-> requested, quantityReceived |-> received, unitPrice |-> price]

\* The item DTOs: a quantity and a price for some variations.
ItemDto     == [quantity : Quantities, unitPrice : Prices]
ItemDtos    == UNION {[vs -> ItemDto] : vs \in SUBSET Variations}
VerifyDtos  == UNION {[vs -> [quantityReceived : Quantities, unitPrice : Prices \cup {NULL}]] :
                        vs \in SUBSET Variations}
\* A field the request leaves out is one that repeats what the row holds.
UpdateDtos  == [storeID : Stores, discount : Discounts, items : ItemDtos \cup {NULL},
                paymentStatus : PaymentStatus]

\* What the DTO carries replaces what the row holds.
Given(new, old) == IF new = NULL THEN old ELSE new

Subtotal(items) ==
    SumFunction([v \in Variations |-> items[v].unitPrice * items[v].quantityRequested])

Larger(a, b) == IF a >= b THEN a ELSE b

\* toMoney(net * 0.19)
Tax(net) == (net * 19 + 50) \div 100

\* calculateTotals, and totalProducts, over the lines the order is left with.
WithTotals(row) ==
    LET net == Larger(Subtotal(row.items) - row.discount, 0)
    IN  [row EXCEPT !.netTotal = net, !.tax = Tax(net), !.total = net + Tax(net),
                    !.totalProducts =
                        SumFunction([v \in Variations |-> row.items[v].quantityRequested])]

NewOrder(store, discount) ==
    [store |-> store, paymentStatus |-> "PENDIENTE", status |-> "PENDIENTE",
     discount |-> discount, items |-> [v \in Variations |-> NoItem],
     netTotal |-> 0, tax |-> 0, total |-> 0, totalProducts |-> 0]

\* Lines the request names are created or rewritten, and the others removed.
\* An existing line keeps what was received of it.
ReplacedItems(items, dtos) ==
    [v \in Variations |->
       IF v \in DOMAIN dtos
       THEN Item(dtos[v].quantity, items[v].quantityReceived, dtos[v].unitPrice)
       ELSE NoItem]

CreatePurchaseOrder(o, store, discount, dtos) ==
    /\ order[o] = NULL
    /\ LET row == NewOrder(store, discount)
       IN  order' = [order EXCEPT ![o] =
                       WithTotals([row EXCEPT !.items = ReplacedItems(@, dtos)])]
    /\ UNCHANGED <<level, moved, ledger>>

\* The movements of paying an order (1) or taking its payment back (-1), over
\* the lines and the store the order has at that time.
ApplyStockForOrder(o, row, direction) ==
    LET lines == {v \in Variations : row.items[v].quantityRequested > 0}
        units(v) == row.items[v].quantityRequested
    IN  ApplyInventoryMovement(
          [p \in {row.store} \X lines |->
             IF direction = 1 THEN Ask("PURCHASE", units(p[2]), "stock", TRUE)
             ELSE Ask("ADJUSTMENT", level[p].stock - units(p[2]), "stock", TRUE)], o)

UpdatedOrder(row, dto) ==
    WithTotals([row EXCEPT
        !.store = dto.storeID,
        !.discount = dto.discount,
        !.items = IF dto.items = NULL THEN @ ELSE ReplacedItems(@, dto.items),
        !.paymentStatus = dto.paymentStatus])

\* PATCH /purchase-orders/:id
UpdatePurchaseOrder(o, dto) ==
    /\ order[o] # NULL
    /\ LET was  == order[o].paymentStatus
           next == UpdatedOrder(order[o], dto)
       IN  /\ order' = [order EXCEPT ![o] = next]
           /\ \/ /\ was # "PAGADO" /\ next.paymentStatus = "PAGADO"
                 /\ ApplyStockForOrder(o, next, 1)
              \/ /\ was = "PAGADO" /\ next.paymentStatus # "PAGADO"
                 /\ ApplyStockForOrder(o, next, -1)
              \/ /\ (was = "PAGADO") <=> (next.paymentStatus = "PAGADO")
                 /\ UNCHANGED <<level, moved>>
           /\ \/ next.paymentStatus = "PAGADO" /\ RecordPurchaseOrder(o, next)
              \/ was = "PAGADO" /\ next.paymentStatus # "PAGADO" /\ RemovePurchaseOrder(o)
              \/ was # "PAGADO" /\ next.paymentStatus # "PAGADO" /\ UNCHANGED ledger

AllowedTransitions ==
    {<<"PENDIENTE", "ENVIADO">>, <<"PENDIENTE", "RECHAZADO">>,
     <<"ENVIADO", "ACEPTADO">>, <<"ENVIADO", "RECHAZADO">>}

\* PATCH /purchase-orders/:id/status
UpdateStatus(o, status) ==
    /\ order[o] # NULL
    /\ <<order[o].status, status>> \in AllowedTransitions
    /\ order' = [order EXCEPT ![o].status = status]
    /\ UNCHANGED <<level, moved, ledger>>

\* A scan raises what a line asks for when more arrived, and adds the line
\* when nobody asked for it.
Scanned(item, scan) ==
    Item(Larger(item.quantityRequested, scan.quantityReceived),
         scan.quantityReceived, Given(scan.unitPrice, item.unitPrice))

VerificationPlan(items, scans) ==
    [v \in Variations |-> IF v \in DOMAIN scans THEN Scanned(items[v], scans[v]) ELSE items[v]]

\* A variant: the ledger of a paid order is not written again.
Verify_KeepsLedger(o, scans) ==
    /\ order[o] # NULL
    /\ \A v \in DOMAIN scans :
         scans[v].quantityReceived >= order[o].items[v].quantityReceived
    /\ order' = [order EXCEPT ![o] =
                   WithTotals([@ EXCEPT !.items = VerificationPlan(@, scans)])]
    /\ UNCHANGED <<level, moved, ledger>>

\* POST /purchase-orders/:id/verify
Verify(o, scans) ==
    /\ order[o] # NULL
    /\ \A v \in DOMAIN scans :
         scans[v].quantityReceived >= order[o].items[v].quantityReceived
    /\ LET next == WithTotals([order[o] EXCEPT !.items = VerificationPlan(@, scans)])
       IN  /\ order' = [order EXCEPT ![o] = next]
           /\ IF next.paymentStatus = "PAGADO" THEN RecordPurchaseOrder(o, next)
              ELSE UNCHANGED ledger
    /\ UNCHANGED <<level, moved>>

PurchaseOrderStep ==
    \E o \in Orders :
        \/ \E s \in Stores, d \in Discounts, dtos \in ItemDtos :
             CreatePurchaseOrder(o, s, d, dtos)
        \/ \E dto \in UpdateDtos : UpdatePurchaseOrder(o, dto)
        \/ \E status \in Statuses : UpdateStatus(o, status)
        \/ \E scans \in VerifyDtos : Verify(o, scans)
===============================================================================
