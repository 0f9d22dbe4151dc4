---------------------------- MODULE DocumentAmounts ----------------------------
(***************************************************************************)
(* The amounts of a priced cart on its way to the tax documents: the sale, *)
(* its boleta or factura, the dispatch guide and the invoice of guides,    *)
(* the credit note of what comes back.  Documents carry whole pesos, the   *)
(* rows of the shop hundredths; each conversion rounds where the code does.*)
(* Parties, dates and texts are left out.                                  *)
(*                                                                         *)
(* A document is its detail, line by line, and its totals.                 *)
(***************************************************************************)
EXTENDS CartPricing

-----------------------------------------------------------------------------
(* money.util *)

\* roundClp of hundredths, and of hundredths without the 19 % of IVA.
Pesos(n) == ToMoney(n, 100)
Net(n)   == ToMoney(n, 119)

\* A variant: the tax is computed from the net amount.
SplitIvaIncluded_Rate(total) ==
    LET net == Net(100 * total)
    IN  [net |-> net, tax |-> Pesos(19 * net), total |-> total]

SplitIvaIncluded(total) ==
    LET net == Net(100 * total) IN [net |-> net, tax |-> total - net, total |-> total]

-----------------------------------------------------------------------------
(* sales-engine and dte-mapper.service *)

PreparedItem(line) ==
    [quantity |-> line.quantity, unitCost |-> line.unitCost,
     unitPrice |-> ToMoney(line.currentTotal, line.quantity),
     lineTotal |-> line.currentTotal, baseTotal |-> line.basePrice]

PreparedItems(lines) == [i \in DOMAIN lines |-> PreparedItem(lines[i])]

AllOf(items, field) == SumOf([i \in DOMAIN items |-> items[i][field]])
Cost(items) == SumOf([i \in DOMAIN items |-> items[i].unitCost * items[i].quantity])

BuildPreparedSale(lines) ==
    LET items    == PreparedItems(lines)
        total    == Pesos(AllOf(items, "lineTotal"))
        subtotal == Pesos(AllOf(items, "baseTotal"))
    IN  [items |-> items, subtotal |-> subtotal, cogsTotal |-> Cost(items),
         discount |-> NotNegative(subtotal - total), totals |-> SplitIvaIncluded(total)]

Detail(quantity, price, amount) ==
    [QtyItem |-> quantity, PrcItem |-> price, MontoItem |-> amount]

\* A factura has net prices, a boleta prices with the tax in them.
MapSaleToDte(sale, documentType) ==
    LET Amount(n) == IF documentType = 39 THEN Pesos(n) ELSE Net(n)
    IN  [detail |-> [i \in DOMAIN sale.items |->
                       LET item == sale.items[i]
                       IN  Detail(item.quantity, Amount(item.unitPrice), Amount(item.lineTotal))],
         totals |-> SplitIvaIncluded(sale.totals.total)]

-----------------------------------------------------------------------------
(* dispatch-guides-engine and its two mappers *)

ComputeLineNetAmounts(quantity, grossLineTotal) ==
    LET price == ToMoney(Net(grossLineTotal), quantity)
    IN  Detail(quantity, price, price * quantity)

ComputeGuideTotals(detail) ==
    LET net == AllOf(detail, "MontoItem")
        tax == Pesos(19 * net)
    IN  [net |-> net, tax |-> tax, total |-> net + tax]

MapDispatchGuideToDte(items, includePrices) ==
    LET detail == [i \in DOMAIN items |->
                     IF includePrices
                     THEN ComputeLineNetAmounts(items[i].quantity, items[i].lineTotal)
                     ELSE Detail(items[i].quantity, 0, 0)]
    IN  [detail |-> detail, totals |-> ComputeGuideTotals(detail)]

\* Lines of one product at one price are one line of the invoice.
Consolidated(guides) ==
    LET Key(g, i) == <<i, guides[g][i].unitPrice>>
        keys == UNION {{Key(g, i) : i \in DOMAIN guides[g]} : g \in DOMAIN guides}
        Total(k, field) ==
            LET from == {g \in DOMAIN guides : k[1] \in DOMAIN guides[g] /\ Key(g, k[1]) = k}
            IN  SumOf([g \in from |-> guides[g][k[1]][field]])
    IN  [k \in keys |-> [unitPrice |-> k[2], quantity |-> Total(k, "quantity"),
                         lineTotal |-> Total(k, "lineTotal")]]

InvoiceOfGuides(guides) ==
    LET items == Consolidated(guides)
    IN  [detail |-> [k \in DOMAIN items |->
                       Detail(items[k].quantity, Net(items[k].unitPrice), Net(items[k].lineTotal))],
         totals |-> SplitIvaIncluded(Pesos(AllOf(items, "lineTotal")))]

-----------------------------------------------------------------------------
(* returns-engine and return-dte-mapper.service *)

\* A variant: the price of the catalogue and not the price that was paid.
BuildPreparedItems_Base(sale, quantities) ==
    [i \in DOMAIN quantities |->
        LET item == sale.items[i]
        IN  [quantity |-> quantities[i], unitPrice |-> item.unitPrice,
             lineTotal |-> Pesos(ToMoney(item.baseTotal, item.quantity) * quantities[i])]]

\* lineTotal is in pesos already.
BuildPreparedItems(sale, quantities) ==
    [i \in DOMAIN quantities |->
        LET item == sale.items[i]
        IN  [quantity |-> quantities[i], unitPrice |-> item.unitPrice,
             lineTotal |-> Pesos(item.unitPrice * quantities[i])]]

PreparedReturn(sale, quantities) ==
    LET items == BuildPreparedItems(sale, quantities)
    IN  [returnType |-> "PARCIAL", items |-> items, discountAmount |-> 0,
         totals |-> SplitIvaIncluded(AllOf(items, "lineTotal"))]

\* A DESCUENTO has no items: its credit note has a line for the amount.
PreparedDiscount(amount) ==
    [returnType |-> "DESCUENTO", items |-> <<>>, discountAmount |-> Pesos(amount),
     totals |-> SplitIvaIncluded(Pesos(amount))]

MapReturnToNce(ret) ==
    LET discount == Net(100 * ret.discountAmount)
    IN  [detail |-> IF ret.returnType = "DESCUENTO" THEN <<Detail(1, discount, discount)>>
                    ELSE [i \in DOMAIN ret.items |->
                            LET item == ret.items[i]
                            IN  Detail(item.quantity, Net(item.unitPrice),
                                       Net(100 * item.lineTotal))],
         totals |-> SplitIvaIncluded(ret.totals.total)]

-----------------------------------------------------------------------------
(* dte-item-resolver *)

\* The lines of a document as they are stored, the price of a line being its own.
NormalizedItems(dte) ==
    [i \in DOMAIN dte.detail |->
        [quantity |-> dte.detail[i].QtyItem, amount |-> dte.detail[i].MontoItem]]

SnapshotItemCosts(items, costs) ==
    SumOf([i \in DOMAIN items |-> costs[i] * items[i].quantity])

\* The columns of the document, from the DTO of a mapper.
MapToDocumentPayload(dte, costs) ==
    LET items == NormalizedItems(dte)
    IN  [subtotal |-> AllOf(items, "amount"), cogsTotal |-> SnapshotItemCosts(items, costs),
         net |-> dte.totals.net, tax |-> dte.totals.tax, total |-> dte.totals.total]
================================================================================
