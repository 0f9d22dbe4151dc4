----------------------------- MODULE SupplyProofs -----------------------------
(***************************************************************************)
(* Stock, transfers between stores, purchase orders and expenses, for      *)
(* every value of the constants.                                           *)
(***************************************************************************)
EXTENDS SupplyFlow, RowSums

Logs  == [Places -> [Columns -> Bounded]]
Edits == [id : Expenses, read : ExpenseEntity,
          netAmount : Amounts \cup {NULL}, taxAmount : Amounts \cup {NULL}]

SupplyTypeOK ==
    /\ level \in [Places -> Row] /\ moved \in [References -> Logs]
    /\ order \in [Orders -> OrderRow \cup {NULL}]
    /\ transfer \in [Transfers -> TransferRow \cup {NULL}]
    /\ ledger \in [Sources -> Entries \cup {NULL}]
    /\ expense \in [Expenses -> ExpenseEntity \cup {NULL}]
    /\ editor \in [Editors -> Edits \cup {NULL}]

-----------------------------------------------------------------------------
(* The movements of one transaction over the stock.                        *)

\* Movements of known columns, over rows there can be.
Askable(asks) ==
    /\ DOMAIN asks \subseteq Places
    /\ \A p \in DOMAIN asks : asks[p].column \in Columns /\ asks[p].units \in Int

\* What a set of movements adds to a column of a row.
Change(asks, p, c) ==
    IF p \in DOMAIN asks /\ asks[p].column = c THEN DeltaOf(level[p], asks[p]) ELSE 0

StockTypeOK == level \in [Places -> Row] /\ moved \in [References -> Logs]

\* The rows and the log of what asked move alike, and nothing else moves.
Applied(asks, ref) ==
    /\ StockTypeOK'
    /\ \A r \in References \ {ref} : moved'[r] = moved[r]
    /\ \A p \in Places, c \in Columns :
         /\ Change(asks, p, c) \in Int
         /\ level'[p][c] = level[p][c] + Change(asks, p, c)
         /\ moved'[ref][p][c] = moved[ref][p][c] + Change(asks, p, c)
    /\ \A p \in Places \ DOMAIN asks : level'[p] = level[p]
    /\ \A p \in DOMAIN asks : level'[p].exists

\* The bound on a column is a range of integers.
LEMMA BoundedInt == Bounded \subseteq Int
  BY InventoryAssumption DEF Bounded

\* A movement moves an integer of units.
LEMMA DeltaInt ==
    ASSUME NEW row \in Row, NEW ask, ask.column \in Columns, ask.units \in Int
    PROVE  DeltaOf(row, ask) \in Int
<1>1. row[ask.column] \in Int
  BY BoundedInt DEF Row, Columns
<1> QED BY <1>1 DEF DeltaOf, CalculateInventoryDelta

\* upsertStoreProduct changes the column it is asked to, by the delta, and leaves
\* the others.
LEMMA Upserted ==
    ASSUME NEW row \in Row, NEW ask, ask.column \in Columns, ask.units \in Int
    PROVE  /\ UpsertStoreProduct(row, ask).exists = TRUE
           /\ \A c \in Columns :
                UpsertStoreProduct(row, ask)[c] =
                    row[c] + (IF ask.column = c THEN DeltaOf(row, ask) ELSE 0)
           /\ UpsertStoreProduct(row, ask)[ask.column] \in Bounded
                => UpsertStoreProduct(row, ask) \in Row
<1>1. DeltaOf(row, ask) \in Int
  BY DeltaInt
<1> DEFINE new == UpsertStoreProduct(row, ask)
<1>2. /\ DOMAIN row = {"exists", "stock", "stockDefective"}
      /\ row.exists \in BOOLEAN /\ row.stock \in Bounded /\ row.stockDefective \in Bounded
  BY DEF Row
<1>3. CASE ask.column = "stock"
  <2>1. new = [row EXCEPT !.exists = TRUE, !.stock = row.stock + DeltaOf(row, ask)]
    BY <1>2, <1>3 DEF UpsertStoreProduct
  <2>2. new = [exists |-> TRUE, stock |-> row.stock + DeltaOf(row, ask),
               stockDefective |-> row.stockDefective]
    BY <1>2, <2>1 DEF Row
  <2> HIDE DEF new
  <2>3. /\ new.exists = TRUE /\ new["stock"] = row["stock"] + DeltaOf(row, ask)
        /\ new["stockDefective"] = row["stockDefective"]
    BY <2>2
  <2>4. row["stockDefective"] \in Int
    BY <1>2, BoundedInt
  <2>5. \A c \in Columns :
            new[c] = row[c] + (IF ask.column = c THEN DeltaOf(row, ask) ELSE 0)
    BY <1>1, <1>3, <2>3, <2>4 DEF Columns
  <2>6. new[ask.column] \in Bounded => new \in Row
    BY <1>2, <1>3, <2>2 DEF Row
  <2> QED BY <2>3, <2>5, <2>6 DEF new
<1>4. CASE ask.column = "stockDefective"
  <2>1. new = [row EXCEPT !.exists = TRUE,
                          !.stockDefective = row.stockDefective + DeltaOf(row, ask)]
    BY <1>2, <1>4 DEF UpsertStoreProduct
  <2>2. new = [exists |-> TRUE, stock |-> row.stock,
               stockDefective |-> row.stockDefective + DeltaOf(row, ask)]
    BY <1>2, <2>1 DEF Row
  <2> HIDE DEF new
  <2>3. /\ new.exists = TRUE /\ new["stockDefective"] = row["stockDefective"] + DeltaOf(row, ask)
        /\ new["stock"] = row["stock"]
    BY <2>2
  <2>4. row["stock"] \in Int
    BY <1>2, BoundedInt
  <2>5. \A c \in Columns :
            new[c] = row[c] + (IF ask.column = c THEN DeltaOf(row, ask) ELSE 0)
    BY <1>1, <1>4, <2>3, <2>4 DEF Columns
  <2>6. new[ask.column] \in Bounded => new \in Row
    BY <1>2, <1>4, <2>2 DEF Row
  <2> QED BY <2>3, <2>5, <2>6 DEF new
<1> QED BY <1>3, <1>4 DEF Columns

\* A movement is logged with the delta its row takes, place by place.
LEMMA Moves ==
    ASSUME StockTypeOK, NEW asks, Askable(asks), NEW ref \in References,
           ApplyInventoryMovement(asks, ref)
    PROVE  Applied(asks, ref)
<1>1. ASSUME NEW p \in Places, NEW c \in Columns PROVE Change(asks, p, c) \in Int
  BY DeltaInt DEF Change, Askable, StockTypeOK
<1>2. ASSUME NEW p \in DOMAIN asks
      PROVE  /\ p \in Places /\ level'[p].exists /\ level'[p] \in Row
             /\ \A c \in Columns : level'[p][c] = level[p][c] + Change(asks, p, c)
  <2>1. p \in Places /\ level[p] \in Row /\ asks[p].column \in Columns /\ asks[p].units \in Int
    BY DEF Askable, StockTypeOK
  <2>2. level'[p] = UpsertStoreProduct(level[p], asks[p])
    BY <2>1 DEF ApplyInventoryMovement
  <2>3. level'[p][asks[p].column] \in Bounded
    BY DEF ApplyInventoryMovement
  <2>4. /\ UpsertStoreProduct(level[p], asks[p]).exists = TRUE
        /\ \A c \in Columns :
             UpsertStoreProduct(level[p], asks[p])[c] = level[p][c] +
               (IF asks[p].column = c THEN DeltaOf(level[p], asks[p]) ELSE 0)
        /\ UpsertStoreProduct(level[p], asks[p])[asks[p].column] \in Bounded
             => UpsertStoreProduct(level[p], asks[p]) \in Row
    BY <2>1, Upserted
  <2>5. \A c \in Columns : Change(asks, p, c) =
             (IF asks[p].column = c THEN DeltaOf(level[p], asks[p]) ELSE 0)
    BY DEF Change
  <2> QED BY <2>1, <2>2, <2>3, <2>4, <2>5
<1>3. ASSUME NEW p \in Places \ DOMAIN asks
      PROVE  /\ level'[p] = level[p]
             /\ \A c \in Columns : level'[p][c] = level[p][c] + Change(asks, p, c)
  <2>1. level'[p] = level[p]
    BY DEF ApplyInventoryMovement
  <2>2. \A c \in Columns : level[p][c] \in Int
    BY BoundedInt DEF StockTypeOK, Row, Columns
  <2> QED BY <2>1, <2>2 DEF Change
<1>4. level' \in [Places -> Row]
  <2>1. level' = [p \in Places |-> level'[p]]
    BY DEF ApplyInventoryMovement
  <2> QED BY <1>2, <1>3, <2>1 DEF StockTypeOK
<1>5. moved' = [moved EXCEPT ![ref] = Logged(moved[ref], asks)]
  BY DEF ApplyInventoryMovement, StockTypeOK
<1>6. moved'[ref] = Logged(moved[ref], asks) /\ \A r \in References \ {ref} : moved'[r] = moved[r]
  BY <1>5 DEF StockTypeOK
<1>7. ASSUME NEW p \in Places, NEW c \in Columns
      PROVE  /\ moved'[ref][p][c] = moved[ref][p][c] + Change(asks, p, c)
             /\ moved'[ref][p][c] \in Bounded
             /\ moved'[ref][p] = [k \in Columns |-> moved'[ref][p][k]]
  <2>1. moved[ref][p] \in [Columns -> Bounded] /\ moved[ref][p][c] \in Int
    <3>1. moved[ref] \in [Places -> [Columns -> Bounded]]
      BY DEF StockTypeOK, Logs
    <3> QED BY <3>1, BoundedInt
  <2>2. CASE p \in DOMAIN asks
    <3>1. moved'[ref][p] =
            [moved[ref][p] EXCEPT ![asks[p].column] = @ + DeltaOf(level[p], asks[p])]
      BY <1>6, <2>2 DEF Logged
    <3>2. moved'[ref][p][asks[p].column] \in Bounded /\ asks[p].column \in Columns
      BY <2>2 DEF ApplyInventoryMovement, Askable
    <3> QED BY <2>1, <2>2, <3>1, <3>2 DEF Change
  <2>3. CASE p \notin DOMAIN asks
    <3>1. moved'[ref][p] = moved[ref][p]
      BY <1>6, <2>3 DEF Logged
    <3> QED BY <2>1, <2>3, <3>1 DEF Change
  <2> QED BY <2>2, <2>3
<1>8. moved' \in [References -> Logs]
  <2>1. Logged(moved[ref], asks) = [p \in Places |-> moved'[ref][p]]
    BY <1>6 DEF Logged
  <2>2. \A p \in Places : moved'[ref][p] \in [Columns -> Bounded]
    <3>1. "stock" \in Columns
      BY DEF Columns
    <3> QED BY <1>7, <3>1
  <2>3. Logged(moved[ref], asks) \in Logs
    BY <2>1, <2>2 DEF Logs
  <2> QED BY <1>5, <2>3 DEF StockTypeOK
<1> QED BY <1>1, <1>2, <1>3, <1>4, <1>6, <1>7, <1>8 DEF Applied, StockTypeOK

\* A row and its log, whichever transaction moved them.
LEMMA KeepsStock ==
    ASSUME StockTypeOK, StockIsItsMovements, NEW asks, Askable(asks),
           NEW ref \in References, Applied(asks, ref)
    PROVE  StockIsItsMovements'
<1>1. ASSUME NEW p \in Places, NEW c \in Columns
      PROVE  level'[p][c] = SumFunction([r \in References |-> moved'[r][p][c]])
  <2> DEFINE f == [r \in References |-> moved[r][p][c]]
             g == [r \in References |-> moved'[r][p][c]]
  <2>1. StockTypeOK'
    BY DEF Applied
  <2>2. \A r \in References :
            /\ f[r] \in Int /\ f[r] = moved[r][p][c]
            /\ g[r] \in Int /\ g[r] = moved'[r][p][c]
    <3>1. \A r \in References : moved[r][p][c] \in Bounded
      BY DEF StockTypeOK, Logs
    <3>2. \A r \in References : moved'[r][p][c] \in Bounded
      BY <2>1 DEF StockTypeOK, Logs, Bounded
    <3> QED BY <3>1, <3>2, BoundedInt
  <2>3. \A r \in References : r # ref => g[r] = f[r]
    BY DEF Applied
  <2>4. DOMAIN f = References /\ DOMAIN g = References /\ IsFiniteSet(References)
    BY InventoryAssumption
  <2>5. level[p][c] = SumFunction(f)
    BY DEF StockIsItsMovements
  <2>6. /\ level'[p][c] = level[p][c] + Change(asks, p, c)
        /\ g[ref] = f[ref] + Change(asks, p, c)
        /\ Change(asks, p, c) \in Int
    BY <2>2 DEF Applied
  <2> SUFFICES level'[p][c] = SumFunction(g)
    OBVIOUS
  <2> HIDE DEF f, g
  <2>7. SumFunctionOnSet(g, References) = SumFunctionOnSet(f, References) - f[ref] + g[ref]
    BY <2>2, <2>3, <2>4, SumChange
  <2>8. SumFunctionOnSet(f, References) \in Int
    BY <2>2, <2>4, SumInt
  <2>9. level[p][c] = SumFunctionOnSet(f, References)
        /\ SumFunction(g) = SumFunctionOnSet(g, References)
    BY <2>4, <2>5, SumWhole
  <2>10. f[ref] \in Int /\ g[ref] \in Int
    BY <2>2
  <2> QED BY <2>6, <2>7, <2>8, <2>9, <2>10
<1>2. ASSUME NEW p \in Places, ~level'[p].exists, NEW r \in References, NEW c \in Columns
      PROVE  moved'[r][p][c] = 0
  <2>1. p \notin DOMAIN asks /\ level'[p] = level[p]
    BY <1>2 DEF Applied
  <2>2. moved[r][p][c] = 0
    BY <1>2, <2>1 DEF StockIsItsMovements
  <2>3. CASE r = ref
    BY <2>1, <2>2, <2>3 DEF Applied, Change
  <2>4. CASE r # ref
    BY <2>2, <2>4 DEF Applied
  <2> QED BY <2>3, <2>4
<1> QED BY <1>1, <1>2 DEF StockIsItsMovements

-----------------------------------------------------------------------------
(* Who asks for movements.                                                 *)

\* The movements of a transfer, of an order and by hand are well formed.
LEMMA AsksOfTransfer ==
    ASSUME NEW t \in Transfers, transfer[t] \in TransferRow
    PROVE  Askable(TransferMovements(t))
<1>1. /\ transfer[t].origin \in Stores /\ transfer[t].destination \in Stores
      /\ \A v \in Variations : transfer[t].items[v] \in Int
  <2>1. transfer[t].items \in [Variations -> TransferQuantities \cup {0}]
    BY DEF TransferRow
  <2>2. TransferQuantities \cup {0} \subseteq Int
    BY TransferAssumption
  <2> QED BY <2>1, <2>2 DEF TransferRow
<1>2. ItemsOf(t) \subseteq Variations
  BY DEF ItemsOf
<1> QED BY <1>1, <1>2 DEF Askable, TransferMovements, Places, Columns, Ask

LEMMA AsksOfOrder ==
    ASSUME NEW o \in Orders, NEW row \in OrderRow, NEW direction \in {1, -1},
           StockTypeOK, ApplyStockForOrder(o, row, direction)
    PROVE  \E asks : Askable(asks) /\ ApplyInventoryMovement(asks, o)
<1> DEFINE lines == {v \in Variations : row.items[v].quantityRequested > 0}
           units(v) == row.items[v].quantityRequested
           asks == [p \in {row.store} \X lines |->
             IF direction = 1 THEN Ask("PURCHASE", units(p[2]), "stock", TRUE)
             ELSE Ask("ADJUSTMENT", level[p].stock - units(p[2]), "stock", TRUE)]
<1>1. ApplyInventoryMovement(asks, o)
  BY DEF ApplyStockForOrder
<1>2. row.store \in Stores /\ \A v \in lines : v \in Variations /\ units(v) \in Int
  BY DEF OrderRow, OrderItem
<1>3. {row.store} \X lines \subseteq Places
  BY <1>2 DEF Places
<1>4. \A p \in Places : level[p].stock \in Int
  BY BoundedInt DEF StockTypeOK, Row
<1>5. ASSUME NEW p \in {row.store} \X lines
      PROVE  asks[p].column = "stock" /\ asks[p].units \in Int
  <2>1. p[2] \in lines /\ p \in Places
    BY <1>3
  <2>2. units(p[2]) \in Int /\ level[p].stock \in Int
    BY <1>2, <1>4, <2>1
  <2> HIDE DEF units, lines
  <2> QED BY <2>2 DEF Ask
<1>6. Askable(asks)
  <2>1. DOMAIN asks = {row.store} \X lines
    OBVIOUS
  <2> HIDE DEF asks, lines
  <2> QED BY <1>3, <1>5, <2>1 DEF Askable, Columns
<1> QED BY <1>1, <1>6

LEMMA AsksByHand ==
    ASSUME MovementByHand
    PROVE  \E asks : Askable(asks) /\ ApplyInventoryMovement(asks, ByHand)
<1>1. PICK p \in Places, reason \in ReasonsByHand, c \in Conditions, n \in Quantities \cup {0} :
          CreateMovement(p, reason, n, c)
  BY DEF MovementByHand
<1>2. c \in Columns /\ n \in Int
  BY InventoryAssumption, OrderAssumption
<1> DEFINE asks == [q \in {p} |-> Ask(reason, n, c, reason \notin OutReasons)]
<1>3. ApplyInventoryMovement(asks, ByHand)
  BY <1>1 DEF CreateMovement
<1>4. Askable(asks)
  BY <1>2 DEF Askable, Ask
<1> QED BY <1>3, <1>4

-----------------------------------------------------------------------------
(* Purchase orders: totals, and their row of the ledger.                   *)

\* The totals of a row are those of its lines and its discount.
Totalled(row) ==
    /\ row.netTotal = Larger(Subtotal(row.items) - row.discount, 0)
    /\ row.tax = Tax(row.netTotal)

\* The totals of an order are integers.
LEMMA TaxInt == \A n \in Int : Tax(n) \in Int
  BY DEF Tax

LEMMA SubtotalInt ==
    ASSUME NEW items \in [Variations -> OrderItem]
    PROVE  Subtotal(items) \in Int
<1> DEFINE f == [v \in Variations |-> items[v].unitPrice * items[v].quantityRequested]
<1>1. \A v \in Variations : f[v] \in Int
  <2> SUFFICES ASSUME NEW v \in Variations PROVE f[v] \in Int
    OBVIOUS
  <2>1. items[v].unitPrice \in Nat /\ items[v].quantityRequested \in Nat
    BY DEF OrderItem
  <2> QED BY <2>1
<1>2. Subtotal(items) = SumFunction(f) /\ DOMAIN f = Variations
  BY DEF Subtotal
<1> HIDE DEF f
<1> QED BY <1>1, <1>2, SumWhole, SumInt, InventoryAssumption

LEMMA ProductsInt ==
    ASSUME NEW items \in [Variations -> OrderItem]
    PROVE  SumFunction([v \in Variations |-> items[v].quantityRequested]) \in Int
<1> DEFINE f == [v \in Variations |-> items[v].quantityRequested]
<1>1. \A v \in Variations : f[v] \in Int
  BY DEF OrderItem
<1>2. DOMAIN f = Variations
  OBVIOUS
<1> HIDE DEF f
<1>3. SumFunction(f) \in Int
  BY <1>1, <1>2, SumWhole, SumInt, InventoryAssumption
<1> QED BY <1>3 DEF f

\* Totals are recomputed from the lines, and nothing else of the order changes.
LEMMA TotalsFollow ==
    ASSUME NEW row \in OrderRow
    PROVE  /\ WithTotals(row) \in OrderRow
           /\ Totalled(WithTotals(row))
           /\ WithTotals(row).store = row.store
           /\ WithTotals(row).paymentStatus = row.paymentStatus
<1> DEFINE net == Larger(Subtotal(row.items) - row.discount, 0)
           count == SumFunction([v \in Variations |-> row.items[v].quantityRequested])
<1>1. row.items \in [Variations -> OrderItem] /\ row.discount \in Int
  BY DEF OrderRow
<1>2. net \in Int /\ Tax(net) \in Int
  BY <1>1, SubtotalInt, TaxInt DEF Larger
<1>3. count \in Int
  BY <1>1, ProductsInt
<1>4. WithTotals(row) = [row EXCEPT !.netTotal = net, !.tax = Tax(net),
                                    !.total = net + Tax(net), !.totalProducts = count]
  BY DEF WithTotals
<1>5. net = Larger(Subtotal(row.items) - row.discount, 0)
  OBVIOUS
<1> HIDE DEF net, count
<1>6. WithTotals(row) \in OrderRow
  <2>1. PICK tax \in Int, total \in Int : tax = Tax(net) /\ total = net + Tax(net)
    BY <1>2
  <2>2. WithTotals(row) = [row EXCEPT !.netTotal = net, !.tax = tax,
                                      !.total = total, !.totalProducts = count]
    BY <1>4, <2>1
  <2> QED BY <1>2, <1>3, <2>2 DEF OrderRow
<1>7. /\ WithTotals(row).netTotal = net /\ WithTotals(row).tax = Tax(net)
      /\ WithTotals(row).items = row.items /\ WithTotals(row).discount = row.discount
      /\ WithTotals(row).store = row.store
      /\ WithTotals(row).paymentStatus = row.paymentStatus
  BY <1>4 DEF OrderRow
<1> QED BY <1>5, <1>6, <1>7 DEF Totalled

\* Lines that are replaced or verified are lines.
LEMMA ItemsReplaced ==
    ASSUME NEW items \in [Variations -> OrderItem], NEW dtos \in ItemDtos
    PROVE  ReplacedItems(items, dtos) \in [Variations -> OrderItem]
<1>1. \A v \in DOMAIN dtos : dtos[v].quantity \in Nat /\ dtos[v].unitPrice \in Nat
  BY OrderAssumption DEF ItemDtos, ItemDto
<1> SUFFICES ASSUME NEW v \in Variations
             PROVE  ReplacedItems(items, dtos)[v] \in OrderItem
  BY DEF ReplacedItems
<1>2. items[v].quantityReceived \in Nat
  BY DEF OrderItem
<1> QED BY <1>1, <1>2 DEF ReplacedItems, Item, NoItem, OrderItem

LEMMA ItemsScanned ==
    ASSUME NEW items \in [Variations -> OrderItem], NEW scans \in VerifyDtos
    PROVE  VerificationPlan(items, scans) \in [Variations -> OrderItem]
<1>1. \A v \in DOMAIN scans :
          scans[v].quantityReceived \in Nat /\ scans[v].unitPrice \in Nat \cup {NULL}
  BY OrderAssumption DEF VerifyDtos
<1> SUFFICES ASSUME NEW v \in Variations
             PROVE  VerificationPlan(items, scans)[v] \in OrderItem
  BY DEF VerificationPlan
<1>2. items[v] \in OrderItem /\ items[v].unitPrice \in Nat /\ items[v].quantityRequested \in Nat
  BY DEF OrderItem
<1>3. CASE v \in DOMAIN scans
  BY <1>1, <1>2, <1>3 DEF VerificationPlan, Scanned, Item, Given, Larger, OrderItem
<1> QED BY <1>2, <1>3 DEF VerificationPlan

\* The row an update leaves.
LEMMA OrderUpdated ==
    ASSUME NEW row \in OrderRow, NEW dto \in UpdateDtos
    PROVE  /\ UpdatedOrder(row, dto) \in OrderRow
           /\ Totalled(UpdatedOrder(row, dto))
<1> DEFINE items == IF dto.items = NULL THEN row.items ELSE ReplacedItems(row.items, dto.items)
           given == [row EXCEPT !.store = dto.storeID, !.discount = dto.discount,
                                !.items = items, !.paymentStatus = dto.paymentStatus]
<1>1. UpdatedOrder(row, dto) = WithTotals(given)
  BY DEF UpdatedOrder
<1>2. items \in [Variations -> OrderItem]
  <2>1. row.items \in [Variations -> OrderItem]
    BY DEF OrderRow
  <2> QED BY <2>1, ItemsReplaced DEF UpdateDtos
<1>3. dto.storeID \in Stores /\ dto.discount \in Nat /\ dto.paymentStatus \in PaymentStatus
  BY OrderAssumption DEF UpdateDtos
<1>4. given \in OrderRow
  <2> HIDE DEF items
  <2> QED BY <1>2, <1>3 DEF OrderRow
<1> HIDE DEF given
<1> QED BY <1>1, <1>4, TotalsFollow

Key(o) == <<"PURCHASE_ORDER", o>>

\* The row of the ledger an order has.
Booked(o) ==
    IF order[o] = NULL THEN NULL
    ELSE IF order[o].paymentStatus # "PAGADO" THEN NULL
    ELSE Entry(order[o].store, order[o].netTotal, order[o].tax)

OrdersInv ==
    /\ \A o \in Orders : order[o] # NULL => Totalled(order[o])
    /\ \A o \in Orders : ledger[Key(o)] = Booked(o)

OrderTypeOK ==
    /\ order \in [Orders -> OrderRow \cup {NULL}]
    /\ ledger \in [Sources -> Entries \cup {NULL}]

\* One order is written, with totals of its lines, and its row of the ledger.
Wrote(o) ==
    \E row \in OrderRow :
        /\ Totalled(row)
        /\ order' = [order EXCEPT ![o] = row]
        /\ \E entry \in Entries \cup {NULL} :
             /\ ledger' = [ledger EXCEPT ![Key(o)] = entry]
             /\ entry = IF row.paymentStatus # "PAGADO" THEN NULL
                        ELSE Entry(row.store, row.netTotal, row.tax)

\* The ledger row of an order has the type of its columns.
LEMMA EntryOf ==
    ASSUME NEW row \in OrderRow
    PROVE  Entry(row.store, row.netTotal, row.tax) \in Entries
  BY DEF OrderRow, Entry, Entries

\* An order is a source of the ledger.
LEMMA KeyIn == \A o \in Orders : Key(o) \in Sources
  BY DEF Key, Sources

\* Leaving the ledger alone is writing what there was.
LEMMA LedgerSame ==
    ASSUME OrderTypeOK, NEW o \in Orders, ledger' = ledger
    PROVE  ledger' = [ledger EXCEPT ![Key(o)] = ledger[Key(o)]]
  BY KeyIn DEF OrderTypeOK

\* A step that writes no entry, of an order that has and keeps the right one.
LEMMA WroteRow ==
    ASSUME OrderTypeOK, OrdersInv, NEW o \in Orders, NEW row \in OrderRow, Totalled(row),
           order' = [order EXCEPT ![o] = row], ledger' = ledger,
           Booked(o) = IF row.paymentStatus # "PAGADO" THEN NULL
                       ELSE Entry(row.store, row.netTotal, row.tax)
    PROVE  Wrote(o)
<1>1. ledger' = [ledger EXCEPT ![Key(o)] = Booked(o)]
  BY LedgerSame DEF OrdersInv
<1>2. Booked(o) \in Entries \cup {NULL}
  BY KeyIn DEF OrdersInv, OrderTypeOK
<1> QED BY <1>1, <1>2 DEF Wrote

\* Each method writes one order, and its ledger row with it.
LEMMA CreateWrites ==
    ASSUME OrderTypeOK, OrdersInv, NEW o \in Orders, NEW s \in Stores, NEW d \in Discounts,
           NEW dtos \in ItemDtos, CreatePurchaseOrder(o, s, d, dtos)
    PROVE  Wrote(o)
<1> DEFINE items == ReplacedItems([v \in Variations |-> NoItem], dtos)
           row == [NewOrder(s, d) EXCEPT !.items = items]
<1>1. [v \in Variations |-> NoItem] \in [Variations -> OrderItem]
  BY DEF NoItem, OrderItem
<1>2. items \in [Variations -> OrderItem]
  BY <1>1, ItemsReplaced
<1>3. order' = [order EXCEPT ![o] = WithTotals(row)] /\ ledger' = ledger /\ order[o] = NULL
  BY DEF CreatePurchaseOrder, NewOrder
<1>4. row \in OrderRow /\ row.paymentStatus = "PENDIENTE"
  <2>1. d \in Nat
    BY OrderAssumption
  <2> HIDE DEF items
  <2> QED BY <1>2, <2>1 DEF NewOrder, OrderRow, PaymentStatus
<1> HIDE DEF row
<1>5. /\ WithTotals(row) \in OrderRow /\ Totalled(WithTotals(row))
      /\ WithTotals(row).paymentStatus = "PENDIENTE"
  BY <1>4, TotalsFollow
<1>6. Booked(o) = NULL
  BY <1>3 DEF Booked
<1> QED BY <1>3, <1>5, <1>6, WroteRow

LEMMA UpdateWrites ==
    ASSUME OrderTypeOK, OrdersInv, NEW o \in Orders, NEW dto \in UpdateDtos,
           UpdatePurchaseOrder(o, dto)
    PROVE  Wrote(o)
<1> DEFINE next == UpdatedOrder(order[o], dto)
<1>1. order[o] # NULL /\ order[o] \in OrderRow
  BY DEF UpdatePurchaseOrder, OrderTypeOK
<1>2. next \in OrderRow /\ Totalled(next)
  BY <1>1, OrderUpdated
<1>3. order' = [order EXCEPT ![o] = next]
  BY DEF UpdatePurchaseOrder
<1>4. \/ next.paymentStatus = "PAGADO" /\ RecordPurchaseOrder(o, next)
      \/ next.paymentStatus # "PAGADO" /\ RemovePurchaseOrder(o)
      \/ /\ order[o].paymentStatus # "PAGADO" /\ next.paymentStatus # "PAGADO"
         /\ ledger' = ledger
  BY DEF UpdatePurchaseOrder
<1> HIDE DEF next
<1>5. CASE next.paymentStatus = "PAGADO" /\ RecordPurchaseOrder(o, next)
  BY <1>2, <1>3, <1>5, EntryOf DEF Wrote, RecordPurchaseOrder, Record, Key
<1>6. CASE next.paymentStatus # "PAGADO" /\ RemovePurchaseOrder(o)
  BY <1>2, <1>3, <1>6 DEF Wrote, RemovePurchaseOrder, Remove, Key
<1>7. CASE /\ order[o].paymentStatus # "PAGADO" /\ next.paymentStatus # "PAGADO"
           /\ ledger' = ledger
  <2>1. Booked(o) = NULL
    BY <1>7 DEF Booked
  <2> QED BY <1>2, <1>3, <1>7, <2>1, WroteRow
<1> QED BY <1>4, <1>5, <1>6, <1>7

LEMMA StatusWrites ==
    ASSUME OrderTypeOK, OrdersInv, NEW o \in Orders, NEW status, UpdateStatus(o, status)
    PROVE  Wrote(o)
<1>1. order[o] # NULL /\ order[o] \in OrderRow /\ Totalled(order[o])
  BY DEF UpdateStatus, OrderTypeOK, OrdersInv
<1> DEFINE row == [order[o] EXCEPT !.status = status]
<1>2. status \in {"ENVIADO", "ACEPTADO", "RECHAZADO"}
  BY DEF UpdateStatus, AllowedTransitions
<1>3. order' = [order EXCEPT ![o] = row] /\ ledger' = ledger
  BY DEF UpdateStatus, OrderTypeOK
<1>4. /\ row \in OrderRow /\ row.store = order[o].store /\ row.netTotal = order[o].netTotal
      /\ row.tax = order[o].tax /\ row.paymentStatus = order[o].paymentStatus
      /\ row.items = order[o].items /\ row.discount = order[o].discount
  BY <1>1, <1>2 DEF OrderRow
<1> HIDE DEF row
<1>5. Totalled(row)
  BY <1>1, <1>4 DEF Totalled
<1>6. Booked(o) = IF row.paymentStatus # "PAGADO" THEN NULL
                  ELSE Entry(row.store, row.netTotal, row.tax)
  BY <1>1, <1>4 DEF Booked
<1> QED BY <1>3, <1>4, <1>5, <1>6, WroteRow

LEMMA VerifyWrites ==
    ASSUME OrderTypeOK, OrdersInv, NEW o \in Orders, NEW scans \in VerifyDtos,
           Verify(o, scans)
    PROVE  Wrote(o)
<1>1. order[o] # NULL /\ order[o] \in OrderRow
  BY DEF Verify, OrderTypeOK
<1> DEFINE row == [order[o] EXCEPT !.items = VerificationPlan(order[o].items, scans)]
           next == WithTotals(row)
<1>2. /\ order' = [order EXCEPT ![o] = next]
      /\ IF next.paymentStatus = "PAGADO" THEN RecordPurchaseOrder(o, next)
         ELSE ledger' = ledger
  BY DEF Verify
<1>3. row \in OrderRow /\ row.paymentStatus = order[o].paymentStatus
  <2>1. order[o].items \in [Variations -> OrderItem]
    BY <1>1 DEF OrderRow
  <2>2. VerificationPlan(order[o].items, scans) \in [Variations -> OrderItem]
    BY <2>1, ItemsScanned
  <2> QED BY <1>1, <2>2 DEF OrderRow
<1> HIDE DEF row
<1>4. next \in OrderRow /\ Totalled(next) /\ next.paymentStatus = order[o].paymentStatus
  BY <1>3, TotalsFollow
<1> HIDE DEF next
<1>5. CASE next.paymentStatus = "PAGADO"
  BY <1>2, <1>4, <1>5, EntryOf DEF Wrote, RecordPurchaseOrder, Record, Key
<1>6. CASE next.paymentStatus # "PAGADO"
  <2>1. Booked(o) = NULL
    BY <1>4, <1>6 DEF Booked
  <2> QED BY <1>2, <1>4, <1>6, <2>1, WroteRow
<1> QED BY <1>5, <1>6

\* An order written with its ledger row stays booked while it is PAGADO.
LEMMA WroteKeeps ==
    ASSUME OrderTypeOK, OrdersInv, NEW o \in Orders, Wrote(o)
    PROVE  OrderTypeOK' /\ OrdersInv'
<1>1. PICK row \in OrderRow, entry \in Entries \cup {NULL} :
        /\ Totalled(row)
        /\ order' = [order EXCEPT ![o] = row]
        /\ ledger' = [ledger EXCEPT ![Key(o)] = entry]
        /\ entry = IF row.paymentStatus # "PAGADO" THEN NULL
                   ELSE Entry(row.store, row.netTotal, row.tax)
  BY DEF Wrote
<1>2. OrderTypeOK'
  BY <1>1, KeyIn DEF OrderTypeOK
<1>3. order'[o] = row /\ ledger'[Key(o)] = entry /\ row # NULL
  BY <1>1, KeyIn, OrderAssumption DEF OrderTypeOK
<1>4. ASSUME NEW q \in Orders, q # o
      PROVE  order'[q] = order[q] /\ ledger'[Key(q)] = ledger[Key(q)]
  BY <1>1, <1>4, KeyIn DEF OrderTypeOK, Key
<1>5. ASSUME NEW q \in Orders
      PROVE  /\ order'[q] # NULL => Totalled(order'[q])
             /\ ledger'[Key(q)] = Booked(q)'
  <2>1. CASE q = o
    BY <1>1, <1>3, <2>1 DEF Booked
  <2>2. CASE q # o
    BY <1>4, <2>2 DEF Booked, OrdersInv
  <2> QED BY <2>1, <2>2
<1> QED BY <1>2, <1>5 DEF OrdersInv, Totalled, Key

-----------------------------------------------------------------------------
(* Transfers between stores.                                               *)

\* A transfer goes from one store to another.
TransfersInv ==
    /\ \A t \in Transfers : transfer[t] # NULL => transfer[t].origin # transfer[t].destination
    /\ TransfersMoveItems

TransferTypeOK == transfer \in [Transfers -> TransferRow \cup {NULL}]

\* What a transfer has moved by now.
Carried(t, p) ==
    IF transfer[t] = NULL \/ transfer[t].status = "PENDING" THEN 0
    ELSE CASE p[1] = transfer[t].origin -> -transfer[t].items[p[2]]
           [] p[1] = transfer[t].destination -> transfer[t].items[p[2]]
           [] OTHER -> 0

\* TransfersMoveItems, place by place.
LEMMA CarriedIsMoved ==
    TransfersMoveItems <=> \A t \in Transfers, p \in Places : moved[t][p].stock = Carried(t, p)
  BY DEF TransfersMoveItems, Carried

\* Creating and filling a transfer moves nothing; completing it moves what it
\* lists.
LEMMA CreateKeepsTransfers ==
    ASSUME TransferTypeOK, TransfersInv, NEW t \in Transfers,
           NEW a \in Stores, NEW b \in Stores, CreateTransfer(t, a, b)
    PROVE  TransferTypeOK' /\ TransfersInv'
<1> DEFINE row == [origin |-> a, destination |-> b, status |-> "PENDING",
                   items |-> [v \in Variations |-> 0]]
<1>1. row \in TransferRow /\ row.status = "PENDING" /\ row.origin # row.destination
  BY DEF TransferRow, CreateTransfer
<1>2. transfer' = [transfer EXCEPT ![t] = row] /\ transfer[t] = NULL /\ moved' = moved
  BY DEF CreateTransfer
<1> HIDE DEF row
<1>3. TransferTypeOK'
  BY <1>1, <1>2 DEF TransferTypeOK
<1>4. transfer'[t] = row /\ \A q \in Transfers : q # t => transfer'[q] = transfer[q]
  BY <1>2 DEF TransferTypeOK
<1>5. \A q \in Transfers, p \in Places : Carried(q, p)' = Carried(q, p)
  BY <1>1, <1>2, <1>4 DEF Carried
<1>6. \A q \in Transfers, p \in Places : moved'[q][p].stock = Carried(q, p)'
  BY <1>2, <1>5, CarriedIsMoved DEF TransfersInv
<1>7. TransfersMoveItems'
  BY <1>6 DEF TransfersMoveItems, Carried
<1> QED BY <1>1, <1>3, <1>4, <1>7 DEF TransfersInv

LEMMA AddKeepsTransfers ==
    ASSUME TransferTypeOK, TransfersInv, NEW t \in Transfers, NEW v \in Variations,
           NEW n \in TransferQuantities, AddItem(t, v, n)
    PROVE  TransferTypeOK' /\ TransfersInv'
<1>1. transfer[t] # NULL /\ transfer[t] \in TransferRow /\ transfer[t].status = "PENDING"
  BY DEF AddItem, Modifiable, TransferTypeOK
<1> DEFINE items == [transfer[t].items EXCEPT ![v] = n]
           row == [transfer[t] EXCEPT !.items = items]
<1>2. transfer' = [transfer EXCEPT ![t] = row] /\ moved' = moved
  BY DEF AddItem, TransferTypeOK
<1>3. items \in [Variations -> TransferQuantities \cup {0}]
  BY <1>1 DEF TransferRow
<1> HIDE DEF items
<1>4. row \in TransferRow /\ row.status = "PENDING" /\ row.origin # row.destination
  BY <1>1, <1>3 DEF TransferRow, TransfersInv
<1> HIDE DEF row
<1>5. TransferTypeOK'
  BY <1>2, <1>4 DEF TransferTypeOK
<1>6. transfer'[t] = row /\ \A q \in Transfers : q # t => transfer'[q] = transfer[q]
  BY <1>2 DEF TransferTypeOK
<1>7. \A q \in Transfers, p \in Places : Carried(q, p)' = Carried(q, p)
  BY <1>1, <1>4, <1>6 DEF Carried
<1>8. \A q \in Transfers, p \in Places : moved'[q][p].stock = Carried(q, p)'
  BY <1>2, <1>7, CarriedIsMoved DEF TransfersInv
<1>9. TransfersMoveItems'
  BY <1>8 DEF TransfersMoveItems, Carried
<1> QED BY <1>4, <1>5, <1>6, <1>9 DEF TransfersInv

\* Each item once out of the origin and once into the destination.
LEMMA MovementsOfItems ==
    ASSUME NEW t \in Transfers, transfer[t] \in TransferRow,
           transfer[t].origin # transfer[t].destination, NEW p \in Places
    PROVE  Change(TransferMovements(t), p, "stock") =
             CASE p[1] = transfer[t].origin -> -transfer[t].items[p[2]]
               [] p[1] = transfer[t].destination -> transfer[t].items[p[2]]
               [] OTHER -> 0
<1> DEFINE asks == TransferMovements(t)
           places == {transfer[t].origin, transfer[t].destination} \X ItemsOf(t)
<1>1. p[1] \in Stores /\ p[2] \in Variations /\ p = <<p[1], p[2]>>
  BY DEF Places
<1>2. transfer[t].items[p[2]] \in Nat
  <2>1. transfer[t].items \in [Variations -> TransferQuantities \cup {0}]
    BY DEF TransferRow
  <2> QED BY <1>1, <2>1, TransferAssumption
<1>3. DOMAIN asks = places
  BY DEF TransferMovements
<1>4. CASE p \in places
  <2>1. asks[p] = IF p[1] = transfer[t].origin
                  THEN Ask("TRANSFER_OUT", transfer[t].items[p[2]], "stock", FALSE)
                  ELSE Ask("TRANSFER_IN", transfer[t].items[p[2]], "stock", TRUE)
    BY <1>4 DEF TransferMovements
  <2>2. p[1] \in {transfer[t].origin, transfer[t].destination}
    BY <1>1, <1>4
  <2> HIDE DEF asks, places
  <2>3. Change(asks, p, "stock") = IF p[1] = transfer[t].origin
                                   THEN -transfer[t].items[p[2]] ELSE transfer[t].items[p[2]]
    BY <1>2, <1>3, <1>4, <2>1
       DEF Change, Ask, DeltaOf, CalculateInventoryDelta, OutReasons, InReasons
  <2> QED BY <2>2, <2>3 DEF asks
<1>5. CASE p \notin places
  <2>1. Change(asks, p, "stock") = 0
    BY <1>3, <1>5 DEF Change
  <2>2. p[1] \notin {transfer[t].origin, transfer[t].destination} \/ p[2] \notin ItemsOf(t)
    BY <1>1, <1>5
  <2>3. CASE p[2] \notin ItemsOf(t)
    <3>1. transfer[t].items[p[2]] = 0
      BY <1>1, <1>2, <2>3 DEF ItemsOf
    <3> QED BY <2>1, <3>1
  <2>4. CASE p[1] \notin {transfer[t].origin, transfer[t].destination}
    BY <2>1, <2>4
  <2> QED BY <2>2, <2>3, <2>4
<1> QED BY <1>4, <1>5

LEMMA CompleteKeepsTransfers ==
    ASSUME StockTypeOK, TransferTypeOK, TransfersInv, NEW t \in Transfers, CompleteTransfer(t)
    PROVE  TransferTypeOK' /\ TransfersInv' /\ Applied(TransferMovements(t), t)
<1>1. /\ transfer[t] # NULL /\ transfer[t] \in TransferRow /\ transfer[t].status = "PENDING"
      /\ t \in References
  BY SupplyAssumption DEF CompleteTransfer, Modifiable, TransferTypeOK
<1>2. Applied(TransferMovements(t), t)
  BY <1>1, AsksOfTransfer, Moves DEF CompleteTransfer
<1> DEFINE row == [transfer[t] EXCEPT !.status = "COMPLETED"]
<1>3. transfer' = [transfer EXCEPT ![t] = row]
  BY DEF CompleteTransfer, TransferTypeOK
<1>4. /\ row \in TransferRow /\ row.status = "COMPLETED" /\ row.items = transfer[t].items
      /\ row.origin = transfer[t].origin /\ row.destination = transfer[t].destination
      /\ row # NULL /\ row.origin # row.destination
  <2>1. row \in TransferRow
    BY <1>1 DEF TransferRow
  <2> QED BY <1>1, <2>1, TransferAssumption DEF TransferRow, TransfersInv
<1> HIDE DEF row
<1>5. TransferTypeOK'
  BY <1>3, <1>4 DEF TransferTypeOK
<1>6. transfer'[t] = row /\ \A q \in Transfers : q # t => transfer'[q] = transfer[q]
  BY <1>3 DEF TransferTypeOK
<1>7. ASSUME NEW q \in Transfers, NEW p \in Places PROVE moved'[q][p].stock = Carried(q, p)'
  <2>1. CASE q = t
    <3>1. moved[t][p].stock = 0
      BY <1>1, CarriedIsMoved DEF TransfersInv, Carried
    <3>2. moved'[t][p]["stock"] =
              moved[t][p]["stock"] + Change(TransferMovements(t), p, "stock")
          /\ Change(TransferMovements(t), p, "stock") \in Int
      BY <1>2 DEF Applied, Columns
    <3>3. Carried(t, p)' = Change(TransferMovements(t), p, "stock")
      BY <1>1, <1>4, <1>6, MovementsOfItems DEF Carried, TransfersInv
    <3> QED BY <2>1, <3>1, <3>2, <3>3
  <2>2. CASE q # t
    <3>1. moved'[q] = moved[q]
      BY <1>2, <2>2, SupplyAssumption DEF Applied
    <3>2. Carried(q, p)' = Carried(q, p)
      BY <1>6, <2>2 DEF Carried
    <3> QED BY <3>1, <3>2, CarriedIsMoved DEF TransfersInv
  <2> QED BY <2>1, <2>2
<1>8. TransfersMoveItems'
  BY <1>7 DEF TransfersMoveItems, Carried
<1> QED BY <1>2, <1>4, <1>5, <1>6, <1>8 DEF TransfersInv

\* Movements that refer to something else.
LEMMA OthersKeepTransfers ==
    ASSUME TransferTypeOK, TransfersInv, transfer' = transfer,
           \A t \in Transfers : moved'[t] = moved[t]
    PROVE  TransferTypeOK' /\ TransfersInv'
  BY DEF TransferTypeOK, TransfersInv, TransfersMoveItems

-----------------------------------------------------------------------------
(* Expenses.                                                               *)

\* Nobody reads an expense to edit it while somebody else is editing it.
OneEditPerExpense ==
    \A d, f \in Editors :
        editor[d] # NULL /\ editor[f] # NULL /\ editor[d].id = editor[f].id => d = f

Account(e) == <<"EXPENSE", e>>
EntryFor(row) == Entry(row.store, row.netAmount, row.taxAmount)
Adds(row) == row.amount = row.netAmount + row.taxAmount

\* An editor holds the expense as it is, unless it was removed.
ExpensesInv ==
    /\ \A e \in Expenses : expense[e] # NULL =>
         ledger[Account(e)] = EntryFor(expense[e]) /\ Adds(expense[e])
    /\ \A d \in Editors : editor[d] # NULL =>
         /\ expense[editor[d].id] \in {editor[d].read, NULL}
         /\ Adds(editor[d].read)

ExpenseTypeOK ==
    /\ ledger \in [Sources -> Entries \cup {NULL}]
    /\ expense \in [Expenses -> ExpenseEntity \cup {NULL}]
    /\ editor \in [Editors -> Edits \cup {NULL}]

\* An expense is a source of the ledger.
LEMMA AccountIn == \A e \in Expenses : Account(e) \in Sources
  BY DEF Account, Sources

\* The ledger row of an expense has the type of its columns.
LEMMA EntryForRow == \A row \in ExpenseEntity : EntryFor(row) \in Entries
  BY DEF ExpenseEntity, EntryFor, Entry, Entries

\* The invariant of the expenses says what ExpensesBooked does.
LEMMA ExpenseBooks == ExpensesInv => ExpensesBooked
  BY DEF ExpensesInv, ExpensesBooked, Account, EntryFor, Adds

\* A new expense adds up.
LEMMA EntityOf ==
    ASSUME NEW s \in Stores, NEW n \in Int, NEW x \in Int
    PROVE  ExpenseRow(s, n, x) \in ExpenseEntity /\ Adds(ExpenseRow(s, n, x))
  BY DEF ExpenseRow, ExpenseEntity, Adds

\* Creation, the read of an edit and removal keep row and ledger together.
LEMMA CreateKeepsExpenses ==
    ASSUME ExpenseTypeOK, ExpensesInv, NEW e \in Expenses, NEW s \in Stores,
           NEW n \in Amounts, NEW x \in Amounts, CreateExpense(e, s, n, x)
    PROVE  ExpenseTypeOK' /\ ExpensesInv'
<1> DEFINE row == ExpenseRow(s, n, x)
<1>1. row \in ExpenseEntity /\ Adds(row) /\ EntryFor(row) \in Entries
  BY ExpenseAssumption, EntityOf, EntryForRow
<1>2. /\ expense' = [expense EXCEPT ![e] = row] /\ editor' = editor
      /\ ledger' = [ledger EXCEPT ![Account(e)] = EntryFor(row)]
  BY DEF CreateExpense, RecordExpense, Record, Account, EntryFor
<1>3. \A d \in Editors : editor[d] # NULL => editor[d].id # e
  BY DEF CreateExpense
<1> HIDE DEF row
<1>4. ExpenseTypeOK'
  BY <1>1, <1>2, AccountIn DEF ExpenseTypeOK
<1>5. expense'[e] = row /\ \A q \in Expenses : q # e => expense'[q] = expense[q]
  BY <1>2 DEF ExpenseTypeOK
<1>6. ledger'[Account(e)] = EntryFor(row)
      /\ \A q \in Expenses : q # e => ledger'[Account(q)] = ledger[Account(q)]
  BY <1>2, AccountIn DEF ExpenseTypeOK, Account
<1>7. \A d \in Editors : editor[d] # NULL => editor[d].id \in Expenses
  BY DEF ExpenseTypeOK, Edits
<1>8. \A q \in Expenses : expense'[q] # NULL =>
          ledger'[Account(q)] = EntryFor(expense'[q]) /\ Adds(expense'[q])
  BY <1>1, <1>5, <1>6 DEF ExpensesInv
<1>9. \A d \in Editors : editor'[d] # NULL =>
          expense'[editor'[d].id] \in {editor'[d].read, NULL} /\ Adds(editor'[d].read)
  BY <1>2, <1>3, <1>5, <1>7 DEF ExpensesInv
<1> QED BY <1>4, <1>8, <1>9 DEF ExpensesInv, Account, EntryFor, Adds

LEMMA ReadKeepsExpenses ==
    ASSUME ExpenseTypeOK, ExpensesInv, NEW d \in Editors, NEW e \in Expenses,
           NEW n \in Amounts \cup {NULL}, NEW x \in Amounts \cup {NULL},
           ReadExpense(d, e, n, x)
    PROVE  ExpenseTypeOK' /\ ExpensesInv'
<1> DEFINE edit == [id |-> e, read |-> expense[e], netAmount |-> n, taxAmount |-> x]
<1>1. /\ edit \in Edits /\ edit.id = e /\ edit.read = expense[e]
      /\ expense[e] # NULL
  BY DEF ReadExpense, ExpenseTypeOK, Edits
<1>2. editor' = [editor EXCEPT ![d] = edit] /\ expense' = expense /\ ledger' = ledger
  BY DEF ReadExpense
<1> HIDE DEF edit
<1>3. ExpenseTypeOK'
  BY <1>1, <1>2 DEF ExpenseTypeOK
<1>4. editor'[d] = edit /\ \A f \in Editors : f # d => editor'[f] = editor[f]
  BY <1>2 DEF ExpenseTypeOK
<1>5. \A f \in Editors : editor'[f] # NULL =>
          expense'[editor'[f].id] \in {editor'[f].read, NULL} /\ Adds(editor'[f].read)
  BY <1>1, <1>2, <1>4 DEF ExpensesInv
<1> QED BY <1>2, <1>3, <1>5 DEF ExpensesInv, Account, EntryFor, Adds

LEMMA RemoveKeepsExpenses ==
    ASSUME ExpenseTypeOK, ExpensesInv, NEW e \in Expenses, RemoveExpense(e)
    PROVE  ExpenseTypeOK' /\ ExpensesInv'
<1>1. expense' = [expense EXCEPT ![e] = NULL] /\ ledger' = ledger /\ editor' = editor
  BY DEF RemoveExpense
<1>2. ExpenseTypeOK'
  BY <1>1 DEF ExpenseTypeOK
<1>3. \A q \in Expenses : expense'[q] = IF q = e THEN NULL ELSE expense[q]
  BY <1>1 DEF ExpenseTypeOK
<1>4. \A d \in Editors : editor[d] # NULL => editor[d].id \in Expenses
  BY DEF ExpenseTypeOK, Edits
<1>5. \A q \in Expenses : expense'[q] # NULL =>
          ledger'[Account(q)] = EntryFor(expense'[q]) /\ Adds(expense'[q])
  BY <1>1, <1>3 DEF ExpensesInv
<1>6. \A d \in Editors : editor'[d] # NULL =>
          expense'[editor'[d].id] \in {editor'[d].read, NULL} /\ Adds(editor'[d].read)
  BY <1>1, <1>3, <1>4 DEF ExpensesInv
<1> QED BY <1>2, <1>5, <1>6 DEF ExpensesInv, Account, EntryFor, Adds

\* An edit of a row that adds up adds up.
LEMMA EntityEdited ==
    ASSUME NEW edit \in Edits
    PROVE  /\ Edited(edit) \in ExpenseEntity
           /\ Adds(edit.read) => Adds(Edited(edit))
<1>1. edit.read \in ExpenseEntity /\ edit.read.store \in Stores
      /\ edit.read.netAmount \in Int /\ edit.read.taxAmount \in Int
  BY DEF Edits, ExpenseEntity
<1>2. edit.netAmount \in Int \cup {NULL} /\ edit.taxAmount \in Int \cup {NULL}
  BY ExpenseAssumption DEF Edits
<1>3. CASE edit.netAmount = NULL /\ edit.taxAmount = NULL
  BY <1>1, <1>3 DEF Edited
<1>4. CASE ~(edit.netAmount = NULL /\ edit.taxAmount = NULL)
  <2>1. PICK n \in Int, x \in Int : Edited(edit) = ExpenseRow(edit.read.store, n, x)
    BY <1>1, <1>2, <1>4 DEF Edited
  <2> QED BY <1>1, <2>1, EntityOf
<1> QED BY <1>3, <1>4

\* Over the row that was read, an entity is saved as it is.
LEMMA SavedWhole ==
    ASSUME NEW entity \in ExpenseEntity, NEW base
    PROVE  Saved(entity, base, base) \in {entity, NULL}
<1>1. CASE base = NULL
  BY <1>1 DEF Saved
<1>2. CASE base # NULL
  <2>1. Saved(entity, base, base) = [c \in DOMAIN entity |-> entity[c]]
    BY <1>2 DEF Saved
  <2>2. entity = [c \in DOMAIN entity |-> entity[c]]
    BY DEF ExpenseEntity
  <2> QED BY <2>1, <2>2
<1> QED BY <1>1, <1>2

\* Of two edits each may leave a column of its own: still an expense.
LEMMA SavedTyped ==
    ASSUME NEW entity \in ExpenseEntity, NEW base, NEW row \in ExpenseEntity \cup {NULL}
    PROVE  Saved(entity, base, row) \in ExpenseEntity \cup {NULL}
<1>1. CASE base = NULL \/ row = NULL
  BY <1>1 DEF Saved
<1>2. CASE base # NULL /\ row # NULL
  <2> DEFINE saved == [c \in DOMAIN entity |-> IF entity[c] # base[c] THEN entity[c] ELSE row[c]]
  <2>1. Saved(entity, base, row) = saved
    BY <1>2 DEF Saved
  <2>2. DOMAIN entity = {"store", "netAmount", "taxAmount", "amount"} /\ row \in ExpenseEntity
    BY <1>2 DEF ExpenseEntity
  <2>3. /\ saved = [c \in {"store", "netAmount", "taxAmount", "amount"} |->
                      IF entity[c] # base[c] THEN entity[c] ELSE row[c]]
    BY <2>2
  <2> HIDE DEF saved
  <2>4. /\ saved["store"] \in {entity.store, row.store}
        /\ saved["netAmount"] \in {entity.netAmount, row.netAmount}
        /\ saved["taxAmount"] \in {entity.taxAmount, row.taxAmount}
        /\ saved["amount"] \in {entity.amount, row.amount}
    BY <2>3
  <2>5. saved = [store |-> saved["store"], netAmount |-> saved["netAmount"],
                 taxAmount |-> saved["taxAmount"], amount |-> saved["amount"]]
    BY <2>3
  <2> QED BY <2>1, <2>2, <2>4, <2>5 DEF ExpenseEntity
<1> QED BY <1>1, <1>2

\* A save writes what it read, which nobody else has edited meanwhile.
LEMMA SaveKeepsExpenses ==
    ASSUME ExpenseTypeOK, ExpensesInv, OneEditPerExpense, NEW d \in Editors, SaveExpense(d)
    PROVE  ExpenseTypeOK' /\ ExpensesInv'
<1>1. editor[d] # NULL /\ editor[d] \in Edits
  BY DEF SaveExpense, ExpenseTypeOK
<1>2. PICK e \in Expenses : e = editor[d].id
  BY <1>1 DEF Edits
<1>3. PICK entity : entity = Edited(editor[d])
  OBVIOUS
<1>4. entity \in ExpenseEntity /\ Adds(entity) /\ EntryFor(entity) \in Entries
  BY <1>1, <1>3, EntityEdited, EntryForRow DEF ExpensesInv
<1>5. /\ ledger' = [ledger EXCEPT ![Account(e)] = EntryFor(entity)]
      /\ editor' = [editor EXCEPT ![d] = NULL]
  BY <1>2, <1>3 DEF SaveExpense, RecordExpense, Record, Account, EntryFor
<1>6. PICK row \in {entity, NULL} : expense' = [expense EXCEPT ![e] = row]
  <2>1. PICK base \in {editor[d].read, expense[e]} :
            expense' = [expense EXCEPT ![e] = Saved(entity, base, expense[e])]
    BY <1>2, <1>3 DEF SaveExpense, ExpenseTypeOK
  <2>2. expense[e] \in {editor[d].read, NULL}
    BY <1>1, <1>2 DEF ExpensesInv
  <2>3. CASE expense[e] = NULL
    BY <2>1, <2>3 DEF Saved
  <2>4. CASE expense[e] # NULL
    <3>1. base = expense[e]
      BY <2>1, <2>2, <2>4
    <3> QED BY <1>4, <2>1, <3>1, SavedWhole
  <2> QED BY <2>3, <2>4
<1>7. ExpenseTypeOK'
  BY <1>4, <1>5, <1>6, AccountIn DEF ExpenseTypeOK
<1>8. \A q \in Expenses : expense'[q] = IF q = e THEN row ELSE expense[q]
  BY <1>6 DEF ExpenseTypeOK
<1>9. \A q \in Expenses :
          ledger'[Account(q)] = IF q = e THEN EntryFor(entity) ELSE ledger[Account(q)]
  BY <1>5, AccountIn DEF ExpenseTypeOK, Account
<1>10. \A q \in Expenses : expense'[q] # NULL =>
           ledger'[Account(q)] = EntryFor(expense'[q]) /\ Adds(expense'[q])
  BY <1>4, <1>6, <1>8, <1>9 DEF ExpensesInv
<1>11. ASSUME NEW f \in Editors, editor'[f] # NULL
       PROVE  expense'[editor'[f].id] \in {editor'[f].read, NULL} /\ Adds(editor'[f].read)
  <2>1. f # d /\ editor'[f] = editor[f] /\ editor[f] # NULL
    BY <1>5, <1>11 DEF ExpenseTypeOK
  <2>2. editor[f].id # e /\ editor[f].id \in Expenses
    BY <1>1, <1>2, <2>1 DEF OneEditPerExpense, ExpenseTypeOK, Edits
  <2> QED BY <1>8, <2>1, <2>2 DEF ExpensesInv
<1> QED BY <1>7, <1>10, <1>11 DEF ExpensesInv, Account, EntryFor, Adds

-----------------------------------------------------------------------------
(* The steps of SupplyFlow, and what holds of every behaviour.             *)

SupplyInv ==
    /\ SupplyTypeOK
    /\ StockIsItsMovements
    /\ OrdersInv
    /\ TransfersInv

\* The type invariant, part by part.
LEMMA TypesTogether ==
    SupplyTypeOK <=> StockTypeOK /\ OrderTypeOK /\ TransferTypeOK /\ ExpenseTypeOK
  BY DEF SupplyTypeOK, StockTypeOK, OrderTypeOK, TransferTypeOK, ExpenseTypeOK

\* What the stock does in a step, and for whom.
StockStep(ref) == \E asks : Askable(asks) /\ Applied(asks, ref)

\* A step of the orders writes one of them and moves stock for it alone.
LEMMA OrderSteps ==
    ASSUME SupplyInv, PurchaseOrderStep, UNCHANGED <<transfer, expense, editor>>
    PROVE  \E o \in Orders : Wrote(o) /\ (UNCHANGED <<level, moved>> \/ StockStep(o))
<1>0. StockTypeOK /\ OrderTypeOK /\ OrdersInv
  BY TypesTogether DEF SupplyInv
<1>1. PICK o \in Orders :
        \/ \E s \in Stores, d \in Discounts, dtos \in ItemDtos :
             CreatePurchaseOrder(o, s, d, dtos)
        \/ \E dto \in UpdateDtos : UpdatePurchaseOrder(o, dto)
        \/ \E status \in Statuses : UpdateStatus(o, status)
        \/ \E scans \in VerifyDtos : Verify(o, scans)
  BY DEF PurchaseOrderStep
<1>2. CASE \E s \in Stores, d \in Discounts, dtos \in ItemDtos :
             CreatePurchaseOrder(o, s, d, dtos)
  <2>1. UNCHANGED <<level, moved>>
    BY <1>2 DEF CreatePurchaseOrder
  <2> QED BY <1>0, <1>2, <2>1, CreateWrites
<1>3. CASE \E dto \in UpdateDtos : UpdatePurchaseOrder(o, dto)
  <2>1. PICK dto \in UpdateDtos : UpdatePurchaseOrder(o, dto)
    BY <1>3
  <2>2. Wrote(o)
    BY <1>0, <2>1, UpdateWrites
  <2>3. UpdatedOrder(order[o], dto) \in OrderRow
    BY <1>0, <2>1, OrderUpdated DEF UpdatePurchaseOrder, OrderTypeOK
  <2>4. \/ ApplyStockForOrder(o, UpdatedOrder(order[o], dto), 1)
        \/ ApplyStockForOrder(o, UpdatedOrder(order[o], dto), -1)
        \/ UNCHANGED <<level, moved>>
    BY <2>1 DEF UpdatePurchaseOrder
  <2>5. ASSUME NEW direction \in {1, -1},
               ApplyStockForOrder(o, UpdatedOrder(order[o], dto), direction)
        PROVE  StockStep(o)
    BY <1>0, <2>3, <2>5, AsksOfOrder, Moves, SupplyAssumption DEF StockStep
  <2> QED BY <2>2, <2>4, <2>5
<1>4. CASE \E status \in Statuses : UpdateStatus(o, status)
  <2>1. UNCHANGED <<level, moved>>
    BY <1>4 DEF UpdateStatus
  <2> QED BY <1>0, <1>4, <2>1, StatusWrites
<1>5. CASE \E scans \in VerifyDtos : Verify(o, scans)
  <2>1. UNCHANGED <<level, moved>>
    BY <1>5 DEF Verify
  <2> QED BY <1>0, <1>5, <2>1, VerifyWrites
<1> QED BY <1>1, <1>2, <1>3, <1>4, <1>5

\* Stock that a step leaves, or that one transaction moves.
LEMMA StockKept ==
    ASSUME SupplyInv, UNCHANGED <<level, moved>> \/ \E ref \in References : StockStep(ref)
    PROVE  StockTypeOK' /\ StockIsItsMovements'
<1>0. StockTypeOK /\ StockIsItsMovements
  BY TypesTogether DEF SupplyInv
<1>1. CASE UNCHANGED <<level, moved>>
  BY <1>0, <1>1 DEF StockTypeOK, StockIsItsMovements
<1>2. CASE \E ref \in References : StockStep(ref)
  <2>1. PICK ref \in References : StockStep(ref)
    BY <1>2
  <2>2. PICK asks : Askable(asks) /\ Applied(asks, ref)
    BY <2>1 DEF StockStep
  <2>3. StockTypeOK'
    BY <2>2 DEF Applied
  <2> QED BY <1>0, <2>2, <2>3, KeepsStock
<1> QED BY <1>1, <1>2

\* Movements for something else leave the transfers' as they were.
LEMMA TransfersLeft ==
    ASSUME NEW ref \in References, ref \notin Transfers, StockStep(ref)
    PROVE  \A t \in Transfers : moved'[t] = moved[t]
  BY SupplyAssumption DEF StockStep, Applied

\* Nothing of the expenses moves.
LEMMA ExpensesLeft ==
    ASSUME expense' = expense, editor' = editor, ExpenseTypeOK,
           OrderTypeOK',
           \A e \in Expenses : ledger'[Account(e)] = ledger[Account(e)]
    PROVE  ExpenseTypeOK' /\ (ExpensesInv => ExpensesInv')
<1>1. ExpenseTypeOK'
  BY DEF ExpenseTypeOK, OrderTypeOK
<1>2. ASSUME ExpensesInv PROVE ExpensesInv'
  <2>1. \A e \in Expenses : expense'[e] # NULL =>
            ledger'[Account(e)] = EntryFor(expense'[e]) /\ Adds(expense'[e])
    BY <1>2 DEF ExpensesInv
  <2>2. \A d \in Editors : editor'[d] # NULL =>
            expense'[editor'[d].id] \in {editor'[d].read, NULL} /\ Adds(editor'[d].read)
    BY <1>2 DEF ExpensesInv
  <2> QED BY <2>1, <2>2 DEF ExpensesInv, Account, EntryFor, Adds
<1> QED BY <1>1, <1>2

\* Nothing of the orders moves: the ledger of the expenses is apart.
LEMMA OrdersLeft ==
    ASSUME OrderTypeOK, OrdersInv, order' = order,
           ledger' \in [Sources -> Entries \cup {NULL}],
           \A o \in Orders : ledger'[Key(o)] = ledger[Key(o)]
    PROVE  OrderTypeOK' /\ OrdersInv'
<1>1. OrderTypeOK'
  BY DEF OrderTypeOK
<1>2. ASSUME NEW o \in Orders
      PROVE  (order'[o] # NULL => Totalled(order'[o])) /\ ledger'[Key(o)] = Booked(o)'
  BY DEF OrdersInv, Booked
<1> QED BY <1>1, <1>2 DEF OrdersInv, Totalled, Key

\* What an expense writes of the ledger, whoever else is editing it.
LEMMA ExpenseSteps ==
    ASSUME ExpenseTypeOK, ExpenseStep
    PROVE  /\ ExpenseTypeOK'
           /\ \A o \in Orders : ledger'[Key(o)] = ledger[Key(o)]
           /\ ExpensesInv /\ OneEditPerExpense => ExpensesInv'
<1>1. CASE \E e \in Expenses : RemoveExpense(e)
  <2>1. PICK e \in Expenses : RemoveExpense(e)
    BY <1>1
  <2>2. ExpenseTypeOK' /\ ledger' = ledger
    BY <2>1 DEF RemoveExpense, ExpenseTypeOK
  <2> QED BY <2>1, <2>2, RemoveKeepsExpenses
<1>2. CASE \E e \in Expenses, s \in Stores, n, x \in Amounts : CreateExpense(e, s, n, x)
  <2>1. PICK e \in Expenses, s \in Stores, n \in Amounts, x \in Amounts :
            CreateExpense(e, s, n, x)
    BY <1>2
  <2>2. /\ expense' = [expense EXCEPT ![e] = ExpenseRow(s, n, x)] /\ editor' = editor
        /\ ledger' = [ledger EXCEPT ![Account(e)] = EntryFor(ExpenseRow(s, n, x))]
    BY <2>1 DEF CreateExpense, RecordExpense, Record, Account, EntryFor
  <2>3. ExpenseRow(s, n, x) \in ExpenseEntity /\ EntryFor(ExpenseRow(s, n, x)) \in Entries
    BY ExpenseAssumption, EntityOf, EntryForRow
  <2>4. ExpenseTypeOK'
    BY <2>2, <2>3, AccountIn DEF ExpenseTypeOK
  <2>5. \A o \in Orders : ledger'[Key(o)] = ledger[Key(o)]
    BY <2>2, KeyIn, AccountIn DEF ExpenseTypeOK, Key, Account
  <2> QED BY <2>1, <2>4, <2>5, CreateKeepsExpenses
<1>3. CASE \E d \in Editors, e \in Expenses, n, x \in Amounts \cup {NULL} :
             ReadExpense(d, e, n, x)
  <2>1. PICK d \in Editors, e \in Expenses, n \in Amounts \cup {NULL},
             x \in Amounts \cup {NULL} : ReadExpense(d, e, n, x)
    BY <1>3
  <2>2. ledger' = ledger /\ expense' = expense
    BY <2>1 DEF ReadExpense
  <2>3. [id |-> e, read |-> expense[e], netAmount |-> n, taxAmount |-> x] \in Edits
    BY <2>1 DEF ReadExpense, ExpenseTypeOK, Edits
  <2>4. ExpenseTypeOK'
    BY <2>1, <2>2, <2>3 DEF ReadExpense, ExpenseTypeOK
  <2> QED BY <2>1, <2>2, <2>4, ReadKeepsExpenses
<1>4. CASE \E d \in Editors : SaveExpense(d)
  <2>1. PICK d \in Editors : SaveExpense(d)
    BY <1>4
  <2>2. PICK e \in Expenses : e = editor[d].id
    BY <2>1 DEF SaveExpense, ExpenseTypeOK, Edits
  <2>3. PICK entity : entity = Edited(editor[d])
    OBVIOUS
  <2>4. ledger' = [ledger EXCEPT ![Account(e)] = EntryFor(entity)]
    BY <2>1, <2>2, <2>3 DEF SaveExpense, RecordExpense, Record, Account, EntryFor
  <2>5. \A o \in Orders : ledger'[Key(o)] = ledger[Key(o)]
    BY <2>4, KeyIn, AccountIn DEF ExpenseTypeOK, Key, Account
  <2>6. ExpenseTypeOK'
    <3>1. editor[d] \in Edits /\ entity \in ExpenseEntity /\ EntryFor(entity) \in Entries
      BY <2>1, <2>2, <2>3, EntityEdited, EntryForRow DEF SaveExpense, ExpenseTypeOK
    <3>2. PICK base \in {editor[d].read, expense[e]} :
              expense' = [expense EXCEPT ![e] = Saved(entity, base, expense[e])]
      BY <2>1, <2>2, <2>3 DEF SaveExpense, ExpenseTypeOK
    <3>3. Saved(entity, base, expense[e]) \in ExpenseEntity \cup {NULL}
      BY <3>1, SavedTyped DEF ExpenseTypeOK
    <3>4. editor' = [editor EXCEPT ![d] = NULL]
      BY <2>1 DEF SaveExpense
    <3> QED BY <2>4, <3>1, <3>2, <3>3, <3>4, AccountIn DEF ExpenseTypeOK
  <2> QED BY <2>1, <2>5, <2>6, SaveKeepsExpenses
<1> QED BY <1>1, <1>2, <1>3, <1>4 DEF ExpenseStep

\* The empty tables satisfy the invariants.
LEMMA SupplyStarts == SupplyInit => SupplyInv /\ ExpensesInv
<1> SUFFICES ASSUME SupplyInit PROVE SupplyInv /\ ExpensesInv
  OBVIOUS
<1>1. 0 \in Bounded
  BY InventoryAssumption DEF Bounded
<1>2. level = [p \in Places |-> NoRow]
      /\ moved = [r \in References |-> [p \in Places |-> [c \in Columns |-> 0]]]
  BY DEF SupplyInit, InventoryInit
<1>3. NoRow \in Row
  BY <1>1 DEF NoRow, Row
<1>4. [p \in Places |-> [c \in Columns |-> 0]] \in Logs
  BY <1>1 DEF Logs
<1>5. StockTypeOK
  BY <1>2, <1>3, <1>4 DEF StockTypeOK
<1>6. StockIsItsMovements
  <2>1. ASSUME NEW p \in Places, NEW c \in Columns
        PROVE  level[p][c] = SumFunction([r \in References |-> moved[r][p][c]])
    <3> DEFINE f == [r \in References |-> moved[r][p][c]]
    <3>1. DOMAIN f = References /\ \A r \in References : f[r] = 0
      BY <1>2
    <3>2. level[p][c] = 0
      BY <1>2 DEF NoRow, Columns
    <3> HIDE DEF f
    <3>3. SumFunction(f) = 0
      BY <3>1, SumWhole, SumZero, InventoryAssumption
    <3> QED BY <3>2, <3>3 DEF f
  <2>2. \A p \in Places, r \in References, c \in Columns : moved[r][p][c] = 0
    BY <1>2
  <2> QED BY <2>1, <2>2 DEF StockIsItsMovements
<1>7. OrderTypeOK /\ OrdersInv
  BY KeyIn DEF SupplyInit, LedgerInit, OrderTypeOK, OrdersInv, Booked
<1>8. TransferTypeOK /\ TransfersInv
  <2>1. \A t \in Transfers : transfer[t] = NULL
    BY DEF SupplyInit
  <2>2. \A t \in Transfers, p \in Places : moved[t][p].stock = 0
    <3>1. Transfers \subseteq References /\ "stock" \in Columns
      BY SupplyAssumption DEF Columns
    <3> QED BY <1>2, <3>1
  <2> QED BY <2>1, <2>2 DEF SupplyInit, TransferTypeOK, TransfersInv, TransfersMoveItems
<1>9. ExpenseTypeOK /\ ExpensesInv
  BY DEF SupplyInit, LedgerInit, ExpenseInit, ExpenseTypeOK, ExpensesInv
<1> QED BY <1>5, <1>6, <1>7, <1>8, <1>9, TypesTogether DEF SupplyInv

\* Every step keeps them; that of the expenses while no expense has two edits
\* under way.
LEMMA SupplySteps ==
    ASSUME SupplyInv, [SupplyNext]_supplyVars
    PROVE  SupplyInv' /\ (ExpensesInv /\ OneEditPerExpense => ExpensesInv')
<1>0. /\ StockTypeOK /\ OrderTypeOK /\ TransferTypeOK /\ ExpenseTypeOK
      /\ StockIsItsMovements /\ OrdersInv /\ TransfersInv
  BY TypesTogether DEF SupplyInv
<1>1. SUFFICES /\ StockTypeOK' /\ StockIsItsMovements'
               /\ OrderTypeOK' /\ OrdersInv'
               /\ TransferTypeOK' /\ TransfersInv'
               /\ ExpenseTypeOK' /\ (ExpensesInv /\ OneEditPerExpense => ExpensesInv')
  BY TypesTogether, PTL DEF SupplyInv
<1>2. CASE PurchaseOrderStep /\ UNCHANGED <<transfer, expense, editor>>
  <2>1. PICK o \in Orders : Wrote(o) /\ (UNCHANGED <<level, moved>> \/ StockStep(o))
    BY <1>2, OrderSteps
  <2>2. o \in References /\ o \notin Transfers
    BY SupplyAssumption
  <2>3. StockTypeOK' /\ StockIsItsMovements'
    BY <2>1, <2>2, StockKept
  <2>4. OrderTypeOK' /\ OrdersInv'
    BY <1>0, <2>1, WroteKeeps
  <2>5. \A t \in Transfers : moved'[t] = moved[t]
    BY <2>1, <2>2, TransfersLeft
  <2>6. TransferTypeOK' /\ TransfersInv'
    BY <1>0, <1>2, <2>5, OthersKeepTransfers
  <2>7. \A e \in Expenses : ledger'[Account(e)] = ledger[Account(e)]
    BY <1>0, <2>1, AccountIn, KeyIn DEF Wrote, OrderTypeOK, Account, Key
  <2>8. ExpenseTypeOK' /\ (ExpensesInv => ExpensesInv')
    BY <1>0, <1>2, <2>4, <2>7, ExpensesLeft
  <2> QED BY <2>3, <2>4, <2>6, <2>8
<1>3. CASE TransferStep /\ UNCHANGED <<ledger, order, expense, editor>>
  <2>1. PICK t \in Transfers :
          \/ \E a, b \in Stores : CreateTransfer(t, a, b)
          \/ \E v \in Variations, n \in TransferQuantities : AddItem(t, v, n)
          \/ CompleteTransfer(t)
    BY <1>3 DEF TransferStep
  <2>2. TransferTypeOK' /\ TransfersInv' /\ (UNCHANGED <<level, moved>> \/ StockStep(t))
    <3>1. CASE \E a, b \in Stores : CreateTransfer(t, a, b)
      <4>1. UNCHANGED <<level, moved>>
        BY <3>1 DEF CreateTransfer
      <4> QED BY <1>0, <3>1, <4>1, CreateKeepsTransfers
    <3>2. CASE \E v \in Variations, n \in TransferQuantities : AddItem(t, v, n)
      <4>1. UNCHANGED <<level, moved>>
        BY <3>2 DEF AddItem
      <4> QED BY <1>0, <3>2, <4>1, AddKeepsTransfers
    <3>3. CASE CompleteTransfer(t)
      <4>1. Askable(TransferMovements(t))
        BY <1>0, <3>3, AsksOfTransfer DEF CompleteTransfer, Modifiable, TransferTypeOK
      <4> QED BY <1>0, <3>3, <4>1, CompleteKeepsTransfers DEF StockStep
    <3> QED BY <2>1, <3>1, <3>2, <3>3
  <2>3. StockTypeOK' /\ StockIsItsMovements'
    BY <2>2, StockKept, SupplyAssumption
  <2>4. OrderTypeOK' /\ OrdersInv'
    BY <1>0, <1>3, OrdersLeft DEF OrderTypeOK
  <2>5. ExpenseTypeOK' /\ (ExpensesInv => ExpensesInv')
    BY <1>0, <1>3, <2>4, ExpensesLeft
  <2> QED BY <2>2, <2>3, <2>4, <2>5
<1>4. CASE MovementByHand /\ UNCHANGED <<ledger, order, transfer, expense, editor>>
  <2>1. StockStep(ByHand) /\ ByHand \in References /\ ByHand \notin Transfers
    BY <1>0, <1>4, AsksByHand, Moves, SupplyAssumption DEF StockStep
  <2>2. StockTypeOK' /\ StockIsItsMovements'
    BY <2>1, StockKept
  <2>3. TransferTypeOK' /\ TransfersInv'
    BY <1>0, <1>4, <2>1, TransfersLeft, OthersKeepTransfers
  <2>4. OrderTypeOK' /\ OrdersInv'
    BY <1>0, <1>4, OrdersLeft DEF OrderTypeOK
  <2>5. ExpenseTypeOK' /\ (ExpensesInv => ExpensesInv')
    BY <1>0, <1>4, <2>4, ExpensesLeft
  <2> QED BY <2>2, <2>3, <2>4, <2>5
<1>5. CASE ExpenseStep /\ UNCHANGED <<level, moved, order, transfer>>
  <2>1. /\ ExpenseTypeOK' /\ \A o \in Orders : ledger'[Key(o)] = ledger[Key(o)]
        /\ ExpensesInv /\ OneEditPerExpense => ExpensesInv'
    BY <1>0, <1>5, ExpenseSteps
  <2>2. OrderTypeOK' /\ OrdersInv'
    BY <1>0, <1>5, <2>1, OrdersLeft DEF ExpenseTypeOK
  <2>3. TransferTypeOK' /\ TransfersInv'
    BY <1>0, <1>5, OthersKeepTransfers
  <2>4. StockTypeOK' /\ StockIsItsMovements'
    BY <1>5, StockKept
  <2> QED BY <2>1, <2>2, <2>3, <2>4
<1>6. CASE UNCHANGED supplyVars
  <2>1. /\ UNCHANGED <<level, moved>> /\ ledger' = ledger /\ order' = order
        /\ transfer' = transfer /\ expense' = expense /\ editor' = editor
    BY <1>6 DEF supplyVars
  <2>2. StockTypeOK' /\ StockIsItsMovements'
    BY <2>1, StockKept
  <2>3. OrderTypeOK' /\ OrdersInv'
    BY <1>0, <2>1, OrdersLeft DEF OrderTypeOK
  <2>4. TransferTypeOK' /\ TransfersInv'
    BY <1>0, <2>1, OthersKeepTransfers
  <2>5. ExpenseTypeOK' /\ (ExpensesInv => ExpensesInv')
    BY <1>0, <2>1, <2>3, ExpensesLeft
  <2> QED BY <2>2, <2>3, <2>4, <2>5
<1> QED BY <1>2, <1>3, <1>4, <1>5, <1>6 DEF SupplyNext

\* The invariant of supply, in every state.
LEMMA SupplyHolds == SupplySpec => []SupplyInv
<1>1. SupplyInv /\ [SupplyNext]_supplyVars => SupplyInv'
  BY SupplySteps
<1> QED BY <1>1, SupplyStarts, PTL DEF SupplySpec

\* The rows are what their tables hold, the stock is within its bounds.
THEOREM SupplyTyped == SupplySpec => []SupplyTypeOK
<1>1. SupplyInv => SupplyTypeOK
  BY DEF SupplyInv
<1> QED BY <1>1, SupplyHolds, PTL

\* Both columns of every row of stock are what its movements add up to, whoever
\* asked for them and however many at a time (applyInventoryMovement).
THEOREM StockAddsUp == SupplySpec => []StockIsItsMovements
<1>1. SupplyInv => StockIsItsMovements
  BY DEF SupplyInv
<1> QED BY <1>1, SupplyHolds, PTL

\* A transfer moves what it lists, once, from its origin to its destination,
\* when it is completed (transfers.service.ts).
THEOREM TransfersMoveOnce == SupplySpec => []TransfersMoveItems
<1>1. SupplyInv => TransfersMoveItems
  BY DEF SupplyInv, TransfersInv
<1> QED BY <1>1, SupplyHolds, PTL

\* An order is in the ledger while it is PAGADO, with the totals of its lines.
THEOREM OrdersBooked == SupplySpec => []PaidOrdersBooked
<1>1. SupplyInv => PaidOrdersBooked
  BY KeyIn DEF SupplyInv, OrdersInv, PaidOrdersBooked, Booked, Totalled, Key
<1> QED BY <1>1, SupplyHolds, PTL

\* As long as no expense has two edits under way, every expense is in the
\* ledger with its own amounts, however reads, saves and removals interleave.
THEOREM ExpensesKept == SupplySpec /\ []OneEditPerExpense => []ExpensesBooked
<1>1. SupplyInv /\ ExpensesInv /\ OneEditPerExpense /\ [SupplyNext]_supplyVars
        => SupplyInv' /\ ExpensesInv'
  BY SupplySteps
<1> QED BY <1>1, SupplyStarts, ExpenseBooks, PTL DEF SupplySpec
===============================================================================
