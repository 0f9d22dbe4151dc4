-------------------------------- MODULE ShopFlow --------------------------------
(***************************************************************************)
(* The shop: offers, categories and prices change while carts are priced,  *)
(* web orders are confirmed and notes are sold over the counter.           *)
(***************************************************************************)
EXTENDS CommerceOrders, DocumentAmounts

CONSTANTS
    InitialPrice, InitialCategory,
    Carts,         \* bound: the carts priced, quantities by store product
    DocumentOffers, \* bound: the offers the carts of documents are priced with
    NewChannels, ChannelChanges  \* bound: the DTOs that create and change a channel

ASSUME ShopAssumption ==
    /\ Prices \subseteq Int
    /\ InitialPrice \in [StoreProducts -> [list : Int, cost : Int]]
    /\ \A quantities \in Carts : IsCart(quantities) /\ IsFiniteSet(DOMAIN quantities)

CatalogueStep ==
    /\ \/ \E dto \in NewOffers : CreateSpecialOffer(dto)
       \/ \E o \in DOMAIN offers, dto \in OfferChanges : UpdateSpecialOffer(o, dto)
       \/ \E c, d \in Categories : CreateCategory(c, d) \/ UpdateCategory(c, d)
       \/ \E c \in Categories : CreateCategory(c, NULL) \/ UpdateCategory(c, NULL)
                                  \/ RemoveCategory(c)
       \/ \E cs \in SUBSET Categories :
            \E items \in [cs -> Categories \cup {NULL}] : BulkUpsert(items)
       \/ \E i \in StoreProducts, amount \in Prices : UpdatePrice(i, amount)
       \/ Tick
    /\ UNCHANGED commerceVars

CommerceStep ==
    \/ \E c \in Channels, dto \in NewChannels : CreateChannel(c, dto)
    \/ \E c \in Channels, change \in ChannelChanges : UpdateChannel(c, change)
    \/ \E q \in Requests, c \in Channels, x \in ExternalOrders, pay \in Payments,
          content \in WebOrders : Arrive(q, c, x, pay, content)
    \/ \E q \in Requests : Confirm(q) \/ LockRows(q) \/ Sell(q) \/ FinishNote(q)
                             \/ AbortVictim(q)
    \/ \E q \in Requests, s \in Stores, items \in CounterCarts : StartNote(q, s, items)

ShopInit == CatalogueInit(InitialPrice, InitialCategory) /\ CommerceInit
ShopNext == CatalogueStep \/ CommerceStep
ShopSpec == ShopInit /\ [][ShopNext]_<<offerVars, commerceVars>>

-----------------------------------------------------------------------------
\* Offers on a category of another store that name, besides, a store product of
\* this one: createSpecialOffer stores what the DTO carries.
StraysInto(store) ==
    {o \in DOMAIN offers :
        /\ offers[o].targetScope = "CATEGORY" /\ offers[o].storeID # store
        /\ \E i \in StoreProducts : offers[o].storeProductID = i /\ Item[i].store = store}

\* The price the catalogue lists for a store product is the price of a cart of
\* one of it, whatever offers, categories and exclusions there are: the two are
\* computed by different code (calculatePricesForProductList, calculateCart).
\* Only a stray offer, which the list reads and the cart may not, tells them apart.
CatalogueIsCartOfOne ==
    \A i \in StoreProducts :
        StraysInto(Item[i].store) = {} =>
            ListedPrice(now, StoreProducts, i)
              = CalculateCart(now, Item[i].store, [j \in {i} |-> 1], NULL)

\* An offer keeps, after any number of partial updates, the fields its type
\* and its scope need (updateSpecialOffer validates the merged row).
StoredOffersStayValid ==
    \A o \in DOMAIN offers :
        ValidOfferConfiguration(offers[o]) /\ ValidDateRange(offers[o])

\* Ways to choose n units of the lines ids, and what they are worth: the units
\* an offer by the unit frees are worth the least of them.
Choices(lines, ids, n) ==
    {f \in [ids -> 0..n] :
        /\ \A i \in ids : f[i] <= lines[i].quantity
        /\ SumOf(f) = n}
Worth(lines, f) == SumOf([i \in DOMAIN f |-> f[i] * lines[i].baseUnitPrice])

\* What is free of a cart by units is the cheapest there is, over the lines of
\* the offer together, and as many units as the offer gives.  Units without a
\* price count towards the offer and are not what it gives.
CheapestUnitsAreFree ==
    \A o \in DOMAIN offers, quantities \in Carts :
        offers[o].discountType \in {"BUY_X_GET_Y", "BUNDLE"} =>
        LET offer == offers[o]
            lines == [i \in DOMAIN quantities |-> PricedLine(i, quantities[i])]
            ids   == ApplicableStoreProducts(offer, DOMAIN quantities)
            given == IF offer.discountType = "BUNDLE" THEN BundleSets(lines, ids, offer)
                                                      ELSE FreeUnits(lines, ids, offer)
            sold  == {i \in ids : lines[i].baseUnitPrice > 0}
            n     == Sets!Min({given, UnitsIn(lines, sold)})
            off   == TotalOf(lines) - TotalOf(ApplyOffer(lines, ids, offer))
            best  == {Worth(lines, f) : f \in Choices(lines, sold, n)}
        IN  off \in best /\ \A w \in best : off <= w

-----------------------------------------------------------------------------
(* The documents of a cart: its lines say all they depend on, so it is enough *)
(* to look at them with few offers and the categories as they were.          *)

Priced(quantities) ==
    CalculateCart(now, Item[CHOOSE i \in DOMAIN quantities : TRUE].store, quantities, NULL)
SaleOf(quantities) == BuildPreparedSale(Priced(quantities).lines)
CostsOf(sale) == [i \in DOMAIN sale.items |-> sale.items[i].unitCost]

DocumentCarts ==
    IF Cardinality(DOMAIN offers) <= DocumentOffers /\ category = InitialCategory
    THEN {quantities \in Carts : Priced(quantities) # Rejected} ELSE {}

Distance(a, b) == IF a < b THEN b - a ELSE a - b

\* The parts of a document make its total, the tax is 19 % of the net amount to
\* within a peso, and its lines are what its header says but for half a peso
\* each and one for the header.
AddsUp(payload, header, lines) ==
    /\ payload.net + payload.tax = payload.total
    /\ Distance(100 * payload.tax, 19 * payload.net) <= 100
    /\ 2 * Distance(payload.subtotal, header) <= lines + 2

\* A boleta, a factura and the invoice of the guides of one cart charge the
\* total of its sale and cost what it cost; a guide has each line and its totals
\* exact (the identity Openfactura validates); and all of them add up.
DocumentsAddUp ==
    \A quantities \in DocumentCarts :
        LET sale    == SaleOf(quantities)
            n       == Cardinality(DOMAIN quantities)
            boleta  == MapToDocumentPayload(MapSaleToDte(sale, 39), CostsOf(sale))
            factura == MapToDocumentPayload(MapSaleToDte(sale, 33), CostsOf(sale))
            guide   == MapDispatchGuideToDte(sale.items, TRUE)
        IN  /\ AddsUp(boleta, boleta.total, n) /\ AddsUp(factura, factura.net, n)
            /\ {boleta.total, factura.total} = {sale.totals.total}
            /\ \A guides \in {<<sale.items>>, <<sale.items, sale.items>>} :
                  LET dte     == InvoiceOfGuides(guides)
                      costs   == [k \in DOMAIN dte.detail |-> sale.items[k[1]].unitCost]
                      invoice == MapToDocumentPayload(dte, costs)
                  IN  /\ AddsUp(invoice, invoice.net, n)
                      /\ invoice.cogsTotal = Len(guides) * sale.cogsTotal
                      /\ Distance(invoice.total, Len(guides) * sale.totals.total) < Len(guides)
            /\ {boleta.cogsTotal, factura.cogsTotal} = {sale.cogsTotal}
            /\ \A i \in DOMAIN guide.detail :
                  guide.detail[i].MontoItem = guide.detail[i].QtyItem * guide.detail[i].PrcItem
            /\ LET payload == MapToDocumentPayload(guide, CostsOf(sale))
               IN  payload.subtotal = payload.net /\ AddsUp(payload, payload.net, n)

\* The returns of a sale credit its total, whether it comes back at once or unit
\* by unit, but for what each rounds: half a peso a line and half a hundredth a
\* unit; and the credit note adds up, that of a discount exactly.
CreditsFollowTheSale ==
    \A quantities \in DocumentCarts :
        LET sale   == SaleOf(quantities)
            whole  == PreparedReturn(sale, quantities)
            Unit(i) == PreparedReturn(sale, [j \in {i} |-> 1])
            units  == AllOf(sale.items, "quantity")
            apart  == SumOf([i \in DOMAIN quantities |-> quantities[i] * Unit(i).totals.total])
            n      == Cardinality(DOMAIN quantities)
            credit == MapToDocumentPayload(MapReturnToNce(whole), CostsOf(sale))
            rebate == MapToDocumentPayload(
                        MapReturnToNce(PreparedDiscount(100 * sale.totals.total)), <<0>>)
        IN  /\ AddsUp(credit, credit.net, n) /\ credit.total = whole.totals.total
            /\ rebate.subtotal = rebate.net /\ AddsUp(rebate, rebate.net, 1)
            /\ 200 * Distance(credit.total, sale.totals.total) <= 100 * (n + 1) + units
            /\ 200 * Distance(apart, sale.totals.total) <= 100 * (units + 1) + units
            /\ (\A i \in DOMAIN quantities : sale.items[i].lineTotal >= 0) =>
                 \A i \in DOMAIN quantities : Unit(i).totals.total <= credit.total

-----------------------------------------------------------------------------
\* A payment pays one order, of any channel of the tenant, however its
\* confirmations are repeated or raced.
PaymentsBuyOnce ==
    \A j, k \in OrderKeys :
        (order[j] # NULL /\ order[k] # NULL /\ order[j].payment = order[k].payment) => j = k

\* A web order never leaves a product below nothing, though the counter of the
\* same store sells what it does not have ("siempre se exige stock suficiente").
WebOrdersNeverOversell ==
    [][\A k \in OrderKeys : order[k] # order'[k] =>
          \A i \in DOMAIN order'[k].items : stock'[i] >= 0]_order

\* The amount of an order is what the ERP asks for its items when it is
\* confirmed (docs/commerce-sales.md).
PaidAtTheCurrentPrice ==
    [][\A k \in OrderKeys : order[k] # order'[k] =>
          order'[k].amount
            = TotalOf(CalculateCart(now, order'[k].store, order'[k].items, NULL).lines)]_order

\* An order is only registered while its channel is active, sells and belongs
\* to the store that sells it, though the channel is changed meanwhile.
ChannelsHoldWhileSelling ==
    [][\A k \in OrderKeys : order[k] # order'[k] =>
          channel[k[1]].active /\ channel[k[1]].salesEnabled
            /\ channel[k[1]].storeID = order'[k].store]_order
================================================================================
