----------------------------- MODULE OfferCatalogue -----------------------------
(***************************************************************************)
(* SpecialOffer rows, the category tree some of them cover, and the prices *)
(* PricingService gives to a cart and to the product list.  Each write is  *)
(* one transaction; a calculation reads what is committed.                 *)
(*                                                                         *)
(* A DTO is a record with the fields it carries: Merged(dto, row) has the  *)
(* field of the DTO, or else the row's.  Offers are numbered in the order  *)
(* of creation (createdAt).  Products keep their category, brand and model.*)
(***************************************************************************)
EXTENDS CartPricing, TLC

CONSTANTS
    Stores, Categories, StoreProducts,
    Item,          \* of each store product: store, product, variation, category, brand, model
    CentralStore,  \* Store.isCentralStore
    NewOffers, OfferChanges,  \* bound: the DTOs sent
    MaxOffers,     \* bound: offers created
    LastInstant    \* bound: how far the clock runs

DiscountTypes == {"PERCENTAGE", "FIXED_AMOUNT", "FIXED_PRICE", "BUY_X_GET_Y", "BUNDLE"}

\* The fields of an offer, or of a DTO, that something is computed from.
FieldsFit(row) ==
    \A f \in DOMAIN row :
         /\ f = "discountType" => row[f] \in DiscountTypes
         /\ f \in {"value", "priority", "startDate"} => row[f] \in Int
         /\ f = "allowBelowMargin" => row[f] \in BOOLEAN
         /\ f \in {"buyQuantity", "payQuantity"} => row[f] \in Nat \cup {NULL}
         /\ f = "bundleItems" =>
              IsFiniteSet(DOMAIN row[f]) /\ \A i \in DOMAIN row[f] : row[f][i] \in Int

\* What the DTO of creation cannot be without, and rows numbered in order.
ASSUME CatalogueAssumption ==
    /\ StoreProducts \subseteq Int /\ NULL \notin StoreProducts
    /\ \A dto \in NewOffers : {"discountType", "value"} \subseteq DOMAIN dto
    /\ \A dto \in NewOffers \cup OfferChanges : FieldsFit(dto)

VARIABLES
    offers,    \* SpecialOffer rows, in the order of creation
    category,  \* parentID of each category, NULL of a root, or "none"
    price,     \* of each store product: list and cost
    now        \* the clock

offerVars == <<offers, category, price, now>>

Instants == 0..LastInstant

Merged(dto, row) ==
    LET sent == DOMAIN dto
    IN  [f \in sent \cup DOMAIN row |-> IF f \in sent THEN dto[f] ELSE row[f]]

OfferDefaults ==
    [scope |-> "UNIT", exclusive |-> FALSE, allowBelowMargin |-> FALSE,
     startDate |-> 0, endDate |-> NULL, isActive |-> TRUE, targetScope |-> "VARIATION",
     storeProductID |-> NULL, storeID |-> NULL, categoryID |-> NULL,
     includeSubcategories |-> TRUE, brand |-> NULL, model |-> NULL,
     buyQuantity |-> NULL, payQuantity |-> NULL, priority |-> 0,
     productIDs |-> {}, bundleItems |-> <<>>]

-----------------------------------------------------------------------------
(* What a stored offer must be. *)

ValidOfferConfiguration(config) ==
    /\ config.discountType = "BUY_X_GET_Y" =>
         /\ NULL \notin {config.buyQuantity, config.payQuantity}
         /\ config.buyQuantity > config.payQuantity /\ config.payQuantity >= 1
    /\ IF config.discountType = "BUNDLE"
       THEN /\ Cardinality(DOMAIN config.bundleItems) >= 2
            /\ config.storeID # NULL
            /\ \A i \in DOMAIN config.bundleItems : config.bundleItems[i] >= 1
       ELSE /\ IF config.targetScope = "VARIATION" THEN config.storeProductID # NULL
                                                   ELSE config.storeID # NULL
            /\ config.targetScope = "PRODUCT"  => config.productIDs # {}
            /\ config.targetScope = "CATEGORY" => config.categoryID # NULL
            /\ config.targetScope = "BRAND"    => config.brand # NULL
            /\ config.targetScope = "MODEL"    => config.model # NULL

ValidDateRange(config) == config.endDate # NULL => config.endDate >= config.startDate

\* resolveBundleStoreProducts: every store product of the bundle is of the store.
BundleOfStore(config) ==
    \A i \in DOMAIN config.bundleItems : Item[i].store = config.storeID

\* The foreign key of categoryID.
CategoryExists(c) == c # NULL => category[c] # "none"

CreateSpecialOffer(dto) ==
    LET offer == Merged(dto, OfferDefaults) IN
    /\ Len(offers) < MaxOffers
    /\ ValidOfferConfiguration(offer) /\ ValidDateRange(offer)
    /\ offer.discountType = "BUNDLE" => BundleOfStore(offer)
    /\ CategoryExists(offer.categoryID)
    /\ offers' = Append(offers, offer)
    /\ UNCHANGED <<category, price, now>>

\* storeProductID survives only an offer of a variation.
TargetOf(dto, offer) ==
    Merged(dto, [offer EXCEPT !.storeProductID =
                   IF Merged(dto, offer).targetScope = "VARIATION" THEN @ ELSE NULL])

\* A variant: a field the DTO does not carry is not validated.
UpdateSpecialOffer_DtoOnly(o, dto) ==
    LET offer == TargetOf(dto, offers[o]) IN
    /\ "discountType" \in DOMAIN dto => ValidOfferConfiguration(offer)
    /\ ValidDateRange(offer)
    /\ (offer.discountType = "BUNDLE" /\ "bundleItems" \in DOMAIN dto) => BundleOfStore(offer)
    /\ CategoryExists(offer.categoryID)
    /\ offers' = [offers EXCEPT ![o] = offer]
    /\ UNCHANGED <<category, price, now>>

\* The products of an offer have to be sent again with each change.
UpdateSpecialOffer(o, dto) ==
    LET offer == TargetOf(dto, offers[o]) IN
    /\ ValidOfferConfiguration(Merged(dto, [offer EXCEPT !.productIDs = {}]))
    /\ ValidDateRange(offer)
    /\ (offer.discountType = "BUNDLE" /\ "bundleItems" \in DOMAIN dto) => BundleOfStore(offer)
    /\ CategoryExists(offer.categoryID)
    /\ offers' = [offers EXCEPT ![o] = offer]
    /\ UNCHANGED <<category, price, now>>

-----------------------------------------------------------------------------
(* CategoriesService. *)

CreateCategory(c, parent) ==
    /\ category[c] = "none" /\ CategoryExists(parent)
    /\ category' = [category EXCEPT ![c] = parent]
    /\ UNCHANGED <<offers, price, now>>

\* bulkUpsert: the parent of each category sent, NULL when the item has none.
BulkUpsert(items) ==
    /\ \A c \in DOMAIN items : items[c] # c /\ CategoryExists(items[c])
    /\ category' = [c \in Categories |->
         IF c \in DOMAIN items /\ (category[c] = "none" \/ items[c] # NULL)
         THEN items[c] ELSE category[c]]
    /\ UNCHANGED <<offers, price, now>>

\* A plain UPDATE: only the foreign key is checked.
UpdateCategory(c, parent) ==
    /\ category[c] # "none" /\ CategoryExists(parent)
    /\ category' = [category EXCEPT ![c] = parent]
    /\ UNCHANGED <<offers, price, now>>

\* The foreign keys of products, offers and other categories refuse.
RemoveCategory(c) ==
    /\ category[c] # "none" /\ c \notin {category[d] : d \in Categories}
    /\ \A i \in StoreProducts : Item[i].category # c
    /\ \A o \in DOMAIN offers : offers[o].categoryID # c
    /\ category' = [category EXCEPT ![c] = "none"]
    /\ UNCHANGED <<offers, price, now>>

\* updatePrice and StoreProductService.update: the list price of a row.
UpdatePrice(i, newPrice) ==
    /\ price[i].list # newPrice
    /\ price' = [price EXCEPT ![i].list = newPrice]
    /\ UNCHANGED <<offers, category, now>>

Tick == now < LastInstant /\ now' = now + 1 /\ UNCHANGED <<offers, category, price>>

-----------------------------------------------------------------------------
(* Which offers a cart has, and what they make of it. *)

\* A category and, level by level, what is below it; a cycle ends it.
Below[n \in Nat, c \in Categories] ==
    IF n = 0 THEN {c}
    ELSE LET above == Below[n - 1, c] IN above \cup {d \in Categories : category[d] \in above}

CategoryScope(c, withSubcategories) ==
    IF withSubcategories THEN Below[Cardinality(Categories), c] ELSE {c}

IsLive(offer, date) ==
    /\ offer.isActive /\ offer.startDate <= date
    /\ offer.endDate = NULL \/ offer.endDate >= date

\* The query: live offers of the store, or of one of the store products.
LiveOffers(date, store, ids) ==
    {o \in DOMAIN offers : IsLive(offers[o], date)
        /\ (offers[o].storeID = store \/ offers[o].storeProductID \in ids)}

\* sortOffers, the order of the queries too.
Before(o, p) ==
    LET a == offers[o]  b == offers[p] IN
    IF a.priority # b.priority THEN a.priority < b.priority
    ELSE IF a.startDate # b.startDate THEN a.startDate > b.startDate
    ELSE o > p

InOrder(os) == Ranked(os, Before)

MatchesOffer(i, offer, scope) ==
    CASE offer.targetScope = "STORE"     -> offer.storeID = Item[i].store
      [] offer.targetScope = "PRODUCT"   -> Item[i].product \in offer.productIDs
      [] offer.targetScope = "CATEGORY"  -> Item[i].category \in scope
      [] offer.targetScope = "BRAND"     -> offer.brand = Item[i].brand
      [] offer.targetScope = "MODEL"     -> offer.model = Item[i].model
      [] offer.targetScope = "VARIATION" -> offer.storeProductID = i

OwnScope(offer) ==
    IF offer.categoryID = NULL THEN {}
    ELSE CategoryScope(offer.categoryID, offer.includeSubcategories)

\* categoryScopes has one scope for a category: that of the first offer on it.
SharedScope(o, os) ==
    LET same == {p \in os : offers[p].targetScope = "CATEGORY"
                              /\ offers[p].categoryID = offers[o].categoryID}
    IN  IF offers[o].targetScope # "CATEGORY" THEN {} ELSE OwnScope(offers[InOrder(same)[1]])

\* getApplicableOffers
ApplicableOffers(date, store, ids) ==
    LET os == LiveOffers(date, store, ids)
        Applies(o) ==
          IF offers[o].discountType = "BUNDLE"
          THEN offers[o].storeID = store /\ ids \cap DOMAIN offers[o].bundleItems # {}
          ELSE \E i \in ids : MatchesOffer(i, offers[o], SharedScope(o, os))
    IN  InOrder({o \in os : Applies(o)})

\* getApplicableStoreProductIDs
ApplicableStoreProducts(offer, ids) ==
    IF offer.discountType = "BUNDLE" THEN ids \cap DOMAIN offer.bundleItems
    ELSE {i \in ids : MatchesOffer(i, offer, OwnScope(offer))}

\* A variant: every offer on a category shares the scope of the first.
ApplicableOffersForItem_SharedOnly(date, store, ids, i) ==
    LET os == LiveOffers(date, store, ids)
        Applies(o) ==
          IF offers[o].discountType = "BUNDLE"
          THEN offers[o].storeID = store /\ i \in DOMAIN offers[o].bundleItems
          ELSE /\ offers[o].storeID = store \/ offers[o].storeProductID = i
               /\ MatchesOffer(i, offers[o], SharedScope(o, os))
    IN  InOrder({o \in os : Applies(o)})

\* getApplicableOffersForItems, of one item among the ids listed.
ApplicableOffersForItem(date, store, ids, i) ==
    LET os == LiveOffers(date, store, ids)
        Applies(o) ==
          IF offers[o].discountType = "BUNDLE"
          THEN offers[o].storeID = store /\ i \in DOMAIN offers[o].bundleItems
          ELSE /\ offers[o].storeID = store \/ offers[o].storeProductID = i
               /\ MatchesOffer(i, offers[o], SharedScope(o, os))
               /\ MatchesOffer(i, offers[o], OwnScope(offers[o]))
    IN  InOrder({o \in os : Applies(o)})

\* buildLines: what the row lacks comes from the central store's.
PricedLine(i, quantity) ==
    LET central == {j \in StoreProducts : Item[j].store = CentralStore
                                            /\ Item[j].variation = Item[i].variation}
        Of(field) == IF price[i][field] > 0 \/ central = {} THEN price[i][field]
                     ELSE price[CHOOSE j \in central : TRUE][field]
    IN  Line(quantity, Of("list"), Of("cost"))

\* The offers in order, up to an exclusive one, each over the lines For it.
WithOffers(lines, os, For(_)) ==
    LET Apply(cart, o) ==
          IF cart.exclusive \/ For(o) = {} THEN cart
          ELSE [lines |-> ApplyOffer(cart.lines, For(o), offers[o]),
                exclusive |-> offers[o].exclusive]
    IN  Seqs!FoldLeft(Apply, [lines |-> lines, exclusive |-> FALSE], os)

Rejected == [ok |-> FALSE, lines |-> <<>>]

\* MarginValidator over the lines no offer exempts.
Margined(lines) ==
    IF \A i \in DOMAIN lines : lines[i].marginExempt
         \/ KeepsMargin(lines[i].unitCost, lines[i].currentTotal, lines[i].quantity)
    THEN [ok |-> TRUE, lines |-> lines]
    ELSE Rejected

\* A manual discount is ignored after an exclusive offer.
WithManualDiscount(cart, percent) ==
    IF percent = NULL \/ cart.exclusive THEN Margined(cart.lines)
    ELSE IF \A i \in DOMAIN cart.lines :
              ValidManualDiscount(cart.lines[i], price[i].cost, percent)
    THEN Margined([i \in DOMAIN cart.lines |-> ApplyManualDiscount(cart.lines[i], percent)])
    ELSE Rejected

\* calculateCart: quantities of store products of one store.
CalculateCart(date, store, quantities, percent) ==
    LET ids == DOMAIN quantities
        lines == [i \in ids |-> PricedLine(i, quantities[i])]
    IN  IF \E i \in ids : Item[i].store # store THEN Rejected
        ELSE WithManualDiscount(
               WithOffers(lines, ApplicableOffers(date, store, ids),
                          LAMBDA o : ApplicableStoreProducts(offers[o], ids)), percent)

\* calculatePricesForProductList: each store product listed, by itself.
ListedPrice(date, ids, i) ==
    LET store == Item[i].store
        sameStore == {j \in ids : Item[j].store = store}
    IN  Margined(WithOffers([j \in {i} |-> PricedLine(i, 1)],
                            ApplicableOffersForItem(date, store, sameStore, i),
                            LAMBDA o : {i}).lines)

TotalOf(lines) == SumOf([i \in DOMAIN lines |-> lines[i].currentTotal])

-----------------------------------------------------------------------------
CatalogueInit(initialPrice, initialCategory) ==
    /\ offers = <<>>
    /\ category = initialCategory
    /\ price = initialPrice
    /\ now = 0
================================================================================
