\* Two channels, two orders and two payments, and notes over the counter.
SPECIFICATION ShopSpec
CONSTANTS
    NULL = NULL
    s1 = s1
    s2 = s2
    root = root
    leaf = leaf
    spare = spare
    c1 = c1
    c2 = c2
    x1 = x1
    x2 = x2
    p1 = p1
    p2 = p2
    q1 = q1
    q2 = q2
    MinMargin = 10
    MaxDiscount = 30
    Stores = {s1, s2}
    Categories = {spare}
    StoreProducts = {1, 2, 3}
    Item <- SmallShop
    CentralStore = s2
    NewOffers <- AfternoonOffer
    OfferChanges <- NoChanges
    MaxOffers = 1
    LastInstant = 1
    InitialPrice <- SmallPrices
    InitialCategory <- OneSpare
    Carts = {}
    DocumentOffers = 1
    Prices = {}
    Channels = {c1, c2}
    Requests = {q1, q2}
    ExternalOrders = {x1}
    Payments = {p1, p2}
    WebOrders <- OrdersPaid
    CounterCarts <- NotesSold
    InitialStock = 2
    NewChannels <- ChannelsMade
    NegativeStores = {s1}
    ChannelChanges <- ChannelsChanged
SYMMETRY ShopSymmetry
CHECK_DEADLOCK FALSE
INVARIANT PaymentsBuyOnce
PROPERTIES
    ChannelsHoldWhileSelling
    WebOrdersNeverOversell
