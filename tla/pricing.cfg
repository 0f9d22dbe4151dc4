\* Offers of every type over two categories and two stores; nothing is sold.
SPECIFICATION ShopSpec
CONSTANTS
    NULL = NULL
    s1 = s1
    s2 = s2
    root = root
    leaf = leaf
    spare = spare
    c1 = c1
    c2 = c2
    x1 = x1
    x2 = x2
    p1 = p1
    p2 = p2
    q1 = q1
    q2 = q2
    MinMargin = 10
    MaxDiscount = 30
    Stores = {s1, s2}
    Categories = {root, leaf}
    StoreProducts = {1, 2, 3, 4}
    Item <- SmallShop
    CentralStore = s2
    NewOffers <- OffersSent
    OfferChanges <- ChangesSent
    MaxOffers = 2
    LastInstant = 1
    InitialPrice <- SmallPrices
    InitialCategory <- SmallTree
    Carts <- CartsPriced
    DocumentOffers = 1
    Prices = {}
    Channels = {}
    Requests = {}
    ExternalOrders = {}
    Payments = {}
    WebOrders = {}
    CounterCarts = {}
    InitialStock = 0
    NewChannels = {}
    NegativeStores = {}
    ChannelChanges = {}
CHECK_DEADLOCK FALSE
INVARIANTS
    
    
    CheapestUnitsAreFree
    
    CreditsFollowTheSale
