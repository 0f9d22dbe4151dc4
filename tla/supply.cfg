\* One order, one transfer and movements by hand of one product in two stores.
SPECIFICATION SupplySpec
CONSTANTS
    NULL = NULL
    s1 = s1
    s2 = s2
    v1 = v1
    o1 = o1
    t1 = t1
    e1 = e1
    d1 = d1
    hand = hand
    Stores = {s1, s2}
    Variations = {v1}
    Orders = {o1}
    Transfers = {t1}
    ByHand = hand
    References = {o1, t1, hand}
    Conditions = {"stock"}
    ReasonsByHand = {"SALE"}
    MaxUnits = 2
    Quantities = {1, 2}
    TransferQuantities = {1}
    Prices = {100}
    Discounts = {0}
    Statuses = {"ENVIADO"}
    Expenses = {e1}
    Editors = {d1}
    Amounts = {0, 1}
CONSTRAINT ExpensesAlone
SYMMETRY StoreSymmetry
CHECK_DEADLOCK FALSE
INVARIANTS
    
    TransfersMoveItems
    PaidOrdersBooked
    
