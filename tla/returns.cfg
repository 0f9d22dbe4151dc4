\* A return of a sale of two units, three requests at a time, a restart.
SPECIFICATION ReturnSpec
CONSTANTS
    NULL = NULL
    Returns = {r1}
    DocumentKeys = {r1}
    Requests = {q1, q2, q3}
    Sold = 2
    Price = 1
    Discounts = {1}
    Conditions = {"SELLABLE", "DEFECTIVE"}
    MaxCrashes = 1
SYMMETRY ReturnSymmetry
CHECK_DEADLOCK FALSE
INVARIANTS
    ReturnsMoveOnce
    
PROPERTY EndedReturnsStay
