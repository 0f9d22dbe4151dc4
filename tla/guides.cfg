\* A guide of two units, an invoice and two sales that bill it, two requests.
SPECIFICATION GuideSpec
CONSTANTS
    NULL = NULL
    Guides = {g1}
    Invoices = {i1}
    GuideSales = {b1, b2}
    DocumentKeys = {g1, i1, b1, b2}
    Requests = {q1, q2}
    Dispatched = 2
    InitialStock = 3
    Companions = {FALSE, TRUE}
SYMMETRY GuideSymmetry
CHECK_DEADLOCK FALSE
INVARIANTS
    GuideTakesItsStock
    AnnulmentsAreConfirmed
    SalesWithinGuides
