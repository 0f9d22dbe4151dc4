\* A boleta charged in a drawer and a note, sold, retried and converted by
\* two requests at a time, with the poller.
SPECIFICATION Spec
CONSTANTS
    NULL = NULL
    Documents = {}
    ElectronicSales = {b1}
    Notes = {n1}
    Paid = {b1}
    Reconciled = {}
    Requests = {q1, q2}
    Poller = poller
    Quantities = {1}
    InitialStock = 2
    AllowNegative = FALSE
    MaxFailures = 0
SYMMETRY RequestSymmetry
INVARIANTS
    HeldStock
    
    NoteIncomeBooked
