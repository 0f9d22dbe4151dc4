\* One document, asked for again and again by two requests that may carry
\* other items each time, with the poller, a restart or a failed transaction.
SPECIFICATION FairSpec
CONSTANTS
    NULL = NULL
    Documents = {d1}
    ElectronicSales = {}
    Notes = {}
    Paid = {}
    Reconciled = {d1}
    Requests = {q1, q2}
    Poller = poller
    Quantities = {1, 2}
    InitialStock = 2
    AllowNegative = FALSE
    MaxFailures = 1
PROPERTIES
    
    ImplementsContract
