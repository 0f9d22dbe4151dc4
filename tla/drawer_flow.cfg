\* Sessions, movements, sales and transfers over two registers; no closings.
SPECIFICATION Spec
CONSTANTS
    Registers = {r1, r2}
    Vault = vault
    NULL = NULL
    Users <- MCUsers
    Approvers <- MCApprovers
    Operators = {"cashier"}
    Amounts = {1}
    Openings = {1}
    Counts = {2}
    Denominations = {1}
    MaxQuantity = 0
    RegisterStatus = {"ACTIVE"}
    MaxSessions = 2
    MaxMovements = 3
    MaxSales = 0
    MaxTransfers = 1
    MaxClosings = 0
    MaxCashCounts = 0
SYMMETRY RegisterSymmetry
CHECK_DEADLOCK FALSE
INVARIANTS
    SealedBalance
    NothingRunsAfterSeal
    TransferMovesCashOnce
    VoidsAreCountered
    SummariesAgree
PROPERTY ImplementsLedger
