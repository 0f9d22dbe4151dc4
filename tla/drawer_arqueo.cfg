\* Closings and counts of one register's sessions, with a sale, movements and
\* a transfer to the vault going on meanwhile.
SPECIFICATION Spec
CONSTANTS
    Registers = {r1}
    Vault = vault
    NULL = NULL
    Users <- MCApprovers
    Approvers <- MCApprovers
    Operators <- MCApprovers
    Amounts = {1}
    Openings = {1}
    Counts = {1}
    Denominations = {2}
    MaxQuantity = 1
    RegisterStatus = {"ACTIVE", "INACTIVE"}
    MaxSessions = 1
    MaxMovements = 1
    MaxSales = 1
    MaxTransfers = 1
    MaxClosings = 2
    MaxCashCounts = 2
INVARIANTS
    
    ClosingReconcilesSession
    CountFeedsClosing
    SummariesAgree
