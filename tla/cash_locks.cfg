\* Two requests at a time, statement by statement, over two registers,
\* one of which is closed and opened again; and all of them end.
SPECIFICATION FairSpec
CONSTANTS
    None = None
    Connections = {c1, c2}
    Registers <- MCRegisters
    MaxSessions <- MCSessions
    MaxTransfers = 1
    MaxPosts = 1
    Posts <- MCPosts
PROPERTIES
    OneOutcomePerTransfer
    LocksImplementLedger
    EveryRequestEnds
