\* A tenant from its provisioning, its seats, and the calendar of its store.
SPECIFICATION StaffSpec
CONSTANTS
    NULL = NULL
    u1 = u1
    u2 = u2
    q1 = q1
    q2 = q2
    o1 = o1
    o2 = o2
    c1 = c1
    c2 = c2
    Requests = {q1, q2}
    Users = {u1, u2}
    TenantRows <- TenantsCreated
    MasterChanges <- ChangesOfMaster
    Workloads <- RequestsSent
    LastDay = 3
    Overrides = {o1, o2}
    Closures = {c1, c2}
    NewOverrides <- OverridesSent
    OverrideChanges <- ChangesOfOverrides
    ClosureRequests <- ClosuresSent
    MaxAssignments = 3
SYMMETRY StaffSymmetry
CHECK_DEADLOCK FALSE
INVARIANTS
    RangesDoNotOverlap
    CalendarAddsUp
PROPERTIES
    SeatsWithinPlan
    
