SPECIFICATION Spec
CONSTANTS
    n1 = n1
    n2 = n2
    t1 = t1
    t2 = t2
    w1 = w1
    w2 = w2
    Ids <- MCIds
    States = {s1, s2}
    SuppliedStates = {s2}
    Nonces <- OneNonce
    Tokens <- MdocAndJson
    Workers <- MCWorkers
    Calls <- MemoryCalls
    TTL = 0
    MaxTime = 1
    Atomic = TRUE
    Persistent = FALSE
    JournalEnabled = TRUE
    Failures = TRUE
INVARIANTS
    SingleUse
PROPERTIES
    IsLifecycle
SYMMETRY Interchangeable
CHECK_DEADLOCK FALSE
