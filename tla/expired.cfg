SPECIFICATION Spec
CONSTANTS
    n1 = n1
    n2 = n2
    t1 = t1
    t2 = t2
    w1 = w1
    w2 = w2
    Ids <- MCIds
    States = {s1, s2}
    SuppliedStates = {s2}
    Nonces <- MCNonces
    Tokens <- OneSdJwt
    Workers <- MCWorkers
    Calls <- MCCalls
    TTL = 0
    MaxTime = 1
    Atomic = FALSE
    Persistent = TRUE
    JournalEnabled = TRUE
    Failures = FALSE
PROPERTIES
    ExpiredNotVerified
CHECK_DEADLOCK FALSE
