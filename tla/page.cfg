\* An administrator and a verifier, three clicks, two requests under way.
SPECIFICATION FairSpec
CONSTANTS
    u1 = u1
    u2 = u2
    MaxTxs = 2
    Users <- MCUsers
    LastPage = 1
    MaxRequests = 2
    Clicks = 3
    AllTypes <- MCTypes
    ServerTypes <- NoTypes
    Operators <- MCOperators
    Failures = TRUE
INVARIANTS
    TypeOK
    CodeIsPolled
    VerdictIsCurrentUnlessLate
    FormIsTargetUnlessLate
    RowsAreCurrentUnlessLate
    NoPollingElsewhereUnlessLate
PROPERTY
    PollingEnds
CHECK_DEADLOCK FALSE
