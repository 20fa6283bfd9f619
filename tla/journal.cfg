SPECIFICATION FairSpec
CONSTANTS
    alice = alice
    bob = bob
    r1 = r1
    r2 = r2
    r3 = r3
    i1 = i1
    Users <- MCUsers
    Requests <- MCRequests
    Owner <- MCOwner
    Instances <- OneInstance
    HostOf <- AllOnOne
    Skew <- NoSkew
    Auditors = {a1}
    MaxCasRetries = 2
INVARIANTS
    TypeOK
    OneChain
    AnswerMatchesRecord
    TimeFollowsChain
    RetriesArePaidFor
    QuietAuditValid
    AlterationsFound
PROPERTIES
    IsAuditLog
    Answered
\* Every request is answered once, then the instance rests.
CHECK_DEADLOCK FALSE
