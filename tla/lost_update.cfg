SPECIFICATION Spec
CONSTANTS
    u1 = u1
    u2 = u2
    e1 = e1
    e2 = e2
    w1 = w1
    w2 = w2
    UserIds <- MCUserIds
    Emails <- MCEmails
    Passwords = {p1}
    Changes <- MCChanges
    Txs = {t1}
    Workers <- MCWorkers
    Calls <- MCCalls
    TTL = 1
    MaxTime = 2
    KeepUsers = TRUE
    KeepSessions = TRUE
    KeepTransactions = FALSE
PROPERTY UnnamedFieldsKept
SYMMETRY Interchangeable
CHECK_DEADLOCK FALSE
