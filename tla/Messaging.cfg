SPECIFICATION FairSpec
CONSTANTS
    p1 = p1
    p2 = p2
    m1 = m1
    Pushes = {p1, p2}
    Messages = {m1}
    Workloads <- MCWorkloads
    FullMembers = TRUE
CHECK_DEADLOCK FALSE
INVARIANTS TypeOK NoticeNotLost FailureIsolated SentWhole OnePeer
PROPERTIES EventRead
