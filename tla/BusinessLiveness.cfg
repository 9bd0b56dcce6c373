SPECIFICATION FairSpec
CONSTANTS
    u1 = u1
    u2 = u2
    n1 = n1
    n2 = n2
    h1 = h1
    p1 = p1
    None = None
    UserCalls = {u1}
    NestedCalls = {n1, n2}
    OneWayCalls = {h1}
    Pushes = {}
    Cancellable = {u1}
    SeqSpace = 3
    PushSeqs = {9}
INVARIANTS TypeOK PendingIsUnanswered
PROPERTIES EntryLeavesOnlyByDelivery AwaitReturns
\* the system stops when every call has been made and answered
CHECK_DEADLOCK FALSE
