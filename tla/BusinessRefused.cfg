SPECIFICATION FairSpec
CONSTANTS
    u1 = u1
    u2 = u2
    n1 = n1
    n2 = n2
    h1 = h1
    p1 = p1
    None = None
    UserCalls = {u1}
    NestedCalls = {}
    OneWayCalls = {}
    Pushes = {}
    Cancellable = {}
    SeqSpace = 2
    PushSeqs = {9}
PROPERTY ResponseEndsWait
\* the system stops when every call has been made and answered
CHECK_DEADLOCK FALSE
