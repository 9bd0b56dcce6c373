SPECIFICATION Spec
CONSTANTS
    u1 = u1
    u2 = u2
    n1 = n1
    n2 = n2
    h1 = h1
    p1 = p1
    None = None
    UserCalls = {u1, u2}
    NestedCalls = {n1}
    OneWayCalls = {}
    Pushes = {p1}
    Cancellable = {u1, u2}
    SeqSpace = 3
    PushSeqs = {9}
SYMMETRY UserSymmetry
INVARIANTS OwnAnswer AwaitingIsRegistered PanicsOnlyAfterCancel
PROPERTY KeepsContract
\* the system stops when every call has been made and answered
CHECK_DEADLOCK FALSE
