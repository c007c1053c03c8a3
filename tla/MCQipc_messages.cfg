SPECIFICATION Spec
CONSTANTS
    p1 = p1
    p2 = p2
    p3 = p3
    Pids = {p1}
    Names = {a}
    Ids = {1, 2}
    Uses <- AnyNumber1
    AnySender = AnySender
    NULL = NULL
    MaxQ = 1
    MaxCap = 3
    MaxNotifier = 0
    MaxBlockingSend = 0
    Caps = {3}
    Types = {0}
    Prios = {1, 2}
    Expiries = {0, 1}
    RecvLists <- OneOrPair
    MaxTime = 1
    MaxMsgs = 3
    MaxWaiters = 0
INVARIANT MessagesAwaitReaders
PROPERTY DeliveryOrder
PROPERTY ReadingsConserved
PROPERTY KeepsMailboxes
CHECK_DEADLOCK FALSE
VIEW ServerState
