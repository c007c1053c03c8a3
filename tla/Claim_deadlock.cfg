SPECIFICATION Spec
CONSTANTS
    p1 = p1
    p2 = p2
    p3 = p3
    Pids = {p1, p2, p3}
    Names = {a}
    Ids = {1, 2, 3}
    Uses <- OwnNumber3
    AnySender = AnySender
    NULL = NULL
    MaxQ = 1
    MaxCap = 1
    MaxNotifier = 0
    MaxBlockingSend = 0
    Caps = {1}
    Types = {0}
    Prios = {1}
    Expiries = {1}
    RecvLists <- ToOne
    MaxTime = 0
    MaxMsgs = 1
    MaxWaiters = 3
INVARIANT NoReceiverDeadlock

CHECK_DEADLOCK FALSE
