SPECIFICATION Spec
CONSTANTS
    p1 = p1
    p2 = p2
    p3 = p3
    Pids = {p1, p2, p3}
    Names = {a}
    Ids = {1, 2, 3}
    Uses <- OwnNumber3
    AnySender = AnySender
    NULL = NULL
    MaxQ = 1
    MaxCap = 2
    MaxNotifier = 0
    MaxBlockingSend = 2
    Caps = {2}
    Types = {0, 1}
    Prios = {1}
    Expiries = {1}
    RecvLists <- ToOther
    MaxTime = 0
    MaxMsgs = 2
    MaxWaiters = 0

PROPERTY ReleasedByItsReaders
CHECK_DEADLOCK FALSE
