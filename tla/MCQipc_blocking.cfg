SPECIFICATION Spec
CONSTANTS
    p1 = p1
    p2 = p2
    p3 = p3
    Pids = {p1, p2, p3}
    Names = {a}
    Ids = {1, 2, 3}
    Uses <- OwnNumber3
    AnySender = AnySender
    NULL = NULL
    MaxQ = 1
    MaxCap = 3
    MaxNotifier = 0
    MaxBlockingSend = 3
    Caps = {3}
    Types = {1}
    Prios = {1}
    Expiries = {1}
    RecvLists <- UpToPairs
    MaxTime = 0
    MaxMsgs = 1
    MaxWaiters = 0
INVARIANT RowsAwaitReaders
INVARIANT SendWaitsForward
INVARIANT NoSenderDeadlock

CHECK_DEADLOCK FALSE
VIEW ServerState
