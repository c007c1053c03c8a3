SPECIFICATION ClientsSpec
CONSTANTS
    p1 = p1
    p2 = p2
    p3 = p3
    Pids = {p1, p2}
    Names = {a, b}
    Typed = {a}
    Ids = {1, 2}
    Uses <- Own2
    Menu <- SenderAndReceiver
    Interrupted = {p2}
    AnySender = AnySender
    NULL = NULL
    MaxQ = 1
    MaxCap = 5
    MaxNotifier = 1
    MaxBlockingSend = 1
    Caps = {1, 5}
    Types = {0, 1}
    Prios = {1}
    Expiries = {0}
    RecvLists <- ToSecond
    MaxTime = 1
    MaxMsgs = 1
    MaxWaiters = 1
INVARIANT ClientsTypeOK
PROPERTY ClientsImplementServer
 
PROPERTY KilledOnlyBy

CHECK_DEADLOCK FALSE
VIEW ClientState
