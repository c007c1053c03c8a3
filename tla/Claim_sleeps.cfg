SPECIFICATION FairClients
CONSTANTS
    p1 = p1
    p2 = p2
    p3 = p3
    Pids = {p1, p2}
    Names = {a, b}
    Typed = {a}
    Ids = {1, 2}
    Uses <- Own2
    Menu <- OneSendsOneReceives
    Interrupted = {}
    AnySender = AnySender
    NULL = NULL
    MaxQ = 1
    MaxCap = 5
    MaxNotifier = 0
    MaxBlockingSend = 1
    Caps = {5}
    Types = {0, 1}
    Prios = {1}
    Expiries = {1}
    RecvLists <- ToSecond
    MaxTime = 0
    MaxMsgs = 1
    MaxWaiters = 1
PROPERTY SleepsUntilMessageArrives

CHECK_DEADLOCK FALSE
