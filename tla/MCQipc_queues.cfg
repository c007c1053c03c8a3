SPECIFICATION Spec
CONSTANTS
    p1 = p1
    p2 = p2
    p3 = p3
    Pids = {p1}
    Names = {a, b, c}
    Ids = {1}
    Uses <- OwnNumber1
    AnySender = AnySender
    NULL = NULL
    MaxQ = 2
    MaxCap = 1
    MaxNotifier = 0
    MaxBlockingSend = 1
    Caps = {0, 2}
    Types = {0}
    Prios = {1}
    Expiries = {0}
    RecvLists <- ToOne
    MaxTime = 1
    MaxMsgs = 1
    MaxWaiters = 1
INVARIANTS
    TablesAgree
PROPERTIES
    OnlySetAttrOverfills
CHECK_DEADLOCK FALSE
VIEW ServerState
