SPECIFICATION Spec
CONSTANTS
    p1 = p1
    p2 = p2
    p3 = p3
    Pids = {p1, p2}
    Names = {a}
    Ids = {1, 2}
    Uses <- AnyNumber2
    AnySender = AnySender
    NULL = NULL
    MaxQ = 1
    MaxCap = 1
    MaxNotifier = 1
    MaxBlockingSend = 0
    Caps = {1}
    Types = {0}
    Prios = {1}
    Expiries = {0,1}
    RecvLists <- OneOrBoth
    MaxTime = 1
    MaxMsgs = 1
    MaxWaiters = 2
INVARIANT NoReceiverTwoCycle
INVARIANT TypeOK
 
PROPERTY WaiterLeavesForAReason
CHECK_DEADLOCK FALSE
VIEW ServerState
