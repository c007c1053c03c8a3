SPECIFICATION FairClients
CONSTANTS
    p1 = p1
    p2 = p2
    p3 = p3
    Pids = {p1, p2}
    Names = {a, b}
    Typed = {a}
    Ids = {1, 2}
    Uses <- Own2
    Menu <- BothWait
    Interrupted = {}
    AnySender = AnySender
    NULL = NULL
    MaxQ = 1
    MaxCap = 5
    MaxNotifier = 1
    MaxBlockingSend = 2
    Caps = {5}
    Types = {0, 1}
    Prios = {1}
    Expiries = {1}
    RecvLists <- ToEither
    MaxTime = 0
    MaxMsgs = 2
    MaxWaiters = 2
INVARIANT CompletedEarlyOnlyTo
PROPERTY WakeUpsEndWaits

CHECK_DEADLOCK FALSE
