SPECIFICATION FairCommands
CONSTANTS
    Jobs = {1, 2, 3}
    NoProc = NoProc
    Plain <- PlainLines
    Conditional <- ConditionalLines
    InPath = {"ls"}
INVARIANT JobsTypeOK
 
 
 
PROPERTY UnreapedOnlyBy
PROPERTY AlarmLostOnlyBy
 
PROPERTY CommandsEnd
CHECK_DEADLOCK FALSE
