SPECIFICATION Spec
CONSTANTS
    MaxMessages = 4
    MaxHops = 2
    MaxSqlCalls = 3
    MaxRetries = 1
    Budget = 1
    MaxBlocks = 2
    MaxAsks = 4
INVARIANT ConversationsAccepted
CHECK_DEADLOCK FALSE
