SPECIFICATION FairSpec
CONSTANTS
    MaxMessages = 2
    MaxHops = 2
    MaxSqlCalls = 3
    MaxRetries = 1
    Budget = 1
    MaxBlocks = 2
    MaxAsks = 2
INVARIANTS
    TypeOK
    ToolCallsAnswered
    AnswersBelong
PROPERTIES
    TurnsEnd
CHECK_DEADLOCK FALSE
