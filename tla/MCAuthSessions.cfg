SPECIFICATION FairSpec
CONSTANTS
    MaxAge = 2
    RefreshMaxAge = 4
    Window = 1
    Lead = 1
    Hold = 1
    Timeout = 1
    MaxGrants = 1
    Logins = 2
    Tabs = {t1}
    MaxNow = 5
INVARIANTS
    SessionsRunOut
    RevokedRunOut
PROPERTIES
    
    CheckingEnds
CHECK_DEADLOCK FALSE
