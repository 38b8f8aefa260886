SPECIFICATION FairSpec
CONSTANTS
    Nodes = {broker, web}
    ApiNode = broker
    Ips = {1, 2}
    DefaultTtl = 2
    MaxAge = 1
    MaxSync = 1
    MaxClock = 3
    MaxQueue = 2
    Budgets <- MCBudgets
INVARIANTS TypeOK BlocksEnd UnblockHolds
PROPERTIES BlockSpreads
CHECK_DEADLOCK FALSE
