SPECIFICATION Spec
CONSTANTS
    Ips = {x, y, z}
    Allowed = {y, z}
    Ignored = {z}
    Requests <- MCRequests
    IgnorePatterns = {"health"}
    HighRisk = {"env", "login"}
    Immediate = {"env"}
    Window <- MCWindow
    Threshold <- MCThreshold
    Weight <- MCWeight
    BlockScore = 80
    Debounce = 2
    BlockTtl = 2
    MaxClock = 3
    Budgets <- MCBudgets
INVARIANTS TypeOK RiskReported SetMatchesRows BlockLasts CopiesDoNotProlong
PROPERTIES ExpiredBlockEnds
CHECK_DEADLOCK FALSE
