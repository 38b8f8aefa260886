SPECIFICATION Spec
CONSTANTS
    Ips = {client}
    Skipped = {}
    Requests <- MCRequests
    IgnorePatterns = {"/health"}
    Immediate = {"/.env"}
    HighRisk = {"/admin"}
    Window <- MCWindow
    Threshold <- MCThreshold
    PathThreshold = 2
    Ttl = 1
    MaxPass = 1
    MaxRead = 2
    MaxClock = 4
    Budgets <- MCBudgets
INVARIANTS OffenderReported CrashLosesOneLog
CHECK_DEADLOCK FALSE
