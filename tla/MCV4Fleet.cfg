SPECIFICATION Spec
CONSTANTS
    Ips = {x, y}
    Private = {y}
    Threads = {t1, t2}
    MaxClock = 3
    Budgets <- MCBudgets
INVARIANTS TypeOK WhitelistedNotBlocked WhitelistFollowsChanges EnforcersAgree NothingSkipped TablesDisjoint
SYMMETRY MCSymmetry
CHECK_DEADLOCK FALSE
