SPECIFICATION Spec
CONSTANTS
    k = k
    l = l
    Keys = {k, l}
    NoKey = NoKey
    Targets <- MCTargets
    Requests = {"api"}
    FirewallFails = TRUE
    MaxOps = 4
    MaxCrashes = 1
CHECK_DEADLOCK FALSE
SYMMETRY Symmetry
INVARIANTS
    RuleHasRow
    RowHasRule
