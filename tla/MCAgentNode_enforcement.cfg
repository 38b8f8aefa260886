SPECIFICATION Spec
CONSTANTS
    a = a
    IPs = {a}
    NoIP = NoIP
    Backends = {"ipset", "iptables"}
    DefaultTtl = 1
    EventTtls <- MCEventTtls
    IpsetMax = 2
    PumpLimit = 2
    FirewallFails = TRUE
    MaxTime = 2
    MaxRows = 1
    MaxCrashes = 1
    MaxIpChanges = 1
INVARIANTS
    TypeOK
    RuleHasRow
    RowHasRule
    RuleEndsWithRow
    AllowlistedNotEnforced
