SPECIFICATION FairSpec
CONSTANTS
    a = a
    IPs = {a}
    NoIP = NoIP
    Backends = {"iptables"}
    DefaultTtl = 1
    EventTtls <- MCOneTtl
    IpsetMax = 2
    PumpLimit = 2
    FirewallFails = FALSE
    MaxTime = 1
    MaxRows = 2
    MaxCrashes = 0
    MaxIpChanges = 0
PROPERTIES
    LocalFirst
