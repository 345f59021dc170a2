CONSTANTS
    c1 = c1
    c2 = c2
    d1 = d1
    d2 = d2
    nilIP = nilIP
    Callers <- MCCallers
    DNSValues <- MCDNSValues
    NoDNS <- nilIP
    MaxOps = 2
    MaxCrashes = 0
    InstallMayFail = FALSE
    UninstallMayFail = FALSE
SPECIFICATION Spec
PROPERTY CallsReturn
CHECK_DEADLOCK FALSE
