CONSTANTS
    c1 = c1
    c2 = c2
    d1 = d1
    d2 = d2
    nilIP = nilIP
    Callers <- MCCallers
    DNSValues <- MCDNSValues
    NoDNS <- nilIP
    MaxOps = 3
    MaxCrashes = 1
    InstallMayFail = TRUE
    UninstallMayFail = TRUE
SPECIFICATION Spec
INVARIANT PausedImpliesTunnelDown InstallNotClobbered RestartOnlyOnChange
CHECK_DEADLOCK FALSE
