CONSTANTS
    r1 = r1
    r2 = r2
    ip1 = ip1
    ip2 = ip2
    nilIP = nilIP
    badIP = badIP
    Requesters <- MCConcurrent
    IPs <- MCIPs
    NoIP <- nilIP
    Invalid <- badIP
    MaxListLen = 2
    MaxCalls = 3
SPECIFICATION Spec
INVARIANT LastGoodInList
CHECK_DEADLOCK FALSE
