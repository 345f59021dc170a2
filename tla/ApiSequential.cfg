CONSTANTS
    r1 = r1
    r2 = r2
    ip1 = ip1
    ip2 = ip2
    nilIP = nilIP
    badIP = badIP
    Requesters <- MCSequential
    IPs <- MCIPs
    NoIP <- nilIP
    Invalid <- badIP
    MaxListLen = 2
    MaxCalls = 4
SPECIFICATION Spec
INVARIANT TypeOK LastGoodInList
PROPERTY LastGoodTriedFirst CallsComplete FailoverSpec
CHECK_DEADLOCK FALSE
