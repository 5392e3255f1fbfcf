SPECIFICATION MCSpec
CONSTANTS
    s1 = s1
    s2 = s2
    ip1 = ip1
    ip2 = ip2
    Session = {s1, s2}
    IpOf <- MCIpOf
    Worker = {w1}
    WrongPassAmnt = 1
    BanByIp = FALSE
    Locked = FALSE
    HasCharacters = FALSE
    CounterSize = 3
    MaxQueue = 2
    MaxWrong = 2
    MaxFailures = 0
INVARIANTS
    TypeOK
    AccountSettles
    BanInForce
PROPERTY
    RefusedOnlyMeanwhile
