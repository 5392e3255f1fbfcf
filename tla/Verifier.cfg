SPECIFICATION Spec
CONSTANTS
    s1 = s1
    s2 = s2
    ip1 = ip1
    ip2 = ip2
    Session = {s1, s2}
    IpOf <- MCIpOf
    Worker = {w1,w2}
    WrongPassAmnt = 1
    BanByIp = TRUE
    Locked = FALSE
    HasCharacters = TRUE
    CounterSize = 2
    MaxQueue = 2
    MaxWrong = 0
    MaxFailures = 0
INVARIANT VerifierSet
