SPECIFICATION FairSpec
CONSTANTS
    s1 = s1
    s2 = s2
    ip1 = ip1
    ip2 = ip2
    Session = {s1}
    IpOf <- MCIpOf
    Worker = {w1, w2}
    WrongPassAmnt = 0
    BanByIp = TRUE
    Locked = TRUE
    HasCharacters = FALSE
    CounterSize = 2
    MaxQueue = 1
    MaxWrong = 1
    MaxFailures = 1
PROPERTIES
    LogonAnswered
    DeadGetsFreed
\* The only slot may be kept for ever by the observer of a failed query.
CHECK_DEADLOCK FALSE
