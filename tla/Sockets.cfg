SPECIFICATION Spec
CONSTANTS
    Socket = {s1, s2, s3, s4}
    NetThread = {n1}
    DatabaseThread = {d1}
    connection_limit = 2
    CountModulus = 8
    MaxDrift = 1
    MaxWaiting = 2
    Payload = {0, 1, 3}
    MaxPackets = 3
    PacketSize = {4, 6}
    MaxQueued = 3
    MaxParts = 2
    Number <- MCNumber
    String <- MCString
    Vector <- MCVector
    Guid <- MCGuid
    Opcodes = {1, 258}
    Sizes = {0, 300}
    MaxItems = 3
    Byte = {97, 66, 48, 195, 59}
    Prefix <- MCPrefix
    MaxLength = 5
INVARIANTS
    TypeOK
    LimitHeld
    FramesWhole
    WireIntact
    WriteInterest
    PacketReadBack
    TextAgrees
PROPERTIES
    ClosedGetsFreed
CHECK_DEADLOCK FALSE
