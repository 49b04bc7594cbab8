CONSTANTS
    RunTypes = {"forward"}
    ClientCells = 4
    ServerCells = 2
    ReadMax = 2
    PacketSizes = {2}
    MaxLength = 1
    Endpoints = {e1}
    Sessions = {s1}
    NoSession = NoSession
    UdpTimeout = 2
    MaxTime = 2
    MaxDatagrams = 1
SPECIFICATION MCSpec
INVARIANT StreamIntact
CHECK_DEADLOCK FALSE
