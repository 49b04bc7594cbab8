CONSTANTS
    RunTypes = {"client", "forward", "udp_forward"}
    ClientCells = 4
    ServerCells = 4
    ReadMax = 2
    PacketSizes = {2, 3}
    MaxLength = 1
    Endpoints = {e1}
    Sessions = {s1, s2}
    NoSession = NoSession
    UdpTimeout = 2
    MaxTime = 4
    MaxDatagrams = 3
SPECIFICATION MCSpec
INVARIANTS PayloadConserved RelaysServed DatagramsConserved
PROPERTIES IdleTimed SessionsFreed
CHECK_DEADLOCK FALSE
