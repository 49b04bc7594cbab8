SPECIFICATION ServiceSpec
CONSTANTS
    Acceptors = {a1}
    Connections = {c1}
    NoCert = NoCert
    MaxSignals = 2
    MaxCert = 1
PROPERTY ReloadDropsNothing
CHECK_DEADLOCK FALSE
