SPECIFICATION ServiceFairSpec
CONSTANTS
    Acceptors = {a1, a2}
    Connections = {c1}
    NoCert = NoCert
    MaxSignals = 2
    MaxCert = 1
INVARIANT AcceptorServed
PROPERTIES ReloadClean SignalsObeyed
CHECK_DEADLOCK FALSE
