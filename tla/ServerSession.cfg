CONSTANTS
    FrameCells = 2
    ClientCells = 6
    TargetCells = 2
    Framings = {{}, {2, 3, 5, 6}, {3, 5}}
    ReadMax = 3
    MaxLength = 2
SPECIFICATION FairSpec
INVARIANTS SingleOperation StreamsConserved UsageLag UdpLimitExact
PROPERTIES DestroyIsFinal OperationsDrain
CHECK_DEADLOCK FALSE
