CONSTANTS
    Profiles = {p1}
    None = None
    Launches = {l1, l2}
    MaxPollWrites = 1
    Candidates = {p1, p2}
    NoCandidate = None
    MaxRollbacks = 2
    Window = 2
    MaxSmokeTime = 5
    Keys = {1, 2}
    Values = {v1, v2}
    NoValue = None
    Calls = {1, 2}
    MaxSecretCalls = 4
    MaxSecretFails = 2
    MaxRestarts = 1
    ProfileIds = {p1, p2}
    NoProfile = None
    SampleId = p1
    MaxVersion = 1
    MaxStoreWrites = 2
    Copies = {c1, c2, c3}
    NoCopy = None
SYMMETRY LaunchSymmetry
SPECIFICATION MCSpec
INVARIANT RollbackStopsCandidate
CHECK_DEADLOCK FALSE
