SPECIFICATION MCSpec
CONSTANTS
    Inputs <- MCInputs
    Configs <- MCConfigs
    Alpns = {"h2", "http11"}
    NoAlpn = "none"
    Overrides = {"h2"}
    EnvelopeCells = 2
    MaxCells = 5
    Base = 16
    Passwords <- MCPasswords
    Targets <- MCTargets
    Payloads <- MCPayloads
    Strays = {0, 3}
    MaxPackets = 2
INVARIANTS SourcePrecedence PlanExact GoodFrameServed ParsersExact
CHECK_DEADLOCK FALSE
