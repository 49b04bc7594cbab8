CONSTANTS
    Enabled = TRUE
    PerIpMax = 2
    AuthFailMax = 2
    AuthFailWindow = 2
    CooldownSeconds = 1
    Ips = {ip1, ip2}
    Conns = {c1, c2, c3}
    NoIp = NoIp
    MaxTime = 5
SPECIFICATION Spec
INVARIANTS SlotsAccounted CooldownKept
PROPERTIES CooldownExact ImplementsSlotPool
CHECK_DEADLOCK FALSE
