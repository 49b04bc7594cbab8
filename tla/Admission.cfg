CONSTANTS
    Enabled = TRUE
    PerIpMax = 1
    AuthFailMax = 2
    AuthFailWindow = 2
    CooldownSeconds = 1
    Ips = {ip1, ip2}
    Sessions = {s1, s2}
    NoIp = NoIp
    FallbackMax = 1
    Layouts <- MCLayouts
    FrontIps = {ip2}
    MaxTime = 2
    MaxResets = 1
    Users = {u1, u2}
    UserSessions = {t1, t2}
    NoUser = NoUser
    MaxBytes = 2
    MaxGrants = 4
    Quota <- MCQuota
    QuotaOfAll = 3
    Unlimited = u2
SPECIFICATION MCSpec
SYMMETRY Symmetry
INVARIANTS DirectLimit CountersExact SlipsBounded OvershootBounded
CHECK_DEADLOCK FALSE
