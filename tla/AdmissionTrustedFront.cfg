CONSTANTS
    Enabled = TRUE
    PerIpMax = 1
    AuthFailMax = 2
    AuthFailWindow = 2
    CooldownSeconds = 1
    Ips = {ip1}
    Sessions = {s1, s2, s3}
    NoIp = NoIp
    FallbackMax = 1
    Layouts <- FrontLayouts
    FrontIps = {ip1}
    MaxTime = 1
    MaxResets = 0
    Users = {u1, u2}
    UserSessions = {t1, t2}
    NoUser = NoUser
    MaxBytes = 2
    MaxGrants = 4
    Quota <- MCQuota
    QuotaOfAll = 3
    Unlimited = u2
SPECIFICATION MCSpec
SYMMETRY Symmetry
INVARIANT ConnectionLimit
CHECK_DEADLOCK FALSE
