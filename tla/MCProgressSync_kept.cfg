SPECIFICATION Spec
CONSTANTS
    d1 = d1  d2 = d2  k1 = k1  k2 = k2
    v0 = v0  v1 = v1  v2 = v2  v3 = v3  f1 = f1  f2 = f2
    Device = {d1}
    Conn = {k1, k2}
    Owner <- OneDeviceOwner
    Topic = {t1}
    Known = {t1}
    Account = {alice}
    NoAccount = NoAccount
    Field = {f1}
    Value = {v0, v1, v2}
    Nil = v0
    Skew <- OnTime
    Resolution = 1
    StampAtBegin = TRUE
    MaxOpen = 1
    Cooldown = 2
    MaxTime = 3
    Limit <- KeptLimits
PROPERTIES KeptLocalIsPushed
CHECK_DEADLOCK FALSE
