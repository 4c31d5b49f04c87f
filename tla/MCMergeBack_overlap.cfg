SPECIFICATION FairSpec
CONSTANTS
    u1 = u1  u2 = u2  f1 = f1  f2 = f2  f3 = f3  s1 = s1  s2 = s2
    k1 = k1  k2 = k2
    Author = {u1}
    Fork = {f1}
    Forker <- OneRow
    Suggestion = {s1, s2}
    Conn = {k1, k2}
    shipped = shipped  torn = torn  text1 = text1
    Text = {shipped, torn, text1}
    Shipped = shipped
    Torn = torn
    None = None
    DiskDurable = TRUE
    RefreshOnBoot = TRUE
    Limit <- RestartsOnly
INVARIANTS NoOrphan DiskIsShown
PROPERTIES Settled 
CHECK_DEADLOCK FALSE
