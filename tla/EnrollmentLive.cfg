SPECIFICATION FairSpec
CONSTANTS
    Slot = {s1}
    Admin = {a1}
    Key = {k1, k2}
    Token = {t1}
    DeviceId = {d1}
    None = None
    HeadscaleEnabled = TRUE
    MaxFaults = 1
PROPERTIES TunnelCloses 
