SPECIFICATION Spec
CONSTANTS
    Slot = {s1, s2}
    Admin = {a1}
    Key = {k1, k2}
    Token = {t1, t2}
    DeviceId = {d1}
    None = None
    HeadscaleEnabled = TRUE
    MaxFaults = 1
SYMMETRY Symmetry
INVARIANTS TypeOK NeverStranded IInv
PROPERTY MembershipSpec
