\* Three requests about a conversation of two users, one of whom has two devices.
CONSTANTS
    r1 = r1  r2 = r2  r3 = r3
    u1 = u1  u2 = u2  d1 = d1  d2 = d2  d3 = d3
    c1 = c1  c2 = c2
    None = None
    NilDevice = NilDevice
    Req <- MCReq
    User <- MCUser
    Device <- MCDevice
    Conv <- MCConv
    SeedMembers <- MCSeed
    Named <- MCNamed
    Bodies <- MCBodies
    MAX_EXTRA = 2
SPECIFICATION Spec
INVARIANTS FanOutIsMembership SkdmAllOrNothing ToldIsTable
SYMMETRY MCSymmetry
CHECK_DEADLOCK FALSE
