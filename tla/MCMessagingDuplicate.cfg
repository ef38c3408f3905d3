\* Two users open a conversation with each other at once.
CONSTANTS
    r1 = r1  r2 = r2  r3 = r3
    u1 = u1  u2 = u2
    d1 = d1  c1 = c1  c2 = c2
    None = None
    Req <- MCReq
    User <- MCUser
    Device <- MCDevice
    Conv <- MCConvs
    SeedConvs <- MCNone
    SeedUsers <- MCUser
    Limits <- MCLimits
    Cursors <- MCCursors
    DEFAULT_LIMIT = 1
    MAX_LIMIT = 2
    HALF = 4
SPECIFICATION Spec
INVARIANT OneDirectConversation
CHECK_DEADLOCK FALSE
