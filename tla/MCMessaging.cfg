\* Three requests of two users: sends race with each other, with reads, with the
\* creation of the conversation and with changes of its members.
CONSTANTS
    r1 = r1  r2 = r2  r3 = r3
    u1 = u1  u2 = u2
    d1 = d1  c1 = c1  c2 = c2
    None = None
    Req <- MCReq
    User <- MCUser
    Device <- MCDevice
    Conv <- MCConv
    SeedConvs <- MCNone
    SeedUsers <- MCUser
    Limits <- MCLimits
    Cursors <- MCCursors
    DEFAULT_LIMIT = 1
    MAX_LIMIT = 2
    HALF = 4
SPECIFICATION FairSpec
INVARIANTS SeqGapFree AnsweredIsStored PageIsGapFree
PROPERTIES ImplementsLog EveryRequestAnswered
CHECK_DEADLOCK FALSE
