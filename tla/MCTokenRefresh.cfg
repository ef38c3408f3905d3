\* Four requests of one session, with any token the client was given.
CONSTANTS
    r1 = r1  r2 = r2  r3 = r3  r4 = r4  s1 = s1
    None = None
    Req <- MCReq
    Session <- MCSession
SPECIFICATION Spec
INVARIANTS OneCurrent SessionSurvives RefusedForAReason
SYMMETRY MCSymmetry
CHECK_DEADLOCK FALSE
