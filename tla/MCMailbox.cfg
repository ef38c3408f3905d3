CONSTANTS
    r1 = r1
    r2 = r2
    r3 = r3
    r4 = r4
    t1 = t1
    t2 = t2
    None = None
    Req <- MCReq
    Tenant <- MCTenant
    MaxLog = 2
    CAP = 1
    PAGE = 1
SPECIFICATION MailboxSpec
SYMMETRY RequestsAlike
CHECK_DEADLOCK FALSE
INVARIANTS
    DownloadIsWhole
    ReferencedIsReadable
    QueueAnswersHold
