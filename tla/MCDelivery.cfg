CONSTANTS
    r1 = r1
    t1 = t1
    None = None
    Req <- MCReq
    Tenant <- MCTenant
    MaxLog = 1
    CAP = 1
    PAGE = 1
SPECIFICATION FairSpec
CHECK_DEADLOCK FALSE
PROPERTY GuaranteedDelivery
