\* A device reconnects while events are on their way, under fairness.
CONSTANTS
    k1 = k1  k2 = k2  d1 = d1
    e1 = e1  e2 = e2
    None = None
    Conn <- MCConn
    Device <- MCDevice
    Event <- MCEvent
    Capacity = 1
SPECIFICATION FairSpec
INVARIANTS SessionIsNewest NewestIsRegistered SentInOrder
PROPERTIES AcceptedIsWritten GoneIsUnregistered
CHECK_DEADLOCK FALSE
