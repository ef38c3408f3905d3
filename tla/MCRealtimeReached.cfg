\* A device reconnects before its old connection is closed.
CONSTANTS
    k1 = k1  k2 = k2  d1 = d1
    e1 = e1  e2 = e2
    None = None
    Conn <- MCConn
    Device <- MCDevice
    Event <- MCEvent
    Capacity = 1
SPECIFICATION Spec
INVARIANT OpenIsReached
CHECK_DEADLOCK FALSE
