\* A server whose pings can meet the deadline and can miss it.
CONSTANTS
    c1 = c1
    c2 = c2
    PING_TIMEOUT = 2
    PONG_DEADLINE = 1
    KEEPALIVE = 3
    MaxWaiting = 2
    MaxSleeps = 2
    Off = Off
    Call <- MCCall
    REPLENISH_COUNT = 2
SPECIFICATION FairSpec
CHECK_DEADLOCK FALSE
INVARIANTS StateIsReal LeftAlone SilenceIsBounded UploadedIsHeld
PROPERTY ConnectReturns
