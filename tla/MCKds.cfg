\* Two requests of any kind that overlap and fail, under fairness, on a device that
\* has one key left or two.
CONSTANTS
    r1 = r1  r2 = r2  u1 = u1
    d1 = d1  d2 = d2  d3 = d3
    i1 = i1  i2 = i2
    s0 = s0  s1 = s1  s2 = s2  t1 = t1
    None = None
    Req <- MCReq
    User <- MCUser
    Device <- MCDevice
    KeyId <- MCKeyId
    Identity <- MCIdentity
    Spk <- MCSpk
    Signer <- MCSigner
    Uploads <- MCUploads
    SeedDevices <- MCSeedDevices
    SeedUser = u1
    SeedIdentity = i1
    SeedSpk = s1
    SeedCounts <- MCSeedCounts
    DEVICE_LIMIT = 2
    MAX_UPLOAD = 2
    LOW_OTPK = 2
SPECIFICATION FairSpec
INVARIANTS OtpkTakenOnce ConsumedIffTaken DepletedIsHonest LowPoolNotified BundlesVerify
PROPERTY EveryRequestAnswered
CHECK_DEADLOCK FALSE
