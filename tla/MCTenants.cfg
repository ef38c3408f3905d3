\* Three requests about one tenant and one registration, with two issuers.
CONSTANTS
    r1 = r1  r2 = r2  r3 = r3  t1 = t1  g1 = g1  i1 = i1  i2 = i2  u2 = u2
    None = None
    Req <- MCReq
    Issuer <- MCIssuer  Trim <- MCTrim
    SeedTenants <- MCTenants
    SeedRegs <- MCRegs
SPECIFICATION Spec
INVARIANTS RegistryIsTable OldKeysAreGone ProvisionedIsApproved OneTenantPerRegistration DecisionsStand
SYMMETRY MCSymmetry
CHECK_DEADLOCK FALSE
