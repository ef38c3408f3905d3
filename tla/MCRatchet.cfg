\* Three messages one way and one the other; the calls of one party may overlap.
CONSTANTS
    k1 = k1  k2 = k2  k3 = k3
    None = None
    Call <- MCCall  Owner <- MCOwner
    MAX_SKIP = 1
    MaxSend <- MCSend
    MaxReload = 1
SPECIFICATION Spec
INVARIANTS TypeOK FirstDeliveryDecrypts KeysUsedOnce EmittedOnce
CONSTRAINT MCConstraint
SYMMETRY MCSymmetry
CHECK_DEADLOCK FALSE
