SPECIFICATION Spec
CONSTANTS
    NREGS = 4
    CALC_K_IND = 1
    Vals = {0, 7, 65535}
    Erased = 65535
    Addrs <- ManyAddrs
    Counts = {0, 1, 2, 3, 122}
    MaxTries = 2
    MaxResets = 2
    None = None
INVARIANT TypeOK
INVARIANT Untorn
INVARIANT Persisted
INVARIANT ServesWhole
PROPERTY RestoredAtStart
PROPERTY Serves
