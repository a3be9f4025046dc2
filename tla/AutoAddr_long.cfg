SPECIFICATION Spec
CONSTANTS
    N = 3
    AddrBits = 2
    Drift = 1
    Skews = {0}
CONSTRAINT Unfinished
INVARIANT ChainNumbered
