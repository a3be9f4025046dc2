SPECIFICATION Spec
CONSTANTS
    N = 2
    AddrBits = 4
    Drift = 4
    Skews = {0, 104}
INVARIANT TypeOK
 
 
