SPECIFICATION Spec
CONSTANTS
    Address = 72
    Transfers <- MCTransfers
    Registers <- MCRegisters
    Retries = {0, 1}
    MaxNacks = 1
    MaxFaults = 1
INVARIANTS Truthful BusFree WorksAgain
PROPERTY Ends
