SPECIFICATION Spec
CONSTANTS
    NREGS = 12
    Requests <- MCRequests
    Address = 3
    Raws <- MCRaws
    Readings = {1000}
    Any = {7, 40000}
INVARIANTS Calibrated MasterView
PROPERTIES Met Refused
