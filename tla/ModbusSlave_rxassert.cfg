SPECIFICATION Spec
CONSTANTS
    SizeMin = 4
    SizeMax = 5
    Frames <- AnyFrames
    MaxFrames = 2
    ReplyLens = {1}
    Master = "any"
INVARIANT NoReceiveDuringTransmit
CHECK_DEADLOCK FALSE
