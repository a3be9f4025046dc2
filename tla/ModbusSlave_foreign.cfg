SPECIFICATION Spec
CONSTANTS
    SizeMin = 4
    SizeMax = 5
    Frames <- ConformingFrames
    MaxFrames = 2
    ReplyLens = {1}
    Master = "conforming"
INVARIANT ExecutesOwnFrames
CHECK_DEADLOCK FALSE
