SPECIFICATION Spec
CONSTANTS
    SizeMin = 4
    SizeMax = 5
    Frames <- OwnFrames
    MaxFrames = 2
    ReplyLens = {1}
    Master = "conforming"
INVARIANT EventHandled
CHECK_DEADLOCK FALSE
