SPECIFICATION FairSpec
CONSTANTS
    SizeMin = 4
    SizeMax = 5
    Frames <- AllFrames
    MaxFrames = 3
    ReplyLens = {1, 2}
    Master = "quiet"
INVARIANT EventHandled
INVARIANT ExecutesOwnFrames
INVARIANT AtMostOnce
PROPERTY Answered
PROPERTY BroadcastExecuted
CHECK_DEADLOCK FALSE
