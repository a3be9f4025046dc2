SPECIFICATION FairSpec
CONSTANTS
    SizeMin = 4
    SizeMax = 5
    Frames <- AnyFrames
    MaxFrames = 2
    ReplyLens = {1}
    Master = "any"
INVARIANT TypeOK
INVARIANT StackInv
PROPERTY ReplyIntact
PROPERTY ListensAgain
CHECK_DEADLOCK FALSE
