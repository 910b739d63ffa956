CONSTANTS
    Frames = {f1, f2, long}
    NoFrame = NoFrame
    TooLong = {long}
    MaxQueue = 3
SPECIFICATION FairSpec
PROPERTY FifoSpec
PROPERTY FramesSent
CHECK_DEADLOCK FALSE
