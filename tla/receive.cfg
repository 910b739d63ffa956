CONSTANTS
    Frames = {f1, f2}
    NoFrame = NoFrame
    RingSize = 3
    MaxScore = 2
    MaxQueue = 3
SPECIFICATION FairSpec
INVARIANT TypeOK
INVARIANT NoStrandedFrames
PROPERTY FifoSpec
PROPERTY FramesHandedOver
CHECK_DEADLOCK FALSE
