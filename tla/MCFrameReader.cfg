SPECIFICATION FairReaderSpec
CONSTANTS
    FRAME_MAX = 2
    HEADER = 2
    FramesMax = 3
    CancelsMax = 1
    Frame <- MCFrame
PROPERTIES
    IsChannel
    TornFrameEnds
CHECK_DEADLOCK FALSE
