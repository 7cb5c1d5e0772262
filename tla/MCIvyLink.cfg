SPECIFICATION LinkSpec
CONSTANTS
    Byte <- FrameBytes
    Stray <- StrayByte
    MaxSize = 6
    MaxWrite = 5
    MaxMsg = 3
    MaxArgs = 3
    NetSize = 3
    BufferSize = 2
INVARIANTS
    LinkTypeOK
    StreamIsKept
    FramesArrive
    CongestionIsTold
PROPERTIES
    EverythingArrives
