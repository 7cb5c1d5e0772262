SPECIFICATION LinkSpec
CONSTANTS
    Byte <- FrameBytes
    Stray <- StrayByte
    MaxSize = 4
    MaxWrite = 3
    MaxMsg = 3
    MaxArgs = 0
    NetSize = 2
    BufferSize = 2
INVARIANTS
    MessagesAreLostWhole
