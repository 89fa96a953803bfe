CONSTANTS
    MaxByte = 7
    Layouts <- PlainLayouts
    StreamPackets <- MCFramed
    Buffers <- LargeBuffers
    Foreign <- NoForeign
    Cuts = {}
    FrameUnitsAsked = {2, 4}
    Rooms = {2, 4}
    Calls = 1
    Fs = 48000
    Requests <- MCRequests
    Bitrates <- MCBitrates
    FrameSizes <- MCFrameSizes
    Parts = {"streams"}
SPECIFICATION MCSpec
INVARIANT StreamsArrive
CHECK_DEADLOCK FALSE
