CONSTANTS
    MaxByte = 7
    Layouts <- MCLayouts
    StreamPackets <- MCPackets
    Buffers <- MCBuffers
    Foreign <- MCForeign
    Cuts = {3, 6}
    FrameUnitsAsked = {2, 4}
    Rooms = {2, 3, 4}
    Calls = 2
    Fs = 48000
    Requests <- MCRequests
    Bitrates <- MCBitrates
    FrameSizes <- MCFrameSizes
    Parts = {"streams", "rates", "padding"}
SPECIFICATION MCSpec
INVARIANTS
  StreamsArrive
  StreamsInStep
  ChannelsInPlace
  RateIsShared
PROPERTIES
  CarriesTheStreams
CHECK_DEADLOCK FALSE
