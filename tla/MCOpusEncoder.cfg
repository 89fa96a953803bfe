CONSTANTS
    Fs = 48000
    Channels = 2
    Rooms <- SmallRooms
    Wishes <- RateWishes
    Application = "audio"
    Complexity = 10
    Callers <- MCCallers
    Inputs <- MCInputs
    Ctls <- MCCtls
SPECIFICATION MCSpec
INVARIANTS
  HeaderIsFound
  RedundancyIsFound
  CeltHasRoom
  SilenceBounded
  LastsAsAsked
  PacketFits
PROPERTIES
  SaysWhatItDoes
CHECK_DEADLOCK FALSE
