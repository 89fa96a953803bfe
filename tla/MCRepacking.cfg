CONSTANTS
    MaxByte = 7
    LongId = 5
    MaxId = 6
    Room = 16
    MaxHeld = 2
    MaxGathered = 10
    MaxExtensions = 2
    Received <- MCReceived
    Added <- MCAdded
    Lengths <- MCLengths
SPECIFICATION Spec
INVARIANTS
  CarriesTheFrames
  FormsAreInterchangeable
CHECK_DEADLOCK FALSE
