CONSTANTS
    LongId = 5
    MaxId = 6
    Lace = 2
    Room = 100
    MaxFrames = 3
    MaxExtensions = 3
    MaxBytes = 4
    Written <- MCWritten
    Raw <- MCRaw
SPECIFICATION Spec
INVARIANTS
  RoundTrip
  AnyBytesAreRead
PROPERTIES
  WalkEnds
