SPECIFICATION MCSpec
CONSTANTS
  Setups <- MCSetups
  Types = {"inactive", "voiced"}
  MaxPackets = 3
  MaxConceals = 1
  Levels = 64
  Down = 4
  Up = 36
  Slack = 16
  Fresh = 10
  Raised <- FewRaised
  Raw <- SomeRaw
  MaxIter = 6
  MaxBits = 20
  Margin = 5
  Bits <- SomeBits
  StillBits = {10, 25}
  Ids = {1, 2, 3}
INVARIANTS
  InStep
  MemoriesAgree
  CopiesOfTheLostPacket
  OneVersionRemains
PROPERTIES
  NeverFurtherApart
  TogetherAfterLoss
CHECK_DEADLOCK FALSE
