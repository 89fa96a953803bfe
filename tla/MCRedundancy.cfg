SPECIFICATION MCSpec
CONSTANTS
  DetectSize = 26
  Packets = {1, 8, 24}
  Several <- SomeSeveral
  MaxLag = 136
  Latents = 6
  Memory = 48
  DredSizes = {160, 640}
  Delays = {64}
  Chunks = {3}
  Fits = {2}
  Changes = 2
  Indexes = {1}
  Sizes = {4, 8}
  Gaps = {8, 16}
  Offsets <- SomeOffsets
  Counts = {0, 1, 3}
INVARIANTS
  JudgedByItsOwn
  RedundancyIsTrue
  GapIsFilled
