SPECIFICATION MCSpec
CONSTANTS
  Rates <- SomeRates
  MaxRate = 448
  Buffers <- SomeBuffers
  Targets <- SomeTargets
  Headers = {3, 5}
  FreeSizes = {2, 12}
  Ranges <- ManyRanges
  MaxFrames = 3
  MaxLosses = 3
  History = 1024
  MinPeriod = 15
  Found <- SomePitches
  Tapsets = {0, 2}
  Sizes = {1, 2, 4}
  EBands <- SomeBands
  Lm = 1
  Spans <- Six
  ChannelCounts = {1}
  Depth = 2
  FixedPoint = TRUE
INVARIANTS
  FiltersAgree
  FoldsAreSound
PROPERTIES
  KeepsTheContract
  MemoryServes
CHECK_DEADLOCK FALSE
