SPECIFICATION Spec
CONSTANTS
  Requests = {1, 2, 3, 5, 8, 11, 14, 16, 24, 28}
  MaxFrames = 2
INVARIANTS
  NoStaleAudio
  NoMissingBands
  SwitchesHidden
PROPERTIES
  RedundancyCarriesOver
  KeepsPromise
