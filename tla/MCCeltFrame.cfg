SPECIFICATION MCSpec
CONSTANTS
  Configs <- MCConfigs
  Sizes <- MCSizes
  CoarseCosts <- FewCosts
  MaxBoosts = 2
  Frames <- MCFrames
  Budgets <- ManyBudgets
  IntensityAt <- MCIntensityAt
INVARIANTS
  FrameInStep
  DivisionAgrees
CHECK_DEADLOCK FALSE
