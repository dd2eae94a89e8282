SPECIFICATION FairSpec
CONSTANTS
  p1 = p1  p2 = p2  light = light  color = color  general = general
  Processes = {p1, p2}
  Dimensions = {light, color}
  ChunkDim <- MCChunkDim
  BatchSize = 2
  CandidateK = 2
  FinalMax = 3
  MaxPlanAttempts = 2
  RerankRetries = 1
  Plans <- MCPlans
  Limits = {1, 2}
  Tokens <- MCTokens
INVARIANTS
  ServesWholeCorpus
  MergeIsFair
  EveryDimensionInContext
  PlacesAreUsedUp
  OnlyProvidersFail
  UsageAddsUp
PROPERTY AnalysisEnds
CHECK_DEADLOCK FALSE
