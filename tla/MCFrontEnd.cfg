CONSTANTS
  Units <- AllUnits
  BranchIps = {1, 2}
  BimodalPrime = 3
  CounterHalf = 2
  GsTableHash <- MCGsTableHash
  GsHistoryLength = 2
  GsHistoryTableSize = 4
  HistoryLength = 2
  NumPerceptrons = 1
  HalfRange = 2
  Theta = 1
  BufferSize = 2
  MaxDepth = 3
  LogTableSize = 1
  HistoryLengths <- MCHistoryLengths
  LowestWeight <- MCLowestWeight
  HighestWeight = 1
  Speed = 2
  InitialTheta = 1
  MaxTheta = 2
  Branches <- MCBranches
  BtbSets = 1
  BtbWays = 2
  RasSize = 2
  CallTrackers = 4
  MaxCallSize = 10
  IndirectSize = 2
  IndirectHash <- MCIndirectHash
  HistoryMask = 2
  MaxCalls = 3
  Program <- MCProgram
  Knobs <- MCKnobs
  NumDestinations = 1
  NumSources = 2
  RegSize = 4
  MaxInstructions = 4
  MaxRecords = 2
  Frequencies <- MCFrequencies
  MaxCycles = 30
  One = 8
  CacheOrder <- MCCacheOrder
  ITLB = "ITLB"
  DTLB = "DTLB"
  L1I = "L1I"
  L1D = "L1D"
  PTW = "PTW"
  Dram = "DRAM"
  Hierarchies <- MCHierarchies
SPECIFICATION FrontEndSpec
INVARIANTS FrontEndTypesOK LearnsBias TrainsOwnPrediction HistoriesAgree
INVARIANTS ReturnsFindTheirCalls ReplacesEarliestUse
INVARIANTS TraceIsWindow KeepsPace WritesSystemInOrder
