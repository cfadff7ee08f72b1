CONSTANTS
  Pages <- MCPages
  Offsets <- MCOffsets
  Sigs <- MCSigs
  NextSig <- MCNextSig
  StWay = 2
  StSets <- MCStSets
  Tags <- MCTags
  StSetOf <- MCStSetOf
  TagOf <- MCTagOf
  PtWay = 2
  PtSets <- MCPtSets
  PtSetOf <- MCPtSetOf
  CSigMax = 7
  Percents <- MCPercents
  GhrEntries = 2
  Confs <- MCConfs
  Lines <- MCLines
  Quotients <- MCQuotients
  Remainders <- MCRemainders
  QuotientOf <- MCQuotientOf
  RemainderOf <- MCRemainderOf
  CounterMax = 31
  NoLine <- MCNoLine
  Capacity = 2
  Accepts <- MCAlwaysTaken
  PfThreshold = 25
  FillThreshold = 60
  MshrSize = 9
  Decisions <- MCAnyAnswer
  MaxAccesses = 11
  MaxJumps = 1
  MaxInflight = 0
SPECIFICATION WalkSpec
INVARIANTS QueueInBounds ValidMeansPrefetched
PROPERTIES UsesPatternTable AccessReturns
CHECK_DEADLOCK FALSE
