CONSTANTS
  Pages <- MCPages
  Offsets <- MCOffsets
  Sigs <- MCSigs
  NextSig <- MCNextSig
  StWay = 2
  StSets <- MCStSets
  Tags <- MCTags
  StSetOf <- MCStSetOf
  TagOf <- MCTagOf
  PtWay = 2
  PtSets <- MCPtSets
  PtSetOf <- MCPtSetOf
  CSigMax = 7
  Percents <- MCPercents
  GhrEntries = 2
  Confs <- MCConfs
  Lines <- MCLines
  Quotients <- MCQuotients
  Remainders <- MCRemainders
  QuotientOf <- MCQuotientOf
  RemainderOf <- MCRemainderOf
  CounterMax = 31
  NoLine <- MCNoLine
  Capacity = 2
  Accepts <- MCAnyAnswer
  PfThreshold = 25
  FillThreshold = 60
  MshrSize = 9
  Decisions <- MCAlwaysTaken
  MaxAccesses = 12
  MaxJumps = 0
  MaxInflight = 0
SPECIFICATION WalkSpec
INVARIANT ValidMeansPrefetched
CHECK_DEADLOCK FALSE
