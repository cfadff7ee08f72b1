CONSTANTS
  Pages <- MCPages
  Offsets <- MCOffsets
  Sigs <- MCSigs
  NextSig <- MCNextSig
  StWay = 2
  StSets <- MCStSets
  Tags <- MCTags
  StSetOf <- MCStSetOf
  TagOf <- MCTagOf
  PtWay = 2
  PtSets <- MCPtSets
  PtSetOf <- MCPtSetOf
  CSigMax = 7
  Percents <- MCPercents
  GhrEntries = 1
  Confs <- MCConfs
  Lines <- MCLines
  Quotients <- MCQuotients
  Remainders <- MCRemainders
  QuotientOf <- MCQuotientOf
  RemainderOf <- MCRemainderOf
  CounterMax = 3
  NoLine <- MCNoLine
  Capacity = 2
  Accepts <- MCAlwaysTaken
  PfThreshold = 25
  FillThreshold = 60
  MshrSize = 9
  Decisions <- MCAlwaysTaken
  MaxAccesses = 20
  MaxJumps = 0
  MaxInflight = 0
SPECIFICATION WalkSpec
INVARIANT RegisterNeverAborts
CHECK_DEADLOCK FALSE
