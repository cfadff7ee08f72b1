CONSTANTS
  Pages <- MCPages
  Offsets <- MCOffsets
  Sigs <- MCSigs
  NextSig <- MCNextSig
  StWay = 3
  StSets <- MCStSets
  Tags <- MCTags
  StSetOf <- MCStSetOf
  TagOf <- MCTagOf
  PtWay = 3
  PtSets <- MCPtSets
  PtSetOf <- MCPtSetOf
  CSigMax = 7
  Percents <- MCPercents
  GhrEntries = 2
  Confs <- MCConfs
  Lines <- MCLines
  Quotients <- MCQuotients
  Remainders <- MCRemainders
  QuotientOf <- MCQuotientOf
  RemainderOf <- MCRemainderOf
  CounterMax = 7
  NoLine = 0
  Capacity = 2
  Accepts <- MCAnyAnswer
SPECIFICATION TablesSpec
INVARIANTS TypeOK VictimsFound UniqueTags KeepsMostRecent LookaheadDecays DriftBounded
PROPERTY ForgetsLeastConfident
