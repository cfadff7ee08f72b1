CONSTANTS
  Units <- OnlyStride
  Keys <- MCKeys
  Tables <- MCTables
  Slots <- MCSlots
  SlotOf <- MCSlotOf
  HalfRange = 2
  Bias = 0
  Threshold = 0
  Lines <- MCLines
  NoLine = 0
  RingSize = 2
  Rebounds <- MCRebounds
  AheadIps = {1}
  AheadStrides <- MCStrides
  AheadDegree = 2
  BlocksPerPage = 3
  VirtualPrefetch = FALSE
  Features <- MCFeatures
  BiasTable = 2
  Accesses <- MCAccesses
  BlockSize = 2
  PageSize = 8
  Degree = 3
  TrackerSets = 2
  TrackerWays = 2
  Kinds <- OnlyIpStride
  AmpmLines <- MCAmpmLines
  RegionCount = 3
  MaxDistance = 2
  AmpmDegree = 1
  AmpmPageBlocks = 2
  KpcpPages <- MCPages
  KpcpTag <- MCTag
  KpcpBlocks = 4
  KpcpStWay = 2
  KpcpPtWay = 2
  KpcpPtPrime = 3
  KpcpSigs <- MCKpcpSigs
  SigHash <- MCSigHash
  SigMask <- MCSigMask
  CMax = 4
  KpcpMshrSize = 3
  KpcpPfThreshold = 30
  KpcpFillThreshold = 60
  KpcpCounterMax = 3
  KpcpConfCap = 80
  MaxAccesses = 12
  MaxJumps = 1
  MaxResident = 2
SPECIFICATION MCSpec
INVARIANT OnPageOfAccess
