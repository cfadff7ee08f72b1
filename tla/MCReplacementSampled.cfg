CONSTANTS
  NumWay = 3
  FreshLru = 7
  Types <- MCTypes
  FieldSize = 16
  PselMax = 3
  BipMax = 2
  Ips = {p, q}
  Regions = {r1, r2, r3}
  SamplerSets = 2
  SamplerWays = 2
  ShctMax = 2
  MaxAge = 3
  Nowhere = Nowhere
  Policies <- OnlyDrrip
SPECIFICATION MCSpec
INVARIANT AlwaysPromotes
