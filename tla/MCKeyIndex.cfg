SPECIFICATION Spec
CONSTANTS
  k1 = k1
  k2 = k2
  k3 = k3
  k4 = k4
  YX = YX
  YC = YC
  b1 = b1
  b2 = b2
  NoKey = NoKey
  MaxKeys = 3
  MaxSessions = 2
  MaxSaves = 1
  Keys <- MCKeys
  Types <- MCTypes
  Buckets <- MCBuckets
  Hash <- MCHash
  Count <- MCCount
  ZeroType = YX
  Stamps <- MCStamps
SYMMETRY Sym
INVARIANTS
  FindAgrees
  PointsDistinct
  FindsOwnPlaces
