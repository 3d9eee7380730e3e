SPECIFICATION BFairSpec
CONSTANTS
  t1 = t1
  t2 = t2
  p1 = p1
  p2 = p2
  kA = kA
  kB = kB
  s1 = s1
  s2 = s2
  NoThread = NoThread
  NoPoint = NoPoint
  NoSample = NoSample
  MaxDebt = 2
  Threads <- MCOneThread
  Points <- MCPoints
  Keys <- MCKeys
  PointOf <- MCPointOf
  Samples <- MCSamples
  Batches <- MCBatches
PROPERTIES
  SetsReturn
CHECK_DEADLOCK FALSE
