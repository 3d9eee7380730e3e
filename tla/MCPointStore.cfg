SPECIFICATION FairSpec
CONSTANTS
  t1 = t1
  t2 = t2
  p1 = p1
  p2 = p2
  kA = kA
  kB = kB
  s1 = s1
  s2 = s2
  NoThread = NoThread
  NoPoint = NoPoint
  NoSample = NoSample
  Threads <- MCThreads
  Points <- MCPoints
  Keys <- MCKeys
  PointOf <- MCPointOf
  Samples <- MCSamples
INVARIANTS
  TypeOK
  LockAccounted
  WriterAlone
PROPERTIES
  GetsReturn
  AtomicSpec
