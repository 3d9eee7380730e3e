SPECIFICATION Spec
CONSTANTS
  pA = pA
  pB = pB
  pC = pC
  r1 = r1
  r2 = r2
  v1 = v1
  v2 = v2
  g1 = g1
  g2 = g2
  None = None
  Points <- MCPoints
  Values <- MCValues
  FirstValues <- MCFirstValues
  Reporters <- MCReporters
  Voters <- MCVoters
  Groups <- MCGroups
  Configs <- MCConfigs
  CountWidth = 3
  MaxGroups = 2
  MaxCalls = 3
SYMMETRY Sym
INVARIANTS
  SteadyPairWins
  CountFollowsGroup
  RunsAreNoticed
  LastEventAgrees
CHECK_DEADLOCK FALSE
