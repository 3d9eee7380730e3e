SPECIFICATION Spec
CONSTANTS
  p1 = p1
  p2 = p2
  p3 = p3
  YC = YC
  DZ = DZ
  Procs <- MCProcs
  Types <- MCTypes
  Indexed <- MCIndexed
  MayFail <- MCMayFail
  MaxSegments = 2
  None = None
SYMMETRY Sym
INVARIANTS
  TypeOK
  NameFindsYoungest
  LastRestoreWins
PROPERTIES
  NeverWiped
CHECK_DEADLOCK FALSE
