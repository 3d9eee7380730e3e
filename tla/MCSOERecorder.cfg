SPECIFICATION Spec
CONSTANTS
  w1 = w1
  w2 = w2
  r1 = r1
  Blank = Blank
  Torn = Torn
  Capacity = 3
  MaxRecords = 5
  Recorders <- MCOneRecorder
  Readers <- MCReaders
INVARIANTS
  TypeOK
  ReadsInOrder
  LatestIsNewest
PROPERTIES
  KeepsNewest
