SPECIFICATION RecordingSpec
CONSTANTS
  w1 = w1
  w2 = w2
  r1 = r1
  Blank = Blank
  Torn = Torn
  Capacity = 3
  MaxRecords = 3
  Recorders <- MCTwoRecorders
  Readers <- MCNoReaders
INVARIANTS
  RecordsAccounted
CHECK_DEADLOCK FALSE
