SPECIFICATION Spec
CONSTANTS
  auto1 = auto1
  caller = caller
  Autosaver = auto1
  Callers <- MCCallers
  Backups <- MCBackups
  MaxSets = 1
  MaxBeats = 1
  MaxEvents = 3
  None = None
  Snap = Snap
  Target = Target
  Temp = Temp
  Absent = Absent
INVARIANTS
  TypeOK
  RestoredWasSaved
  TargetWhole
  OnlyBeatsSpoil
PROPERTIES
  AutosaveGoesOn
CHECK_DEADLOCK FALSE
