SPECIFICATION FairSpec
CONSTANTS
  c1 = c1
  c2 = c2
  NoClient = NoClient
  NoSlot = NoSlot
  Timeout = 1
  Wrap = 3
  Ahead = 1
  MaxRestores = 1
  Overwritten = Overwritten
  Clients <- MCClients
  Monitors <- MCMonitors
  Cleaners <- MCCleaners
  Mortal <- MCMortal
  Slots <- MCSlots
  Snapshots <- MCSnapshots
INVARIANTS
  TypeOK
  OwnersKept
  CountIsActive
PROPERTIES
  DeathsReported
  SlotsReclaimed
