SPECIFICATION Spec
CONSTANTS
  p1 = p1
  p2 = p2
  s1 = s1
  s2 = s2
  a1 = a1
  a2 = a2
  Unfilled = Unfilled
  Nothing = Nothing
  Capacity = 3
  Publishers <- MCPublishers
  Subscribers <- MCSubscribers
  Waiters <- MCWaiters
  Addresses <- MCAddresses
  Mapped <- MCTwoProcesses
  Mortal <- MCNoMortal
INVARIANTS
  OwnAddresses
