CONSTANTS
  p = p
  c1 = c1
  c2 = c2
  a = a
  b = b
  NoTask = NoTask
  NoCall = NoCall
  Tasks = {p, c1}
  Items = {a, b}
  Prio <- PeerPrio
  Program <- PeerProgram
  IsrProgram <- PeerIsr
  QueueLength = 1
  MaxWait = 2
  MaxPriorities = 3
  SpinLimit = 4
  BlocksInCritical = TRUE
SPECIFICATION FairSpec
INVARIANTS
  DiesOnlySealed
PROPERTIES
  EveryCallReturns
  SelfSealedHangStops
CHECK_DEADLOCK FALSE
