CONSTANTS
  p = p
  c1 = c1
  c2 = c2
  a = a
  b = b
  NoTask = NoTask
  NoCall = NoCall
  Tasks = {p, c1, c2}
  Items = {a, b}
  Prio <- ThreePrio
  Program <- ThreeProgram
  IsrProgram <- ThreeIsr
  QueueLength = 2
  MaxWait = 2
  MaxPriorities = 3
  SpinLimit = 3
  BlocksInCritical = FALSE
SPECIFICATION Spec
INVARIANTS
  TypeOK
  SpinsPaidByWakeups
  NoStrandedWakeup
PROPERTIES
  ImplementsContract
CHECK_DEADLOCK FALSE
