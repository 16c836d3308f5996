CONSTANTS
  p = p
  c1 = c1
  c2 = c2
  a = a
  b = b
  NoTask = NoTask
  NoCall = NoCall
  Tasks = {p, c1, c2}
  Items = {a}
  Prio <- RacePrio
  Program <- RaceProgram
  IsrProgram = {}
  QueueLength = 1
  MaxWait = 6
  MaxPriorities = 3
  SpinLimit = 3
  BlocksInCritical = FALSE
SPECIFICATION Spec
INVARIANTS
  DeathMeansSpinning
CHECK_DEADLOCK FALSE
