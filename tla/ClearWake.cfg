CONSTANTS
  TASKS = 6
  MaxPrio = 4
  MaxWait = 2
  MaxGen = 2
  MaxMissed = 2
  MAX_TASKS = 8
  TIMER_TASK_PRIORITY = 3
  NoCall = NoCall
  NoFunc = NoFunc
  Functions <- MCFunctions
  Code <- MCCode
  Programs <- MCPrograms
  Width = 3
  Notified = 2
  Bits = {"a", "b"}
  BitsOf <- MCBitsOf
  CmdLen = 2
  MaxGroups = 2
  Cap = 2
  Trigger = 2
  WireLen = 2
  StrLen = 3
  SemMax = 1
  MaxDepth = 2
  MaxBuffers = 2
  MaxPorts = 2
SPECIFICATION Spec
INVARIANTS
  EveryWakeIsActedOn
