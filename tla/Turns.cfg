SPECIFICATION FairSpec
CONSTANTS
  i0 = i0
  i1 = i1
  lo = lo
  hi = hi
  Tasks <- MCTasks
  Idle <- MCIdle
  Prio <- MCPrio
INVARIANTS
  TypeOK
  PassIsFresh
  NoSwitchLost
PROPERTIES
  OwedTakenOnTurn
  LockKeepsTheThread
  TurnsComeRound
  AskedIsTaken
