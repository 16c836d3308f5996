CONSTANTS
  low = low
  high = high
  Daemon = Daemon
  NoTask = NoTask
  NoHandle = NoHandle
  Slots = {0, 1}
  MaxGen <- Uses
  Handles <- AllHandles
  Clients = {low}
  Prio <- OnePrio
  Kinds <- TwoKinds
  Program <- PairProgram
  CallbackProgram <- StopItself
  IsrProgram <- IsrStart
  EXPIRY_RING = 2
  Wrap = 4
  TIMER_QUEUE_LENGTH = 1
  TICK_RATE_HZ = 2
  MaxLate = 1
SPECIFICATION Spec
INVARIANTS
  TypeOK
  CallbackOwnsItsHandle
  CommandsActAtOnce
PROPERTIES
  OnlyABurstIsLost
  ImplementsFifo
