CONSTANTS
  low = low
  high = high
  Daemon = Daemon
  NoTask = NoTask
  NoHandle = NoHandle
  Slots = {0}
  MaxGen <- OneSlotOnce
  Handles <- AllHandles
  Clients = {low, high}
  Prio <- BothPrio
  Kinds <- TwoKinds
  Program <- FullProgram
  CallbackProgram <- StopItself
  IsrProgram <- IsrStart
  EXPIRY_RING = 2
  Wrap = 4
  TIMER_QUEUE_LENGTH = 1
  TICK_RATE_HZ = 2
  MaxLate = 1
SPECIFICATION Spec
INVARIANT
  ParkedCallersLeave
