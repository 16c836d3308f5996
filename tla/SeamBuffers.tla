---------------------------- MODULE SeamBuffers ----------------------------
(***************************************************************************)
(* The other things a task waits on: a stream buffer, with the seam's own  *)
(* instrument for receives that block longer than they asked; the loopback *)
(* serial port of the board and the interrupt forms of the queue calls; a  *)
(* semaphore an interrupt gives, and a recursive mutex.                    *)
(*                                                                         *)
(* A call's n is its block time and its x the size of a buffer, the        *)
(* position of a send or the bytes of a message.                           *)
(***************************************************************************)
EXTENDS SeamTasks, SequencesExt

CONSTANTS
  Cap,        \* bytes a buffer holds
  Trigger,    \* the trigger level of a buffer
  WireLen,    \* places in the port's queue
  StrLen,     \* characters of the C's string
  SemMax,     \* highest count of the semaphore
  MaxDepth,   \* bound: takes of the recursive mutex
  MaxBuffers, \* bound: buffers ever created
  MaxPorts    \* bound: times the port is opened

ASSUME BuffersAssumption ==
  /\ Cap \in Nat \ {0} /\ Trigger \in 1 .. Cap /\ WireLen \in Nat \ {0}
  /\ StrLen \in Nat \ {0} /\ SemMax \in Nat \ {0} /\ MaxDepth \in Nat \ {0}
  /\ MaxBuffers \in Nat \ {0} /\ MaxPorts \in Nat \ {0}

VARIABLES
  buffer,            \* the kernel's buffer: made, live, test, level
  xStreamBuffer,     \* the C's handle to it
  IS_TRIGGER_BUFFER, \* the flag of its slot
  over,              \* callers whose last measured receive was counted in SB_OVERBLOCKS
  late,              \* history: callers whose last measured receive on a buffer
                     \* of the trigger test ended after its deadline
  wire,              \* the port's queue
  PORT,              \* and which it is: every opening of the port makes another
  got,               \* history: the last character of a string off the wire
  sem,               \* the semaphore's count
  holder,            \* the recursive mutex
  depth

streamVars == <<buffer, xStreamBuffer, IS_TRIGGER_BUFFER, over, late>>
wireVars == <<wire, PORT, got>>
lockVars == <<sem, holder, depth>>
bufferVars == <<streamVars, wireVars, lockVars>>

StreamOps == {"sbsend", "sbreceive", "sbdelete", "sbreset"}
WireOps == {"put", "get", "reset"}

(* The kernel asks for the switch when a call below wakes a task that      *)
(* outranks the caller; none of them leaves the CPU on success.            *)
Rouses(who) == k' = Wake(k, who) /\ owed' = (owed \/ \E s \in who : Outranks(k, s))
Blocks(t) == k' = Parked(t) /\ Goto(t, "blocked")

-----------------------------------------------------------------------------
(* The stream buffer.                                                      *)

stream_from_c(p) == p # NULL /\ p = buffer.made /\ buffer.live

(* Made in the kernel, then flagged; the C has the handle only after that. *)
xStreamBufferGenericCreate(t) ==
  /\ Calling(t, "sbcreate")
  /\ \/ /\ ~buffer.live /\ buffer.made < MaxBuffers
        /\ buffer' = [made |-> buffer.made + 1, live |-> TRUE,
                      test |-> call[t].x = "test", level |-> 0]
        /\ Goto(t, "mid")
     \/ /\ ~(~buffer.live /\ buffer.made < MaxBuffers)
        /\ Goto(t, "c")
        /\ UNCHANGED buffer
  /\ UNCHANGED <<k, owed, still, xStreamBuffer, IS_TRIGGER_BUFFER, over, late>>

OnlySets(t) == IS_TRIGGER_BUFFER' = (IS_TRIGGER_BUFFER \/ call[t].x = "test")
Flag(t) == IS_TRIGGER_BUFFER' = (call[t].x = "test")
FlagCreated(t) ==
  /\ At(t, "mid") /\ call[t].op = "sbcreate"
  /\ Flag(t)
  /\ xStreamBuffer' = buffer.made
  /\ Goto(t, "c")
  /\ UNCHANGED <<k, owed, still, buffer, over, late>>

vStreamBufferDelete(t) ==
  /\ Calling(t, "sbdelete")
  /\ buffer' = [buffer EXCEPT !.live = @ /\ ~stream_from_c(call[t].p)]
  /\ Goto(t, "c")
  /\ UNCHANGED <<k, owed, still, xStreamBuffer, IS_TRIGGER_BUFFER, over, late>>

(* The kernel wakes the reader at the trigger level, and a writer at any   *)
(* read.                                                                   *)
Readers(n) == IF n >= Trigger THEN Waits({"sbreceive"}) ELSE {}
Writers == Waits({"sbsend"})

xStreamBufferSend(t) ==
  /\ Looping(t, "sbsend")
  /\ \/ /\ stream_from_c(call[t].p) /\ buffer.level < Cap
        /\ buffer' = [buffer EXCEPT !.level = @ + 1]
        /\ Rouses(Readers(buffer.level + 1))
        /\ Goto(t, "c")
     \/ /\ stream_from_c(call[t].p) /\ buffer.level = Cap /\ ~TimedOut(t)
        /\ Blocks(t)
        /\ UNCHANGED <<owed, buffer>>
     \/ /\ ~stream_from_c(call[t].p) \/ (buffer.level = Cap /\ TimedOut(t))
        /\ Goto(t, "c")
        /\ UNCHANGED <<k, owed, buffer>>
  /\ UNCHANGED <<still, xStreamBuffer, IS_TRIGGER_BUFFER, over, late>>

(* A receive reads the tick count within its first try, and again within   *)
(* the one that succeeds; the difference stays in p.  A receive that polls *)
(* is not measured.                                                        *)
Finds(t) == buffer.level > 0 \/ TimedOut(t)
Attempt(t, kk) ==
  /\ Looping(t, "sbreceive")
  /\ \/ /\ stream_from_c(call[t].p) /\ Finds(t)
        /\ buffer' = [buffer EXCEPT !.level = 0]
        /\ LET who == IF buffer.level > 0 THEN Writers ELSE {} IN
           /\ k' = [Wake(kk, who) EXCEPT !.since[t] = NoWait]
           /\ owed' = (owed \/ \E s \in who : Outranks(k, s))
        /\ IF call[t].n = 0 THEN UNCHANGED <<over, late>>
           ELSE /\ over' = over \ {t}
                /\ late' = IF buffer.test /\ TimedOut(t) THEN late \cup {t} ELSE late \ {t}
        /\ pc' = [pc EXCEPT ![t] = IF call[t].n > 0 THEN "count" ELSE "c"]
        /\ call' = [call EXCEPT ![t] = IF call[t].n > 0 THEN [@ EXCEPT !.p = kk.since[t]]
                                                         ELSE NoCall]
     \/ /\ stream_from_c(call[t].p) /\ ~Finds(t)
        /\ k' = [Parked(t) EXCEPT !.since[t] = IF call[t].n > 0 THEN kk.since[t] ELSE NoWait]
        /\ Goto(t, "blocked")
        /\ UNCHANGED <<owed, buffer, over, late>>
     \/ /\ ~stream_from_c(call[t].p)
        /\ k' = [k EXCEPT !.since[t] = NoWait]
        /\ Goto(t, "c")
        /\ UNCHANGED <<owed, buffer, over, late>>
  /\ UNCHANGED <<still, xStreamBuffer, IS_TRIGGER_BUFFER>>

SampledNow(t) == [k EXCEPT !.since[t] = 0]
SamplesApart(t) ==
  \/ /\ Calling(t, "sbreceive") /\ k.since[t] = NoWait
     /\ k' = SampledNow(t)
     /\ UNCHANGED <<owed, still, pc, call, streamVars>>
  \/ k.since[t] # NoWait /\ Attempt(t, k)
xStreamBufferReceive(t) == Attempt(t, IF pc[t] = "call" THEN SampledNow(t) ELSE k)

(* SB_OVERBLOCKS: a receive on a flagged buffer blocked longer than asked. *)
CountReceive(t) ==
  /\ At(t, "count")
  /\ over' = IF IS_TRIGGER_BUFFER /\ call[t].p > call[t].n THEN over \cup {t} ELSE over
  /\ Goto(t, "c")
  /\ UNCHANGED <<k, owed, still, buffer, xStreamBuffer, IS_TRIGGER_BUFFER, late>>

(* A reset is refused while somebody waits.                                *)
xStreamBufferReset(t) ==
  /\ Calling(t, "sbreset")
  /\ buffer' = [buffer EXCEPT !.level =
       IF stream_from_c(call[t].p) /\ Waits({"sbsend", "sbreceive"}) = {} THEN 0 ELSE @]
  /\ Goto(t, "c")
  /\ UNCHANGED <<k, owed, still, xStreamBuffer, IS_TRIGGER_BUFFER, over, late>>

StreamCall(t) ==
  \/ xStreamBufferGenericCreate(t)
  \/ FlagCreated(t)
  \/ vStreamBufferDelete(t)
  \/ xStreamBufferSend(t)
  \/ xStreamBufferReceive(t)
  \/ CountReceive(t)
  \/ xStreamBufferReset(t)

xStreamBufferSendFromISR(c) ==
  /\ c.op = "isrsbsend" /\ stream_from_c(xStreamBuffer) /\ buffer.level < Cap
  /\ buffer' = [buffer EXCEPT !.level = @ + 1]
  /\ SysTick(Readers(buffer.level + 1))

xStreamBufferReceiveFromISR(c) ==
  /\ c.op = "isrsbreceive" /\ stream_from_c(xStreamBuffer) /\ buffer.level > 0
  /\ buffer' = [buffer EXCEPT !.level = 0]
  /\ SysTick(Writers)

xStreamBufferSendCompletedFromISR(c) ==
  /\ c.op = "isrcompleted" /\ stream_from_c(xStreamBuffer)
  /\ SysTick(Waits({"sbreceive"}))
  /\ UNCHANGED buffer

StreamIsr(c) ==
  /\ \/ xStreamBufferSendFromISR(c)
     \/ xStreamBufferReceiveFromISR(c)
     \/ xStreamBufferSendCompletedFromISR(c)
  /\ UNCHANGED <<xStreamBuffer, IS_TRIGGER_BUFFER, over, late>>

-----------------------------------------------------------------------------
(* The serial port: a queue for a wire.                                    *)

Getters(q) == {s \in Waits({"get"}) : call[s].p = q}
Putters(q) == {s \in Waits({"put"}) : call[s].p = q}

(* A queue, unless the kernel has no room for one.  A call is on the queue *)
(* that was the port's when it came in, and stays with that.               *)
xSerialPortInitMinimal(t) ==
  /\ Calling(t, "open")
  /\ \/ PORT < MaxPorts /\ PORT' = PORT + 1 /\ wire' = <<>> /\ got' = 0
     \/ UNCHANGED wireVars
  /\ Goto(t, "c")
  /\ UNCHANGED <<k, owed, still>>

OnWire(t) == PORT # NULL /\ call[t].p = PORT

(* A call on a queue the port had before finds that in any state: it       *)
(* waits, or it goes through, or it fails.                                 *)
OnOldWire(t, others) ==
  /\ call[t].p # NULL /\ call[t].p # PORT
  /\ \/ ~TimedOut(t) /\ Blocks(t) /\ UNCHANGED owed
     \/ Goto(t, "c") /\ \E who \in {{}} \cup OneOf(others) : Rouses(who)

Room == Len(wire) < WireLen
Other == 0 \* what else is sent; the characters of a string are numbered
Off == got' = (IF Head(wire) = Other THEN got ELSE Head(wire)) /\ wire' = Tail(wire)

xSerialPutChar(t) ==
  /\ Looping(t, "put")
  /\ \/ /\ OnWire(t) /\ Room
        /\ wire' = Append(wire, Other)
        /\ \E who \in OneOf(Getters(PORT)) : Rouses(who)
        /\ Goto(t, "c")
     \/ /\ OnWire(t) /\ ~Room /\ ~TimedOut(t)
        /\ Blocks(t)
        /\ UNCHANGED <<owed, wire>>
     \/ /\ call[t].p = NULL \/ (OnWire(t) /\ ~Room /\ TimedOut(t))
        /\ Goto(t, "c")
        /\ UNCHANGED <<k, owed, wire>>
     \/ OnOldWire(t, Getters(call[t].p)) /\ UNCHANGED wire
  /\ UNCHANGED <<still, PORT, got>>

xSerialGetChar(t) ==
  /\ Looping(t, "get")
  /\ \/ /\ OnWire(t) /\ wire # <<>>
        /\ Off
        /\ \E who \in OneOf(Putters(PORT)) : Rouses(who)
        /\ Goto(t, "c")
     \/ /\ OnWire(t) /\ wire = <<>> /\ ~TimedOut(t)
        /\ Blocks(t)
        /\ UNCHANGED <<owed, wire, got>>
     \/ /\ call[t].p = NULL \/ (OnWire(t) /\ wire = <<>> /\ TimedOut(t))
        /\ Goto(t, "c")
        /\ UNCHANGED <<k, owed, wire, got>>
     \/ OnOldWire(t, Putters(call[t].p)) /\ UNCHANGED <<wire, got>>
  /\ UNCHANGED <<still, PORT>>

(* The characters of a string go one at a time, without a block time, each *)
(* to the queue that is then the port's; p is how many have gone.  A full  *)
(* wire drops the rest.                                                    *)
WireTakes == PORT # NULL /\ Room
KeepsSending(t) == call[t].p + 1 = StrLen
DropsTheRest(t) == call[t].p + 1 = StrLen \/ ~WireTakes
vSerialPutString(t) ==
  /\ Looping(t, "putstring") \/ (At(t, "mid") /\ call[t].op = "putstring")
  /\ \/ /\ WireTakes
        /\ wire' = Append(wire, call[t].p + 1)
        /\ \E who \in OneOf(Getters(PORT)) : Rouses(who)
     \/ ~WireTakes /\ UNCHANGED <<k, owed, wire>>
  /\ IF DropsTheRest(t) THEN Goto(t, "c")
     ELSE /\ pc' = [pc EXCEPT ![t] = "mid"]
          /\ call' = [call EXCEPT ![t].p = @ + 1]
  /\ UNCHANGED <<still, PORT, got>>

(* The wire, reset by the handle its opening gave; a sender waiting for    *)
(* room is woken.                                                          *)
xQueueGenericReset(t) ==
  /\ Calling(t, "reset")
  /\ \/ /\ OnWire(t)
        /\ wire' = <<>> /\ got' = 0
        /\ \E who \in OneOf(Putters(PORT)) : Rouses(who)
     \/ /\ ~OnWire(t)
        /\ \E who \in {{}} \cup OneOf(Putters(call[t].p)) : Rouses(who)
        /\ UNCHANGED <<wire, got>>
  /\ Goto(t, "c")
  /\ UNCHANGED <<still, PORT>>

WireCall(t) ==
  \/ xSerialPortInitMinimal(t)
  \/ xSerialPutChar(t)
  \/ xSerialGetChar(t)
  \/ vSerialPutString(t)
  \/ xQueueGenericReset(t)

(* Every position is decoded; an unknown one is refused, as is an          *)
(* overwrite of a queue of more than one place.                            *)
Placed(x) ==
  CASE x = "back" /\ Room -> {Append(wire, Other)}
    [] x = "front" /\ Room -> {<<Other>> \o wire}
    [] x = "overwrite" /\ WireLen = 1 -> {<<Other>>}
    [] OTHER -> {}
xQueueGenericSendFromISR(c) ==
  /\ c.op = "isrsend" /\ PORT # NULL
  /\ wire' \in Placed(c.x)
  /\ \E who \in OneOf(Getters(PORT)) : SysTick(who)
  /\ UNCHANGED <<PORT, got>>

xQueueReceiveFromISR(c) ==
  /\ c.op = "isrreceive" /\ PORT # NULL /\ wire # <<>>
  /\ Off
  /\ \E who \in OneOf(Putters(PORT)) : SysTick(who)
  /\ UNCHANGED PORT

WireIsr(c) == xQueueGenericSendFromISR(c) \/ xQueueReceiveFromISR(c)

-----------------------------------------------------------------------------
(* The semaphore and the recursive mutex.                                  *)

xQueueSemaphoreTake(t) ==
  /\ Looping(t, "semtake")
  /\ \/ /\ sem > 0
        /\ sem' = sem - 1
        /\ Goto(t, "c")
        /\ UNCHANGED k
     \/ /\ sem = 0 /\ ~TimedOut(t)
        /\ Blocks(t)
        /\ UNCHANGED sem
     \/ /\ sem = 0 /\ TimedOut(t)
        /\ Goto(t, "c")
        /\ UNCHANGED <<k, sem>>
  /\ UNCHANGED <<owed, still, holder, depth>>

xQueueTakeMutexRecursive(t) ==
  /\ Looping(t, "mtake")
  /\ \/ /\ holder \in {t, None} /\ depth < MaxDepth
        /\ holder' = t /\ depth' = depth + 1
        /\ Goto(t, "c")
        /\ UNCHANGED k
     \/ /\ holder \notin {t, None} /\ ~TimedOut(t)
        /\ Blocks(t)
        /\ UNCHANGED <<holder, depth>>
     \/ /\ (holder \notin {t, None} /\ TimedOut(t)) \/ (holder = t /\ depth = MaxDepth)
        /\ Goto(t, "c")
        /\ UNCHANGED <<k, holder, depth>>
  /\ UNCHANGED <<owed, still, sem>>

GivesOnly(t) == Goto(t, "c")
LeavesOnGive(t) == Goto(t, "yield")
xQueueGiveMutexRecursive(t) ==
  /\ Calling(t, "mgive")
  /\ \/ /\ holder = t
        /\ depth' = depth - 1
        /\ holder' = IF depth = 1 THEN None ELSE t
        /\ \E who \in OneOf(IF depth = 1 THEN Waits({"mtake"}) ELSE {}) : k' = Wake(k, who)
        /\ LeavesOnGive(t)
     \/ /\ holder # t
        /\ Goto(t, "c")
        /\ UNCHANGED <<k, holder, depth>>
  /\ UNCHANGED <<owed, still, sem>>

LockCall(t) ==
  \/ xQueueSemaphoreTake(t)
  \/ xQueueTakeMutexRecursive(t)
  \/ xQueueGiveMutexRecursive(t)

xQueueGiveFromISR(c) ==
  /\ c.op = "isrsemgive" /\ sem < SemMax
  /\ sem' = sem + 1
  /\ \E who \in OneOf(Waits({"semtake"})) : SysTick(who)
  /\ UNCHANGED <<holder, depth>>

BufferCall(t) ==
  \/ StreamCall(t) /\ UNCHANGED <<wireVars, lockVars>>
  \/ WireCall(t) /\ UNCHANGED <<streamVars, lockVars>>
  \/ LockCall(t) /\ UNCHANGED <<streamVars, wireVars>>

BufferIsr(c) ==
  \/ StreamIsr(c) /\ UNCHANGED <<wireVars, lockVars>>
  \/ WireIsr(c) /\ UNCHANGED <<streamVars, lockVars>>
  \/ xQueueGiveFromISR(c) /\ UNCHANGED <<streamVars, wireVars>>

BufferInit ==
  /\ buffer = [made |-> 0, live |-> FALSE, test |-> FALSE, level |-> 0]
  /\ xStreamBuffer = NULL /\ IS_TRIGGER_BUFFER = FALSE /\ over = {} /\ late = {}
  /\ wire = <<>> /\ PORT = NULL /\ got = 0
  /\ sem = 0 /\ holder = None /\ depth = 0

-----------------------------------------------------------------------------
(* Properties.                                                             *)

BufferTypeOK ==
  /\ buffer \in [made : 0 .. MaxBuffers, live : BOOLEAN, test : BOOLEAN, level : 0 .. Cap]
  /\ xStreamBuffer \in 0 .. MaxBuffers /\ IS_TRIGGER_BUFFER \in BOOLEAN
  /\ over \subseteq Slots /\ late \subseteq Slots
  /\ wire \in Seq(0 .. StrLen) /\ Len(wire) <= WireLen
  /\ PORT \in 0 .. MaxPorts /\ got \in 0 .. StrLen
  /\ sem \in 0 .. SemMax /\ holder \in Slots \cup {None} /\ depth \in 0 .. MaxDepth

(* xStreamBufferReceive: "an instrument that reproduces the asymmetry it   *)
(* is measuring has to be ruled out".  A receive is counted in             *)
(* SB_OVERBLOCKS only if the kernel's own deadline for it had run out, and *)
(* the buffer was one of the trigger test: neither a tick that lands       *)
(* around the reading of the clock nor the flag of an earlier buffer in    *)
(* the slot makes it count.                                                *)
NoFalseOverblock == over \subseteq late

(* The rule for that: the task that receives makes the buffers.            *)
ReaderOps == {"sbcreate", "sbreceive"}
OneReader == OneCalls(ReaderOps)

(* vSerialPutString: "a full wire drops the rest".  What the receiver gets *)
(* of a string is the beginning of it: no character follows one that was   *)
(* dropped, though room may come back while the string is on its way.  One *)
(* task sends strings; others may put other items on the same wire, and    *)
(* open the port again: the rest of the string then goes over a new wire.  *)
NoGapInString ==
  LET line == <<got>> \o wire IN
  \A i, j \in 1 .. Len(line) :
    (/\ i < j /\ line[i] # Other /\ line[j] # Other
     /\ \A m \in i + 1 .. j - 1 : line[m] = Other)
      => line[j] \in {1, line[i] + 1}

(* The rule an application keeps for that: one of its tasks sends strings, *)
(* and nothing on the wire is overwritten.                                 *)
OneSender ==
  /\ OneCalls({"putstring"})
  /\ \A q \in Programs : \A c \in q.isr : WireLen = 1 /\ c.op = "isrsend" => c.x # "overwrite"
=============================================================================
