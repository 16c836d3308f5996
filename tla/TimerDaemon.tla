---------------------------- MODULE TimerDaemon ----------------------------
(***************************************************************************)
(* Software timers: the C's calls that create, command and name them, the  *)
(* timer daemon task, and the ring of expiries between the kernel's hook   *)
(* and the C's callbacks (seam/abi.rs and timer_daemon in both cells).     *)
(*                                                                         *)
(* Time is relative: a timer keeps how many ticks it has left, at most 0   *)
(* once it is due.  The kernel's timer list, its command queue and its     *)
(* scheduler are modelled from how the seam uses them, and marked external *)
(* in the map; the 2^32-tick wrap of the kernel's clock is left out.       *)
(***************************************************************************)
EXTENDS Integers, Sequences, ExpiryRing

CONSTANTS
  Slots,          \* the kernel's timer slots, TIMERS of them
  MaxGen,         \* bound, per slot: how often it is used
  Kinds,          \* what xTimerCreate may be asked for: period, reload, callback
  Clients,        \* the C tasks
  Daemon,         \* the timer daemon's task
  NoTask,         \* the idle task
  Prio,           \* priorities, all different
  TIMER_QUEUE_LENGTH,
  TICK_RATE_HZ,   \* the daemon's wait when no timer is active
  MaxLate,        \* bound: no tick comes while the daemon is ready and this late
  Program,        \* per client: the commands it may send, each with a block time
  CallbackProgram,  \* the commands a callback may send about its own timer
  IsrProgram        \* the commands an interrupt half may send

Ops == {"start", "reset", "stop", "change_period", "delete"}
(* A command the C sends, and a period of 0 is none: timers.h requires it. *)
Posts == {p \in [op : Ops, value : Nat, ticks : Nat] :
            p.op = "change_period" => p.value # 0}
Procs == Clients \cup {Daemon}

ASSUME TimerAssumption ==
  /\ MaxGen \in [Slots -> Nat]
  /\ Handles = UNION {[slot : {s}, gen : 1 .. MaxGen[s]] : s \in Slots}
  /\ \A k \in Kinds : /\ k.period \in Nat \ {0}
                      /\ k.reload \in BOOLEAN /\ k.callback \in BOOLEAN
  /\ Daemon \notin Clients /\ NoTask \notin Procs
  /\ Prio \in [Procs -> Nat] /\ \A t, u \in Procs : Prio[t] = Prio[u] => t = u
  /\ TIMER_QUEUE_LENGTH \in Nat \ {0} /\ TICK_RATE_HZ \in Nat \ {0} /\ MaxLate \in Nat
  /\ Program \in [Clients -> SUBSET Posts]
  /\ CallbackProgram \subseteq Posts /\ IsrProgram \subseteq Posts
  /\ \A p \in CallbackProgram : p.ticks = 0
  /\ \A p \in IsrProgram : p.op # "delete"

VARIABLES
  \* the kernel and the port
  timers,    \* per slot: generation, live, active, ticks left, period, reload
  commands,  \* the timer command queue
  parked,    \* per task: what it waits for, or "no"
  deadline,  \* ticks left of the daemon's wait on the command queue, or NoWait
  running, owed,
  \* the seam
  TIMER_CALLBACKS,  \* per slot: the timer whose callback is stored
  TIMER_NAMES,      \* per slot: the timer whose name is stored
  creating,  \* per client: the timer xTimerCreate has made and not yet recorded
  at,        \* where in its loop the daemon is
  serving,   \* the handle the callback gets
  callback,  \* the timer whose callback function is run
  late,      \* ticks since the daemon sampled the time
  wait       \* how long it will wait for a command

kernelVars == <<timers, commands, parked, deadline>>
daemonVars == <<at, serving, callback, late, wait>>
tableVars == <<TIMER_CALLBACKS, TIMER_NAMES, creating>>
vars == <<ringVars, kernelVars, running, owed, daemonVars, tableVars>>

NoWait == -1
Places == {"drain", "callback", "due", "process", "wait", "command", "yield"}

-----------------------------------------------------------------------------
(* The scheduler: strict priorities.                                       *)

Ready(t) == parked[t] = "no"
Outranks(t) == running = NoTask \/ Prio[t] > Prio[running]
CanRun(t) == running = t /\ ~owed

pick_next ==
  /\ owed
  /\ owed' = FALSE
  /\ \/ /\ \A t \in Procs : ~Ready(t)
        /\ running' = NoTask
     \/ \E t \in Procs :
          /\ Ready(t) /\ \A u \in Procs : Ready(u) => Prio[u] <= Prio[t]
          /\ running' = t
  /\ UNCHANGED <<ringVars, kernelVars, daemonVars, tableVars>>

-----------------------------------------------------------------------------
(* The kernel's timers.                                                    *)

Valid(h) == timers[h.slot].live /\ timers[h.slot].gen = h.gen
HandleOf(s) == [slot |-> s, gen |-> timers[s].gen]
Active == {s \in Slots : timers[s].active}
Soonest == {s \in Active : \A u \in Active : timers[s].left <= timers[u].left}

Unused(gen) == [gen |-> gen, live |-> FALSE, active |-> FALSE, left |-> 0,
                period |-> 1, reload |-> FALSE, callback |-> FALSE]

(* How many periods are over for a timer with that much left, itself the   *)
(* first; a timer that does not reload expires once.                       *)
Missed(timer, left) == IF timer.reload THEN (-left) \div timer.period + 1 ELSE 1

(* Slot s expires: one hook call per period that is over, and a reload     *)
(* timer goes on from the last of them.                                    *)
Expire(s, timer, left) ==
  LET n == Missed(timer, left)
  IN  /\ note_timer_expiry(HandleOf(s), n)
      /\ timers' = [timers EXCEPT ![s] =
           [timer EXCEPT !.active = timer.reload,
                         !.left = IF timer.reload THEN timer.left + n * timer.period ELSE 0]]

(* A command the daemon takes off the queue.  A period counts from when    *)
(* the command was sent; how long ago that was is left open.               *)
Begin(s, period) ==
  \E age \in 0 .. MaxLate :
    LET timer == [timers[s] EXCEPT !.active = TRUE, !.period = period, !.left = period - age]
    IN  IF timer.left > 0
          THEN timers' = [timers EXCEPT ![s] = timer] /\ UNCHANGED ringVars
          ELSE Expire(s, timer, timer.left)

Obey(c) ==
  LET s == c.timer.slot IN
  \/ /\ ~Valid(c.timer)
     /\ UNCHANGED <<timers, ringVars>>
  \/ /\ Valid(c.timer) /\ c.op \in {"start", "reset"}
     /\ Begin(s, timers[s].period)
  \/ /\ Valid(c.timer) /\ c.op = "change_period"
     /\ Begin(s, c.value)
  \/ /\ Valid(c.timer) /\ c.op = "stop"
     /\ timers' = [timers EXCEPT ![s] = [@ EXCEPT !.active = FALSE, !.left = 0]]
     /\ UNCHANGED ringVars
  \/ /\ Valid(c.timer) /\ c.op = "delete"
     /\ timers' = [timers EXCEPT ![s] = Unused(timers[s].gen)]
     /\ UNCHANGED ringVars

(* A command is put on the queue: the daemon is woken if it waits there.   *)
Put(c) ==
  /\ Len(commands) < TIMER_QUEUE_LENGTH
  /\ commands' = Append(commands, c)

DaemonWaits == parked[Daemon] = "receive"

-----------------------------------------------------------------------------
(* The C's calls.                                                          *)

(* The handles the C holds, those of deleted timers included.              *)
Known == {h \in Handles : h.gen <= timers[h.slot].gen /\ \A c \in Clients : creating[c] # h}

(* xTimerCreate, up to the kernel's answer.                                *)
xTimerCreate(c) ==
  /\ CanRun(c) /\ creating[c] = NoHandle
  /\ \E s \in Slots : \E k \in Kinds :
       /\ ~timers[s].live /\ timers[s].gen < MaxGen[s]
       /\ timers' = [timers EXCEPT ![s] =
            [gen |-> @.gen + 1, live |-> TRUE, active |-> FALSE, left |-> 0,
             period |-> k.period, reload |-> k.reload, callback |-> k.callback]]
       /\ creating' = [creating EXCEPT ![c] = [slot |-> s, gen |-> timers[s].gen + 1]]
  /\ UNCHANGED <<ringVars, commands, parked, deadline, running, owed, daemonVars,
                 TIMER_CALLBACKS, TIMER_NAMES>>

(* ...and from there to its return: the callback, then the name.           *)
Remember(c) ==
  LET h == creating[c] IN
  /\ CanRun(c) /\ h # NoHandle
  /\ TIMER_CALLBACKS' = [TIMER_CALLBACKS EXCEPT ![h.slot] =
                           IF timers[h.slot].callback THEN h ELSE NoHandle]
  /\ TIMER_NAMES' = [TIMER_NAMES EXCEPT ![h.slot] = h]
  /\ creating' = [creating EXCEPT ![c] = NoHandle]
  /\ UNCHANGED <<ringVars, kernelVars, running, owed, daemonVars>>

(* What posting does to the daemon: it is woken if it waits on the queue,  *)
(* and takes the CPU if it outranks the caller.                            *)
WakeDaemon ==
  IF DaemonWaits
    THEN /\ parked' = [parked EXCEPT ![Daemon] = "no"]
         /\ owed' = (owed \/ Outranks(Daemon))
    ELSE UNCHANGED <<parked, owed>>

(* xTimerGenericCommandFromTask: one kernel call.  Anything but a queued    *)
(* command is pdFAIL, Blocked included, which with a block time has parked *)
(* the caller.                                                             *)
xTimerGenericCommandFromTask(t, h, p) ==
  \/ /\ Valid(h)
     /\ Put([op |-> p.op, value |-> p.value, timer |-> h])
     /\ WakeDaemon
  \/ /\ Valid(h) /\ Len(commands) = TIMER_QUEUE_LENGTH
     /\ parked' = IF p.ticks = 0 THEN parked ELSE [parked EXCEPT ![t] = "send"]
     /\ UNCHANGED <<commands, owed>>
  \/ /\ ~Valid(h)
     /\ UNCHANGED <<commands, parked, owed>>

Command(c) ==
  /\ CanRun(c) /\ creating[c] = NoHandle
  /\ \E h \in Known : \E p \in Program[c] : xTimerGenericCommandFromTask(c, h, p)
  /\ UNCHANGED <<ringVars, timers, deadline, running, daemonVars, tableVars>>

(* pcTimerGetName, an observation: whose name the C gets for a handle.     *)
pcTimerGetName(h) == TIMER_NAMES[h.slot]

(* vTaskDelay, or anything else that parks the caller and yields.          *)
vTaskDelay(c) ==
  /\ CanRun(c) /\ creating[c] = NoHandle
  /\ parked' = [parked EXCEPT ![c] = "sleep"]
  /\ owed' = TRUE
  /\ UNCHANGED <<ringVars, timers, commands, deadline, running, daemonVars, tableVars>>

-----------------------------------------------------------------------------
(* The daemon's loop, one action per kernel call.                          *)

(* Where the loop goes after a callback returned, after an expiry and      *)
(* after a command.                                                        *)
DueNext == "due"
WaitNext == "wait"
AfterCallback == "drain"
AfterExpiry == "drain"
AfterCommand == "drain"

(* drain_timer_expiries: take the oldest expiry off the ring and look its  *)
(* callback up by the slot; a slot without one is skipped.                 *)
drain_timer_expiries ==
  /\ CanRun(Daemon) /\ at = "drain"
  /\ \/ /\ RingEmpty
        /\ at' = "due"
        /\ serving' = NoHandle
        /\ UNCHANGED <<ringVars, callback>>
     \/ /\ TakeOldest
        /\ serving' = Oldest
        /\ callback' = TIMER_CALLBACKS[Oldest.slot]
        /\ at' = IF callback' = NoHandle THEN "drain" ELSE "callback"
  /\ UNCHANGED <<kernelVars, running, owed, late, wait, tableVars>>

(* The C's callback runs, with the handle, and may command its timer.      *)
RunCallback ==
  /\ CanRun(Daemon) /\ at = "callback"
  /\ at' = AfterCallback
  /\ callback' = NoHandle
  /\ \/ UNCHANGED <<commands, parked, owed>>
     \/ \E p \in CallbackProgram : xTimerGenericCommandFromTask(Daemon, serving, p)
  /\ UNCHANGED <<ringVars, timers, deadline, running, serving, late, wait, tableVars>>

(* Is a timer due?  Answered with the scheduler suspended, in one call.    *)
SampleTime ==
  /\ CanRun(Daemon) /\ at = "due"
  /\ at' = IF \E s \in Active : timers[s].left <= 0 THEN "process" ELSE "wait"
  /\ late' = 0
  /\ UNCHANGED <<ringVars, kernelVars, running, owed, serving, callback, wait, tableVars>>

(* process_expired_timer, at the time sampled.                             *)
process_expired_timer ==
  /\ CanRun(Daemon) /\ at = "process"
  /\ \E s \in Soonest : Expire(s, timers[s], timers[s].left + late)
  /\ at' = AfterExpiry
  /\ late' = 0
  /\ UNCHANGED <<commands, parked, deadline, running, owed, serving, callback, wait, tableVars>>

(* How long to wait for a command: until the next expiry, and never for    *)
(* ever.                                                                   *)
WaitForEver == NoWait
NextExpiry ==
  IF Active = {} THEN TICK_RATE_HZ
  ELSE LET left == timers[CHOOSE s \in Soonest : TRUE].left
       IN  IF left > 0 THEN left ELSE 0

ComputeWait ==
  /\ CanRun(Daemon) /\ at = "wait"
  /\ wait' = NextExpiry
  /\ at' = "command"
  /\ UNCHANGED <<ringVars, kernelVars, running, owed, serving, callback, late, tableVars>>

(* Where the daemon waits: on the command queue, so that a post wakes it.  *)
BesideTheQueue == [parked EXCEPT ![Daemon] = "sleep"]
OnTheQueue == [parked EXCEPT ![Daemon] = "receive"]

(* Taking a command wakes one task that waits to send one.                 *)
WakeSender ==
  \/ /\ \A c \in Clients : parked[c] # "send"
     /\ UNCHANGED <<parked, owed>>
  \/ \E c \in Clients :
       /\ parked[c] = "send"
       /\ parked' = [parked EXCEPT ![c] = "no"]
       /\ owed' = (owed \/ Outranks(c))

process_one_timer_command ==
  /\ CanRun(Daemon) /\ at = "command"
  /\ \/ /\ commands # <<>>                          \* Ready(true)
        /\ Obey(Head(commands))
        /\ commands' = Tail(commands)
        /\ WakeSender
        /\ deadline' = NoWait
        /\ at' = AfterCommand
     \/ /\ commands = <<>> /\ deadline # 0 /\ wait # 0  \* Blocked
        /\ parked' = OnTheQueue
        /\ deadline' = IF deadline = NoWait THEN wait ELSE deadline
        /\ at' = "yield"
        /\ UNCHANGED <<ringVars, timers, commands, owed>>
     \/ /\ commands = <<>> /\ (deadline = 0 \/ wait = 0)  \* nothing came
        /\ deadline' = NoWait
        /\ at' = "yield"
        /\ UNCHANGED <<ringVars, timers, commands, parked, owed>>
  /\ wait' = 0
  /\ UNCHANGED <<running, serving, callback, late, tableVars>>

yield_now ==
  /\ CanRun(Daemon) /\ at = "yield"
  /\ owed' = TRUE
  /\ at' = "drain"
  /\ UNCHANGED <<ringVars, kernelVars, running, serving, callback, late, wait, tableVars>>

-----------------------------------------------------------------------------
(* The tick: time passes for the timers and the waits; sleepers whose time *)
(* has come wake; an interrupt half may command a timer.                   *)

(* A wait computed just before a tick makes the daemon sleep through a     *)
(* timer's tick, by as much as it was late.  Further than this a timer's   *)
(* lateness is not counted.                                                *)
MaxOverdue == MaxLate + TICK_RATE_HZ

Passed(left) == IF left > -MaxOverdue THEN left - 1 ELSE left
OverdueBy(n) == \E s \in Active : timers[s].left <= -n

on_tick ==
  /\ Ready(Daemon) => ~OverdueBy(MaxLate) /\ late < MaxLate
  /\ timers' = [s \in Slots |->
       IF timers[s].active THEN [timers[s] EXCEPT !.left = Passed(@)] ELSE timers[s]]
  /\ late' = IF at = "process" THEN late + 1 ELSE late
  /\ deadline' = IF deadline > 0 THEN deadline - 1 ELSE deadline
  /\ \E woken \in SUBSET {c \in Clients : ~Ready(c)} :
       \E posted \in BOOLEAN :
         LET wakes == woken \cup (IF ~Ready(Daemon) /\ (deadline = 1 \/ (posted /\ DaemonWaits))
                                  THEN {Daemon} ELSE {})
         IN  /\ \/ ~posted /\ UNCHANGED commands
                \/ /\ posted
                   /\ \E h \in Known : \E p \in IsrProgram :
                        /\ Valid(h)
                        /\ Put([op |-> p.op, value |-> p.value, timer |-> h])
             /\ parked' = [t \in Procs |-> IF t \in wakes THEN "no" ELSE parked[t]]
             /\ owed' = (owed \/ \E t \in wakes : Outranks(t))
  /\ UNCHANGED <<ringVars, running, at, serving, callback, wait, tableVars>>

-----------------------------------------------------------------------------
Init ==
  /\ RingInit
  /\ timers = [s \in Slots |-> Unused(0)]
  /\ commands = <<>>
  /\ parked = [t \in Procs |-> "no"]
  /\ deadline = NoWait
  /\ running \in {t \in Procs : \A u \in Procs : Prio[u] <= Prio[t]}
  /\ owed = FALSE
  /\ TIMER_CALLBACKS = [s \in Slots |-> NoHandle]
  /\ TIMER_NAMES = [s \in Slots |-> NoHandle]
  /\ creating = [c \in Clients |-> NoHandle]
  /\ at = "drain"
  /\ serving = NoHandle
  /\ callback = NoHandle
  /\ late = 0
  /\ wait = 0

timer_daemon ==
  \/ drain_timer_expiries
  \/ RunCallback
  \/ SampleTime
  \/ process_expired_timer
  \/ ComputeWait
  \/ process_one_timer_command
  \/ yield_now

Client(c) ==
  \/ xTimerCreate(c)
  \/ Remember(c)
  \/ Command(c)
  \/ vTaskDelay(c)

Next ==
  \/ \E c \in Clients : Client(c)
  \/ timer_daemon
  \/ pick_next
  \/ on_tick

Spec == Init /\ [][Next]_vars

(* The daemon gets on whenever it has the CPU, a switch that is owed       *)
(* happens, ticks come, and the tasks above the daemon leave it time: it   *)
(* is not kept ready and off the CPU for ever, which no scheduler of       *)
(* strict priorities can promise by itself.                                *)
Fairness ==
  /\ SF_vars(timer_daemon)
  /\ WF_vars(pick_next)
  /\ SF_vars(on_tick)
  /\ []<>(Ready(Daemon) => CanRun(Daemon))

FairSpec == Spec /\ Fairness

-----------------------------------------------------------------------------
(* Properties.                                                             *)

TimerRecords ==
  [gen : Nat, live : BOOLEAN, active : BOOLEAN, left : Int, period : Nat,
   reload : BOOLEAN, callback : BOOLEAN]

(* Every variable keeps to its range; only a live timer is active, and     *)
(* the daemon's wait and deadline are never negative but for NoWait.       *)
TypeOK ==
  /\ EXPIRED \in [Cells -> Handles \cup {NoHandle}]
  /\ EXPIRY_HEAD \in 0 .. Wrap - 1 /\ EXPIRY_TAIL \in 0 .. Wrap - 1
  /\ InRing <= EXPIRY_RING
  /\ EXPIRIES_LOST \in BOOLEAN
  /\ timers \in [Slots -> TimerRecords]
  /\ \A s \in Active : timers[s].live
  /\ commands \in Seq([op : Ops, value : Nat, timer : Handles])
  /\ Len(commands) <= TIMER_QUEUE_LENGTH
  /\ parked \in [Procs -> {"no", "sleep", "send", "receive"}]
  /\ deadline \in Nat \cup {NoWait} /\ wait \in Nat
  /\ running \in Procs \cup {NoTask}
  /\ owed \in BOOLEAN
  /\ TIMER_CALLBACKS \in [Slots -> Handles \cup {NoHandle}]
  /\ TIMER_NAMES \in [Slots -> Handles \cup {NoHandle}]
  /\ creating \in [Clients -> Handles \cup {NoHandle}]
  /\ at \in Places
  /\ {serving, callback} \subseteq Handles \cup {NoHandle}
  /\ late \in 0 .. MaxLate

(* drain_timer_expiries finds the callback by index alone, a while after   *)
(* the expiry was recorded.  It is still the callback of the timer that    *)
(* expired, and that timer still exists when the C gets its handle: the    *)
(* ring is drained before the daemon takes the command that would delete   *)
(* the timer and free its slot.                                            *)
CallbackOwnsItsHandle ==
  at = "callback" => callback = serving /\ Valid(serving)

(* TimerDemo.c:469 stops a timer and expects it inactive on the next line, *)
(* "because this task is running at a priority below the timer service     *)
(* task": whenever a task below the daemon has the CPU, every command      *)
(* posted so far, by it or by anyone, has been carried out.                *)
CommandsActAtOnce ==
  \A c \in Clients : CanRun(c) /\ Prio[c] < Prio[Daemon] => commands = <<>>

(* The ring's size bounds one burst and not the timers together: an        *)
(* expiry is dropped only if its timer alone, processed once, expired more *)
(* often than the ring has cells.  Nothing that waits from an earlier pass *)
(* of the loop takes its room.                                             *)
OnlyABurstIsLost ==
  [][EXPIRIES_LOST' # EXPIRIES_LOST => RingEmpty]_vars

(* The ring keeps the expiries' order and delivers each once.              *)
Fifo == INSTANCE ExpiryFifo WITH
          Timers <- Handles, Capacity <- EXPIRY_RING, None <- NoHandle,
          waiting <- InOrder, delivered <- serving, lost <- EXPIRIES_LOST

ImplementsFifo == Fifo!Spec

(* A timer that is due gets its callback: whatever the daemon was waiting  *)
(* for, it takes the timer's expiry off the ring sooner or later, unless a *)
(* command has put the timer off or stopped it before it expired.          *)
Due(h) == Valid(h) /\ timers[h.slot].active /\ timers[h.slot].left <= 0
Recorded(h) == \E i \in 1 .. InRing : InOrder[i] = h

DueTimersExpire ==
  \A h \in Handles :
    (Due(h) \/ Recorded(h)) ~> (serving = h \/ ~(Due(h) \/ Recorded(h)))

(* codec.rs: a handle kept after its object was deleted is "REJECTED,      *)
(* rather than silently naming whatever now occupies the slot".            *)
NamesItsOwnTimer ==
  \A h \in Known : pcTimerGetName(h) \in {h, NoHandle}

(* seam/abi.rs, where a queue call is Blocked: "the task has been parked   *)
(* and the switch below is what lets it wait".  A task the kernel has      *)
(* parked does not go on running the C's code.                             *)
ParkedCallersLeave ==
  \A t \in Procs : running = t /\ ~Ready(t) => owed \/ (t = Daemon /\ at = "yield")
=============================================================================
