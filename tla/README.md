# A verification project for rusty_rtos-capi

`rusty_rtos-capi` puts FreeRTOS's C API in front of a Rust kernel. The kernel
is *stackless*: a call that cannot finish parks the task and answers
`Blocked`, "call again when this task next runs". FreeRTOS's C is *stackful*:
`xQueueReceive` returns later, with the item. The **seam** (`src/seam/abi.rs`)
turns one into the other, and a **cell** around it (a hosted one on threads,
`src/hosted/capi-host`, and a bare-metal one for Cortex-M,
`src/firmware/mps2-an385-qemu-capi`) gives each C task a stack, takes ticks,
switches tasks and runs the timer daemon. With the feature `smp` the hosted
cell makes two cores out of its one run permit. The kernel itself is a
dependency and not in the repository; it is modelled from how the seam uses it,
and every definition that stands for it is marked `external` in `PROJECT.json`.

All paths below are relative to the repository's root (`PROJECT.json` writes
them under `src/`).

## Inventory

| Part | State | Operations | What makes it correct |
|---|---|---|---|
| Blocking queue calls, `seam/abi.rs` 559-664, 794-825, with the guard `retry.rs` | the loop's position, counter and deadline of each task | send (back, front, overwrite), receive, peek, abort of a wait | a call takes effect once or fails when it may; it returns; the loop costs one round per wakeup and never spins |
| Tick handler and interrupt-side calls, host `on_tick`, firmware `SysTick`, `set_woken`, `ISR_WOKE` | `ISR_WOKE`, the pended switch | tick, hooks, interrupt halves, switch decision | no wake-up is left without a switch |
| Critical sections and the scheduler lock | nesting depth | enter, exit, suspend all, resume all | nothing blocks for ever under a mask without being named |
| Item tables and queue sets, `ITEM_SIZES`, `IS_SET` | one entry per kernel slot | create, create set, delete, read and write items, membership | the C reads out what was put in, over every reuse of a slot |
| Semaphores and mutexes | kernel's | create, give, take, holder | as the queue loop; inheritance is the kernel's |
| Timers: `TIMER_CALLBACKS`, `TIMER_NAMES`, the expiry ring, `timer_daemon` in each cell | tables per slot, a ring of 64 expiries, the daemon's place in its loop | create, five commands, interrupt forms, callbacks, names | the right callback, once per expiry, in order; commands act before a lower task runs on |
| Task lifecycle: start-up, `xTaskCreate`, `arm_task`, the trampoline, `vTaskDelete`, idle reclaim, suspension, priorities, delays | a thread or stack per slot, `C_ENTRIES`, the C's handle variables | create, arm, enter, delete, reclaim, suspend, resume, delay, catch up | nothing runs before it has a thread, or while it is parked; a handle means its task; no ready task waits behind a lower one |
| Two-core turns (feature `smp`), module `turns` of the host | `OWED`, `PASS`, the core the permit stands for | collect, pick, after_call, tick begin and end | one task per core; every owed switch is taken when its core's turn comes; a suspended scheduler keeps the turn |
| Task notifications | value and state per task, kernel's | notify, query and notify, wait, take, clear, interrupt forms | gives are counted once; the value answered is the one replaced |
| Event groups | bits and waiters, kernel's; commands to the daemon | create, delete, set, clear, wait, sync, interrupt forms through the tick hook | tasks that meet stay in step; a deferred change is made |
| Stream buffers, the loopback serial port, recursive mutexes | `IS_TRIGGER_BUFFER`, `PORT`, the kernel's | send, receive, reset; put, get, put a string; take, give | an over-long block is real; a string has no gap |
| Codec: `codec.rs`, `ctypes.rs` | none | handles, items, positions | inverse where it should be, NULL only for nothing |
| `cstr.rs`, the small libc, LEDs, monitor, demo table, header generation, benchmark | little or none | bytes, printing, text generation | not a matter of interleavings |

How they interact. Every kernel operation goes through `with_kernel`, one
critical section per call; between two of them a tick, an interrupt half or a
switch can come. The seam's own state (the item tables, the ring, `ISR_WOKE`)
is atomics written before or after the kernel call they belong to, so each such
pair is a window. The tick handler calls the kernel, the kernel calls the
cell's hook for each expired timer, the hook writes the ring, the daemon drains
it and calls back into C, and the C calls the seam again.

What is hard here, and listed as hazards in `PROJECT.json`: the window between
`Blocked` and `yield_now`; deadlines that must survive retries; wake-ups by
interrupts that pass NULL for their flag; tables indexed by a slot whose owner
has changed; expiries recorded in one place and delivered in another; wrapping
counters and off-by-one handles; calls that need two kernel operations to give
one answer.

## Modules

| Module | Models | Status |
|---|---|---|
| `QueueContract` | what `queue.h` promises on one queue, with no kernel and no retry: a call takes effect at one instant, or is refused at an instant when it could not take effect and its block time was over | abstract specification |
| `SeamQueue` | the retry loops of send, receive and peek, the guard, the tick, interrupt halves, critical sections, preemption | checked, proved |
| `ExpiryFifo`, `ExpiryRing` | what the ring promises; the array with its head and tail modulo `Wrap` | checked, proved |
| `TimerDaemon` | the timer calls, the daemon's loop one kernel call at a time, callbacks, the name table; it EXTENDS `ExpiryRing` | checked, proved |
| `SeamTables` | `ITEM_SIZES` and `IS_SET` over reused slots, sets, the item and handle codec | checked, proved |
| `Turns` | the two-core permit of the hosted cell: banked switches, the turn passed at calls and ticks, critical sections, the task lock | checked, proved |
| `KernelTasks` | the task half of the kernel, as operators on a record (external) | used by the next five |
| `SeamTasks` | start-up, creation, deletion, suspension, priorities, delays, the suspended scheduler, idle; the switch and the tick of a one-core cell | checked through `SeamCalls` |
| `SeamNotify` | task notifications and their interrupt forms | checked through `SeamCalls` |
| `SeamGroups` | event groups, and the daemon carrying out what interrupts ask of them | checked through `SeamCalls` |
| `SeamBuffers` | stream buffers, the serial port's queue and its string, semaphores and recursive mutexes | checked through `SeamCalls` |
| `SeamCalls` | the composition of the last four: one machine, whose tasks make all these calls | checked, proved in part |
| `MCSeamQueue`, `MCTimerDaemon`, `MCSeamTables`, `MCTurns`, `MCSeamCalls` | small instances | |
| `SeamQueue_proofs`, `TimerDaemon_proofs`, `SeamTables_proofs`, `Turns_proofs`, `SeamCalls_proofs`, `SeamCalls_properties`, `SeamCalls_types`, `SeamCalls_programs` | the theorems | |

### SeamQueue and the code

`Enter` is the C's call up to the loop's first kernel call (argument decoding
included: a bad copy position is refused before the kernel hears of it).
`xQueueGenericSend`, `xQueueReceive` and `xQueuePeek` are one `with_kernel` of
the loop: served, parked or timed out. `OnBlocked` is the Blocked arm: count the
round, stop at the limit, fail a poll at once, else `yield_now`. `Return` hands
the answer to the C. `pick_next` is the pended switch, `on_tick` the whole
handler: `increment_tick`, an interrupt half, `want || take_isr_woke()` with its
short circuit. `xTaskAbortDelay` and the critical sections are steps of their
own. `age` and `wakes` are history variables and no action reads them.

`ImplementsContract` is the refinement: `QC` instantiates `QueueContract` with
the queue as its content, the loop's positions folded into pending, passed and
failed, and everything about parking, deadlines and the CPU hidden.

### TimerDaemon and the code

The daemon's loop in `timer_daemon` (host 1123-1225, firmware 993 on) becomes
one action per kernel call: drain, run one callback, sample the time, process
an expired timer, compute the wait, take one command, yield. Time is relative,
`left` ticks per timer, so the model needs no clock; `late` is how much the
sampled time is behind. `xTimerCreate` and `Remember` are the two halves of
creation: the kernel's slot, then callback and name tables.

### SeamTables and the code

Creation is two steps, the kernel's and `StoreTables`. A read is two steps, the
kernel's answer (`Answer`) and the copy (`WriteItem`), where `Written` applies
`item_for_c` and then the width in `ITEM_SIZES` at that later moment. Sends
read the width at their start and have no window before the kernel call that
matters, so a send is one step. Each item carries, beside the kernel's number,
what the C is to see (`c`); `asked` remembers per slot what size the C asked
for. Both are history. Deletion has the application rule every FreeRTOS program
obeys: nobody is inside a call on the queue, and it is in no set and has no
member. Sending sets the set's item as well. `Raw` gives every handle a number
other than 0, as the arena mints no generation 0: that is the null handle, by
`Handle::is_null` and the tests of `codec.rs` (150-169), whatever the comment on
the codec (15-18) says of a first task `(0, 0)`. `handle_to_c` keeps it NULL.

### Turns and the code

`pick` is the host's `turns::pick` with its four cases in the source's order: a
plain yield switches the core that yields; a suspended scheduler keeps the turn;
a tick that finds a switch owed to this core takes it; otherwise the turn goes
to the other core, which first takes what it is owed. `WithKernel` is a kernel
call with the `collect` after it and the switch the port takes when it leaves
the section; `after_call` and `PassAtCall` are the two halves of the pass at the
return of an outermost call, between which a tick may come. Entering and
leaving a critical section are kernel calls too, and the one that leaves it,
being outermost again, goes on to `after_call`. `on_tick` is
`tick_begin`, the kernel's tick and an interrupt half as core 0, `tick_end` and
the port's pick; `slice` is the same interrupt without a tick. Which cores the
kernel asks to reschedule is its own affair, so `Asks` may choose any core a
free task could have; that it asks no core twice before a switch is what makes
a lost request a hang, and what `NoSwitchLost` is about.

### The calls and the code

`SeamTasks`, `SeamNotify`, `SeamGroups` and `SeamBuffers` share one kernel
record and one program counter per task; `SeamCalls` lets any task make any call
of its program. A call is entered with its arguments (`Enter`), handles being
read from the C's variables at that moment, makes its kernel calls one step
each, and leaves the CPU where the source calls `yield_now` (`Leave`): a switch
is pended there, and the tick or the switch may come between any two steps. A
call that blocks goes round `call`, `blocked`, `loop` as the source's loop does,
under the deadline of its first try. The guard of the loops is not repeated
here; it is in `SeamQueue`.

- *Life of a task.* `main` is start-up in its order; `xTaskCreate`, `ArmCreated`
  and `WriteHandle` are creation: the first two with interrupts masked, the
  third after, when the new task may already have run. A slot that comes back
  has the next generation. The idle task collects the deleted.
- *What is relied on.* Where the seam leaves the CPU itself, the kernel is not
  relied on to pend a switch; where it does not (creation, deletion of an event
  group, a stream send, a task that suspends itself by its own handle), the
  model pends the switch as the kernel does. `vTaskDelay(0)` returns at once.
- *Notifications.* `Query` and `xTaskGenericNotify` are the two kernel calls of
  `xTaskNotifyAndQuery`, the first after NULL and unknown actions have been
  turned away; `meddled` remembers, as history, who touched the value
  between them. `due` counts gives against takes. A task that was only just made
  has been notified by nobody, whoever used its slot before (`NewUnnotified`).
- *Event groups.* Interrupts post commands; `timer_daemon` takes them one a pass
  and the hook carries them out. Either command wakes a sleeping daemon; the
  seam hands `set_woken` the kernel's answer of a set, and drops that of a clear
  (`Tick(SleepingDaemon, FALSE)`), so after a clear the tick asks for a switch
  only if it does so anyway. A wait's answer is kept by the kernel in `out`
  until the waiter's retry. `promised` and `passed` are history.
- *Buffers.* A receive of the demo's trigger buffers counts (`CountReceive`) if
  the ticks between its two readings of the tick count exceed its block time:
  `since` counts those ticks, `late` is history; a poll is not measured and
  leaves both answers alone. The port's string is sent
  character by character, each in a call that may be refused. Opening the port
  makes another queue, unless the kernel refuses it, and `PORT` then names that
  one; a call that came in before stays with the old one (`OnOldWire`), whose
  contents no property is about.

Each of the twelve programs of `MCSeamCalls` is a small application that brings
two or three tasks, or a task and an interrupt half, into each other's way.

## Runs

| Run | Asks | Instance |
|---|---|---|
| `queue` | type, one round per wakeup, no stranded wakeup, the contract | a producer, a higher consumer, a peer consumer, an interrupt half that sends; queue of 2, waits up to 2 ticks, guard of 3 |
| `queue_live` | every call returns; a loop under a mask is stopped by the guard; nothing else is | two peers, queue of 1, blocking allowed in critical sections, guard of 4 |
| `queue_lost_race` (violation) | a death means spinning | three peers, one waits 6 ticks and loses every item to a poller; guard of 3 |
| `timers` | type, right callback, commands at once, only a burst is lost, the ring is a FIFO | two slots, one used twice, a task below the daemon, an interrupt half, callbacks that stop their own timer |
| `timers_live` | due timers get their callback; commands at once | one slot, one task below and one above the daemon |
| `timer_name` (violation) | a name belongs to the handle asked about | create, delete, create in one slot |
| `timer_command` (violation) | a parked task leaves the CPU | a task above the daemon fills the command queue |
| `tables` | type, items come back whole | two tasks, two slots, two generations, sizes 0, 2 and 4 (4 is refused), sets not deleted |
| `set_reuse` (violation) | the same, sets deleted | as `tables` |
| `turns` | type and one task per core, no stale pass flag, no request lost, owed switches taken on the turn, the task lock; both cores' turns come round and a core that is asked switches | two tasks of different priority and the two idle tasks |
| `calls` | types; nothing runs without a thread or while parked; no ready task is stranded, with one exception; handles mean their tasks; gives are counted; a query's answer, with its exception; deferred bits; sync in step; no false over-long block; no gap in a string; no deadlock | twelve applications of one or two tasks and an interrupt half, with the monitor, idle and daemon |
| `clear_wake` (violation) | every wake-up is acted on, a clear's from an interrupt too | as `calls` |

### Bounds and why they are enough

- *Queue length 1 or 2*: full, empty and in between; order needs two items, and
  front against back is seen with two.
- *Waits up to 2 ticks*: a wait that ends at its first tick and one that
  survives a tick, and so a retry under the old deadline. In `queue_lost_race`
  6 ticks, more than the guard has rounds.
- *SpinLimit 3 or 4* for 1 000 000: the guard compares a counter with it and
  nothing else, so only its relation to waits and wakeups matters. In
  `queue_live` it is above the number of times a call can lose its item within
  its wait. `Uncontested` says so of a program, TLC confirms that the program of
  `queue_live` keeps it, and under it `DiesOnlySealed` is proved; that it fails
  without it is the run `queue_lost_race`.
- *Program*: the calls a task may make, any number of times and in any order.
- *EXPIRY_RING 2, Wrap 4* for 64 and 2^32: the head and tail wrap several times
  in a run, and 2 divides 4 as 64 divides 2^32, on which the code relies.
- *MaxGen*: how often a timer slot is used (2 for one slot, 1 for the other),
  enough for a handle to go stale; in `SeamTables` generations wrap after 2,
  which is harsher than the kernel.
- *MaxLate 1*: no tick comes while the daemon is ready and already one tick
  behind its sample. It bounds how stale a sample can be, and lets a tick fall
  into each window of the loop. A command's age is within the same bound.
- *A byte has two values* in `MCSeamTables`, and an item at most 3 bytes of
  which a handle takes all: the smallest codec in which a stale, narrower width
  loses something.
- *Turns*: two idle tasks, which must exist, and two more, so that each core may
  have a task to run, to wait for or to be asked to give up.
- *Calls*: TASKS 6 is the monitor, idle, the daemon and three more: two tasks
  and one they create. MaxGen 2 lets a slot be used twice and a handle go stale.
  MaxWait 2 as above. TIMER_TASK_PRIORITY is 2 in both cells; in the instance
  it is 3, with the monitor above it at 4 and the programs' tasks one higher
  than they would be, so that there is a priority between idle and the lowest
  of them. MaxMissed 2: ticks missed under a suspended scheduler are
  remembered up to 2, as many as any finite wait lasts. Width 3 for 2^32, so
  that values wrap. CmdLen, Cap, Trigger, WireLen, MaxDepth 2, StrLen 3, SemMax
  1: full, empty and in between, and a string longer than the wire. MaxGroups
  and MaxBuffers 2: a deleted one and its successor; MaxPorts 2: a port opened
  again. MAX_TASKS 8 is above TASKS
  as the port has a thread for every slot of the table; were it not, `arm_task`
  would refuse a task the kernel already schedules.
- *Programs*: `SyncTogether` speaks of tasks that meet without a deadline,
  each with a bit of its own that only its meeting sets, whose waits nobody else
  ends (`MeetersAreFree`); `NoGapInString` of a port on which one task sends
  strings (`OneSender`), and `NoFalseOverblock` of buffers made by the task that
  receives from them (`OneReader`), as in the demos.
  The monitor sleeps for longer than the model looks. A tick runs one interrupt
  half that makes one call; several calls in one tick are not explored.
- SYMMETRY permutes the two tasks in `tables`, which checks invariants only and
  names no task. No run with liveness uses symmetry.
- `CHECK_DEADLOCK FALSE` only in the SeamQueue runs: `die()` stops the system,
  so there the model must be able to stop.

### Fairness

`SeamQueue!FairSpec`: ticks come (strong, because a critical section masks them
and is left again), a task that again and again has the CPU gets on with its
call, a pended switch happens, and among peers each gets its turn again and
again (the kernel's round robin within a priority: `pick_next` prefers a peer
to the running task). The C leaves the critical sections it enters. No task is
promised the CPU against a task above it.

`TimerDaemon!FairSpec`: the daemon's step is strongly fair, the switch weakly,
the tick strongly (the bound MaxLate disables it at times). On top of it
`[]<>(Ready(Daemon) => CanRun(Daemon))`: tasks above the daemon leave it the CPU
again and again. With strict priorities no scheduler can promise that, and the
claim is false without it: both cells run the daemon at priority 2
(`configTIMER_TASK_PRIORITY`), below the top, so the tasks above it have to
block now and then for any timer to work.

`Turns!FairSpec`: slices come (strong, since a critical section holds them off,
and one held off stays pending in the port), the thread that gets the permit
again and again on a core gets on with the call it is in, whoever suspended the
scheduler resumes it and whoever entered a critical section leaves it. Nothing
is asked of ticks, wake-ups or the tasks' own code. `SeamCalls` has no fairness:
what it promises is safety and the absence of deadlock.

## Theorems

TLAPS checks every theorem from nothing; no step is left without proof.

`SeamQueue_proofs`, for every set of tasks, priorities, queue length, program,
wait and guard limit allowed by `SeamQueueAssumption`:

- `TypeCorrect`: `Spec => []TypeOK`. `TypeInv` strengthens it with two facts,
  that a task has a call exactly while it is in one, and that no living loop
  has used up its rounds, without which `AtLimit` could be stepped over.
- `OneRoundPerWakeup`: `Spec => []SpinsPaidByWakeups`. The property is not
  inductive: a round is counted before the wakeup that pays for it. `AccountInv`
  adds to the wakeups the park a task is in now, and says that a parked task
  that still has the CPU is about to yield or has a switch pending, so it never
  calls the kernel again unwoken. The theorem covers programs that keep
  FreeRTOS's rule of not blocking inside a critical section.
- `WakeupsReachTheScheduler`: `Spec => []NoStrandedWakeup`. `StrandInv` drops
  the property's exceptions: also inside critical sections and after a death, a
  ready task outranks the running one only while a switch is pending. That is
  what survives leaving the critical section.
- `Implements`: `Spec => ImplementsContract`, the loops implement
  `QueueContract`. A served kernel call is the contract's effect; a refused one,
  a poll that is not served and the loop's own giving up are its failures; a
  tick is its time and an aborted wait its being told to stop; everything else
  is a stutter. `RefInv` is what the map needs beside the types: a task that is
  in no loop is not parked and has no deadline; a deadline is never ahead of the
  block time used (`OnTime`, without which a call could be refused early); and a
  parked task still on the CPU is about to leave it or, under a mask, can
  neither be served nor be timed out (`Stuck`).
- `GuardSparesWaits`: `Uncontested` implies `Spec => []DiesOnlySealed`. The rule:
  what a call waits for, a place or an item, no other task can take from it, and
  an interrupt half, which comes at most once a tick, only if the block time has
  fewer ticks than the guard has rounds. `SpareInv` counts the rounds of every
  waiter outside critical sections: one, or one more for each tick that is over
  when interrupts take what it waits for. It is inductive because a parked call
  waits on its own side, and one that was woken finds what it waits for or has
  let a tick pass since its last round. The finding of `queue_lost_race` is what
  happens without the rule.

`TimerDaemon_proofs`, for every set of timers, uses of a slot, tasks and
programs, every length of the command queue, and every ring whose size divides the width of its counters, from `RingAssumption` and
`TimerAssumption`:

- `RingIsFifo` (`ImplementsFifo`): the array with its wrapping head and tail is
  a bounded FIFO. The work is the arithmetic of remainders: that two positions
  in use are never the same slot of the array, across the wrap of the counters.
- `TimerTypes` (`TypeOK`), `OwnCallback` (`CallbackOwnsItsHandle`), `ActAtOnce`
  (`CommandsActAtOnce`) and the action property `BurstLoss`
  (`OnlyABurstIsLost`). They share `TimerInv`. `Ownership` follows a handle on
  its way: whoever is making a timer is alone with it (`Making`), commands are
  about timers whose creation is over (`Sent`), the ring and the daemon hold
  timers that still exist (`Waiting`, `Served`), which is inductive only because
  the ring is empty once the daemon goes on to anything that could delete one
  (`Drained`). `Schedule` is about the CPU: a daemon that is not ready waits on
  an empty command queue (`Off`), and a ready task that outranks the running one
  has a switch pending (`Strand`). Periods that are over are counted with a
  least element of a well-founded order, so a period of 0 must not be asked for:
  `xTimerChangePeriod` is entered with a period that is not 0, as FreeRTOS's
  `configASSERT` asks of the C.

`SeamTables_proofs`, for every number of tasks, slots, generations, sizes and
values of a byte allowed by `TablesAssumption`:

- `TablesTyped` and `ItemsAreWhole`: `Spec => []TypeOK` and
  `Spec => []ItemsComeBackWhole`, if no set is ever deleted (`~DeletesSets`).
  The condition is the finding of `set_reuse`, so the theorem says there is no
  other. `IInv` says of each slot that its tables agree with its kind unless
  its creator is still at work (`Settled` or `InCreation`), that every item in
  it is right for it, and that a set flag is set only on a set; of each call
  that its slot is what the call takes it for; and of any two calls that nobody
  is in a slot somebody is still creating (`Apart`), which is what makes the
  late store of the size harmless. Actions fall into those that move only items
  or members (`QuietStep`) and those that change what one slot is
  (`SlotElsewhere`, `CallElsewhere` for everything else).

`Turns_proofs`, for every set of tasks with two idle ones, every set of
priorities with the idle tasks lowest, from `TurnsAssumption`:

- `TypeCorrect`: `Spec => []TypeOK`, with the two cores never on one task and
  the permit always with the thread of the current task of its core.
- `PassFresh` (`PassIsFresh`), `SwitchesKept` (`NoSwitchLost`), and the action
  properties `LockKeeps` (`LockKeepsTheThread`) and `TurnsTakeWhatIsOwed`
  (`OwedTakenOnTurn`). They share one invariant, `IInv`: beside the type, that
  every asked core's request is on record, where one that a suspended scheduler
  declined belongs to the core that suspended it, which still has the turn; that
  a task in C code owes no yield; and that no pass is under way inside a
  critical section. The argument goes by the four cases of `pick`; each action
  is a kernel operation followed by one of them.

`SeamCalls_proofs`, for every number of slots, set of functions and the calls
they make, every program with room in the table for itself, idle and the daemon,
and as many threads as slots, from `KernelAssumption` and `TasksAssumption`:

- `AlwaysArmed`: `Spec => []RunsArmed`, and `ParkedStayOff`:
  `Spec => []NobodyRunsParked`. Neither is inductive: that the task on the CPU
  has a thread rests on every task having one that a switch could pick. `IInv`
  says so (`AllHaveThreads`) with the one exception of the slot being filled
  while interrupts are masked, and the rest is about why the exception is never
  seen: interrupts are masked exactly in that step of `xTaskCreate` (`Masking`),
  start-up arms everybody before the machine runs (`Booting`), what is deleted
  is collected by the idle task, which is not deleted itself while it works
  (`Life`), and the task on the CPU is ready unless it is on its way off, and
  only in calls that do not block while it has the scheduler suspended
  (`OnCpu`). Most of the calls are covered by one lemma, `OrdinarySteps`: they
  wake, block or suspend tasks and neither make nor end one. Creation, deletion,
  collection, the switch, the tick and each step of `main` are shown by
  themselves.

As many threads as slots is what the chip cell has by its declarations, a frame
and a stack for each slot; on the hosted cell `MAX_TASKS` is the port's and must
not be below `TASKS`. The theorem needs it: otherwise `arm_task` refuses a task
the kernel has already made ready, and `AlwaysArmed` is false.

`SeamCalls_properties`, from the same assumptions:

- `HandlesMeanTheirTasks`: `Spec => []HandleMeansItsTask`. The property looks at
  live tasks only; to survive a slot's next use the invariant, `Faithful`, says
  what every handle means at all times (`Means`): its generation of the slot is
  over, or the slot is `Settled` and runs the function. A slot is settled unless
  it is free or is the one under creation, whose entry is not stored yet. The
  same holds of a handle on its way from `xTaskCreate` to the C's variable. One
  lemma, `MeansKept`, carries a meaning over a step, and what is left is that
  every step `Moves`: a slot keeps its task and the task its entry, or the slot
  passes to another generation.
- `ArgumentsNameTheirTasks`: `Spec => []Arguments`, the same of the handle a call
  was given, from its entry to its kernel call. A call reads the C's variable
  once; the variable may be written again, and the slot reused, before it acts.
- `QueriesTellTheReplaced`: `Spec => QueryTellsTheReplaced`, the action property.
  The invariant, `Asked`, says of a caller between its two kernel calls that
  what it read is still the value of the task it named or that it is in
  `meddled`. The one step that is not about notifications is creation: it gives
  a slot a new value, but by `Arguments` the caller's handle is then of an
  earlier generation, and it names nobody.

`SeamCalls_types`, from the same assumptions and those of the notifications, the
groups and the buffers, which ask of a program that its calls name bits there
are:

- `AlwaysFitting`: `Spec => []Fitting`. A kernel call keeps the kernel's tasks
  within their bounds (`Fits`) and is `Tame`: it does nothing to a task it is
  not about but wake it, and a wake-up it holds back is given later. So the
  daemon, which no call is about because it runs no function of the C's and no
  handle can mean it (`Apart`; this is where `Faithful` and `Arguments` come
  in), keeps its priority and is always ready or waiting. That it is the second
  task to be made, before any slot was given back, is `FirstOnes`.
- `AlwaysTyped`: `Spec => []TypesOK`. Beside `Fitting` the invariant has what a
  call is while its task is in it (`CallsTyped`: a string never goes on past its
  end, the bits named are the group's) and that a mutex that is held has been
  taken at least once (`LockTyped`), without which giving it back could count
  below zero.
  `Tame` also keeps deadlines: of a task that waits with a block time and is made
  ready, the time is over or it did not get it from the kernel (`Timed`,
  `Lasts`).
- `NobodyStranded`: `Spec => []NoTaskStranded`. The property speaks of a task in
  C code with no switch on its way, and excuses one ready task above it: the
  daemon, while the first command before it is a clear. The invariant,
  `Heeding`, has to say at every position who answers for a ready task above
  (`Heedful`): everybody but a task about to yield, the daemon, whose next
  command call does, and a task that makes up for ticks and has remembered that
  one of them asked for a switch. That each step keeps this, whichever tasks `E`
  are excused, is shown with the steps in `SeamCalls_proofs` (`HeededKept`): each
  call either wakes nobody who outranks its caller, leaves the CPU, or has the
  kernel ask for a switch, and the tick asks through `AsksSwitch` or `ISR_WOKE`.
  What is left here is the tick whose interrupt half posts a clear, which asks
  for the daemon's sake not at all. A daemon that sleeps has no commands
  (`Deferred`), so that clear is the first, and stays it until the daemon runs;
  `AlwaysFitting` says who the daemon is.
- `DeferredBitsAlwaysArrive`: `Spec => []DeferredBitsArrive`. `Promises` says
  where a promised bit is: in the group already or in a command still on its
  way; `Deferred` adds that while there is a command the daemon is awake or its
  wake-up is held back. The tick that posts the command cannot wake it less than
  that, no other call takes it back (`Tame`), and the daemon goes to sleep only
  on an empty queue. By `AlwaysFitting` it keeps the daemon's priority, so by
  `Heeding` no lower task is back in C code before it. Behind a clear from an
  interrupt a set may wait as long as the clear does, and the property excepts
  that.

`SeamCalls_programs`, from the same assumptions and from `NoCallAssumption` (being
in no call is not a call), about applications that keep a rule. The rules are
about what the functions of the C do, so they are hypotheses of the theorems;
`MCSeamCalls` has TLC check that its applications keep them.

- `EveryGiveIsCounted`: `TakersAreGiven` implies `Spec => []GivesAreCounted`.
  The rule: a function that takes is notified only by gives, or with no action,
  and does not use `xTaskNotifyWait`; a bit set in a count is no count. `Counted`
  adds to the property that every call under way keeps the rule, that a slot is
  given back even, and that what is being created is.
- `StringsHaveNoGap`: `OneSender` implies `Spec => []NoGapInString`. The rule:
  one task, started at boot, sends strings, and no interrupt overwrites a queue
  of one place. Without it two strings may be mixed on the wire, which the code
  does not claim to prevent. `Strings` says of a sender in the middle of a
  string that the last character there is, on the wire or already got, is the
  last it sent (`Midway`); the calls of the others put something between the
  characters or take the first item off, and no proof needs more than how the
  cells of the wire move (`Cells`, `Gapless`, `Ends`).
- `NoOverblockIsFalse`: `OneReader` implies `Spec => []NoFalseOverblock`. The rule:
  the task that receives from stream buffers also makes them, so that the flag
  of the trigger test is not written while a receive is under way. `Measured`
  says of a receive between its first try and its last that the kernel's
  deadline is the block time from when the seam sampled the tick; `Flagged` that
  the flag tells of the buffer the receive is about, also while the C is between
  making a buffer and flagging it; `Tallied` that a receive about to be counted
  has either outlived its deadline or has something to show. The one task of a
  rule such as this or the last is an instance of `OneCalls`, and `Lone` is what
  it keeps true.

- `MeetersStayTogether`: `MeetersAreFree` implies `Spec => []SyncTogether`. The
  rule: of each function that meets without a deadline there is one task, started
  at boot; it has a bit that nothing else sets; and nobody deletes, suspends or
  aborts the wait of such a task, or deletes the group. `Together` says that,
  counting one it was released from, every such task has come through as many
  meetings as any other (`Rounds`); that a meeter's own bit is set only while it
  waits in the meeting, so that not all bits are ever set at once (`Stands`);
  and that no command to the daemon sets such a bit (`Unset`). That a meeter in
  its meeting either rests without a deadline or has its answer is `AllBehave`.
  `Leaves` is what makes that an invariant: no call of another task, of a tick or
  of the daemon breaks a rest but those that complete the meeting.

Every safety invariant and every action property of the passing runs is stated
by a theorem. Only model-checked: all liveness, since
fairness and ENABLED are out of the prover's reach. So is induction over data (the
library's induction theorems take an operator argument), and the prover refuses
RECURSIVE operators; the modules use none.

## Findings

1. `queue_lost_race`: the guard counts rounds of one call and never starts
   again, so a task that waits properly but loses each item to a peer counts as
   spinning; `retry.rs` 16-19 says the limit means spinning, not waiting. It
   takes 1 000 000 lost races of one call.
2. `timer_name`: `pcTimerGetName` looks the name up by index and never asks
   whether the handle is still valid.
3. `timer_command`: a command that would block is answered pdFAIL at once while
   the kernel has the caller parked.
4. `set_reuse`: `IS_SET` is never cleared. A queue in the slot of a deleted set
   has its items read out plus one.
5. `clear_wake`: `xEventGroupClearBitsFromISR` drops the kernel's answer, so
   nobody tells `set_woken` that the daemon was woken. A task below the daemon
   goes on, the daemon ready and no switch asked for, until something else asks
   for one; the comment on `ISR_WOKE` says it is set "when an ISR-side call woke
   a task that outranks the running one". `NoTaskStranded` and
   `DeferredBitsArrive` except just this case.
Seen while modelling, without a run of its own: `xTaskNotifyAndQuery` reads in
one kernel call and notifies in another, and something that touches the same
task in between makes it answer a value that its notification does not replace.
The comment (`abi.rs` 1293-1295) says it must answer the value replaced, and
names no exception. `QueryTellsTheReplaced` has that exception (`meddled`) and
states what is left: no other step of the query, of its slot or of its argument
makes the two differ.

Seen, and no disagreement with the source's own words: `ISR_WOKE` stays set when
the tick itself asked for the switch, which costs a later switch and no more.

## What is not modelled

Kernel internals (priority inheritance, the 64-bit tick and its list switch,
how an SMP kernel chooses the core it asks): not in the repository. The heap,
the LEDs, the pure queries and the trace hooks: no state that a call waits on.
C strings and the small libc: functions over bytes, each with unit tests at its
edges. Message framing on top of stream buffers, and the send-completed hook of
the feature `amp`. The ABI table, header generation, the demo table, printing,
the monitor's checks and the benchmark: no state that a property could be about.
In `SeamQueue`, items have no width; in `SeamTables`, calls do not block.
Failure of a kernel creation for lack of slots is a refused call. That the slots
of deleted tasks are collected in the end depends on the idle task's being run
again and again, which no scheduling of the cell promises, so it is not claimed.
`PROJECT.json` lists these parts with their status.

## Plan

The order is by how much of the program rests on each part.

1. Done: the queue loop, the timers, the item tables, with the theorems above.
2. Done: `Turns`, with its theorems.
3. Done: task lifecycle, notifications, event groups, stream buffers, the serial
   port and recursive mutexes, composed in `SeamCalls`.
4. Done: the refinement of `QueueContract`, the ring and the timers, and of
   `SeamCalls` the types, the threads, the CPU, the handles, what interrupts leave
   to the daemon, the counts, the strings, the over-long blocks and the meetings.
5. Left, models: message framing; the small libc as operators over bounded
   inputs, where a property of a call needs them.
