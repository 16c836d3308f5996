----------------------------- MODULE SeamTasks -----------------------------
(***************************************************************************)
(* Tasks: start-up, xTaskCreate and the entry trampoline, deletion and its *)
(* collection by the idle task, suspension, priorities, delays, the        *)
(* suspended scheduler, and the switch and the tick of a one-core cell.    *)
(*                                                                         *)
(* A call of the C is entered with its arguments, makes its kernel calls   *)
(* one at a time, and leaves the CPU with yield_now where the source does: *)
(* the tick may land and a switch be taken between any two of these steps. *)
(* The kernel is relied on to ask for a switch only where the seam does    *)
(* not leave the CPU itself.                                               *)
(*                                                                         *)
(* Each run picks one of the Programs: small C applications, tasks whose   *)
(* functions may make the calls of Code in any order.                      *)
(***************************************************************************)
EXTENDS KernelTasks, Sequences

CONSTANTS
  Functions, \* the C's task functions; each has a variable for its handle
  Code,      \* Code[f]: the calls f makes
  Programs,  \* the applications: tasks started at boot and interrupt halves
  NoCall,    \* of a task that is in none
  NoFunc,    \* an entry nobody stored
  MAX_TASKS, \* threads the port has
  TIMER_TASK_PRIORITY \* CapiConfig's, for the daemon

(* The C's stack depth is a call's x; the port must have a thread for each *)
(* slot of the kernel's table, or arm_task refuses a task the kernel has   *)
(* already made ready.  Only calls about tasks name one.                   *)
Calls ==
  [op : STRING, whom : Functions \cup {"self"}, n : Nat, x : STRING, p : Nat]

NamingOps ==
  {"create", "delete", "suspend", "resume", "priority", "abort", "lookup", "query", "notify",
   "stateclear", "valueclear"}

ASSUME TasksAssumption ==
  /\ MAX_TASKS \in Nat /\ TASKS <= MAX_TASKS
  /\ TIMER_TASK_PRIORITY \in 0 .. MaxPrio
  /\ NoFunc \notin Functions
  /\ Code \in [Functions -> SUBSET Calls]
  /\ \A q \in Programs : q.boot \in Seq(Functions \X (0 .. MaxPrio))
  /\ \A q \in Programs : Len(q.boot) >= 1 /\ Len(q.boot) + 2 <= TASKS
  /\ \A f \in Functions : \A c \in Code[f] :
       /\ c.op \in {"create", "lookup"} => c.whom \in Functions
       /\ c.op \notin NamingOps => c.whom = "self"
  /\ \A q \in Programs : q.isr \subseteq Calls

ASSUME NoCallAssumption == NoCall \notin Calls

VARIABLES
  k,        \* the kernel's tasks
  owed,     \* a switch is pended
  mask,     \* without_interrupts is in force
  ISR_WOKE, \* an interrupt half woke a task that outranks the running one
  pc,       \* where each slot's thread is
  call,     \* the call it is in
  entry,    \* C_ENTRIES
  armed,    \* the generation a slot has been given a thread for
  handle,   \* the C's handle variables
  phase,    \* how far main has got
  program

taskVars == <<k, owed, mask, ISR_WOKE, pc, call, entry, armed, handle, phase, program>>
still == <<mask, ISR_WOKE, entry, armed, handle, phase, program>>

PCs == {"off", "new", "c", "call", "loop", "blocked", "yield", "arm", "write",
        "ticks", "mid", "count", "parked", "idle", "idled", "daemon", "slept"}

-----------------------------------------------------------------------------
(* The handle codec.  A handle is a slot and a generation; NULL is none.   *)

NULL == 0
WithoutOne(t, g) == IF t = None THEN NULL ELSE g * TASKS + t
handle_to_c(t, g) == IF t = None THEN NULL ELSE (g * TASKS + t) + 1
handle_from_c(p) == [slot |-> (p - 1) % TASKS, gen |-> (p - 1) \div TASKS]

(* The task the kernel acts on: the caller for NULL, nobody for a handle   *)
(* that is stale.                                                          *)
Named(t, p) ==
  IF p = NULL THEN {t}
  ELSE {s \in Slots : /\ Alive(k, s) /\ s = handle_from_c(p).slot
                      /\ k.gen[s] = handle_from_c(p).gen}

xTaskGetCurrentTaskHandle == handle_to_c(k.cur, k.gen[k.cur])
xTaskGetHandle(f) ==
  LET them == {t \in Slots : Alive(k, t) /\ entry[t] = f}
  IN  IF them = {} THEN NULL
      ELSE LET t == CHOOSE t \in them : TRUE IN handle_to_c(t, k.gen[t])

eTaskGetState(p) ==
  LET h == handle_from_c(p) IN
  IF p = NULL \/ k.gen[h.slot] # h.gen \/ k.st[h.slot] = "free" THEN "eInvalid"
  ELSE CASE k.st[h.slot] = "gone" -> "eDeleted"
         [] k.st[h.slot] = "suspended" -> "eSuspended"
         [] k.st[h.slot] = "blocked" -> "eBlocked"
         [] k.st[h.slot] = "ready" -> IF h.slot = k.cur THEN "eRunning" ELSE "eReady"

uxTaskPriorityGet(t, p) ==
  IF Named(t, p) = {} THEN 0 ELSE k.prio[CHOOSE s \in Named(t, p) : TRUE]

-----------------------------------------------------------------------------
(* The cell.                                                               *)

CanRun(t) == phase = "run" /\ k.cur = t /\ (~owed \/ mask)
At(t, at) == CanRun(t) /\ pc[t] = at
Calling(t, op) == At(t, "call") /\ call[t].op = op
Looping(t, op) == CanRun(t) /\ pc[t] \in {"call", "loop"} /\ call[t].op = op

(* The call returns, to the C or to where it leaves the CPU first.         *)
Goto(t, at) ==
  /\ pc' = [pc EXCEPT ![t] = at]
  /\ call' = IF at = "c" THEN [call EXCEPT ![t] = NoCall] ELSE call

(* arm_task gives a slot a thread, or refuses; on the chip, a frame at the *)
(* top of the slot's own stack.                                            *)
InThreadTable(t) == t < MAX_TASKS
arm_task(t) == armed' = [armed EXCEPT ![t] = k.gen[t]]

(* The switch.  A saved stack pointer outside the task's own stack, as one *)
(* that was never set, stops the run.                                      *)
sp_is_in_stack(t) == armed[t] # 0
pick_next ==
  /\ phase = "run" /\ owed /\ ~mask
  /\ k' \in switch_context(k)
  /\ owed' = FALSE
  /\ phase' = IF sp_is_in_stack(k'.cur) THEN "run" ELSE "died"
  /\ UNCHANGED <<mask, ISR_WOKE, pc, call, entry, armed, handle, program>>

(* The handler's decision, want || take_isr_woke().                        *)
WantAlone(woken) == owed' = (owed \/ AsksSwitch(k)) /\ ISR_WOKE' = (ISR_WOKE \/ woken)
Decide(woken) ==
  /\ owed' = (owed \/ AsksSwitch(k) \/ ISR_WOKE \/ woken)
  /\ ISR_WOKE' = (AsksSwitch(k) /\ (ISR_WOKE \/ woken))

(* A tick, in which an interrupt half woke the tasks of who, and set_woken *)
(* was told of it or not.                                                  *)
Tick(who, woken) ==
  /\ phase = "run" /\ ~mask
  /\ k' = WakeFromIsr(increment_tick(k), who)
  /\ Decide(woken)
  /\ UNCHANGED <<mask, pc, call, entry, armed, handle, phase, program>>

(* An interrupt half hands set_woken what the kernel answered it: that a   *)
(* task it woke outranks the running one.                                  *)
SysTick(who) == Tick(who, \E w \in who : Outranks(increment_tick(k), w))

-----------------------------------------------------------------------------
(* Start-up.                                                               *)

Boot == program.boot
Idle == Len(Boot)
Timer == Idle + 1

(* The monitor is created and armed in two calls, which nothing can come   *)
(* between before the ticker is started.                                   *)
CreateMonitor ==
  /\ phase = "mon"
  /\ k' = create_task(k, 0, Boot[1][2])
  /\ phase' = "armmon"
  /\ UNCHANGED <<owed, mask, ISR_WOKE, pc, call, entry, armed, handle, program>>

ArmMonitor ==
  /\ phase = "armmon"
  /\ arm_task(0)
  /\ pc' = [pc EXCEPT ![0] = "c"]
  /\ entry' = [entry EXCEPT ![0] = Boot[1][1]]
  /\ phase' = "demos"
  /\ UNCHANGED <<k, owed, mask, ISR_WOKE, call, handle, program>>

(* The demos' start functions call xTaskCreate, with nothing to switch to. *)
StartDemo ==
  /\ phase = "demos"
  /\ \E t \in FreeSlots(k) :
       LET f == Boot[t + 1][1] IN
       /\ t < Idle /\ \A u \in FreeSlots(k) : t <= u
       /\ k' = create_task(k, t, Boot[t + 1][2])
       /\ entry' = [entry EXCEPT ![t] = f]
       /\ arm_task(t)
       /\ pc' = [pc EXCEPT ![t] = "new"]
       /\ handle' = [handle EXCEPT ![f] = handle_to_c(t, k.gen[t])]
  /\ UNCHANGED <<owed, mask, ISR_WOKE, call, phase, program>>

start_scheduler ==
  /\ phase = "demos" /\ \A t \in 0 .. Idle - 1 : k.st[t] # "free"
  /\ \E kk \in {create_task(create_task(k, Idle, 0), Timer, TIMER_TASK_PRIORITY)} :
       k' \in {[kk EXCEPT !.cur = t] : t \in Best(kk)}
  /\ phase' = "arm"
  /\ UNCHANGED <<owed, mask, ISR_WOKE, pc, call, entry, armed, handle, program>>

ArmBoth ==
  /\ phase = "arm"
  /\ armed' = [armed EXCEPT ![Idle] = k.gen[Idle], ![Timer] = k.gen[Timer]]
  /\ pc' = [pc EXCEPT ![Idle] = "idle", ![Timer] = "daemon"]
  /\ phase' = "sched"
  /\ UNCHANGED <<k, owed, mask, ISR_WOKE, call, entry, handle, program>>

(* set_scheduler, STARTED, the ticker and start_first_task.                *)
AnyTime == phase \in {"arm", "sched"}
AllArmed == phase = "sched"
start_first_task ==
  /\ AllArmed
  /\ phase' = "run"
  /\ UNCHANGED <<k, owed, mask, ISR_WOKE, pc, call, entry, armed, handle, program>>

main ==
  \/ CreateMonitor
  \/ ArmMonitor
  \/ StartDemo
  \/ start_scheduler
  \/ ArmBoth
  \/ start_first_task

-----------------------------------------------------------------------------
(* A task's life.                                                          *)

(* The new thread looks up what it is to run; one that returns, or has     *)
(* nothing to run, spins.                                                  *)
c_task_trampoline(t) ==
  /\ At(t, "new")
  /\ Goto(t, IF entry[t] = NoFunc THEN "parked" ELSE "c")
  /\ UNCHANGED <<k, owed, still>>

(* The C calls in, naming a task by one of its variables or itself by      *)
(* NULL, or another object by what it keeps of it.  While the scheduler is *)
(* suspended it only makes calls that cannot block.                        *)
MayCall(c) ==
  IF k.lock THEN c.op \in {"resumeall", "resume", "priority", "catchup", "notify", "setbits", "groupdelete"}
            ELSE c.op # "resumeall"
Enter(t, objects) ==
  /\ At(t, "c")
  /\ \E c \in Code[entry[t]] :
       /\ MayCall(c)
       /\ call' = [call EXCEPT ![t] =
            [c EXCEPT !.p = IF c.whom # "self" THEN handle[c.whom]
                           ELSE IF c.op \in DOMAIN objects THEN objects[c.op] ELSE NULL,
                      !.n = IF c.x = "above" THEN uxTaskPriorityGet(t, NULL) + 1
                                                ELSE c.n]]
       /\ pc' = [pc EXCEPT ![t] = IF c.op = "return" THEN "parked" ELSE "call"]
  /\ UNCHANGED <<k, owed, still>>

(* yield_now pends the switch.  A blocking call asks again when it is next *)
(* run, or gives up at once if it had no block time.                       *)
AfterYield(at) ==
  CASE at = "blocked" -> "loop" [] at = "yield" -> "c"
    [] at = "idled" -> "idle" [] at = "slept" -> "daemon"
IsAPoll(t) == pc[t] = "blocked" /\ call[t].n = 0
yield_now(t) == owed' = (owed \/ ~IsAPoll(t))
Leave(t) ==
  /\ CanRun(t) /\ pc[t] \in {"blocked", "yield", "idled", "slept"}
  /\ Goto(t, IF IsAPoll(t) THEN "c" ELSE AfterYield(pc[t]))
  /\ yield_now(t)
  /\ UNCHANGED <<k, still>>

(* The rest of every blocking call.  Blocked: with a block time the caller *)
(* is parked, under the deadline its first try set.  Its later tries fail  *)
(* once that has run out.                                                  *)
TimedOut(t) == pc[t] = "loop" /\ k.left[t] = 0
Parked(t) ==
  IF call[t].n = 0 THEN k
  ELSE Block(k, t, IF pc[t] = "loop" THEN k.left[t] ELSE call[t].n)
Waits(ops) == {t \in Slots : k.st[t] = "blocked" /\ call[t] # NoCall /\ call[t].op \in ops}

(* A wake-up of one waiting task, one of the highest priority among them.  *)
First(who) == {t \in who : \A u \in who : k.prio[u] <= k.prio[t]}
OneOf(who) == IF who = {} THEN {{}} ELSE {{t} : t \in First(who)}

(* xTaskCreate.  A stack deeper than the cell's is refused; so is a task   *)
(* the table has no room for.  The rest happens with interrupts masked:    *)
(* the kernel makes the task schedulable, its entry is stored, and it is   *)
(* given a thread.                                                         *)
Unmasked == mask' = mask
Masked == mask' = TRUE
xTaskCreate(t) ==
  /\ Calling(t, "create")
  /\ \/ /\ call[t].x = "deep" \/ FreeSlots(k) = {}
        /\ Goto(t, "c")
        /\ UNCHANGED <<k, owed, still>>
     \/ \E s \in FreeSlots(k) :
          /\ call[t].x # "deep" /\ \A u \in FreeSlots(k) : s <= u
          /\ k' = create_task(k, s, call[t].n)
          /\ owed' = (owed \/ Outranks(k', s))
          /\ Masked
          /\ pc' = [pc EXCEPT ![t] = "arm"]
          /\ call' = [call EXCEPT ![t].p = handle_to_c(s, k.gen[s])]
          /\ UNCHANGED <<ISR_WOKE, entry, armed, handle, phase, program>>

StoreEntry(t, s) == entry' = [entry EXCEPT ![s] = call[t].whom]
ArmCreated(t) ==
  LET s == handle_from_c(call[t].p).slot IN
  /\ At(t, "arm")
  /\ StoreEntry(t, s)
  /\ IF InThreadTable(s)
       THEN arm_task(s) /\ pc' = [pc EXCEPT ![s] = "new", ![t] = "write"]
       ELSE UNCHANGED armed /\ pc' = [pc EXCEPT ![t] = "c"]
  /\ mask' = FALSE
  /\ UNCHANGED <<k, owed, ISR_WOKE, call, handle, phase, program>>

(* The handle reaches the C's variable after the section that made the     *)
(* task runnable: the new task may run first.                              *)
WriteHandle(t) ==
  /\ At(t, "write")
  /\ handle' = [handle EXCEPT ![call[t].whom] = call[t].p]
  /\ Goto(t, "c")
  /\ UNCHANGED <<k, owed, mask, ISR_WOKE, entry, armed, phase, program>>

(* xTaskGetHandle, or xTaskGetCurrentTaskHandle for the caller itself.     *)
Lookup(t) ==
  /\ Calling(t, "lookup")
  /\ handle' = [handle EXCEPT ![call[t].whom] =
       IF call[t].whom = entry[t] THEN xTaskGetCurrentTaskHandle
                                  ELSE xTaskGetHandle(call[t].whom)]
  /\ Goto(t, "c")
  /\ UNCHANGED <<k, owed, mask, ISR_WOKE, entry, armed, phase, program>>

(* vTaskDelete.  A task that names itself by NULL leaves the CPU here; one *)
(* that names itself by its handle relies on the kernel to ask for that.   *)
LeavesByNull(t) == IF call[t].p = NULL THEN "yield" ELSE "c"
LeavesNever(t) == "c"
LeaveCpu(t) == LeavesByNull(t)
OwnHandle(t) == call[t].p # NULL /\ Named(t, call[t].p) = {t}
vTaskDelete(t) ==
  /\ Calling(t, "delete")
  /\ \/ Named(t, call[t].p) = {} /\ k' = k
     \/ \E s \in Named(t, call[t].p) : k' = task_delete(k, s)
  /\ owed' = (owed \/ OwnHandle(t))
  /\ Goto(t, LeaveCpu(t))
  /\ UNCHANGED still

vTaskSuspend(t) ==
  /\ Calling(t, "suspend")
  /\ \/ Named(t, call[t].p) = {} /\ k' = k
     \/ \E s \in Named(t, call[t].p) : k' = suspend(k, s)
  /\ owed' = (owed \/ OwnHandle(t))
  /\ Goto(t, LeaveCpu(t))
  /\ UNCHANGED still

(* vTaskResume leaves the CPU even for a stale handle, never for NULL.     *)
vTaskResume(t) ==
  /\ Calling(t, "resume")
  /\ \/ (call[t].p = NULL \/ Named(t, call[t].p) = {}) /\ k' = k
     \/ call[t].p # NULL /\ \E s \in Named(t, call[t].p) : k' = resume(k, s)
  /\ Goto(t, IF call[t].p = NULL THEN "c" ELSE "yield")
  /\ UNCHANGED <<owed, still>>

vTaskPrioritySet(t) ==
  /\ Calling(t, "priority")
  /\ \/ Named(t, call[t].p) = {} /\ k' = k
     \/ \E s \in Named(t, call[t].p) : k' = set_priority(k, s, call[t].n)
  /\ Goto(t, "yield")
  /\ UNCHANGED <<owed, still>>

xTaskAbortDelay(t) ==
  /\ Calling(t, "abort")
  /\ LET ends == {s \in Named(t, call[t].p) : call[t].p # NULL /\ Abortable(k, s)} IN
       \/ ends = {} /\ k' = k /\ Goto(t, "c")
       \/ \E s \in ends : k' = abort_delay(k, s) /\ Goto(t, "yield")
  /\ UNCHANGED <<owed, still>>

(* vTaskDelay, and xTaskDelayUntil with some of the increment already      *)
(* over: when all of it is, the call returns at once.                      *)
vTaskDelay(t) ==
  /\ Calling(t, "delay")
  /\ \/ call[t].n = 0 /\ k' = k /\ Goto(t, "c")
     \/ call[t].n # 0 /\ k' = Block(k, t, call[t].n) /\ Goto(t, "yield")
  /\ UNCHANGED <<owed, still>>

xTaskDelayUntil(t) ==
  /\ Calling(t, "delayuntil")
  /\ \/ k' = k /\ Goto(t, "c")
     \/ \E n \in 1 .. call[t].n : k' = Block(k, t, n) /\ Goto(t, "yield")
  /\ UNCHANGED <<owed, still>>

-----------------------------------------------------------------------------
(* The suspended scheduler.                                                *)

vTaskSuspendAll(t) ==
  /\ Calling(t, "suspendall")
  /\ k' = suspend_all(k)
  /\ Goto(t, "c")
  /\ UNCHANGED <<owed, still>>

(* xTaskResumeAll leaves the CPU when the kernel says a switch was missed. *)
KeepsOn(t) == Goto(t, "c")
YieldsIfAsked(t) == Goto(t, IF ResumeAsks(k) THEN "yield" ELSE "c")
xTaskResumeAll(t) ==
  /\ Calling(t, "resumeall")
  /\ k' = resume_all(k)
  /\ YieldsIfAsked(t)
  /\ UNCHANGED <<owed, still>>

(* xTaskCatchUpTicks makes one kernel call a tick, and remembers in p      *)
(* whether any of them asked for a switch.                                 *)
Woken(t) == IF call[t].p = 1 \/ AsksSwitch(k) THEN 1 ELSE 0
xTaskCatchUpTicks(t) ==
  /\ \/ /\ Calling(t, "catchup")
        /\ pc' = [pc EXCEPT ![t] = "ticks"]
        /\ UNCHANGED <<k, call>>
     \/ /\ At(t, "ticks") /\ call[t].n > 0
              /\ k' = increment_tick(k)
        /\ call' = [call EXCEPT ![t].n = @ - 1, ![t].p = Woken(t)]
        /\ UNCHANGED pc
     \/ /\ At(t, "ticks") /\ call[t].n = 0
        /\ Goto(t, IF call[t].p = 1 THEN "yield" ELSE "c")
        /\ UNCHANGED k
  /\ UNCHANGED <<owed, still>>

(* taskYIELD, which the C's own port calls.                                *)
vPortGenerateSimulatedInterrupt(t) ==
  /\ Calling(t, "taskyield")
  /\ Goto(t, "yield")
  /\ UNCHANGED <<k, owed, still>>

(* The idle task collects, and leaves the CPU.                             *)
idle(t) ==
  /\ At(t, "idle")
  /\ k' = check_tasks_waiting_termination(k)
  /\ Goto(t, "idled")
  /\ UNCHANGED <<owed, still>>

TaskCall(t) ==
  \/ c_task_trampoline(t)
  \/ Leave(t)
  \/ xTaskCreate(t)
  \/ ArmCreated(t)
  \/ WriteHandle(t)
  \/ Lookup(t)
  \/ vTaskDelete(t)
  \/ vTaskSuspend(t)
  \/ vTaskResume(t)
  \/ vTaskPrioritySet(t)
  \/ xTaskAbortDelay(t)
  \/ vTaskDelay(t)
  \/ xTaskDelayUntil(t)
  \/ vTaskSuspendAll(t)
  \/ xTaskResumeAll(t)
  \/ xTaskCatchUpTicks(t)
  \/ vPortGenerateSimulatedInterrupt(t)
  \/ idle(t)

TaskInit ==
  /\ k = [st |-> [t \in Slots |-> "free"], gen |-> [t \in Slots |-> 1],
          prio |-> [t \in Slots |-> 0], left |-> [t \in Slots |-> NoWait],
          since |-> [t \in Slots |-> NoWait],
          cur |-> 0, lock |-> FALSE, late |-> {}, missed |-> 0, declined |-> FALSE]
  /\ owed = FALSE /\ mask = FALSE /\ ISR_WOKE = FALSE
  /\ pc = [t \in Slots |-> "off"]
  /\ call = [t \in Slots |-> NoCall]
  /\ entry = [t \in Slots |-> NoFunc]
  /\ armed = [t \in Slots |-> 0]
  /\ handle = [f \in Functions |-> NULL]
  /\ phase = "mon"
  /\ program \in Programs

-----------------------------------------------------------------------------
(* Properties.                                                             *)

TypeOK ==
  /\ k \in Kernels
  /\ owed \in BOOLEAN /\ mask \in BOOLEAN /\ ISR_WOKE \in BOOLEAN
  /\ pc \in [Slots -> PCs]
  /\ call \in [Slots -> Calls \cup {NoCall}]
  /\ entry \in [Slots -> Functions \cup {NoFunc}]
  /\ armed \in [Slots -> 0 .. MaxGen + 1]
  /\ handle \in [Functions -> Nat]
  /\ phase \in {"mon", "armmon", "demos", "arm", "sched", "run", "died"}

(* xTaskCreate: "a task must not be reachable by the scheduler before it   *)
(* has somewhere to run".  Whenever the machine runs, the task on it was   *)
(* given a thread for its own generation of the slot, by start-up or by    *)
(* its creator, before a switch or a tick could pick it; so no switch ever *)
(* finds a corrupt slot.                                                   *)
RunsArmed ==
  /\ phase # "died"
  /\ phase = "run" => armed[k.cur] = k.gen[k.cur]

(* vTaskDelay, vTaskSuspend and vTaskDelete: C code after a call that      *)
(* parked, suspended or deleted its own task does not run before the       *)
(* kernel has made the task ready again.                                   *)
NobodyRunsParked ==
  \A t \in Slots :
    (CanRun(t) /\ pc[t] \in {"c", "call", "loop", "new", "idle"}) => k.st[t] = "ready"

(* A task is in C code, or idle, with nothing masked, the scheduler not    *)
(* suspended and no switch on its way.                                     *)
InC == phase = "run" /\ ~owed /\ ~mask /\ ~k.lock /\ pc[k.cur] \in {"c", "call", "loop", "idle"}

(* The codec: a handle the C still holds answers eTaskGetState as a live   *)
(* task only if it names a task running the function the variable is for:  *)
(* not one that took over the slot since, nor one whose creator has not    *)
(* been told yet.                                                          *)
HandleMeansItsTask ==
  \A f \in Functions :
    eTaskGetState(handle[f]) \notin {"eInvalid", "eDeleted"}
      => entry[handle_from_c(handle[f]).slot] = f

(* A rule some applications keep: of their tasks one, started at boot and  *)
(* not created again, runs a function that makes any of these calls.       *)
Callers(ops) == {f \in Functions : \E c \in Code[f] : c.op \in ops}
OneCalls(ops) ==
  /\ \A q \in Programs : \A i, j \in 1 .. Len(q.boot) :
       q.boot[i][1] \in Callers(ops) /\ q.boot[j][1] \in Callers(ops) => i = j
  /\ \A f \in Functions : \A c \in Code[f] : c.op = "create" => c.whom \notin Callers(ops)
=============================================================================
