------------------------- MODULE SeamCalls_programs -------------------------
(***************************************************************************)
(* What holds of every application that keeps a rule of its own: the gives *)
(* of a task's notifications are counted if it is only ever given to,      *)
(* strings have no gap if one of the tasks sends them, a receive that is   *)
(* counted as over-blocked was late if the task that receives from the     *)
(* buffers also makes them, and the tasks that meet at the group complete  *)
(* their meetings together if each has a bit of its own and nobody else    *)
(* ends their waits.                                                       *)
(***************************************************************************)
EXTENDS SeamCalls_types

-----------------------------------------------------------------------------
(* The call a task is in.                                                  *)

(* A task goes on with the call it was in.                                 *)
Same(t) ==
  /\ pc[t] \in Sending
  /\ call'[t].op = call[t].op /\ call'[t].whom = call[t].whom /\ call'[t].x = call[t].x

(* Goto goes on, or leaves.                                                *)
LEMMA GotoSame ==
  ASSUME Shape, NEW t \in Slots, NEW at, Goto(t, at), at \in Sending => pc[t] \in Sending
  PROVE  pc'[t] = at /\ (pc'[t] \in Sending => Same(t))
  <1>1. pc'[t] = at BY DEF Goto, Shape
  <1>2. at = "c" => pc'[t] \notin Sending BY <1>1 DEF Sending
  <1>3. at # "c" => call' = call BY DEF Goto
  <1> QED BY <1>1, <1>2, <1>3 DEF Same

(* A call is the C's as it was entered, from its first try to its last,    *)
(* and it is a receive that counts.                                        *)
LEMMA SameCall ==
  ASSUME IInv, NEW t \in Slots, Acts(t), ~Enter(t, Objects)
  PROVE  /\ pc'[t] \in Sending => Same(t)
         /\ pc'[t] = "count" => xStreamBufferReceive(t)
  <1>1. Shape /\ pc \in [Slots -> PCs] /\ call = [u \in Slots |-> call[u]] BY DEF IInv, Shape
  <1>2. \A at : pc' = [pc EXCEPT ![t] = at] => pc'[t] = at BY <1>1
  <1>3. \A at : Goto(t, at) => pc'[t] = at BY <1>1 DEF Goto
  <1>4. CASE TaskCall(t)
    <2>1. CASE xTaskCreate(t)
      <3>1. pc'[t] \in {"c", "arm"} BY <1>2, <1>3, <2>1 DEF xTaskCreate
      <3> QED BY <3>1 DEF Sending
    <2>2. CASE ArmCreated(t)
      <3> DEFINE s == handle_from_c(call[t].p).slot
      <3>1. \/ pc' = [pc EXCEPT ![s] = "new", ![t] = "write"]
            \/ pc' = [pc EXCEPT ![t] = "c"]
        BY <2>2 DEF ArmCreated
      <3> HIDE DEF s
      <3>2. pc'[t] \in {"write", "c"} BY <1>1, <3>1
      <3> QED BY <3>2 DEF Sending
    <2>3. CASE xTaskCatchUpTicks(t)
      <3>1. pc'[t] \in {"ticks", "yield", "c"}
        BY <1>1, <2>3 DEF xTaskCatchUpTicks, Goto, Calling, At
      <3> QED BY <3>1 DEF Sending
    <2>4. CASE Leave(t)
      <3>1. CASE IsAPoll(t) BY <1>1, <2>4, <3>1, GotoSame DEF Leave, Sending
      <3>2. CASE ~IsAPoll(t)
        <4>1. Goto(t, AfterYield(pc[t])) /\ pc[t] \in {"blocked", "yield", "idled", "slept"}
          BY <2>4, <3>2 DEF Leave
        <4>2. /\ pc[t] = "blocked" \/ AfterYield(pc[t]) \notin Sending
              /\ AfterYield(pc[t]) # "count"
          BY <4>1 DEF AfterYield, Sending
        <4> QED BY <1>1, <4>1, <4>2, GotoSame DEF Sending
      <3> QED BY <3>1, <3>2
    <2>5. CASE vTaskDelete(t) \/ vTaskSuspend(t)
      <3>1. pc'[t] \in {"c", "yield"}
        BY <1>3, <2>5 DEF vTaskDelete, vTaskSuspend, LeaveCpu, LeavesByNull
      <3> QED BY <3>1 DEF Sending
    <2>6. ASSUME ~xTaskCreate(t), ~ArmCreated(t), ~xTaskCatchUpTicks(t), ~Leave(t),
                 ~vTaskDelete(t), ~vTaskSuspend(t)
          PROVE  pc'[t] \in {"c", "yield", "parked", "idled"}
      BY <1>3, <1>4, <2>6
      DEF TaskCall, c_task_trampoline, vTaskResume, xTaskAbortDelay, xTaskResumeAll,
          YieldsIfAsked, WriteHandle, Lookup, vTaskPrioritySet, vTaskDelay, xTaskDelayUntil,
          vTaskSuspendAll, vPortGenerateSimulatedInterrupt, idle
    <2> QED BY <2>1, <2>2, <2>3, <2>4, <2>5, <2>6 DEF Sending
  <1>5. CASE NotifyCall(t)
    <2>1. /\ pc[t] \in Sending
          /\ \E at : at # "count" /\ Goto(t, at)
      BY <1>5
      DEF NotifyCall, Query, xTaskGenericNotify, xTaskGenericNotifyWait, ulTaskGenericNotifyTake,
          xTaskGenericNotifyStateClear, ulTaskGenericNotifyValueClear, Calling, Looping, At, Sending
    <2> QED BY <1>1, <2>1, GotoSame
  <1>6. CASE GroupCall(t)
    <2>1. /\ pc[t] \in Sending
          /\ \E at : at # "count" /\ Goto(t, at)
      BY <1>6
      DEF GroupCall, xEventGroupCreate, vEventGroupDelete, xEventGroupSetBits,
          xEventGroupClearBits, xEventGroupWaitBits, xEventGroupSync, Calling, Looping, At, Sending
    <2> QED BY <1>1, <2>1, GotoSame
  <1>7. CASE timer_daemon(t)
    <2>1. CASE UNCHANGED <<pc, call>> BY <1>7, <2>1 DEF Same, timer_daemon, At
    <2>2. CASE Goto(t, "slept") BY <1>1, <2>2, GotoSame DEF Sending
    <2> QED BY <1>7, <2>1, <2>2 DEF timer_daemon
  <1>8. CASE BufferCall(t)
    <2>1. CASE xStreamBufferReceive(t)
      <3>1. pc[t] \in Sending BY <2>1 DEF xStreamBufferReceive, Attempt, Looping, Sending
      <3>2. pc'[t] \in {"c", "count"} \/ Goto(t, "blocked")
        BY <1>2, <1>3, <2>1 DEF xStreamBufferReceive, Attempt
      <3> QED BY <1>1, <2>1, <3>1, <3>2, GotoSame DEF Sending
    <2>2. CASE vSerialPutString(t)
      <3>1. CanRun(t) /\ pc[t] \in Sending /\ pc[t] \in InACall
        BY <2>2 DEF vSerialPutString, Looping, At, InACall, Calm, Sending
      <3>2. CASE pc' = [pc EXCEPT ![t] = "mid"] /\ call' = [call EXCEPT ![t].p = @ + 1]
        <4>1. IsCall(call[t]) BY <3>1, InCall
        <4> DEFINE d == [call[t] EXCEPT !.p = @ + 1]
        <4>2. d.op = call[t].op /\ d.whom = call[t].whom /\ d.x = call[t].x
          BY <4>1 DEF IsCall
        <4>3. call'[t] = d BY <1>1, <3>2
        <4> HIDE DEF d
        <4>4. pc'[t] = "mid" BY <1>2, <3>2
        <4> QED BY <3>1, <4>2, <4>3, <4>4 DEF Same
      <3>3. CASE Goto(t, "c") BY <1>1, <3>3, GotoSame DEF Sending
      <3> QED BY <2>2, <3>2, <3>3 DEF vSerialPutString
    <2>3. CASE FlagCreated(t) \/ CountReceive(t)
      BY <1>1, <2>3, GotoSame DEF FlagCreated, CountReceive, Sending
    <2>4. ASSUME ~xStreamBufferReceive(t), ~vSerialPutString(t), ~FlagCreated(t), ~CountReceive(t)
          PROVE  pc[t] \in Sending /\ \E at : at # "count" /\ Goto(t, at)
      BY <1>8, <2>4
      DEF BufferCall, StreamCall, WireCall, LockCall, xStreamBufferGenericCreate,
          vStreamBufferDelete, xStreamBufferSend, xStreamBufferReset, Blocks,
          xSerialPortInitMinimal, xSerialPutChar, xSerialGetChar, xQueueGenericReset,
          xQueueSemaphoreTake, xQueueTakeMutexRecursive, xQueueGiveMutexRecursive, OnOldWire,
          LeavesOnGive, Calling, Looping, At, Sending
    <2> QED BY <1>1, <2>1, <2>2, <2>3, <2>4, GotoSame
  <1> QED BY <1>4, <1>5, <1>6, <1>7, <1>8 DEF Acts

(* While interrupts are masked only the task that masked them acts, and    *)
(* gives the new task its thread.                                          *)
LEMMA MaskedArms ==
  ASSUME IInv, NEW t \in Slots, Acts(t), mask
  PROVE  ArmCreated(t) /\ pc'[Fresh] = "new" /\ Fresh \in Slots /\ Fresh # t
  <1>1. ~Ordinary(t) BY Running DEF Ordinary
  <1>2. ~(NotifyCall(t) \/ GroupCall(t) \/ timer_daemon(t) \/ BufferCall(t) \/ Enter(t, Objects))
    BY <1>1, NotifyCallOrdinary, GroupCallOrdinary, DaemonOrdinary, BufferCallOrdinary,
       EnterOrdinary
  <1>3. TaskCall(t) BY <1>2 DEF Acts
  <1>4. CanRun(t) => pc[t] = "arm" /\ k.cur = t /\ Fresh \in Slots /\ Fresh # t
    BY DEF CanRun, IInv, Masking
  <1>5. ArmCreated(t)
    <2>1. ASSUME xTaskCreate(t) \/ vTaskDelete(t) \/ idle(t) PROVE FALSE
      BY <1>4, <2>1 DEF xTaskCreate, vTaskDelete, idle, Calling, At
    <2> QED
      BY <1>1, <1>3, <2>1, TrampolineOrdinary, LeaveOrdinary, WriteHandleOrdinary,
         LookupOrdinary, SuspendOrdinary, ResumeOrdinary, PriorityOrdinary, AbortOrdinary,
         DelayOrdinary, SuspendAllOrdinary, ResumeAllOrdinary, CatchUpOrdinary, YieldOrdinary
      DEF TaskCall
  <1>6. CanRun(t) BY <1>5 DEF ArmCreated, At
  <1> DEFINE s == handle_from_c(call[t].p).slot
  <1>7. s = Fresh /\ s \in Slots /\ s # t BY <1>4, <1>6 DEF Fresh
  <1>8. InThreadTable(s)
    BY <1>7, TasksAssumption, KernelAssumption DEF InThreadTable, Slots
  <1>9. pc' = [pc EXCEPT ![s] = "new", ![t] = "write"] BY <1>5, <1>8 DEF ArmCreated
  <1> HIDE DEF s
  <1>10. pc'[s] = "new" BY <1>7, <1>9 DEF IInv, Shape
  <1> QED BY <1>5, <1>7, <1>10

-----------------------------------------------------------------------------
(* The one task that makes some calls.                                     *)

(* A task that goes on to make another does so by xTaskCreate.             *)
LEMMA OnlyCreateArms ==
  ASSUME IInv, IInv', Faithful, NEW t \in Slots, Acts(t), pc'[t] = "arm"
  PROVE  xTaskCreate(t)
  <1>1. mask' BY DEF IInv, Masking
  <1>2. ~Ordinary(t) BY <1>1, OrdinaryMoves
  <1>3. ~(NotifyCall(t) \/ GroupCall(t) \/ timer_daemon(t) \/ BufferCall(t) \/ Enter(t, Objects))
    BY <1>2, NotifyCallOrdinary, GroupCallOrdinary, DaemonOrdinary, BufferCallOrdinary,
       EnterOrdinary
  <1>4. xTaskCreate(t) \/ ArmCreated(t) \/ vTaskDelete(t) \/ idle(t)
    BY <1>2, <1>3, TrampolineOrdinary, LeaveOrdinary, WriteHandleOrdinary,
       LookupOrdinary, SuspendOrdinary, ResumeOrdinary, PriorityOrdinary, AbortOrdinary,
       DelayOrdinary, SuspendAllOrdinary, ResumeAllOrdinary, CatchUpOrdinary, YieldOrdinary
    DEF Acts, TaskCall
  <1>5. ~ArmCreated(t) BY <1>1 DEF ArmCreated
  <1>6. ASSUME vTaskDelete(t) \/ idle(t) PROVE FALSE
    <2>1. pc'[t] \in {"c", "yield", "idled"}
      BY <1>6 DEF vTaskDelete, LeaveCpu, LeavesByNull, idle, Goto, IInv, Shape
    <2> QED BY <2>1
  <1> QED BY <1>4, <1>5, <1>6

(* Only the task that was started to makes them, and no other is created   *)
(* to.                                                                     *)
Lone(ops) ==
  /\ \A u \in Slots : entry[u] \in Callers(ops) => u < Idle /\ entry[u] = Boot[u + 1][1]
  /\ \A u \in Slots : pc[u] \in Sending \cup {"arm"} /\ call[u].op = "create"
                        => call[u].whom \notin Callers(ops)
  /\ \A u \in Slots : pc[u] \in Sending /\ call[u].op \in ops => entry[u] \in Callers(ops)

(* There is one such task.                                                 *)
LEMMA TheOne ==
  ASSUME NEW ops, OneCalls(ops), program \in Programs, Lone(ops),
         NEW t \in Slots, NEW u \in Slots, entry[t] \in Callers(ops), entry[u] \in Callers(ops)
  PROVE  t = u
  <1>1. /\ t < Idle /\ entry[t] = Boot[t + 1][1]
        /\ u < Idle /\ entry[u] = Boot[u + 1][1]
    BY DEF Lone
  <1>2. Boot \in Seq(Functions \X (0 .. MaxPrio)) BY TasksAssumption DEF Boot
  <1>3. Idle \in Nat /\ Idle = Len(program.boot) BY <1>2 DEF Idle, Boot
  <1>4. t \in Nat /\ u \in Nat BY KernelAssumption DEF Slots
  <1>5. t + 1 \in 1 .. Len(program.boot) /\ u + 1 \in 1 .. Len(program.boot)
    BY <1>1, <1>3, <1>4
  <1>6. t + 1 = u + 1 BY <1>1, <1>5 DEF OneCalls, Boot
  <1> QED BY <1>4, <1>6

(* A step of a task, and what it leaves of the others' calls.              *)
LEMMA LoneActs ==
  ASSUME NEW CONSTANT ops, OneCalls(ops), IInv, Faithful, IInv', Lone(ops),
         NEW t \in Slots, Acts(t)
  PROVE  Lone(ops)'
  <1>1. Frame(t) /\ Others(t) BY ActsFrame, ActsMove
  <1>2. UNCHANGED program BY <1>1 DEF Frame
  <1>3. ASSUME mask
        PROVE  /\ entry'[Fresh] \notin Callers(ops) /\ pc'[Fresh] = "new" /\ Fresh # t
               /\ pc'[t] \notin Sending \cup {"arm"}
    <2>1. ArmCreated(t) /\ pc'[Fresh] = "new" /\ Fresh \in Slots /\ Fresh # t /\ pc[t] = "arm"
      BY <1>3, MaskedArms DEF ArmCreated, At
    <2>2. call[t].op = "create" /\ k.cur = t BY <1>1, <1>3 DEF Frame, IInv, Masking
    <2>3. call[t].whom \notin Callers(ops) BY <2>1, <2>2 DEF Lone
    <2>4. entry'[Fresh] = call[t].whom
      <3> DEFINE s == handle_from_c(call[t].p).slot
      <3>1. s = Fresh BY <2>2 DEF Fresh
      <3>2. entry' = [entry EXCEPT ![s] = call[t].whom] BY <2>1 DEF ArmCreated, StoreEntry
      <3> HIDE DEF s
      <3> QED BY <2>1, <3>1, <3>2 DEF IInv, Shape
    <2>5. pc'[t] \notin Sending
      <3>1. ~Enter(t, Objects) BY <2>1 DEF Enter, At
      <3> QED BY <2>1, <3>1, SameCall DEF Same, Sending
    <2>6. pc'[t] # "arm"
      <3>1. ~mask' BY <2>1 DEF ArmCreated
      <3> QED BY <3>1 DEF IInv, Masking
    <2> QED BY <2>1, <2>3, <2>4, <2>5, <2>6
  <1>4. ASSUME NEW u \in Slots, entry'[u] \in Callers(ops)
        PROVE  u < Idle' /\ entry'[u] = Boot'[u + 1][1]
    <2>1. entry'[u] = entry[u] BY <1>1, <1>3, <1>4 DEF Frame
    <2> QED BY <1>2, <1>4, <2>1 DEF Lone, Idle, Boot
  <1>5. ASSUME NEW u \in Slots, u # t, pc'[u] \in Sending \cup {"arm"}
        PROVE  pc'[u] = pc[u] /\ call'[u] = call[u] /\ entry'[u] = entry[u]
    <2>1. ~(mask /\ u = Fresh) BY <1>3, <1>5 DEF Sending
    <2> QED BY <1>1, <1>5, <2>1 DEF Frame, Others
  <1>6. ASSUME pc'[t] \in Sending PROVE entry'[t] = entry[t]
    BY <1>1, <1>3, <1>6 DEF Frame
  <1>7. ASSUME pc'[t] \in Sending
        PROVE  /\ call'[t].op = "create" => call'[t].whom \notin Callers(ops)
               /\ call'[t].op \in ops => entry'[t] \in Callers(ops)
    <2>1. CASE Enter(t, Objects)
      <3>1. PICK c \in Code[entry[t]] :
              entry[t] \in Functions /\ call'[t].op = c.op /\ call'[t].whom = c.whom
        BY <2>1, Entering
      <3> QED BY <1>6, <1>7, <3>1 DEF OneCalls, Callers
    <2>2. CASE ~Enter(t, Objects)
      <3>1. Same(t) BY <1>7, <2>2, SameCall
      <3> QED BY <1>6, <1>7, <3>1 DEF Same, Lone
    <2> QED BY <2>1, <2>2
  <1>8. ASSUME NEW u \in Slots, pc'[u] \in Sending \cup {"arm"}, call'[u].op = "create"
        PROVE  call'[u].whom \notin Callers(ops)
    <2>1. CASE u # t BY <1>5, <1>8, <2>1 DEF Lone
    <2>2. CASE u = t /\ pc'[t] = "arm"
      <3>1. xTaskCreate(t) /\ pc[t] = "call" /\ call[t].op = "create"
        BY <2>2, OnlyCreateArms DEF xTaskCreate, Calling, At
      <3>2. \E p : call' = [call EXCEPT ![t].p = p]
        <4>1. pc'[t] # "c" BY <2>2
        <4>2. ~Goto(t, "c") BY <4>1 DEF Goto, IInv, Shape
        <4> QED BY <3>1, <4>2 DEF xTaskCreate
      <3>3. PICK p : call' = [call EXCEPT ![t].p = p] BY <3>2
      <3>4. IsCall(call[t]) BY <3>1 DEF IInv, CallsKept, Busy, Working
      <3> DEFINE d == [call[t] EXCEPT !.p = p]
      <3>5. call' = [call EXCEPT ![t] = d] BY <3>3
      <3>6. d.whom = call[t].whom BY <3>4 DEF IsCall
      <3> HIDE DEF d
      <3>7. call'[t].whom = call[t].whom BY <3>5, <3>6 DEF IInv, Shape
      <3> QED BY <2>2, <3>1, <3>7 DEF Lone, Sending
    <2>3. CASE u = t /\ pc'[t] \in Sending BY <1>7, <1>8, <2>3
    <2> QED BY <1>8, <2>1, <2>2, <2>3
  <1>9. ASSUME NEW u \in Slots, pc'[u] \in Sending, call'[u].op \in ops
        PROVE  entry'[u] \in Callers(ops)
    <2>1. CASE u # t BY <1>5, <1>9, <2>1 DEF Lone
    <2>2. CASE u = t BY <1>7, <1>9, <2>2
    <2> QED BY <2>1, <2>2
  <1>10. \A u \in Slots : (entry[u] \in Callers(ops))' => (u < Idle /\ entry[u] = Boot[u + 1][1])'
    BY <1>4 DEF Callers
  <1> QED BY <1>8, <1>9, <1>10 DEF Lone, Callers

(* Start-up, which starts it.                                              *)
LEMMA LoneStart ==
  ASSUME NEW CONSTANT ops, IInv, Faithful, Faithful', Lone(ops), main
  PROVE  Lone(ops)'
  <1>1. UNCHANGED <<program, call>> /\ program \in Programs
    BY DEF main, CreateMonitor, ArmMonitor, StartDemo, start_scheduler, ArmBoth,
           start_first_task, IInv, Shape
  <1>2. \A u \in Slots : pc'[u] \in Unstarted
    <2>1. phase # "run" /\ (phase' # "run" \/ pc' = pc)
      BY DEF main, CreateMonitor, ArmMonitor, StartDemo, start_scheduler, ArmBoth,
             start_first_task, AllArmed
    <2> QED BY <2>1 DEF Faithful
  <1>3. ASSUME NEW u \in Slots, entry'[u] \in Callers(ops)
        PROVE  u < Idle /\ entry'[u] = Boot[u + 1][1]
    <2>1. entry'[u] = entry[u] \/ (u < Idle /\ entry'[u] = Boot[u + 1][1])
      <3>1. CASE ArmMonitor
        <4>1. entry' = [entry EXCEPT ![0] = Boot[1][1]] BY <3>1 DEF ArmMonitor
        <4>2. 0 < Idle
          <5>1. Boot \in Seq(Functions \X (0 .. MaxPrio)) /\ Len(Boot) >= 1
            BY <1>1, TasksAssumption DEF Boot
          <5> QED BY <5>1 DEF Idle
        <4>3. CASE u = 0
          <5>1. u + 1 = 1 BY <4>3
          <5> QED BY <4>1, <4>2, <4>3, <5>1 DEF IInv, Shape
        <4>4. CASE u # 0 BY <4>1, <4>4 DEF IInv, Shape
        <4> QED BY <4>3, <4>4
      <3>2. CASE StartDemo
        <4>1. PICK s \in FreeSlots(k) : s < Idle /\ entry' = [entry EXCEPT ![s] = Boot[s + 1][1]]
          BY <3>2 DEF StartDemo
        <4> QED BY <4>1 DEF IInv, Shape
      <3>3. CASE ~ArmMonitor /\ ~StartDemo
        BY <3>3 DEF main, CreateMonitor, start_scheduler, ArmBoth, start_first_task
      <3> QED BY <3>1, <3>2, <3>3
    <2> QED BY <1>3, <2>1 DEF Lone
  <1>4. \A u \in Slots : (entry[u] \in Callers(ops))' => (u < Idle /\ entry[u] = Boot[u + 1][1])'
    BY <1>1, <1>3 DEF Callers, Idle, Boot
  <1> QED BY <1>2, <1>4 DEF Lone, Sending, Unstarted, Callers

(* Time passes, and the CPU changes hands, without a call's going on.      *)
LEMMA TimeStands ==
  ASSUME IInv, Ticks \/ pick_next
  PROVE  UNCHANGED <<mask, pc, call, entry, program>> /\ ~mask
  BY TicksFrame DEF pick_next, IInv, Shape, Phases

(* Every step is of a task, of start-up, or of time.                       *)
LEMMA WhoSteps ==
  ASSUME IInv, [Next]_vars
  PROVE  \/ \E t \in Slots : Acts(t)
         \/ main \/ Ticks \/ pick_next \/ UNCHANGED vars
  BY HalvesTick DEF Next, Tasks, Notifies, Groups, Buffers, Acts

(* Every step.                                                             *)
LEMMA LoneKept ==
  ASSUME NEW CONSTANT ops, OneCalls(ops)
  PROVE  IInv /\ Faithful /\ Lone(ops) /\ IInv' /\ Faithful' /\ [Next]_vars => Lone(ops)'
  <1> SUFFICES ASSUME IInv, Faithful, Lone(ops), IInv', Faithful', [Next]_vars
               PROVE  Lone(ops)'
    OBVIOUS
  <1>1. ASSUME UNCHANGED <<pc, call, entry, program>> PROVE Lone(ops)'
    BY <1>1 DEF Lone, Callers, Idle, Boot
  <1>2. CASE UNCHANGED vars BY <1>1, <1>2 DEF vars, taskVars
  <1> QED BY <1>1, <1>2, WhoSteps, LoneActs, LoneStart, TimeStands

(* At first nobody has begun.                                              *)
LEMMA LoneInit ==
  ASSUME NEW CONSTANT ops
  PROVE  Init => Lone(ops)
  <1> SUFFICES ASSUME TaskInit PROVE Lone(ops) BY DEF Init
  <1>1. \A u \in Slots : entry[u] \notin Callers(ops) /\ pc[u] = "off"
    BY TasksAssumption DEF TaskInit, Callers
  <1> QED BY <1>1 DEF Lone, Sending

-----------------------------------------------------------------------------
(* Gives and takes.                                                        *)

Even(u) == nval[u] = due[u]

(* Every call that is under way keeps the rule, a task that counts was     *)
(* given what it was not told, and a new one nothing.                      *)
Counted ==
  /\ \A u \in Slots : Takes(entry[u]) => Even(u)
  /\ mask => Even(Fresh)
  /\ phase # "run" => \A u \in Slots : Even(u)
  /\ \A u \in Slots : pc[u] \in Sending =>
       OnlyGives(call[u]) /\ (call[u].op = "notifywait" => ~Takes(entry[u]))

(* Taking one off a count, and clearing it, before it wraps and after.     *)
LEMMA TakeBack ==
  ASSUME NEW w \in Nat \ {0}, NEW n \in 0 .. w - 1
  PROVE  (n + w - n) % w = 0 /\ (n > 0 => (n + w - 1) % w = n - 1)
  <1>1. n + w - n = w OBVIOUS
  <1>2. w % w = 0 OBVIOUS
  <1>3. ASSUME n > 0 PROVE (n + w - 1) % w = n - 1
    <2>1. n - 1 \in 0 .. w - 1 /\ n + w - 1 = w * 1 + (n - 1) BY <1>3
    <2> DEFINE r == n - 1
               a == n + w - 1
    <2>2. r \in 0 .. w - 1 /\ a \in Int /\ a = w * 1 + r BY <2>1
    <2> HIDE DEF r, a
    <2>3. a % w = r BY <2>2
    <2> QED BY <2>3 DEF r, a
  <1> QED BY <1>1, <1>2, <1>3

(* A notification is counted if it is a give, and is about nobody else.    *)
LEMMA NotifyEven ==
  ASSUME NotifyTypeOK, NEW s \in Slots, NEW x, notify(s, x)
  PROVE  /\ \A u \in Slots : u # s /\ Even(u) => Even(u)'
         /\ x \in {"inc", "none"} /\ Even(s) => Even(s)'
  <1> DEFINE n == NewValue(s, x)
             d == IF x = "inc" THEN (due[s] + 1) % Width ELSE due[s]
  <1>1. nval' = [nval EXCEPT ![s] = n] /\ due' = [due EXCEPT ![s] = d] BY DEF notify
  <1>2. x \in {"inc", "none"} /\ Even(s) => n = d BY DEF NewValue, Even
  <1> HIDE DEF n, d
  <1>3. \A u \in Slots : u # s => nval'[u] = nval[u] /\ due'[u] = due[u]
    BY <1>1 DEF NotifyTypeOK
  <1>4. nval'[s] = n /\ due'[s] = d BY <1>1 DEF NotifyTypeOK
  <1> QED BY <1>2, <1>3, <1>4 DEF Even

(* So is a take.                                                           *)
LEMMA TakeEven ==
  ASSUME NotifyTypeOK, NEW t \in Slots, xTaskNotifyTakes(t), nval[t] > 0
  PROVE  \A u \in Slots : Even(u) => Even(u)'
  <1> DEFINE n == IF ClearsCount(t) THEN 0 ELSE nval[t] - 1
             d == (due[t] + Width - (IF call[t].x = "clear" THEN nval[t] ELSE 1)) % Width
  <1>1. nval' = [nval EXCEPT ![t] = n] /\ due' = [due EXCEPT ![t] = d] BY DEF xTaskNotifyTakes
  <1>2. Even(t) => n = d
    <2>1. Width \in Nat \ {0} /\ nval[t] \in 0 .. Width - 1
      BY WidthAssumption DEF NotifyTypeOK
    <2>2. /\ (nval[t] + Width - nval[t]) % Width = 0
          /\ (nval[t] + Width - 1) % Width = nval[t] - 1
      BY <2>1, TakeBack
    <2> QED BY <2>2 DEF Even, ClearsCount
  <1> HIDE DEF n, d
  <1>3. \A u \in Slots : u # t => nval'[u] = nval[u] /\ due'[u] = due[u]
    BY <1>1 DEF NotifyTypeOK
  <1>4. nval'[t] = n /\ due'[t] = d BY <1>1 DEF NotifyTypeOK
  <1> QED BY <1>2, <1>3, <1>4 DEF Even

(* And a clear.                                                            *)
LEMMA ClearEven ==
  ASSUME NotifyTypeOK, NEW who,
         nval' = [s \in Slots |-> IF s \in who THEN 0 ELSE nval[s]],
         due' = [s \in Slots |-> IF s \in who THEN (due[s] + Width - nval[s]) % Width ELSE due[s]]
  PROVE  \A u \in Slots : Even(u) => Even(u)'
  <1> SUFFICES ASSUME NEW u \in Slots, Even(u) PROVE Even(u)' OBVIOUS
  <1>1. CASE u \in who
    <2>1. Width \in Nat \ {0} /\ nval[u] \in 0 .. Width - 1
      BY WidthAssumption DEF NotifyTypeOK
    <2>2. (nval[u] + Width - nval[u]) % Width = 0 BY <2>1, TakeBack
    <2> QED BY <1>1, <2>2 DEF Even
  <1>2. CASE u \notin who BY <1>2 DEF Even
  <1> QED BY <1>1, <1>2

(* A task that is only just made is even, and the others are left alone.   *)
LEMMA NewEven ==
  ASSUME NewUnnotified
  PROVE  \A u \in Slots : (Even(u) => Even(u)') /\ (u \in NewTasks => Even(u)')
  BY DEF NewUnnotified, Even

(* The calls on notifications.                                             *)
LEMMA NotifyCallEven ==
  ASSUME IInv, Arguments, NotifyTypeOK, Counted, NEW t \in Slots, NotifyCall(t)
  PROVE  \A u \in Slots : Takes(entry[u]) => Even(u)'
  <1>1. \A u \in Slots : Takes(entry[u]) => Even(u) BY DEF Counted
  <1>2. CASE Query(t) \/ xTaskGenericNotifyStateClear(t)
    BY <1>1, <1>2 DEF Query, xTaskGenericNotifyStateClear, Even
  <1>3. CASE xTaskGenericNotify(t)
    <2>1. CASE UNCHANGED notifyVars BY <1>1, <2>1 DEF notifyVars, Even
    <2>2. ASSUME NEW s \in Named(t, call[t].p), notify(s, call[t].x), call[t].p # NULL
          PROVE  \A u \in Slots : Takes(entry[u]) => Even(u)'
      <3>1. call[t].op \in {"notify", "query"} /\ (pc[t] = "call" \/ Asking(t))
        BY <1>3 DEF xTaskGenericNotify, Calling, At, Asking
      <3>2. call[t].op \notin DOMAIN Objects BY <3>1 DEF Objects, GroupOps, StreamOps, WireOps
      <3>3. s \in Slots /\ entry[s] = call[t].whom BY <2>2, <3>1, <3>2, NamedByHandle
      <3>4. pc[t] \in Sending BY <3>1 DEF Asking, Sending
      <3>5. Takes(entry[s]) => call[t].x \in {"inc", "none"}
        BY <3>1, <3>3, <3>4 DEF Counted, OnlyGives
      <3> QED BY <1>1, <2>2, <3>3, <3>5, NotifyEven
    <2> QED BY <1>3, <2>1, <2>2 DEF xTaskGenericNotify
  <1>4. CASE xTaskGenericNotifyWait(t)
    <2>1. pc[t] \in Sending /\ call[t].op = "notifywait"
      BY <1>4 DEF xTaskGenericNotifyWait, Looping, Sending
    <2>2. ~Takes(entry[t]) BY <2>1 DEF Counted
    <2>3. due' = due /\ \E n : nval' = [nval EXCEPT ![t] = n] BY <1>4 DEF xTaskGenericNotifyWait
    <2>4. \A u \in Slots : u # t => nval'[u] = nval[u] BY <2>3 DEF NotifyTypeOK
    <2> QED BY <1>1, <2>2, <2>3, <2>4 DEF Even
  <1>5. CASE ulTaskGenericNotifyTake(t)
    <2>1. (nval[t] > 0 /\ xTaskNotifyTakes(t)) \/ UNCHANGED <<nval, due>>
      BY <1>5 DEF ulTaskGenericNotifyTake
    <2> QED BY <1>1, <2>1, TakeEven DEF Even
  <1>6. CASE ulTaskGenericNotifyValueClear(t)
    BY <1>1, <1>6, ClearEven DEF ulTaskGenericNotifyValueClear
  <1> QED BY <1>2, <1>3, <1>4, <1>5, <1>6 DEF NotifyCall

(* The interrupt forms.                                                    *)
LEMMA NotifyIsrEven ==
  ASSUME IInv, Faithful, NotifyTypeOK, Counted, TakersAreGiven, NotifyIsr
  PROVE  \A u \in Slots : Takes(entry[u]) => Even(u)'
  <1>1. PICK c \in program.isr :
          xTaskGenericNotifyFromISR(c) \/ vTaskGenericNotifyGiveFromISR(c)
    BY DEF NotifyIsr
  <1>2. c \in Calls /\ program \in Programs BY TasksAssumption DEF IInv, Shape
  <1>3. OnlyGives(c) /\ (c.op \in {"isrnotify", "isrgive"} => c.whom \in Functions)
    BY <1>2 DEF TakersAreGiven
  <1> DEFINE d == IF c.op = "isrgive" THEN Give(c) ELSE c
  <1>4. /\ NotifyFromISR(d) /\ d.whom = c.whom /\ c.whom \in Functions
        /\ Takes(c.whom) => d.x \in {"inc", "none"}
    <2>1. CASE xTaskGenericNotifyFromISR(c)
      BY <1>3, <2>1 DEF xTaskGenericNotifyFromISR, OnlyGives
    <2>2. CASE vTaskGenericNotifyGiveFromISR(c)
      <3>1. Give(c).whom = c.whom /\ Give(c).x = "inc" BY <1>2 DEF Give, Calls
      <3> QED BY <1>3, <2>2, <3>1 DEF vTaskGenericNotifyGiveFromISR
    <2> QED BY <1>1, <2>1, <2>2
  <1> HIDE DEF d
  <1>5. PICK s \in Named(None, handle[d.whom]) : notify(s, d.x)
    BY <1>4 DEF NotifyFromISR
  <1>6. s \in Slots /\ entry[s] = d.whom
    <2>1. handle[d.whom] # NULL /\ Means(handle[d.whom], d.whom, k.gen, Settled, entry)
      BY <1>4 DEF NotifyFromISR, Faithful
    <2> DEFINE h == handle_from_c(handle[d.whom])
    <2>2. s = h.slot /\ s \in Slots /\ k.gen[s] = h.gen BY <1>5, <2>1 DEF Named
    <2>3. h.gen \in Nat /\ (h.gen < k.gen[h.slot] \/ entry[h.slot] = d.whom)
      BY <2>1 DEF Means
    <2> HIDE DEF h
    <2> QED BY <2>2, <2>3
  <1> QED BY <1>4, <1>5, <1>6, NotifyEven DEF Counted

(* A step of a task.                                                       *)
LEMMA CountedActs ==
  ASSUME IInv, Faithful, IInv', Faithful', Arguments, NotifyTypeOK, Counted, TakersAreGiven,
         NEW t \in Slots, Acts(t),
         \/ NotifyCall(t)
         \/ (TaskCall(t) \/ Enter(t, Objects)) /\ NewUnnotified
         \/ (GroupCall(t) \/ timer_daemon(t) \/ BufferCall(t)) /\ UNCHANGED notifyVars
  PROVE  Counted'
  <1>1. Frame(t) /\ Others(t) BY ActsFrame, ActsMove
  <1>2. phase = "run" /\ phase' = "run" BY <1>1 DEF Frame
  <1>3. /\ \A u \in Slots : (Takes(entry[u]) \/ (mask /\ u = Fresh)) => Even(u)'
        /\ mask' => Even(Fresh)'
    <2>1. CASE NotifyCall(t) \/ GroupCall(t) \/ timer_daemon(t) \/ BufferCall(t)
      <3>1. ~mask /\ ~mask'
        BY <2>1, NotifyCallOrdinary, GroupCallOrdinary, DaemonOrdinary, BufferCallOrdinary,
           OrdinaryMoves
      <3>2. \A u \in Slots : Takes(entry[u]) => Even(u)'
        <4>1. CASE NotifyCall(t) BY <4>1, NotifyCallEven
        <4>2. CASE UNCHANGED notifyVars BY <4>2 DEF notifyVars, Even, Counted
        <4>3. CASE NewUnnotified BY <4>3, NewEven DEF Counted
        <4> QED BY <4>1, <4>2, <4>3
      <3> QED BY <3>1, <3>2
    <2>2. CASE NewUnnotified
      <3>1. \A u \in Slots : Even(u) => Even(u)' BY <2>2, NewEven
      <3>2. mask' => Even(Fresh)'
        <4> SUFFICES ASSUME mask' PROVE Even(Fresh)' OBVIOUS
        <4>1. k.st[Fresh'] = "free" /\ k'.st[Fresh'] # "free" BY <1>1 DEF Frame, Faithful
        <4>2. Fresh' \in Slots BY DEF IInv, Masking
        <4>3. Fresh' \in NewTasks BY <4>1, <4>2 DEF NewTasks
        <4> DEFINE s == Fresh'
        <4>4. s \in Slots /\ s \in NewTasks BY <4>2, <4>3
        <4> HIDE DEF s
        <4>5. nval'[s] = 0 /\ due'[s] = 0 BY <2>2, <4>4 DEF NewUnnotified
        <4> QED BY <4>5 DEF s, Even
      <3> QED BY <3>1, <3>2 DEF Counted
    <2> QED BY <2>1, <2>2
  <1>4. ASSUME NEW u \in Slots, Takes(entry[u])' PROVE Even(u)'
    <2>1. CASE mask /\ u = Fresh BY <1>3, <2>1
    <2>2. CASE ~(mask /\ u = Fresh)
      <3>1. Takes(entry[u]) BY <1>1, <1>4, <2>2 DEF Frame, Takes
      <3> QED BY <1>3, <3>1
    <2> QED BY <2>1, <2>2
  <1>5. ASSUME NEW u \in Slots, pc'[u] \in Sending
        PROVE  OnlyGives(call'[u]) /\ (call'[u].op = "notifywait" => ~Takes(entry'[u]))
    <2>1. CASE mask
      <3>1. pc'[Fresh] = "new" /\ Fresh # t /\ pc[t] = "arm"
        BY <2>1, MaskedArms DEF ArmCreated, At
      <3>2. u # Fresh BY <1>5, <3>1 DEF Sending
      <3>3. u # t
        <4>1. ~Enter(t, Objects) BY <3>1 DEF Enter, At
        <4> QED BY <1>5, <3>1, <4>1, SameCall DEF Same, Sending
      <3>4. pc'[u] = pc[u] /\ call'[u] = call[u] /\ entry'[u] = entry[u]
        BY <1>1, <3>2, <3>3 DEF Frame, Others
      <3> QED BY <1>5, <3>4 DEF Counted
    <2>2. CASE ~mask /\ u # t
      <3>1. pc'[u] = pc[u] /\ call'[u] = call[u] /\ entry'[u] = entry[u]
        BY <1>1, <2>2 DEF Frame, Others
      <3> QED BY <1>5, <3>1 DEF Counted
    <2>3. CASE ~mask /\ u = t
      <3>1. entry'[t] = entry[t] BY <1>1, <2>3 DEF Frame
      <3>2. CASE Enter(t, Objects)
        <4>1. PICK c \in Code[entry[t]] :
                /\ entry[t] \in Functions /\ call'[t].op = c.op
                /\ call'[t].whom = c.whom /\ call'[t].x = c.x
          BY <3>2, Entering
        <4>2. OnlyGives(c) /\ (c.op = "notifywait" => ~Takes(entry[t]))
          BY <4>1 DEF TakersAreGiven
        <4> QED BY <2>3, <3>1, <4>1, <4>2 DEF OnlyGives
      <3>3. CASE ~Enter(t, Objects)
        <4>1. Same(t) BY <1>5, <2>3, <3>3, SameCall
        <4>2. OnlyGives(call[t]) /\ (call[t].op = "notifywait" => ~Takes(entry[t]))
          BY <4>1 DEF Same, Counted
        <4> QED BY <2>3, <3>1, <4>1, <4>2 DEF OnlyGives, Same
      <3> QED BY <3>2, <3>3
    <2> QED BY <2>1, <2>2, <2>3
  <1> QED BY <1>2, <1>3, <1>4, <1>5 DEF Counted

(* Every step.                                                             *)
LEMMA CountedKept ==
  ASSUME TakersAreGiven
  PROVE  /\ IInv /\ Faithful /\ Arguments /\ NotifyTypeOK /\ Counted /\ IInv' /\ Faithful'
         /\ [Next]_vars
         => Counted'
  <1> SUFFICES ASSUME IInv, Faithful, Arguments, NotifyTypeOK, Counted, IInv', Faithful',
                      [Next]_vars
               PROVE  Counted'
    OBVIOUS
  <1>1. ASSUME NEW t \in Slots,
               \/ NotifyCall(t)
               \/ (TaskCall(t) \/ Enter(t, Objects)) /\ NewUnnotified
               \/ (GroupCall(t) \/ timer_daemon(t) \/ BufferCall(t)) /\ UNCHANGED notifyVars
        PROVE  Counted'
    BY <1>1, CountedActs DEF Acts
  <1>2. CASE main /\ NewUnnotified
    <2>1. phase # "run" /\ (phase' # "run" \/ pc' = pc)
      BY <1>2 DEF main, CreateMonitor, ArmMonitor, StartDemo, start_scheduler, ArmBoth,
                  start_first_task, AllArmed
    <2>2. \A u \in Slots : Even(u)' BY <1>2, <2>1, NewEven DEF Counted
    <2>3. \A u \in Slots : pc'[u] \in Unstarted BY <2>1 DEF Faithful
    <2>4. mask' => Fresh' \in Slots BY DEF IInv, Masking
    <2>5. mask' => Even(Fresh)' BY <2>2, <2>4 DEF Even
    <2> QED BY <2>2, <2>3, <2>5 DEF Counted, Sending, Unstarted
  <1>3. ASSUME UNCHANGED <<mask, pc, call, entry>>, ~mask, phase' = "run",
               \A u \in Slots : Takes(entry[u]) => Even(u)'
        PROVE  Counted'
    BY <1>3 DEF Counted
  <1>4. ASSUME Ticks \/ pick_next
        PROVE  UNCHANGED <<mask, pc, call, entry>> /\ ~mask /\ phase' = "run"
    <2>1. CASE Ticks BY <2>1, TicksFrame
    <2>2. CASE pick_next BY <2>2 DEF pick_next, IInv, Shape, Phases
    <2> QED BY <1>4, <2>1, <2>2
  <1>5. CASE (pick_next \/ SysTick({})) /\ NewUnnotified
    <2>1. Ticks \/ pick_next BY <1>5, HalvesTick
    <2>2. \A u \in Slots : Takes(entry[u]) => Even(u)' BY <1>5, NewEven DEF Counted
    <2> QED BY <1>3, <1>4, <2>1, <2>2
  <1>6. CASE NotifyIsr BY <1>3, <1>4, <1>6, HalvesTick, NotifyIsrEven
  <1>7. CASE (GroupIsr \/ BuffersIsr) /\ UNCHANGED notifyVars
    <2>1. Ticks BY <1>7, HalvesTick
    <2>2. \A u \in Slots : Takes(entry[u]) => Even(u)' BY <1>7 DEF Counted, Even, notifyVars
    <2> QED BY <1>3, <1>4, <2>1, <2>2
  <1>8. CASE UNCHANGED vars
    <2>1. UNCHANGED <<k, mask, pc, call, entry, phase, nval, due>>
      BY <1>8 DEF vars, taskVars, notifyVars
    <2> QED BY <2>1 DEF Counted, Even, Fresh
  <1> QED
    BY <1>1, <1>2, <1>5, <1>6, <1>7, <1>8
    DEF Next, Tasks, Notifies, Groups, Buffers, notifyVars

(* GivesAreCounted: in every application whose tasks with a count are only *)
(* given to, a task's count is what it was given less what it was told,    *)
(* whoever gives, whatever becomes of the task's slot, and wherever its    *)
(* takes time out.                                                         *)
THEOREM EveryGiveIsCounted ==
  ASSUME TakersAreGiven
  PROVE  Spec => []GivesAreCounted
  <1>1. Init => Counted
    <2>1. ASSUME TaskInit, NotifyInit PROVE Counted
      <3>1. (\A t \in Slots : pc[t] = "off") /\ mask = FALSE BY <2>1 DEF TaskInit
      <3>2. \A t \in Slots : Even(t) BY <2>1 DEF NotifyInit, Even
      <3> QED BY <3>1, <3>2 DEF Counted, Sending
    <2> QED BY <2>1 DEF Init
  <1>2. Counted => GivesAreCounted BY DEF Counted, GivesAreCounted, Even
  <1>3. TypesOK => NotifyTypeOK BY DEF TypesOK
  <1>4. Spec => []Counted
    BY <1>1, <1>3, CountedKept, Invariant, HandlesFaithful, ArgumentsNameTheirTasks, AlwaysTyped,
       PTL
    DEF Spec
  <1> QED BY <1>2, <1>4, PTL

-----------------------------------------------------------------------------
(* The string on the wire.                                                 *)

(* What was got last, and what follows it: cells from 0 to n.              *)
Cells(g, w) == [i \in 0 .. Len(w) |-> IF i = 0 THEN g ELSE w[i]]
Blank(v, i, j) == \A m \in i + 1 .. j - 1 : v[m] = Other
Gapless(v, n) ==
  \A i, j \in 0 .. n :
    i < j /\ v[i] # Other /\ v[j] # Other /\ Blank(v, i, j) => v[j] \in {1, v[i] + 1}

(* The last character there is, if there is one, is number p.              *)
Ends(v, n, p) == \A i \in 0 .. n : v[i] # Other /\ Blank(v, i, n + 1) => v[i] = p

(* The cells as the property has them.                                     *)
LEMMA LineCells ==
  ASSUME NEW S, NEW g \in S, NEW w \in Seq(S), Gapless(Cells(g, w), Len(w))
  PROVE  LET line == <<g>> \o w IN
         \A i, j \in 1 .. Len(line) :
           (/\ i < j /\ line[i] # Other /\ line[j] # Other
            /\ \A m \in i + 1 .. j - 1 : line[m] = Other)
             => line[j] \in {1, line[i] + 1}
  <1> DEFINE line == <<g>> \o w
             v == Cells(g, w)
             n == Len(w)
  <1>1. /\ n \in Nat /\ Len(line) = n + 1
        /\ \A i \in 1 .. n + 1 : line[i] = IF i = 1 THEN g ELSE w[i - 1]
    OBVIOUS
  <1>2. \A i \in 0 .. n : v[i] = IF i = 0 THEN g ELSE w[i] BY DEF Cells
  <1>3. Gapless(v, n) OBVIOUS
  <1> HIDE DEF line, v, n
  <1>4. \A i \in 1 .. n + 1 : line[i] = v[i - 1] BY <1>1, <1>2
  <1> SUFFICES ASSUME NEW i \in 1 .. n + 1, NEW j \in 1 .. n + 1,
                      i < j, line[i] # Other, line[j] # Other,
                      \A m \in i + 1 .. j - 1 : line[m] = Other
               PROVE  line[j] \in {1, line[i] + 1}
    BY <1>1 DEF line
  <1>5. i - 1 \in 0 .. n /\ j - 1 \in 0 .. n /\ i - 1 < j - 1 BY <1>1
  <1>6. v[i - 1] = line[i] /\ v[j - 1] = line[j] BY <1>4
  <1>7. Blank(v, i - 1, j - 1)
    <2> SUFFICES ASSUME NEW m \in i .. j - 2 PROVE v[m] = Other BY DEF Blank
    <2>1. m + 1 \in i + 1 .. j - 1 /\ m + 1 \in 1 .. n + 1 BY <1>1
    <2>2. line[m + 1] = v[(m + 1) - 1] BY <1>4, <2>1
    <2> QED BY <2>1, <2>2
  <1> QED BY <1>3, <1>5, <1>6, <1>7 DEF Gapless

(* Another item at the end.                                                *)
LEMMA OtherLast ==
  ASSUME NEW n \in Nat, NEW v, NEW w, \A i \in 0 .. n : w[i] = v[i], w[n + 1] = Other,
         Gapless(v, n)
  PROVE  Gapless(w, n + 1) /\ \A p : Ends(v, n, p) => Ends(w, n + 1, p)
  <1>1. Gapless(w, n + 1)
    <2> SUFFICES ASSUME NEW i \in 0 .. n + 1, NEW j \in 0 .. n + 1, i < j,
                        w[i] # Other, w[j] # Other, Blank(w, i, j)
                 PROVE  w[j] \in {1, w[i] + 1}
      BY DEF Gapless
    <2>1. i \in 0 .. n /\ j \in 0 .. n OBVIOUS
    <2>2. Blank(v, i, j) BY <2>1 DEF Blank
    <2> QED BY <2>1, <2>2 DEF Gapless
  <1>2. ASSUME NEW p, Ends(v, n, p), NEW i \in 0 .. n + 1, w[i] # Other, Blank(w, i, n + 2)
        PROVE  w[i] = p
    <2>1. i \in 0 .. n BY <1>2
    <2>2. Blank(v, i, n + 1) BY <1>2, <2>1 DEF Blank
    <2> QED BY <1>2, <2>1, <2>2 DEF Ends
  <1> QED BY <1>1, <1>2 DEF Ends

(* The next character of the string at the end.                            *)
LEMMA NextLast ==
  ASSUME NEW n \in Nat, NEW v, NEW w, NEW p \in Nat,
         \A i \in 0 .. n : w[i] = v[i], w[n + 1] = p + 1,
         Gapless(v, n), p # 0 => Ends(v, n, p)
  PROVE  Gapless(w, n + 1) /\ Ends(w, n + 1, p + 1)
  <1>1. Gapless(w, n + 1)
    <2> SUFFICES ASSUME NEW i \in 0 .. n + 1, NEW j \in 0 .. n + 1, i < j,
                        w[i] # Other, w[j] # Other, Blank(w, i, j)
                 PROVE  w[j] \in {1, w[i] + 1}
      BY DEF Gapless
    <2>1. i \in 0 .. n OBVIOUS
    <2>2. CASE j # n + 1
      <3>1. j \in 0 .. n BY <2>2
      <3>2. Blank(v, i, j) BY <2>1, <3>1 DEF Blank
      <3> QED BY <2>1, <3>1, <3>2 DEF Gapless
    <2>3. CASE j = n + 1 /\ p # 0
      <3>1. Blank(v, i, n + 1) BY <2>1, <2>3 DEF Blank
      <3> QED BY <2>1, <2>3, <3>1 DEF Ends
    <2>4. CASE j = n + 1 /\ p = 0 BY <2>4
    <2> QED BY <2>2, <2>3, <2>4
  <1>2. ASSUME NEW i \in 0 .. n + 1, w[i] # Other, Blank(w, i, n + 2)
        PROVE  w[i] = p + 1
    <2>1. CASE i = n + 1 BY <2>1
    <2>2. CASE i # n + 1
      <3>1. n + 1 \in i + 1 .. (n + 2) - 1 BY <2>2
      <3>2. w[n + 1] = Other BY <1>2, <3>1 DEF Blank
      <3> QED BY <3>2 DEF Other
    <2> QED BY <2>1, <2>2
  <1> QED BY <1>1, <1>2 DEF Ends

(* A character is got: the cells move down one.                            *)
LEMMA CellOff ==
  ASSUME NEW n \in Nat \ {0}, NEW v, NEW w, \A i \in 0 .. n - 1 : w[i] = v[i + 1],
         Gapless(v, n)
  PROVE  Gapless(w, n - 1) /\ \A p : Ends(v, n, p) => Ends(w, n - 1, p)
  <1>1. ASSUME NEW i \in 0 .. n - 1, NEW j \in 0 .. n, i < j, Blank(w, i, j)
        PROVE  Blank(v, i + 1, j + 1)
    <2> SUFFICES ASSUME NEW m \in i + 2 .. j PROVE v[m] = Other BY DEF Blank
    <2>1. m - 1 \in i + 1 .. j - 1 /\ m - 1 \in 0 .. n - 1 OBVIOUS
    <2>2. w[m - 1] = v[(m - 1) + 1] /\ w[m - 1] = Other BY <1>1, <2>1 DEF Blank
    <2> QED BY <2>2
  <1>2. Gapless(w, n - 1)
    <2> SUFFICES ASSUME NEW i \in 0 .. n - 1, NEW j \in 0 .. n - 1, i < j,
                        w[i] # Other, w[j] # Other, Blank(w, i, j)
                 PROVE  w[j] \in {1, w[i] + 1}
      BY DEF Gapless
    <2>1. Blank(v, i + 1, j + 1) BY <1>1
    <2>2. i + 1 \in 0 .. n /\ j + 1 \in 0 .. n /\ i + 1 < j + 1 OBVIOUS
    <2>3. w[i] = v[i + 1] /\ w[j] = v[j + 1] OBVIOUS
    <2> QED BY <2>1, <2>2, <2>3 DEF Gapless
  <1>3. ASSUME NEW p, Ends(v, n, p), NEW i \in 0 .. n - 1, w[i] # Other, Blank(w, i, n)
        PROVE  w[i] = p
    <2>1. Blank(v, i + 1, n + 1) BY <1>1, <1>3
    <2>2. i + 1 \in 0 .. n /\ w[i] = v[i + 1] OBVIOUS
    <2> QED BY <1>3, <2>1, <2>2 DEF Ends
  <1> QED BY <1>2, <1>3 DEF Ends

(* Another item is got: it goes from between what was got last and the     *)
(* rest.                                                                   *)
LEMMA OtherOff ==
  ASSUME NEW n \in Nat \ {0}, NEW v, NEW w, w[0] = v[0], v[1] = Other,
         \A i \in 1 .. n - 1 : w[i] = v[i + 1], Gapless(v, n)
  PROVE  Gapless(w, n - 1) /\ \A p : Ends(v, n, p) => Ends(w, n - 1, p)
  <1> DEFINE Up1(i) == IF i = 0 THEN 0 ELSE i + 1
  <1>1. ASSUME NEW i \in 0 .. n - 1, NEW j \in 1 .. n, i < j, Blank(w, i, j)
        PROVE  Blank(v, Up1(i), j + 1)
    <2> SUFFICES ASSUME NEW m \in Up1(i) + 1 .. j PROVE v[m] = Other BY DEF Blank
    <2>1. CASE m = 1 BY <2>1
    <2>2. CASE m # 1
      <3>1. m - 1 \in i + 1 .. j - 1 /\ m - 1 \in 1 .. n - 1 BY <2>2
      <3>2. w[m - 1] = v[(m - 1) + 1] /\ w[m - 1] = Other BY <1>1, <3>1 DEF Blank
      <3>3. (m - 1) + 1 = m OBVIOUS
      <3> QED BY <3>2, <3>3
    <2> QED BY <2>1, <2>2
  <1>2. \A i \in 0 .. n - 1 : Up1(i) \in 0 .. n /\ Up1(i) < i + 2 /\ w[i] = v[Up1(i)] OBVIOUS
  <1>3. \A i \in 0 .. n - 1, j \in 1 .. n - 1 : i < j => Up1(i) < j + 1 OBVIOUS
  <1> HIDE DEF Up1
  <1>4. Gapless(w, n - 1)
    <2> SUFFICES ASSUME NEW i \in 0 .. n - 1, NEW j \in 0 .. n - 1, i < j,
                        w[i] # Other, w[j] # Other, Blank(w, i, j)
                 PROVE  w[j] \in {1, w[i] + 1}
      BY DEF Gapless
    <2>1. j \in 1 .. n - 1 /\ j \in 1 .. n OBVIOUS
    <2>2. Blank(v, Up1(i), j + 1) BY <1>1, <2>1
    <2>3. Up1(i) \in 0 .. n /\ j + 1 \in 0 .. n /\ Up1(i) < j + 1 BY <1>2, <1>3, <2>1
    <2>4. w[i] = v[Up1(i)] /\ w[j] = v[j + 1] BY <1>2, <2>1
    <2> QED BY <2>2, <2>3, <2>4 DEF Gapless
  <1>5. ASSUME NEW p, Ends(v, n, p), NEW i \in 0 .. n - 1, w[i] # Other, Blank(w, i, n)
        PROVE  w[i] = p
    <2>1. Blank(v, Up1(i), n + 1) BY <1>1, <1>5
    <2> QED BY <1>5, <1>2, <2>1 DEF Ends
  <1> QED BY <1>4, <1>5 DEF Ends

(* Another item is put there.                                              *)
LEMMA OtherFirst ==
  ASSUME NEW n \in Nat, NEW v, NEW w, w[0] = v[0], w[1] = Other,
         \A i \in 1 .. n : w[i + 1] = v[i], Gapless(v, n)
  PROVE  Gapless(w, n + 1) /\ \A p : Ends(v, n, p) => Ends(w, n + 1, p)
  <1> DEFINE Dn(i) == IF i = 0 THEN 0 ELSE i - 1
  <1>1. \A i \in 0 .. n + 1 : w[i] # Other => i # 1 /\ Dn(i) \in 0 .. n /\ w[i] = v[Dn(i)]
    <2> SUFFICES ASSUME NEW i \in 0 .. n + 1, w[i] # Other
                 PROVE  i # 1 /\ Dn(i) \in 0 .. n /\ w[i] = v[Dn(i)]
      OBVIOUS
    <2>1. CASE i = 0 BY <2>1
    <2>2. CASE i # 0
      <3>1. i # 1 /\ i - 1 \in 1 .. n /\ (i - 1) + 1 = i BY <2>2
      <3>2. w[(i - 1) + 1] = v[i - 1] BY <3>1
      <3> QED BY <2>2, <3>1, <3>2
    <2> QED BY <2>1, <2>2
  <1>2. ASSUME NEW i \in 0 .. n + 1, NEW j \in 2 .. n + 2, i # 1, i < j, Blank(w, i, j)
        PROVE  Blank(v, Dn(i), j - 1)
    <2> SUFFICES ASSUME NEW m \in Dn(i) + 1 .. j - 2 PROVE v[m] = Other BY DEF Blank
    <2>1. m + 1 \in i + 1 .. j - 1 /\ m \in 1 .. n BY <1>2
    <2>2. w[m + 1] = v[m] /\ w[m + 1] = Other BY <1>2, <2>1 DEF Blank
    <2> QED BY <2>2
  <1>3. Gapless(w, n + 1)
    <2> SUFFICES ASSUME NEW i \in 0 .. n + 1, NEW j \in 0 .. n + 1, i < j,
                        w[i] # Other, w[j] # Other, Blank(w, i, j)
                 PROVE  w[j] \in {1, w[i] + 1}
      BY DEF Gapless
    <2>1. i # 1 /\ j # 1 /\ j \in 2 .. n + 2 BY <1>1
    <2>2. Blank(v, Dn(i), j - 1) BY <1>2, <2>1
    <2>3. Dn(j) = j - 1 /\ Dn(i) < Dn(j) BY <2>1
    <2> QED BY <1>1, <2>2, <2>3 DEF Gapless
  <1>4. ASSUME NEW p, Ends(v, n, p), NEW i \in 0 .. n + 1, w[i] # Other, Blank(w, i, n + 2)
        PROVE  w[i] = p
    <2>1. i # 1 /\ n + 2 \in 2 .. n + 2 /\ (n + 2) - 1 = n + 1 BY <1>4, <1>1
    <2>2. Blank(v, Dn(i), n + 1) BY <1>2, <1>4, <2>1
    <2> QED BY <1>4, <1>1, <2>2 DEF Ends
  <1> QED BY <1>3, <1>4 DEF Ends

(* The cells when something is put at the end, got, or put first.          *)
LEMMA CellsMore ==
  ASSUME NEW S, NEW g, NEW w \in Seq(S), NEW x \in S
  PROVE  /\ Len(w) \in Nat /\ Len(Append(w, x)) = Len(w) + 1
         /\ \A i \in 0 .. Len(w) : Cells(g, Append(w, x))[i] = Cells(g, w)[i]
         /\ Cells(g, Append(w, x))[Len(w) + 1] = x
  <1> DEFINE y == Append(w, x)
             n == Len(w)
  <1>1. /\ n \in Nat /\ Len(y) = n + 1
        /\ \A i \in 1 .. n : y[i] = w[i]
        /\ y[n + 1] = x
    OBVIOUS
  <1>2. /\ \A i \in 0 .. n : Cells(g, w)[i] = IF i = 0 THEN g ELSE w[i]
        /\ \A i \in 0 .. Len(y) : Cells(g, y)[i] = IF i = 0 THEN g ELSE y[i]
    BY DEF Cells
  <1> HIDE DEF y, n
  <1>3. /\ \A i \in 0 .. n : Cells(g, y)[i] = Cells(g, w)[i]
        /\ Cells(g, y)[n + 1] = x
    BY <1>1, <1>2
  <1> QED BY <1>1, <1>3 DEF y, n

LEMMA CellsLess ==
  ASSUME NEW S, NEW g, NEW h, NEW w \in Seq(S), w # <<>>
  PROVE  /\ Len(w) \in Nat \ {0} /\ Len(Tail(w)) = Len(w) - 1
         /\ Cells(g, w)[0] = g /\ Cells(g, w)[1] = Head(w) /\ Cells(h, Tail(w))[0] = h
         /\ \A i \in 1 .. Len(w) - 1 : Cells(h, Tail(w))[i] = Cells(g, w)[i + 1]
  <1> DEFINE y == Tail(w)
             n == Len(w)
  <1>1. /\ n \in Nat \ {0} /\ Len(y) = n - 1 /\ w[1] = Head(w)
        /\ \A i \in 1 .. n - 1 : y[i] = w[i + 1]
    OBVIOUS
  <1>2. /\ \A i \in 0 .. n : Cells(g, w)[i] = IF i = 0 THEN g ELSE w[i]
        /\ \A i \in 0 .. Len(y) : Cells(h, y)[i] = IF i = 0 THEN h ELSE y[i]
    BY DEF Cells
  <1> HIDE DEF y, n
  <1>3. /\ Cells(g, w)[0] = g /\ Cells(g, w)[1] = Head(w) /\ Cells(h, y)[0] = h
        /\ \A i \in 1 .. n - 1 : Cells(h, y)[i] = Cells(g, w)[i + 1]
    BY <1>1, <1>2
  <1> QED BY <1>1, <1>3 DEF y, n

LEMMA CellsFirst ==
  ASSUME NEW S, NEW g, NEW w \in Seq(S), NEW x \in S
  PROVE  /\ Len(w) \in Nat /\ Len(<<x>> \o w) = Len(w) + 1
         /\ Cells(g, <<x>> \o w)[0] = Cells(g, w)[0] /\ Cells(g, <<x>> \o w)[1] = x
         /\ \A i \in 1 .. Len(w) : Cells(g, <<x>> \o w)[i + 1] = Cells(g, w)[i]
  <1> DEFINE y == <<x>> \o w
             n == Len(w)
  <1>1. /\ n \in Nat /\ Len(y) = n + 1 /\ y[1] = x
        /\ \A i \in 1 .. n : y[i + 1] = w[i]
    OBVIOUS
  <1>2. /\ \A i \in 0 .. n : Cells(g, w)[i] = IF i = 0 THEN g ELSE w[i]
        /\ \A i \in 0 .. Len(y) : Cells(g, y)[i] = IF i = 0 THEN g ELSE y[i]
    BY DEF Cells
  <1> HIDE DEF y, n
  <1>3. /\ Cells(g, y)[0] = Cells(g, w)[0] /\ Cells(g, y)[1] = x
        /\ \A i \in 1 .. n : Cells(g, y)[i + 1] = Cells(g, w)[i]
    BY <1>1, <1>2
  <1> QED BY <1>1, <1>3 DEF y, n

-----------------------------------------------------------------------------
(* What a call does to the wire.                                           *)

Sound == Gapless(Cells(got, wire), Len(wire))
EndsIn(p) == Ends(Cells(got, wire), Len(wire), p)
Chars == 0 .. StrLen

(* Another item.                                                           *)
LEMMA OtherSent ==
  ASSUME WireTyped, Sound, got' = got, wire' \in {Append(wire, Other), <<Other>> \o wire}
  PROVE  Sound' /\ \A p : EndsIn(p) => EndsIn(p)'
  <1>1. wire \in Seq(Chars) /\ Other \in Chars
    BY BuffersAssumption DEF WireTyped, Chars, Other
  <1> HIDE DEF Chars
  <1> DEFINE v == Cells(got, wire)
             n == Len(wire)
  <1>2. CASE wire' = Append(wire, Other)
    <2> DEFINE w == Cells(got, Append(wire, Other))
    <2>1. /\ n \in Nat /\ Len(Append(wire, Other)) = n + 1
          /\ \A i \in 0 .. n : w[i] = v[i]
          /\ w[n + 1] = Other
      BY <1>1, CellsMore
    <2>2. Gapless(v, n) BY DEF Sound
    <2>3. /\ Sound' <=> Gapless(w, n + 1)
          /\ \A p : (EndsIn(p) => EndsIn(p)') <=> (Ends(v, n, p) => Ends(w, n + 1, p))
      BY <1>2, <2>1 DEF Sound, EndsIn
    <2> HIDE DEF v, n, w
    <2>4. Gapless(w, n + 1) /\ \A p : Ends(v, n, p) => Ends(w, n + 1, p)
      BY <2>1, <2>2, OtherLast
    <2> QED BY <2>3, <2>4
  <1>3. CASE wire' = <<Other>> \o wire
    <2> DEFINE w == Cells(got, <<Other>> \o wire)
    <2>1. /\ n \in Nat /\ Len(<<Other>> \o wire) = n + 1
          /\ w[0] = v[0] /\ w[1] = Other
          /\ \A i \in 1 .. n : w[i + 1] = v[i]
      BY <1>1, CellsFirst
    <2>2. Gapless(v, n) BY DEF Sound
    <2>3. /\ Sound' <=> Gapless(w, n + 1)
          /\ \A p : (EndsIn(p) => EndsIn(p)') <=> (Ends(v, n, p) => Ends(w, n + 1, p))
      BY <1>3, <2>1 DEF Sound, EndsIn
    <2> HIDE DEF v, n, w
    <2>4. Gapless(w, n + 1) /\ \A p : Ends(v, n, p) => Ends(w, n + 1, p)
      BY <2>1, <2>2, OtherFirst
    <2> QED BY <2>3, <2>4
  <1> QED BY <1>2, <1>3

(* What is first is got.                                                   *)
LEMMA FirstGot ==
  ASSUME WireTyped, Sound, wire # <<>>, Off
  PROVE  Sound' /\ \A p : EndsIn(p) => EndsIn(p)'
  <1>1. wire \in Seq(Chars) BY DEF WireTyped, Chars
  <1> HIDE DEF Chars
  <1> DEFINE h == IF Head(wire) = Other THEN got ELSE Head(wire)
             v == Cells(got, wire)
             w == Cells(h, Tail(wire))
             n == Len(wire)
  <1>2. wire' = Tail(wire) /\ got' = h BY DEF Off
  <1>3. /\ n \in Nat \ {0} /\ Len(Tail(wire)) = n - 1
        /\ v[0] = got /\ v[1] = Head(wire) /\ w[0] = h
        /\ \A i \in 1 .. n - 1 : w[i] = v[i + 1]
    <2> HIDE DEF h
    <2> QED BY <1>1, CellsLess
  <1>4. Gapless(v, n) BY DEF Sound
  <1>5. /\ Sound' <=> Gapless(w, n - 1)
        /\ \A p : (EndsIn(p) => EndsIn(p)') <=> (Ends(v, n, p) => Ends(w, n - 1, p))
    BY <1>2, <1>3 DEF Sound, EndsIn
  <1>6. h = IF v[1] = Other THEN v[0] ELSE v[1] BY <1>3
  <1> HIDE DEF v, n, w, h
  <1>7. Gapless(w, n - 1) /\ \A p : Ends(v, n, p) => Ends(w, n - 1, p)
    <2>1. CASE v[1] = Other BY <1>3, <1>4, <1>6, <2>1, OtherOff
    <2>2. CASE v[1] # Other
      <3>1. \A i \in 0 .. n - 1 : w[i] = v[i + 1]
        <4>1. w[0] = v[0 + 1] BY <1>3, <1>6, <2>2
        <4> QED BY <1>3, <4>1
      <3> QED BY <1>3, <1>4, <3>1, CellOff
    <2> QED BY <2>1, <2>2
  <1> QED BY <1>5, <1>7

(* The next character of the string.                                       *)
LEMMA CharSent ==
  ASSUME WireTyped, Sound, NEW p \in Nat, p + 1 \in Chars, p # 0 => EndsIn(p),
         got' = got, wire' = Append(wire, p + 1)
  PROVE  Sound' /\ EndsIn(p + 1)'
  <1>1. wire \in Seq(Chars) BY DEF WireTyped, Chars
  <1> HIDE DEF Chars
  <1> DEFINE v == Cells(got, wire)
             w == Cells(got, Append(wire, p + 1))
             n == Len(wire)
             c == p + 1
  <1>2. /\ n \in Nat /\ Len(Append(wire, p + 1)) = n + 1
        /\ \A i \in 0 .. n : w[i] = v[i]
        /\ w[n + 1] = p + 1
    <2>1. c \in Chars OBVIOUS
    <2> HIDE DEF c
    <2>2. /\ Len(wire) \in Nat /\ Len(Append(wire, c)) = Len(wire) + 1
          /\ \A i \in 0 .. Len(wire) : Cells(got, Append(wire, c))[i] = Cells(got, wire)[i]
          /\ Cells(got, Append(wire, c))[Len(wire) + 1] = c
      BY <1>1, <2>1, CellsMore
    <2> QED BY <2>2 DEF c
  <1>3. Gapless(v, n) /\ (p # 0 => Ends(v, n, p)) BY DEF Sound, EndsIn
  <1>4. (Sound' <=> Gapless(w, n + 1)) /\ (EndsIn(p + 1)' <=> Ends(w, n + 1, p + 1))
    BY <1>2 DEF Sound, EndsIn
  <1> HIDE DEF v, n, w, c
  <1>5. Gapless(w, n + 1) /\ Ends(w, n + 1, p + 1) BY <1>2, <1>3, NextLast
  <1> QED BY <1>4, <1>5

(* A wire that is reset has nothing on it, and nothing was got.            *)
LEMMA NothingLeft ==
  ASSUME got' = 0, wire' = <<>>
  PROVE  Sound' /\ \A p : EndsIn(p)'
  <1>1. Cells(got, wire)' = Cells(0, <<>>) /\ Len(wire)' = 0 OBVIOUS
  <1>2. \A i \in 0 .. 0 : Cells(0, <<>>)[i] = Other BY DEF Cells, Other
  <1>3. Gapless(Cells(0, <<>>), 0) /\ \A p : Ends(Cells(0, <<>>), 0, p) BY <1>2 DEF Gapless, Ends
  <1> QED BY <1>1, <1>3 DEF Sound, EndsIn

(* All but the sender's calls leave the characters in their order, and the *)
(* one that is last; so do the interrupt halves.                           *)
LEMMA OthersSend ==
  ASSUME WireTyped, Sound, NEW t \in Slots, BufferCall(t), ~vSerialPutString(t)
  PROVE  Sound' /\ \A p : EndsIn(p) => EndsIn(p)'
  <1>1. CASE UNCHANGED <<wire, got>> BY <1>1 DEF Sound, EndsIn
  <1>2. CASE WireCall(t)
    <2>1. CASE xSerialPortInitMinimal(t)
      BY <1>1, <2>1, NothingLeft DEF xSerialPortInitMinimal, wireVars
    <2>2. CASE xSerialPutChar(t)
      <3>1. got' = got /\ (wire' = Append(wire, Other) \/ wire' = wire)
        BY <2>2 DEF xSerialPutChar, OnOldWire
      <3> QED BY <1>1, <3>1, OtherSent
    <2>3. CASE xSerialGetChar(t)
      <3>1. (wire # <<>> /\ Off) \/ UNCHANGED <<wire, got>> BY <2>3 DEF xSerialGetChar
      <3> QED BY <1>1, <3>1, FirstGot
    <2>4. CASE xQueueGenericReset(t) BY <1>1, <2>4, NothingLeft DEF xQueueGenericReset
    <2> QED BY <1>2, <2>1, <2>2, <2>3, <2>4 DEF WireCall
  <1>3. CASE UNCHANGED wireVars BY <1>1, <1>3 DEF wireVars
  <1> QED BY <1>2, <1>3 DEF BufferCall

(* An interrupt half's call sends nothing.                                *)
LEMMA IsrSends ==
  ASSUME WireTyped, Sound, OneSender, program \in Programs, NEW c \in program.isr, BufferIsr(c)
  PROVE  Sound' /\ \A p : EndsIn(p) => EndsIn(p)'
  <1>1. CASE UNCHANGED <<wire, got>> BY <1>1 DEF Sound, EndsIn
  <1>2. CASE xQueueGenericSendFromISR(c)
    <2>1. got' = got /\ wire' \in Placed(c.x) /\ c.op = "isrsend"
      BY <1>2 DEF xQueueGenericSendFromISR
    <2>2. ~(WireLen = 1 /\ c.x = "overwrite") BY <2>1 DEF OneSender
    <2>3. wire' \in {Append(wire, Other), <<Other>> \o wire} BY <2>1, <2>2 DEF Placed
    <2> QED BY <2>1, <2>3, OtherSent
  <1>3. CASE xQueueReceiveFromISR(c) BY <1>3, FirstGot DEF xQueueReceiveFromISR
  <1>4. CASE UNCHANGED wireVars BY <1>1, <1>4 DEF wireVars
  <1> QED BY <1>2, <1>3, <1>4 DEF BufferIsr, WireIsr

(* A task that sends a string does so at its next step.                    *)
LEMMA SenderSends ==
  ASSUME NEW t \in Slots, Acts(t), pc[t] \in {"call", "mid"}, call[t].op = "putstring"
  PROVE  vSerialPutString(t)
  <1>1. ~Enter(t, Objects)
    <2>1. Enter(t, Objects) => pc[t] = "c" BY Zenon DEF Enter, At
    <2> QED BY <2>1
  <1>2. ~TaskCall(t)
    BY DEF TaskCall, c_task_trampoline, Leave, xTaskCreate, ArmCreated, WriteHandle, Lookup,
           vTaskDelete, vTaskSuspend, vTaskResume, vTaskPrioritySet, xTaskAbortDelay, vTaskDelay,
           xTaskDelayUntil, vTaskSuspendAll, xTaskResumeAll, xTaskCatchUpTicks,
           vPortGenerateSimulatedInterrupt, idle, Calling, At
  <1>3. ~GroupCall(t)
    BY DEF GroupCall, xEventGroupCreate, vEventGroupDelete, xEventGroupSetBits,
           xEventGroupClearBits, xEventGroupWaitBits, xEventGroupSync, Calling, Looping, At
  <1>4. ~timer_daemon(t) BY DEF timer_daemon, At
  <1>5. ~NotifyCall(t)
    BY DEF NotifyCall, Query, xTaskGenericNotify, xTaskGenericNotifyWait, ulTaskGenericNotifyTake,
           xTaskGenericNotifyStateClear, ulTaskGenericNotifyValueClear, Calling, Looping, At
  <1>6. BufferCall(t) => vSerialPutString(t)
    BY DEF BufferCall, StreamCall, WireCall, LockCall, xStreamBufferGenericCreate, FlagCreated,
           vStreamBufferDelete, xStreamBufferSend, xStreamBufferReceive, Attempt, CountReceive,
           xStreamBufferReset, xSerialPortInitMinimal, xSerialPutChar, xSerialGetChar,
           xQueueGenericReset, xQueueSemaphoreTake, xQueueTakeMutexRecursive,
           xQueueGiveMutexRecursive, Calling, Looping, At
  <1> QED BY <1>1, <1>2, <1>3, <1>4, <1>5, <1>6 DEF Acts

-----------------------------------------------------------------------------
(* The task that sends strings.                                            *)

StringOps == {"putstring"}

(* Where a task is in its string: nothing has gone yet, or the last        *)
(* character there is is the last of its own.                              *)
Midway(u) ==
  \/ pc[u] = "call" /\ call[u].p = 0
  \/ pc[u] = "mid" /\ call[u].p \in Nat \ {0} /\ EndsIn(call[u].p)

Strings ==
  /\ Sound
  /\ \A u \in Slots : pc[u] \in Sending /\ call[u].op = "putstring" => Midway(u)

(* The sender's own step.                                                  *)
LEMMA StringGoes ==
  ASSUME IInv, WireTyped, CallsTyped, Strings, NEW t \in Slots, vSerialPutString(t)
  PROVE  Sound' /\ (pc'[t] \in Sending => Midway(t)')
  <1>1. /\ pc[t] \in Sending /\ call[t].op = "putstring" /\ UNCHANGED <<PORT, got>>
        /\ (WireTakes /\ wire' = Append(wire, call[t].p + 1)) \/ (~WireTakes /\ wire' = wire)
    BY DEF vSerialPutString, Looping, At, Sending
  <1>2. Sound /\ Midway(t) BY <1>1 DEF Strings
  <1>3. call[t] \in Calls /\ call[t].p < StrLen
    BY <1>1 DEF CallsTyped, Good, Sending, Busy, Working
  <1>4. PICK p \in Nat : p = call[t].p BY <1>3 DEF Calls
  <1>5. p + 1 \in Chars /\ (p # 0 => EndsIn(p))
    BY <1>2, <1>3, <1>4, BuffersAssumption DEF Chars, Midway
  <1>6. CASE WireTakes /\ wire' = Append(wire, p + 1)
    <2>1. Sound' /\ EndsIn(p + 1)' BY <1>1, <1>2, <1>5, <1>6, CharSent
    <2>2. CASE DropsTheRest(t)
      <3>1. pc'[t] = "c" BY <2>2 DEF vSerialPutString, Goto, IInv, Shape
      <3> QED BY <2>1, <3>1 DEF Sending
    <2>3. CASE ~DropsTheRest(t)
      <3> DEFINE d == [call[t] EXCEPT !.p = p + 1]
      <3>1. /\ pc' = [pc EXCEPT ![t] = "mid"]
            /\ call' = [call EXCEPT ![t] = d]
        BY <1>4, <2>3 DEF vSerialPutString
      <3>2. d.p = p + 1 BY <1>3 DEF Calls
      <3> HIDE DEF d
      <3>3. pc'[t] = "mid" /\ call'[t].p = p + 1 BY <3>1, <3>2 DEF IInv, Shape
      <3>4. p + 1 \in Nat \ {0} OBVIOUS
      <3> QED BY <2>1, <3>3, <3>4 DEF Midway, EndsIn
    <2> QED BY <2>2, <2>3
  <1>7. CASE ~WireTakes /\ wire' = wire
    <2>1. Sound' BY <1>1, <1>2, <1>7 DEF Sound
    <2>2. DropsTheRest(t) BY <1>7 DEF DropsTheRest
    <2>3. pc'[t] = "c" BY <2>2 DEF vSerialPutString, Goto, IInv, Shape
    <2> QED BY <2>1, <2>3 DEF Sending
  <1> QED BY <1>1, <1>4, <1>7, <1>6

(* The others' leave it, and themselves, where they are.                   *)
LEMMA MidwayKept ==
  ASSUME NEW u \in Slots, Midway(u), pc'[u] = pc[u], call'[u] = call[u],
         \A p : EndsIn(p) => EndsIn(p)'
  PROVE  Midway(u)'
  <1>1. CASE pc[u] = "call" BY <1>1 DEF Midway
  <1>2. CASE pc[u] = "mid"
    <2>1. PICK p \in Nat \ {0} : p = call[u].p /\ EndsIn(p) BY <1>2 DEF Midway
    <2>2. EndsIn(p)' BY <2>1
    <2> QED BY <1>2, <2>1, <2>2 DEF Midway, EndsIn
  <1> QED BY <1>1, <1>2 DEF Midway

(* The C begins to send a string.                                          *)
LEMMA StringBegins ==
  ASSUME IInv, NEW t \in Slots, Enter(t, Objects), pc'[t] \in Sending, call'[t].op = "putstring"
  PROVE  Midway(t)'
  <1>1. PICK c \in Code[entry[t]] :
          /\ entry[t] \in Functions /\ call'[t].op = c.op
          /\ call'[t].p = IF c.whom # "self" THEN handle[c.whom]
                          ELSE IF c.op \in DOMAIN Objects THEN Objects[c.op] ELSE NULL
          /\ pc'[t] = IF c.op = "return" THEN "parked" ELSE "call"
    BY Entering
  <1>2. c.op = "putstring" BY <1>1
  <1>3. c.whom = "self" BY <1>1, <1>2, TasksAssumption DEF NamingOps
  <1>4. c.op \notin DOMAIN Objects BY <1>2 DEF Objects, GroupOps, StreamOps, WireOps
  <1>5. pc'[t] = "call" /\ call'[t].p = 0 BY <1>1, <1>2, <1>3, <1>4 DEF NULL
  <1> QED BY <1>1, <1>2, <1>5 DEF Midway
(* A step of a task.                                                       *)
LEMMA StringsActs ==
  ASSUME IInv, Faithful, WireTyped, CallsTyped, Strings, OneCalls(StringOps), Lone(StringOps),
         NEW t \in Slots, Acts(t), BufferCall(t) \/ UNCHANGED wireVars
  PROVE  Strings'
  <1>1. Frame(t) /\ Others(t) BY ActsFrame, ActsMove
  <1>2. program \in Programs BY DEF IInv, Shape
  <1>3. Sound' /\ (vSerialPutString(t) \/ \A p : EndsIn(p) => EndsIn(p)')
    <2>1. CASE vSerialPutString(t) BY <2>1, StringGoes
    <2>2. CASE BufferCall(t) /\ ~vSerialPutString(t) BY <2>2, OthersSend DEF Strings
    <2>3. CASE UNCHANGED wireVars BY <2>3 DEF wireVars, Strings, Sound, EndsIn
    <2> QED BY <2>1, <2>2, <2>3
  <1>4. ASSUME NEW u \in Slots, pc'[u] \in Sending, call'[u].op = "putstring"
        PROVE  Midway(u)'
    <2>1. CASE u # t
      <3>1. pc'[u] = pc[u] /\ call'[u] = call[u] BY <1>1, <1>4, <2>1 DEF Others, Sending
      <3>2. Midway(u) /\ entry[u] \in Callers(StringOps)
        BY <1>4, <3>1 DEF Strings, Lone, StringOps
      <3>3. ~vSerialPutString(t)
        <4> SUFFICES ASSUME vSerialPutString(t) PROVE FALSE OBVIOUS
        <4>1. pc[t] \in Sending /\ call[t].op \in StringOps
          BY DEF vSerialPutString, Looping, At, Sending, StringOps
        <4>2. entry[t] \in Callers(StringOps) BY <4>1 DEF Lone
        <4> QED BY <1>2, <2>1, <3>2, <4>2, TheOne
      <3> QED BY <1>3, <3>1, <3>2, <3>3, MidwayKept
    <2>2. CASE u = t /\ Enter(t, Objects) BY <1>4, <2>2, StringBegins
    <2>3. CASE u = t /\ ~Enter(t, Objects)
      <3>1. Same(t) BY <1>4, <2>3, SameCall
      <3>2. pc[t] \in Sending /\ call[t].op = "putstring" BY <1>4, <2>3, <3>1 DEF Same
      <3>3. Midway(t) BY <3>2 DEF Strings
      <3>4. vSerialPutString(t) BY <3>2, <3>3, SenderSends DEF Midway
      <3> QED BY <1>4, <2>3, <3>4, StringGoes
    <2> QED BY <2>1, <2>2, <2>3
  <1> QED BY <1>3, <1>4 DEF Strings

(* Every step.                                                             *)
LEMMA StringsKept ==
  ASSUME OneSender
  PROVE  IInv /\ Faithful /\ Typed /\ Lone(StringOps) /\ Strings /\ Faithful' /\ [Next]_vars
         => Strings'
  <1> SUFFICES ASSUME IInv, Faithful, Typed, Lone(StringOps), Strings, Faithful', [Next]_vars
               PROVE  Strings'
    OBVIOUS
  <1>1. WireTyped /\ CallsTyped /\ OneCalls(StringOps) BY DEF Typed, OneSender, StringOps
  <1>2. ASSUME NEW t \in Slots, Acts(t), BufferCall(t) \/ UNCHANGED wireVars
        PROVE  Strings'
    BY <1>1, <1>2, StringsActs
  <1>3. ASSUME UNCHANGED <<pc, call>>, Sound', \A p : EndsIn(p) => EndsIn(p)'
        PROVE  Strings'
    <2>1. \A u \in Slots : Midway(u) => Midway(u)' BY <1>3, MidwayKept
    <2> QED BY <1>3, <2>1 DEF Strings
  <1>4. ASSUME UNCHANGED wireVars PROVE Sound' /\ \A p : EndsIn(p) => EndsIn(p)'
    BY <1>4 DEF wireVars, Strings, Sound, EndsIn
  <1>5. CASE (Tasks \/ Notifies \/ Groups) /\ UNCHANGED bufferVars
    BY <1>2, <1>5 DEF Tasks, Notifies, Groups, Acts, bufferVars
  <1>6. CASE main /\ UNCHANGED bufferVars
    <2>1. phase # "run" /\ (phase' # "run" \/ pc' = pc)
      BY <1>6 DEF main, CreateMonitor, ArmMonitor, StartDemo, start_scheduler, ArmBoth,
             start_first_task, AllArmed
    <2>2. \A u \in Slots : pc'[u] \in Unstarted BY <2>1 DEF Faithful
    <2> QED BY <1>4, <1>6, <2>2 DEF Strings, Sending, Unstarted, bufferVars
  <1>7. CASE (pick_next \/ SysTick({}) \/ NotifyIsr \/ GroupIsr) /\ UNCHANGED bufferVars
    <2>1. Ticks \/ pick_next BY <1>7, HalvesTick
    <2>2. UNCHANGED wireVars BY <1>7 DEF bufferVars
    <2> QED BY <1>3, <1>4, <2>1, <2>2, TimeStands
  <1>8. CASE Buffers BY <1>2, <1>8 DEF Buffers, Acts
  <1>9. CASE BuffersIsr
    <2>1. PICK c \in program.isr : BufferIsr(c) BY <1>9 DEF BuffersIsr
    <2>2. Sound /\ program \in Programs BY DEF Strings, IInv, Shape
    <2>3. Sound' /\ \A p : EndsIn(p) => EndsIn(p)' BY <1>1, <2>1, <2>2, IsrSends
    <2> QED BY <1>3, <1>9, <2>3, HalvesTick, TimeStands
  <1>10. CASE UNCHANGED vars
    <2>1. UNCHANGED <<pc, call, wireVars>> BY <1>10 DEF vars, taskVars, bufferVars
    <2> QED BY <1>3, <1>4, <2>1
  <1> QED BY <1>5, <1>6, <1>7, <1>8, <1>9, <1>10 DEF Next

(* NoGapInString: in every application one of whose tasks sends strings,   *)
(* what is on the wire and was last got of a string is the beginning of    *)
(* it, whoever else sends, however long the string and the wire are, and   *)
(* whenever there is room again.                                           *)
THEOREM StringsHaveNoGap ==
  ASSUME OneSender
  PROVE  Spec => []NoGapInString
  <1>1. Init => Strings
    <2> SUFFICES ASSUME TaskInit, BufferInit PROVE Strings BY DEF Init
    <2>1. got = 0 /\ wire = <<>> BY DEF BufferInit
    <2>2. Sound
      <3>1. Cells(got, wire)[0] = Other /\ Len(wire) = 0 BY <2>1 DEF Cells, Other
      <3> QED BY <3>1 DEF Sound, Gapless
    <2>3. \A u \in Slots : pc[u] = "off" BY DEF TaskInit
    <2> QED BY <2>2, <2>3 DEF Strings, Sending
  <1>2. Typed /\ Strings => NoGapInString
    <2> SUFFICES ASSUME WireTyped, Sound PROVE NoGapInString BY DEF Typed, Strings
    <2>1. got \in Chars /\ wire \in Seq(Chars) BY DEF WireTyped, Chars
    <2> HIDE DEF Chars
    <2> QED BY <2>1, LineCells DEF Sound, NoGapInString
  <1>3. Spec => []Typed
    BY TypedInit, TypedKept, AlwaysFitting, Invariant, PTL DEF Spec
  <1>4. OneCalls(StringOps) BY DEF OneSender, StringOps
  <1>5. Spec => []Lone(StringOps)
    <2>1. Init => Lone(StringOps) BY LoneInit
    <2>2. IInv /\ Faithful /\ Lone(StringOps) /\ IInv' /\ Faithful' /\ [Next]_vars
            => Lone(StringOps)'
      BY <1>4, LoneKept
    <2> QED BY <2>1, <2>2, Invariant, HandlesFaithful, PTL DEF Spec
  <1>6. Spec => []Strings
    BY <1>1, <1>3, <1>5, StringsKept, Invariant, HandlesFaithful, PTL DEF Spec
  <1> QED BY <1>2, <1>3, <1>6, PTL
-----------------------------------------------------------------------------
(* The receive that is measured.                                           *)

(* A receive with a block time, between its first try and its last.        *)
Receiving(u) == pc[u] \in {"blocked", "loop"} /\ call[u].op = "sbreceive" /\ call[u].n > 0

(* Its deadline is kept.  Only a slot that is being filled may still look  *)
(* like that of the receiver it had before.                                *)
Measured == \A u \in Slots : Receiving(u) /\ ~(mask /\ u = Fresh) => Timed(k, u, call[u].n)

(* Only xTaskCreate fills a slot, and the task has no thread yet.          *)
LEMMA BornFresh ==
  ASSUME IInv, Faithful, NEW t \in Slots, Acts(t), NEW u \in Born
  PROVE  mask' /\ u = Fresh'
  <1>1. u \in Slots /\ k.st[u] = "free" /\ k'.st[u] # "free" BY DEF Born
  <1>2. ~Ordinary(t) BY <1>1 DEF Ordinary, OrdStep, KOrd, Alive
  <1>3. ~(NotifyCall(t) \/ GroupCall(t) \/ timer_daemon(t) \/ BufferCall(t) \/ Enter(t, Objects))
    BY <1>2, NotifyCallOrdinary, GroupCallOrdinary, DaemonOrdinary, BufferCallOrdinary,
       EnterOrdinary
  <1>4. xTaskCreate(t) \/ ArmCreated(t) \/ vTaskDelete(t) \/ idle(t)
    BY <1>2, <1>3, TrampolineOrdinary, LeaveOrdinary, WriteHandleOrdinary,
       LookupOrdinary, SuspendOrdinary, ResumeOrdinary, PriorityOrdinary, AbortOrdinary,
       DelayOrdinary, SuspendAllOrdinary, ResumeAllOrdinary, CatchUpOrdinary, YieldOrdinary
    DEF Acts, TaskCall
  <1>5. ~ArmCreated(t) BY <1>1 DEF ArmCreated
  <1>6. k \in KType BY DEF IInv, Shape
  <1>7. ~idle(t)
    <2> SUFFICES ASSUME idle(t) PROVE FALSE OBVIOUS
    <2>1. k' = check_tasks_waiting_termination(k) BY DEF idle
    <2>2. k.st[u] # "gone" => k'.st[u] = k.st[u] BY <1>1, <1>6, <2>1, CollectDoes
    <2> QED BY <1>1, <2>2
  <1>8. ~vTaskDelete(t)
    <2> SUFFICES ASSUME vTaskDelete(t) PROVE FALSE OBVIOUS
    <2>1. CanRun(t) /\ pc[t] = "call" BY DEF vTaskDelete, Calling, At
    <2>2. Alive(k, t) BY <2>1, InCall DEF InACall, Calm
    <2>3. PICK s \in Named(t, call[t].p) : k' = task_delete(k, s)
      BY <1>1 DEF vTaskDelete
    <2>4. s \in Slots /\ Alive(k, s) BY <2>2, NamedAlive
    <2>5. u # s => k'.st[u] = k.st[u] BY <1>1, <1>6, <2>3, <2>4, DeleteDoes
    <2> QED BY <1>1, <2>4, <2>5 DEF Alive
  <1>9. CASE xTaskCreate(t)
    <2>1. CanRun(t) /\ pc[t] = "call" BY <1>9 DEF xTaskCreate, Calling, At
    <2>2. k.cur = t /\ IsCall(call[t]) BY <2>1, InCall DEF InACall, Calm
    <2>3. PICK s \in FreeSlots(k) :
            /\ k' = create_task(k, s, call[t].n) /\ mask' = TRUE
            /\ call' = [call EXCEPT ![t].p = handle_to_c(s, k.gen[s])]
      BY <1>1, <1>9 DEF xTaskCreate, Masked
    <2>4. s \in Slots BY DEF FreeSlots
    <2>5. call[t].n \in Nat /\ k.gen[s] \in Nat BY <1>6, <2>2, <2>4 DEF IsCall, KType
    <2>6. k'.cur = k.cur /\ (u # s => k'.st[u] = k.st[u])
      <3>1. Made(k, k', s, call[t].n) BY <1>6, <2>3, <2>4, <2>5, CreateMakes
      <3> QED BY <1>1, <3>1 DEF Made
    <2> DEFINE p == handle_to_c(s, k.gen[s])
    <2>7. call'[t].p = p
      <3>1. call'[t] = [call[t] EXCEPT !.p = p] BY <2>3 DEF IInv, Shape
      <3> HIDE DEF p
      <3> QED BY <2>2, <3>1 DEF IsCall
    <2>8. handle_from_c(p).slot = s BY <2>4, <2>5, Codec
    <2> HIDE DEF p
    <2>9. Fresh' = s BY <2>2, <2>6, <2>7, <2>8, Zenon DEF Fresh
    <2> QED BY <1>1, <2>3, <2>6, <2>9
  <1> QED BY <1>4, <1>5, <1>7, <1>8, <1>9

(* A task that makes buffers or receives does so at its next step.         *)
LEMMA ReaderGoes ==
  ASSUME NEW t \in Slots, Acts(t),
         (pc[t] \in Sending /\ call[t].op \in ReaderOps) \/ pc[t] = "count"
  PROVE  \/ xStreamBufferGenericCreate(t) \/ FlagCreated(t)
         \/ xStreamBufferReceive(t) \/ CountReceive(t)
         \/ pc[t] = "blocked" /\ Leave(t)
  <1>1. ~Enter(t, Objects)
    <2>1. Enter(t, Objects) => pc[t] = "c" BY Zenon DEF Enter, At
    <2> QED BY <2>1 DEF Sending
  <1>2. TaskCall(t) => pc[t] = "blocked" /\ Leave(t)
    BY DEF TaskCall, c_task_trampoline, Leave, xTaskCreate, ArmCreated, WriteHandle, Lookup,
           vTaskDelete, vTaskSuspend, vTaskResume, vTaskPrioritySet, xTaskAbortDelay, vTaskDelay,
           xTaskDelayUntil, vTaskSuspendAll, xTaskResumeAll, xTaskCatchUpTicks,
           vPortGenerateSimulatedInterrupt, idle, Calling, At, Sending, ReaderOps
  <1>3. ~GroupCall(t)
    BY DEF GroupCall, xEventGroupCreate, vEventGroupDelete, xEventGroupSetBits,
           xEventGroupClearBits, xEventGroupWaitBits, xEventGroupSync, Calling, Looping, At,
           Sending, ReaderOps
  <1>4. ~timer_daemon(t) BY DEF timer_daemon, At, Sending
  <1>5. ~NotifyCall(t)
    BY DEF NotifyCall, Query, xTaskGenericNotify, xTaskGenericNotifyWait, ulTaskGenericNotifyTake,
           xTaskGenericNotifyStateClear, ulTaskGenericNotifyValueClear, Calling, Looping, At,
           Sending, ReaderOps
  <1>6. BufferCall(t) => \/ xStreamBufferGenericCreate(t) \/ FlagCreated(t)
                         \/ xStreamBufferReceive(t) \/ CountReceive(t)
    BY DEF BufferCall, StreamCall, WireCall, LockCall, vStreamBufferDelete, xStreamBufferSend,
           vSerialPutString, xStreamBufferReset, xSerialPortInitMinimal, xSerialPutChar,
           xSerialGetChar, xQueueGenericReset, xQueueSemaphoreTake, xQueueTakeMutexRecursive,
           xQueueGiveMutexRecursive, Calling, Looping, At, Sending, ReaderOps
  <1> QED BY <1>1, <1>2, <1>3, <1>4, <1>5, <1>6 DEF Acts

(* A deadline that is set, and one that is set again.                      *)
LEMMA ParkTimes ==
  ASSUME NEW kk \in KType, NEW t \in Slots, NEW m \in Nat, NEW q \in Nat, q <= Forever,
         NEW n \in Nat, m = 0 \/ q + m <= n \/ (n > MaxWait /\ m > MaxWait)
  PROVE  Timed([Block(kk, t, m) EXCEPT !.since[t] = q], t, n)
  <1> DEFINE s == [kk.st EXCEPT ![t] = "blocked"]
             e == IF m > MaxWait THEN Forever ELSE m
             l == [kk.left EXCEPT ![t] = e]
             w == [kk.since EXCEPT ![t] = q]
             b == Block(kk, t, m)
             d == [b EXCEPT !.since[t] = q]
  <1>1. e \in Nat /\ (e = 0 \/ q + e <= n \/ (n > MaxWait /\ e > MaxWait))
    BY KernelAssumption DEF Forever
  <1>2. /\ s \in [Slots -> States] /\ l \in [Slots -> Nat] /\ w \in [Slots -> Nat]
        /\ l[t] = e /\ w[t] = q
    BY <1>1 DEF KType, States
  <1>3. b = [kk EXCEPT !.st = s, !.left = l] BY Zenon DEF Block
  <1> HIDE DEF s, e, l, b
  <1>4. b \in KType /\ b.left = l /\ b.since = kk.since BY <1>2, <1>3, Zenon DEF KType
  <1>5. d = [b EXCEPT !.since = w] BY <1>4, Zenon
  <1> HIDE DEF w, d
  <1>6. d.left = l /\ d.since = w BY <1>2, <1>4, <1>5, Zenon DEF KType
  <1>7. Timed(d, t, n) BY <1>1, <1>2, <1>6 DEF Timed
  <1> QED BY <1>7 DEF d, b

(* What a receive does to its deadline.                                    *)
LEMMA ReceiveParks ==
  ASSUME IInv, Fits(k), CallsTyped, Measured, NEW t \in Slots, xStreamBufferReceive(t),
         pc'[t] = "blocked", call[t].n > 0
  PROVE  call' = call /\ Timed(k', t, call[t].n)
  <1> DEFINE kk == IF pc[t] = "call" THEN SampledNow(t) ELSE k
             m == IF pc[t] = "loop" THEN k.left[t] ELSE call[t].n
  <1>1. Attempt(t, kk) BY DEF xStreamBufferReceive
  <1>2. /\ CanRun(t) /\ pc[t] \in {"call", "loop"} /\ pc[t] \in Busy /\ call[t].op = "sbreceive"
        /\ k \in KType /\ pc \in [Slots -> PCs]
    BY <1>1 DEF Attempt, Looping, Busy, Working, IInv, Shape
  <1>3. call[t].n \in Nat /\ k.left[t] \in Nat /\ k.since[t] \in Nat
    <2>1. call[t] \in Calls BY <1>2 DEF CallsTyped, Good
    <2> QED BY <1>2, <2>1 DEF Calls, KType
  <1>4. kk.since[t] = IF pc[t] = "call" THEN 0 ELSE k.since[t]
    <2> DEFINE w == [k.since EXCEPT ![t] = 0]
    <2>1. w[t] = 0 /\ SampledNow(t) = [k EXCEPT !.since = w] BY <1>2, Zenon DEF SampledNow, KType
    <2> HIDE DEF w
    <2>2. SampledNow(t).since = w BY <1>2, <2>1, Zenon DEF KType
    <2> QED BY <2>1, <2>2
  <1>5. m \in Nat /\ kk.since[t] \in Nat /\ kk.since[t] <= Forever
        /\ (m = 0 \/ kk.since[t] + m <= call[t].n \/ (call[t].n > MaxWait /\ m > MaxWait))
    <2>1. CASE pc[t] = "call" BY <1>3, <1>4, <2>1, KernelAssumption DEF Forever
    <2>2. CASE pc[t] = "loop"
      <3>1. ~mask BY <1>2, InCall DEF InACall, Calm
      <3>2. Timed(k, t, call[t].n) BY <1>2, <2>2, <3>1 DEF Measured, Receiving
      <3> QED BY <1>3, <1>4, <2>2, <3>2 DEF Timed
    <2> QED BY <1>2, <2>1, <2>2
  <1>6. Parked(t) = Block(k, t, m) BY <1>3 DEF Parked
  <1> HIDE DEF m, kk
  <1>7. /\ k' = [Parked(t) EXCEPT !.since[t] = IF call[t].n > 0 THEN kk.since[t] ELSE NoWait]
        /\ Goto(t, "blocked")
    <2>1. CASE pc' = [pc EXCEPT ![t] = IF call[t].n > 0 THEN "count" ELSE "c"]
      BY <1>2, <2>1
    <2>2. CASE Goto(t, "c") BY <1>2, <2>2 DEF Goto
    <2> QED BY <1>1, <2>1, <2>2 DEF Attempt
  <1>8. k' = [Block(k, t, m) EXCEPT !.since[t] = kk.since[t]] BY <1>6, <1>7
  <1>9. call' = call BY <1>7 DEF Goto
  <1>10. Timed(k', t, call[t].n) BY <1>2, <1>3, <1>5, <1>8, ParkTimes
  <1> QED BY <1>9, <1>10

(* A step of a task.                                                       *)
LEMMA MeasuredActs ==
  ASSUME IInv, Faithful, Arguments, Fits(k), CallsTyped, Measured, NEW t \in Slots, Acts(t)
  PROVE  Measured'
  <1>1. Frame(t) /\ Others(t) /\ Tame(k, k', {t} \cup Ours, {t} \cup Born)
    BY ActsFrame, ActsMove, ActsTame
  <1> SUFFICES ASSUME NEW u \in Slots, Receiving(u)', ~(mask /\ u = Fresh)'
               PROVE  Timed(k, u, call[u].n)'
    BY DEF Measured
  <1>2. pc'[u] \in {"blocked", "loop"} /\ call'[u].op = "sbreceive" /\ call'[u].n > 0
    BY DEF Receiving
  <1>3. ASSUME pc[u] \in {"blocked", "loop"}, call'[u] = call[u], ~(mask /\ u = Fresh)
        PROVE  Timed(k, u, call[u].n) /\ call[u].n \in Nat
    <2>1. pc[u] \in Busy BY <1>3 DEF Busy, Working
    <2>2. call[u] \in Calls BY <2>1 DEF CallsTyped, Good
    <2> QED BY <1>2, <1>3, <2>2 DEF Calls, Measured, Receiving
  <1>4. CASE u # t
    <2>1. ~(mask /\ u = Fresh)
      <3>1. mask => pc'[Fresh] = "new" BY MaskedArms
      <3> QED BY <1>2, <3>1
    <2>2. pc'[u] = pc[u] /\ call'[u] = call[u] BY <1>1, <1>4, <2>1 DEF Frame, Others
    <2>3. Timed(k, u, call[u].n) /\ call[u].n \in Nat BY <1>2, <1>3, <2>1, <2>2
    <2>4. u \notin Born BY BornFresh
    <2>5. Timed(k', u, call[u].n) BY <1>1, <1>4, <2>3, <2>4 DEF Tame, Lasts
    <2> QED BY <2>2, <2>5 DEF Timed
  <1>5. CASE u = t
    <2>1. ~Enter(t, Objects)
      <3>1. Enter(t, Objects) => pc'[t] \in {"call", "parked"} BY Entering
      <3> QED BY <1>2, <1>5, <3>1
    <2>2. Same(t) BY <1>2, <1>5, <2>1, SameCall DEF Sending
    <2>3. pc[t] \in Sending /\ call[t].op = "sbreceive" BY <1>2, <1>5, <2>2 DEF Same
    <2>4. CASE pc[t] = "blocked" /\ Leave(t)
      <3>1. k' = k /\ call' = call /\ ~mask
        <4>1. pc'[t] # "c" BY <1>2, <1>5
        <4>2. k' = k /\ \E at : Goto(t, at) BY <2>4 DEF Leave
        <4>3. PICK at : Goto(t, at) BY <4>2
        <4>4. pc'[t] = at BY <4>3 DEF Goto, IInv, Shape
        <4>5. call' = call BY <4>1, <4>3, <4>4 DEF Goto
        <4>6. ~mask BY <1>1, <2>4 DEF Frame, IInv, Masking
        <4> QED BY <4>2, <4>5, <4>6
      <3>2. Timed(k, u, call[u].n) BY <1>3, <1>5, <2>4, <3>1
      <3> QED BY <3>1, <3>2 DEF Timed
    <2>5. CASE xStreamBufferReceive(t)
      <3>1. pc'[t] = "blocked"
        <4>1. pc'[t] \in {"c", "count", "blocked"}
          BY <2>5 DEF xStreamBufferReceive, Attempt, Goto, IInv, Shape
        <4> QED BY <1>2, <1>5, <4>1
      <3>2. call[t].n > 0
        <4>1. CASE Goto(t, "blocked") BY <1>2, <1>5, <4>1 DEF Goto
        <4>2. CASE pc' = [pc EXCEPT ![t] = IF call[t].n > 0 THEN "count" ELSE "c"]
          BY <3>1, <4>2 DEF IInv, Shape
        <4>3. CASE Goto(t, "c") BY <3>1, <4>3 DEF Goto, IInv, Shape
        <4> QED BY <2>5, <4>1, <4>2, <4>3 DEF xStreamBufferReceive, Attempt
      <3>3. call' = call /\ Timed(k', t, call[t].n) BY <2>5, <3>1, <3>2, ReceiveParks
      <3> QED BY <1>5, <3>3 DEF Timed
    <2>6. CASE xStreamBufferGenericCreate(t) \/ FlagCreated(t) \/ CountReceive(t)
      <3>1. pc'[t] \in {"c", "mid"}
        BY <2>6 DEF xStreamBufferGenericCreate, FlagCreated, CountReceive, Goto, IInv, Shape
      <3> QED BY <1>2, <1>5, <3>1
    <2> QED BY <2>3, <2>4, <2>5, <2>6, ReaderGoes DEF ReaderOps
  <1> QED BY <1>4, <1>5

-----------------------------------------------------------------------------
(* The flag of the buffer, and what is counted.                            *)

(* The C has the handle of no buffer that is not made, and that of the     *)
(* last one only once its slot is flagged; a receive was given the handle  *)
(* there was.                                                              *)
Flagged ==
  /\ xStreamBuffer <= buffer.made
  /\ xStreamBuffer = buffer.made /\ buffer.made # NULL => (IS_TRIGGER_BUFFER <=> buffer.test)
  /\ \A u \in Slots : pc[u] = "mid" /\ call[u].op = "sbcreate"
                        => (buffer.test <=> call[u].x = "test")
  /\ \A u \in Slots : pc[u] \in Sending /\ call[u].op = "sbreceive" => call[u].p <= xStreamBuffer

(* A receive that is going to be counted was late.                         *)
Tallied ==
  /\ over \subseteq late
  /\ \A u \in Slots : pc[u] = "count" =>
       /\ entry[u] \in Callers(ReaderOps)
       /\ IS_TRIGGER_BUFFER /\ call[u].p > call[u].n => u \in late

(* The tasks in a call that somebody else's step leaves in it.             *)
Bystanders(t) ==
  \A u \in Slots : u # t /\ pc'[u] \in Sending \cup {"count"} =>
    pc'[u] = pc[u] /\ call'[u] = call[u] /\ entry'[u] = entry[u]

(* Nothing that concerns the buffer's readers.                             *)
ReadersRest ==
  /\ UNCHANGED <<xStreamBuffer, IS_TRIGGER_BUFFER, over, late>>
  /\ buffer'.made = buffer.made /\ buffer'.test = buffer.test

(* A step of a task is one only for itself.                                *)
LEMMA StandBy ==
  ASSUME IInv, Faithful, NEW t \in Slots, Acts(t)
  PROVE  Bystanders(t)
  <1> SUFFICES ASSUME NEW u \in Slots, u # t, pc'[u] \in Sending \cup {"count"}
               PROVE  pc'[u] = pc[u] /\ call'[u] = call[u] /\ entry'[u] = entry[u]
    BY DEF Bystanders
  <1>1. Frame(t) /\ Others(t) BY ActsFrame, ActsMove
  <1>2. ~(mask /\ u = Fresh)
    <2>1. mask => pc'[Fresh] = "new" BY MaskedArms
    <2> QED BY <2>1 DEF Sending
  <1> QED BY <1>1, <1>2 DEF Frame, Others, Sending

(* A buffer that is filled, drained or deleted is the same one.            *)
LEMMA SameBuffer ==
  ASSUME buffer \in StreamBuffers
  PROVE  /\ \A n : buffer' = [buffer EXCEPT !.level = n]
                     => buffer'.made = buffer.made /\ buffer'.test = buffer.test
         /\ \A b : buffer' = [buffer EXCEPT !.live = b]
                     => buffer'.made = buffer.made /\ buffer'.test = buffer.test
  BY DEF StreamBuffers

(* The other calls, and the interrupt forms.                               *)
LEMMA OthersRest ==
  ASSUME buffer \in StreamBuffers, NEW t \in Slots, BufferCall(t) \/ UNCHANGED bufferVars,
         ~xStreamBufferGenericCreate(t), ~FlagCreated(t), ~xStreamBufferReceive(t),
         ~CountReceive(t)
  PROVE  ReadersRest
  <1>1. CASE UNCHANGED streamVars BY <1>1 DEF streamVars, ReadersRest
  <1>2. CASE vStreamBufferDelete(t)
    <2>1. /\ UNCHANGED <<xStreamBuffer, IS_TRIGGER_BUFFER, over, late>>
          /\ \E b : buffer' = [buffer EXCEPT !.live = b]
      BY <1>2, Zenon DEF vStreamBufferDelete
    <2> QED BY <2>1, SameBuffer DEF ReadersRest
  <1>3. CASE xStreamBufferSend(t)
    <2>1. /\ UNCHANGED <<xStreamBuffer, IS_TRIGGER_BUFFER, over, late>>
          /\ buffer' = buffer \/ buffer' = [buffer EXCEPT !.level = @ + 1]
      BY <1>3 DEF xStreamBufferSend
    <2> QED BY <2>1, SameBuffer DEF ReadersRest
  <1>4. CASE xStreamBufferReset(t)
    <2>1. /\ UNCHANGED <<xStreamBuffer, IS_TRIGGER_BUFFER, over, late>>
          /\ \E n : buffer' = [buffer EXCEPT !.level = n]
      BY <1>4, Zenon DEF xStreamBufferReset
    <2> QED BY <2>1, SameBuffer DEF ReadersRest
  <1> QED BY <1>1, <1>2, <1>3, <1>4 DEF BufferCall, StreamCall, bufferVars

(* An interrupt half's calls.                                             *)
LEMMA IsrRests ==
  ASSUME buffer \in StreamBuffers, NEW c, BufferIsr(c)
  PROVE  ReadersRest
  <1>1. CASE UNCHANGED streamVars BY <1>1 DEF streamVars, ReadersRest
  <1>2. CASE StreamIsr(c)
    <2>1. /\ UNCHANGED <<xStreamBuffer, IS_TRIGGER_BUFFER, over, late>>
          /\ \/ buffer' = buffer \/ buffer' = [buffer EXCEPT !.level = @ + 1]
             \/ buffer' = [buffer EXCEPT !.level = 0]
      BY <1>2
      DEF StreamIsr, xStreamBufferSendFromISR, xStreamBufferReceiveFromISR,
          xStreamBufferSendCompletedFromISR
    <2> QED BY <2>1, SameBuffer DEF ReadersRest
  <1> QED BY <1>1, <1>2 DEF BufferIsr

(* Then the rule is kept.                                                  *)
LEMMA RestCounts ==
  ASSUME IInv, StreamTyped, Flagged, Tallied, NEW t \in Slots, Acts(t), Bystanders(t),
         ReadersRest, ~xStreamBufferGenericCreate(t), ~FlagCreated(t),
         ~xStreamBufferReceive(t), ~CountReceive(t)
  PROVE  Flagged' /\ Tallied'
  <1>1. pc'[t] # "count"
    <2>1. Enter(t, Objects) => pc'[t] \in {"call", "parked"} BY Entering
    <2> QED BY <2>1, SameCall
  <1>2. ASSUME pc'[t] \in Sending, call'[t].op \in ReaderOps
        PROVE  /\ pc'[t] # "mid"
               /\ call'[t].op = "sbreceive" => call'[t].p <= xStreamBuffer
    <2>1. CASE Enter(t, Objects)
      <3>1. PICK c \in Code[entry[t]] :
              /\ entry[t] \in Functions /\ call'[t].op = c.op
              /\ call'[t].p = IF c.whom # "self" THEN handle[c.whom]
                              ELSE IF c.op \in DOMAIN Objects THEN Objects[c.op] ELSE NULL
              /\ pc'[t] \in {"call", "parked"}
        BY <2>1, Entering
      <3>2. ASSUME c.op = "sbreceive" PROVE call'[t].p = xStreamBuffer
        <4>1. c.whom = "self" BY <3>1, <3>2, TasksAssumption DEF NamingOps
        <4>2. c.op \in DOMAIN Objects /\ Objects[c.op] = xStreamBuffer
          BY <3>2 DEF Objects, GroupOps, StreamOps, WireOps
        <4> QED BY <3>1, <4>1, <4>2
      <3>3. xStreamBuffer <= xStreamBuffer BY BuffersAssumption DEF StreamTyped
      <3> QED BY <3>1, <3>2, <3>3
    <2>2. CASE ~Enter(t, Objects)
      <3>1. Same(t) BY <1>2, <2>2, SameCall
      <3>2. pc[t] = "blocked" /\ Leave(t) BY <1>2, <3>1, ReaderGoes DEF Same
      <3>3. PICK at : Goto(t, at) /\ at \in {"c", "loop"} BY <3>2 DEF Leave, AfterYield
      <3>4. pc'[t] = at BY <3>3 DEF Goto, IInv, Shape
      <3>5. at = "loop" /\ call' = call BY <1>2, <3>3, <3>4 DEF Goto, Sending
      <3> QED BY <1>2, <3>2, <3>4, <3>5 DEF Flagged, Sending
    <2> QED BY <2>1, <2>2
  <1>3. ASSUME NEW u \in Slots, pc'[u] = "mid", call'[u].op = "sbcreate"
        PROVE  buffer'.test <=> call'[u].x = "test"
    BY <1>2, <1>3 DEF Flagged, Bystanders, ReadersRest, Sending, ReaderOps
  <1>4. ASSUME NEW u \in Slots, pc'[u] \in Sending, call'[u].op = "sbreceive"
        PROVE  call'[u].p <= xStreamBuffer'
    BY <1>2, <1>4 DEF Flagged, Bystanders, ReadersRest, ReaderOps
  <1>5. ASSUME NEW u \in Slots, pc'[u] = "count"
        PROVE  /\ entry'[u] \in Callers(ReaderOps)
               /\ IS_TRIGGER_BUFFER' /\ call'[u].p > call'[u].n => u \in late'
    BY <1>1, <1>5 DEF Tallied, Bystanders, ReadersRest
  <1>6. Flagged' BY <1>3, <1>4 DEF Flagged, ReadersRest
  <1>7. Tallied' BY <1>5 DEF Tallied, ReadersRest, Callers
  <1> QED BY <1>6, <1>7

(* A buffer is made, by the one task that receives.                        *)
LEMMA CreateCounts ==
  ASSUME IInv, StreamTyped, OneReader, Lone(ReaderOps), Flagged, Tallied, NEW t \in Slots,
         Bystanders(t), xStreamBufferGenericCreate(t)
  PROVE  Flagged' /\ Tallied'
  <1>1. /\ pc[t] = "call" /\ call[t].op = "sbcreate" /\ program \in Programs
        /\ UNCHANGED <<xStreamBuffer, IS_TRIGGER_BUFFER, over, late>>
    BY DEF xStreamBufferGenericCreate, Calling, At, IInv, Shape
  <1>2. entry[t] \in Callers(ReaderOps) BY <1>1 DEF Lone, Sending, ReaderOps
  <1>3. xStreamBuffer \in Nat /\ buffer.made \in Nat
    BY BufferFields, BuffersAssumption DEF StreamTyped
  <1>4. ASSUME NEW u \in Slots, u # t, pc'[u] = "mid" PROVE call'[u].op # "sbcreate"
    <2>1. pc[u] = "mid" /\ call'[u] = call[u] BY <1>4 DEF Bystanders, Sending
    <2>2. call[u].op \in ReaderOps => entry[u] \in Callers(ReaderOps)
      BY <2>1 DEF Lone, Sending
    <2>3. call[u].op \in ReaderOps => u = t
      BY <1>1, <1>2, <2>2, TheOne DEF OneReader
    <2> QED BY <1>4, <2>1, <2>3 DEF ReaderOps
  <1>5. pc'[t] \in {"mid", "c"} /\ (pc'[t] = "mid" => call' = call)
    BY DEF xStreamBufferGenericCreate, Goto, IInv, Shape
  <1>6. \/ /\ buffer'.made = buffer.made + 1 /\ (buffer'.test <=> call[t].x = "test")
           /\ call' = call
        \/ buffer' = buffer /\ pc'[t] = "c"
    <2> DEFINE n == buffer.made + 1
               test == call[t].x = "test"
    <2>1. CASE /\ buffer' = [made |-> n, live |-> TRUE, test |-> test, level |-> 0]
               /\ Goto(t, "mid")
      <3>1. call' = call BY <2>1 DEF Goto
      <3>2. buffer' = [made |-> n, live |-> TRUE, test |-> test, level |-> 0] BY <2>1
      <3> HIDE DEF n, test
      <3>3. buffer'.made = n /\ buffer'.test = test BY <3>2, Zenon
      <3> QED BY <3>1, <3>3 DEF n, test
    <2>2. CASE Goto(t, "c") /\ UNCHANGED buffer
      BY <2>2 DEF Goto, IInv, Shape
    <2> QED BY <2>1, <2>2 DEF xStreamBufferGenericCreate
  <1>7. ASSUME NEW u \in Slots, pc'[u] \in Sending, call'[u].op = "sbreceive"
        PROVE  call'[u].p <= xStreamBuffer'
    BY <1>1, <1>5, <1>7 DEF Flagged, Bystanders, Sending
  <1>8. ASSUME NEW u \in Slots, pc'[u] = "count"
        PROVE  /\ entry'[u] \in Callers(ReaderOps)
               /\ IS_TRIGGER_BUFFER' /\ call'[u].p > call'[u].n => u \in late'
    BY <1>1, <1>5, <1>8 DEF Tallied, Bystanders
  <1>9. ASSUME NEW u \in Slots, pc'[u] = "mid", call'[u].op = "sbcreate"
        PROVE  buffer'.test <=> call'[u].x = "test"
    BY <1>4, <1>6, <1>9
  <1>10. /\ xStreamBuffer <= buffer'.made
         /\ xStreamBuffer = buffer'.made /\ buffer'.made # NULL
              => (IS_TRIGGER_BUFFER <=> buffer'.test)
    BY <1>3, <1>6 DEF Flagged
  <1>11. Flagged' BY <1>1, <1>7, <1>9, <1>10 DEF Flagged
  <1>12. Tallied' BY <1>1, <1>8 DEF Tallied, Callers
  <1> QED BY <1>11, <1>12

(* Its slot is flagged: it is in the middle of no receive.                 *)
LEMMA FlagCounts ==
  ASSUME IInv, StreamTyped, CallsTyped, OneReader, Lone(ReaderOps), Flagged, Tallied,
         NEW t \in Slots, Bystanders(t), FlagCreated(t)
  PROVE  Flagged' /\ Tallied'
  <1>1. /\ pc[t] = "mid" /\ call[t].op = "sbcreate" /\ program \in Programs
        /\ xStreamBuffer' = buffer.made /\ (IS_TRIGGER_BUFFER' <=> call[t].x = "test")
        /\ UNCHANGED <<buffer, over, late>>
    BY DEF FlagCreated, Flag, At, IInv, Shape
  <1>2. pc'[t] = "c" BY DEF FlagCreated, Goto, IInv, Shape
  <1>3. entry[t] \in Callers(ReaderOps) BY <1>1 DEF Lone, Sending, ReaderOps
  <1>4. xStreamBuffer \in Nat /\ buffer.made \in Nat
    BY BufferFields, BuffersAssumption DEF StreamTyped
  <1>5. ASSUME NEW u \in Slots, pc'[u] = "count" PROVE FALSE
    <2>1. u # t BY <1>2, <1>5
    <2>2. pc[u] = "count" BY <1>5, <2>1 DEF Bystanders
    <2>3. entry[u] \in Callers(ReaderOps) BY <2>2 DEF Tallied
    <2> QED BY <1>1, <1>3, <2>1, <2>3, TheOne DEF OneReader
  <1>6. ASSUME NEW u \in Slots, pc'[u] = "mid", call'[u].op = "sbcreate"
        PROVE  buffer'.test <=> call'[u].x = "test"
    BY <1>1, <1>2, <1>6 DEF Flagged, Bystanders, Sending
  <1>7. ASSUME NEW u \in Slots, pc'[u] \in Sending, call'[u].op = "sbreceive"
        PROVE  call'[u].p <= xStreamBuffer'
    <2>1. u # t BY <1>2, <1>7 DEF Sending
    <2>2. pc[u] \in Sending /\ call'[u] = call[u] BY <1>7, <2>1 DEF Bystanders
    <2>3. call[u].p <= xStreamBuffer /\ xStreamBuffer <= buffer.made
      BY <1>7, <2>2 DEF Flagged
    <2>4. call[u].p \in Nat
      <3>1. call[u] \in Calls BY <2>2 DEF CallsTyped, Good, Sending, Busy, Working
      <3> QED BY <3>1 DEF Calls
    <2> QED BY <1>1, <1>4, <2>2, <2>3, <2>4
  <1>8. IS_TRIGGER_BUFFER' <=> buffer'.test BY <1>1 DEF Flagged
  <1>9. xStreamBuffer' <= buffer'.made BY <1>1, <1>4
  <1>10. Flagged' BY <1>6, <1>7, <1>8, <1>9 DEF Flagged
  <1>11. Tallied' BY <1>1, <1>5 DEF Tallied, Callers
  <1> QED BY <1>10, <1>11

(* A receive that took longer than its block time was late.                *)
LEMMA ReceiveCounts ==
  ASSUME IInv, Fits(k), StreamTyped, CallsTyped, Measured, Lone(ReaderOps), Flagged, Tallied,
         NEW t \in Slots, Bystanders(t), Frame(t), xStreamBufferReceive(t)
  PROVE  Flagged' /\ Tallied'
  <1> DEFINE kk == IF pc[t] = "call" THEN SampledNow(t) ELSE k
  <1>1. Attempt(t, kk) BY DEF xStreamBufferReceive
  <1>2. /\ CanRun(t) /\ pc[t] \in {"call", "loop"} /\ pc[t] \in Busy /\ call[t].op = "sbreceive"
        /\ k \in KType /\ UNCHANGED <<xStreamBuffer, IS_TRIGGER_BUFFER>>
    BY <1>1 DEF Attempt, Looping, Busy, Working, IInv, Shape
  <1>3. call[t] \in Calls /\ call[t].n \in Nat /\ call[t].p \in Nat /\ k.left[t] \in Nat
        /\ k.since[t] \in Nat /\ xStreamBuffer \in Nat /\ buffer.made \in Nat
    <2>1. call[t] \in Calls BY <1>2 DEF CallsTyped, Good
    <2>2. xStreamBuffer \in Nat /\ buffer.made \in Nat
      BY BufferFields, BuffersAssumption DEF StreamTyped
    <2> QED BY <1>2, <2>1, <2>2 DEF Calls, KType
  <1>4. kk.since[t] = IF pc[t] = "call" THEN 0 ELSE k.since[t]
    <2> DEFINE w == [k.since EXCEPT ![t] = 0]
    <2>1. w[t] = 0 /\ SampledNow(t) = [k EXCEPT !.since = w] BY <1>2, Zenon DEF SampledNow, KType
    <2> HIDE DEF w
    <2>2. SampledNow(t).since = w BY <1>2, <2>1, Zenon DEF KType
    <2> QED BY <2>1, <2>2
  <1>5. ~mask BY <1>2, InCall DEF InACall, Calm
  <1>6. buffer'.made = buffer.made /\ buffer'.test = buffer.test
    <2>1. buffer' = buffer \/ buffer' = [buffer EXCEPT !.level = 0] BY <1>1, Zenon DEF Attempt
    <2> QED BY <2>1, SameBuffer DEF StreamTyped
  <1>7. entry'[t] = entry[t] /\ entry[t] \in Callers(ReaderOps)
    BY <1>2, <1>5 DEF Frame, Lone, Sending, ReaderOps
  <1> HIDE DEF kk
  <1>8. \/ pc'[t] = "c" /\ UNCHANGED <<over, late>>
        \/ pc'[t] = "blocked" /\ call' = call /\ UNCHANGED <<over, late>>
        \/ /\ stream_from_c(call[t].p) /\ call[t].n = 0 /\ pc'[t] = "c" /\ UNCHANGED <<over, late>>
        \/ /\ stream_from_c(call[t].p) /\ call[t].n > 0 /\ pc'[t] = "count"
           /\ call' = [call EXCEPT ![t] = [call[t] EXCEPT !.p = kk.since[t]]]
           /\ over' = over \ {t}
           /\ late' = IF buffer.test /\ TimedOut(t) THEN late \cup {t} ELSE late \ {t}
    <2>1. pc \in [Slots -> PCs] BY DEF IInv, Shape
    <2>2. call[t].n = 0 \/ call[t].n > 0 BY <1>3
    <2> QED BY <1>1, <2>1, <2>2 DEF Attempt, Goto
  <1>9. Flagged'
    <2>1. ASSUME NEW u \in Slots, pc'[u] = "mid", call'[u].op = "sbcreate"
          PROVE  buffer'.test <=> call'[u].x = "test"
      BY <1>6, <1>8, <2>1 DEF Flagged, Bystanders, Sending
    <2>2. ASSUME NEW u \in Slots, pc'[u] \in Sending, call'[u].op = "sbreceive"
          PROVE  call'[u].p <= xStreamBuffer'
      BY <1>2, <1>8, <2>2 DEF Flagged, Bystanders, Sending
    <2> QED BY <1>2, <1>6, <2>1, <2>2 DEF Flagged
  <1>10. over' \subseteq late' /\ \A u \in late : u # t => u \in late'
    BY <1>8 DEF Tallied
  <1>11. ASSUME pc'[t] = "count", IS_TRIGGER_BUFFER, call'[t].p > call'[t].n
         PROVE  t \in late'
    <2> DEFINE q == kk.since[t]
               d == [call[t] EXCEPT !.p = q]
    <2>1. /\ stream_from_c(call[t].p) /\ call[t].n > 0
          /\ call' = [call EXCEPT ![t] = d]
          /\ late' = IF buffer.test /\ TimedOut(t) THEN late \cup {t} ELSE late \ {t}
      BY <1>8, <1>11
    <2>2. call'[t] = d BY <2>1 DEF IInv, Shape
    <2> HIDE DEF q
    <2>3. d.p = q /\ d.n = call[t].n BY <1>3 DEF Calls
    <2> HIDE DEF d
    <2>4. q > call[t].n BY <1>11, <2>2, <2>3
    <2>5. pc[t] = "loop" /\ q = k.since[t] BY <1>2, <1>3, <1>4, <2>1, <2>4 DEF q
    <2>6. Timed(k, t, call[t].n) BY <1>2, <1>5, <2>1, <2>5 DEF Measured, Receiving
    <2>7. k.left[t] = 0 BY <1>3, <2>4, <2>5, <2>6, KernelAssumption DEF Timed, Forever
    <2>8. buffer.test
      <3>1. call[t].p # NULL /\ call[t].p = buffer.made BY <2>1 DEF stream_from_c
      <3>2. call[t].p <= xStreamBuffer /\ xStreamBuffer <= buffer.made
        BY <1>2 DEF Flagged, Sending
      <3> QED BY <1>3, <1>11, <3>1, <3>2 DEF Flagged
    <2> QED BY <2>1, <2>5, <2>7, <2>8 DEF TimedOut
  <1>12. ASSUME NEW u \in Slots, pc'[u] = "count"
         PROVE  /\ entry'[u] \in Callers(ReaderOps)
                /\ IS_TRIGGER_BUFFER' /\ call'[u].p > call'[u].n => u \in late'
    <2>1. CASE u = t BY <1>2, <1>7, <1>11, <1>12, <2>1
    <2>2. CASE u # t BY <1>2, <1>10, <1>12, <2>2 DEF Tallied, Bystanders
    <2> QED BY <2>1, <2>2
  <1>13. Tallied' BY <1>10, <1>12 DEF Tallied, Callers
  <1> QED BY <1>9, <1>13

(* It is counted.                                                          *)
LEMMA CountCounts ==
  ASSUME IInv, Flagged, Tallied, NEW t \in Slots, Bystanders(t), CountReceive(t)
  PROVE  Flagged' /\ Tallied'
  <1>1. /\ pc[t] = "count" /\ pc'[t] = "c"
        /\ over' = IF IS_TRIGGER_BUFFER /\ call[t].p > call[t].n THEN over \cup {t} ELSE over
        /\ UNCHANGED <<buffer, xStreamBuffer, IS_TRIGGER_BUFFER, late>>
    BY DEF CountReceive, At, Goto, IInv, Shape
  <1>2. over' \subseteq late' BY <1>1 DEF Tallied
  <1>3. Flagged' BY <1>1 DEF Flagged, Bystanders, Sending
  <1>4. ASSUME NEW u \in Slots, pc'[u] = "count"
        PROVE  /\ entry'[u] \in Callers(ReaderOps)
               /\ IS_TRIGGER_BUFFER' /\ call'[u].p > call'[u].n => u \in late'
    BY <1>1, <1>4 DEF Tallied, Bystanders
  <1>5. Tallied' BY <1>2, <1>4 DEF Tallied, Callers
  <1> QED BY <1>3, <1>5

(* Every step.                                                             *)
LEMMA CountsKept ==
  ASSUME OneReader
  PROVE  /\ IInv /\ Faithful /\ Arguments /\ Typed /\ Lone(ReaderOps)
         /\ Measured /\ Flagged /\ Tallied /\ Faithful' /\ [Next]_vars
         => Measured' /\ Flagged' /\ Tallied'
  <1> SUFFICES ASSUME IInv, Faithful, Arguments, Typed, Lone(ReaderOps), Measured, Flagged,
                      Tallied, Faithful', [Next]_vars
               PROVE  Measured' /\ Flagged' /\ Tallied'
    OBVIOUS
  <1>1. Fits(k) /\ CallsTyped /\ StreamTyped BY DEF Typed, Fitting
  <1>2. ASSUME NEW t \in Slots, Acts(t), BufferCall(t) \/ UNCHANGED bufferVars
        PROVE  Measured' /\ Flagged' /\ Tallied'
    <2>1. Measured' BY <1>1, <1>2, MeasuredActs
    <2>2. Bystanders(t) /\ Frame(t) BY <1>2, StandBy, ActsFrame
    <2>3. CASE \/ xStreamBufferGenericCreate(t) \/ FlagCreated(t)
               \/ xStreamBufferReceive(t) \/ CountReceive(t)
      BY <1>1, <2>1, <2>2, <2>3, CreateCounts, FlagCounts, ReceiveCounts, CountCounts
    <2>4. CASE ~(\/ xStreamBufferGenericCreate(t) \/ FlagCreated(t)
                 \/ xStreamBufferReceive(t) \/ CountReceive(t))
      <3>1. ReadersRest BY <1>1, <1>2, <2>4, OthersRest DEF StreamTyped, StreamBuffers
      <3> QED BY <1>1, <1>2, <2>1, <2>2, <2>4, <3>1, RestCounts
    <2> QED BY <2>3, <2>4
  <1>3. ASSUME UNCHANGED <<pc, call, entry>>, ReadersRest PROVE Flagged' /\ Tallied'
    BY <1>3 DEF Flagged, Tallied, ReadersRest, Callers
  <1>4. UNCHANGED bufferVars => ReadersRest BY DEF bufferVars, streamVars, ReadersRest
  <1>5. ASSUME Ticks \/ pick_next, ReadersRest PROVE Measured' /\ Flagged' /\ Tallied'
    <2>1. UNCHANGED <<mask, pc, call, entry>> /\ ~mask BY <1>5, TimeStands
    <2>2. Tame(k, k', {}, {}) BY <1>1, <1>5, TicksTame, SwitchTame DEF pick_next
    <2>3. ASSUME NEW u \in Slots, Receiving(u) PROVE Timed(k', u, call[u].n)
      <3>1. call[u] \in Calls BY <1>1, <2>3 DEF Receiving, CallsTyped, Good, Busy, Working
      <3>2. call[u].n \in Nat /\ Timed(k, u, call[u].n)
        BY <2>1, <2>3, <3>1 DEF Calls, Measured
      <3> QED BY <2>2, <3>2 DEF Tame, Lasts
    <2>4. Measured' BY <2>1, <2>3 DEF Measured, Receiving, Timed
    <2> QED BY <1>3, <1>5, <2>1, <2>4
  <1>6. CASE (Tasks \/ Notifies \/ Groups) /\ UNCHANGED bufferVars
    BY <1>2, <1>6 DEF Tasks, Notifies, Groups, Acts
  <1>7. CASE main /\ UNCHANGED bufferVars
    <2>1. phase # "run" /\ (phase' # "run" \/ pc' = pc)
      BY <1>7 DEF main, CreateMonitor, ArmMonitor, StartDemo, start_scheduler, ArmBoth,
             start_first_task, AllArmed
    <2>2. \A u \in Slots : pc'[u] \in Unstarted BY <2>1 DEF Faithful
    <2>3. Measured' BY <2>2 DEF Measured, Receiving, Unstarted
    <2>4. Flagged' /\ Tallied'
      BY <1>4, <1>7, <2>2 DEF Flagged, Tallied, ReadersRest, Sending, Unstarted
    <2> QED BY <2>3, <2>4
  <1>8. CASE (pick_next \/ SysTick({}) \/ NotifyIsr \/ GroupIsr) /\ UNCHANGED bufferVars
    BY <1>4, <1>5, <1>8, HalvesTick
  <1>9. CASE Buffers BY <1>2, <1>9 DEF Buffers, Acts
  <1>10. CASE BuffersIsr
    <2>1. ReadersRest BY <1>1, <1>10, IsrRests DEF BuffersIsr, StreamTyped
    <2> QED BY <1>5, <1>10, <2>1, HalvesTick
  <1>11. CASE UNCHANGED vars
    <2>1. UNCHANGED <<k, mask, pc, call, entry, bufferVars>>
      BY <1>11 DEF vars, taskVars
    <2>2. Measured' BY <2>1 DEF Measured, Receiving, Timed, Fresh
    <2> QED BY <1>3, <1>4, <2>1, <2>2
  <1> QED BY <1>6, <1>7, <1>8, <1>9, <1>10, <1>11 DEF Next

(* NoFalseOverblock: in every application one of whose tasks makes the     *)
(* stream buffers and receives from them, a receive that is counted in     *)
(* SB_OVERBLOCKS had outlived the kernel's own deadline on a buffer of the *)
(* trigger test: wherever the ticks land, however many of them an end of a *)
(* suspension makes up for, whoever ends the wait early, and whatever      *)
(* buffer had the slot before.                                             *)
THEOREM NoOverblockIsFalse ==
  ASSUME OneReader
  PROVE  Spec => []NoFalseOverblock
  <1>1. Init => Measured /\ Flagged /\ Tallied
    <2> SUFFICES ASSUME TaskInit, BufferInit PROVE Measured /\ Flagged /\ Tallied BY DEF Init
    <2>1. \A u \in Slots : pc[u] = "off" BY DEF TaskInit
    <2>2. xStreamBuffer = 0 /\ buffer.made = 0 /\ over = {} /\ late = {} BY DEF BufferInit, NULL
    <2> QED BY <2>1, <2>2 DEF Measured, Receiving, Flagged, Tallied, Sending, NULL
  <1>2. Tallied => NoFalseOverblock BY DEF Tallied, NoFalseOverblock
  <1>3. Spec => []Typed BY TypedInit, TypedKept, AlwaysFitting, Invariant, PTL DEF Spec
  <1>4. Spec => []Lone(ReaderOps)
    <2>1. Init => Lone(ReaderOps) BY LoneInit
    <2>2. IInv /\ Faithful /\ Lone(ReaderOps) /\ IInv' /\ Faithful' /\ [Next]_vars
            => Lone(ReaderOps)'
      BY LoneKept DEF OneReader
    <2> QED BY <2>1, <2>2, Invariant, HandlesFaithful, PTL DEF Spec
  <1>5. Spec => [](Measured /\ Flagged /\ Tallied)
    BY <1>1, <1>3, <1>4, CountsKept, Invariant, HandlesFaithful, ArgumentsNameTheirTasks, PTL
    DEF Spec
  <1> QED BY <1>2, <1>5, PTL

-----------------------------------------------------------------------------
(* Tasks that meet without a deadline.                                     *)

(* A task that waits for as long as it takes, and that no interrupt woke.  *)
Resting(kk, u) == kk.st[u] = "blocked" /\ kk.left[u] > MaxWait /\ u \notin kk.late

(* What a call of the kernel leaves alone: but for the tasks it is about,  *)
(* nobody is suspended or ended, and but for those it wakes nobody's rest  *)
(* is broken.                                                              *)
Leaves(k1, k2, about, woken) ==
  /\ k2 \in KType
  /\ \A u \in Slots \ about :
       k1.st[u] \in {"ready", "blocked"} => k2.st[u] \in {k1.st[u], "ready"}
  /\ \A u \in Slots \ woken : Resting(k1, u) => Resting(k2, u)

(* What its caller keeps: nothing but its own wish suspends or ends it.    *)
Keeps(k1, k2, t) == k1.st[t] \in {"ready", "blocked"} => k2.st[t] \in {"ready", "blocked"}

(* Two calls in a row.                                                     *)
LEMMA LeavesTrans ==
  ASSUME NEW k1, NEW k2, NEW k3, NEW about, NEW woken,
         Leaves(k1, k2, about, woken), Leaves(k2, k3, about, woken)
  PROVE  Leaves(k1, k3, about, woken)
  BY DEF Leaves

(* A call about fewer is about more.                                       *)
LEMMA LeavesMore ==
  ASSUME NEW k1, NEW k2, NEW few, NEW about, NEW some, NEW woken,
         Leaves(k1, k2, few, some), few \subseteq about, some \subseteq woken
  PROVE  Leaves(k1, k2, about, woken)
  BY DEF Leaves

(* No call at all.                                                         *)
LEMMA LeavesNone == ASSUME NEW kk \in KType PROVE Leaves(kk, kk, {}, {})
  BY DEF Leaves

(* Waking.                                                                 *)
LEMMA WakeLeaves ==
  ASSUME NEW kk \in KType, NEW who
  PROVE  Leaves(kk, Wake(kk, who), {}, who)
  <1> DEFINE st == [t \in Slots |-> IF t \in who THEN "ready" ELSE kk.st[t]]
             b == Wake(kk, who)
  <1>1. st \in [Slots -> States] BY DEF KType, States
  <1>2. b = [kk EXCEPT !.st = st] BY DEF Wake
  <1>3. \A s \in Slots : st[s] = IF s \in who THEN "ready" ELSE kk.st[s] OBVIOUS
  <1> HIDE DEF st, b
  <1>4. b \in KType /\ b.st = st /\ b.left = kk.left /\ b.late = kk.late
    BY <1>1, <1>2, Zenon DEF KType
  <1> QED BY <1>3, <1>4 DEF Leaves, Resting, b

(* Blocking a task.                                                        *)
LEMMA BlockLeaves ==
  ASSUME NEW kk \in KType, NEW t \in Slots, NEW n \in Nat
  PROVE  Leaves(kk, Block(kk, t, n), {t}, {t})
  <1> DEFINE m == IF n > MaxWait THEN Forever ELSE n
             st == [kk.st EXCEPT ![t] = "blocked"]
             l == [kk.left EXCEPT ![t] = m]
             b == Block(kk, t, n)
  <1>1. m \in Nat BY KernelAssumption DEF Forever
  <1>2. b = [kk EXCEPT !.st = st, !.left = l] BY Zenon DEF Block
  <1> HIDE DEF m
  <1>3. st \in [Slots -> States] /\ l \in [Slots -> Nat] BY <1>1 DEF KType, States
  <1>4. \A s \in Slots \ {t} : st[s] = kk.st[s] /\ l[s] = kk.left[s] BY DEF KType
  <1> HIDE DEF st, l, b
  <1>5. b \in KType /\ b.st = st /\ b.left = l /\ b.late = kk.late
    BY <1>2, <1>3, Zenon DEF KType
  <1> QED BY <1>4, <1>5 DEF Leaves, Resting, b

(* And for as long as it takes, if it says so: a rest begins.              *)
LEMMA BlockDoes ==
  ASSUME NEW kk \in KType, NEW t \in Slots, NEW n \in Nat
  PROVE  /\ Keeps(kk, Block(kk, t, n), t)
         /\ n = Forever /\ t \notin kk.late => Resting(Block(kk, t, n), t)
  <1> DEFINE m == IF n > MaxWait THEN Forever ELSE n
             st == [kk.st EXCEPT ![t] = "blocked"]
             l == [kk.left EXCEPT ![t] = m]
             b == Block(kk, t, n)
  <1>1. b = [kk EXCEPT !.st = st, !.left = l] BY Zenon DEF Block
  <1>2. n = Forever => m > MaxWait BY KernelAssumption DEF Forever
  <1> HIDE DEF m
  <1>3. st[t] = "blocked" /\ l[t] = m BY DEF KType
  <1> HIDE DEF st, l, b
  <1>4. b.st = st /\ b.left = l /\ b.late = kk.late BY <1>1, Zenon DEF KType
  <1>5. b.st[t] = "blocked" /\ b.left[t] = m BY <1>3, <1>4
  <1> QED BY <1>2, <1>4, <1>5 DEF Resting, Keeps, b

(* Time passing, which ends no rest.                                       *)
LEMMA AdvanceLeaves ==
  ASSUME NEW kk \in KType, NEW n \in Nat
  PROVE  Leaves(kk, Advance(kk, n), {}, {})
  <1> DEFINE w == Wake(kk, Expiring(kk, n))
             l == [t \in Slots |-> IF kk.left[t] > MaxWait THEN kk.left[t]
                               ELSE IF kk.left[t] > n THEN kk.left[t] - n ELSE 0]
             s == [t \in Slots |-> IF kk.since[t] = NoWait THEN NoWait
                                ELSE IF kk.since[t] + n > Forever THEN Forever
                                ELSE kk.since[t] + n]
             b == Advance(kk, n)
  <1>1. Leaves(kk, w, {}, Expiring(kk, n)) BY WakeLeaves
  <1>2. w \in KType BY <1>1 DEF Leaves
  <1>3. l \in [Slots -> Nat] /\ s \in [Slots -> Nat]
    <2>1. \A t \in Slots : kk.left[t] \in Nat /\ kk.since[t] \in Nat BY DEF KType
    <2> QED BY <2>1, KernelAssumption DEF NoWait, Forever
  <1>4. b = [w EXCEPT !.left = l, !.since = s] BY DEF Advance
  <1>5. w.left = kk.left BY Zenon DEF Wake, KType
  <1>6. \A u \in Slots : Resting(kk, u) => u \notin Expiring(kk, n) /\ l[u] = kk.left[u]
    <2>1. \A u \in Slots : kk.left[u] \in Nat BY DEF KType
    <2> QED BY <2>1, KernelAssumption DEF Resting, Expiring
  <1> HIDE DEF w, l, s, b
  <1>7. b \in KType /\ b.st = w.st /\ b.left = l /\ b.late = w.late
    BY <1>2, <1>3, <1>4, Zenon DEF KType
  <1> QED BY <1>1, <1>5, <1>6, <1>7 DEF Leaves, Resting, b

(* A tick.                                                                 *)
LEMMA TickLeaves == ASSUME NEW kk \in KType PROVE Leaves(kk, increment_tick(kk), {}, {})
  <1> DEFINE m == IF kk.missed < MaxMissed THEN kk.missed + 1 ELSE kk.missed
             b == increment_tick(kk)
  <1>1. CASE kk.lock
    <2>1. b = [kk EXCEPT !.missed = m] BY <1>1, Zenon DEF increment_tick
    <2>2. m \in Nat BY DEF KType
    <2> HIDE DEF m, b
    <2>3. b \in KType /\ b.st = kk.st /\ b.left = kk.left /\ b.late = kk.late
      BY <2>1, <2>2, Zenon DEF KType
    <2> QED BY <2>3 DEF Leaves, Resting, b
  <1>2. CASE ~kk.lock BY <1>2, AdvanceLeaves DEF increment_tick
  <1> QED BY <1>1, <1>2

(* Waking from an interrupt.                                               *)
LEMMA IsrLeaves ==
  ASSUME NEW kk \in KType, NEW who \in SUBSET Slots
  PROVE  Leaves(kk, WakeFromIsr(kk, who), {}, who)
  <1> DEFINE l == kk.late \cup who
             b == WakeFromIsr(kk, who)
  <1>1. CASE kk.lock
    <2>1. b = [kk EXCEPT !.late = l] BY <1>1, Zenon DEF WakeFromIsr
    <2>2. l \in SUBSET Slots BY DEF KType
    <2>3. \A u \in Slots \ who : u \in l => u \in kk.late OBVIOUS
    <2> HIDE DEF l, b
    <2>4. b \in KType /\ b.st = kk.st /\ b.left = kk.left /\ b.late = l
      BY <2>1, <2>2, Zenon DEF KType
    <2> QED BY <2>3, <2>4 DEF Leaves, Resting, b
  <1>2. CASE ~kk.lock BY <1>2, WakeLeaves DEF WakeFromIsr
  <1> QED BY <1>1, <1>2

(* A task created, in a slot that was free.                                *)
LEMMA CreateLeaves ==
  ASSUME NEW kk \in KType, NEW t \in Slots, kk.st[t] = "free", NEW p \in Nat
  PROVE  Leaves(kk, create_task(kk, t, p), {}, {})
  <1> DEFINE st == [kk.st EXCEPT ![t] = "ready"]
             q == [kk.prio EXCEPT ![t] = Clamp(p)]
             l == [kk.left EXCEPT ![t] = NoWait]
             b == create_task(kk, t, p)
  <1>1. Clamp(p) \in Nat /\ NoWait \in Nat BY KernelAssumption DEF Clamp, NoWait
  <1>2. b = [kk EXCEPT !.st = st, !.prio = q, !.left = l] BY Zenon DEF create_task
  <1>3. st \in [Slots -> States] /\ q \in [Slots -> Nat] /\ l \in [Slots -> Nat]
    BY <1>1 DEF KType, States
  <1>4. \A s \in Slots : s # t => st[s] = kk.st[s] /\ l[s] = kk.left[s] BY DEF KType
  <1> HIDE DEF st, q, l, b
  <1>5. b \in KType /\ b.st = st /\ b.left = l /\ b.late = kk.late
    BY <1>2, <1>3, Zenon DEF KType
  <1> QED BY <1>4, <1>5 DEF Leaves, Resting, b

(* A task deleted.                                                         *)
LEMMA DeleteLeaves ==
  ASSUME NEW kk \in KType, NEW t \in Slots
  PROVE  Leaves(kk, task_delete(kk, t), {t}, {t})
  <1> DEFINE st(s) == [kk.st EXCEPT ![t] = s]
             g == [kk.gen EXCEPT ![t] = @ + 1]
             l == kk.late \ {t}
             b == task_delete(kk, t)
  <1>1. /\ st("gone") \in [Slots -> States] /\ st("free") \in [Slots -> States]
        /\ g \in [Slots -> Nat \ {0}] /\ l \in SUBSET Slots
    BY DEF KType, States
  <1>2. \A s \in Slots : s # t => /\ st("gone")[s] = kk.st[s] /\ st("free")[s] = kk.st[s]
                                  /\ s \in l => s \in kk.late
    BY DEF KType
  <1>3. b \in {[kk EXCEPT !.st = st("gone"), !.late = l],
               [kk EXCEPT !.st = st("free"), !.gen = g, !.late = l]}
    BY Zenon DEF task_delete, Freed
  <1> HIDE DEF st, g, l, b
  <1>4. b \in KType /\ b.st \in {st("gone"), st("free")} /\ b.left = kk.left /\ b.late = l
    <2>1. CASE b = [kk EXCEPT !.st = st("gone"), !.late = l] BY <1>1, <2>1, Zenon DEF KType
    <2>2. CASE b = [kk EXCEPT !.st = st("free"), !.gen = g, !.late = l]
      BY <1>1, <2>2, Zenon DEF KType
    <2> QED BY <1>3, <2>1, <2>2
  <1> QED BY <1>2, <1>4 DEF Leaves, Resting, b

(* The idle task's collection.                                             *)
LEMMA CollectLeaves ==
  ASSUME NEW kk \in KType
  PROVE  Leaves(kk, check_tasks_waiting_termination(kk), {}, {})
  <1> DEFINE st == [t \in Slots |-> IF kk.st[t] = "gone" THEN "free" ELSE kk.st[t]]
             g == [t \in Slots |-> IF kk.st[t] = "gone" THEN kk.gen[t] + 1 ELSE kk.gen[t]]
             b == check_tasks_waiting_termination(kk)
  <1>1. st \in [Slots -> States] /\ g \in [Slots -> Nat \ {0}] BY DEF KType, States
  <1>2. b = [kk EXCEPT !.st = st, !.gen = g] BY Zenon DEF check_tasks_waiting_termination
  <1>3. \A s \in Slots : kk.st[s] # "gone" => st[s] = kk.st[s] OBVIOUS
  <1> HIDE DEF st, g, b
  <1>4. b \in KType /\ b.st = st /\ b.left = kk.left /\ b.late = kk.late
    BY <1>1, <1>2, Zenon DEF KType
  <1> QED BY <1>3, <1>4 DEF Leaves, Resting, b

(* A task suspended, and resumed.                                          *)
LEMMA SuspendLeaves ==
  ASSUME NEW kk \in KType, NEW t \in Slots
  PROVE  Leaves(kk, suspend(kk, t), {t}, {t})
  <1> DEFINE st == [kk.st EXCEPT ![t] = "suspended"]
             l == kk.late \ {t}
             b == suspend(kk, t)
  <1>1. st \in [Slots -> States] /\ l \in SUBSET Slots BY DEF KType, States
  <1>2. b = [kk EXCEPT !.st = st, !.late = l] BY Zenon DEF suspend
  <1>3. \A s \in Slots : s # t => st[s] = kk.st[s] /\ (s \in l => s \in kk.late) BY DEF KType
  <1> HIDE DEF st, l, b
  <1>4. b \in KType /\ b.st = st /\ b.left = kk.left /\ b.late = l
    BY <1>1, <1>2, Zenon DEF KType
  <1> QED BY <1>3, <1>4 DEF Leaves, Resting, b

(* One that is resumed was not resting.                                    *)
LEMMA ResumeLeaves == ASSUME NEW kk \in KType, NEW t PROVE Leaves(kk, resume(kk, t), {}, {})
  <1>1. CASE kk.st[t] = "suspended"
    <2>1. Leaves(kk, resume(kk, t), {}, {t}) BY <1>1, WakeLeaves DEF resume
    <2>2. ~Resting(kk, t) BY <1>1 DEF Resting
    <2> QED BY <2>1, <2>2 DEF Leaves
  <1>2. CASE kk.st[t] # "suspended" BY <1>2, LeavesNone DEF resume
  <1> QED BY <1>1, <1>2

(* A priority.                                                             *)
LEMMA PriorityLeaves ==
  ASSUME NEW kk \in KType, NEW t \in Slots, NEW p \in Nat
  PROVE  Leaves(kk, set_priority(kk, t, p), {}, {})
  <1> DEFINE q == [kk.prio EXCEPT ![t] = Clamp(p)]
             b == set_priority(kk, t, p)
  <1>1. Clamp(p) \in Nat BY KernelAssumption DEF Clamp
  <1>2. b = [kk EXCEPT !.prio = q] BY Zenon DEF set_priority
  <1>3. q \in [Slots -> Nat] BY <1>1 DEF KType
  <1> HIDE DEF q, b
  <1>4. b \in KType /\ b.st = kk.st /\ b.left = kk.left /\ b.late = kk.late
    BY <1>2, <1>3, Zenon DEF KType
  <1> QED BY <1>4 DEF Leaves, Resting, b

(* What a task saw of the clock.                                           *)
LEMMA SinceLeaves ==
  ASSUME NEW kk \in KType, NEW t \in Slots, NEW n \in Nat
  PROVE  Leaves(kk, [kk EXCEPT !.since[t] = n], {}, {})
  <1> DEFINE q == [kk.since EXCEPT ![t] = n]
             b == [kk EXCEPT !.since[t] = n]
  <1>1. b = [kk EXCEPT !.since = q] BY Zenon
  <1>2. q \in [Slots -> Nat] BY DEF KType
  <1> HIDE DEF q, b
  <1>3. b \in KType /\ b.st = kk.st /\ b.left = kk.left /\ b.late = kk.late
    BY <1>1, <1>2, Zenon DEF KType
  <1> QED BY <1>3 DEF Leaves, Resting, b

(* A wait that is ended.                                                   *)
LEMMA AbortLeaves ==
  ASSUME NEW kk \in KType, NEW t \in Slots
  PROVE  Leaves(kk, abort_delay(kk, t), {}, {t})
  <1> DEFINE w == Wake(kk, {t})
             q == [w.left EXCEPT ![t] = 0]
             b == abort_delay(kk, t)
  <1>1. Leaves(kk, w, {}, {t}) BY WakeLeaves
  <1>2. w \in KType BY <1>1 DEF Leaves
  <1>3. b = [w EXCEPT !.left = q] BY Zenon DEF abort_delay
  <1> HIDE DEF w
  <1>4. q \in [Slots -> Nat] /\ \A u \in Slots : u # t => q[u] = w.left[u] BY <1>2 DEF KType
  <1> HIDE DEF q, b
  <1>5. b \in KType /\ b.st = w.st /\ b.left = q /\ b.late = w.late
    BY <1>2, <1>3, <1>4, Zenon DEF KType
  <1> QED BY <1>1, <1>4, <1>5 DEF Leaves, Resting, b

(* The scheduler suspended, and resumed: whom it wakes then was woken.     *)
LEMMA SuspendAllLeaves == ASSUME NEW kk \in KType PROVE Leaves(kk, suspend_all(kk), {}, {})
  <1> DEFINE b == suspend_all(kk)
  <1>1. b = [kk EXCEPT !.lock = TRUE] BY Zenon DEF suspend_all
  <1> HIDE DEF b
  <1>2. b \in KType /\ b.st = kk.st /\ b.left = kk.left /\ b.late = kk.late
    BY <1>1, Zenon DEF KType
  <1> QED BY <1>2 DEF Leaves, Resting, b

(* The end of it.                                                          *)
LEMMA ResumeAllLeaves == ASSUME NEW kk \in KType PROVE Leaves(kk, resume_all(kk), {}, {})
  <1> DEFINE w == Wake(kk, kk.late)
             a == Advance(w, kk.missed)
             b == resume_all(kk)
  <1>1. Leaves(kk, w, {}, kk.late) BY WakeLeaves
  <1>2. w \in KType /\ kk.missed \in Nat BY <1>1 DEF Leaves, KType
  <1>3. Leaves(w, a, {}, {}) BY <1>2, AdvanceLeaves
  <1>4. a \in KType BY <1>3 DEF Leaves
  <1>5. b = [a EXCEPT !.lock = FALSE, !.late = {}, !.missed = 0] BY Zenon DEF resume_all
  <1> HIDE DEF w, a, b
  <1>6. {} \in SUBSET Slots /\ FALSE \in BOOLEAN /\ 0 \in Nat OBVIOUS
  <1>7. b \in KType /\ b.st = a.st /\ b.left = a.left /\ b.late = {}
    BY <1>4, <1>5, <1>6, Zenon DEF KType
  <1> QED BY <1>1, <1>3, <1>7 DEF Leaves, Resting, b

(* The switch.                                                             *)
LEMMA SwitchLeaves ==
  ASSUME NEW kk \in KType, NEW b \in switch_context(kk)
  PROVE  Leaves(kk, b, {}, {})
  <1>1. b \in KType /\ b.st = kk.st /\ b.late = kk.late BY SwitchDoes
  <1>2. b.left = kk.left
    <2>1. CASE kk.lock
      <3>1. b = [kk EXCEPT !.declined = TRUE] BY <2>1, Zenon DEF switch_context
      <3> QED BY <3>1, Zenon DEF KType
    <2>2. CASE ~kk.lock
      <3> DEFINE whom == IF Best(kk) \subseteq {kk.cur} THEN Best(kk) ELSE Best(kk) \ {kk.cur}
      <3>1. b \in {[kk EXCEPT !.cur = t, !.declined = FALSE] : t \in whom}
        BY <2>2, Zenon DEF switch_context
      <3> HIDE DEF whom
      <3>2. PICK t \in whom : b = [kk EXCEPT !.cur = t, !.declined = FALSE] BY <3>1, Zenon
      <3> QED BY <3>2, Zenon DEF KType
    <2> QED BY <2>1, <2>2
  <1> QED BY <1>1, <1>2 DEF Leaves, Resting

(* Whom a call that ends, suspends or wakes up a task by force is about.   *)
Forced == {"delete", "suspend", "abort"}
Touched(t) == IF pc[t] = "call" /\ call[t].op \in Forced THEN Named(t, call[t].p) ELSE {}

(* The calls that change the tasks themselves.                             *)
LEMMA TaskLeaves ==
  ASSUME IInv, NEW t \in Slots, TaskCall(t)
  PROVE  /\ Leaves(k, k', {t} \cup Touched(t), {t} \cup Touched(t))
         /\ t \notin Touched(t) => Keeps(k, k', t)
  <1> DEFINE delays == vTaskDelay(t) \/ xTaskDelayUntil(t)
             about == Touched(t) \cup IF delays THEN {t} ELSE {}
  <1> SUFFICES Leaves(k, k', about, about) /\ (delays => Keeps(k, k', t))
    <2>1. about \subseteq {t} \cup Touched(t) OBVIOUS
    <2>2. t \notin Touched(t) /\ ~delays => t \notin about OBVIOUS
    <2> HIDE DEF about, delays
    <2>3. Leaves(k, k', about, about) => Leaves(k, k', {t} \cup Touched(t), {t} \cup Touched(t))
      BY <2>1, LeavesMore
    <2>4. Leaves(k, k', about, about) /\ t \notin about => Keeps(k, k', t) BY DEF Leaves, Keeps
    <2> QED BY <2>2, <2>3, <2>4
  <1> HIDE DEF about
  <1> SUFFICES Leaves(k, k', about, about)
    <2>1. ASSUME delays PROVE Keeps(k, k', t)
      <3>1. k \in KType /\ (Calling(t, "delay") \/ Calling(t, "delayuntil"))
        BY <2>1 DEF IInv, Shape, vTaskDelay, xTaskDelayUntil
      <3>2. IsCall(call[t]) BY <3>1, InCall DEF Calling, At, InACall, Calm
      <3>3. \A n \in 1 .. call[t].n : n \in Nat OBVIOUS
      <3>4. k' = k \/ \E n \in Nat : k' = Block(k, t, n)
        BY <2>1, <3>2, <3>3 DEF vTaskDelay, xTaskDelayUntil, IsCall
      <3> QED BY <3>1, <3>4, BlockDoes DEF Keeps
    <2> QED BY <2>1
  <1>1. k \in KType /\ Leaves(k, k, {}, {}) BY LeavesNone DEF IInv, Shape
  <1>2. ASSUME Leaves(k, k', {}, {}) PROVE Leaves(k, k', about, about) BY <1>2, LeavesMore
  <1>3. ASSUME NEW s \in about, Leaves(k, k', {s}, {s}) \/ Leaves(k, k', {}, {s})
        PROVE  Leaves(k, k', about, about)
    BY <1>3, LeavesMore
  <1>4. ASSUME NEW op, Calling(t, op)
        PROVE  /\ call[t].n \in Nat
               /\ \A s \in Named(t, call[t].p) : s \in Slots /\ (op \in Forced => s \in about)
    <2>1. CanRun(t) /\ pc[t] = "call" /\ call[t].op = op BY <1>4 DEF Calling, At
    <2>2. IsCall(call[t]) BY <2>1, InCall DEF InACall, Calm
    <2>3. \A s \in Named(t, call[t].p) : s \in Slots BY DEF Named
    <2>4. op \in Forced => Touched(t) = Named(t, call[t].p) BY <2>1 DEF Touched
    <2> QED BY <2>2, <2>3, <2>4 DEF IsCall, about
  <1>5. CASE UNCHANGED k BY <1>1, <1>2, <1>5
  <1>6. CASE xTaskCreate(t)
    <2>1. call[t].n \in Nat BY <1>4, <1>6 DEF xTaskCreate
    <2>2. k' = k \/ \E s \in FreeSlots(k) : k' = create_task(k, s, call[t].n)
      BY <1>6 DEF xTaskCreate
    <2>3. \A s \in FreeSlots(k) : s \in Slots /\ k.st[s] = "free" BY DEF FreeSlots
    <2> QED BY <1>1, <1>2, <2>1, <2>2, <2>3, CreateLeaves
  <1>7. CASE vTaskDelete(t)
    <2>1. k' = k \/ \E s \in Named(t, call[t].p) : k' = task_delete(k, s)
      BY <1>7 DEF vTaskDelete
    <2>2. \A s \in Named(t, call[t].p) : s \in Slots /\ s \in about
      BY <1>4, <1>7 DEF vTaskDelete, Forced
    <2> QED BY <1>1, <1>2, <1>3, <2>1, <2>2, DeleteLeaves
  <1>8. CASE vTaskSuspend(t)
    <2>1. k' = k \/ \E s \in Named(t, call[t].p) : k' = suspend(k, s)
      BY <1>8 DEF vTaskSuspend
    <2>2. \A s \in Named(t, call[t].p) : s \in Slots /\ s \in about
      BY <1>4, <1>8 DEF vTaskSuspend, Forced
    <2> QED BY <1>1, <1>2, <1>3, <2>1, <2>2, SuspendLeaves
  <1>9. CASE vTaskResume(t)
    <2>1. k' = k \/ \E s \in Named(t, call[t].p) : k' = resume(k, s) BY <1>9 DEF vTaskResume
    <2> QED BY <1>1, <1>2, <2>1, ResumeLeaves
  <1>10. CASE vTaskPrioritySet(t)
    <2>1. /\ \A s \in Named(t, call[t].p) : s \in Slots
          /\ call[t].n \in Nat
      BY <1>4, <1>10 DEF vTaskPrioritySet
    <2>2. k' = k \/ \E s \in Named(t, call[t].p) : k' = set_priority(k, s, call[t].n)
      BY <1>10 DEF vTaskPrioritySet
    <2> QED BY <1>1, <1>2, <2>1, <2>2, PriorityLeaves
  <1>11. CASE xTaskAbortDelay(t)
    <2>1. \A s \in Named(t, call[t].p) : s \in Slots /\ s \in about
      BY <1>4, <1>11 DEF xTaskAbortDelay, Forced
    <2>2. k' = k \/ \E s \in Named(t, call[t].p) : k' = abort_delay(k, s)
      BY <1>11 DEF xTaskAbortDelay
    <2> QED BY <1>1, <1>2, <1>3, <2>1, <2>2, AbortLeaves
  <1>12. CASE vTaskDelay(t) \/ xTaskDelayUntil(t)
    <2>1. call[t].n \in Nat BY <1>4, <1>12 DEF vTaskDelay, xTaskDelayUntil
    <2>2. \A n \in 1 .. call[t].n : n \in Nat OBVIOUS
    <2>3. k' = k \/ \E n \in Nat : k' = Block(k, t, n)
      BY <1>12, <2>1, <2>2 DEF vTaskDelay, xTaskDelayUntil
    <2>4. t \in about BY <1>12 DEF about
    <2> QED BY <1>1, <1>2, <1>3, <2>3, <2>4, BlockLeaves
  <1>13. CASE vTaskSuspendAll(t) BY <1>1, <1>2, <1>13, SuspendAllLeaves DEF vTaskSuspendAll
  <1>14. CASE xTaskResumeAll(t) BY <1>1, <1>2, <1>14, ResumeAllLeaves DEF xTaskResumeAll
  <1>15. CASE xTaskCatchUpTicks(t)
    <2>1. k' = k \/ k' = increment_tick(k) BY <1>15 DEF xTaskCatchUpTicks
    <2> QED BY <1>1, <1>2, <2>1, TickLeaves
  <1>16. CASE idle(t) BY <1>1, <1>2, <1>16, CollectLeaves DEF idle
  <1> QED
    BY <1>5, <1>6, <1>7, <1>8, <1>9, <1>10, <1>11, <1>12, <1>13, <1>14, <1>15, <1>16
    DEF TaskCall, c_task_trampoline, Leave, ArmCreated, WriteHandle, Lookup,
        vPortGenerateSimulatedInterrupt

(* Parking is about the caller.                                            *)
LEMMA ParkedLeaves ==
  ASSUME IInv, NEW t \in Slots, CanRun(t), pc[t] \in Calm
  PROVE  Leaves(k, Parked(t), {t}, {t}) /\ Keeps(k, Parked(t), t)
  <1>1. k \in KType /\ IsCall(call[t]) BY InCall DEF InACall
  <1>2. CASE call[t].n = 0 BY <1>1, <1>2, LeavesNone, LeavesMore DEF Parked, Keeps
  <1>3. CASE call[t].n # 0
    <2> DEFINE n == IF pc[t] = "loop" THEN k.left[t] ELSE call[t].n
    <2>1. n \in Nat BY <1>1 DEF KType, IsCall
    <2>2. Parked(t) = Block(k, t, n) BY <1>3 DEF Parked
    <2> HIDE DEF n
    <2> QED BY <1>1, <2>1, <2>2, BlockLeaves, BlockDoes
  <1> QED BY <1>2, <1>3

(* A call that minds its own business, but for those it wakes.             *)
Minds(t, who) == Leaves(k, k', {t}, {t} \cup who) /\ Keeps(k, k', t)

(* The calls that only wake others, park their own task, or both.          *)
LEMMA WakingLeaves ==
  ASSUME IInv, NEW t \in Slots, CanRun(t), pc[t] \in Calm, NEW who,
         k' \in {k, Parked(t), Wake(k, who), Wake(Parked(t), who)}
  PROVE  Minds(t, who)
  <1>1. Leaves(k, Parked(t), {t}, {t}) /\ Keeps(k, Parked(t), t) BY ParkedLeaves
  <1>2. k \in KType /\ Parked(t) \in KType BY <1>1 DEF Leaves, IInv, Shape
  <1>3. Leaves(k, k, {}, {}) BY <1>2, LeavesNone
  <1>4. Leaves(k, Wake(k, who), {}, who) BY <1>2, WakeLeaves
  <1>5. Leaves(Parked(t), Wake(Parked(t), who), {}, who) BY <1>2, WakeLeaves
  <1>6. Leaves(k, Parked(t), {t}, {t} \cup who) BY <1>1, LeavesMore
  <1>7. Leaves(Parked(t), Wake(Parked(t), who), {t}, {t} \cup who) BY <1>5, LeavesMore
  <1>8. Leaves(k, Wake(Parked(t), who), {t}, {t} \cup who) BY <1>6, <1>7, LeavesTrans
  <1>9. Leaves(k, k', {t}, {t} \cup who)
    <2>1. CASE k' = k BY <1>3, <2>1, LeavesMore
    <2>2. CASE k' = Wake(k, who) BY <1>4, <2>2, LeavesMore
    <2> QED BY <1>6, <1>8, <2>1, <2>2
  <1>10. Keeps(k, k', t)
    <2>1. Keeps(k, k, t) /\ Keeps(k, Wake(k, who), t) BY <1>4 DEF Leaves, Keeps
    <2>2. Keeps(Parked(t), Wake(Parked(t), who), t) BY <1>5 DEF Leaves, Keeps
    <2> QED BY <1>1, <2>1, <2>2 DEF Keeps
  <1> QED BY <1>9, <1>10 DEF Minds

(* Waking fewer is no worse.                                               *)
LEMMA MindsMore ==
  ASSUME NEW t, NEW some, NEW who, Minds(t, some), some \subseteq who
  PROVE  Minds(t, who)
  <1>1. {t} \subseteq {t} /\ {t} \cup some \subseteq {t} \cup who OBVIOUS
  <1> QED BY <1>1, LeavesMore DEF Minds

(* Notifications.                                                          *)
LEMMA NotifyLeaves ==
  ASSUME IInv, NEW t \in Slots, NotifyCall(t)
  PROVE  Minds(t, {s \in Slots : nstate[s] = "waiting"})
  <1> DEFINE those == {s \in Slots : nstate[s] = "waiting"}
  <1>1. CanRun(t) /\ pc[t] \in Calm
    BY DEF NotifyCall, Query, xTaskGenericNotify, xTaskGenericNotifyWait, ulTaskGenericNotifyTake,
           xTaskGenericNotifyStateClear, ulTaskGenericNotifyValueClear, Calling, Looping, At, Calm
  <1>2. \E who : who \subseteq those /\ k' \in {k, Parked(t), Wake(k, who), Wake(Parked(t), who)}
    <2>1. CASE k' = k \/ k' = Parked(t)
      <3>1. {} \subseteq those /\ k' \in {k, Parked(t), Wake(k, {}), Wake(Parked(t), {})} BY <2>1
      <3> QED BY <3>1
    <2>2. CASE xTaskGenericNotify(t)
      <3>1. k' = k \/ \E s \in Named(t, call[t].p) : k' = Wake(k, Roused(s))
        BY <2>2 DEF xTaskGenericNotify
      <3>2. t \in Slots => \A s \in Named(t, call[t].p) : s \in Slots BY DEF Named
      <3>3. \A s \in Slots : Roused(s) \subseteq those BY DEF Roused
      <3> QED BY <2>1, <3>1, <3>2, <3>3
    <2> QED
      BY <2>1, <2>2
      DEF NotifyCall, Query, xTaskGenericNotifyWait, ulTaskGenericNotifyTake,
          xTaskGenericNotifyStateClear, ulTaskGenericNotifyValueClear
  <1>3. PICK who : who \subseteq those /\ k' \in {k, Parked(t), Wake(k, who), Wake(Parked(t), who)}
    BY <1>2
  <1> HIDE DEF those
  <1>4. Minds(t, who) BY <1>1, <1>3, WakingLeaves
  <1>5. Minds(t, those) BY <1>3, <1>4, MindsMore
  <1> QED BY <1>5 DEF those

(* A receive, which reads the clock besides.                               *)
LEMMA ReceiveLeaves ==
  ASSUME IInv, NEW t \in Slots, xStreamBufferReceive(t)
  PROVE  Minds(t, Writers)
  <1> DEFINE kk == IF pc[t] = "call" THEN SampledNow(t) ELSE k
             some == IF buffer.level > 0 THEN Writers ELSE {}
             n == IF call[t].n > 0 THEN kk.since[t] ELSE NoWait
  <1>1. Attempt(t, kk) BY DEF xStreamBufferReceive
  <1>2. CanRun(t) /\ pc[t] \in Calm /\ k \in KType
    BY <1>1 DEF Attempt, Looping, Calm, IInv, Shape
  <1>3. 0 \in Nat /\ NoWait \in Nat BY KernelAssumption DEF NoWait
  <1>4. Leaves(k, kk, {}, {}) BY <1>2, <1>3, SinceLeaves, LeavesNone DEF SampledNow
  <1>5. kk \in KType BY <1>4 DEF Leaves
  <1>6. n \in Nat /\ some \subseteq Writers
    <2>1. kk.since[t] \in Nat BY <1>5 DEF KType
    <2> QED BY <1>3, <2>1
  <1>7. \/ k' = [Wake(kk, some) EXCEPT !.since[t] = NoWait]
        \/ k' = [Parked(t) EXCEPT !.since[t] = n]
        \/ k' = [k EXCEPT !.since[t] = NoWait]
    <2> HIDE DEF kk
    <2> QED BY <1>1, Zenon DEF Attempt, some, n
  <1> HIDE DEF kk, some, n
  <1>8. Leaves(kk, Wake(kk, some), {}, some) BY <1>5, WakeLeaves
  <1>9. Leaves(k, Parked(t), {t}, {t}) /\ Keeps(k, Parked(t), t) BY <1>2, ParkedLeaves
  <1>10. Wake(kk, some) \in KType /\ Parked(t) \in KType BY <1>8, <1>9 DEF Leaves
  <1>11. ASSUME NEW b \in KType, NEW m \in Nat, k' = [b EXCEPT !.since[t] = m],
                Leaves(k, b, {t}, {t} \cup Writers), Keeps(k, b, t)
         PROVE  Minds(t, Writers)
    <2>1. Leaves(b, k', {}, {}) BY <1>11, SinceLeaves
    <2>2. Leaves(b, k', {t}, {t} \cup Writers) BY <2>1, LeavesMore
    <2>3. Leaves(k, k', {t}, {t} \cup Writers) BY <1>11, <2>2, LeavesTrans
    <2>4. Keeps(k, k', t) BY <1>11, <2>1 DEF Leaves, Keeps
    <2> QED BY <2>3, <2>4 DEF Minds
  <1>12. Leaves(k, Wake(kk, some), {t}, {t} \cup Writers) /\ Keeps(k, Wake(kk, some), t)
    <2>1. Leaves(k, kk, {t}, {t} \cup Writers) BY <1>4, LeavesMore
    <2>2. Leaves(kk, Wake(kk, some), {t}, {t} \cup Writers) BY <1>6, <1>8, LeavesMore
    <2>3. Keeps(k, kk, t) /\ Keeps(kk, Wake(kk, some), t) BY <1>4, <1>8 DEF Leaves, Keeps
    <2> QED BY <2>1, <2>2, <2>3, LeavesTrans DEF Keeps
  <1>13. Leaves(k, Parked(t), {t}, {t} \cup Writers) BY <1>9, LeavesMore
  <1>14. Leaves(k, k, {t}, {t} \cup Writers) /\ Keeps(k, k, t)
    BY <1>2, LeavesNone, LeavesMore DEF Keeps
  <1>15. CASE k' = [Wake(kk, some) EXCEPT !.since[t] = NoWait]
    BY <1>3, <1>10, <1>11, <1>12, <1>15
  <1>16. CASE k' = [Parked(t) EXCEPT !.since[t] = n]
    BY <1>6, <1>9, <1>10, <1>11, <1>13, <1>16
  <1>17. CASE k' = [k EXCEPT !.since[t] = NoWait] BY <1>2, <1>3, <1>11, <1>14, <1>17
  <1> QED BY <1>7, <1>15, <1>16, <1>17

(* Buffers, the serial port, semaphores and mutexes wake who waits on one. *)
OtherWaits == {"sbsend", "sbreceive", "get", "put", "mtake", "semtake"}
(* A call on a buffer wakes none of the others that wait.                  *)
LEMMA BufferLeaves ==
  ASSUME IInv, NEW t \in Slots, BufferCall(t)
  PROVE  Minds(t, Waits(OtherWaits))
  <1>1. ASSUME NEW who, who \subseteq Waits(OtherWaits), NEW op, Calling(t, op) \/ Looping(t, op),
               k' \in {k, Parked(t), Wake(k, who), Wake(Parked(t), who)}
        PROVE  Minds(t, Waits(OtherWaits))
    <2>1. CanRun(t) /\ pc[t] \in Calm BY <1>1, Tries
    <2>2. Minds(t, who) BY <1>1, <2>1, WakingLeaves
    <2> QED BY <1>1, <2>2, MindsMore
  <1>2. CASE k' = k
    <2>1. Leaves(k, k, {}, {}) BY LeavesNone DEF IInv, Shape
    <2> QED BY <1>2, <2>1, LeavesMore DEF Minds, Keeps
  <1>3. ASSUME k' = Parked(t), NEW op, Looping(t, op)
        PROVE  Minds(t, Waits(OtherWaits))
    <2>1. {} \subseteq Waits(OtherWaits) OBVIOUS
    <2>2. k' \in {k, Parked(t), Wake(k, {}), Wake(Parked(t), {})} BY <1>3
    <2> QED BY <1>1, <1>3, <2>1, <2>2
  <1>4. ASSUME NEW who, NEW op \in OtherWaits, who \subseteq Waits({op}), Rouses(who) \/ k' = Wake(k, who)
        PROVE  Minds(t, Waits(OtherWaits))
    <2>1. who \subseteq Waits(OtherWaits) BY <1>4 DEF Waits
    <2>2. Leaves(k, k', {}, who) BY <1>4, WakeLeaves DEF Rouses, IInv, Shape
    <2>3. Leaves(k, k', {t}, {t} \cup Waits(OtherWaits)) BY <2>1, <2>2, LeavesMore
    <2> QED BY <2>2, <2>3 DEF Minds, Leaves, Keeps
  <1>5. CASE StreamCall(t)
    <2>1. CASE xStreamBufferSend(t)
      <3>1. Readers(buffer.level + 1) \subseteq Waits({"sbreceive"}) BY DEF Readers
      <3>2. k' = k \/ k' = Parked(t) \/ k' = Wake(k, Readers(buffer.level + 1))
        BY <2>1 DEF xStreamBufferSend, Rouses, Blocks
      <3>3. "sbreceive" \in OtherWaits BY DEF OtherWaits
      <3> QED BY <1>2, <1>3, <1>4, <2>1, <3>1, <3>2, <3>3 DEF xStreamBufferSend
    <2>2. CASE xStreamBufferReceive(t)
      <3>1. Writers \subseteq Waits(OtherWaits) BY DEF Writers, Waits, OtherWaits
      <3>2. Minds(t, Writers) BY <2>2, ReceiveLeaves
      <3> QED BY <3>1, <3>2, MindsMore
    <2> QED
      BY <1>2, <1>5, <2>1, <2>2
      DEF StreamCall, xStreamBufferGenericCreate, FlagCreated, vStreamBufferDelete, CountReceive,
          xStreamBufferReset
  <1>6. CASE WireCall(t)
    <2>1. ASSUME NEW q, NEW who \in {{}} \cup OneOf(Getters(q)) \cup OneOf(Putters(q)), Rouses(who)
          PROVE  Minds(t, Waits(OtherWaits))
      <3>1. who \subseteq Waits({"get"}) \/ who \subseteq Waits({"put"}) BY OneOfIn, QueueWaits
      <3>2. "get" \in OtherWaits /\ "put" \in OtherWaits BY DEF OtherWaits
      <3> QED BY <1>4, <2>1, <3>1, <3>2
    <2>2. ASSUME NEW q, NEW op, Looping(t, op), OnOldWire(t, Getters(q)) \/ OnOldWire(t, Putters(q))
          PROVE  Minds(t, Waits(OtherWaits))
      <3>1. \/ k' = Parked(t)
            \/ \E who \in {{}} \cup OneOf(Getters(q)) \cup OneOf(Putters(q)) : Rouses(who)
        BY <2>2 DEF OnOldWire, Blocks
      <3> QED BY <1>3, <2>1, <2>2, <3>1
    <2>3. CASE xSerialPortInitMinimal(t) BY <1>2, <2>3 DEF xSerialPortInitMinimal
    <2>4. CASE xSerialPutChar(t) BY <1>2, <1>3, <2>1, <2>2, <2>4 DEF xSerialPutChar, Blocks
    <2>5. CASE xSerialGetChar(t) BY <1>2, <1>3, <2>1, <2>2, <2>5 DEF xSerialGetChar, Blocks
    <2>6. CASE vSerialPutString(t) BY <1>2, <2>1, <2>6 DEF vSerialPutString
    <2>7. CASE xQueueGenericReset(t) BY <2>1, <2>7 DEF xQueueGenericReset
    <2> QED BY <1>6, <2>3, <2>4, <2>5, <2>6, <2>7 DEF WireCall
  <1>7. CASE LockCall(t)
    <2>1. CASE xQueueGiveMutexRecursive(t)
      <3> DEFINE waiting == IF depth = 1 THEN Waits({"mtake"}) ELSE {}
      <3>1. k' = k \/ \E who \in OneOf(waiting) : k' = Wake(k, who)
        BY <2>1 DEF xQueueGiveMutexRecursive
      <3>2. \A who \in OneOf(waiting) : who \subseteq Waits({"mtake"}) BY OneOfIn
      <3>3. "mtake" \in OtherWaits BY DEF OtherWaits
      <3> HIDE DEF waiting
      <3> QED BY <1>2, <1>4, <3>1, <3>2, <3>3
    <2> QED
      BY <1>2, <1>3, <1>7, <2>1
      DEF LockCall, xQueueSemaphoreTake, xQueueTakeMutexRecursive, Blocks
  <1> QED BY <1>5, <1>6, <1>7 DEF BufferCall

(* A tick, and whom its interrupt half woke.                               *)
LEMMA TicksLeave ==
  ASSUME IInv, NEW who \in SUBSET Slots, NEW woken, Tick(who, woken)
  PROVE  Leaves(k, k', {}, who)
  <1> DEFINE kk == increment_tick(k)
  <1>1. k' = WakeFromIsr(kk, who) BY DEF Tick
  <1>2. Leaves(k, kk, {}, {}) BY TickLeaves DEF IInv, Shape
  <1>3. kk \in KType BY <1>2 DEF Leaves
  <1> HIDE DEF kk
  <1>4. Leaves(kk, k', {}, who) BY <1>1, <1>3, IsrLeaves
  <1>5. Leaves(k, kk, {}, who) BY <1>2, LeavesMore
  <1> QED BY <1>4, <1>5, LeavesTrans

(* What is left alone in each step of a task, given what the task's call   *)
(* may be about: the tasks that meet, and the script each task keeps to.   *)
Party(u) == entry[u] \in Meeters(program)
Reads(c, u) == c.op = call[u].op /\ c.whom = call[u].whom /\ c.x = call[u].x
Scripted ==
  /\ \A u \in Slots : entry[u] \in Cast(program) \cup {NoFunc}
  /\ \A u \in Slots : Party(u) => u < Idle /\ entry[u] = Boot[u + 1][1]
  /\ \A u \in Slots : pc[u] \in Sending => \E c \in Code[entry[u]] : Reads(c, u)
  /\ \A u \in Slots : pc[u] = "arm" => call[u].whom \in Cast(program) \ Meeters(program)

(* The cast are functions of the C's.                                      *)
LEMMA CastActs ==
  ASSUME NEW q \in Programs
  PROVE  Cast(q) \subseteq Functions /\ Meeters(q) \subseteq Cast(q) /\ NoFunc \notin Cast(q)
  <1>1. q.boot \in Seq(Functions \X (0 .. MaxPrio)) BY TasksAssumption
  <1>2. Started(q) \subseteq Functions
    <2>1. \A i \in 1 .. Len(q.boot) : q.boot[i] \in Functions \X (0 .. MaxPrio) BY <1>1
    <2> QED BY <2>1 DEF Started
  <1>3. \A f \in Functions : \A c \in Code[f] : c.op = "create" => c.whom \in Functions
    BY TasksAssumption
  <1>4. Cast(q) \subseteq Functions BY <1>2, <1>3 DEF Cast
  <1> QED BY <1>4, TasksAssumption DEF Meeters

(* A task within a call plays a part, and the call is in it.               *)
LEMMA InScript ==
  ASSUME MeetersAreFree, IInv, Scripted, NEW u \in Slots, pc[u] \in Sending
  PROVE  /\ entry[u] \in Cast(program) /\ entry[u] \in Functions
         /\ \E c \in Code[entry[u]] : Reads(c, u) /\ Suits(program, entry[u], c)
  <1>1. program \in Programs BY DEF IInv, Shape
  <1>2. entry[u] \in Functions BY DEF Sending, IInv, CallsKept, Working
  <1>3. entry[u] \in Cast(program) BY <1>2, TasksAssumption DEF Scripted
  <1>4. PICK c \in Code[entry[u]] : Reads(c, u) BY DEF Scripted
  <1>5. Suits(program, entry[u], c) BY <1>1, <1>3 DEF MeetersAreFree
  <1> QED BY <1>2, <1>3, <1>4, <1>5

(* No two tasks that meet run one function.                                *)
LEMMA PartiesDiffer ==
  ASSUME MeetersAreFree, IInv, Scripted, NEW u \in Slots, NEW v \in Slots, Party(u),
         entry[u] = entry[v]
  PROVE  u = v
  <1>1. /\ u < Idle /\ entry[u] = Boot[u + 1][1]
        /\ v < Idle /\ entry[v] = Boot[v + 1][1]
    BY DEF Scripted, Party
  <1>2. program \in Programs BY DEF IInv, Shape
  <1>3. Boot \in Seq(Functions \X (0 .. MaxPrio)) BY <1>2, TasksAssumption DEF Boot
  <1>4. Idle \in Nat /\ Idle = Len(program.boot) BY <1>3 DEF Idle, Boot
  <1>5. u \in Nat /\ v \in Nat BY KernelAssumption DEF Slots
  <1>6. u + 1 \in 1 .. Len(program.boot) /\ v + 1 \in 1 .. Len(program.boot)
    BY <1>1, <1>4, <1>5
  <1>7. u + 1 = v + 1 BY <1>1, <1>2, <1>6 DEF MeetersAreFree, Boot, Party
  <1> QED BY <1>5, <1>7

(* No task that meets is ended, suspended or woken up by force.            *)
LEMMA NoneForced ==
  ASSUME MeetersAreFree, IInv, Arguments, Scripted, NEW t \in Slots, NEW u \in Slots, Party(u)
  PROVE  u \notin Touched(t)
  <1> SUFFICES ASSUME pc[t] = "call", call[t].op \in Forced, u \in Named(t, call[t].p)
               PROVE  FALSE
    BY DEF Touched
  <1>1. PICK c \in Code[entry[t]] : Reads(c, t) /\ Suits(program, entry[t], c)
    BY InScript DEF Sending
  <1>2. entry[t] \notin Meeters(program) /\ call[t].whom \notin Meeters(program)
    BY <1>1 DEF Suits, Reads, Forced
  <1>3. call[t].op \notin DOMAIN Objects BY DEF Forced, Objects, GroupOps, StreamOps, WireOps
  <1>4. u = t \/ entry[u] = call[t].whom BY <1>3, NamedByHandle
  <1> QED BY <1>2, <1>4 DEF Party

(* A task just made is no one's to meet.                                   *)
LEMMA FreshActs ==
  ASSUME IInv, Faithful, IInv', Scripted, NEW t \in Slots, Acts(t), mask
  PROVE  /\ entry'[Fresh] \in Cast(program) \ Meeters(program) /\ pc'[Fresh] = "new"
         /\ Fresh # t /\ pc'[t] \notin Sending \cup {"arm"}
  <1>1. ArmCreated(t) /\ pc'[Fresh] = "new" /\ Fresh \in Slots /\ Fresh # t /\ pc[t] = "arm"
    BY MaskedArms DEF ArmCreated, At
  <1>2. k.cur = t BY ActsFrame DEF Frame
  <1>3. call[t].whom \in Cast(program) \ Meeters(program) BY <1>1 DEF Scripted
  <1>4. entry'[Fresh] = call[t].whom
    <2> DEFINE s == handle_from_c(call[t].p).slot
    <2>1. s = Fresh BY <1>2 DEF Fresh
    <2>2. entry' = [entry EXCEPT ![s] = call[t].whom] BY <1>1 DEF ArmCreated, StoreEntry
    <2> HIDE DEF s
    <2> QED BY <1>1, <2>1, <2>2 DEF IInv, Shape
  <1>5. pc'[t] \notin Sending
    <2>1. ~Enter(t, Objects) BY <1>1 DEF Enter, At
    <2> QED BY <1>1, <2>1, SameCall DEF Same, Sending
  <1>6. pc'[t] # "arm"
    <2>1. ~mask' BY <1>1 DEF ArmCreated
    <2> QED BY <2>1 DEF IInv, Masking
  <1> QED BY <1>1, <1>3, <1>4, <1>5, <1>6

(* A step of a task.                                                       *)
LEMMA ScriptedActs ==
  ASSUME MeetersAreFree, IInv, Faithful, IInv', Scripted, NEW t \in Slots, Acts(t)
  PROVE  Scripted'
  <1>1. Frame(t) /\ Others(t) BY ActsFrame, ActsMove
  <1>2. program' = program /\ program \in Programs BY <1>1 DEF Frame, IInv, Shape
  <1>3. Meeters(program)' = Meeters(program) /\ Cast(program)' = Cast(program)
        /\ Idle' = Idle /\ Boot' = Boot
    BY <1>2 DEF Meeters, Cast, Started, Idle, Boot, Meeter
  <1>4. mask => /\ entry'[Fresh] \in Cast(program) \ Meeters(program) /\ pc'[Fresh] = "new"
                /\ Fresh # t /\ pc'[t] \notin Sending \cup {"arm"}
    BY FreshActs
  <1>5. ASSUME NEW u \in Slots
        PROVE  /\ entry'[u] \in Cast(program) \cup {NoFunc}
               /\ entry'[u] \in Meeters(program) => u < Idle /\ entry'[u] = Boot[u + 1][1]
    <2>1. CASE mask /\ u = Fresh BY <1>4, <2>1
    <2>2. CASE ~(mask /\ u = Fresh)
      <3>1. entry'[u] = entry[u] BY <1>1, <2>2 DEF Frame
      <3> QED BY <3>1 DEF Scripted, Party
    <2> QED BY <2>1, <2>2
  <1>6. ASSUME NEW u \in Slots, u # t, pc'[u] \in Sending \cup {"arm"}
        PROVE  pc'[u] = pc[u] /\ call'[u] = call[u] /\ entry'[u] = entry[u]
    <2>1. ~(mask /\ u = Fresh) BY <1>4, <1>6 DEF Sending
    <2> QED BY <1>1, <1>6, <2>1 DEF Frame, Others
  <1>7. ASSUME pc'[t] \in Sending
        PROVE  \E c \in Code[entry'[t]] :
                 c.op = call'[t].op /\ c.whom = call'[t].whom /\ c.x = call'[t].x
    <2>1. entry'[t] = entry[t] BY <1>1, <1>4, <1>7 DEF Frame
    <2>2. CASE Enter(t, Objects) BY <2>1, <2>2, Entering
    <2>3. CASE ~Enter(t, Objects)
      <3>1. Same(t) BY <1>7, <2>3, SameCall
      <3>2. PICK c \in Code[entry[t]] : Reads(c, t) BY <3>1 DEF Same, Scripted
      <3> QED BY <2>1, <3>1, <3>2 DEF Same, Reads
    <2> QED BY <2>2, <2>3
  <1>8. ASSUME NEW u \in Slots, pc'[u] \in Sending
        PROVE  \E c \in Code[entry'[u]] :
                 c.op = call'[u].op /\ c.whom = call'[u].whom /\ c.x = call'[u].x
    <2>1. CASE u # t
      <3>1. pc'[u] = pc[u] /\ call'[u] = call[u] /\ entry'[u] = entry[u] BY <1>6, <1>8, <2>1
      <3>2. PICK c \in Code[entry[u]] : Reads(c, u) BY <1>8, <3>1 DEF Scripted
      <3> QED BY <3>1, <3>2 DEF Reads
    <2> QED BY <1>7, <1>8, <2>1
  <1>9. ASSUME NEW u \in Slots, pc'[u] = "arm"
        PROVE  call'[u].whom \in Cast(program) \ Meeters(program)
    <2>1. CASE u # t BY <1>6, <1>9, <2>1 DEF Scripted
    <2>2. CASE u = t
      <3>1. xTaskCreate(t) /\ pc[t] = "call" /\ call[t].op = "create"
        BY <1>9, <2>2, OnlyCreateArms DEF xTaskCreate, Calling, At
      <3>2. \E p : call' = [call EXCEPT ![t].p = p]
        <4>1. ~Goto(t, "c") BY <1>9, <2>2 DEF Goto, IInv, Shape
        <4> QED BY <3>1, <4>1 DEF xTaskCreate
      <3>3. PICK p : call' = [call EXCEPT ![t].p = p] BY <3>2
      <3>4. IsCall(call[t]) BY <3>1 DEF IInv, CallsKept, Busy, Working
      <3> DEFINE d == [call[t] EXCEPT !.p = p]
      <3>5. call' = [call EXCEPT ![t] = d] BY <3>3
      <3>6. d.whom = call[t].whom BY <3>4 DEF IsCall
      <3> HIDE DEF d
      <3>7. call'[t].whom = call[t].whom BY <3>5, <3>6 DEF IInv, Shape
      <3>8. PICK c \in Code[entry[t]] : Reads(c, t) /\ Suits(program, entry[t], c)
        BY <3>1, InScript DEF Sending
      <3> QED BY <2>2, <3>1, <3>7, <3>8 DEF Reads, Suits
    <2> QED BY <2>1, <2>2
  <1>10. \A u \in Slots : Party(u)' => entry'[u] \in Meeters(program) BY <1>3 DEF Party
  <1> QED BY <1>3, <1>5, <1>8, <1>9, <1>10 DEF Scripted, Reads

(* Start-up.                                                               *)
LEMMA ScriptedStart ==
  ASSUME IInv, Faithful, Faithful', Scripted, main
  PROVE  Scripted'
  <1>1. UNCHANGED <<program, call>> /\ program \in Programs
    BY DEF main, CreateMonitor, ArmMonitor, StartDemo, start_scheduler, ArmBoth,
           start_first_task, IInv, Shape
  <1>2. \A u \in Slots : pc'[u] \in Unstarted
    <2>1. phase # "run" /\ (phase' # "run" \/ pc' = pc)
      BY DEF main, CreateMonitor, ArmMonitor, StartDemo, start_scheduler, ArmBoth,
             start_first_task, AllArmed
    <2> QED BY <2>1 DEF Faithful
  <1>3. Boot \in Seq(Functions \X (0 .. MaxPrio)) /\ Len(Boot) >= 1
    BY <1>1, TasksAssumption DEF Boot
  <1>4. \A u \in Slots : u < Idle => Boot[u + 1][1] \in Cast(program)
    <2> TAKE u \in Slots
    <2> HAVE u < Idle
    <2>1. u \in Nat /\ Idle \in Nat /\ Idle = Len(program.boot)
      BY <1>3, KernelAssumption DEF Slots, Idle, Boot
    <2>2. u + 1 \in 1 .. Len(program.boot) BY <2>1
    <2> QED BY <2>2 DEF Cast, Started, Boot
  <1>5. ASSUME NEW u \in Slots
        PROVE  /\ entry'[u] \in Cast(program) \cup {NoFunc}
               /\ entry'[u] \in Meeters(program) => u < Idle /\ entry'[u] = Boot[u + 1][1]
    <2>1. entry'[u] = entry[u] \/ (u < Idle /\ entry'[u] = Boot[u + 1][1])
      <3>1. CASE ArmMonitor
        <4>1. entry' = [entry EXCEPT ![0] = Boot[1][1]] BY <3>1 DEF ArmMonitor
        <4>2. 0 < Idle BY <1>3 DEF Idle
        <4>3. CASE u = 0
          <5>1. u + 1 = 1 BY <4>3
          <5> QED BY <4>1, <4>2, <4>3, <5>1 DEF IInv, Shape
        <4>4. CASE u # 0 BY <4>1, <4>4 DEF IInv, Shape
        <4> QED BY <4>3, <4>4
      <3>2. CASE StartDemo
        <4>1. PICK s \in FreeSlots(k) : s < Idle /\ entry' = [entry EXCEPT ![s] = Boot[s + 1][1]]
          BY <3>2 DEF StartDemo
        <4> QED BY <4>1 DEF IInv, Shape
      <3>3. CASE ~ArmMonitor /\ ~StartDemo
        BY <3>3 DEF main, CreateMonitor, start_scheduler, ArmBoth, start_first_task
      <3> QED BY <3>1, <3>2, <3>3
    <2> QED BY <1>4, <2>1 DEF Scripted, Party
  <1>6. Meeters(program)' = Meeters(program) /\ Cast(program)' = Cast(program)
        /\ Idle' = Idle /\ Boot' = Boot
    BY <1>1 DEF Meeters, Cast, Started, Idle, Boot, Meeter
  <1>7. \A u \in Slots : Party(u)' => entry'[u] \in Meeters(program) BY <1>6 DEF Party
  <1>8. \A u \in Slots : pc'[u] \notin Sending /\ pc'[u] # "arm" BY <1>2 DEF Sending, Unstarted
  <1> QED BY <1>5, <1>6, <1>7, <1>8 DEF Scripted

(* Every step.                                                             *)
LEMMA ScriptedKept ==
  ASSUME MeetersAreFree
  PROVE  IInv /\ Faithful /\ Scripted /\ IInv' /\ Faithful' /\ [Next]_vars => Scripted'
  <1> SUFFICES ASSUME IInv, Faithful, Scripted, IInv', Faithful', [Next]_vars PROVE Scripted'
    OBVIOUS
  <1>1. ASSUME UNCHANGED <<pc, call, entry, program>> PROVE Scripted'
    BY <1>1 DEF Scripted, Party, Reads, Meeters, Cast, Started, Idle, Boot, Meeter
  <1>2. CASE \E t \in Slots : Acts(t) BY <1>2, ScriptedActs
  <1>3. CASE main BY <1>3, ScriptedStart
  <1>4. CASE Ticks \/ pick_next BY <1>1, <1>4, TimeStands
  <1>5. CASE UNCHANGED vars BY <1>1, <1>5 DEF vars, taskVars
  <1> QED BY <1>2, <1>3, <1>4, <1>5, WhoSteps

(* And it begins so.                                                       *)
LEMMA ScriptedInit == Init => Scripted
  <1> SUFFICES ASSUME Init PROVE Scripted OBVIOUS
  <1>1. TaskInit /\ program \in Programs BY DEF Init, TaskInit
  <1>2. \A u \in Slots : entry[u] = NoFunc /\ pc[u] = "off" BY <1>1 DEF TaskInit
  <1>3. NoFunc \notin Meeters(program) BY <1>1, CastActs
  <1> QED BY <1>2, <1>3 DEF Scripted, Party, Sending

(* What a call that waits has come to.                                     *)
Waiting(u, ops) ==
  call[u] # NoCall /\ call[u].op \in ops /\ call[u].n # 0 /\ pc[u] \in {"blocked", "loop"}
InSync(u) == pc[u] \in {"blocked", "loop"} /\ call[u].op = "sync"

(* Before the scheduler is started nobody has called.                      *)
Prelude ==
  /\ phase # "run" => /\ out = {} /\ bits = {} /\ cmds = <<>>
                      /\ \A u \in Slots : passed[u] = 0 /\ nstate[u] # "waiting" /\ call[u] = NoCall
  /\ phase = "armmon" => k.st[0] = "ready"

(* How a task that meets behaves: it is ready or blocked, and if blocked   *)
(* within a call that waits; only such a call is released or notified; and *)
(* within its meeting it rests until it is released.                       *)
Behaved(u) ==
  /\ k.st[u] \in {"ready", "blocked"} /\ ~(mask /\ u = Fresh)
  /\ call[u] # NoCall /\ call[u].op \in WaitOps =>
       /\ pc[u] \in {"call", "blocked", "loop"}
       /\ k.st[u] = "blocked" => Waiting(u, WaitOps)
  /\ u \in out => Waiting(u, WaitOps)
  /\ nstate[u] = "waiting" => Waiting(u, {"notifywait", "take"})
  /\ pc[u] \in Sending /\ call[u].op = "sync" => call[u].n = Forever
  /\ InSync(u) => group_from_c(call[u].p) /\ (u \in out \/ Resting(k, u))
AllBehave == \A u \in Slots : Party(u) => Behaved(u)

(* What a step does to those it is not about.                              *)
Unmoved(u) ==
  /\ k.st[u] \in {"ready", "blocked"} => k'.st[u] \in {k.st[u], "ready"}
  /\ InSync(u) /\ Resting(k, u) => u \in out' \/ Resting(k', u)
  /\ nstate'[u] = "waiting" => nstate[u] = "waiting"
  /\ u \in out => u \in out'
  /\ u \in out' => u \in out \/ u \in Waits(WaitOps)
  /\ live => made' = made /\ live' = live

(* The steps, each with what it leaves alone.                              *)
Whole(t) ==
  \/ (TaskCall(t) \/ Enter(t, Objects)) /\ NewUnnotified /\ UNCHANGED groupVars
  \/ NotifyCall(t) /\ UNCHANGED groupVars
  \/ (GroupCall(t) \/ timer_daemon(t)) /\ UNCHANGED notifyVars
  \/ BufferCall(t) /\ UNCHANGED <<notifyVars, groupVars>>
Ticked ==
  \/ SysTick({}) /\ NewUnnotified /\ UNCHANGED groupVars
  \/ NotifyIsr /\ UNCHANGED groupVars
  \/ GroupIsr /\ UNCHANGED notifyVars
  \/ BuffersIsr /\ UNCHANGED <<notifyVars, groupVars>>
(* Every step is the whole of a call, the scheduler, a tick, or none.      *)
LEMMA WholeSteps ==
  ASSUME [Next]_vars
  PROVE  \/ \E t \in Slots : Whole(t)
         \/ main /\ NewUnnotified /\ UNCHANGED groupVars
         \/ pick_next /\ NewUnnotified /\ UNCHANGED groupVars
         \/ Ticked
         \/ UNCHANGED vars
  <1>1. CASE Next
    <2>1. CASE (main \/ pick_next \/ Tasks \/ SysTick({})) /\ NewUnnotified
                 /\ UNCHANGED <<groupVars, bufferVars>>
      BY <2>1, Zenon DEF Tasks, Whole, Ticked
    <2>2. CASE (Notifies \/ NotifyIsr) /\ UNCHANGED <<groupVars, bufferVars>>
      BY <2>2, Zenon DEF Notifies, Whole, Ticked
    <2>3. CASE (Groups \/ GroupIsr) /\ UNCHANGED <<notifyVars, bufferVars>>
      BY <2>3, Zenon DEF Groups, Whole, Ticked
    <2>4. CASE (Buffers \/ BuffersIsr) /\ UNCHANGED <<notifyVars, groupVars>>
      BY <2>4, Zenon DEF Buffers, Whole, Ticked
    <2> QED BY <1>1, <2>1, <2>2, <2>3, <2>4 DEF Next
  <1> QED BY <1>1

(* A behaved task behaves on if it is not moved.                           *)
LEMMA UnmovedBehaves ==
  ASSUME NEW u \in Slots, Behaved(u), Unmoved(u), pc'[u] = pc[u], call'[u] = call[u],
         ~(mask' /\ u = Fresh')
  PROVE  Behaved(u)'
  <1>1. k'.st[u] \in {"ready", "blocked"} BY DEF Behaved, Unmoved
  <1>2. Waiting(u, WaitOps)' <=> Waiting(u, WaitOps) BY DEF Waiting, WaitOps
  <1>3. Waiting(u, {"notifywait", "take"})' <=> Waiting(u, {"notifywait", "take"}) BY DEF Waiting
  <1>4. InSync(u)' <=> InSync(u) BY DEF InSync
  <1>5. k'.st[u] = "blocked" => k.st[u] = "blocked" BY DEF Behaved, Unmoved
  <1>6. u \in Waits(WaitOps) => Waiting(u, WaitOps) BY DEF Behaved, Waits
  <1>7. u \in out' => Waiting(u, WaitOps) BY <1>6 DEF Behaved, Unmoved
  <1>8. nstate'[u] = "waiting" => Waiting(u, {"notifywait", "take"}) BY DEF Behaved, Unmoved
  <1>9. InSync(u) => /\ group_from_c(call[u].p)'
                     /\ u \in out' \/ Resting(k', u)
    BY DEF Behaved, Unmoved, group_from_c
  <1>10. call'[u] # NoCall /\ call'[u].op \in WaitOps =>
           /\ pc'[u] \in {"call", "blocked", "loop"}
           /\ k'.st[u] = "blocked" => Waiting(u, WaitOps)
    BY <1>5 DEF Behaved
  <1>11. pc'[u] \in Sending /\ call'[u].op = "sync" => call'[u].n = Forever BY DEF Behaved
  <1> QED
    BY <1>1, <1>2, <1>3, <1>4, <1>7, <1>8, <1>9, <1>10, <1>11
    DEF Behaved, WaitOps, Resting, group_from_c

(* Who meets after a step did so before, and is where it was.              *)
LEMMA PartiesStay ==
  ASSUME IInv, Faithful, IInv', Scripted, NEW t \in Slots, Acts(t), NEW u \in Slots
  PROVE  /\ program' = program /\ phase' = "run"
         /\ Party(u)' => Party(u) /\ ~(mask /\ u = Fresh)
         /\ ~(mask /\ u = Fresh) => /\ entry'[u] = entry[u] /\ (Party(u) => Party(u)')
                                    /\ u # t => pc'[u] = pc[u] /\ call'[u] = call[u]
         /\ k.st[u] # "free" => ~(mask' /\ u = Fresh')
  <1>1. Frame(t) /\ Others(t) BY ActsFrame, ActsMove
  <1>2. program' = program BY <1>1 DEF Frame
  <1>3. Meeters(program)' = Meeters(program) BY <1>2 DEF Meeters, Cast, Started, Meeter
  <1>4. mask => entry'[Fresh] \notin Meeters(program) BY FreshActs
  <1> QED BY <1>1, <1>2, <1>3, <1>4 DEF Frame, Others, Party

(* So another's step leaves it behaved, if it does not move it.            *)
LEMMA OthersBehave ==
  ASSUME IInv, Faithful, IInv', Scripted, NEW t \in Slots, Acts(t),
         NEW u \in Slots, u # t, Behaved(u), Unmoved(u)
  PROVE  Behaved(u)'
  <1>1. pc'[u] = pc[u] /\ call'[u] = call[u] /\ ~(mask' /\ u = Fresh')
    BY PartiesStay DEF Behaved
  <1> QED BY <1>1, UnmovedBehaves

(* Whom the steps of another leave unmoved: first a call about tasks.      *)
LEMMA TasksUnmoved ==
  ASSUME MeetersAreFree, IInv, Arguments, Scripted, NEW t \in Slots,
         TaskCall(t) \/ Enter(t, Objects), NewUnnotified, UNCHANGED groupVars,
         NEW u \in Slots, u # t, Party(u)
  PROVE  Unmoved(u)
  <1>1. Leaves(k, k', {t} \cup Touched(t), {t} \cup Touched(t))
    <2>1. CASE TaskCall(t) BY <2>1, TaskLeaves
    <2>2. CASE Enter(t, Objects)
      <3>1. k' = k /\ k \in KType BY <2>2, Zenon DEF Enter, IInv, Shape
      <3> QED BY <3>1, LeavesNone, LeavesMore
    <2> QED BY <2>1, <2>2
  <1>2. u \notin {t} \cup Touched(t) BY NoneForced
  <1>3. nstate'[u] = "waiting" => nstate[u] = "waiting" BY DEF NewUnnotified
  <1> QED BY <1>1, <1>2, <1>3 DEF Leaves, Unmoved, groupVars

(* A notification.                                                         *)
LEMMA NotifyUnmoved ==
  ASSUME IInv, NotifyTypeOK, NEW t \in Slots, NotifyCall(t), UNCHANGED groupVars,
         NEW u \in Slots, u # t, Behaved(u)
  PROVE  Unmoved(u)
  <1>1. Leaves(k, k', {t}, {t} \cup {s \in Slots : nstate[s] = "waiting"})
    BY NotifyLeaves DEF Minds
  <1>2. InSync(u) => nstate[u] # "waiting" BY DEF Behaved, InSync, Waiting
  <1>3. nstate'[u] = "waiting" => nstate[u] = "waiting"
    <2>1. CASE xTaskGenericNotify(t)
      <3>1. nstate' = nstate \/ \E s \in Slots : nstate' = [nstate EXCEPT ![s] = "received"]
        BY <2>1 DEF xTaskGenericNotify, notify, notifyVars, Named
      <3> QED BY <3>1 DEF NotifyTypeOK
    <2>2. CASE xTaskGenericNotifyStateClear(t) BY <2>2 DEF xTaskGenericNotifyStateClear
    <2>3. CASE \E x : nstate' = [nstate EXCEPT ![t] = x] BY <2>3 DEF NotifyTypeOK
    <2>4. CASE nstate' = nstate BY <2>4
    <2> QED
      BY <2>1, <2>2, <2>3, <2>4
      DEF NotifyCall, Query, xTaskGenericNotifyWait, ulTaskGenericNotifyTake,
          ulTaskGenericNotifyValueClear
  <1> QED BY <1>1, <1>2, <1>3 DEF Leaves, Unmoved, groupVars

(* A buffer, the serial port, a semaphore or a mutex.                      *)
LEMMA BufferUnmoved ==
  ASSUME IInv, NEW t \in Slots, BufferCall(t), UNCHANGED <<notifyVars, groupVars>>,
         NEW u \in Slots, u # t
  PROVE  Unmoved(u)
  <1>1. Leaves(k, k', {t}, {t} \cup Waits(OtherWaits)) BY BufferLeaves DEF Minds
  <1>2. InSync(u) => u \notin Waits(OtherWaits) BY DEF InSync, Waits, OtherWaits
  <1> QED BY <1>1, <1>2 DEF Leaves, Unmoved, groupVars, notifyVars

(* The event group: but for its deletion, whom a call wakes it releases.   *)
LEMMA GroupMinds ==
  ASSUME IInv, NEW t \in Slots, GroupCall(t), Calling(t, "groupdelete") => k' = k
  PROVE  Minds(t, Released(OwnBits(t)) \cap out')
  <1>1. \E op : (Calling(t, op) \/ Looping(t, op))
    BY DEF GroupCall, xEventGroupCreate, vEventGroupDelete, xEventGroupSetBits,
           xEventGroupClearBits, xEventGroupWaitBits, xEventGroupSync
  <1>2. CanRun(t) /\ pc[t] \in Calm BY <1>1, Tries
  <1>3. \E who \in {{}, Released(OwnBits(t))} :
          who \subseteq out' /\ k' \in {k, Parked(t), Wake(k, who), Wake(Parked(t), who)}
    <2>1. CASE k' = k \/ k' = Parked(t) BY <2>1
    <2>2. CASE xEventGroupSetBits(t) BY <2>1, <2>2 DEF xEventGroupSetBits, set_bits
    <2>3. CASE xEventGroupSync(t) BY <2>1, <2>3 DEF xEventGroupSync, set_bits
    <2>4. CASE vEventGroupDelete(t) BY <2>1, <2>4 DEF vEventGroupDelete
    <2> QED
      BY <2>1, <2>2, <2>3, <2>4 DEF GroupCall, xEventGroupCreate, xEventGroupClearBits,
         xEventGroupWaitBits
  <1>4. PICK who \in {{}, Released(OwnBits(t))} :
          who \subseteq out' /\ k' \in {k, Parked(t), Wake(k, who), Wake(Parked(t), who)}
    BY <1>3
  <1>5. Minds(t, who) BY <1>2, <1>4, WakingLeaves
  <1>6. who \subseteq Released(OwnBits(t)) \cap out' BY <1>4
  <1> QED BY <1>5, <1>6, MindsMore

(* And nobody deletes a group some task meets by.                          *)
LEMMA NoneDeletes ==
  ASSUME MeetersAreFree, IInv, Scripted, NEW t \in Slots, vEventGroupDelete(t),
         NEW u \in Slots, Party(u)
  PROVE  FALSE
  <1>1. pc[t] = "call" /\ call[t].op = "groupdelete" BY DEF vEventGroupDelete, Calling, At
  <1>2. PICK c \in Code[entry[t]] : Reads(c, t) /\ Suits(program, entry[t], c)
    BY <1>1, InScript DEF Sending
  <1> QED BY <1>1, <1>2 DEF Suits, Reads, Party

(* So it leaves the others unmoved.                                        *)
LEMMA GroupUnmoved ==
  ASSUME MeetersAreFree, IInv, Scripted, NEW t \in Slots, GroupCall(t), UNCHANGED notifyVars,
         NEW u \in Slots, u # t, Party(u)
  PROVE  Unmoved(u)
  <1>1. ~vEventGroupDelete(t) BY NoneDeletes
  <1>2. Calling(t, "groupdelete") => k' = k
    BY <1>1 DEF GroupCall, xEventGroupCreate, xEventGroupSetBits, xEventGroupClearBits,
                xEventGroupWaitBits, xEventGroupSync, Calling, Looping, At
  <1>3. Leaves(k, k', {t}, {t} \cup (Released(OwnBits(t)) \cap out'))
    BY <1>2, GroupMinds DEF Minds
  <1>4. out' \in {out, out \ {t}, out \cup Released(OwnBits(t))}
    BY <1>1 DEF GroupCall, xEventGroupCreate, xEventGroupSetBits, xEventGroupClearBits,
                xEventGroupWaitBits, xEventGroupSync, set_bits
  <1>5. live => made' = made /\ live' = live
    BY <1>1 DEF GroupCall, xEventGroupCreate, xEventGroupSetBits, xEventGroupClearBits,
                xEventGroupWaitBits, xEventGroupSync
  <1>6. Released(OwnBits(t)) \subseteq Waits(WaitOps) BY DEF Released
  <1> QED BY <1>3, <1>4, <1>5, <1>6 DEF Leaves, Unmoved, notifyVars

(* The daemon.                                                             *)
LEMMA DaemonUnmoved ==
  ASSUME IInv, NEW t \in Slots, timer_daemon(t), UNCHANGED notifyVars, NEW u \in Slots, u # t
  PROVE  Unmoved(u)
  <1>1. \E b : /\ out' \in {out, out \cup Released(b)}
               /\ k' \in {k, Wake(k, Released(b) \cap out'), Block(k, t, Forever)}
    <2>1. CASE cmds # <<>>
      <3>1. CASE CapiTickHook(Head(cmds)) /\ Head(cmds).do = "set" /\ set_bits(Head(cmds).bits, {})
                 /\ k' = Wake(k, Released(Head(cmds).bits))
        <4>1. Released(Head(cmds).bits) \cap out' = Released(Head(cmds).bits)
          BY <3>1 DEF set_bits
        <4> QED BY <3>1, <4>1 DEF set_bits
      <3>2. CASE UNCHANGED <<k, out>> BY <3>2
      <3> QED BY <2>1, <3>1, <3>2 DEF timer_daemon, pended
    <2>2. CASE cmds = <<>> BY <2>2 DEF timer_daemon
    <2> QED BY <2>1, <2>2
  <1>2. PICK b : /\ out' \in {out, out \cup Released(b)}
                 /\ k' \in {k, Wake(k, Released(b) \cap out'), Block(k, t, Forever)}
    BY <1>1
  <1>3. Forever \in Nat /\ k \in KType BY KernelAssumption DEF Forever, IInv, Shape
  <1>4. Leaves(k, k', {t}, {t} \cup (Released(b) \cap out'))
    <2>1. Leaves(k, k, {}, {}) BY <1>3, LeavesNone
    <2>2. Leaves(k, Wake(k, Released(b) \cap out'), {}, Released(b) \cap out')
      BY <1>3, WakeLeaves
    <2>3. Leaves(k, Block(k, t, Forever), {t}, {t}) BY <1>3, BlockLeaves
    <2>4. CASE k' = k BY <2>1, <2>4, LeavesMore
    <2>5. CASE k' = Wake(k, Released(b) \cap out') BY <2>2, <2>5, LeavesMore
    <2>6. CASE k' = Block(k, t, Forever) BY <2>3, <2>6, LeavesMore
    <2> QED BY <1>2, <2>4, <2>5, <2>6
  <1>5. Released(b) \subseteq Waits(WaitOps) BY DEF Released
  <1>6. made' = made /\ live' = live BY DEF timer_daemon
  <1> QED BY <1>2, <1>4, <1>5, <1>6 DEF Leaves, Unmoved, notifyVars

(* A tick.                                                                 *)
LEMMA TickUnmoved ==
  ASSUME IInv, NotifyTypeOK, Apart, NEW u \in Slots, Party(u), Behaved(u), Ticked
  PROVE  Unmoved(u)
  <1>1. UNCHANGED <<made, live, out>> BY IsrPosts DEF Ticked, groupVars
  <1>2. ASSUME NEW who \in SUBSET Slots, NEW woken, Tick(who, woken), InSync(u) => u \notin who,
               nstate'[u] = "waiting" => nstate[u] = "waiting"
        PROVE  Unmoved(u)
    <2>1. Leaves(k, k', {}, who) BY <1>2, TicksLeave
    <2> QED BY <1>1, <1>2, <2>1 DEF Leaves, Unmoved
  <1>3. CASE SysTick({}) /\ NewUnnotified /\ UNCHANGED groupVars
    <2>1. nstate'[u] = "waiting" => nstate[u] = "waiting" BY <1>3 DEF NewUnnotified
    <2> QED BY <1>2, <1>3, <2>1 DEF SysTick
  <1>4. CASE NotifyIsr /\ UNCHANGED groupVars
    <2>1. \E s \in Slots : SysTick(Roused(s)) /\ nstate' = [nstate EXCEPT ![s] = "received"]
      BY <1>4 DEF NotifyIsr, xTaskGenericNotifyFromISR, vTaskGenericNotifyGiveFromISR,
                  NotifyFromISR, notify, Named, NULL
    <2>2. PICK s \in Slots : SysTick(Roused(s)) /\ nstate' = [nstate EXCEPT ![s] = "received"]
      BY <2>1
    <2>3. InSync(u) => nstate[u] # "waiting" BY DEF Behaved, InSync, Waiting
    <2>4. Roused(s) \in SUBSET Slots /\ (InSync(u) => u \notin Roused(s)) BY <2>3 DEF Roused
    <2>5. nstate'[u] = "waiting" => nstate[u] = "waiting" BY <2>2 DEF NotifyTypeOK
    <2> QED BY <1>2, <2>2, <2>4, <2>5 DEF SysTick
  <1>5. CASE GroupIsr /\ UNCHANGED notifyVars
    <2>1. \E who \in SUBSET {Timer} : who \subseteq Slots /\ \E woken : Tick(who, woken)
      <3>1. \E who \in {SleepingDaemon, {}} : \E woken : Tick(who, woken)
        BY <1>5 DEF GroupIsr, xEventGroupSetBitsFromISR, xEventGroupClearBitsFromISR, SysTick
      <3> QED BY <3>1 DEF SleepingDaemon
    <2>2. u # Timer
      <3>1. NoFunc \notin Meeters(program) BY CastActs DEF IInv, Shape
      <3> QED BY <3>1 DEF Apart, Party
    <2> QED BY <1>2, <1>5, <2>1, <2>2 DEF notifyVars
  <1>6. CASE BuffersIsr /\ UNCHANGED <<notifyVars, groupVars>>
    <2>1. \E who : who \subseteq Waits(OtherWaits) /\ SysTick(who)
      <3> DEFINE Out == \E who : who \subseteq Waits(OtherWaits) /\ SysTick(who)
      <3>1. PICK c \in program.isr : BufferIsr(c) BY <1>6 DEF BuffersIsr
      <3>2. \A op \in OtherWaits : Waits({op}) \subseteq Waits(OtherWaits) BY DEF Waits
      <3>3. ASSUME NEW op \in OtherWaits, SysTick(Waits({op})) \/ \E who \in OneOf(Waits({op})) : SysTick(who)
            PROVE  Out
        BY <3>2, <3>3, OneOfIn
      <3>4. SysTick({}) => Out OBVIOUS
      <3>5. /\ "sbreceive" \in OtherWaits /\ "sbsend" \in OtherWaits /\ "get" \in OtherWaits
            /\ "put" \in OtherWaits /\ "semtake" \in OtherWaits
        BY DEF OtherWaits
      <3> HIDE DEF Out
      <3>6. StreamIsr(c) => Out
        BY <3>3, <3>4, <3>5
        DEF StreamIsr, xStreamBufferSendFromISR, xStreamBufferReceiveFromISR,
            xStreamBufferSendCompletedFromISR, Readers, Writers
      <3>7. WireIsr(c) => Out
        <4>1. ASSUME NEW q, NEW who \in OneOf(Getters(q)) \cup OneOf(Putters(q)), SysTick(who)
              PROVE  Out
          <5>1. who \subseteq Waits({"get"}) \/ who \subseteq Waits({"put"})
            BY <4>1, OneOfIn, QueueWaits
          <5> QED BY <3>2, <3>5, <4>1, <5>1 DEF Out
        <4> QED BY <4>1 DEF WireIsr, xQueueGenericSendFromISR, xQueueReceiveFromISR
      <3>8. xQueueGiveFromISR(c) => Out BY <3>3, <3>5 DEF xQueueGiveFromISR
      <3>9. Out BY <3>1, <3>6, <3>7, <3>8 DEF BufferIsr
      <3> QED BY <3>9 DEF Out
    <2>2. PICK who : who \subseteq Waits(OtherWaits) /\ SysTick(who) BY <2>1
    <2>3. InSync(u) => u \notin who BY <2>2 DEF InSync, Waits, OtherWaits
    <2>4. who \in SUBSET Slots BY <2>2 DEF Waits
    <2> QED BY <1>2, <1>6, <2>2, <2>3, <2>4 DEF notifyVars, SysTick
  <1> QED BY <1>3, <1>4, <1>5, <1>6 DEF Ticked

(* The switch.                                                             *)
LEMMA SwitchUnmoved ==
  ASSUME IInv, NEW u \in Slots, pick_next, NewUnnotified, UNCHANGED groupVars
  PROVE  Unmoved(u)
  <1>1. Leaves(k, k', {}, {}) BY SwitchLeaves DEF pick_next, IInv, Shape
  <1>2. nstate'[u] = "waiting" => nstate[u] = "waiting" BY DEF NewUnnotified
  <1> QED BY <1>1, <1>2 DEF Leaves, Unmoved, groupVars

(* A call keeps its name to its end.                                       *)
LEMMA CallGoes ==
  ASSUME IInv, CallsTyped, NEW t \in Slots, Acts(t), ~Enter(t, Objects)
  PROVE  \/ call'[t] = NoCall \/ call'[t] = call[t]
         \/ call[t] \in Calls /\ call'[t].op = call[t].op
  <1> DEFINE Kept == \/ call'[t] = NoCall \/ call'[t] = call[t]
                     \/ call[t] \in Calls /\ call'[t].op = call[t].op
  <1> SUFFICES Kept OBVIOUS
  <1>1. call = [u \in Slots |-> call[u]] BY DEF IInv, Shape
  <1>2. \A at : Goto(t, at) => Kept
    <2>1. \A at : Goto(t, at) => call'[t] = NoCall \/ call'[t] = call[t] BY <1>1 DEF Goto
    <2> QED BY <2>1
  <1>3. UNCHANGED call => Kept OBVIOUS
  <1>4. ASSUME NEW n, NEW p, pc[t] \in Busy,
               \/ call' = [call EXCEPT ![t].p = p]
               \/ call' = [call EXCEPT ![t].n = n, ![t].p = p]
        PROVE  Kept
    <2>1. call[t] \in Calls BY <1>4 DEF CallsTyped, Good
    <2> DEFINE c == [call[t] EXCEPT !.p = p]
               d == [call[t] EXCEPT !.n = n, !.p = p]
    <2>2. c.op = call[t].op /\ d.op = call[t].op BY <2>1 DEF Calls
    <2>3. call'[t] = c \/ call'[t] = d
      <3>1. CASE call' = [call EXCEPT ![t].p = p] BY <1>1, <3>1
      <3>2. CASE call' = [call EXCEPT ![t].n = n, ![t].p = p] BY <1>1, <3>2
      <3> QED BY <1>4, <3>1, <3>2
    <2> HIDE DEF c, d
    <2> QED BY <2>1, <2>2, <2>3
  <1> HIDE DEF Kept
  <1>5. CASE TaskCall(t)
    <2>1. CASE xTaskCreate(t)
      <3>1. (\E at : Goto(t, at)) \/ \E p : call' = [call EXCEPT ![t].p = p]
        BY <2>1 DEF xTaskCreate
      <3>2. pc[t] \in Busy BY <2>1 DEF xTaskCreate, Calling, At, Busy, Working
      <3> QED BY <1>2, <1>4, <3>1, <3>2
    <2>2. CASE xTaskCatchUpTicks(t)
      <3>1. pc[t] \in Busy BY <2>2 DEF xTaskCatchUpTicks, Calling, At, Busy, Working
      <3>2. \/ UNCHANGED call \/ \E at : Goto(t, at)
            \/ \E n, p : call' = [call EXCEPT ![t].n = n, ![t].p = p]
        <4>1. CASE Calling(t, "catchup") /\ UNCHANGED <<k, call>> BY <4>1
        <4>2. CASE call' = [call EXCEPT ![t].n = @ - 1, ![t].p = Woken(t)]
          <5>1. call' = [call EXCEPT ![t].n = call[t].n - 1, ![t].p = Woken(t)] BY <1>1, <4>2
          <5> QED BY <5>1
        <4>3. CASE \E at : Goto(t, at) BY <4>3
        <4> QED BY <2>2, <4>1, <4>2, <4>3 DEF xTaskCatchUpTicks
      <3> QED BY <1>2, <1>3, <1>4, <3>1, <3>2
    <2>3. CASE ArmCreated(t) BY <1>3, <2>3 DEF ArmCreated
    <2>4. CASE Leave(t) BY <1>2, <2>4 DEF Leave
    <2>5. CASE vTaskDelete(t) \/ vTaskSuspend(t) BY <1>2, <2>5 DEF vTaskDelete, vTaskSuspend
    <2>6. ASSUME ~xTaskCreate(t), ~xTaskCatchUpTicks(t), ~ArmCreated(t), ~Leave(t),
                 ~vTaskDelete(t), ~vTaskSuspend(t)
          PROVE  \E at : Goto(t, at)
      BY <1>5, <2>6
      DEF TaskCall, c_task_trampoline, vTaskResume, xTaskAbortDelay, xTaskResumeAll,
          YieldsIfAsked, WriteHandle, Lookup, vTaskPrioritySet, vTaskDelay, xTaskDelayUntil,
          vTaskSuspendAll, vPortGenerateSimulatedInterrupt, idle
    <2> QED BY <1>2, <2>1, <2>2, <2>3, <2>4, <2>5, <2>6
  <1>6. CASE NotifyCall(t)
    <2>1. \E at : Goto(t, at)
      BY <1>6
      DEF NotifyCall, Query, xTaskGenericNotify, xTaskGenericNotifyWait, ulTaskGenericNotifyTake,
          xTaskGenericNotifyStateClear, ulTaskGenericNotifyValueClear
    <2> QED BY <1>2, <2>1
  <1>7. CASE GroupCall(t)
    <2>1. \E at : Goto(t, at)
      BY <1>7
      DEF GroupCall, xEventGroupCreate, vEventGroupDelete, xEventGroupSetBits,
          xEventGroupClearBits, xEventGroupWaitBits, xEventGroupSync
    <2> QED BY <1>2, <2>1
  <1>8. CASE timer_daemon(t) BY <1>2, <1>3, <1>8 DEF timer_daemon
  <1>9. CASE BufferCall(t)
    <2>1. CASE xStreamBufferReceive(t)
      <3> DEFINE kk == IF pc[t] = "call" THEN SampledNow(t) ELSE k
      <3>1. Attempt(t, kk) BY <2>1 DEF xStreamBufferReceive
      <3> HIDE DEF kk
      <3>2. pc[t] \in Busy BY <3>1 DEF Attempt, Looping, Busy, Working
      <3>3. CASE \E at : Goto(t, at) BY <1>2, <3>3
      <3>4. CASE call' = [call EXCEPT ![t] = IF call[t].n > 0 THEN [@ EXCEPT !.p = kk.since[t]]
                                             ELSE NoCall]
        <4>1. CASE call[t].n > 0
          <5>1. call' = [call EXCEPT ![t].p = kk.since[t]] BY <3>4, <4>1
          <5> QED BY <1>4, <3>2, <5>1
        <4>2. CASE ~(call[t].n > 0)
          <5>1. call'[t] = NoCall BY <1>1, <3>4, <4>2
          <5> QED BY <5>1 DEF Kept
        <4> QED BY <4>1, <4>2
      <3> QED BY <3>1, <3>3, <3>4 DEF Attempt
    <2>2. CASE vSerialPutString(t)
      <3>1. pc[t] \in Busy BY <2>2 DEF vSerialPutString, Looping, At, Busy, Working
      <3>2. CASE call' = [call EXCEPT ![t].p = @ + 1]
        <4>1. call' = [call EXCEPT ![t].p = call[t].p + 1] BY <3>2
        <4> QED BY <1>4, <3>1, <4>1
      <3> QED BY <1>2, <2>2, <3>2 DEF vSerialPutString
    <2>3. ASSUME ~xStreamBufferReceive(t), ~vSerialPutString(t)
          PROVE  \E at : Goto(t, at)
      BY <1>9, <2>3
      DEF BufferCall, StreamCall, WireCall, LockCall, xStreamBufferGenericCreate, FlagCreated,
          vStreamBufferDelete, xStreamBufferSend, CountReceive, xStreamBufferReset, Blocks, OnOldWire,
          xSerialPortInitMinimal, xSerialPutChar, xSerialGetChar, xQueueGenericReset,
          xQueueSemaphoreTake, xQueueTakeMutexRecursive, xQueueGiveMutexRecursive, LeavesOnGive
    <2> QED BY <1>2, <2>1, <2>2, <2>3
  <1> QED BY <1>5, <1>6, <1>7, <1>8, <1>9 DEF Acts

(* What a call that waits for bits goes on with.                           *)
LEMMA WaiterGoes ==
  ASSUME NEW t \in Slots, Acts(t), pc[t] \in Sending, call[t].op \in WaitOps
  PROVE  \/ xEventGroupWaitBits(t) /\ call[t].op # "sync"
         \/ xEventGroupSync(t) /\ call[t].op = "sync"
         \/ pc[t] = "blocked" /\ Leave(t)
  <1>1. ~Enter(t, Objects)
    <2>1. Enter(t, Objects) => pc[t] = "c" BY Zenon DEF Enter, At
    <2> QED BY <2>1 DEF Sending
  <1>2. TaskCall(t) => pc[t] = "blocked" /\ Leave(t)
    BY DEF TaskCall, c_task_trampoline, Leave, xTaskCreate, ArmCreated, WriteHandle, Lookup,
           vTaskDelete, vTaskSuspend, vTaskResume, vTaskPrioritySet, xTaskAbortDelay, vTaskDelay,
           xTaskDelayUntil, vTaskSuspendAll, xTaskResumeAll, xTaskCatchUpTicks,
           vPortGenerateSimulatedInterrupt, idle, Calling, At, Sending, WaitOps
  <1>3. GroupCall(t) => \/ xEventGroupWaitBits(t) /\ call[t].op # "sync"
                        \/ xEventGroupSync(t) /\ call[t].op = "sync"
    BY DEF GroupCall, xEventGroupCreate, vEventGroupDelete, xEventGroupSetBits,
           xEventGroupClearBits, xEventGroupWaitBits, xEventGroupSync, Calling, Looping, At,
           Sending, WaitOps
  <1>4. ~timer_daemon(t) BY DEF timer_daemon, At, Sending
  <1>5. ~NotifyCall(t)
    BY DEF NotifyCall, Query, xTaskGenericNotify, xTaskGenericNotifyWait, ulTaskGenericNotifyTake,
           xTaskGenericNotifyStateClear, ulTaskGenericNotifyValueClear, Calling, Looping, At,
           Sending, WaitOps
  <1>6. ~BufferCall(t)
    BY DEF BufferCall, StreamCall, WireCall, LockCall, xStreamBufferGenericCreate, FlagCreated,
           vStreamBufferDelete, xStreamBufferSend, xStreamBufferReceive, Attempt, CountReceive,
           xStreamBufferReset, xSerialPortInitMinimal, xSerialPutChar, xSerialGetChar,
           vSerialPutString, xQueueGenericReset, xQueueSemaphoreTake, xQueueTakeMutexRecursive,
           xQueueGiveMutexRecursive, Calling, Looping, At, Sending, WaitOps
  <1> QED BY <1>1, <1>2, <1>3, <1>4, <1>5, <1>6 DEF Acts

(* And one that waits to be notified.                                      *)
LEMMA NotifierGoes ==
  ASSUME NEW t \in Slots, Acts(t), pc[t] \in {"blocked", "loop"},
         call[t].op \in {"notifywait", "take"}
  PROVE  xTaskGenericNotifyWait(t) \/ ulTaskGenericNotifyTake(t) \/ (pc[t] = "blocked" /\ Leave(t))
  <1>1. ~Enter(t, Objects)
    <2>1. Enter(t, Objects) => pc[t] = "c" BY Zenon DEF Enter, At
    <2> QED BY <2>1
  <1>2. TaskCall(t) => pc[t] = "blocked" /\ Leave(t)
    BY DEF TaskCall, c_task_trampoline, Leave, xTaskCreate, ArmCreated, WriteHandle, Lookup,
           vTaskDelete, vTaskSuspend, vTaskResume, vTaskPrioritySet, xTaskAbortDelay, vTaskDelay,
           xTaskDelayUntil, vTaskSuspendAll, xTaskResumeAll, xTaskCatchUpTicks,
           vPortGenerateSimulatedInterrupt, idle, Calling, At
  <1>3. ~GroupCall(t)
    BY DEF GroupCall, xEventGroupCreate, vEventGroupDelete, xEventGroupSetBits,
           xEventGroupClearBits, xEventGroupWaitBits, xEventGroupSync, Calling, Looping, At
  <1>4. ~timer_daemon(t) BY DEF timer_daemon, At
  <1>5. NotifyCall(t) => xTaskGenericNotifyWait(t) \/ ulTaskGenericNotifyTake(t)
    BY DEF NotifyCall, Query, xTaskGenericNotify, xTaskGenericNotifyStateClear,
           ulTaskGenericNotifyValueClear, Calling, At
  <1>6. ~BufferCall(t)
    BY DEF BufferCall, StreamCall, WireCall, LockCall, xStreamBufferGenericCreate, FlagCreated,
           vStreamBufferDelete, xStreamBufferSend, xStreamBufferReceive, Attempt, CountReceive,
           xStreamBufferReset, xSerialPortInitMinimal, xSerialPutChar, xSerialGetChar,
           vSerialPutString, xQueueGenericReset, xQueueSemaphoreTake, xQueueTakeMutexRecursive,
           xQueueGiveMutexRecursive, Calling, Looping, At
  <1> QED BY <1>1, <1>2, <1>3, <1>4, <1>5, <1>6 DEF Acts

(* A blocked caller leaves the CPU, and does nothing else.                 *)
LEMMA BlockedLeaves ==
  ASSUME NEW t \in Slots, Whole(t), pc[t] = "blocked"
  PROVE  Leave(t) /\ UNCHANGED groupVars /\ (nstate'[t] = "waiting" => nstate[t] = "waiting")
  <1>1. ~Enter(t, Objects)
    <2>1. Enter(t, Objects) => pc[t] = "c" BY Zenon DEF Enter, At
    <2> QED BY <2>1
  <1>2. TaskCall(t) => Leave(t)
    BY DEF TaskCall, c_task_trampoline, xTaskCreate, ArmCreated, WriteHandle, Lookup,
           vTaskDelete, vTaskSuspend, vTaskResume, vTaskPrioritySet, xTaskAbortDelay, vTaskDelay,
           xTaskDelayUntil, vTaskSuspendAll, xTaskResumeAll, xTaskCatchUpTicks,
           vPortGenerateSimulatedInterrupt, idle, Calling, At
  <1>3. ~GroupCall(t) /\ ~timer_daemon(t)
    BY DEF GroupCall, xEventGroupCreate, vEventGroupDelete, xEventGroupSetBits, timer_daemon,
           xEventGroupClearBits, xEventGroupWaitBits, xEventGroupSync, Calling, Looping, At
  <1>4. ~NotifyCall(t)
    BY DEF NotifyCall, Query, xTaskGenericNotify, xTaskGenericNotifyWait, ulTaskGenericNotifyTake,
           xTaskGenericNotifyStateClear, ulTaskGenericNotifyValueClear, Calling, Looping, At
  <1>5. ~BufferCall(t)
    BY DEF BufferCall, StreamCall, WireCall, LockCall, xStreamBufferGenericCreate, FlagCreated,
           vStreamBufferDelete, xStreamBufferSend, xStreamBufferReceive, Attempt, CountReceive,
           xStreamBufferReset, xSerialPortInitMinimal, xSerialPutChar, xSerialGetChar,
           vSerialPutString, xQueueGenericReset, xQueueSemaphoreTake, xQueueTakeMutexRecursive,
           xQueueGiveMutexRecursive, Calling, Looping, At
  <1>6. TaskCall(t) /\ NewUnnotified /\ UNCHANGED groupVars BY <1>1, <1>3, <1>4, <1>5 DEF Whole
  <1> QED BY <1>2, <1>6 DEF NewUnnotified

(* A task that meets stays ready or blocked in its own steps.              *)
LEMMA OwnStays ==
  ASSUME MeetersAreFree, IInv, Arguments, Apart, Scripted, NEW t \in Slots, Whole(t),
         Party(t), k.st[t] \in {"ready", "blocked"}
  PROVE  k'.st[t] \in {"ready", "blocked"}
  <1>1. CASE TaskCall(t)
    <2>1. t \notin Touched(t) BY NoneForced
    <2> QED BY <1>1, <2>1, TaskLeaves DEF Keeps
  <1>2. CASE Enter(t, Objects)
    <2>1. k' = k BY <1>2, Zenon DEF Enter
    <2> QED BY <2>1
  <1>3. CASE NotifyCall(t) BY <1>3, NotifyLeaves DEF Minds, Keeps
  <1>4. CASE GroupCall(t)
    <2>1. ~vEventGroupDelete(t) BY NoneDeletes
    <2>2. Calling(t, "groupdelete") => k' = k
      BY <1>4, <2>1 DEF GroupCall, xEventGroupCreate, xEventGroupSetBits, xEventGroupClearBits,
                        xEventGroupWaitBits, xEventGroupSync, Calling, Looping, At
    <2> QED BY <1>4, <2>2, GroupMinds DEF Minds, Keeps
  <1>5. CASE timer_daemon(t)
    <2>1. t = Timer BY <1>5 DEF timer_daemon, At, Apart, Daemons
    <2>2. NoFunc \notin Meeters(program) BY CastActs DEF IInv, Shape
    <2> QED BY <2>1, <2>2 DEF Apart, Party
  <1>6. CASE BufferCall(t) BY <1>6, BufferLeaves DEF Minds, Keeps
  <1> QED BY <1>1, <1>2, <1>3, <1>4, <1>5, <1>6 DEF Whole

(* What becomes of a task whose call returns.                              *)
Settles(t) == k'.st[t] \in {"ready", "blocked"} /\ ~(mask' /\ t = Fresh')

(* A call that returned has settled, and leaves its task behaved.          *)
LEMMA Returned ==
  ASSUME IInv, NEW t \in Slots, Goto(t, "c"), Settles(t), t \notin out', nstate'[t] # "waiting"
  PROVE  Behaved(t)'
  <1>1. pc'[t] = "c" BY DEF Goto, IInv, Shape
  <1>2. call'[t] = NoCall BY DEF Goto, IInv, Shape
  <1> QED BY <1>1, <1>2 DEF Behaved, Sending, InSync, Settles

(* The C begins a call, which if it is to meet has no deadline.            *)
LEMMA EnterBehaves ==
  ASSUME MeetersAreFree, IInv, Scripted, NEW t \in Slots, Enter(t, Objects), Party(t),
         t \notin out', nstate'[t] # "waiting", Settles(t)
  PROVE  Behaved(t)'
  <1>1. CanRun(t) /\ pc[t] = "c" /\ k' = k BY Zenon DEF Enter, At
  <1>2. k.st[t] = "ready" BY <1>1, Running DEF Parting, Leaving
  <1>3. PICK c \in Code[entry[t]] :
          /\ call'[t].op = c.op /\ call'[t].x = c.x
          /\ call'[t].n = IF c.x = "above" THEN k.prio[t] + 1 ELSE c.n
          /\ pc'[t] = IF c.op = "return" THEN "parked" ELSE "call"
    BY Entering
  <1>6. Suits(program, entry[t], c)
    <2>1. entry[t] \in Cast(program) BY CastActs DEF Party, IInv, Shape
    <2> QED BY <2>1 DEF MeetersAreFree, IInv, Shape
  <1>7. call'[t].op = "sync" => call'[t].n = Forever BY <1>3, <1>6 DEF Suits, Party
  <1>8. pc'[t] \in {"call", "parked"} /\ (call'[t].op \in WaitOps => pc'[t] = "call")
    BY <1>3 DEF WaitOps
  <1>9. k'.st[t] # "blocked" BY <1>1, <1>2
  <1> QED BY <1>7, <1>8, <1>9 DEF Behaved, InSync, Settles

(* A blocked call goes on to its next try, or gives up.                    *)
LEMMA LeaveBehaves ==
  ASSUME IInv, NEW t \in Slots, Whole(t), pc[t] = "blocked", Behaved(t), Settles(t)
  PROVE  Behaved(t)'
  <1>1. Leave(t) /\ UNCHANGED groupVars /\ (nstate'[t] = "waiting" => nstate[t] = "waiting")
    BY BlockedLeaves
  <1>2. CASE call[t].n = 0
    <2>1. Goto(t, "c") BY <1>1, <1>2 DEF Leave, IsAPoll
    <2>2. t \notin out' /\ nstate'[t] # "waiting" BY <1>1, <1>2 DEF Behaved, Waiting, groupVars
    <2> QED BY <2>1, <2>2, Returned
  <1>3. CASE call[t].n # 0
    <2>1. Goto(t, "loop") /\ k' = k BY <1>1, <1>3 DEF Leave, IsAPoll, AfterYield
    <2>2. pc'[t] = "loop" /\ call' = call BY <2>1 DEF Goto, IInv, Shape
    <2>3. UNCHANGED <<made, live, out>> BY <1>1 DEF groupVars
    <2>4. /\ Waiting(t, WaitOps)' <=> Waiting(t, WaitOps)
          /\ Waiting(t, {"notifywait", "take"})' <=> Waiting(t, {"notifywait", "take"})
      BY <2>2 DEF Waiting, WaitOps
    <2>5. InSync(t)' <=> InSync(t) BY <2>2 DEF InSync
    <2>6. group_from_c(call[t].p)' <=> group_from_c(call[t].p) BY <2>2, <2>3 DEF group_from_c
    <2> QED
      BY <1>1, <2>1, <2>2, <2>3, <2>4, <2>5, <2>6
      DEF Behaved, Settles, Sending, WaitOps, Resting, group_from_c
  <1> QED BY <1>2, <1>3

(* A wait for bits.                                                        *)
LEMMA WaitBitsBehaves ==
  ASSUME IInv, CallsTyped, NEW t \in Slots, xEventGroupWaitBits(t), nstate'[t] # "waiting",
         Behaved(t), Settles(t)
  PROVE  Behaved(t)'
  <1>1. /\ CanRun(t) /\ pc[t] \in {"call", "loop"} /\ call[t].op \in {"wait", "watch"}
    BY DEF xEventGroupWaitBits, Looping
  <1>2. k.st[t] = "ready" BY <1>1, Running DEF Parting, Leaving
  <1>4. CASE Answered(t)
    <2>1. Goto(t, "c") /\ t \notin out' BY <1>4 DEF xEventGroupWaitBits
    <2> QED BY <2>1, Returned
  <1>5. CASE ~Answered(t)
    <2>1. Goto(t, "blocked") /\ k' = Parked(t) /\ out' = out BY <1>5 DEF xEventGroupWaitBits
    <2>2. pc'[t] = "blocked" /\ call' = call BY <2>1 DEF Goto, IInv, Shape
    <2>3. t \notin out' BY <1>5, <2>1 DEF Answered
    <2>4. call[t] \in Calls BY <1>1 DEF CallsTyped, Good, Busy, Working
    <2>5. call[t] # NoCall BY <2>4, NoCallAssumption
    <2>6. k'.st[t] = "blocked" => call[t].n # 0 BY <1>2, <2>1 DEF Parked
    <2> QED BY <1>1, <2>2, <2>3, <2>5, <2>6 DEF Behaved, InSync, Waiting, Settles, WaitOps
  <1> QED BY <1>4, <1>5

(* A meeting: until it is released its caller rests.                       *)
LEMMA SyncBehaves ==
  ASSUME IInv, Fits(k), CallsTyped, NEW t \in Slots, xEventGroupSync(t), nstate'[t] # "waiting",
         Behaved(t), Settles(t)
  PROVE  Behaved(t)'
  <1>1. Looping(t, "sync") BY DEF xEventGroupSync
  <1>2. CanRun(t) /\ pc[t] \in {"call", "loop"} /\ call[t].op = "sync" BY <1>1 DEF Looping
  <1>3. k.st[t] = "ready" BY <1>2, Running DEF Parting, Leaving
  <1>5. t \notin Released(OwnBits(t)) BY <1>3 DEF Released, Waits
  <1>6. call[t].n = Forever /\ Forever \in Nat /\ Forever # 0
    BY <1>2, KernelAssumption DEF Behaved, Sending, Forever
  <1>7. ~k.lock /\ t \notin k.late BY <1>1, Tries DEF LockOps, Fits
  <1>8. CASE pc[t] = "call" /\ group_from_c(call[t].p)
    <2>1. out' = out \cup Released(OwnBits(t)) BY <1>8 DEF xEventGroupSync, set_bits
    <2>2. t \notin out' BY <1>5, <1>8, <2>1 DEF Behaved, Waiting
    <2>3. CASE Met(t, bits \cup OwnBits(t))
      <3>1. Goto(t, "c") BY <1>8, <2>3 DEF xEventGroupSync
      <3> QED BY <2>2, <3>1, Returned
    <2>4. CASE ~Met(t, bits \cup OwnBits(t))
      <3>1. /\ Goto(t, "blocked") /\ k' = Wake(Parked(t), Released(OwnBits(t)))
            /\ UNCHANGED <<made, live>>
        BY <1>8, <2>4 DEF xEventGroupSync
      <3>2. pc'[t] = "blocked" /\ call' = call BY <3>1 DEF Goto, IInv, Shape
      <3>3. Parked(t) = Block(k, t, Forever) BY <1>6, <1>8 DEF Parked
      <3>4. k \in KType BY DEF IInv, Shape
      <3>5. Block(k, t, Forever) \in KType BY <1>6, <3>4, BlockLeaves DEF Leaves
      <3>6. Resting(Block(k, t, Forever), t) BY <1>6, <1>7, <3>4, BlockDoes
      <3>7. Resting(k', t) BY <1>5, <3>1, <3>3, <3>5, <3>6, WakeLeaves DEF Leaves
      <3>8. call[t] \in Calls BY <1>2 DEF CallsTyped, Good, Busy, Working
      <3>9. call[t] # NoCall BY <3>8, NoCallAssumption
      <3>10. group_from_c(call[t].p)' BY <1>8, <3>1, <3>2 DEF group_from_c
      <3> QED
        BY <1>2, <1>6, <2>2, <3>2, <3>7, <3>9, <3>10
        DEF Behaved, Waiting, Settles, WaitOps, Resting, group_from_c
    <2> QED BY <2>3, <2>4
  <1>9. CASE pc[t] = "loop" /\ ~Answered(t)
    BY <1>2, <1>3, <1>9 DEF Behaved, InSync, Resting, Answered
  <1>10. CASE Goto(t, "c") /\ out' = out \ {t} BY <1>10, Returned
  <1> QED BY <1>2, <1>8, <1>9, <1>10 DEF xEventGroupSync

(* Only a task's own call makes it wait to be notified.                    *)
LEMMA OwnAsks ==
  ASSUME NotifyTypeOK, NEW t \in Slots, Whole(t), nstate'[t] = "waiting"
  PROVE  nstate[t] = "waiting" \/ xTaskGenericNotifyWait(t) \/ ulTaskGenericNotifyTake(t)
  <1>1. CASE NotifyCall(t)
    <2>1. CASE xTaskGenericNotify(t)
      <3>1. nstate' = nstate \/ \E s \in Slots : nstate' = [nstate EXCEPT ![s] = "received"]
        BY <2>1 DEF xTaskGenericNotify, notify, notifyVars, Named
      <3> QED BY <3>1 DEF NotifyTypeOK
    <2>2. CASE xTaskGenericNotifyStateClear(t) BY <2>2 DEF xTaskGenericNotifyStateClear
    <2>3. CASE nstate' = nstate BY <2>3
    <2> QED
      BY <1>1, <2>1, <2>2, <2>3 DEF NotifyCall, Query, ulTaskGenericNotifyValueClear
  <1>2. CASE NewUnnotified BY <1>2 DEF NewUnnotified
  <1>3. CASE UNCHANGED notifyVars BY <1>3 DEF notifyVars
  <1> QED BY <1>1, <1>2, <1>3 DEF Whole

(* And then it is within that call, under a block time.                    *)
LEMMA WaitAsks ==
  ASSUME IInv, NotifyTypeOK, CallsTyped, NEW t \in Slots,
         xTaskGenericNotifyWait(t) \/ ulTaskGenericNotifyTake(t), nstate'[t] = "waiting"
  PROVE  Waiting(t, {"notifywait", "take"})'
  <1>1. /\ pc[t] \in {"call", "loop"} /\ call[t].op \in {"notifywait", "take"}
    BY DEF xTaskGenericNotifyWait, ulTaskGenericNotifyTake, Looping
  <1>2. call[t].n # 0 /\ Goto(t, "blocked")
    BY DEF xTaskGenericNotifyWait, ulTaskGenericNotifyTake, NotifyTypeOK
  <1>3. pc'[t] = "blocked" /\ call' = call BY <1>2 DEF Goto, IInv, Shape
  <1>4. call[t] \in Calls BY <1>1 DEF CallsTyped, Good, Busy, Working
  <1>5. call[t] # NoCall BY <1>4, NoCallAssumption
  <1> QED BY <1>1, <1>2, <1>3, <1>5 DEF Waiting

(* Whoever else is released waited.                                        *)
LEMMA OutGrows ==
  ASSUME NEW t \in Slots, Whole(t)
  PROVE  out' \subseteq out \cup Waits(WaitOps)
  <1>1. \A b : Released(b) \subseteq Waits(WaitOps) BY DEF Released
  <1>2. CASE GroupCall(t)
    <2>1. out' \in {out, out \ {t}} \/ \E b : out' = out \cup Released(b)
      BY <1>2 DEF GroupCall, xEventGroupCreate, vEventGroupDelete, xEventGroupSetBits,
                  xEventGroupClearBits, xEventGroupWaitBits, xEventGroupSync, set_bits
    <2> QED BY <1>1, <2>1
  <1>3. CASE timer_daemon(t)
    <2>1. out' = out \/ \E b : out' = out \cup Released(b)
      BY <1>3 DEF timer_daemon, pended, set_bits
    <2> QED BY <1>1, <2>1
  <1>4. CASE UNCHANGED groupVars BY <1>4 DEF groupVars
  <1> QED BY <1>2, <1>3, <1>4 DEF Whole

(* The other calls wait for no bits.                                       *)
LEMMA ElseBehaves ==
  ASSUME IInv, NotifyTypeOK, CallsTyped, NEW t \in Slots, Whole(t), ~Enter(t, Objects),
         pc[t] # "blocked", ~(pc[t] \in Sending /\ call[t].op \in WaitOps),
         Behaved(t), Settles(t)
  PROVE  Behaved(t)'
  <1>1. Acts(t) BY DEF Acts, Whole
  <1>2. ~(call[t] # NoCall /\ call[t].op \in WaitOps) BY DEF Behaved, Sending
  <1>3. ~(call'[t] # NoCall /\ call'[t].op \in WaitOps)
    <2>1. call[t] \in Calls => call[t] # NoCall BY NoCallAssumption
    <2> QED BY <1>1, <1>2, <2>1, CallGoes
  <1>4. t \notin out'
    <2>1. t \notin out BY <1>2 DEF Behaved, Waiting
    <2>2. t \notin Waits(WaitOps) BY <1>2 DEF Waits
    <2> QED BY <2>1, <2>2, OutGrows
  <1>5. ~(pc'[t] \in Sending /\ call'[t].op = "sync")
    <2>1. pc'[t] \in Sending => Same(t) BY <1>1, SameCall
    <2> QED BY <2>1 DEF Same, WaitOps
  <1>6. nstate'[t] = "waiting" => Waiting(t, {"notifywait", "take"})'
    <2>1. SUFFICES ASSUME nstate'[t] = "waiting"
                   PROVE  xTaskGenericNotifyWait(t) \/ ulTaskGenericNotifyTake(t)
      BY WaitAsks
    <2>2. CASE nstate[t] = "waiting"
      <3>1. pc[t] = "loop" /\ call[t].op \in {"notifywait", "take"}
        BY <2>2 DEF Behaved, Waiting
      <3> QED BY <1>1, <3>1, NotifierGoes
    <2> QED BY <2>1, <2>2, OwnAsks
  <1>7. ~InSync(t)' BY <1>5 DEF InSync, Sending
  <1> QED BY <1>3, <1>4, <1>5, <1>6, <1>7 DEF Behaved, Settles

(* So its own steps leave a task that meets behaved.                       *)
LEMMA OwnBehaves ==
  ASSUME MeetersAreFree, IInv, Faithful, IInv', Arguments, Typed, Scripted,
         NEW t \in Slots, Whole(t), Party(t), Behaved(t)
  PROVE  Behaved(t)'
  <1>1. Acts(t) BY DEF Acts, Whole
  <1>2. CallsTyped /\ NotifyTypeOK /\ Apart /\ Fits(k) BY DEF Typed, Fitting
  <1>3. Settles(t)
    <2>1. k'.st[t] \in {"ready", "blocked"} BY <1>2, OwnStays DEF Behaved
    <2>2. k.st[t] # "free" BY DEF Behaved
    <2>3. ~(mask' /\ t = Fresh') BY <1>1, <2>2, PartiesStay
    <2> QED BY <2>1, <2>3 DEF Settles
  <1>4. CASE Enter(t, Objects)
    <2>1. CanRun(t) /\ pc[t] = "c" BY <1>4, Zenon DEF Enter, At
    <2>2. k.st[t] = "ready" BY <2>1, Running DEF Parting, Leaving
    <2>3. t \notin out'
      <3>1. t \notin out /\ t \notin Waits(WaitOps) BY <2>1, <2>2 DEF Behaved, Waiting, Waits
      <3> QED BY <3>1, OutGrows
    <2>4. nstate'[t] # "waiting"
      <3>1. ~xTaskGenericNotifyWait(t) /\ ~ulTaskGenericNotifyTake(t)
        BY <2>1 DEF xTaskGenericNotifyWait, ulTaskGenericNotifyTake, Looping
      <3> QED BY <1>2, <2>1, <3>1, OwnAsks DEF Behaved, Waiting
    <2> QED BY <1>3, <1>4, <2>3, <2>4, EnterBehaves
  <1>5. CASE pc[t] = "blocked" BY <1>3, <1>5, LeaveBehaves
  <1>6. CASE pc[t] \in Sending /\ pc[t] # "blocked" /\ call[t].op \in WaitOps
    <2>1. \/ xEventGroupWaitBits(t) /\ call[t].op # "sync"
          \/ xEventGroupSync(t) /\ call[t].op = "sync"
      BY <1>1, <1>6, WaiterGoes
    <2>2. nstate'[t] # "waiting"
      <3>1. ~xTaskGenericNotifyWait(t) /\ ~ulTaskGenericNotifyTake(t)
        BY <1>6 DEF xTaskGenericNotifyWait, ulTaskGenericNotifyTake, Looping, WaitOps
      <3> QED BY <1>2, <1>6, <3>1, OwnAsks DEF Behaved, Waiting, WaitOps
    <2> QED BY <1>2, <1>3, <2>1, <2>2, WaitBitsBehaves, SyncBehaves
  <1> QED BY <1>2, <1>3, <1>4, <1>5, <1>6, ElseBehaves

(* Time does not change who meets, nor where anybody is.                   *)
LEMMA PartySame ==
  ASSUME UNCHANGED <<entry, program>>
  PROVE  /\ \A u \in Slots : Party(u)' <=> Party(u)
         /\ \A u, b : OwnBit(program, entry[u], b)' <=> OwnBit(program, entry[u], b)
  <1>1. Meeters(program)' = Meeters(program) BY DEF Meeters, Cast, Started, Meeter
  <1>2. \A u, b : OwnBit(program, entry[u], b)' <=> OwnBit(program, entry[u], b)
    BY DEF OwnBit, Cast, Started
  <1> QED BY <1>1, <1>2 DEF Party
(* A tick, whatever its handler does besides, is the tick of the model.    *)
LEMMA TickedTicks == ASSUME Ticked PROVE Ticks /\ phase = "run" /\ phase' = "run"
  BY HalvesTick, TicksFrame DEF Ticked

(* Nobody calls before the scheduler is started.                           *)
LEMMA PreludeKept ==
  ASSUME IInv, Faithful, Prelude, IInv', [Next]_vars
  PROVE  Prelude'
  <1>1. ASSUME phase' = "run" PROVE Prelude' BY <1>1 DEF Prelude
  <1>2. CASE \E t \in Slots : Whole(t)
    <2>1. PICK t \in Slots : Whole(t) BY <1>2
    <2>2. Acts(t) BY <2>1 DEF Acts, Whole
    <2>3. phase' = "run" BY <2>2, ActsFrame DEF Frame
    <2> QED BY <1>1, <2>3
  <1>3. CASE main /\ NewUnnotified /\ UNCHANGED groupVars
    <2>1. phase # "run" /\ UNCHANGED call
      BY <1>3 DEF main, CreateMonitor, ArmMonitor, StartDemo, start_scheduler, ArmBoth,
                  start_first_task, AllArmed
    <2>2. \A u \in Slots : nstate'[u] = "waiting" => nstate[u] = "waiting"
      BY <1>3 DEF NewUnnotified
    <2>3. phase' = "armmon" => k'.st[0] = "ready"
      <3>1. SUFFICES ASSUME phase' = "armmon" PROVE k'.st[0] = "ready" OBVIOUS
      <3>2. CreateMonitor
        BY <1>3, <3>1 DEF main, ArmMonitor, StartDemo, start_scheduler, ArmBoth, start_first_task
      <3>3. k' = create_task(k, 0, Boot[1][2]) BY <3>2 DEF CreateMonitor
      <3>4. 0 \in Slots /\ k \in KType /\ Boot[0 + 1][2] \in Nat BY BootTyped DEF IInv, Shape
      <3> QED BY <3>3, <3>4 DEF create_task, KType
    <2> QED BY <1>3, <2>1, <2>2, <2>3 DEF Prelude, groupVars
  <1>4. CASE pick_next
    <2>1. phase' # "died" BY DEF IInv, Shape, Phases
    <2> QED BY <1>1, <1>4, <2>1 DEF pick_next
  <1>5. CASE Ticked BY <1>1, <1>5, TickedTicks
  <1>6. CASE UNCHANGED vars
    BY <1>6 DEF vars, taskVars, notifyVars, groupVars, Prelude
  <1> QED BY <1>2, <1>3, <1>4, <1>5, <1>6, WholeSteps

(* Start-up leaves a task that is ready or blocked so, and makes ready     *)
(* the ones it gives an entry.                                             *)
LEMMA MainReadies ==
  ASSUME IInv, Prelude, main, NEW u \in Slots,
         k.st[u] \in {"ready", "blocked"} \/ entry'[u] # entry[u]
  PROVE  k'.st[u] \in {"ready", "blocked"}
  <1>1. k \in KType /\ entry \in [Slots -> Functions \cup {NoFunc}] BY DEF IInv, Shape
  <1>2. 0 \in Slots /\ Idle \in Slots /\ Timer \in Slots BY BootTyped DEF IInv, Shape
  <1>3. ASSUME NEW kk \in KType, NEW t \in Slots, NEW p,
               kk.st[u] \in {"ready", "blocked"} \/ u = t
        PROVE  create_task(kk, t, p).st[u] \in {"ready", "blocked"}
    BY <1>3 DEF create_task, KType
  <1>4. CASE CreateMonitor BY <1>1, <1>2, <1>3, <1>4 DEF CreateMonitor
  <1>5. CASE ArmMonitor
    <2>1. entry' = [entry EXCEPT ![0] = Boot[1][1]] /\ k' = k /\ phase = "armmon"
      BY <1>5 DEF ArmMonitor
    <2> QED BY <1>1, <2>1 DEF Prelude
  <1>6. CASE StartDemo
    <2>1. PICK t \in FreeSlots(k) : /\ k' = create_task(k, t, Boot[t + 1][2])
                                    /\ entry' = [entry EXCEPT ![t] = Boot[t + 1][1]]
      BY <1>6 DEF StartDemo
    <2> QED BY <1>1, <1>3, <2>1 DEF FreeSlots
  <1>7. CASE start_scheduler
    <2> DEFINE k1 == create_task(k, Idle, 0)
               k2 == create_task(k1, Timer, TIMER_TASK_PRIORITY)
    <2>1. PICK t \in Best(k2) : k' = [k2 EXCEPT !.cur = t] BY <1>7 DEF start_scheduler
    <2>2. k1 \in KType BY <1>1, <1>2, CreateDoes
    <2>3. k2 \in KType BY <1>2, <2>2, TimerClamp, CreateDoes
    <2>4. k.st[u] \in {"ready", "blocked"} BY <1>7 DEF start_scheduler
    <2>5. k1.st[u] \in {"ready", "blocked"} BY <1>1, <1>2, <1>3, <2>4
    <2>6. k2.st[u] \in {"ready", "blocked"} BY <1>2, <1>3, <2>2, <2>5
    <2> HIDE DEF k2
    <2>7. k'.st = k2.st BY <2>1, <2>3 DEF KType
    <2> QED BY <2>6, <2>7
  <1>8. CASE ArmBoth \/ start_first_task BY <1>8 DEF ArmBoth, start_first_task
  <1> QED BY <1>4, <1>5, <1>6, <1>7, <1>8 DEF main

(* So a task that meets behaves from the start.                            *)
LEMMA MainBehaves ==
  ASSUME IInv, Faithful, Prelude, AllBehave, IInv', Faithful', Prelude', main, NewUnnotified,
         UNCHANGED groupVars
  PROVE  AllBehave'
  <1> SUFFICES ASSUME NEW u \in Slots, Party(u)' PROVE Behaved(u)'
    BY DEF AllBehave
  <1>1. phase # "run" /\ UNCHANGED <<mask, call, program>>
    BY DEF main, CreateMonitor, ArmMonitor, StartDemo, start_scheduler, ArmBoth,
           start_first_task, AllArmed
  <1>2. ~mask' BY <1>1, Quiet
  <1>3. Meeters(program)' = Meeters(program) BY <1>1 DEF Meeters, Cast, Started, Meeter
  <1>4. k'.st[u] \in {"ready", "blocked"}
    <2>1. entry'[u] = entry[u] => Party(u) BY <1>3 DEF Party
    <2>2. k.st[u] \in {"ready", "blocked"} \/ entry'[u] # entry[u]
      BY <2>1 DEF AllBehave, Behaved
    <2> QED BY <2>2, MainReadies
  <1>5. pc'[u] \in Unstarted
    <2>1. phase' # "run" \/ pc' = pc
      BY DEF main, CreateMonitor, ArmMonitor, StartDemo, start_scheduler, ArmBoth,
             start_first_task
    <2> QED BY <1>1, <2>1 DEF Faithful
  <1>6. call'[u] = NoCall /\ u \notin out' BY <1>1 DEF Prelude, groupVars
  <1>7. nstate'[u] # "waiting" BY <1>1 DEF Prelude, NewUnnotified
  <1> QED BY <1>2, <1>4, <1>5, <1>6, <1>7 DEF Behaved, Unstarted, Sending, InSync

(* And behaves on.                                                         *)
LEMMA AllBehaveKept ==
  ASSUME MeetersAreFree, IInv, Faithful, Arguments, Typed, Scripted, Prelude, AllBehave,
         IInv', Faithful', Prelude', [Next]_vars
  PROVE  AllBehave'
  <1>1. NotifyTypeOK /\ Apart BY DEF Typed, Fitting
  <1>2. CASE \E t \in Slots : Whole(t)
    <2>1. PICK t \in Slots : Whole(t) BY <1>2
    <2>2. Acts(t) BY <2>1 DEF Acts, Whole
    <2>3. SUFFICES ASSUME NEW u \in Slots, Party(u)' PROVE Behaved(u)' BY DEF AllBehave
    <2>4. Party(u) BY <2>2, <2>3, PartiesStay
    <2>5. Behaved(u) BY <2>4 DEF AllBehave
    <2>6. CASE u = t BY <2>1, <2>4, <2>5, <2>6, OwnBehaves
    <2>7. CASE u # t
      <3>1. Unmoved(u)
        <4>1. CASE (TaskCall(t) \/ Enter(t, Objects)) /\ NewUnnotified /\ UNCHANGED groupVars
          BY <2>4, <2>7, <4>1, TasksUnmoved
        <4>2. CASE NotifyCall(t) /\ UNCHANGED groupVars
          BY <1>1, <2>5, <2>7, <4>2, NotifyUnmoved
        <4>3. CASE GroupCall(t) /\ UNCHANGED notifyVars BY <2>4, <2>7, <4>3, GroupUnmoved
        <4>4. CASE timer_daemon(t) /\ UNCHANGED notifyVars BY <2>7, <4>4, DaemonUnmoved
        <4>5. CASE BufferCall(t) /\ UNCHANGED <<notifyVars, groupVars>>
          BY <2>7, <4>5, BufferUnmoved
        <4> QED BY <2>1, <4>1, <4>2, <4>3, <4>4, <4>5 DEF Whole
      <3> QED BY <2>2, <2>5, <2>7, <3>1, OthersBehave
    <2> QED BY <2>6, <2>7
  <1>3. CASE main /\ NewUnnotified /\ UNCHANGED groupVars BY <1>3, MainBehaves
  <1>4. ASSUME UNCHANGED <<mask, pc, call, entry, program>>, ~mask,
               \A u \in Slots : Party(u) => Unmoved(u)
        PROVE  AllBehave'
    <2>1. SUFFICES ASSUME NEW u \in Slots, Party(u)' PROVE Behaved(u)' BY DEF AllBehave
    <2>2. Party(u) BY <1>4, <2>1, PartySame
    <2> QED BY <1>4, <2>2, UnmovedBehaves DEF AllBehave
  <1>5. CASE pick_next /\ NewUnnotified /\ UNCHANGED groupVars
    BY <1>4, <1>5, SwitchUnmoved, TimeStands
  <1>6. CASE Ticked
    <2>1. \A u \in Slots : Party(u) => Unmoved(u) BY <1>1, <1>6, TickUnmoved DEF AllBehave
    <2> QED BY <1>4, <1>6, <2>1, TickedTicks, TimeStands
  <1>7. CASE UNCHANGED vars
    <2>1. UNCHANGED <<k, mask, pc, call, entry, program, nstate, out, made, live>>
      BY <1>7 DEF vars, taskVars, notifyVars, groupVars
    <2>2. SUFFICES ASSUME NEW u \in Slots, Party(u)' PROVE Behaved(u)' BY DEF AllBehave
    <2>3. Behaved(u) BY <2>1, <2>2, PartySame DEF AllBehave
    <2>4. Waiting(u, WaitOps)' <=> Waiting(u, WaitOps) BY <2>1 DEF Waiting, WaitOps
    <2>5. Waiting(u, {"notifywait", "take"})' <=> Waiting(u, {"notifywait", "take"})
      BY <2>1 DEF Waiting
    <2>6. Fresh' = Fresh BY <2>1 DEF Fresh, handle_from_c
    <2> QED
      BY <2>1, <2>3, <2>4, <2>5, <2>6
      DEF Behaved, InSync, group_from_c, Resting, Sending, WaitOps
  <1> QED BY <1>2, <1>3, <1>5, <1>6, <1>7, WholeSteps
(* Before the start nobody is in a call.                                   *)
LEMMA PreludeInit == Init => Prelude /\ AllBehave
  <1> SUFFICES ASSUME Init PROVE Prelude /\ AllBehave OBVIOUS
  <1>1. /\ phase = "mon" /\ \A u \in Slots : call[u] = NoCall /\ entry[u] = NoFunc
        /\ out = {} /\ bits = {} /\ cmds = <<>>
        /\ \A u \in Slots : passed[u] = 0 /\ nstate[u] = "none"
    BY DEF Init, TaskInit, GroupInit, NotifyInit
  <1>2. program \in Programs BY DEF Init, TaskInit
  <1>3. \A u \in Slots : ~Party(u) BY <1>1, <1>2, CastActs DEF Party
  <1> QED BY <1>1, <1>3 DEF Prelude, AllBehave

(* What the bits of the group say: a bit that is a task's own is set only  *)
(* while that task waits in its meeting, unreleased.                       *)
Mine(u, b) == Party(u) /\ OwnBit(program, entry[u], b)
Unset(s) ==
  \A i \in 1 .. Len(s) : s[i].do = "set" => \A b \in s[i].bits : \A u \in Slots : ~Mine(u, b)
Stands ==
  /\ \A u \in Slots : \A b \in bits : Mine(u, b) => InSync(u) /\ u \notin out
  /\ (\E u \in Slots : Party(u)) => ~(Bits \subseteq bits)
  /\ Unset(cmds)

(* The rounds a task has come through, counting one it was released from.  *)
Answer(u) == InSync(u) /\ u \in out
Round(u) == IF Answer(u) THEN (passed[u] + 1) % 3 ELSE passed[u]
Rounds == \A u, v \in Slots : Party(u) /\ Party(v) => Round(u) = Round(v)
Together == Stands /\ Rounds

(* Whose a bit is does not change.                                         *)
LEMMA MineSame ==
  ASSUME program' = program, NEW u \in Slots, entry'[u] = entry[u]
  PROVE  (Party(u)' <=> Party(u)) /\ \A b : Mine(u, b)' <=> Mine(u, b)
  <1>1. Meeters(program)' = Meeters(program) BY DEF Meeters, Cast, Started, Meeter
  <1>2. \A b : OwnBit(program, entry[u], b)' <=> OwnBit(program, entry[u], b)
    BY DEF OwnBit, Cast, Started
  <1> QED BY <1>1, <1>2 DEF Party, Mine

(* Every task that meets has a bit of its own.                             *)
LEMMA OneMine ==
  ASSUME MeetersAreFree, IInv, NEW u \in Slots, Party(u)
  PROVE  \E b \in Bits : Mine(u, b)
  BY DEF MeetersAreFree, Mine, Party, IInv, Shape

(* The meeting goes on as it was if no bit of another's is set, nobody     *)
(* leaves it and nobody comes through.                                     *)
Stay == program' = program /\ \A u \in Slots : Party(u)' => entry'[u] = entry[u]
(* A step that completes no meeting keeps those that wait in theirs.       *)
LEMMA MeetingGoesOn ==
  ASSUME Together, Stay, Unset(cmds'),
         \A u \in Slots : Party(u) => /\ InSync(u) /\ u \notin out => InSync(u)' /\ u \notin out'
                                      /\ Round(u)' = Round(u),
         \A u \in Slots : \A b \in bits' : Mine(u, b) => b \in bits \/ (InSync(u)' /\ u \notin out'),
         (\E u \in Slots : Party(u)) => ~(Bits \subseteq bits')
  PROVE  Together'
  <1>1. \A u \in Slots : Party(u)' => Party(u) BY MineSame DEF Stay
  <1>2. \A u \in Slots : \A b : Mine(u, b)' => Mine(u, b) BY MineSame DEF Stay, Mine
  <1>3. Rounds'
    <2>1. ASSUME NEW u \in Slots, NEW v \in Slots, Party(u)', Party(v)'
          PROVE  Round(u)' = Round(v)'
      BY <1>1, <2>1 DEF Together, Rounds
    <2> QED BY <2>1 DEF Rounds
  <1>4. Unset(cmds)'
    <2>1. \A i \in 1 .. Len(cmds') : cmds'[i].do = "set" =>
            \A b \in cmds'[i].bits : \A u \in Slots : ~Mine(u, b)
      BY DEF Unset
    <2> QED BY <1>2, <2>1 DEF Unset
  <1>5. Stands'
    <2>1. ASSUME NEW u \in Slots, NEW b \in bits', Mine(u, b)'
          PROVE  InSync(u)' /\ u \notin out'
      BY <1>2, <2>1 DEF Together, Stands, Mine
    <2>2. (\E u \in Slots : Party(u))' => ~(Bits \subseteq bits)' BY <1>1
    <2> QED BY <1>4, <2>1, <2>2 DEF Stands
  <1> QED BY <1>3, <1>5 DEF Together

(* And is over, for all at once, when the last of them has come.           *)
LEMMA MeetingEnds ==
  ASSUME MeetersAreFree, IInv, Together, Stay, Unset(cmds'), bits' = {},
         \A u \in Slots : Party(u) => Round(u)' = (Round(u) + 1) % 3
  PROVE  Together'
  <1>1. \A u \in Slots : Party(u)' => Party(u) BY MineSame DEF Stay
  <1>2. \A u \in Slots : \A b : Mine(u, b)' => Mine(u, b) BY MineSame DEF Stay, Mine
  <1>3. Rounds'
    <2>1. ASSUME NEW u \in Slots, NEW v \in Slots, Party(u)', Party(v)'
          PROVE  Round(u)' = Round(v)'
      BY <1>1, <2>1 DEF Together, Rounds
    <2> QED BY <2>1 DEF Rounds
  <1>4. Unset(cmds)'
    <2>1. \A i \in 1 .. Len(cmds') : cmds'[i].do = "set" =>
            \A b \in cmds'[i].bits : \A u \in Slots : ~Mine(u, b)
      BY DEF Unset
    <2> QED BY <1>2, <2>1 DEF Unset
  <1>5. (\E u \in Slots : Party(u))' => ~(Bits \subseteq bits)' BY <1>1, OneMine
  <1> QED BY <1>3, <1>4, <1>5 DEF Together, Stands

(* Bits set that are not enough for a meeting release none of it.          *)
LEMMA SetShort ==
  ASSUME NEW b, NEW more, set_bits(b, more), ~(Bits \subseteq bits \cup b)
  PROVE  /\ bits' \subseteq bits \cup b
         /\ \A u \in Slots : call[u].op = "sync" => (u \in out' <=> u \in out)
  <1>1. \A u \in Slots : call[u].op = "sync" => u \notin Released(b)
    BY DEF Released, Met, WaitsFor, EveryBit
  <1> QED BY <1>1 DEF set_bits

(* Enough bits release every task that meets but the one that set them.    *)
LEMMA SetFull ==
  ASSUME MeetersAreFree, IInv, CallsTyped, bits \subseteq Bits, Together,
         NEW b \in SUBSET Bits, NEW more, set_bits(b, more), Bits \subseteq bits \cup b,
         NEW u \in Slots, Party(u), Behaved(u), \A x \in b : ~Mine(u, x)
  PROVE  InSync(u) /\ u \notin out /\ u \in out' /\ bits' = {}
  <1>1. PICK x \in Bits : Mine(u, x) BY OneMine
  <1>2. x \in bits BY <1>1
  <1>3. InSync(u) /\ u \notin out BY <1>1, <1>2 DEF Together, Stands
  <1>4. k.st[u] = "blocked" BY <1>3 DEF Behaved, Resting
  <1>5. call[u] \in Calls BY <1>3 DEF InSync, CallsTyped, Good, Busy, Working
  <1>6. u \in Waits(WaitOps) BY <1>3, <1>4, <1>5, NoCallAssumption DEF Waits, InSync, WaitOps
  <1>7. WaitsFor(u) = Bits /\ Clears(u) = Bits BY <1>3 DEF InSync, WaitsFor, EveryBit, Clears
  <1>8. u \in Released(b) BY <1>3, <1>6, <1>7 DEF Released, Met, InSync
  <1>9. Bits \subseteq ClearedBy(b) BY <1>7, <1>8 DEF ClearedBy
  <1> QED BY <1>3, <1>8, <1>9 DEF set_bits

(* So setting bits that nobody needs to meet keeps the rounds.             *)
LEMMA SetKeeps ==
  ASSUME MeetersAreFree, IInv, CallsTyped, GroupTypeOK, AllBehave, Together, Stay,
         NEW b \in SUBSET Bits, set_bits(b, {}), \A u \in Slots : \A x \in b : ~Mine(u, x),
         passed' = passed, Unset(cmds'),
         \A u \in Slots : Party(u) => (InSync(u)' <=> InSync(u))
  PROVE  Together'
  <1>1. bits \subseteq Bits BY DEF GroupTypeOK
  <1>2. CASE ~(Bits \subseteq bits \cup b)
    <2>1. /\ bits' \subseteq bits \cup b
          /\ \A u \in Slots : call[u].op = "sync" => (u \in out' <=> u \in out)
      BY <1>2, SetShort
    <2>2. \A u \in Slots : Party(u) => Round(u)' = Round(u)
      BY <2>1 DEF Round, Answer, InSync
    <2>3. \A u \in Slots : Party(u) /\ InSync(u) /\ u \notin out => InSync(u)' /\ u \notin out'
      BY <2>1 DEF InSync
    <2> QED BY <1>2, <2>1, <2>2, <2>3, MeetingGoesOn
  <1>3. CASE Bits \subseteq bits \cup b
    <2>1. \A u \in Slots : Party(u) => InSync(u) /\ u \notin out /\ u \in out' /\ bits' = {}
      BY <1>1, <1>3, SetFull DEF AllBehave
    <2>2. \A u \in Slots : Party(u) => Round(u)' = (Round(u) + 1) % 3
      BY <2>1 DEF Round, Answer
    <2>3. CASE \E u \in Slots : Party(u)
      <3>1. bits' = {} BY <2>1, <2>3
      <3> QED BY <2>2, <3>1, MeetingEnds
    <2>4. CASE ~(\E u \in Slots : Party(u)) BY <2>4, MeetingGoesOn DEF Mine
    <2> QED BY <2>3, <2>4
  <1> QED BY <1>2, <1>3

(* The bits a task sets are nobody else's own.                             *)
LEMMA SetsOwn ==
  ASSUME MeetersAreFree, IInv, CallsTyped, Scripted, NEW t \in Slots, pc[t] \in Sending,
         call[t].op \in {"setbits", "sync"}
  PROVE  /\ OwnBits(t) \subseteq Bits
         /\ \A u \in Slots : u # t \/ call[t].op = "setbits" => \A b \in OwnBits(t) : ~Mine(u, b)
  <1>1. OwnBits(t) \subseteq Bits
    <2>1. call[t].x \in DOMAIN BitsOf BY DEF CallsTyped, Good, BitOps
    <2> QED BY <2>1, GroupsAssumption DEF OwnBits
  <1>2. entry[t] \in Cast(program) /\ \E c \in Code[entry[t]] : Reads(c, t) BY InScript
  <1>3. PICK c \in Code[entry[t]] : Reads(c, t) BY <1>2
  <1>4. ASSUME NEW u \in Slots, u # t \/ call[t].op = "setbits", NEW b \in OwnBits(t), Mine(u, b)
        PROVE  FALSE
    <2>1. Party(u) /\ OwnBit(program, entry[u], b) BY <1>4 DEF Mine
    <2>2. c.op = "setbits" \/ (c.op = "sync" /\ entry[t] # entry[u])
      BY <1>3, <1>4, <2>1, PartiesDiffer DEF Reads
    <2>3. b \in BitsOf[c.x] BY <1>3, <1>4 DEF OwnBits, Reads
    <2> QED BY <1>2, <2>1, <2>2, <2>3 DEF OwnBit
  <1> QED BY <1>1, <1>4

(* The calls on the group but the meeting itself.                          *)
LEMMA NoMeeting ==
  ASSUME IInv, NEW t \in Slots, GroupCall(t), ~xEventGroupSync(t)
  PROVE  /\ Stay /\ UNCHANGED <<cmds, passed>> /\ ~InSync(t)
         /\ \A u \in Slots : InSync(u)' <=> InSync(u)
  <1>1. UNCHANGED <<entry, program, cmds, passed>>
    BY DEF GroupCall, xEventGroupCreate, vEventGroupDelete, xEventGroupSetBits,
           xEventGroupClearBits, xEventGroupWaitBits, still
  <1>2. \E at : Goto(t, at)
    BY DEF GroupCall, xEventGroupCreate, vEventGroupDelete, xEventGroupSetBits,
           xEventGroupClearBits, xEventGroupWaitBits
  <1>3. \A u \in Slots : u # t => pc'[u] = pc[u] /\ call'[u] = call[u]
    BY <1>2 DEF Goto, IInv, Shape
  <1>4. ~InSync(t)
    BY DEF GroupCall, xEventGroupCreate, vEventGroupDelete, xEventGroupSetBits,
           xEventGroupClearBits, xEventGroupWaitBits, Calling, Looping, At, InSync
  <1>5. ~InSync(t)'
    <2>1. CASE Goto(t, "c") \/ Goto(t, "yield")
      <3>1. pc'[t] \in {"c", "yield"} BY <2>1 DEF Goto, IInv, Shape
      <3> QED BY <3>1 DEF InSync
    <2>2. CASE xEventGroupWaitBits(t) /\ Goto(t, "blocked")
      <3>1. call[t].op # "sync" BY <2>2 DEF xEventGroupWaitBits, Looping
      <3>2. call' = call BY <2>2 DEF Goto
      <3> QED BY <3>1, <3>2 DEF InSync
    <2> QED
      BY <2>1, <2>2 DEF GroupCall, xEventGroupCreate, vEventGroupDelete, xEventGroupSetBits,
                        xEventGroupClearBits, xEventGroupWaitBits
  <1> QED BY <1>1, <1>3, <1>4, <1>5 DEF Stay, InSync
(* The calls on a group, but for the meeting itself.                       *)
LEMMA CallsKeepTogether ==
  ASSUME MeetersAreFree, IInv, CallsTyped, GroupTypeOK, Scripted, AllBehave, Together,
         NEW t \in Slots, GroupCall(t), ~xEventGroupSync(t)
  PROVE  Together'
  <1>1. /\ Stay /\ UNCHANGED <<cmds, passed>> /\ ~InSync(t)
        /\ \A u \in Slots : InSync(u)' <=> InSync(u)
    BY NoMeeting
  <1>2. Unset(cmds') BY <1>1 DEF Together, Stands
  <1>3. CASE xEventGroupSetBits(t) /\ set_bits(OwnBits(t), {})
    <2>1. pc[t] \in Sending /\ call[t].op = "setbits"
      BY <1>3 DEF xEventGroupSetBits, Calling, At, Sending
    <2>2. OwnBits(t) \in SUBSET Bits /\ \A u \in Slots : \A b \in OwnBits(t) : ~Mine(u, b)
      BY <2>1, SetsOwn
    <2> QED BY <1>1, <1>2, <1>3, <2>2, SetKeeps
  <1>4. CASE bits' \subseteq bits /\ out' \in {out, out \ {t}}
    <2>1. \A u \in Slots : InSync(u) => (u \in out' <=> u \in out) BY <1>1, <1>4
    <2>2. \A u \in Slots : Round(u)' = Round(u) BY <1>1, <2>1 DEF Round, Answer
    <2>3. (\E u \in Slots : Party(u)) => ~(Bits \subseteq bits') BY <1>4 DEF Together, Stands
    <2> QED BY <1>1, <1>2, <1>4, <2>1, <2>2, <2>3, MeetingGoesOn
  <1>5. \/ set_bits(OwnBits(t), {}) /\ xEventGroupSetBits(t)
        \/ bits' \subseteq bits /\ out' \in {out, out \ {t}}
    BY DEF GroupCall, xEventGroupCreate, vEventGroupDelete, xEventGroupSetBits,
           xEventGroupClearBits, xEventGroupWaitBits, clear_bits
  <1> QED BY <1>3, <1>4, <1>5

(* The meeting.                                                            *)
LEMMA SyncKeepsTogether ==
  ASSUME MeetersAreFree, IInv, CallsTyped, GroupTypeOK, Scripted, AllBehave, Together,
         NEW t \in Slots, xEventGroupSync(t)
  PROVE  Together'
  <1>1. UNCHANGED <<entry, program, cmds>> BY DEF xEventGroupSync, still
  <1>2. Stay /\ Unset(cmds') BY <1>1 DEF Stay, Together, Stands
  <1>3. \E at : Goto(t, at) BY DEF xEventGroupSync
  <1>4. \A u \in Slots : u # t => (InSync(u)' <=> InSync(u))
    BY <1>3 DEF Goto, IInv, Shape, InSync
  <1>5. CanRun(t) /\ pc[t] \in {"call", "loop"} /\ call[t].op = "sync"
    BY DEF xEventGroupSync, Looping
  <1>6. k.st[t] = "ready" BY <1>5, Running DEF Parting, Leaving
  <1>7. \A u \in Slots : u # t => passed'[u] = passed[u]
    BY DEF xEventGroupSync, Passes, GroupTypeOK
  <1>8. Goto(t, "c") => ~InSync(t)'
    <2>1. Goto(t, "c") => pc'[t] = "c" BY DEF Goto, IInv, Shape
    <2> QED BY <2>1 DEF InSync
  <1>9. Goto(t, "blocked") => InSync(t)' BY <1>5 DEF Goto, IInv, Shape, InSync
  <1>10. bits \subseteq Bits /\ (Party(t) => Behaved(t)) BY DEF GroupTypeOK, AllBehave
  <1>11. (\E u \in Slots : Party(u)) => ~(Bits \subseteq bits) BY DEF Together, Stands
  <1>12. Passes(t) => passed'[t] = (passed[t] + 1) % 3 BY DEF Passes, GroupTypeOK
  <1>13. CASE pc[t] = "call" /\ group_from_c(call[t].p)
    <2> DEFINE b == OwnBits(t)
    <2>1. b \in SUBSET Bits /\ \A u \in Slots : u # t => \A x \in b : ~Mine(u, x)
      BY <1>5, <1>13, SetsOwn DEF Sending
    <2>2. Met(t, bits \cup b) <=> Bits \subseteq bits \cup b
      BY <1>5 DEF Met, WaitsFor, EveryBit
    <2>3. ~InSync(t) /\ (Party(t) => t \notin out)
      BY <1>10, <1>13 DEF InSync, Behaved, Waiting
    <2>4. CASE ~(Bits \subseteq bits \cup b)
      <3>1. set_bits(b, {}) /\ Goto(t, "blocked") /\ passed' = passed
        BY <1>13, <2>2, <2>4 DEF xEventGroupSync
      <3>2. /\ bits' \subseteq bits \cup b
            /\ \A u \in Slots : call[u].op = "sync" => (u \in out' <=> u \in out)
        BY <2>4, <3>1, SetShort
      <3>3. InSync(t)' /\ (Party(t) => t \notin out') BY <1>5, <1>9, <2>3, <3>1, <3>2
      <3>4. ASSUME NEW u \in Slots, Party(u)
            PROVE  /\ InSync(u) /\ u \notin out => InSync(u)' /\ u \notin out'
                   /\ Round(u)' = Round(u)
        <4>1. CASE u = t BY <2>3, <3>1, <3>3, <3>4, <4>1 DEF Round, Answer
        <4>2. CASE u # t
          <5>1. InSync(u) => (u \in out' <=> u \in out) BY <3>2 DEF InSync
          <5> QED BY <1>4, <3>1, <4>2, <5>1 DEF Round, Answer
        <4> QED BY <4>1, <4>2
      <3>5. ASSUME NEW u \in Slots, NEW x \in bits', Mine(u, x)
            PROVE  x \in bits \/ (InSync(u)' /\ u \notin out')
        BY <2>1, <3>2, <3>3, <3>5 DEF Mine
      <3> QED BY <1>2, <2>4, <3>2, <3>4, <3>5, MeetingGoesOn
    <2>5. CASE Bits \subseteq bits \cup b
      <3>1. /\ set_bits(b, Clears(t)) /\ Goto(t, "c") /\ Passes(t)
        BY <1>13, <2>2, <2>5 DEF xEventGroupSync
      <3>2. bits' = {}
        <4>1. Clears(t) = Bits BY <1>5 DEF Clears, WaitsFor, EveryBit
        <4> QED BY <1>10, <2>1, <3>1, <4>1 DEF set_bits
      <3>3. ASSUME NEW u \in Slots, Party(u)
            PROVE  Round(u)' = (Round(u) + 1) % 3
        <4>1. CASE u = t BY <1>8, <1>12, <2>3, <3>1, <4>1 DEF Round, Answer
        <4>2. CASE u # t
          <5>1. \A x \in b : ~Mine(u, x) BY <2>1, <4>2
          <5>2. Behaved(u) BY <3>3 DEF AllBehave
          <5>3. InSync(u) /\ u \notin out /\ u \in out'
            BY <1>10, <2>1, <2>5, <3>1, <3>3, <5>1, <5>2, SetFull
          <5> QED BY <1>4, <1>7, <4>2, <5>3 DEF Round, Answer
        <4> QED BY <4>1, <4>2
      <3> QED BY <1>2, <3>2, <3>3, MeetingEnds
    <2> QED BY <2>4, <2>5
  <1>14. CASE pc[t] = "loop" /\ Answered(t) /\ group_from_c(call[t].p)
    <2>1. InSync(t) BY <1>5, <1>14 DEF InSync
    <2>2. Party(t) => t \in out BY <1>6, <1>10, <2>1 DEF Behaved, Resting
    <2>3. /\ Goto(t, "c") /\ out' = out \ {t} /\ bits' \subseteq bits
          /\ t \in out => Passes(t)
      BY <1>14 DEF xEventGroupSync, clear_bits
    <2>4. ASSUME NEW u \in Slots, Party(u)
          PROVE  /\ InSync(u) /\ u \notin out => InSync(u)' /\ u \notin out'
                 /\ Round(u)' = Round(u)
      <3>1. CASE u = t
        BY <1>8, <1>12, <2>1, <2>2, <2>3, <2>4, <3>1 DEF Round, Answer
      <3>2. CASE u # t BY <1>4, <1>7, <2>3, <3>2 DEF Round, Answer
      <3> QED BY <3>1, <3>2
    <2>5. (\E u \in Slots : Party(u)) => ~(Bits \subseteq bits') BY <1>11, <2>3
    <2> QED BY <1>2, <2>3, <2>4, <2>5, MeetingGoesOn
  <1>15. CASE pc[t] = "loop" /\ ~Answered(t)
    <2>1. Goto(t, "blocked") /\ UNCHANGED <<bits, out, passed>>
      BY <1>15 DEF xEventGroupSync, Answered
    <2>2. InSync(t)' <=> InSync(t) BY <1>5, <1>9, <1>15, <2>1 DEF InSync
    <2>3. \A u \in Slots : /\ InSync(u)' <=> InSync(u)
                           /\ Round(u)' = Round(u)
      BY <1>4, <2>1, <2>2 DEF Round, Answer
    <2> QED BY <1>2, <1>11, <2>1, <2>3, MeetingGoesOn
  <1>16. CASE ~group_from_c(call[t].p)
    <2>1. Goto(t, "c") /\ out' = out \ {t} /\ UNCHANGED <<bits, passed>>
      <3>1. ~(pc[t] = "loop" /\ ~Answered(t)) BY <1>16 DEF Answered
      <3> QED BY <1>16, <3>1 DEF xEventGroupSync
    <2>2. Party(t) => ~InSync(t) BY <1>10, <1>16 DEF Behaved
    <2>3. ASSUME NEW u \in Slots, Party(u)
          PROVE  /\ InSync(u) /\ u \notin out => InSync(u)' /\ u \notin out'
                 /\ Round(u)' = Round(u)
      BY <1>4, <1>8, <2>1, <2>2, <2>3 DEF Round, Answer
    <2> QED BY <1>2, <1>11, <2>1, <2>3, MeetingGoesOn
  <1> QED BY <1>5, <1>13, <1>14, <1>15, <1>16 DEF xEventGroupSync

(* The daemon's commands set no bit a meeting goes by either.              *)
LEMMA DaemonKeepsTogether ==
  ASSUME MeetersAreFree, IInv, CallsTyped, GroupTypeOK, AllBehave, Together,
         NEW t \in Slots, timer_daemon(t)
  PROVE  Together'
  <1>1. Stay /\ passed' = passed BY DEF timer_daemon, still, Stay
  <1>2. \A u \in Slots : InSync(u)' <=> InSync(u)
    <2>1. CASE UNCHANGED <<pc, call>> BY <2>1 DEF InSync
    <2>2. CASE Goto(t, "slept") /\ pc[t] = "daemon"
      <3>1. \A u \in Slots : u # t => pc'[u] = pc[u] BY <2>2 DEF Goto, IInv, Shape
      <3>2. pc'[t] = "slept" /\ call' = call BY <2>2 DEF Goto, IInv, Shape
      <3> QED BY <2>2, <3>1, <3>2 DEF InSync
    <2> QED BY <2>1, <2>2 DEF timer_daemon, At
  <1>3. CASE cmds = <<>>
    <2>1. UNCHANGED <<bits, out, cmds>> BY <1>3 DEF timer_daemon
    <2>2. \A u \in Slots : Round(u)' = Round(u) BY <1>1, <1>2, <2>1 DEF Round, Answer
    <2> QED BY <1>1, <1>2, <2>1, <2>2, MeetingGoesOn DEF Together, Stands
  <1>4. CASE cmds # <<>>
    <2>1. cmds \in Seq(Cmds) BY DEF GroupTypeOK, Cmds
    <2>2. cmds' = Tail(cmds) /\ pended(Head(cmds)) BY <1>4 DEF timer_daemon
    <2>3. /\ Head(cmds) = cmds[1] /\ cmds[1] \in Cmds /\ 1 \in 1 .. Len(cmds)
          /\ \A i \in 1 .. Len(Tail(cmds)) :
               Tail(cmds)[i] = cmds[i + 1] /\ i + 1 \in 1 .. Len(cmds)
      BY <1>4, <2>1
    <2>4. Unset(cmds) BY DEF Together, Stands
    <2>5. Unset(cmds')
      <3>1. \A i \in 1 .. Len(cmds') : \E j \in 1 .. Len(cmds) : cmds'[i] = cmds[j]
        BY <2>2, <2>3
      <3> QED BY <2>4, <3>1 DEF Unset
    <2>6. CASE Head(cmds).do = "set" /\ set_bits(Head(cmds).bits, {})
      <3>1. Head(cmds).bits \in SUBSET Bits BY <2>3 DEF Cmds
      <3>2. \A u \in Slots : \A x \in Head(cmds).bits : ~Mine(u, x)
        BY <2>3, <2>4, <2>6 DEF Unset
      <3> QED BY <1>1, <1>2, <2>5, <2>6, <3>1, <3>2, SetKeeps
    <2>7. CASE bits' \subseteq bits /\ out' = out
      <3>1. \A u \in Slots : Round(u)' = Round(u) BY <1>1, <1>2, <2>7 DEF Round, Answer
      <3>2. (\E u \in Slots : Party(u)) => ~(Bits \subseteq bits') BY <2>7 DEF Together, Stands
      <3> QED BY <1>1, <1>2, <2>5, <2>7, <3>1, <3>2, MeetingGoesOn
    <2> QED BY <2>2, <2>6, <2>7 DEF pended, clear_bits
  <1> QED BY <1>3, <1>4

(* No other step takes anybody into the meeting or out of it.              *)
LEMMA MeetingStands ==
  ASSUME IInv, Faithful, IInv', Scripted, AllBehave, NEW t \in Slots, Whole(t), ~GroupCall(t),
         NEW u \in Slots, Party(u)
  PROVE  InSync(u)' <=> InSync(u)
  <1>1. Acts(t) BY DEF Acts, Whole
  <1>2. Behaved(u) BY DEF AllBehave
  <1>3. CASE u # t
    <2>1. pc'[u] = pc[u] /\ call'[u] = call[u] BY <1>1, <1>2, <1>3, PartiesStay DEF Behaved
    <2> QED BY <2>1 DEF InSync
  <1>4. CASE u = t /\ pc[t] = "blocked"
    <2>1. Leave(t) BY <1>4, BlockedLeaves
    <2>2. CASE call[t].n = 0
      <3>1. Goto(t, "c") BY <1>4, <2>1, <2>2 DEF Leave, IsAPoll
      <3>2. pc'[t] = "c" BY <3>1 DEF Goto, IInv, Shape
      <3>3. Forever # 0 BY KernelAssumption DEF Forever
      <3> QED BY <1>2, <1>4, <2>2, <3>2, <3>3 DEF InSync, Behaved, Sending
    <2>3. CASE call[t].n # 0
      <3>1. Goto(t, "loop") BY <1>4, <2>1, <2>3 DEF Leave, IsAPoll, AfterYield
      <3>2. pc'[t] = "loop" /\ call' = call BY <3>1 DEF Goto, IInv, Shape
      <3> QED BY <1>4, <3>2 DEF InSync
    <2> QED BY <2>2, <2>3
  <1>5. CASE u = t /\ pc[t] # "blocked"
    <2>1. ~(pc[t] \in Sending /\ call[t].op = "sync")
      <3>1. xEventGroupWaitBits(t) \/ xEventGroupSync(t) => GroupCall(t) BY DEF GroupCall
      <3> QED BY <1>1, <1>5, <3>1, WaiterGoes DEF WaitOps
    <2>2. ~InSync(t) BY <2>1 DEF InSync, Sending
    <2>3. CASE Enter(t, Objects)
      <3>1. pc'[t] \in {"call", "parked"} BY <2>3, Entering
      <3> QED BY <1>5, <2>2, <3>1 DEF InSync
    <2>4. CASE ~Enter(t, Objects)
      <3>1. pc'[t] \in Sending => Same(t) BY <1>1, <2>4, SameCall
      <3> QED BY <1>5, <2>1, <2>2, <3>1 DEF InSync, Same, Sending
    <2> QED BY <2>3, <2>4
  <1> QED BY <1>3, <1>4, <1>5

(* Nor does a tick, a switch, or start-up.                                 *)
LEMMA StillTogether ==
  ASSUME Together, Stay, Unset(cmds'), UNCHANGED <<bits, out, passed>>,
         \A u \in Slots : Party(u) => (InSync(u)' <=> InSync(u))
  PROVE  Together'
  <1>1. \A u \in Slots : Party(u) => Round(u)' = Round(u) BY DEF Round, Answer
  <1> QED BY <1>1, MeetingGoesOn DEF Together, Stands
(* A tick and its handler: no bit that a meeter waits for is theirs.       *)
LEMMA TickKeepsTogether ==
  ASSUME IInv, GroupTypeOK, Together, Ticked
  PROVE  Together'
  <1>1. UNCHANGED <<pc, call, entry, program>> BY TickedTicks, TimeStands
  <1>2. Stay /\ \A u \in Slots : InSync(u)' <=> InSync(u) BY <1>1 DEF Stay, InSync
  <1>3. UNCHANGED <<bits, out, passed>>
    BY IsrPosts DEF Ticked, groupVars
  <1>4. Unset(cmds) BY DEF Together, Stands
  <1>5. Unset(cmds')
    <2>1. CASE cmds' = cmds BY <1>4, <2>1
    <2>2. CASE GroupIsr /\ cmds' # cmds
      <3>1. PICK c \in program.isr : xEventGroupSetBitsFromISR(c) \/ xEventGroupClearBitsFromISR(c)
        BY <2>2 DEF GroupIsr
      <3>2. PICK what \in {"set", "clear"} :
              /\ what = "set" => c.op = "isrset"
              /\ cmds' = Append(cmds, [do |-> what, group |-> made, bits |-> BitsOf[c.x]])
        BY <2>2, <3>1 DEF xEventGroupSetBitsFromISR, xEventGroupClearBitsFromISR, Post
      <3>3. ASSUME NEW u \in Slots, NEW b \in BitsOf[c.x], c.op = "isrset", Mine(u, b)
            PROVE  FALSE
        BY <3>3 DEF Mine, OwnBit
      <3> DEFINE d == [do |-> what, group |-> made, bits |-> BitsOf[c.x]]
      <3>4. d.do = what /\ d.bits = BitsOf[c.x] OBVIOUS
      <3> HIDE DEF d
      <3>5. cmds' = Append(cmds, d) BY <3>2 DEF d
      <3>6. \A i \in 1 .. Len(cmds') : cmds'[i] = d \/ \E j \in 1 .. Len(cmds) : cmds'[i] = cmds[j]
        BY <3>5 DEF GroupTypeOK
      <3>7. d.do = "set" => \A b \in d.bits : \A u \in Slots : ~Mine(u, b)
        BY <3>2, <3>3, <3>4
      <3> QED BY <1>4, <3>6, <3>7 DEF Unset
    <2> QED BY <2>1, <2>2 DEF Ticked, groupVars
  <1> QED BY <1>2, <1>3, <1>5, StillTogether
(* The tasks that are started have met nobody yet.                         *)
LEMMA StartTogether ==
  ASSUME MeetersAreFree, IInv, Prelude, main, UNCHANGED groupVars
  PROVE  Together'
  <1>1. phase # "run" /\ program' = program
    BY DEF main, CreateMonitor, ArmMonitor, StartDemo, start_scheduler, ArmBoth,
           start_first_task, AllArmed
  <1>2. out' = {} /\ bits' = {} /\ cmds' = <<>> /\ \A u \in Slots : passed'[u] = 0
    BY <1>1 DEF Prelude, groupVars
  <1>3. Rounds' BY <1>2 DEF Rounds, Round, Answer
  <1>4. ASSUME NEW u \in Slots, Party(u)' PROVE ~(Bits \subseteq bits')
    <2>1. Meeters(program)' = Meeters(program) BY <1>1 DEF Meeters, Cast, Started, Meeter
    <2>2. \E b \in Bits : OwnBit(program, entry'[u], b)
      BY <1>4, <2>1 DEF Party, MeetersAreFree, IInv, Shape
    <2> QED BY <1>2, <2>2
  <1>5. Unset(cmds)' BY <1>2 DEF Unset
  <1> QED BY <1>2, <1>3, <1>4, <1>5 DEF Together, Stands
(* Every step keeps them together.                                         *)
LEMMA TogetherKept ==
  ASSUME MeetersAreFree, IInv, Faithful, Typed, Scripted, Prelude, AllBehave, Together,
         IInv', [Next]_vars
  PROVE  Together'
  <1>1. CallsTyped /\ GroupTypeOK BY DEF Typed
  <1>2. Unset(cmds) BY DEF Together, Stands
  <1>3. CASE \E t \in Slots : Whole(t)
    <2>1. PICK t \in Slots : Whole(t) BY <1>3
    <2>2. CASE GroupCall(t) BY <1>1, <2>2, CallsKeepTogether, SyncKeepsTogether
    <2>3. CASE timer_daemon(t) BY <1>1, <2>3, DaemonKeepsTogether
    <2>4. CASE ~GroupCall(t) /\ ~timer_daemon(t)
      <3>1. UNCHANGED <<bits, out, cmds, passed>> BY <2>1, <2>4 DEF Whole, groupVars
      <3>2. Acts(t) BY <2>1 DEF Acts, Whole
      <3>3. Stay BY <3>2, PartiesStay DEF Stay
      <3>4. \A u \in Slots : Party(u) => (InSync(u)' <=> InSync(u))
        BY <2>1, <2>4, MeetingStands
      <3> QED BY <1>2, <3>1, <3>3, <3>4, StillTogether
    <2> QED BY <2>2, <2>3, <2>4
  <1>4. CASE main /\ NewUnnotified /\ UNCHANGED groupVars BY <1>4, StartTogether
  <1>5. ASSUME UNCHANGED <<pc, call, entry, program, groupVars>> PROVE Together'
    <2>1. UNCHANGED <<bits, out, cmds, passed>> BY <1>5 DEF groupVars
    <2>2. Stay /\ \A u \in Slots : InSync(u)' <=> InSync(u) BY <1>5 DEF Stay, InSync
    <2> QED BY <1>2, <2>1, <2>2, StillTogether
  <1>6. CASE pick_next /\ NewUnnotified /\ UNCHANGED groupVars BY <1>5, <1>6, TimeStands
  <1>7. CASE Ticked BY <1>1, <1>7, TickKeepsTogether
  <1>8. CASE UNCHANGED vars BY <1>5, <1>8 DEF vars, taskVars
  <1> QED BY <1>3, <1>4, <1>6, <1>7, <1>8, WholeSteps
(* At first nobody meets.                                                  *)
LEMMA TogetherInit == Init => Together
  <1> SUFFICES ASSUME Init PROVE Together OBVIOUS
  <1>1. program \in Programs /\ \A u \in Slots : entry[u] = NoFunc BY DEF Init, TaskInit
  <1>2. \A u \in Slots : ~Party(u) BY <1>1, CastActs DEF Party
  <1>3. cmds = <<>> BY DEF Init, GroupInit
  <1> QED BY <1>2, <1>3 DEF Together, Stands, Rounds, Unset, Mine

(* Rounds told apart by the answers that wait for their owners are those   *)
(* the property allows.                                                    *)
LEMMA RoundsApart ==
  ASSUME Scripted, Rounds, passed \in [Slots -> 0 .. 2]
  PROVE  SyncTogether
  <1>1. ASSUME NEW t \in Slots, Meets(t) PROVE Party(t) /\ passed[t] \in 0 .. 2
    BY <1>1 DEF Meets, Scripted, Party, Meeters
  <1>2. ASSUME NEW t \in Slots, NEW u \in Slots, Meets(t), Meets(u)
        PROVE  \/ passed[t] = passed[u]
               \/ (passed[t] = (passed[u] + 1) % 3 /\ u \in out)
               \/ (passed[u] = (passed[t] + 1) % 3 /\ t \in out)
    <2>1. Round(t) = Round(u) BY <1>1, <1>2 DEF Rounds
    <2>2. \A p, q \in 0 .. 2 : (p + 1) % 3 = (q + 1) % 3 => p = q OBVIOUS
    <2> QED BY <1>1, <1>2, <2>1, <2>2 DEF Round, Answer
  <1> QED BY <1>2 DEF SyncTogether

(* SyncTogether: in every application whose meeting tasks have a bit each, *)
(* meet without a deadline, and are not deleted, suspended or roused by    *)
(* others, no task comes through more rounds of xEventGroupSync than       *)
(* another, but for one the other has been released from and not yet       *)
(* returned to: whatever sets and clears the group's other bits, in tasks, *)
(* in interrupt halves and by way of the daemon, and wherever a tick, a    *)
(* switch or a suspended scheduler falls between a release and a retry.    *)
THEOREM MeetersStayTogether ==
  ASSUME MeetersAreFree
  PROVE  Spec => []SyncTogether
  <1>1. Spec => []Typed BY TypedInit, TypedKept, AlwaysFitting, Invariant, PTL DEF Spec
  <1>2. Spec => []Scripted
    BY ScriptedInit, ScriptedKept, Invariant, HandlesFaithful, PTL DEF Spec
  <1>3. Spec => []Prelude
    <2>1. IInv /\ Faithful /\ Prelude /\ IInv' /\ [Next]_vars => Prelude' BY PreludeKept
    <2> QED BY <2>1, PreludeInit, Invariant, HandlesFaithful, PTL DEF Spec
  <1>4. Spec => []AllBehave
    <2>1. /\ IInv /\ Faithful /\ Arguments /\ Typed /\ Scripted /\ Prelude /\ AllBehave
          /\ IInv' /\ Faithful' /\ Prelude' /\ [Next]_vars
          => AllBehave'
      BY AllBehaveKept
    <2> QED
      BY <1>1, <1>2, <1>3, <2>1, PreludeInit, Invariant, HandlesFaithful,
         ArgumentsNameTheirTasks, PTL DEF Spec
  <1>5. Spec => []Together
    <2>1. /\ IInv /\ Faithful /\ Typed /\ Scripted /\ Prelude /\ AllBehave /\ Together
          /\ IInv' /\ [Next]_vars
          => Together'
      BY TogetherKept
    <2> QED
      BY <1>1, <1>2, <1>3, <1>4, <2>1, TogetherInit, Invariant, HandlesFaithful, PTL DEF Spec
  <1>6. Typed /\ Scripted /\ Together => SyncTogether
    BY RoundsApart DEF Together, Typed, GroupTypeOK
  <1> QED BY <1>1, <1>2, <1>5, <1>6, PTL
=============================================================================
