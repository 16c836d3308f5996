------------------------ MODULE SeamCalls_properties ------------------------
(***************************************************************************)
(* What the handles of the C name, whatever is created, deleted and        *)
(* collected meanwhile: the invariant of SeamCalls_proofs, and what is     *)
(* added to it here.                                                       *)
(***************************************************************************)
EXTENDS SeamCalls_proofs

-----------------------------------------------------------------------------
(* What a handle means.                                                    *)

(* The slots whose task has its entry stored: all but the free ones and,   *)
(* while interrupts are masked, the one being created.                     *)
Settled == {s \in Slots : k.st[s] # "free" /\ ~(mask /\ s = Fresh)}

(* A handle is of a generation of the slot that is over, or it names a     *)
(* task that runs f.                                                       *)
Means(p, f, gen, settled, runs) ==
  LET h == handle_from_c(p) IN
  p # NULL =>
    /\ h.slot \in Slots /\ h.gen \in Nat
    /\ \/ h.gen < gen[h.slot]
       \/ h.gen = gen[h.slot] /\ h.slot \in settled /\ runs[h.slot] = f

(* It goes on meaning that as long as a slot keeps its task and the task   *)
(* its entry, or the slot passes to another generation.                    *)
Follows(g1, settled1, r1, g2, settled2, r2) ==
  \A s \in Slots :
    /\ g1[s] \in Nat /\ g2[s] \in Nat
    /\ \/ g2[s] > g1[s]
       \/ g2[s] = g1[s] /\ (s \in settled1 => s \in settled2 /\ r2[s] = r1[s])

(* Where the threads are before the first task runs.                       *)
Unstarted == {"off", "new", "c", "idle", "daemon"}

(* The C's variables, and the handles that are on their way to them.       *)
Faithful ==
  /\ handle = [f \in Functions |-> handle[f]]
  /\ \A f \in Functions : Means(handle[f], f, k.gen, Settled, entry)
  /\ \A t \in Slots : pc[t] = "write" => Means(call[t].p, call[t].whom, k.gen, Settled, entry)
  /\ mask => k.st[Fresh] # "free" /\ call[k.cur].p = handle_to_c(Fresh, k.gen[Fresh])
  /\ phase \in {"mon", "armmon"} => \A f \in Functions : handle[f] = NULL
  /\ phase # "run" => \A t \in Slots : pc[t] \in Unstarted

(* A step does not change what a handle means.                             *)
LEMMA MeansKept ==
  ASSUME NEW g1, NEW g2, NEW set1, NEW set2, NEW r1, NEW r2,
         Follows(g1, set1, r1, g2, set2, r2), NEW p, NEW f, Means(p, f, g1, set1, r1)
  PROVE  Means(p, f, g2, set2, r2)
  <1> SUFFICES ASSUME p # NULL PROVE Means(p, f, g2, set2, r2) BY DEF Means
  <1> DEFINE h == handle_from_c(p)
  <1>1. /\ h.slot \in Slots /\ h.gen \in Nat
        /\ h.gen < g1[h.slot] \/ (h.gen = g1[h.slot] /\ h.slot \in set1 /\ r1[h.slot] = f)
    BY DEF Means
  <1> DEFINE s == h.slot
             n == h.gen
  <1>2. /\ s \in Slots /\ n \in Nat
        /\ n < g1[s] \/ (n = g1[s] /\ s \in set1 /\ r1[s] = f)
    BY <1>1
  <1> HIDE DEF s, n
  <1>3. n < g2[s] \/ (n = g2[s] /\ s \in set2 /\ r2[s] = f) BY <1>2 DEF Follows
  <1> QED BY <1>2, <1>3 DEF s, n, Means

(* A quotient is what was multiplied, when what was added is less than the *)
(* modulus.                                                                *)
LEMMA Quotient ==
  ASSUME NEW n \in Nat \ {0}, NEW q \in Nat, NEW r \in 0 .. n - 1
  PROVE  (q * n + r) \div n = q
  BY SMTT(20)

(* A handle leads back to its slot and generation, and is not NULL.        *)
LEMMA HandleBack ==
  ASSUME NEW s \in Slots, NEW g \in Nat
  PROVE  /\ handle_from_c(handle_to_c(s, g)).slot = s
         /\ handle_from_c(handle_to_c(s, g)).gen = g
  <1>1. TASKS \in Nat \ {0} /\ s \in Nat /\ s < TASKS BY KernelAssumption DEF Slots
  <1>2. s # None BY <1>1 DEF None
  <1>3. s \in 0 .. TASKS - 1 BY DEF Slots
  <1>4. (g * TASKS + s) \div TASKS = g BY <1>1, <1>3, Quotient, Zenon
  <1> DEFINE p == (g * TASKS + s) + 1
  <1>5. handle_to_c(s, g) = p BY <1>2, Zenon DEF handle_to_c
  <1>6. p - 1 = g * TASKS + s BY <1>1, SMTT(20)
  <1> HIDE DEF p
  <1>7. handle_from_c(p).gen = (p - 1) \div TASKS BY Zenon DEF handle_from_c
  <1>8. handle_from_c(handle_to_c(s, g)).gen = g BY <1>4, <1>5, <1>6, <1>7, Zenon
  <1> QED BY <1>8, Codec

(* What is made of a settled slot names its task.                          *)
LEMMA MadeMeans ==
  ASSUME NEW gen, NEW settled, NEW runs, NEW s \in Slots, gen[s] \in Nat, s \in settled
  PROVE  Means(handle_to_c(s, gen[s]), runs[s], gen, settled, runs)
  <1> DEFINE h == handle_from_c(handle_to_c(s, gen[s]))
  <1>1. h.slot = s /\ h.gen = gen[s] BY HandleBack
  <1> QED BY <1>1 DEF Means

-----------------------------------------------------------------------------
(* The steps.                                                              *)

(* What a step may change of all this, and what it must not.               *)
Moves ==
  /\ Follows(k.gen, Settled, entry, k'.gen, Settled', entry')
  /\ \A s \in Slots : k.st[s] = "gone" => k'.st[s] = "gone" \/ k'.gen[s] # k.gen[s]

(* A task's step leaves the others where they are, but for one that is     *)
(* made.                                                                   *)
Others(t) ==
  \A u \in Slots : u # t => call'[u] = call[u] /\ (pc'[u] = pc[u] \/ pc'[u] = "new")

(* Waking, blocking and suspending tasks leaves the handles what they      *)
(* mean.                                                                   *)
LEMMA OrdMoves ==
  ASSUME k \in KType, KOrd(k, k'), ~mask, ~mask', entry' = entry
  PROVE  Moves
  <1>1. \A s \in Slots : k'.gen[s] = k.gen[s] /\ k.gen[s] \in Nat BY DEF KOrd, KType
  <1>2. \A s \in Settled : s \in Settled' BY DEF KOrd, Alive, Settled
  <1>3. \A s \in Slots : k.st[s] = "gone" => k'.st[s] = "gone" BY DEF KOrd, Alive
  <1> QED BY <1>1, <1>2, <1>3 DEF Moves, Follows

(* A step that leaves the variables alone, and nobody about to write one   *)
(* who was not before.                                                     *)
LEMMA HandlesKept ==
  ASSUME Faithful, Moves, handle' = handle, ~mask', phase' \notin {"mon", "armmon"},
         phase' # "run" => \A u \in Slots : pc'[u] \in Unstarted,
         \A u \in Slots : pc'[u] = "write" => pc[u] = "write" /\ call'[u] = call[u]
  PROVE  Faithful'
  <1>1. handle' = [f \in Functions |-> handle'[f]] BY DEF Faithful
  <1>2. \A f \in Functions : Means(handle'[f], f, k'.gen, Settled', entry')
    BY MeansKept DEF Faithful, Moves
  <1>3. ASSUME NEW u \in Slots, pc'[u] = "write"
        PROVE  Means(call'[u].p, call'[u].whom, k'.gen, Settled', entry')
    BY <1>3, MeansKept DEF Faithful, Moves
  <1> QED BY <1>1, <1>2, <1>3 DEF Faithful

(* An ordinary step is such a one.                                         *)
LEMMA OrdinaryMoves ==
  ASSUME IInv, NEW t \in Slots, Ordinary(t)
  PROVE  /\ Moves /\ ~mask /\ ~mask' /\ phase' = "run" /\ phase = "run"
         /\ k.cur = t /\ pc'[t] # "write"
         /\ \A u \in Slots : u # t => pc'[u] = pc[u] /\ call'[u] = call[u]
  <1>1. CanRun(t) /\ pc[t] # "arm" /\ OrdStep(t) BY DEF Ordinary
  <1>2. phase = "run" /\ k.cur = t /\ ~mask /\ k \in KType BY <1>1, Running
  <1>3. /\ phase' = "run" /\ ~mask' /\ entry' = entry /\ KOrd(k, k') /\ pc'[t] # "write"
        /\ \A u \in Slots : u # t => pc'[u] = pc[u] /\ call'[u] = call[u]
    BY <1>1, <1>2 DEF OrdStep
  <1> QED BY <1>2, <1>3, OrdMoves

(* All the ordinary steps but two leave the variables alone.               *)
LEMMA OrdinaryHandles ==
  ASSUME IInv, Faithful, NEW t \in Slots, Ordinary(t), handle' = handle
  PROVE  Faithful'
  <1>1. \A u \in Slots : pc'[u] = "write" => pc[u] = "write" /\ call'[u] = call[u]
    BY OrdinaryMoves
  <1> QED BY <1>1, OrdinaryMoves, HandlesKept

(* The two others give one variable a handle that means its function.      *)
LEMMA OneWritten ==
  ASSUME IInv, Faithful, NEW t \in Slots, Ordinary(t),
         NEW f, NEW p, handle' = [handle EXCEPT ![f] = p],
         f \in Functions => Means(p, f, k'.gen, Settled', entry')
  PROVE  Faithful'
  <1>1. /\ Moves /\ ~mask' /\ phase' = "run"
        /\ \A u \in Slots : pc'[u] = "write" => pc[u] = "write" /\ call'[u] = call[u]
    BY OrdinaryMoves
  <1>2. handle = [g \in Functions |-> handle[g]] BY DEF Faithful
  <1>3. handle' = [g \in Functions |-> handle'[g]] BY <1>2
  <1>4. ASSUME NEW g \in Functions PROVE Means(handle'[g], g, k'.gen, Settled', entry')
    <2>1. CASE g = f
      <3>1. handle'[g] = p BY <1>2, <2>1
      <3> QED BY <2>1, <3>1
    <2>2. CASE g # f
      <3>1. handle'[g] = handle[g] BY <1>2, <2>2
      <3>2. Means(handle[g], g, k'.gen, Settled', entry')
        BY <1>1, MeansKept DEF Faithful, Moves
      <3> QED BY <3>1, <3>2
    <2> QED BY <2>1, <2>2
  <1>5. ASSUME NEW u \in Slots, pc'[u] = "write"
        PROVE  Means(call'[u].p, call'[u].whom, k'.gen, Settled', entry')
    BY <1>1, <1>5, MeansKept DEF Faithful, Moves
  <1> QED BY <1>1, <1>3, <1>4, <1>5 DEF Faithful

(* The creator hands the C what it was told.                               *)
LEMMA WriteHandleMeans ==
  ASSUME IInv, Faithful, NEW t \in Slots, WriteHandle(t) PROVE Faithful'
  <1>1. Ordinary(t) BY WriteHandleOrdinary
  <1>2. /\ pc[t] = "write" /\ UNCHANGED <<k, mask, entry>>
        /\ handle' = [handle EXCEPT ![call[t].whom] = call[t].p]
    BY DEF WriteHandle, At
  <1>3. Means(call[t].p, call[t].whom, k.gen, Settled, entry) BY <1>2 DEF Faithful
  <1>4. Settled' = Settled BY <1>1, <1>2, OrdinaryMoves DEF Settled
  <1> DEFINE p == call[t].p
             f == call[t].whom
  <1>5. Means(p, f, k'.gen, Settled', entry') BY <1>2, <1>3, <1>4
  <1>6. handle' = [handle EXCEPT ![f] = p] BY <1>2
  <1> HIDE DEF p, f
  <1> QED BY <1>1, <1>5, <1>6, OneWritten

(* A lookup finds a task that runs the function, or none.                  *)
LEMMA LookupMeans ==
  ASSUME IInv, Faithful, NEW t \in Slots, Lookup(t) PROVE Faithful'
  <1> DEFINE f == call[t].whom
             p == IF f = entry[t] THEN xTaskGetCurrentTaskHandle ELSE xTaskGetHandle(f)
  <1>1. Ordinary(t) BY LookupOrdinary
  <1>2. UNCHANGED <<k, mask, entry>> /\ handle' = [handle EXCEPT ![f] = p] BY DEF Lookup
  <1>3. ~mask /\ k.cur = t /\ phase = "run" BY <1>1, OrdinaryMoves
  <1>4. k \in KType /\ k.st[t] # "free" BY <1>1, Running DEF Ordinary
  <1>5. Settled' = Settled BY <1>1, <1>2, OrdinaryMoves DEF Settled
  <1>6. \A s \in Slots : k.st[s] # "free" => s \in Settled BY <1>3 DEF Settled
  <1>7. \A s \in Slots : k.gen[s] \in Nat BY <1>4 DEF KType
  <1>8. Means(p, f, k.gen, Settled, entry)
    <2>1. CASE f = entry[t]
      BY <1>3, <1>4, <1>6, <1>7, <2>1, MadeMeans DEF xTaskGetCurrentTaskHandle
    <2>2. CASE f # entry[t] /\ {s \in Slots : Alive(k, s) /\ entry[s] = f} = {}
      BY <2>2 DEF xTaskGetHandle, Means
    <2>3. CASE f # entry[t] /\ {s \in Slots : Alive(k, s) /\ entry[s] = f} # {}
      <3> DEFINE them == {s \in Slots : Alive(k, s) /\ entry[s] = f}
                 u == CHOOSE s \in them : TRUE
      <3>1. u \in them BY <2>3
      <3>2. p = handle_to_c(u, k.gen[u]) BY <2>3 DEF xTaskGetHandle
      <3> HIDE DEF u
      <3>3. u \in Slots /\ k.st[u] # "free" /\ entry[u] = f BY <3>1 DEF Alive
      <3> QED BY <1>6, <1>7, <3>2, <3>3, MadeMeans
    <2> QED BY <2>1, <2>2, <2>3
  <1>9. Means(p, f, k'.gen, Settled', entry') BY <1>2, <1>5, <1>8
  <1> HIDE DEF f, p
  <1> QED BY <1>1, <1>2, <1>9, OneWritten

(* No other ordinary step touches the variables.                           *)
LEMMA CallsLeaveHandles ==
  ASSUME NEW t, \/ TaskCall(t) /\ ~xTaskCreate(t) /\ ~WriteHandle(t) /\ ~Lookup(t)
                \/ NotifyCall(t) \/ GroupCall(t) \/ timer_daemon(t) \/ BufferCall(t)
                \/ \E objects : Enter(t, objects)
  PROVE  handle' = handle
  <1>1. CASE TaskCall(t) /\ ~xTaskCreate(t) /\ ~WriteHandle(t) /\ ~Lookup(t)
    BY <1>1 DEF TaskCall, c_task_trampoline, Leave, ArmCreated, vTaskDelete, vTaskSuspend,
      vTaskResume, vTaskPrioritySet, xTaskAbortDelay, vTaskDelay, xTaskDelayUntil,
      vTaskSuspendAll, xTaskResumeAll, xTaskCatchUpTicks, vPortGenerateSimulatedInterrupt,
      idle, still
  <1>2. CASE NotifyCall(t)
    BY <1>2 DEF NotifyCall, Query, xTaskGenericNotify, xTaskGenericNotifyWait,
      ulTaskGenericNotifyTake, xTaskGenericNotifyStateClear, ulTaskGenericNotifyValueClear, still
  <1>3. CASE GroupCall(t) \/ timer_daemon(t)
    BY <1>3 DEF GroupCall, timer_daemon, xEventGroupCreate, vEventGroupDelete,
      xEventGroupSetBits, xEventGroupClearBits, xEventGroupWaitBits, xEventGroupSync, still
  <1>4. CASE StreamCall(t)
    BY <1>4 DEF StreamCall, xStreamBufferGenericCreate, FlagCreated, vStreamBufferDelete,
      xStreamBufferSend, xStreamBufferReceive, Attempt, CountReceive, xStreamBufferReset, still
  <1>5. CASE WireCall(t)
    BY <1>5 DEF WireCall, xSerialPortInitMinimal, xSerialPutChar, xSerialGetChar,
      vSerialPutString, xQueueGenericReset, still
  <1>6. CASE LockCall(t)
    BY <1>6 DEF LockCall, xQueueSemaphoreTake, xQueueTakeMutexRecursive,
      xQueueGiveMutexRecursive, still
  <1>7. CASE \E objects : Enter(t, objects) BY <1>7 DEF Enter, still
  <1> QED BY <1>1, <1>2, <1>3, <1>4, <1>5, <1>6, <1>7 DEF BufferCall

(* A task made by a call: its handle means nothing yet.                    *)
LEMMA CreateMeans ==
  ASSUME IInv, Faithful, NEW t \in Slots, xTaskCreate(t)
  PROVE  Faithful' /\ Moves /\ Others(t)
  <1>1. CanRun(t) /\ pc[t] = "call" /\ pc[t] # "arm" BY DEF xTaskCreate, Calling, At
  <1>2. phase = "run" /\ k.cur = t /\ ~mask /\ k \in KType /\ IsCall(call[t])
    BY <1>1, InCall DEF InACall, Calm
  <1>3. CASE Goto(t, "c") /\ UNCHANGED <<k, owed, still>>
    <2>1. Ordinary(t) BY <1>1, <1>3, Staying DEF still, Calm
    <2>2. handle' = handle BY <1>3 DEF still
    <2>3. Moves /\ Others(t) BY <2>1, OrdinaryMoves DEF Others
    <2> QED BY <2>1, <2>2, <2>3, OrdinaryHandles
  <1>4. ASSUME NEW s \in FreeSlots(k), k' = create_task(k, s, call[t].n),
               mask' = TRUE, pc' = [pc EXCEPT ![t] = "arm"],
               call' = [call EXCEPT ![t].p = handle_to_c(s, k.gen[s])],
               UNCHANGED <<entry, handle, phase>>
        PROVE  Faithful' /\ Moves /\ Others(t)
    <2>1. s \in Slots /\ k.st[s] = "free" BY DEF FreeSlots
    <2>2. call[t].n \in Nat /\ k.gen[s] \in Nat BY <1>2, <2>1 DEF IsCall, KType
    <2>3. Made(k, k', s, call[t].n) BY <1>2, <1>4, <2>1, <2>2, CreateMakes
    <2>4. /\ k'.gen = k.gen /\ k'.cur = k.cur /\ k'.st[s] = "ready"
          /\ \A u \in Slots : u # s => k'.st[u] = k.st[u]
      BY <2>3 DEF Made
    <2> DEFINE p == handle_to_c(s, k.gen[s])
    <2>5. call = [u \in Slots |-> call[u]] BY DEF IInv, Shape
    <2>6. call'[t].p = p
      <3>1. call'[t] = [call[t] EXCEPT !.p = p] BY <1>4, <2>5
      <3> HIDE DEF p
      <3> QED BY <1>2, <3>1 DEF IsCall
    <2>7. Fresh' = s
      <3>1. handle_from_c(p).slot = s BY <2>1, <2>2, Codec
      <3> HIDE DEF p
      <3> QED BY <1>2, <2>4, <2>6, <3>1, Zenon DEF Fresh
    <2>8. pc'[t] # "write" /\ \A u \in Slots : u # t => pc'[u] = pc[u] /\ call'[u] = call[u]
      BY <1>4, <2>5 DEF IInv, Shape
    <2>9. Moves
      <3>1. \A u \in Slots : k'.gen[u] = k.gen[u] /\ k.gen[u] \in Nat BY <1>2, <2>4 DEF KType
      <3>2. \A u \in Settled : u \in Settled' BY <2>1, <2>4, <2>7 DEF Settled
      <3>3. \A u \in Slots : k.st[u] = "gone" => k'.st[u] = "gone" BY <2>1, <2>4
      <3> QED BY <1>4, <3>1, <3>2, <3>3 DEF Moves, Follows
    <2>10. \A f \in Functions : Means(handle'[f], f, k'.gen, Settled', entry')
      BY <1>4, <2>9, MeansKept DEF Faithful, Moves
    <2>11. ASSUME NEW u \in Slots, pc'[u] = "write"
           PROVE  Means(call'[u].p, call'[u].whom, k'.gen, Settled', entry')
      BY <2>8, <2>9, <2>11, MeansKept DEF Faithful, Moves
    <2>12. k'.st[Fresh'] # "free" /\ call'[k'.cur].p = handle_to_c(Fresh', k'.gen[Fresh'])
      BY <1>2, <2>4, <2>6, <2>7
    <2>13. Faithful' BY <1>2, <1>4, <2>10, <2>11, <2>12 DEF Faithful
    <2> QED BY <2>8, <2>9, <2>13 DEF Others
  <1> QED BY <1>3, <1>4 DEF xTaskCreate, Masked

(* Its entry stored, the handle its creator holds names it.                *)
LEMMA ArmMeans ==
  ASSUME IInv, Faithful, NEW t \in Slots, ArmCreated(t)
  PROVE  Faithful' /\ Moves /\ Others(t)
  <1> DEFINE s == handle_from_c(call[t].p).slot
  <1>1. CanRun(t) /\ pc[t] = "arm" /\ k.cur = t BY DEF ArmCreated, At, CanRun
  <1>2. /\ mask /\ call[t].op = "create" /\ s \in Slots /\ s # t /\ Fresh = s
        /\ phase = "run" /\ k \in KType
    BY <1>1 DEF IInv, Masking, Fresh, CanRun, Shape
  <1>3. IsCall(call[t]) BY <1>1 DEF IInv, CallsKept, Busy, Working
  <1>4. call[t].whom \in Functions BY <1>2, <1>3 DEF IsCall
  <1>5. InThreadTable(s)
    BY <1>2, KernelAssumption, TasksAssumption DEF InThreadTable, Slots
  <1>6. /\ entry' = [entry EXCEPT ![s] = call[t].whom]
        /\ pc' = [pc EXCEPT ![s] = "new", ![t] = "write"] /\ mask' = FALSE
        /\ UNCHANGED <<k, call, handle, phase>>
    BY <1>5 DEF ArmCreated, StoreEntry
  <1>7. k.st[s] # "free" /\ call[t].p = handle_to_c(s, k.gen[s])
    BY <1>1, <1>2 DEF Faithful
  <1> HIDE DEF s
  <1>8. entry'[s] = call[t].whom /\ \A u \in Slots : u # s => entry'[u] = entry[u]
    BY <1>2, <1>4, <1>6 DEF IInv, Shape
  <1>9. \A u \in Slots : pc'[u] = "write" => u = t \/ pc[u] = "write"
    BY <1>2, <1>6 DEF IInv, Shape
  <1>10. Moves
    <2>1. \A u \in Slots : k'.gen[u] = k.gen[u] /\ k.gen[u] \in Nat BY <1>2, <1>6 DEF KType
    <2>2. \A u \in Settled : u \in Settled' /\ u # s BY <1>2, <1>6 DEF Settled
    <2>3. \A u \in Settled : entry'[u] = entry[u] BY <1>8, <2>2 DEF Settled
    <2> QED BY <1>6, <2>1, <2>2, <2>3 DEF Moves, Follows
  <1>11. handle' = [f \in Functions |-> handle'[f]] BY <1>6 DEF Faithful
  <1>12. \A f \in Functions : Means(handle'[f], f, k'.gen, Settled', entry')
    BY <1>6, <1>10, MeansKept DEF Faithful, Moves
  <1>13. Means(call[t].p, call[t].whom, k'.gen, Settled', entry')
    <2>1. s \in Settled' BY <1>2, <1>6, <1>7 DEF Settled
    <2>2. k'.gen[s] \in Nat /\ call[t].p = handle_to_c(s, k'.gen[s])
      BY <1>2, <1>6, <1>7 DEF KType
    <2> QED BY <1>2, <1>8, <2>1, <2>2, MadeMeans
  <1>14. ASSUME NEW u \in Slots, pc'[u] = "write"
         PROVE  Means(call'[u].p, call'[u].whom, k'.gen, Settled', entry')
    <2>1. CASE u = t BY <1>6, <1>13, <2>1
    <2>2. CASE u # t BY <1>6, <1>9, <1>10, <1>14, <2>2, MeansKept DEF Faithful, Moves
    <2> QED BY <2>1, <2>2
  <1>15. Faithful' BY <1>2, <1>6, <1>11, <1>12, <1>14 DEF Faithful
  <1>16. Others(t) BY <1>2, <1>6 DEF Others, IInv, Shape
  <1> QED BY <1>10, <1>15, <1>16

(* A slot given back passes to another generation.                         *)
LEMMA DeleteMeans ==
  ASSUME IInv, Faithful, NEW t \in Slots, vTaskDelete(t)
  PROVE  Faithful' /\ Moves /\ Others(t)
  <1>1. CanRun(t) /\ pc[t] = "call" BY DEF vTaskDelete, Calling, At
  <1> DEFINE at == LeaveCpu(t)
  <1>2. /\ Goto(t, at) /\ UNCHANGED <<mask, entry, handle, phase>>
        /\ at \in {"c", "yield"} /\ at \in PCs
    BY DEF vTaskDelete, still, LeaveCpu, LeavesByNull, PCs
  <1>3. phase = "run" /\ ~mask /\ k \in KType /\ Alive(k, t)
    BY <1>1, InCall DEF InACall, Calm
  <1> HIDE DEF at
  <1>4. /\ pc'[t] = at /\ \A u \in Slots : u # t => pc'[u] = pc[u] /\ call'[u] = call[u]
    BY <1>2, Going DEF IInv
  <1>5. Moves
    <2>1. CASE k' = k BY <1>2, <1>3, <2>1, WakesNone, OrdMoves DEF Wakes
    <2>2. ASSUME NEW s \in Named(t, call[t].p), k' = task_delete(k, s) PROVE Moves
      <3>1. s \in Slots /\ Alive(k, s) BY <1>3, NamedAlive
      <3>2. /\ k' \in KType
            /\ \A u \in Slots : u # s => k'.st[u] = k.st[u] /\ k'.gen[u] = k.gen[u]
            /\ s = k.cur => k'.st[s] = "gone" /\ k'.gen[s] = k.gen[s]
            /\ s # k.cur => k'.st[s] = "free" /\ k'.gen[s] = k.gen[s] + 1
        <4>1. k' \in KType BY <1>3, <2>2, <3>1, DeleteDoes
        <4>2. \A u \in Slots : u # s => k'.st[u] = k.st[u] /\ k'.gen[u] = k.gen[u]
          BY <1>3, <2>2, <3>1, DeleteDoes
        <4>3. s = k.cur => k'.st[s] = "gone" /\ k'.gen[s] = k.gen[s]
          BY <1>3, <2>2, <3>1, DeleteDoes
        <4>4. s # k.cur => k'.st[s] = "free" /\ k'.gen[s] = k.gen[s] + 1
          BY <1>3, <2>2, <3>1, DeleteDoes
        <4> QED BY <4>1, <4>2, <4>3, <4>4
      <3>3. \A u \in Slots : k.gen[u] \in Nat /\ k'.gen[u] \in Nat BY <1>3, <3>2 DEF KType
      <3>4. \A u \in Settled : u \in Settled' \/ k'.gen[u] > k.gen[u]
        BY <1>2, <1>3, <3>1, <3>2, <3>3 DEF Settled
      <3>5. \A u \in Slots : k'.gen[u] = k.gen[u] \/ k'.gen[u] > k.gen[u] BY <3>2, <3>3
      <3>6. \A u \in Slots : k.st[u] = "gone" => k'.st[u] = "gone" BY <3>1, <3>2 DEF Alive
      <3> QED BY <1>2, <3>3, <3>4, <3>5, <3>6 DEF Moves, Follows
    <2> QED BY <2>1, <2>2 DEF vTaskDelete
  <1>6. \A u \in Slots : pc'[u] = "write" => pc[u] = "write" /\ call'[u] = call[u]
    BY <1>2, <1>4
  <1>7. Others(t) BY <1>4 DEF Others
  <1> QED BY <1>2, <1>3, <1>5, <1>6, <1>7, HandlesKept

(* So does one the idle task collects.                                     *)
LEMMA IdleMeans ==
  ASSUME IInv, Faithful, NEW t \in Slots, idle(t)
  PROVE  Faithful' /\ Moves /\ Others(t)
  <1>1. CanRun(t) /\ pc[t] = "idle" /\ pc[t] # "arm" BY DEF idle, At
  <1>2. /\ Goto(t, "idled") /\ k' = check_tasks_waiting_termination(k)
        /\ UNCHANGED <<mask, entry, handle, phase>>
    BY DEF idle, still
  <1>3. phase = "run" /\ ~mask /\ k \in KType BY <1>1, Running
  <1>4. /\ k' \in KType
        /\ \A u \in Slots : /\ k.st[u] # "gone" => k'.st[u] = k.st[u] /\ k'.gen[u] = k.gen[u]
                            /\ k.st[u] = "gone" => k'.gen[u] = k.gen[u] + 1
    BY <1>2, <1>3, CollectDoes
  <1>5. \A u \in Slots : k.gen[u] \in Nat /\ k'.gen[u] \in Nat BY <1>3, <1>4 DEF KType
  <1>6. Moves
    <2>1. \A u \in Settled : u \in Settled' \/ k'.gen[u] > k.gen[u]
      BY <1>2, <1>3, <1>4, <1>5 DEF Settled
    <2>2. \A u \in Slots : k'.gen[u] = k.gen[u] \/ k'.gen[u] > k.gen[u] BY <1>4, <1>5
    <2> QED BY <1>2, <1>4, <1>5, <2>1, <2>2 DEF Moves, Follows
  <1>7. /\ pc'[t] = "idled" /\ call' = call /\ \A u \in Slots : u # t => pc'[u] = pc[u]
    BY <1>2, Going DEF IInv, PCs
  <1>8. Others(t) BY <1>7 DEF Others
  <1> QED BY <1>2, <1>3, <1>6, <1>7, <1>8, HandlesKept

(* Neither the tick nor the switch touches a task's slot or its entry.     *)
LEMMA TickMeans == ASSUME IInv, Faithful, Ticks PROVE Faithful' /\ Moves
  <1>1. PICK who \in SUBSET Slots, woken \in BOOLEAN : Rousing(who, woken) BY DEF Ticks
  <1>2. phase = "run" /\ ~mask /\ UNCHANGED <<mask, pc, call, entry, handle, phase>>
    BY TicksFrame
  <1>3. k \in KType BY DEF IInv, Shape
  <1>4. KOrd(k, k') BY <1>1, <1>3, TickDoes DEF Wakes
  <1>5. Moves BY <1>2, <1>3, <1>4, OrdMoves
  <1> QED BY <1>2, <1>5, HandlesKept

(* The switch.                                                             *)
LEMMA SwitchMeans == ASSUME IInv, Faithful, pick_next PROVE Faithful' /\ Moves
  <1>1. /\ ~mask /\ k' \in switch_context(k) /\ phase' \notin {"mon", "armmon"}
        /\ UNCHANGED <<mask, pc, call, entry, handle>>
    BY DEF pick_next
  <1>2. k \in KType BY DEF IInv, Shape
  <1>3. k'.st = k.st /\ k'.gen = k.gen BY <1>1, <1>2, SwitchDoes
  <1>4. Moves
    <2>1. \A u \in Slots : k'.gen[u] = k.gen[u] /\ k.gen[u] \in Nat BY <1>2, <1>3 DEF KType
    <2>2. Settled' = Settled BY <1>1, <1>3 DEF Settled
    <2> QED BY <1>1, <1>3, <2>1, <2>2 DEF Moves, Follows
  <1>5. phase' = "run" BY SwitchKeeps DEF IInv, Shape, Phases, pick_next
  <1> QED BY <1>1, <1>4, <1>5, HandlesKept

(* Start-up: the C has no handle before its first task runs something.     *)
LEMMA MainMeans == ASSUME IInv, Faithful, main PROVE Faithful'
  <1>1. phase # "run" BY DEF main, CreateMonitor, ArmMonitor, StartDemo, start_scheduler,
                             ArmBoth, start_first_task, AllArmed
  <1>2. k \in KType /\ ~mask /\ \A u \in Slots : k.st[u] # "gone" BY <1>1, Quiet
  <1>3. \A u \in Slots : k.gen[u] \in Nat BY <1>2 DEF KType
  <1>4. ASSUME NEW s \in Slots, NEW n \in Nat, k' = create_task(k, s, n)
        PROVE  /\ k'.gen = k.gen /\ k'.st[s] = "ready"
               /\ \A u \in Slots : u # s => k'.st[u] = k.st[u]
    <2>1. Made(k, k', s, n) BY <1>2, <1>4, CreateMakes
    <2> QED BY <2>1 DEF Made
  <1>5. CASE CreateMonitor
    <2>1. /\ phase = "mon" /\ phase' = "armmon" /\ k' = create_task(k, 0, Boot[1][2])
          /\ UNCHANGED <<mask, pc, call, entry, handle>>
      BY <1>5 DEF CreateMonitor
    <2>2. \A f \in Functions : handle'[f] = NULL BY <2>1 DEF Faithful
    <2>3. \A u \in Slots : pc'[u] \in Unstarted /\ pc'[u] # "write" BY <2>1 DEF Faithful, Unstarted
    <2>4. handle' = [f \in Functions |-> handle'[f]] BY <2>1 DEF Faithful
    <2> QED BY <1>2, <2>1, <2>2, <2>3, <2>4 DEF Faithful, Means
  <1>6. CASE ArmMonitor
    <2>1. /\ phase = "armmon" /\ phase' = "demos" /\ pc' = [pc EXCEPT ![0] = "c"]
          /\ UNCHANGED <<k, mask, call, handle>>
      BY <1>6 DEF ArmMonitor
    <2>2. \A f \in Functions : handle'[f] = NULL BY <2>1 DEF Faithful
    <2>3. \A u \in Slots : pc'[u] \in Unstarted /\ pc'[u] # "write"
      BY <2>1 DEF Faithful, Unstarted, IInv, Shape
    <2>4. handle' = [f \in Functions |-> handle'[f]] BY <2>1 DEF Faithful
    <2> QED BY <1>2, <2>1, <2>2, <2>3, <2>4 DEF Faithful, Means
  <1>7. CASE StartDemo
    <2>1. PICK s \in FreeSlots(k) :
            /\ s < Idle /\ k' = create_task(k, s, Boot[s + 1][2])
            /\ entry' = [entry EXCEPT ![s] = Boot[s + 1][1]]
            /\ pc' = [pc EXCEPT ![s] = "new"]
            /\ handle' = [handle EXCEPT ![Boot[s + 1][1]] = handle_to_c(s, k.gen[s])]
      BY <1>7 DEF StartDemo
    <2> DEFINE g == Boot[s + 1][1]
               n == Boot[s + 1][2]
               p == handle_to_c(s, k.gen[s])
    <2>2. phase = "demos" /\ phase' = "demos" /\ UNCHANGED <<mask, call>> BY <1>7 DEF StartDemo
    <2>3. s \in Slots /\ k.st[s] = "free" BY DEF FreeSlots
    <2>4. g \in Functions /\ n \in Nat BY <2>1, <2>3, BootTyped DEF IInv, Shape
    <2>5. /\ k' = create_task(k, s, n) /\ entry' = [entry EXCEPT ![s] = g]
          /\ handle' = [handle EXCEPT ![g] = p]
      BY <2>1
    <2> HIDE DEF g, n
    <2>6. k'.gen = k.gen /\ k'.st[s] = "ready" /\ \A u \in Slots : u # s => k'.st[u] = k.st[u]
      BY <1>4, <2>3, <2>4, <2>5
    <2>7. entry'[s] = g /\ \A u \in Slots : u # s => entry'[u] = entry[u]
      BY <2>3, <2>4, <2>5 DEF IInv, Shape
    <2>8. Moves
      <3>1. \A u \in Settled : u # s BY <2>3 DEF Settled
      <3>2. \A u \in Settled : u \in Settled' /\ entry'[u] = entry[u]
        BY <1>2, <2>2, <2>6, <2>7, <3>1 DEF Settled
      <3> QED BY <1>2, <1>3, <2>6, <3>2 DEF Moves, Follows
    <2>9. Means(p, g, k'.gen, Settled', entry')
      <3>1. s \in Settled' BY <1>2, <2>2, <2>3, <2>6 DEF Settled
      <3>2. p = handle_to_c(s, k'.gen[s]) /\ k'.gen[s] \in Nat BY <1>3, <2>3, <2>6
      <3> HIDE DEF p
      <3> QED BY <2>3, <2>7, <3>1, <3>2, MadeMeans
    <2>10. handle = [f \in Functions |-> handle[f]] BY DEF Faithful
    <2>11. handle' = [f \in Functions |-> handle'[f]] BY <2>5, <2>10
    <2>12. ASSUME NEW f \in Functions PROVE Means(handle'[f], f, k'.gen, Settled', entry')
      <3>1. CASE f = g BY <2>5, <2>9, <2>10, <3>1
      <3>2. CASE f # g
        <4>1. handle'[f] = handle[f] BY <2>5, <2>10, <3>2
        <4>2. Means(handle[f], f, k'.gen, Settled', entry')
          BY <2>8, MeansKept DEF Faithful, Moves
        <4> QED BY <4>1, <4>2
      <3> QED BY <3>1, <3>2
    <2>13. ASSUME NEW u \in Slots, pc'[u] = "write"
           PROVE  Means(call'[u].p, call'[u].whom, k'.gen, Settled', entry')
      <3>1. pc[u] = "write" /\ call'[u] = call[u] BY <2>1, <2>2, <2>13 DEF IInv, Shape
      <3> QED BY <2>8, <3>1, MeansKept DEF Faithful, Moves
    <2>14. \A u \in Slots : pc'[u] \in Unstarted
      BY <2>1, <2>2 DEF Faithful, Unstarted, IInv, Shape
    <2> QED BY <1>2, <2>2, <2>11, <2>12, <2>13, <2>14 DEF Faithful
  <1>8. CASE start_scheduler
    <2> DEFINE k1 == create_task(k, Idle, 0)
               kk == create_task(k1, Timer, TIMER_TASK_PRIORITY)
    <2>1. phase' = "arm" /\ UNCHANGED <<mask, pc, call, entry, handle>> BY <1>8 DEF start_scheduler
    <2>2. \A u \in Slots : pc'[u] \in Unstarted BY <1>1, <2>1 DEF Faithful
    <2>3. PICK t \in Best(kk) : k' = [kk EXCEPT !.cur = t] BY <1>8 DEF start_scheduler
    <2>4. Idle \in Slots /\ Timer \in Slots BY BootTyped DEF IInv, Shape
    <2>5. Made(k, k1, Idle, 0) BY <1>2, <2>4, CreateMakes
    <2> HIDE DEF k1
    <2>6. k1 \in KType BY <2>5 DEF Made
    <2>7. TIMER_TASK_PRIORITY \in Nat BY TasksAssumption
    <2>8. Made(k1, kk, Timer, TIMER_TASK_PRIORITY) BY <2>4, <2>6, <2>7, CreateMakes
    <2> HIDE DEF kk
    <2>9. kk \in KType /\ kk.gen = k.gen /\ \A u \in Slots : kk.st[u] = k.st[u] \/ kk.st[u] = "ready"
      BY <2>5, <2>8 DEF Made
    <2>10. k'.gen = kk.gen /\ k'.st = kk.st BY <2>3, <2>9 DEF KType
    <2>11. Moves
      <3>1. \A u \in Settled : u \in Settled' BY <1>2, <2>1, <2>9, <2>10 DEF Settled
      <3> QED BY <1>2, <1>3, <2>1, <2>9, <2>10, <3>1 DEF Moves, Follows
    <2> QED BY <1>2, <2>1, <2>2, <2>11, HandlesKept
  <1>9. CASE ArmBoth \/ start_first_task
    <2>1. /\ phase' \in {"sched", "run"} /\ UNCHANGED <<k, mask, call, entry, handle>>
          /\ \A u \in Slots : /\ pc'[u] = "write" => pc[u] = "write"
                              /\ pc'[u] \in Unstarted \/ pc'[u] = pc[u]
      BY <1>9 DEF ArmBoth, start_first_task, IInv, Shape, Unstarted
    <2>2. \A u \in Slots : pc'[u] \in Unstarted BY <1>1, <2>1 DEF Faithful
    <2>3. Settled' = Settled BY <1>2, <2>1 DEF Settled
    <2>4. Moves BY <1>2, <1>3, <2>1, <2>3 DEF Moves, Follows
    <2> QED BY <1>2, <2>1, <2>2, <2>4, HandlesKept
  <1> QED BY <1>5, <1>6, <1>7, <1>8, <1>9 DEF main

(* Every call of the C, and every step of the idle task and the daemon.    *)
LEMMA CallsMean ==
  ASSUME IInv, Faithful, Tasks \/ Notifies \/ Groups \/ Buffers
  PROVE  Faithful'
  <1>1. ASSUME NEW t \in Slots, TaskCall(t), ~xTaskCreate(t), ~WriteHandle(t), ~Lookup(t)
        PROVE  Faithful'
    <2>1. handle' = handle BY <1>1, CallsLeaveHandles
    <2>2. ASSUME Ordinary(t) PROVE Faithful' BY <2>1, <2>2, OrdinaryHandles
    <2> QED
      BY <1>1, <2>2, TrampolineOrdinary, LeaveOrdinary, ArmMeans, DeleteMeans, SuspendOrdinary,
         ResumeOrdinary, PriorityOrdinary, AbortOrdinary, DelayOrdinary, SuspendAllOrdinary,
         ResumeAllOrdinary, CatchUpOrdinary, YieldOrdinary, IdleMeans
      DEF TaskCall
  <1>2. ASSUME NEW t \in Slots,
               NotifyCall(t) \/ GroupCall(t) \/ timer_daemon(t) \/ BufferCall(t) \/ Enter(t, Objects)
        PROVE  Faithful'
    <2>1. handle' = handle BY <1>2, CallsLeaveHandles
    <2>2. Ordinary(t)
      BY <1>2, NotifyCallOrdinary, GroupCallOrdinary, DaemonOrdinary, BufferCallOrdinary,
         EnterOrdinary
    <2> QED BY <2>1, <2>2, OrdinaryHandles
  <1>3. ASSUME NEW t \in Slots, xTaskCreate(t) \/ WriteHandle(t) \/ Lookup(t) PROVE Faithful'
    BY <1>3, CreateMeans, WriteHandleMeans, LookupMeans
  <1> QED BY <1>1, <1>2, <1>3 DEF Tasks, Notifies, Groups, Buffers

(* Every step keeps the handles faithful.                                  *)
LEMMA StepsMean == IInv /\ Faithful /\ [Next]_vars => Faithful'
  <1> SUFFICES ASSUME IInv, Faithful, [Next]_vars PROVE Faithful' OBVIOUS
  <1>1. CASE main BY <1>1, MainMeans
  <1>2. CASE pick_next BY <1>2, SwitchMeans
  <1>3. CASE Tasks \/ Notifies \/ Groups \/ Buffers BY <1>3, CallsMean
  <1>4. CASE SysTick({}) \/ NotifyIsr \/ GroupIsr \/ BuffersIsr BY <1>4, HalvesTick, TickMeans
  <1>5. CASE UNCHANGED vars
    <2>1. UNCHANGED <<k, mask, pc, call, entry, handle, phase>> BY <1>5 DEF vars, taskVars
    <2>2. Settled' = Settled BY <2>1 DEF Settled, Fresh
    <2> QED BY <2>1, <2>2 DEF Faithful, Fresh
  <1> QED BY <1>1, <1>2, <1>3, <1>4, <1>5 DEF Next

(* The handles are faithful from the start.                                *)
THEOREM HandlesFaithful == Spec => []Faithful
  <1>1. Init => Faithful
    <2> SUFFICES ASSUME TaskInit PROVE Faithful BY DEF Init
    <2>1. \A f \in Functions : handle[f] = NULL BY DEF TaskInit
    <2>2. handle = [f \in Functions |-> handle[f]] BY DEF TaskInit
    <2>3. \A t \in Slots : pc[t] \in Unstarted /\ pc[t] # "write" BY DEF TaskInit, Unstarted
    <2>4. ~mask BY DEF TaskInit
    <2> QED BY <2>1, <2>2, <2>3, <2>4 DEF Faithful, Means
  <1> QED BY <1>1, StepsMean, Invariant, PTL DEF Spec

(* HandleMeansItsTask: whatever was created, deleted, collected and        *)
(* created again in between, a handle the C holds answers eTaskGetState as *)
(* a live task only if that task runs the function the variable is for.    *)
THEOREM HandlesMeanTheirTasks == Spec => []HandleMeansItsTask
  <1>1. Faithful => HandleMeansItsTask
    <2> SUFFICES ASSUME Faithful, NEW f \in Functions,
                        eTaskGetState(handle[f]) \notin {"eInvalid", "eDeleted"}
                 PROVE  entry[handle_from_c(handle[f]).slot] = f
      BY DEF HandleMeansItsTask
    <2> DEFINE h == handle_from_c(handle[f])
    <2>1. handle[f] # NULL BY DEF eTaskGetState
    <2>2. k.gen[h.slot] = h.gen BY DEF eTaskGetState
    <2>3. /\ h.slot \in Slots /\ h.gen \in Nat
          /\ h.gen < k.gen[h.slot] \/ (h.gen = k.gen[h.slot] /\ entry[h.slot] = f)
      BY <2>1 DEF Faithful, Means
    <2> QED BY <2>2, <2>3
  <1> QED BY <1>1, HandlesFaithful, PTL

-----------------------------------------------------------------------------
(* The arguments of the calls.                                             *)

(* A step of the task on the CPU.                                          *)
Acts(t) ==
  \/ TaskCall(t) \/ Enter(t, Objects) \/ NotifyCall(t)
  \/ GroupCall(t) \/ timer_daemon(t) \/ BufferCall(t)

(* Between the two kernel calls of xTaskNotifyAndQuery.                    *)
Asking(t) == pc[t] = "mid" /\ call[t].op = "query"

(* A call names the task the C named, by what its variable meant; or its   *)
(* caller, or no task at all.                                              *)
Given(t) ==
  IF call[t].whom = "self" THEN call[t].op \notin DOMAIN Objects => call[t].p = NULL
  ELSE Means(call[t].p, call[t].whom, k.gen, Settled, entry)
Arguments == \A t \in Slots : (pc[t] = "call" \/ Asking(t)) => Given(t)

(* Whoever takes a step moves nobody else on.                              *)
LEMMA ActsMove ==
  ASSUME IInv, Faithful, NEW t \in Slots, Acts(t)
  PROVE  Moves /\ Others(t)
  <1>1. CASE Ordinary(t) BY <1>1, OrdinaryMoves DEF Others
  <1>2. CASE xTaskCreate(t) \/ ArmCreated(t) \/ vTaskDelete(t) \/ idle(t)
    BY <1>2, CreateMeans, ArmMeans, DeleteMeans, IdleMeans
  <1>3. CASE TaskCall(t)
    BY <1>1, <1>2, <1>3, TrampolineOrdinary, LeaveOrdinary, WriteHandleOrdinary, LookupOrdinary,
       SuspendOrdinary, ResumeOrdinary, PriorityOrdinary, AbortOrdinary, DelayOrdinary,
       SuspendAllOrdinary, ResumeAllOrdinary, CatchUpOrdinary, YieldOrdinary
    DEF TaskCall
  <1> QED
    BY <1>1, <1>3, NotifyCallOrdinary, GroupCallOrdinary, DaemonOrdinary, BufferCallOrdinary,
       EnterOrdinary
    DEF Acts

(* What the C asks for, as its function has it.                            *)
LEMMA Entering ==
  ASSUME IInv, NEW t \in Slots, Enter(t, Objects)
  PROVE  /\ entry[t] \in Functions
         /\ \E c \in Code[entry[t]] :
              /\ c \in Calls /\ MayCall(c)
              /\ call'[t].op = c.op /\ call'[t].whom = c.whom /\ call'[t].x = c.x
              /\ call'[t].p = IF c.whom # "self" THEN handle[c.whom]
                              ELSE IF c.op \in DOMAIN Objects THEN Objects[c.op] ELSE NULL
              /\ call'[t].n = IF c.x = "above" THEN k.prio[t] + 1 ELSE c.n
              /\ pc'[t] = IF c.op = "return" THEN "parked" ELSE "call"
  <1>1. CanRun(t) /\ pc[t] = "c" BY DEF Enter, At
  <1>2. entry[t] \in Functions BY <1>1 DEF IInv, CallsKept, Working
  <1> DEFINE Num(c) == IF c.x = "above" THEN uxTaskPriorityGet(t, NULL) + 1 ELSE c.n
             Obj(c) == IF c.whom # "self" THEN handle[c.whom]
                       ELSE IF c.op \in DOMAIN Objects THEN Objects[c.op] ELSE NULL
  <1>3. PICK c \in Code[entry[t]] :
          /\ MayCall(c)
          /\ call' = [call EXCEPT ![t] = [c EXCEPT !.p = Obj(c), !.n = Num(c)]]
          /\ pc' = [pc EXCEPT ![t] = IF c.op = "return" THEN "parked" ELSE "call"]
    BY Zenon DEF Enter
  <1>4. c \in Calls BY <1>2, TasksAssumption
  <1>5. uxTaskPriorityGet(t, NULL) = k.prio[t]
    <2>1. Named(t, NULL) = {t} BY DEF Named
    <2> QED BY <2>1 DEF uxTaskPriorityGet
  <1>6. Num(c) = IF c.x = "above" THEN k.prio[t] + 1 ELSE c.n BY <1>5
  <1> DEFINE n == Num(c)
             p == Obj(c)
             d == [c EXCEPT !.p = p, !.n = n]
  <1> HIDE DEF Num, Obj
  <1> HIDE DEF n, p
  <1>7. d.op = c.op /\ d.whom = c.whom /\ d.x = c.x /\ d.p = p /\ d.n = n BY <1>4 DEF Calls
  <1>8. call'[t] = d BY <1>3 DEF IInv, Shape, n, p
  <1> HIDE DEF d
  <1>9. pc'[t] = IF c.op = "return" THEN "parked" ELSE "call" BY <1>3 DEF IInv, Shape
  <1> QED BY <1>2, <1>3, <1>4, <1>6, <1>7, <1>8, <1>9 DEF n, p, Obj

(* Only the C begins a call, and only a query asks.                        *)
LEMMA WhoCalls ==
  ASSUME IInv, NEW t \in Slots, Acts(t)
  PROVE  /\ pc'[t] = "call" => Enter(t, Objects)
         /\ Asking(t)' => Query(t)
  <1>1. pc \in [Slots -> PCs] /\ call = [u \in Slots |-> call[u]] BY DEF IInv, Shape
  <1>2. \A at : pc' = [pc EXCEPT ![t] = at] => pc'[t] = at BY <1>1
  <1>3. \A at : Goto(t, at) => pc'[t] = at BY <1>1 DEF Goto
  <1>4. CASE TaskCall(t)
    <2>1. CASE xTaskCreate(t)
      <3>1. pc'[t] \in {"c", "arm"} BY <1>2, <1>3, <2>1 DEF xTaskCreate
      <3> QED BY <3>1 DEF Asking
    <2>2. CASE ArmCreated(t)
      <3> DEFINE s == handle_from_c(call[t].p).slot
      <3>1. \/ pc' = [pc EXCEPT ![s] = "new", ![t] = "write"]
            \/ pc' = [pc EXCEPT ![t] = "c"]
        BY <2>2 DEF ArmCreated
      <3> HIDE DEF s
      <3>2. pc'[t] \notin {"call", "mid"} BY <1>1, <3>1
      <3> QED BY <3>2 DEF Asking
    <2>3. CASE xTaskCatchUpTicks(t)
      <3>1. pc'[t] \notin {"call", "mid"}
        BY <1>1, <2>3 DEF xTaskCatchUpTicks, Goto, Calling, At
      <3> QED BY <3>1 DEF Asking
    <2>4. CASE Leave(t)
      <3>1. AfterYield(pc[t]) \notin {"call", "mid"} BY <2>4 DEF Leave, AfterYield
      <3>2. pc'[t] \notin {"call", "mid"} BY <1>3, <2>4, <3>1 DEF Leave
      <3> QED BY <3>2 DEF Asking
    <2>5. CASE vTaskDelete(t) \/ vTaskSuspend(t)
      <3>1. pc'[t] \in {"c", "yield"}
        BY <1>3, <2>5 DEF vTaskDelete, vTaskSuspend, LeaveCpu, LeavesByNull
      <3> QED BY <3>1 DEF Asking
    <2>6. ASSUME ~xTaskCreate(t), ~ArmCreated(t), ~xTaskCatchUpTicks(t), ~Leave(t),
                 ~vTaskDelete(t), ~vTaskSuspend(t)
          PROVE  pc'[t] \in {"c", "yield", "parked", "idled"}
      BY <1>3, <1>4, <2>6
      DEF TaskCall, c_task_trampoline, vTaskResume, xTaskAbortDelay, xTaskResumeAll,
          YieldsIfAsked, WriteHandle, Lookup, vTaskPrioritySet, vTaskDelay, xTaskDelayUntil,
          vTaskSuspendAll, vPortGenerateSimulatedInterrupt, idle
    <2> QED BY <2>1, <2>2, <2>3, <2>4, <2>5, <2>6 DEF Asking
  <1>5. CASE NotifyCall(t)
    <2>1. CASE Query(t)
      <3>1. pc'[t] \in {"c", "mid"} BY <1>3, <2>1 DEF Query
      <3> QED BY <2>1, <3>1
    <2>2. ASSUME ~Query(t) PROVE pc'[t] \in {"c", "yield", "blocked"}
      BY <1>3, <1>5, <2>2
      DEF NotifyCall, xTaskGenericNotify, xTaskGenericNotifyWait, ulTaskGenericNotifyTake,
          xTaskGenericNotifyStateClear, ulTaskGenericNotifyValueClear
    <2> QED BY <2>1, <2>2 DEF Asking
  <1>6. CASE GroupCall(t)
    <2>1. pc'[t] \in {"c", "yield", "blocked"}
      BY <1>3, <1>6
      DEF GroupCall, xEventGroupCreate, vEventGroupDelete, xEventGroupSetBits,
          xEventGroupClearBits, xEventGroupWaitBits, xEventGroupSync
    <2> QED BY <2>1 DEF Asking
  <1>7. CASE timer_daemon(t)
    <2>1. CASE UNCHANGED <<pc, call>> BY <2>1, <1>7 DEF timer_daemon, At, Asking
    <2>2. CASE Goto(t, "slept") BY <1>3, <2>2 DEF Asking
    <2> QED BY <1>7, <2>1, <2>2 DEF timer_daemon
  <1>8. CASE BufferCall(t)
    <2>1. CASE xStreamBufferGenericCreate(t)
      <3>1. CASE Goto(t, "mid")
        <4>1. pc'[t] = "mid" /\ call' = call BY <1>1, <3>1 DEF Goto
        <4>2. call[t].op = "sbcreate" BY <2>1 DEF xStreamBufferGenericCreate, Calling
        <4> QED BY <4>1, <4>2 DEF Asking
      <3>2. CASE Goto(t, "c") BY <1>3, <3>2 DEF Asking
      <3> QED BY <2>1, <3>1, <3>2 DEF xStreamBufferGenericCreate
    <2>2. CASE xStreamBufferReceive(t)
      <3>1. pc'[t] \in {"c", "count", "blocked"}
        BY <1>2, <1>3, <2>2 DEF xStreamBufferReceive, Attempt
      <3> QED BY <3>1 DEF Asking
    <2>3. CASE vSerialPutString(t)
      <3>1. call[t].op = "putstring" BY <2>3 DEF vSerialPutString, Looping
      <3>2. CASE pc' = [pc EXCEPT ![t] = "mid"] /\ call' = [call EXCEPT ![t].p = @ + 1]
        <4>1. CanRun(t) /\ pc[t] \in InACall
          BY <2>3 DEF vSerialPutString, Looping, At, InACall, Calm
        <4>2. IsCall(call[t]) BY <4>1, InCall
        <4> DEFINE d == [call[t] EXCEPT !.p = @ + 1]
        <4>3. d.op = call[t].op BY <4>2 DEF IsCall
        <4>4. call'[t] = d BY <1>1, <3>2
        <4> HIDE DEF d
        <4>5. pc'[t] = "mid" /\ call'[t].op # "query" BY <1>1, <3>1, <3>2, <4>3, <4>4
        <4> QED BY <4>5 DEF Asking
      <3>3. CASE Goto(t, "c") BY <1>3, <3>3 DEF Asking
      <3> QED BY <2>3, <3>2, <3>3 DEF vSerialPutString
    <2>4. ASSUME ~xStreamBufferGenericCreate(t), ~xStreamBufferReceive(t), ~vSerialPutString(t)
          PROVE  pc'[t] \in {"c", "yield", "blocked"}
      BY <1>3, <1>8, <2>4
      DEF BufferCall, StreamCall, WireCall, LockCall, FlagCreated, vStreamBufferDelete,
          xStreamBufferSend, CountReceive, xStreamBufferReset, Blocks, xSerialPortInitMinimal,
          xSerialPutChar, xSerialGetChar, xQueueGenericReset, xQueueSemaphoreTake,
          xQueueTakeMutexRecursive, xQueueGiveMutexRecursive, LeavesOnGive, OnOldWire
    <2> QED BY <2>1, <2>2, <2>3, <2>4 DEF Asking
  <1>9. CASE Enter(t, Objects)
    <2>1. pc'[t] \in {"call", "parked"}
      <3>1. pc'[t] = "call" \/ pc'[t] = "parked" BY <1>9, Entering
      <3> QED BY <3>1
    <2> QED BY <1>9, <2>1 DEF Asking
  <1> QED BY <1>4, <1>5, <1>6, <1>7, <1>8, <1>9 DEF Acts

(* A query that goes on asks about what it asked about, of somebody.       *)
LEMMA StillAsks ==
  ASSUME IInv, NEW t \in Slots, Query(t), Asking(t)'
  PROVE  /\ call' = call /\ call[t].p # NULL
         /\ \/ Named(t, call[t].p) = {}
            \/ \E s \in Named(t, call[t].p) : prev' = [prev EXCEPT ![t] = ValueBefore(s, call[t].x)]
  <1>1. ~Goto(t, "c")
    <2>1. Goto(t, "c") => pc'[t] = "c" BY DEF Goto, IInv, Shape
    <2> QED BY <2>1 DEF Asking
  <1>2. Goto(t, "mid") => call' = call BY DEF Goto
  <1> QED BY <1>1, <1>2 DEF Query

(* What is given stays given as long as the call is the same.              *)
LEMMA GivenKept ==
  ASSUME NEW u \in Slots, Moves, call'[u] = call[u], Given(u)
  PROVE  Given(u)'
  <1>1. CASE call[u].whom = "self" BY <1>1 DEF Given, Objects
  <1>2. CASE call[u].whom # "self"
    <2>1. Means(call[u].p, call[u].whom, k.gen, Settled, entry) BY <1>2 DEF Given
    <2>2. Means(call[u].p, call[u].whom, k'.gen, Settled', entry')
      BY <2>1, MeansKept DEF Moves
    <2> QED BY <1>2, <2>2 DEF Given
  <1> QED BY <1>1, <1>2

(* What the C asks for names what its variables mean.                      *)
LEMMA EnterGives ==
  ASSUME IInv, Faithful, NEW t \in Slots, Enter(t, Objects), Moves
  PROVE  Given(t)'
  <1>1. PICK c \in Code[entry[t]] :
          /\ entry[t] \in Functions /\ c \in Calls
          /\ call'[t].op = c.op /\ call'[t].whom = c.whom
          /\ call'[t].p = IF c.whom # "self" THEN handle[c.whom]
                          ELSE IF c.op \in DOMAIN Objects THEN Objects[c.op] ELSE NULL
    BY Entering
  <1>2. CASE c.whom = "self"
    <2>1. call'[t].op \notin DOMAIN Objects => call'[t].p = NULL BY <1>1, <1>2
    <2> QED BY <1>1, <1>2, <2>1 DEF Given, Objects
  <1>3. CASE c.whom # "self"
    <2>1. c.whom \in Functions BY <1>1, <1>3 DEF Calls
    <2>2. Means(handle[c.whom], c.whom, k.gen, Settled, entry) BY <2>1 DEF Faithful
    <2>3. Means(handle[c.whom], c.whom, k'.gen, Settled', entry')
      BY <2>2, MeansKept DEF Moves
    <2> QED BY <1>1, <1>3, <2>3 DEF Given
  <1> QED BY <1>2, <1>3

(* Where nobody is moved on, nothing is given anew.                        *)
LEMMA ArgumentsStay ==
  ASSUME Arguments, Moves, \A u \in Slots : pc'[u] = pc[u] /\ call'[u] = call[u]
  PROVE  Arguments'
  BY GivenKept DEF Arguments, Asking

(* Every step keeps the arguments right.                                   *)
LEMMA ArgumentsKept == IInv /\ Faithful /\ Arguments /\ [Next]_vars => Arguments'
  <1> SUFFICES ASSUME IInv, Faithful, Arguments, [Next]_vars PROVE Arguments' OBVIOUS
  <1>1. ASSUME NEW t \in Slots, Acts(t) PROVE Arguments'
    <2>1. Moves /\ Others(t) BY <1>1, ActsMove
    <2>2. ASSUME NEW u \in Slots, u # t, pc'[u] = "call" \/ Asking(u)' PROVE Given(u)'
      <3>1. call'[u] = call[u] /\ pc'[u] = pc[u] BY <2>1, <2>2 DEF Others, Asking
      <3>2. Given(u) BY <2>2, <3>1 DEF Arguments, Asking
      <3> QED BY <2>1, <3>1, <3>2, GivenKept
    <2>3. ASSUME pc'[t] = "call" PROVE Given(t)'
      BY <1>1, <2>1, <2>3, WhoCalls, EnterGives
    <2>4. ASSUME Asking(t)' PROVE Given(t)'
      <3>1. Query(t) BY <1>1, <2>4, WhoCalls
      <3>2. pc[t] = "call" /\ call' = call BY <2>4, <3>1, StillAsks DEF Query, Calling, At
      <3>3. Given(t) BY <3>2 DEF Arguments
      <3> QED BY <2>1, <3>2, <3>3, GivenKept
    <2> QED BY <2>2, <2>3, <2>4 DEF Arguments
  <1>2. CASE main
    <2>1. Faithful' BY <1>2, MainMeans
    <2>2. phase # "run"
      BY <1>2 DEF main, CreateMonitor, ArmMonitor, StartDemo, start_scheduler, ArmBoth,
                  start_first_task, AllArmed
    <2>3. phase' # "run" \/ pc' = pc
      BY <1>2 DEF main, CreateMonitor, ArmMonitor, StartDemo, start_scheduler, ArmBoth,
                  start_first_task
    <2>4. \A u \in Slots : pc'[u] \in Unstarted BY <2>1, <2>2, <2>3 DEF Faithful
    <2> QED BY <2>4 DEF Arguments, Asking, Unstarted
  <1>3. CASE pick_next
    BY <1>3, SwitchMeans, ArgumentsStay DEF pick_next
  <1>4. CASE Ticks
    <2>1. pc' = pc /\ call' = call BY <1>4, TicksFrame
    <2> QED BY <1>4, <2>1, TickMeans, ArgumentsStay
  <1>5. CASE UNCHANGED vars
    <2>1. UNCHANGED <<k, mask, pc, call, entry>> BY <1>5 DEF vars, taskVars
    <2>2. Settled' = Settled BY <2>1 DEF Settled, Fresh
    <2>3. \A u \in Slots : Given(u)' = Given(u) BY <2>1, <2>2 DEF Given, Objects
    <2> QED BY <2>1, <2>3 DEF Arguments, Asking
  <1>6. CASE Tasks \/ Notifies \/ Groups \/ Buffers
    BY <1>1, <1>6 DEF Tasks, Notifies, Groups, Buffers, Acts
  <1>7. CASE SysTick({}) \/ NotifyIsr \/ GroupIsr \/ BuffersIsr BY <1>4, <1>7, HalvesTick
  <1> QED BY <1>2, <1>3, <1>5, <1>6, <1>7 DEF Next

(* The arguments are right from the start.                                 *)
THEOREM ArgumentsNameTheirTasks == Spec => []Arguments
  <1>1. Init => Arguments
    <2>1. ASSUME TaskInit PROVE \A t \in Slots : pc[t] = "off" BY <2>1 DEF TaskInit
    <2> QED BY <2>1 DEF Init, Arguments, Asking
  <1> QED BY <1>1, ArgumentsKept, Invariant, HandlesFaithful, PTL DEF Spec

(* What a call names by a handle is alive, settled, and runs what the C    *)
(* wanted.                                                                 *)
LEMMA NamedByHandle ==
  ASSUME IInv, Arguments, NEW t \in Slots, pc[t] = "call" \/ Asking(t),
         call[t].op \notin DOMAIN Objects, NEW s \in Named(t, call[t].p)
  PROVE  /\ call[t].p = NULL => s = t
         /\ call[t].p # NULL =>
              /\ s \in Slots /\ Alive(k, s) /\ s \in Settled /\ entry[s] = call[t].whom
              /\ call[t].whom # "self"
              /\ s = handle_from_c(call[t].p).slot
              /\ k.gen[s] = handle_from_c(call[t].p).gen
              /\ Means(call[t].p, call[t].whom, k.gen, Settled, entry)
  <1>1. CASE call[t].p = NULL BY <1>1 DEF Named
  <1>2. CASE call[t].p # NULL
    <2>1. call[t].whom # "self" /\ Means(call[t].p, call[t].whom, k.gen, Settled, entry)
      BY <1>2 DEF Arguments, Given
    <2>2. /\ s \in Slots /\ Alive(k, s) /\ s = handle_from_c(call[t].p).slot
          /\ k.gen[s] = handle_from_c(call[t].p).gen
      BY <1>2 DEF Named
    <2>3. k.gen[s] \in Nat BY <2>2 DEF IInv, Shape, KType
    <2> QED BY <1>2, <2>1, <2>2, <2>3 DEF Means
  <1> QED BY <1>1, <1>2

-----------------------------------------------------------------------------
(* xTaskNotifyAndQuery.                                                    *)

(* While it asks, it has the value as it is, unless somebody meddled.      *)
Asked ==
  /\ nval = [s \in Slots |-> nval[s]] /\ prev = [s \in Slots |-> prev[s]]
  /\ \A t \in Slots : (Asking(t) /\ call[t].p # NULL) =>
       \A s \in Named(t, call[t].p) : prev[t] = nval[s] \/ t \in meddled

(* A task once no longer named by a handle is never named by it again.     *)
LEMMA NamedShrinks ==
  ASSUME IInv, Arguments, Moves, NEW t \in Slots, Asking(t), call[t].p # NULL,
         NEW s \in Slots, Alive(k', s), s = handle_from_c(call[t].p).slot,
         k'.gen[s] = handle_from_c(call[t].p).gen
  PROVE  s \in Named(t, call[t].p)
  <1>1. call[t].whom # "self" BY DEF Arguments, Given, Asking, Objects, GroupOps, StreamOps, WireOps
  <1>2. Means(call[t].p, call[t].whom, k.gen, Settled, entry) BY <1>1 DEF Arguments, Given
  <1>3. /\ k.gen[s] \in Nat /\ k'.gen[s] \in Nat
        /\ k'.gen[s] > k.gen[s] \/ k'.gen[s] = k.gen[s]
    BY DEF Moves, Follows
  <1>4. k.gen[s] = handle_from_c(call[t].p).gen /\ s \in Settled BY <1>2, <1>3 DEF Means
  <1>5. k.st[s] \in States /\ k.st[s] # "free" BY <1>4 DEF IInv, Shape, KType, Settled
  <1>6. k.st[s] # "gone" BY <1>3, <1>4 DEF Moves, Alive
  <1> QED BY <1>4, <1>5, <1>6 DEF Named, Alive, States

(* Who asks can only go on to notify.                                      *)
LEMMA AskerNotifies ==
  ASSUME NEW t \in Slots, Acts(t), Asking(t) PROVE xTaskGenericNotify(t)
  <1>1. pc[t] = "mid" /\ call[t].op = "query" BY DEF Asking
  <1>2. ~TaskCall(t)
    BY <1>1
    DEF TaskCall, c_task_trampoline, Leave, xTaskCreate, ArmCreated, WriteHandle, Lookup,
        vTaskDelete, vTaskSuspend, vTaskResume, vTaskPrioritySet, xTaskAbortDelay, vTaskDelay,
        xTaskDelayUntil, vTaskSuspendAll, xTaskResumeAll, xTaskCatchUpTicks,
        vPortGenerateSimulatedInterrupt, idle, Calling, At
  <1>3. ~Enter(t, Objects) /\ ~timer_daemon(t) BY <1>1 DEF Enter, timer_daemon, At
  <1>4. ~GroupCall(t)
    BY <1>1
    DEF GroupCall, xEventGroupCreate, vEventGroupDelete, xEventGroupSetBits,
        xEventGroupClearBits, xEventGroupWaitBits, xEventGroupSync, Calling, Looping, At
  <1>5. ~BufferCall(t)
    BY <1>1
    DEF BufferCall, StreamCall, WireCall, LockCall, xStreamBufferGenericCreate, FlagCreated,
        vStreamBufferDelete, xStreamBufferSend, xStreamBufferReceive, Attempt, CountReceive,
        xStreamBufferReset, xSerialPortInitMinimal, xSerialPutChar, xSerialGetChar,
        vSerialPutString, xQueueGenericReset, xQueueSemaphoreTake, xQueueTakeMutexRecursive,
        xQueueGiveMutexRecursive, Calling, Looping, At
  <1>6. NotifyCall(t) => xTaskGenericNotify(t)
    BY <1>1
    DEF NotifyCall, Query, xTaskGenericNotifyWait, ulTaskGenericNotifyTake,
        xTaskGenericNotifyStateClear, ulTaskGenericNotifyValueClear, Calling, Looping, At
  <1> QED BY <1>2, <1>3, <1>4, <1>5, <1>6 DEF Acts

(* What a step of somebody else does to one that asks.                     *)
Heard(u) ==
  /\ prev'[u] = prev[u] /\ (u \in meddled => u \in meddled')
  /\ \A s \in Named(u, call[u].p) : nval'[s] = nval[s] \/ u \in meddled'
Functional == nval' = [s \in Slots |-> nval'[s]] /\ prev' = [s \in Slots |-> prev'[s]]

(* A notification meddles with whoever asks about the same task.           *)
LEMMA NotifyMeddles ==
  ASSUME Asked, NEW s \in Slots, NEW x, notify(s, x), prev' = prev
  PROVE  /\ Functional
         /\ \A u \in Slots : (Asking(u) /\ call[u].p # NULL) => Heard(u)
  <1>1. nval' = [nval EXCEPT ![s] = NewValue(s, x)] /\ meddled' = meddled \cup Disturbed({s})
    BY DEF notify
  <1>2. nval = [u \in Slots |-> nval[u]] /\ prev = [u \in Slots |-> prev[u]] BY DEF Asked
  <1> DEFINE n == NewValue(s, x)
  <1> HIDE DEF n
  <1>3. nval' = [nval EXCEPT ![s] = n] BY <1>1 DEF n
  <1>4. Functional BY <1>2, <1>3 DEF Functional
  <1>5. ASSUME NEW u \in Slots, Asking(u), call[u].p # NULL,
               NEW v \in Named(u, call[u].p), nval'[v] # nval[v]
        PROVE  u \in meddled'
    <2>1. v = s BY <1>2, <1>3, <1>5
    <2>2. u \in Disturbed({s}) BY <1>5, <2>1 DEF Disturbed, Asking
    <2> QED BY <1>1, <2>2
  <1> QED BY <1>1, <1>4, <1>5 DEF Heard

(* Somebody's own wait, take or clear meddles the same way.                *)
LEMMA ChangeMeddles ==
  ASSUME Asked, NEW who \in SUBSET Slots, prev' = prev,
         nval' = [s \in Slots |-> nval'[s]], \A s \in Slots \ who : nval'[s] = nval[s],
         meddled' = meddled \cup Disturbed(who)
  PROVE  /\ Functional
         /\ \A u \in Slots : (Asking(u) /\ call[u].p # NULL) => Heard(u)
  <1>1. Functional BY DEF Functional, Asked
  <1>2. ASSUME NEW u \in Slots, Asking(u), call[u].p # NULL,
               NEW v \in Named(u, call[u].p), nval'[v] # nval[v]
        PROVE  u \in meddled'
    <2>1. v \in Slots /\ v \in who BY <1>2 DEF Named
    <2>2. u \in Disturbed(who) BY <1>2, <2>1 DEF Disturbed, Asking
    <2> QED BY <2>2
  <1> QED BY <1>1, <1>2 DEF Heard

(* Nobody has asked about a task that is only just made.                   *)
LEMMA NewMeddles ==
  ASSUME Asked, NewUnnotified
  PROVE  /\ Functional
         /\ \A u \in Slots : (Asking(u) /\ call[u].p # NULL) => Heard(u)
  <1>1. prev' = prev /\ meddled' = meddled BY DEF NewUnnotified
  <1>2. nval' = [s \in Slots |-> nval'[s]] BY DEF NewUnnotified
  <1>3. ASSUME NEW u \in Slots, call[u].p # NULL, NEW v \in Named(u, call[u].p)
        PROVE  nval'[v] = nval[v]
    <2>1. v \in Slots /\ k.st[v] # "free" BY <1>3 DEF Named, Alive
    <2> QED BY <2>1 DEF NewUnnotified, NewTasks
  <1> QED BY <1>1, <1>2, <1>3 DEF Heard, Functional, Asked

(* The calls on notifications.                                             *)
LEMMA NotifyCallMeddles ==
  ASSUME IInv, Asked, NEW t \in Slots, NotifyCall(t)
  PROVE  /\ Functional
         /\ \A u \in Slots \ {t} : (Asking(u) /\ call[u].p # NULL) => Heard(u)
  <1>1. nval = [u \in Slots |-> nval[u]] /\ prev = [u \in Slots |-> prev[u]] BY DEF Asked
  <1>2. CASE Query(t)
    <2>1. nval' = nval /\ meddled' = meddled \ {t} BY <1>2 DEF Query
    <2>2. prev' = prev \/ \E n : prev' = [prev EXCEPT ![t] = n] BY <1>2 DEF Query
    <2>3. Functional BY <1>1, <2>1, <2>2 DEF Functional
    <2> QED BY <1>1, <2>1, <2>2, <2>3 DEF Heard
  <1>3. CASE xTaskGenericNotify(t)
    <2>1. CASE UNCHANGED notifyVars
      BY <1>1, <2>1 DEF notifyVars, Functional, Heard
    <2>2. CASE \E s \in Named(t, call[t].p) : notify(s, call[t].x) /\ UNCHANGED prev
      BY <2>2, NotifyMeddles DEF Named
    <2> QED BY <1>3, <2>1, <2>2 DEF xTaskGenericNotify
  <1>4. CASE xTaskGenericNotifyWait(t)
    <2>1. prev' = prev /\ meddled' = meddled \cup Disturbed({t}) BY <1>4 DEF xTaskGenericNotifyWait
    <2>2. \E n : nval' = [nval EXCEPT ![t] = n] BY <1>4 DEF xTaskGenericNotifyWait
    <2>3. nval' = [s \in Slots |-> nval'[s]] /\ \A s \in Slots \ {t} : nval'[s] = nval[s]
      BY <1>1, <2>2
    <2> QED BY <2>1, <2>3, ChangeMeddles
  <1>5. CASE ulTaskGenericNotifyTake(t)
    <2>1. prev' = prev /\ meddled' = meddled \cup Disturbed({t}) BY <1>5 DEF ulTaskGenericNotifyTake
    <2>2. nval' = nval \/ \E n : nval' = [nval EXCEPT ![t] = n]
      BY <1>5 DEF ulTaskGenericNotifyTake, xTaskNotifyTakes
    <2>3. nval' = [s \in Slots |-> nval'[s]] /\ \A s \in Slots \ {t} : nval'[s] = nval[s]
      BY <1>1, <2>2
    <2> QED BY <2>1, <2>3, ChangeMeddles
  <1>6. CASE xTaskGenericNotifyStateClear(t)
    BY <1>1, <1>6 DEF xTaskGenericNotifyStateClear, Functional, Heard
  <1>7. CASE ulTaskGenericNotifyValueClear(t)
    <2> DEFINE who == Named(t, call[t].p)
    <2>1. prev' = prev /\ meddled' = meddled \cup Disturbed(who)
      BY <1>7 DEF ulTaskGenericNotifyValueClear
    <2>2. who \in SUBSET Slots BY DEF Named
    <2>3. nval' = [s \in Slots |-> nval'[s]] /\ \A s \in Slots \ who : nval'[s] = nval[s]
      BY <1>7 DEF ulTaskGenericNotifyValueClear
    <2> QED BY <2>1, <2>2, <2>3, ChangeMeddles
  <1> QED BY <1>2, <1>3, <1>4, <1>5, <1>6, <1>7 DEF NotifyCall

(* Where nobody newly asks, and the others are heard, the answers are      *)
(* still right.                                                            *)
LEMMA AskedStays ==
  ASSUME IInv, Arguments, Asked, Moves, Functional,
         NEW u \in Slots, Asking(u), call'[u] = call[u], call[u].p # NULL, Heard(u)
  PROVE  \A s \in Named(u, call[u].p)' : prev'[u] = nval'[s] \/ u \in meddled'
  <1> SUFFICES ASSUME NEW s \in Named(u, call[u].p)'
               PROVE prev'[u] = nval'[s] \/ u \in meddled'
    OBVIOUS
  <1>1. /\ s \in Slots /\ Alive(k', s) /\ s = handle_from_c(call[u].p).slot
        /\ k'.gen[s] = handle_from_c(call[u].p).gen
    BY DEF Named
  <1>2. s \in Named(u, call[u].p) BY <1>1, NamedShrinks
  <1> QED BY <1>2 DEF Heard, Asked

(* What a query has just read is what there is.                            *)
LEMMA QueryAsks ==
  ASSUME IInv, Asked, NEW t \in Slots, Query(t), Asking(t)'
  PROVE  \A s \in Named(t, call[t].p)' : prev'[t] = nval'[s]
  <1>1. UNCHANGED <<k, nval, call>> BY StillAsks DEF Query
  <1> SUFFICES ASSUME NEW s \in Named(t, call[t].p)' PROVE prev'[t] = nval'[s] OBVIOUS
  <1>2. s \in Named(t, call[t].p) BY <1>1 DEF Named, Alive
  <1>3. PICK v \in Named(t, call[t].p) : prev' = [prev EXCEPT ![t] = nval[v]]
    BY <1>2, StillAsks DEF ValueBefore
  <1>4. v = s BY <1>2 DEF Named
  <1>5. prev'[t] = nval[s] BY <1>3, <1>4 DEF Asked
  <1> QED BY <1>1, <1>5

(* A step that moves nobody on.                                            *)
LEMMA AskedStill ==
  ASSUME IInv, Arguments, Asked, Moves, Functional,
         \A u \in Slots : pc'[u] = pc[u] /\ call'[u] = call[u],
         \A u \in Slots : (Asking(u) /\ call[u].p # NULL) => Heard(u)
  PROVE  Asked'
  <1>1. ASSUME NEW u \in Slots, Asking(u)', call'[u].p # NULL
        PROVE  \A s \in Named(u, call[u].p)' : prev'[u] = nval'[s] \/ u \in meddled'
    <2>1. Asking(u) /\ call[u].p # NULL /\ call'[u] = call[u] BY <1>1 DEF Asking
    <2>2. Heard(u) BY <2>1
    <2> QED BY <2>1, <2>2, AskedStays
  <1> QED BY <1>1 DEF Asked, Functional

(* A step of one of the tasks.                                             *)
LEMMA AskedActs ==
  ASSUME IInv, Faithful, Arguments, Asked, NEW t \in Slots, Acts(t),
         IF NotifyCall(t) THEN TRUE ELSE NewUnnotified \/ UNCHANGED notifyVars
  PROVE  Asked'
  <1>1. Moves /\ Others(t) BY ActsMove
  <1>2. /\ Functional
        /\ \A u \in Slots \ {t} : (Asking(u) /\ call[u].p # NULL) => Heard(u)
    <2>1. CASE NotifyCall(t) BY <2>1, NotifyCallMeddles
    <2>2. CASE NewUnnotified BY <2>2, NewMeddles
    <2>3. CASE UNCHANGED notifyVars BY <2>3 DEF notifyVars, Functional, Heard, Asked
    <2> QED BY <2>1, <2>2, <2>3
  <1>3. ASSUME NEW u \in Slots, Asking(u)', call'[u].p # NULL
        PROVE  \A s \in Named(u, call[u].p)' : prev'[u] = nval'[s] \/ u \in meddled'
    <2>1. CASE u # t
      <3>1. Asking(u) /\ call[u].p # NULL /\ call'[u] = call[u]
        BY <1>1, <1>3, <2>1 DEF Others, Asking
      <3>2. Heard(u) BY <1>2, <2>1, <3>1
      <3> QED BY <1>1, <1>2, <3>1, <3>2, AskedStays
    <2>2. CASE u = t
      <3>1. Query(t) BY <1>3, <2>2, WhoCalls
      <3>2. call' = call BY <1>3, <2>2, <3>1, StillAsks
      <3> QED BY <1>3, <2>2, <3>1, <3>2, QueryAsks
    <2> QED BY <2>1, <2>2
  <1> QED BY <1>2, <1>3 DEF Asked, Functional

(* Every step keeps the answers right.                                     *)
LEMMA AskedKept == IInv /\ Faithful /\ Arguments /\ Asked /\ [Next]_vars => Asked'
  <1> SUFFICES ASSUME IInv, Faithful, Arguments, Asked, [Next]_vars PROVE Asked' OBVIOUS
  <1>1. ASSUME NEW t \in Slots, NotifyCall(t) PROVE Asked' BY <1>1, AskedActs DEF Acts
  <1>2. ASSUME NEW t \in Slots, TaskCall(t) \/ Enter(t, Objects), NewUnnotified PROVE Asked'
    BY <1>2, AskedActs DEF Acts
  <1>3. ASSUME NEW t \in Slots, GroupCall(t) \/ timer_daemon(t) \/ BufferCall(t),
               UNCHANGED notifyVars
        PROVE  Asked'
    BY <1>3, AskedActs DEF Acts
  <1>4. CASE main /\ NewUnnotified
    <2>1. Faithful' BY <1>4, MainMeans
    <2>2. \A u \in Slots : pc'[u] \in Unstarted
      <3>1. phase # "run" /\ (phase' # "run" \/ pc' = pc)
        BY <1>4 DEF main, CreateMonitor, ArmMonitor, StartDemo, start_scheduler, ArmBoth,
                    start_first_task, AllArmed
      <3> QED BY <2>1, <3>1 DEF Faithful
    <2>3. Functional BY <1>4, NewMeddles
    <2> QED BY <2>2, <2>3 DEF Asked, Functional, Asking, Unstarted
  <1>5. ASSUME Ticks,
               Functional /\ \A u \in Slots : (Asking(u) /\ call[u].p # NULL) => Heard(u)
        PROVE  Asked'
    <2>1. pc' = pc /\ call' = call BY <1>5, TicksFrame
    <2> QED BY <1>5, <2>1, TickMeans, AskedStill
  <1>6. CASE (pick_next \/ SysTick({})) /\ NewUnnotified
    <2>1. CASE pick_next
      <3>1. pc' = pc /\ call' = call BY <2>1 DEF pick_next
      <3> QED BY <1>6, <2>1, <3>1, SwitchMeans, NewMeddles, AskedStill
    <2>2. CASE SysTick({}) BY <1>5, <1>6, <2>2, HalvesTick, NewMeddles
    <2> QED BY <1>6, <2>1, <2>2
  <1>7. CASE NotifyIsr
    <2>1. Ticks BY <1>7, HalvesTick
    <2>2. PICK c : NotifyFromISR(c)
      BY <1>7 DEF NotifyIsr, xTaskGenericNotifyFromISR, vTaskGenericNotifyGiveFromISR
    <2>3. PICK s \in Named(None, handle[c.whom]) : notify(s, c.x) /\ UNCHANGED prev
      BY <2>2 DEF NotifyFromISR
    <2>4. s \in Slots BY <2>2, <2>3 DEF NotifyFromISR, Named
    <2> QED BY <1>5, <2>1, <2>3, <2>4, NotifyMeddles
  <1>8. CASE (GroupIsr \/ BuffersIsr) /\ UNCHANGED notifyVars
    <2>1. Ticks BY <1>8, HalvesTick
    <2>2. Functional /\ \A u \in Slots : Heard(u)
      BY <1>8 DEF notifyVars, Functional, Heard, Asked
    <2> QED BY <1>5, <2>1, <2>2
  <1>9. CASE UNCHANGED vars
    BY <1>9 DEF vars, taskVars, notifyVars, Asked, Asking, Named, Alive
  <1> QED
    BY <1>1, <1>2, <1>3, <1>4, <1>6, <1>7, <1>8, <1>9
    DEF Next, Tasks, Notifies, Groups, Buffers, notifyVars

(* The answers are right from the start.                                   *)
THEOREM AskedRight == Spec => []Asked
  <1>1. Init => Asked
    <2>1. ASSUME TaskInit, NotifyInit PROVE Asked
      <3>1. \A t \in Slots : pc[t] = "off" BY <2>1 DEF TaskInit
      <3>2. nval = [s \in Slots |-> nval[s]] /\ prev = [s \in Slots |-> prev[s]]
        BY <2>1 DEF NotifyInit
      <3> QED BY <3>1, <3>2 DEF Asked, Asking
    <2> QED BY <2>1 DEF Init
  <1> QED BY <1>1, AskedKept, Invariant, HandlesFaithful, ArgumentsNameTheirTasks, PTL DEF Spec

(* QueryTellsTheReplaced: at the notification of xTaskNotifyAndQuery, the  *)
(* value it answers is the one the notification replaces, unless between   *)
(* its two kernel calls an interrupt or another task changed that value:   *)
(* whoever is created, deleted or preempted in between.                    *)
THEOREM QueriesTellTheReplaced == Spec => QueryTellsTheReplaced
  <1> DEFINE Told1 ==
        \A t \in Slots : \A s \in Slots :
          (/\ call[t] # NoCall /\ call[t].op = "query"
           /\ pc[t] = "mid" /\ pc'[t] = "yield" /\ s \in Named(t, call[t].p))
            => prev[t] = nval[s] \/ t \in meddled
  <1>1. IInv /\ Faithful /\ Arguments /\ Asked /\ [Next]_vars
          => [Told1]_<<taskVars, notifyVars>>
    <2> SUFFICES ASSUME IInv, Faithful, Arguments, Asked, [Next]_vars,
                        NEW t \in Slots, NEW s \in Slots, call[t].op = "query",
                        pc[t] = "mid", pc'[t] = "yield", s \in Named(t, call[t].p)
                 PROVE  prev[t] = nval[s] \/ t \in meddled
      OBVIOUS
    <2>1. Asking(t) BY DEF Asking
    <2>2. CASE call[t].p # NULL BY <2>1, <2>2 DEF Asked
    <2>3. CASE call[t].p = NULL
      <3>1. \E u \in Slots : Acts(u) /\ (u = t \/ Others(u))
        <4>1. ASSUME NEW u \in Slots, Acts(u) PROVE Acts(u) /\ (u = t \/ Others(u))
          BY <4>1, ActsMove
        <4>2. ~main
          <5>1. main => phase # "run"
            BY DEF main, CreateMonitor, ArmMonitor, StartDemo, start_scheduler, ArmBoth,
                   start_first_task, AllArmed
          <5> QED BY <5>1 DEF Faithful, Unstarted
        <4>3. pc' # pc OBVIOUS
        <4>4. ~pick_next /\ ~Ticks /\ ~UNCHANGED vars
          BY <4>3, TicksFrame DEF pick_next, vars, taskVars
        <4>5. ~SysTick({}) /\ ~NotifyIsr /\ ~GroupIsr /\ ~BuffersIsr BY <4>4, HalvesTick
        <4> QED
          BY <4>1, <4>2, <4>4, <4>5 DEF Next, Tasks, Notifies, Groups, Buffers, Acts
      <3>2. Acts(t) BY <3>1 DEF Others
      <3>3. xTaskGenericNotify(t) BY <2>1, <3>2, AskerNotifies
      <3>4. Goto(t, "c") BY <2>3, <3>3 DEF xTaskGenericNotify
      <3>5. pc'[t] = "c" BY <3>4 DEF Goto, IInv, Shape
      <3> QED BY <3>5
    <2> QED BY <2>2, <2>3
  <1>2. (\A t \in Slots : \A s \in Slots :
          (/\ call[t] # NoCall /\ call[t].op = "query"
           /\ pc[t] = "mid" /\ pc'[t] = "yield" /\ s \in Named(t, call[t].p))
            => prev[t] = nval[s] \/ t \in meddled) <=> Told1
    BY DEF Told1
  <1> QED
    BY <1>1, AskedRight, Invariant, HandlesFaithful, ArgumentsNameTheirTasks, PTL
    DEF Spec, QueryTellsTheReplaced
=============================================================================
