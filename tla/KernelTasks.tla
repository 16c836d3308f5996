---------------------------- MODULE KernelTasks ----------------------------
(***************************************************************************)
(* The task half of the kernel, as operators on a record, modelled from    *)
(* how the seam and the two cells use it.  Every operator is one kernel    *)
(* call, which the seam makes with interrupts masked.                      *)
(*                                                                         *)
(*   st       a slot is free, or its task is ready (running included),     *)
(*            blocked, suspended, or gone: deleted by itself and not yet   *)
(*            collected                                                    *)
(*   gen      the generation of the slot, part of every handle to it       *)
(*   prio     the priority                                                 *)
(*   left     ticks left of the block time of a wait under way             *)
(*   since    ticks counted since a caller last read the tick count, if it *)
(*            is going to compare                                          *)
(*   cur      the task the kernel believes is running                      *)
(*   lock     vTaskSuspendAll is in force                                  *)
(*   late     tasks an interrupt woke meanwhile                            *)
(*   missed   ticks counted meanwhile                                      *)
(*   declined a switch was asked for meanwhile, or while none could be     *)
(*            made                                                         *)
(***************************************************************************)
EXTENDS Naturals, FiniteSets

CONSTANTS
  TASKS,    \* slots in the task table
  MaxPrio,  \* CapiConfig::MAX_PRIORITIES - 1
  MaxWait,  \* longest finite block time in the model
  MaxGen,   \* bound: generations of a slot
  MaxMissed \* bound: ticks remembered of a suspended scheduler

ASSUME KernelAssumption ==
  /\ TASKS \in Nat \ {0} /\ MaxPrio \in Nat /\ MaxWait \in Nat \ {0}
  /\ MaxGen \in Nat \ {0} /\ MaxMissed \in Nat

Slots == 0 .. TASKS - 1
None == TASKS \* no slot

(* portMAX_DELAY, or any longer time; and "no wait under way".             *)
Forever == MaxWait + 1
NoWait == MaxWait + 2

States == {"free", "ready", "blocked", "suspended", "gone"}

Kernels ==
  [st : [Slots -> States], gen : [Slots -> 1 .. MaxGen + 1],
   prio : [Slots -> 0 .. MaxPrio], left : [Slots -> 0 .. NoWait], since : [Slots -> 0 .. NoWait],
   cur : Slots, lock : BOOLEAN, late : SUBSET Slots, missed : 0 .. MaxMissed,
   declined : BOOLEAN]

Ready(kk) == {t \in Slots : kk.st[t] = "ready"}
Alive(kk, t) == kk.st[t] \in {"ready", "blocked", "suspended"}
Outranks(kk, t) == kk.prio[t] > kk.prio[kk.cur]

(* task_count: what is gone counts until it is collected.                  *)
Used(kk) == {t \in Slots : kk.st[t] # "free"}

(* vTaskSwitchContext: a ready task of the highest priority, a peer rather *)
(* than the running one.  A suspended scheduler declines.                  *)
Best(kk) == {t \in Ready(kk) : \A u \in Ready(kk) : kk.prio[u] <= kk.prio[t]}
switch_context(kk) ==
  IF kk.lock THEN {[kk EXCEPT !.declined = TRUE]}
  ELSE {[kk EXCEPT !.cur = t, !.declined = FALSE] :
          t \in IF Best(kk) \subseteq {kk.cur} THEN Best(kk) ELSE Best(kk) \ {kk.cur}}

Wake(kk, who) ==
  [kk EXCEPT !.st = [t \in Slots |-> IF t \in who THEN "ready" ELSE kk.st[t]]]
Block(kk, t, n) ==
  [kk EXCEPT !.st[t] = "blocked", !.left[t] = IF n > MaxWait THEN Forever ELSE n]

(* An interrupt wakes a task: under a suspended scheduler it only goes to  *)
(* the pending list.                                                       *)
WakeFromIsr(kk, who) ==
  IF kk.lock THEN [kk EXCEPT !.late = @ \cup who] ELSE Wake(kk, who)

(* create_task takes a free slot, and is refused when there is none.  A    *)
(* priority above the highest is the highest.                              *)
Unclamped(p) == p
Clamp(p) == IF p > MaxPrio THEN MaxPrio ELSE p
FreeSlots(kk) == {t \in Slots : kk.st[t] = "free" /\ kk.gen[t] <= MaxGen}
create_task(kk, t, p) == [kk EXCEPT !.st[t] = "ready", !.prio[t] = Clamp(p), !.left[t] = NoWait]

(* A slot given back is of the next generation: handles to it are stale.   *)
Freed(kk, t) == [kk EXCEPT !.st[t] = "free", !.gen[t] = @ + 1, !.late = @ \ {t}]
task_delete(kk, t) ==
  IF t = kk.cur THEN [kk EXCEPT !.st[t] = "gone", !.late = @ \ {t}] ELSE Freed(kk, t)

(* The idle task's other job.                                              *)
check_tasks_waiting_termination(kk) ==
  [kk EXCEPT !.st = [t \in Slots |-> IF kk.st[t] = "gone" THEN "free" ELSE kk.st[t]],
             !.gen = [t \in Slots |-> IF kk.st[t] = "gone" THEN kk.gen[t] + 1
                                                           ELSE kk.gen[t]]]

suspend(kk, t) == [kk EXCEPT !.st[t] = "suspended", !.late = @ \ {t}]
resume(kk, t) == IF kk.st[t] = "suspended" THEN Wake(kk, {t}) ELSE kk
set_priority(kk, t, p) == [kk EXCEPT !.prio[t] = Clamp(p)]

(* abort_delay ends a wait as if its time were up.                         *)
Abortable(kk, t) == kk.st[t] = "blocked"
abort_delay(kk, t) == [Wake(kk, {t}) EXCEPT !.left[t] = 0]

(* increment_tick, and whether it asks for a switch: a task whose time is  *)
(* up outranks the running one, a peer of that one is ready, or a switch   *)
(* was declined before.  It does not look for what an earlier wake-up left *)
(* waiting.                                                                *)
Expiring(kk, n) ==
  {t \in Slots : kk.st[t] = "blocked" /\ kk.left[t] \in 1 .. n /\ kk.left[t] <= MaxWait}
Advance(kk, n) ==
  [Wake(kk, Expiring(kk, n)) EXCEPT
     !.left = [t \in Slots |-> IF kk.left[t] > MaxWait THEN kk.left[t]
                               ELSE IF kk.left[t] > n THEN kk.left[t] - n ELSE 0],
     !.since = [t \in Slots |-> IF kk.since[t] = NoWait THEN NoWait
                                ELSE IF kk.since[t] + n > Forever THEN Forever
                                ELSE kk.since[t] + n]]
increment_tick(kk) ==
  IF kk.lock THEN [kk EXCEPT !.missed = IF @ < MaxMissed THEN @ + 1 ELSE @] ELSE Advance(kk, 1)
Peers(kk) == {t \in Ready(kk) \ {kk.cur} : kk.prio[t] = kk.prio[kk.cur]}
AsksSwitch(kk) ==
  /\ ~kk.lock
  /\ \/ kk.declined
     \/ \E t \in Expiring(kk, 1) : Outranks(kk, t)
     \/ Peers(Advance(kk, 1)) # {}

(* resume_all moves the pending tasks over and makes up for the ticks, and *)
(* asks for a switch on account of those, or of a switch declined.         *)
suspend_all(kk) == [kk EXCEPT !.lock = TRUE]
resume_all(kk) ==
  [Advance(Wake(kk, kk.late), kk.missed) EXCEPT !.lock = FALSE, !.late = {}, !.missed = 0]
ResumeAsks(kk) ==
  kk.declined \/ \E t \in kk.late \cup Expiring(kk, kk.missed) : Outranks(kk, t)
=============================================================================
