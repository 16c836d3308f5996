------------------------------- MODULE Turns -------------------------------
(***************************************************************************)
(* Two cores on one run permit: module turns of the hosted cell.           *)
(*                                                                         *)
(* The host port runs one task thread at a time.  With the feature smp the *)
(* cell makes two cores of that by giving the permit to each core in turn: *)
(* at the return of every outermost kernel call, at every tick and at      *)
(* every slice.  The kernel underneath runs its two-core paths, a current  *)
(* task per core and requests from one core to the other to reschedule,    *)
(* and a request to the core that has not the permit must wait, banked in  *)
(* OWED, until the turn comes round.                                       *)
(*                                                                         *)
(* The kernel is a record and its operations are operators on it; they     *)
(* and the port are modelled from how the cell uses them.                  *)
(***************************************************************************)
EXTENDS Naturals

CONSTANTS
  Tasks,  \* every task of the kernel, the two idle tasks among them
  Idle,   \* the idle tasks: always ready
  Prio    \* each task's priority

Cores == {0, 1}
Other(c) == 1 - c

ASSUME TurnsAssumption ==
  /\ Idle \subseteq Tasks
  /\ \E i, j \in Idle : i # j
  /\ Prio \in [Tasks -> Nat]
  /\ \A i \in Idle, t \in Tasks : Prio[i] <= Prio[t]

VARIABLES
  k,      \* the kernel
  core,   \* the core the permit stands for: what portGET_CORE_ID() answers
  thread, \* the task whose thread holds the permit
  OWED,   \* cores owed a switch that they have not taken
  PASS,   \* a task's outermost kernel call has returned
  depth,  \* the C's critical section: it masks the tick and defers a switch
  pend,   \* a switch deferred until that section is left
  pc,     \* per task: where its thread is
  leaves  \* per task: the call under way ends in yield_now

cell == <<core, thread, OWED, PASS>>
vars == <<k, cell, depth, pend, pc, leaves>>

PCs == {"c", "after", "pass", "yield"}

-----------------------------------------------------------------------------
(* The kernel.                                                             *)
(*   cur      pxCurrentTCBs                                                *)
(*   ready    the ready tasks, those running included                      *)
(*   asked    cores whose task is marked as asked to yield: a marked core  *)
(*            is not asked again before it has switched                    *)
(*   yields   requests to other cores, for take_core_yields                *)
(*   lock     vTaskSuspendAll is in force                                  *)
(*   pending  tasks an interrupt woke while it was                         *)
(*   repend   cores whose switch the suspended scheduler declined          *)

Kernels ==
  [cur : [Cores -> Tasks], ready : SUBSET Tasks, asked : SUBSET Cores,
   yields : SUBSET Cores, lock : BOOLEAN, pending : SUBSET Tasks,
   repend : SUBSET Cores]

Free(kk) == (kk.ready \cup kk.pending) \ {kk.cur[0], kk.cur[1]}

(* Code that runs on core here has made tasks ready, or a tick has ended   *)
(* the slices: the kernel asks some of the cores not asked yet whose task  *)
(* a free one may replace.  Which of them is the kernel's affair.  Requests *)
(* to other cores are left for take_core_yields, one to its own core is    *)
(* the caller's to deal with.                                              *)
MayAsk(kk) ==
  {c \in Cores \ kk.asked : \E u \in Free(kk) : Prio[u] >= Prio[kk.cur[c]]}
Asks(kk, here) ==
  {[kk EXCEPT !.asked = @ \cup a, !.yields = @ \cup (a \ {here})] :
     a \in SUBSET MayAsk(kk)}

Asleep(kk) == Tasks \ (kk.ready \cup kk.pending)

Wake(kk, us, here) == Asks([kk EXCEPT !.ready = @ \cup us], here)

(* The interrupt-side wake: under a suspended scheduler the task only goes *)
(* to the pending list.                                                    *)
WakeFromIsr(kk, us) ==
  IF kk.lock THEN Asks([kk EXCEPT !.pending = @ \cup us], 0) ELSE Wake(kk, us, 0)

Block(kk, t) == [kk EXCEPT !.ready = @ \ {t}]

suspend_all(kk) == [kk EXCEPT !.lock = TRUE]

(* resume_all moves the pending tasks to the ready list.                   *)
resume_all(kk, here) ==
  Wake([kk EXCEPT !.lock = FALSE, !.pending = {}], kk.pending, here)

(* increment_tick: time is up for the tasks of due and for the slices.     *)
(* Under a suspended scheduler the tick is only counted.                   *)
increment_tick(kk, due) == IF kk.lock THEN {kk} ELSE Wake(kk, due, 0)

(* vTaskSwitchContext on core c: a ready task of the highest priority that *)
(* the other core does not hold, a peer rather than the task running now.  *)
(* A suspended scheduler declines and leaves the mark.                     *)
BestOfAll(kk, c) == {t \in kk.ready : \A u \in kk.ready : Prio[u] <= Prio[t]}
Best(kk, c) ==
  LET may == kk.ready \ {kk.cur[Other(c)]}
  IN  {t \in may : \A u \in may : Prio[u] <= Prio[t]}
Nexts(kk, c) ==
  IF Best(kk, c) \ {kk.cur[c]} = {} THEN Best(kk, c) ELSE Best(kk, c) \ {kk.cur[c]}

switch_context(kk, c) ==
  IF kk.lock THEN {[kk EXCEPT !.repend = @ \cup {c}]}
  ELSE {[kk EXCEPT !.cur[c] = t, !.asked = @ \ {c}, !.repend = @ \ {c}] :
          t \in Nexts(kk, c)}

-----------------------------------------------------------------------------
(* The scheduler of the cell.                                              *)

(* collect banks what the kernel has asked of other cores.                 *)
Banked(kk) == OWED \cup kk.yields
Collected(kk) == [kk EXCEPT !.yields = {}]

(* The thread granted the permit is that of the kernel's current task on   *)
(* the core that has the turn.                                             *)
Grant == thread' = k'.cur[core']

(* The task lock: while the scheduler is suspended the turn stays.         *)
NeverHeld(kk) == FALSE
TurnHeld(kk) == kk.lock

(* The turn stays with this core.                                          *)
KeepTurn(kk, owed, here) ==
  /\ core' = here
  /\ OWED' = owed
  /\ k' = kk

(* The core that holds the permit switches, and owes nothing any more.     *)
SwitchHere(kk, owed, here) ==
  /\ core' = here
  /\ OWED' = owed \ {here}
  /\ k' \in switch_context(kk, here)

(* The permit passes, and the other core first takes what it is owed.      *)
PassOnly(kk, owed, here) == KeepTurn(kk, owed, Other(here))
SwitchOnly(kk, owed, here) == SwitchHere(kk, owed, here)
PassTurn(kk, owed, here) ==
  IF Other(here) \in owed THEN SwitchHere(kk, owed, Other(here))
                          ELSE KeepTurn(kk, owed, Other(here))

(* PASS.swap(false): whoever picks takes the flag.                         *)
LeavePass(in_isr) == PASS' = (in_isr /\ PASS)
TakePass(in_isr) == PASS' = FALSE

(* pick, called by the port with the critical section held: from a tick or *)
(* a slice (in_isr), from after_call (passing), or for a plain yield.  here *)
(* is the core the permit stands for.                                      *)
pick(kk, owed, here, in_isr, passing) ==
  /\ \/ /\ ~in_isr /\ ~passing
        /\ SwitchHere(kk, owed, here)
     \/ /\ in_isr \/ passing
        /\ TurnHeld(kk)
        /\ KeepTurn(kk, owed, here)
     \/ /\ in_isr /\ here \in owed
        /\ ~TurnHeld(kk)
        /\ SwitchHere(kk, owed, here)
     \/ /\ IF in_isr THEN here \notin owed ELSE passing
        /\ ~TurnHeld(kk)
        /\ PassTurn(kk, owed, here)
  /\ TakePass(in_isr)
  /\ Grant

(* The pick of a task that yields.                                         *)
PickFromTask == pick(Collected(k), Banked(k), core, FALSE, PASS)

-----------------------------------------------------------------------------
(* The tasks.                                                              *)

Runs(t) == thread = t

(* with_kernel: the operation, then collect, then the port leaves the      *)
(* section and takes a switch the kernel asked of this core, unless the C  *)
(* holds a critical section around it all.                                 *)
WithKernel(t, kk) ==
  LET asksHere == core \in kk.asked \ k.asked
  IN  /\ IF asksHere /\ depth = 0
           THEN pick(Collected(kk), Banked(kk), core, FALSE, PASS)
           ELSE /\ k' = Collected(kk)
                /\ OWED' = Banked(kk)
                /\ UNCHANGED <<core, thread, PASS>>
      /\ pend' = (pend \/ (asksHere /\ depth > 0))

(* What a task asks of the kernel: to wake another, to wait, to suspend or *)
(* resume the scheduler.  FreeRTOS forbids waiting with it suspended, and  *)
(* in a critical section waiting and touching the scheduler both.          *)
KernelCall(t, ends) ==
  /\ pc' = [pc EXCEPT ![t] = "after"]
  /\ leaves' = [leaves EXCEPT ![t] = ends]
  /\ UNCHANGED depth

WakeCall(t) ==
  /\ Runs(t) /\ pc[t] = "c" /\ t \notin Idle
  /\ \E u \in Asleep(k) : \E kk \in Wake(k, {u}, core) : WithKernel(t, kk)
  /\ KernelCall(t, FALSE)

WaitCall(t) ==
  /\ Runs(t) /\ pc[t] = "c" /\ t \notin Idle /\ ~k.lock /\ depth = 0
  /\ WithKernel(t, Block(k, t))
  /\ KernelCall(t, TRUE)

SuspendAll(t) ==
  /\ Runs(t) /\ pc[t] = "c" /\ t \notin Idle /\ ~k.lock /\ depth = 0
  /\ WithKernel(t, suspend_all(k))
  /\ KernelCall(t, FALSE)

ResumeAll(t) ==
  /\ Runs(t) /\ pc[t] = "c" /\ k.lock /\ depth = 0
  /\ \E kk \in resume_all(k, core) : WithKernel(t, kk)
  /\ KernelCall(t, core \in k.repend)

(* The idle task asks the kernel for tasks to reclaim and yields.          *)
IdleCall(t) ==
  /\ Runs(t) /\ pc[t] = "c" /\ t \in Idle
  /\ WithKernel(t, k)
  /\ KernelCall(t, TRUE)

Then(t) == IF leaves[t] THEN "yield" ELSE "c"

(* after_call: a turn is one outermost kernel call.  Inside a critical     *)
(* section there is nothing to do.                                         *)
after_call(t) ==
  /\ Runs(t) /\ pc[t] = "after"
  /\ IF depth > 0
       THEN pc' = [pc EXCEPT ![t] = Then(t)] /\ UNCHANGED PASS
       ELSE pc' = [pc EXCEPT ![t] = "pass"] /\ PASS' = TRUE
  /\ UNCHANGED <<k, core, thread, OWED, depth, pend, leaves>>

(* The yield_now of after_call.                                            *)
PassAtCall(t) ==
  /\ Runs(t) /\ pc[t] = "pass"
  /\ PickFromTask
  /\ pc' = [pc EXCEPT ![t] = Then(t)]
  /\ UNCHANGED <<depth, pend, leaves>>

(* The yield_now with which the seam ends a call that parked its task.     *)
yield_now(t) ==
  /\ Runs(t) /\ pc[t] = "yield"
  /\ IF depth > 0
       THEN pend' = TRUE /\ UNCHANGED <<k, cell>>
       ELSE PickFromTask /\ UNCHANGED pend
  /\ pc' = [pc EXCEPT ![t] = "c"]
  /\ leaves' = [leaves EXCEPT ![t] = FALSE]
  /\ UNCHANGED depth

EnterCritical(t) ==
  /\ Runs(t) /\ pc[t] = "c" /\ depth = 0 /\ t \notin Idle
  /\ depth' = 1
  /\ UNCHANGED <<k, cell, pend, pc, leaves>>

(* Both are kernel calls.  The one that leaves the section returns outside *)
(* of it, and so goes on to after_call.                                    *)
ExitCritical(t) ==
  /\ Runs(t) /\ pc[t] = "c" /\ depth = 1
  /\ depth' = 0
  /\ pend' = FALSE
  /\ IF pend THEN PickFromTask
             ELSE UNCHANGED <<k, cell>>
  /\ pc' = [pc EXCEPT ![t] = "after"]
  /\ leaves' = [leaves EXCEPT ![t] = FALSE]

-----------------------------------------------------------------------------
(* The interrupts.                                                         *)

(* tick_begin makes the tick core 0's, and tick_end puts the interrupted   *)
(* core back: pick must find the core whose task the tick froze.           *)
LeftAsCoreZero(running_as) == 0
PutBack(running_as) == running_as

(* tick_end banks core 0's switch, whether increment_tick asked for it or  *)
(* an interrupt half did.                                                  *)
BankedOnly(kk, core0_switch) == Banked(kk)
BankedByTick(kk, core0_switch) ==
  Banked(kk) \cup (IF core0_switch THEN {0} ELSE {})

(* on_tick: the kernel's tick as core 0, at most one interrupt half that   *)
(* wakes a task, the banking, and the port's pick.                         *)
Halves(kk) == UNION {WakeFromIsr(kk, {u}) : u \in Asleep(kk)}

on_tick ==
  /\ depth = 0
  /\ \E due \in SUBSET Asleep(k) : \E ticked \in increment_tick(k, due) :
       \E kk \in {ticked} \cup Halves(ticked) :
         LET woke == 0 \in kk.asked \ k.asked
         IN  pick(Collected(kk), BankedByTick(kk, woke), PutBack(core), TRUE, PASS)
  /\ UNCHANGED <<depth, pend, pc, leaves>>

(* The slice: the same interrupt with no tick in it.                       *)
slice ==
  /\ depth = 0
  /\ pick(Collected(k), Banked(k), core, TRUE, PASS)
  /\ UNCHANGED <<depth, pend, pc, leaves>>

-----------------------------------------------------------------------------
(* turns::first: each core's first task, core 1 before core 0.             *)
first(kk) == UNION {switch_context(q, 0) : q \in switch_context(kk, 1)}

Init ==
  /\ \E f \in [Cores -> Idle] :
       /\ f[0] # f[1]
       /\ k \in first([cur |-> f, ready |-> Tasks, asked |-> {}, yields |-> {},
                       lock |-> FALSE, pending |-> {}, repend |-> {}])
  /\ core = 0
  /\ thread = k.cur[0]
  /\ OWED = {} /\ PASS = FALSE
  /\ depth = 0 /\ pend = FALSE
  /\ pc = [t \in Tasks |-> "c"]
  /\ leaves = [t \in Tasks |-> FALSE]

TaskStep(t) ==
  \/ WakeCall(t) \/ WaitCall(t) \/ SuspendAll(t) \/ ResumeAll(t) \/ IdleCall(t)
  \/ after_call(t) \/ PassAtCall(t) \/ yield_now(t)
  \/ EnterCritical(t) \/ ExitCritical(t)

Next == (\E t \in Tasks : TaskStep(t)) \/ on_tick \/ slice

Spec == Init /\ [][Next]_vars

(* A thread that gets the permit again and again gets on with its call,    *)
(* ticks or not; whoever suspended the scheduler resumes it and whoever    *)
(* entered a critical section leaves it, as FreeRTOS demands; a slice held *)
(* off by a critical section stays pending in the port, so it comes though *)
(* sections keep being entered.                                            *)
CallStep(t) == after_call(t) \/ PassAtCall(t) \/ yield_now(t)

Fairness ==
  /\ SF_vars(slice)
  /\ \A c \in Cores : SF_vars(core = c /\ \E t \in Tasks : CallStep(t))
  /\ SF_vars(\E t \in Tasks : ResumeAll(t))
  /\ SF_vars(\E t \in Tasks : ExitCritical(t))

FairSpec == Spec /\ Fairness

-----------------------------------------------------------------------------
(* Properties.                                                             *)

(* The type invariant.  The two cores never run one task between them, and *)
(* the thread with the permit is that of the current task of the core the  *)
(* permit stands for (check_identity).                                     *)
TypeOK ==
  /\ k \in Kernels
  /\ k.cur[0] # k.cur[1]
  /\ core \in Cores
  /\ thread = k.cur[core]
  /\ OWED \subseteq Cores
  /\ PASS \in BOOLEAN
  /\ depth \in {0, 1}
  /\ pend \in BOOLEAN
  /\ pc \in [Tasks -> PCs]
  /\ leaves \in [Tasks -> BOOLEAN]

(* PASS is a message from after_call to the pick of the yield after it.    *)
(* It is set between the two only: no tick in between leaves it for a pick *)
(* that was to be a plain yield, which would pass the turn in its place.   *)
PassIsFresh == PASS => pc[thread] = "pass"

(* A core the kernel has asked to switch, and so will not ask again, has   *)
(* the request on record somewhere it is bound to be read: in OWED, in the *)
(* kernel's own answer to take_core_yields, deferred behind the critical   *)
(* section that runs on that core, or declined by a suspended scheduler    *)
(* whose resume is still to come or has told its caller to yield.          *)
OnRecord(c) ==
  \/ c \in OWED \cup k.yields
  \/ pend /\ core = c /\ depth = 1
  \/ c \in k.repend /\ (k.lock \/ leaves[k.cur[c]])

NoSwitchLost == \A c \in k.asked : OnRecord(c)

(* When the turn reaches a core it runs what it ought to: a switch owed to *)
(* it has been made, not left for a turn later.  The one request left open *)
(* is one the thread that runs there now is about to yield to itself, its  *)
(* xTaskResumeAll having been told so.                                     *)
OwedTakenOnTurn ==
  [][core' # core =>
       /\ core' \notin OWED'
       /\ core' \in k'.asked => core' \in k'.repend /\ leaves'[thread']]_vars

(* The task lock: between vTaskSuspendAll and xTaskResumeAll nothing but   *)
(* the task that suspended the scheduler runs, on either core.             *)
LockKeepsTheThread == [][k.lock /\ k'.lock => thread' = thread]_vars

(* Both cores get the turn again and again.                                *)
TurnsComeRound == \A c \in Cores : []<>(core = c)

(* A core asked to switch does, sooner or later.                           *)
AskedIsTaken == \A c \in Cores : (c \in k.asked) ~> (c \notin k.asked)
=============================================================================
