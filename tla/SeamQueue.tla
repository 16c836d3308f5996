----------------------------- MODULE SeamQueue -----------------------------
(***************************************************************************)
(* The blocking queue calls of seam/abi.rs on one queue of the kernel.     *)
(*                                                                         *)
(* The kernel is stackless: a call that cannot finish keeps its deadline   *)
(* in the kernel, parks the caller and answers Blocked, "call again when   *)
(* this task next runs".  The C wants a call that returns LATER, so the    *)
(* seam turns the answer back into a blocking call with a retry loop:      *)
(*                                                                         *)
(*     loop { match with_kernel(|k| k.op(.., ticks)) {                     *)
(*         Ready   => return PASS,                                         *)
(*         Blocked => { spin_guard; if ticks == 0 { return FAIL }          *)
(*                      yield_now() }                                      *)
(*         _       => return FAIL } }                                      *)
(*                                                                         *)
(* Each with_kernel is one critical section; a tick, an interrupt-side     *)
(* call or a switch to another task may fall anywhere between two of them. *)
(* What the kernel and the port do is modelled from how the seam uses them *)
(* and marked external in the map.                                         *)
(***************************************************************************)
EXTENDS Naturals, Sequences

CONSTANTS
  Tasks,        \* the C tasks
  NoTask,       \* what runs when every task is parked: the idle task
  MaxPriorities, \* configMAX_PRIORITIES
  Prio,         \* each task's priority
  Items,        \* what the C puts on the queue
  QueueLength,  \* uxQueueLength
  MaxWait,      \* bound: the longest xTicksToWait the C passes
  Program,      \* the calls each task may make
  IsrProgram,   \* the calls the tick's interrupt halves may make
  SpinLimit,    \* retry.rs: 1_000_000, small here
  NoCall,       \* a task that is not in a call
  BlocksInCritical \* whether the C breaks the rule "never block inside a critical section"

(* xCopyPosition, after CopyPosition::decode.  "bad" is a value the C never *)
(* sends; decode answers None for it.                                       *)
Positions == {"back", "front", "overwrite", "bad"}

Sends    == [op : {"send"}, item : Items, position : Positions, ticks : 0 .. MaxWait]
Receives == [op : {"receive", "peek"}, ticks : 0 .. MaxWait]
Calls    == Sends \cup Receives

ASSUME SeamQueueAssumption ==
  /\ Tasks # {} /\ NoTask \notin Tasks
  /\ MaxPriorities \in Nat \ {0}
  /\ Prio \in [Tasks -> 0 .. MaxPriorities - 1]
  /\ QueueLength \in Nat \ {0}
  /\ MaxWait \in Nat
  /\ SpinLimit \in Nat \ {0}
  /\ Program \in [Tasks -> SUBSET Calls]
  /\ IsrProgram \subseteq {c \in Calls : c.op = "send" => c.position # "bad"}
  /\ NoCall \notin Calls \cup Nat \cup Items
  /\ BlocksInCritical \in BOOLEAN

VARIABLES
  \* the kernel and the port
  queue,     \* the items, oldest first
  parked,    \* per task: the side of the queue it waits on, or "no"
  left,      \* per task: ticks its block time still has, kept in the TCB
  running,   \* the task that has the CPU
  owed,      \* a switch is pended and not yet taken
  depth,     \* nesting of the critical section the running task holds
  \* the seam
  ISR_WOKE,  \* an interrupt-side call woke a task that outranks the running one
  call,      \* per task: the call it is in
  pc,        \* per task: where in that call
  spins,     \* per task: the loop's counter for spin_guard
  got,       \* per task: the value the kernel answered
  died,      \* spin_guard stopped the run
  \* history, read by no action
  age,       \* per task: ticks since the call was made, up to MaxWait
  wakes      \* per task: times the kernel unparked it in this call

kernelVars == <<queue, parked, left, running, owed, depth>>
callVars   == <<call, pc, spins, got>>
vars == <<kernelVars, ISR_WOKE, callVars, died, age, wakes>>

PCs   == {"c", "loop", "blocked", "pass", "fail"}
Sides == {"no", "send", "receive"}

-----------------------------------------------------------------------------
(* The kernel's scheduler.                                                 *)

Ready(t) == parked[t] = "no"

Outranks(t) == running = NoTask \/ Prio[t] > Prio[running]

(* The running task executes unless a switch is due and nothing masks it.  *)
CanRun(t) == running = t /\ ~died /\ (owed => depth > 0)

(* What a pass over the ready list may answer: a ready task of the highest *)
(* priority, the current one only when it has no ready peer.               *)
Best == {t \in Tasks : Ready(t) /\ \A u \in Tasks : Ready(u) => Prio[u] <= Prio[t]}

Choice == IF Best = {} THEN {NoTask}
          ELSE IF Best \ {running} = {} THEN Best ELSE Best \ {running}

(* The pended switch, taken as soon as nothing masks it.                   *)
pick_next ==
  /\ owed /\ depth = 0 /\ ~died
  /\ running' \in Choice
  /\ owed' = FALSE
  /\ UNCHANGED <<queue, parked, left, depth, ISR_WOKE, callVars, died, age, wakes>>

(* One operation completed on the queue wakes one task parked on the other *)
(* side of it; the switch is pended when that task outranks the caller.    *)
WakeOne(side) ==
  \/ /\ \A w \in Tasks : parked[w] # side
     /\ UNCHANGED <<parked, wakes, owed>>
  \/ \E w \in Tasks :
       /\ parked[w] = side
       /\ parked' = [parked EXCEPT ![w] = "no"]
       /\ wakes' = [wakes EXCEPT ![w] = @ + 1]
       /\ owed' = (owed \/ Outranks(w))

-----------------------------------------------------------------------------
(* The kernel's queue operations, as one critical section each.            *)

SideOf(c) == IF c.op = "send" THEN "send" ELSE "receive"

CanServe(c) ==
  IF c.op = "send" THEN c.position = "overwrite" \/ Len(queue) < QueueLength
                   ELSE queue # <<>>

(* The queue once the call is served.                                      *)
After(c) ==
  CASE c.op = "peek"    -> queue
    [] c.op = "receive" -> Tail(queue)
    [] c.op = "send" /\ c.position = "front"     -> <<c.item>> \o queue
    [] c.op = "send" /\ c.position = "overwrite" -> <<c.item>>
    [] OTHER -> Append(queue, c.item)

(* Who the served call wakes.  A peek leaves the item, so the next waiting *)
(* reader is woken for it.                                                 *)
WokenBy(c) == IF c.op = "receive" THEN "send" ELSE "receive"

(* Ready: the call is done and the deadline forgotten.                     *)
Serve(t, c) ==
  /\ CanServe(c)
  /\ queue' = After(c)
  /\ WakeOne(WokenBy(c))
  /\ left' = [left EXCEPT ![t] = NoCall]

(* Blocked: with no wait the call simply cannot be served; with one the    *)
(* caller is parked, under the deadline its first answer set.              *)
Park(t, c) ==
  /\ ~CanServe(c)
  /\ left[t] # 0
  /\ IF c.ticks = 0
       THEN UNCHANGED <<parked, left>>
       ELSE /\ parked' = [parked EXCEPT ![t] = SideOf(c)]
            /\ left' = [left EXCEPT ![t] = IF @ = NoCall THEN c.ticks ELSE @]
  /\ UNCHANGED <<queue, wakes, owed>>

(* Err: the block time is over and the call still cannot be served.        *)
TimeOut(t, c) ==
  /\ ~CanServe(c)
  /\ left[t] = 0
  /\ left' = [left EXCEPT ![t] = NoCall]
  /\ UNCHANGED <<queue, parked, wakes, owed>>

-----------------------------------------------------------------------------
(* The seam's calls.                                                       *)

(* The C calls in.  A position the decode does not know is refused before  *)
(* the kernel hears of it.                                                 *)
Enter(t) ==
  /\ CanRun(t) /\ pc[t] = "c"
  /\ \E c \in Program[t] :
       /\ depth = 0 \/ c.ticks = 0 \/ BlocksInCritical
       /\ call' = [call EXCEPT ![t] = c]
       /\ pc' = [pc EXCEPT ![t] =
                   IF c.op = "send" /\ c.position = "bad" THEN "fail" ELSE "loop"]
  /\ spins' = [spins EXCEPT ![t] = 0]
  /\ age' = [age EXCEPT ![t] = 0]
  /\ wakes' = [wakes EXCEPT ![t] = 0]
  /\ UNCHANGED <<kernelVars, ISR_WOKE, got, died>>

(* One kernel call of the loop and what the seam makes of the answer.      *)
Retry(t) ==
  LET c == call[t] IN
  /\ \/ /\ Serve(t, c)
        /\ pc' = [pc EXCEPT ![t] = "pass"]
        /\ got' = [got EXCEPT ![t] = IF c.op = "send" THEN NoCall ELSE Head(queue)]
     \/ /\ Park(t, c)
        /\ pc' = [pc EXCEPT ![t] = "blocked"]
        /\ UNCHANGED got
     \/ /\ TimeOut(t, c)
        /\ pc' = [pc EXCEPT ![t] = "fail"]
        /\ UNCHANGED got
  /\ UNCHANGED <<running, depth, ISR_WOKE, call, spins, died, age>>

xQueueGenericSend(t) ==
  /\ CanRun(t) /\ pc[t] = "loop" /\ call[t].op = "send"
  /\ Retry(t)

xQueueReceive(t) ==
  /\ CanRun(t) /\ pc[t] = "loop" /\ call[t].op = "receive"
  /\ Retry(t)

xQueuePeek(t) ==
  /\ CanRun(t) /\ pc[t] = "loop" /\ call[t].op = "peek"
  /\ Retry(t)

(* spin_guard counts a round and stops the run at the limit.               *)
LimitPassed(t) == spins[t] + 1 > SpinLimit
AtLimit(t) == spins[t] + 1 = SpinLimit

CountAnew(t) == spins' = [spins EXCEPT ![t] = 1]
CountRound(t) == spins' = [spins EXCEPT ![t] = @ + 1]

(* With no block time the C expects its failure at once.                   *)
NeverAPoll(t) == FALSE
ShortIsAPoll(t) == call[t].ticks <= 1
IsAPoll(t) == call[t].ticks = 0

(* yield_now pends the switch.                                             *)
StayOnCpu == UNCHANGED owed
yield_now == owed' = TRUE

(* The Blocked arm: count the round, stop at the limit, give up at once on *)
(* a poll, otherwise leave the CPU and try again when next run.            *)
OnBlocked(t) ==
  /\ CanRun(t) /\ pc[t] = "blocked"
  /\ CountRound(t)
  /\ \/ AtLimit(t) /\ died' = TRUE /\ UNCHANGED <<pc, owed>>
     \/ /\ ~AtLimit(t) /\ IsAPoll(t)
        /\ pc' = [pc EXCEPT ![t] = "fail"]
        /\ UNCHANGED <<died, owed>>
     \/ /\ ~AtLimit(t) /\ ~IsAPoll(t)
        /\ pc' = [pc EXCEPT ![t] = "loop"]
        /\ yield_now
        /\ UNCHANGED died
  /\ UNCHANGED <<queue, parked, left, running, depth, ISR_WOKE, call, got, age, wakes>>

(* The answer reaches the C.                                               *)
Return(t) ==
  /\ CanRun(t) /\ pc[t] \in {"pass", "fail"}
  /\ pc' = [pc EXCEPT ![t] = "c"]
  /\ call' = [call EXCEPT ![t] = NoCall]
  /\ got' = [got EXCEPT ![t] = NoCall]
  /\ UNCHANGED <<kernelVars, ISR_WOKE, spins, died, age, wakes>>

(* xTaskAbortDelay from another task ends a wait early and yields.  The    *)
(* history counts the block time as used up.                               *)
xTaskAbortDelay(t) ==
  /\ CanRun(t) /\ pc[t] = "c"
  /\ \E w \in Tasks \ {t} :
       /\ ~Ready(w)
       /\ parked' = [parked EXCEPT ![w] = "no"]
       /\ left' = [left EXCEPT ![w] = 0]
       /\ wakes' = [wakes EXCEPT ![w] = @ + 1]
       /\ age' = [age EXCEPT ![w] = MaxWait]
  /\ owed' = TRUE
  /\ UNCHANGED <<queue, running, depth, ISR_WOKE, callVars, died>>

(* The C's critical sections; one level stands for any nesting of them.    *)
vPortEnterCritical(t) ==
  /\ CanRun(t) /\ pc[t] = "c" /\ depth = 0
  /\ depth' = 1
  /\ UNCHANGED <<queue, parked, left, running, owed, ISR_WOKE, callVars, died, age, wakes>>

vPortExitCritical(t) ==
  /\ CanRun(t) /\ pc[t] = "c" /\ depth = 1
  /\ depth' = 0
  /\ UNCHANGED <<queue, parked, left, running, owed, ISR_WOKE, callVars, died, age, wakes>>

-----------------------------------------------------------------------------
(* The tick: the kernel's increment, then the interrupt halves, then the   *)
(* decision whether to switch.                                             *)

Expiring == {t \in Tasks : ~Ready(t) /\ left[t] = 1}

(* increment_tick asks for a switch when a ready task could take the CPU   *)
(* from the running one, a peer included: ticks slice time between peers.  *)
WantsSwitch ==
  \E t \in Tasks \ {running} :
    /\ Ready(t) \/ t \in Expiring
    /\ running = NoTask \/ Prio[t] >= Prio[running]

Unparked == [t \in Tasks |-> IF t \in Expiring THEN "no" ELSE parked[t]]

(* An interrupt half's call that wakes w, or nobody when nobody waits;     *)
(* set_woken raises the flag when w outranks the running task.             *)
IsrWakes(side, woken) ==
  LET waiting == {w \in Tasks : Unparked[w] = side}
  IN  woken \in (IF waiting = {} THEN {{}} ELSE {{w} : w \in waiting})

(* The handler's switch decision, want || take_isr_woke(): the flag is     *)
(* taken only when increment_tick did not already ask, as || does not      *)
(* evaluate its second operand then.                                       *)
WantAlone(want, woke) ==
  /\ owed' = (owed \/ want)
  /\ ISR_WOKE' = woke
WantOrWoke(want, woke) ==
  /\ owed' = (owed \/ want \/ woke)
  /\ ISR_WOKE' = (want /\ woke)

(* One tick in which the interrupt halves woke the tasks of woken.         *)
TickWith(woken) ==
  /\ parked' = [t \in Tasks |-> IF t \in woken THEN "no" ELSE Unparked[t]]
  /\ left' = [t \in Tasks |->
               IF left[t] \in Nat \ {0} THEN left[t] - 1 ELSE left[t]]
  /\ wakes' = [t \in Tasks |->
                IF t \in Expiring \cup woken THEN wakes[t] + 1 ELSE wakes[t]]
  /\ age' = [t \in Tasks |->
              IF call[t] # NoCall /\ age[t] < MaxWait THEN age[t] + 1 ELSE age[t]]
  /\ WantOrWoke(WantsSwitch, ISR_WOKE \/ \E w \in woken : Outranks(w))

on_tick ==
  /\ depth = 0 /\ ~died
  /\ \/ /\ TickWith({})
        /\ UNCHANGED queue
     \/ \E c \in IsrProgram :
          /\ CanServe(c)
          /\ queue' = After(c)
          /\ \E woken \in SUBSET Tasks : IsrWakes(WokenBy(c), woken) /\ TickWith(woken)
  /\ UNCHANGED <<running, depth, callVars, died>>

-----------------------------------------------------------------------------
Init ==
  /\ queue = <<>>
  /\ parked = [t \in Tasks |-> "no"]
  /\ left = [t \in Tasks |-> NoCall]
  /\ running \in Best
  /\ owed = FALSE
  /\ depth = 0
  /\ ISR_WOKE = FALSE
  /\ call = [t \in Tasks |-> NoCall]
  /\ pc = [t \in Tasks |-> "c"]
  /\ spins = [t \in Tasks |-> 0]
  /\ got = [t \in Tasks |-> NoCall]
  /\ died = FALSE
  /\ age = [t \in Tasks |-> 0]
  /\ wakes = [t \in Tasks |-> 0]

InCall(t) ==
  \/ xQueueGenericSend(t)
  \/ xQueueReceive(t)
  \/ xQueuePeek(t)
  \/ OnBlocked(t)
  \/ Return(t)

TaskStep(t) ==
  \/ Enter(t)
  \/ InCall(t)
  \/ xTaskAbortDelay(t)
  \/ vPortEnterCritical(t)
  \/ vPortExitCritical(t)

Next ==
  \/ \E t \in Tasks : TaskStep(t)
  \/ pick_next
  \/ on_tick

Spec == Init /\ [][Next]_vars

(* What the machine and the C owe the seam.  Code between two interrupts   *)
(* runs: a task that keeps getting the CPU gets on with its call.  Peers   *)
(* take turns.  A pending tick is taken once interrupts are unmasked, and  *)
(* the C leaves the critical sections it enters.                           *)
Fairness ==
  /\ SF_vars(on_tick)
  /\ \A t \in Tasks :
       /\ SF_vars(InCall(t))
       /\ SF_vars(vPortExitCritical(t))
       /\ SF_vars(pick_next /\ running' = t)
  /\ WF_vars(pick_next)

FairSpec == Spec /\ Fairness

-----------------------------------------------------------------------------
(* Properties.                                                             *)

(* Every variable keeps to its range; in particular no kernel call puts    *)
(* more on the queue than uxQueueLength.                                   *)
TypeOK ==
  /\ queue \in Seq(Items) /\ Len(queue) <= QueueLength
  /\ parked \in [Tasks -> Sides]
  /\ left \in [Tasks -> 0 .. MaxWait \cup {NoCall}]
  /\ running \in Tasks \cup {NoTask}
  /\ owed \in BOOLEAN
  /\ depth \in {0, 1}
  /\ ISR_WOKE \in BOOLEAN
  /\ call \in [Tasks -> Calls \cup {NoCall}]
  /\ pc \in [Tasks -> PCs]
  /\ spins \in [Tasks -> 0 .. SpinLimit]
  /\ got \in [Tasks -> Items \cup {NoCall}]
  /\ died \in BOOLEAN
  /\ age \in [Tasks -> 0 .. MaxWait]
  /\ wakes \in [Tasks -> Nat]

(* retry.rs: a blocking call "costs one iteration per WAKEUP, because the  *)
(* kernel does not schedule a task whose wait is still unsatisfied".  The  *)
(* rounds counted, and the one under way, never exceed the wakeups by more *)
(* than the first: no interleaving of ticks, preemptions and wakeups       *)
(* between the kernel's answer and yield_now makes the loop run hot.       *)
SpinsPaidByWakeups ==
  BlocksInCritical \/ \A t \in Tasks :
    call[t] # NoCall =>
      spins[t] + (IF pc[t] = "blocked" /\ ~died THEN 1 ELSE 0) <= wakes[t] + 1

(* set_woken and on_tick: no wake-up is dropped on the floor.  Whenever no *)
(* switch is pending and nothing is masked, no ready task outranks the one *)
(* that runs, however it was woken: by a peer, by its timeout, by an       *)
(* interrupt half that passed NULL for its flag.                           *)
NoStrandedWakeup ==
  (~died /\ ~owed /\ depth = 0) => \A t \in Tasks : Ready(t) => ~Outranks(t)

(* The seam implements queue.h: with the retries, the parking and the      *)
(* preemptions hidden, every call takes effect exactly once or fails       *)
(* exactly when it may.  A zero-wait call fails at the kernel's answer,    *)
(* not at the later instant the loop notices.                              *)
Outcome(t) ==
  IF pc[t] = "pass" THEN "passed"
  ELSE IF pc[t] = "fail" \/ (pc[t] = "blocked" /\ call[t].ticks = 0) THEN "failed"
  ELSE "pending"

QC == INSTANCE QueueContract WITH
        Capacity <- QueueLength, Requests <- Program,
        InterruptRequests <- IsrProgram, None <- NoCall,
        content <- queue, request <- call, value <- got, waited <- age,
        outcome <- [t \in Tasks |-> Outcome(t)]

ImplementsContract == QC!Spec

(* A call with a block time returns: nothing leaves a C task in the loop   *)
(* for ever, unless the guard stops the run.                               *)
EveryCallReturns ==
  \A t \in Tasks : (call[t] # NoCall) ~> (call[t] = NoCall \/ died)

(* spin_guard's purpose: a loop entered inside a critical section masks    *)
(* the very tick that would end its wait, and is named instead of hanging. *)
SelfSealedHangStops ==
  \A t \in Tasks : (running = t /\ depth > 0 /\ ~Ready(t)) ~> died

(* Outside a critical section a wait is not taken for a hang, as long as   *)
(* no call can lose its item to others more often than the guard has       *)
(* rounds: DeathMeansSpinning below is about the calls that can.           *)
DiesOnlySealed == died => depth > 0

(* The rule an application keeps for that: what a call waits for, a place  *)
(* or an item, no other task can take from it, and interrupt halves, which *)
(* come at most once a tick, only if its block time has fewer ticks than   *)
(* the guard has rounds.                                                   *)
Rivals(c, d) ==
  IF c.op = "send" THEN d.op = "send" /\ d.position # "bad" ELSE d.op = "receive"
IsrRivals(c) == \E d \in IsrProgram : Rivals(c, d)
Uncontested ==
  /\ SpinLimit > 1
  /\ \A t \in Tasks : \A c \in Program[t] : c.ticks > 0 =>
       /\ \A u \in Tasks \ {t} : \A d \in Program[u] : ~Rivals(c, d)
       /\ IsrRivals(c) => SpinLimit > c.ticks

(* retry.rs: "Reaching a million means the loop is spinning, not waiting". *)
DeathMeansSpinning ==
  died => \E t \in Tasks : spins[t] > wakes[t] + 1
=============================================================================
