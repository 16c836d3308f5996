-------------------------- MODULE SeamQueue_proofs --------------------------
(***************************************************************************)
(* Proofs about the blocking queue calls, for every set of tasks, every    *)
(* queue length, every program of calls and every limit of the guard.      *)
(*                                                                         *)
(* The longest part is that the retry loops implement QueueContract, whether  *)
(* or not the C blocks inside critical sections.  Only four of their steps *)
(* are steps of the contract beside making a call and returning from it: a *)
(* served kernel call takes effect, a refused one or a poll that is not    *)
(* served fails, a tick is time passing, an aborted wait is one told to    *)
(* stop.  Everything else is a stutter.                                    *)
(*                                                                         *)
(* After that, what the guard of the loops stops: in an application that   *)
(* keeps the rule Uncontested, only loops inside critical sections.        *)
(***************************************************************************)
EXTENDS SeamQueue, TLAPS, WellFoundedInduction, SequenceTheorems

-----------------------------------------------------------------------------
(* The kernel's choice.                                                    *)

(* A ready list is never without a head: when some task is ready, some     *)
(* ready task has the highest priority among the ready ones.               *)
LEMMA SomeBest ==
  ASSUME SeamQueueAssumption, NEW t \in Tasks, Ready(t)
  PROVE  Best # {}
<1> DEFINE R == {u \in Tasks : Ready(u)}
           S == {MaxPriorities - Prio[u] : u \in R}
<1>1. \A u \in Tasks : Prio[u] \in Nat /\ Prio[u] < MaxPriorities /\ MaxPriorities \in Nat
  BY DEF SeamQueueAssumption
<1>2. S \in SUBSET Nat /\ S # {}
  BY <1>1
<1>3. PICK n \in S : \A m \in S : n <= m
  <2>1. PICK n \in S : \A m \in S : ~ (<<m, n>> \in OpToRel(<, Nat))
    BY ONLY <1>2, NatLessThanWellFounded, WFMin, Zenon
  <2>2. \A m \in S : ~ (m < n)
    BY <1>2, <2>1 DEF OpToRel
  <2> QED
    BY <1>2, <2>2
<1>4. PICK u \in R : n = MaxPriorities - Prio[u]
  BY <1>3
<1>5. \A v \in R : MaxPriorities - Prio[u] <= MaxPriorities - Prio[v]
  BY <1>3, <1>4
<1>6. ASSUME NEW v \in R PROVE Prio[v] <= Prio[u]
  <2>1. v \in Tasks /\ u \in Tasks /\ MaxPriorities - Prio[u] <= MaxPriorities - Prio[v]
    BY <1>5
  <2>2. /\ Prio[v] \in Nat /\ Prio[v] < MaxPriorities /\ MaxPriorities \in Nat
        /\ Prio[u] \in Nat /\ Prio[u] < MaxPriorities
    BY <1>1, <2>1
  <2> QED
    BY <2>1, <2>2
<1> QED
  BY <1>4, <1>6 DEF Best

(* Whatever is chosen to run, no ready task outranks it.                   *)
LEMMA ChoiceIsBest ==
  ASSUME SeamQueueAssumption, running' \in Choice,
         NEW t \in Tasks, Ready(t), parked' = parked
  PROVE  /\ running' \in Tasks /\ Ready(running')
         /\ Prio[t] <= Prio[running']
<1>1. Best # {}
  BY SomeBest
<1>2. running' \in Best
  BY <1>1 DEF Choice
<1> QED
  BY <1>2 DEF Best

-----------------------------------------------------------------------------
(* Type correctness.                                                       *)

(* A served call leaves the queue well formed and within its length.       *)
LEMMA AfterType ==
  ASSUME SeamQueueAssumption, queue \in Seq(Items), Len(queue) <= QueueLength,
         NEW c \in Calls, CanServe(c)
  PROVE  /\ After(c) \in Seq(Items)
         /\ Len(After(c)) <= QueueLength
         /\ c.op # "send" => Head(queue) \in Items
<1>1. CASE c.op = "send"
  <2>1. c.item \in Items /\ c.op = "send"
    BY <1>1 DEF Calls, Sends, Receives
  <2>2. <<c.item>> \in Seq(Items) /\ Len(<<c.item>>) = 1
    BY <2>1
  <2>3. CASE c.position = "overwrite"
    BY <1>1, <2>2, <2>3 DEF After, SeamQueueAssumption
  <2>4. CASE c.position = "front"
    <3>1. <<c.item>> \o queue \in Seq(Items) /\ Len(<<c.item>> \o queue) = 1 + Len(queue)
      BY <2>2, ConcatProperties
    <3>2. Len(queue) < QueueLength /\ Len(queue) \in Nat /\ QueueLength \in Nat
      BY <1>1, <2>4 DEF CanServe, SeamQueueAssumption
    <3> QED
      BY <1>1, <2>4, <3>1, <3>2 DEF After
  <2>5. CASE c.position \notin {"overwrite", "front"}
    <3>1. Append(queue, c.item) \in Seq(Items) /\ Len(Append(queue, c.item)) = Len(queue) + 1
      BY <2>1, AppendProperties
    <3>2. Len(queue) < QueueLength /\ Len(queue) \in Nat /\ QueueLength \in Nat
      BY <1>1, <2>5 DEF CanServe, SeamQueueAssumption
    <3> QED
      BY <1>1, <2>5, <3>1, <3>2 DEF After
  <2> QED
    BY <2>3, <2>4, <2>5
<1>2. CASE c.op # "send"
  <2>1. c.op \in {"receive", "peek"} /\ queue # <<>>
    BY <1>2 DEF Calls, Sends, Receives, CanServe
  <2>2. /\ Head(queue) \in Items /\ Tail(queue) \in Seq(Items)
        /\ Len(Tail(queue)) = Len(queue) - 1
    BY <2>1, HeadTailProperties
  <2>3. Len(queue) \in Nat /\ QueueLength \in Nat
    BY DEF SeamQueueAssumption
  <2> QED
    BY <2>1, <2>2, <2>3 DEF After
<1> QED
  BY <1>1, <1>2

-----------------------------------------------------------------------------
(* Inductive strengthening of the type invariant: a task has a call exactly *)
(* while it is inside one, and while the run lives no loop has used up its  *)
(* rounds.                                                                  *)
InCallInv == \A t \in Tasks : pc[t] = "c" <=> call[t] = NoCall
GuardInv == ~died => \A t \in Tasks : spins[t] < SpinLimit
TypeInv == TypeOK /\ InCallInv /\ GuardInv

(* Waking one waiter changes that waiter alone and pends the switch it is   *)
(* owed.                                                                    *)
LEMMA WakeOneEffect ==
  ASSUME TypeOK, NEW side \in {"send", "receive"}, WakeOne(side)
  PROVE  /\ parked' \in [Tasks -> Sides] /\ wakes' \in [Tasks -> Nat] /\ owed' \in BOOLEAN
         /\ owed => owed'
         /\ \A t \in Tasks :
              \/ parked'[t] = parked[t] /\ wakes'[t] = wakes[t]
              \/ /\ parked[t] = side /\ parked'[t] = "no" /\ wakes'[t] = wakes[t] + 1
                 /\ Outranks(t) => owed'
<1>1. CASE UNCHANGED <<parked, wakes, owed>>
  BY <1>1 DEF TypeOK
<1>2. ASSUME NEW w \in Tasks, parked[w] = side,
             parked' = [parked EXCEPT ![w] = "no"],
             wakes' = [wakes EXCEPT ![w] = @ + 1],
             owed' = (owed \/ Outranks(w))
      PROVE  /\ parked' \in [Tasks -> Sides] /\ wakes' \in [Tasks -> Nat] /\ owed' \in BOOLEAN
             /\ owed => owed'
             /\ \A t \in Tasks :
                  \/ parked'[t] = parked[t] /\ wakes'[t] = wakes[t]
                  \/ /\ parked[t] = side /\ parked'[t] = "no" /\ wakes'[t] = wakes[t] + 1
                     /\ Outranks(t) => owed'
  <2>1. owed' \in BOOLEAN /\ (owed => owed') /\ (Outranks(w) => owed')
    BY <1>2 DEF Outranks, TypeOK
  <2>2. parked' \in [Tasks -> Sides] /\ wakes' \in [Tasks -> Nat]
    BY <1>2 DEF TypeOK, Sides
  <2>3. \A t \in Tasks : t # w => parked'[t] = parked[t] /\ wakes'[t] = wakes[t]
    BY <1>2 DEF TypeOK
  <2>4. parked'[w] = "no" /\ wakes'[w] = wakes[w] + 1
    BY <1>2 DEF TypeOK
  <2> QED
    BY <1>2, <2>1, <2>2, <2>3, <2>4
<1> QED
  BY <1>1, <1>2 DEF WakeOne

(* One kernel call keeps the types, whatever it answers.                    *)
LEMMA RetryType ==
  ASSUME SeamQueueAssumption, TypeInv,
         NEW t \in Tasks, pc[t] = "loop", CanRun(t), Retry(t)
  PROVE  TypeInv'
<1> DEFINE c == call[t]
<1>1. c \in Calls /\ c \in Calls \cup {NoCall} /\ c.ticks \in 0 .. MaxWait
  BY DEF TypeInv, TypeOK, InCallInv, Calls, Sends, Receives
<1>2. /\ queue \in Seq(Items) /\ Len(queue) <= QueueLength /\ MaxWait \in Nat
      /\ left \in [Tasks -> 0 .. MaxWait \cup {NoCall}]
      /\ got \in [Tasks -> Items \cup {NoCall}]
      /\ pc \in [Tasks -> PCs] /\ TypeOK
  BY DEF TypeInv, TypeOK, SeamQueueAssumption
<1>3. CASE /\ Serve(t, c)
           /\ pc' = [pc EXCEPT ![t] = "pass"]
           /\ got' = [got EXCEPT ![t] = IF c.op = "send" THEN NoCall ELSE Head(queue)]
  <2>1. queue' \in Seq(Items) /\ Len(queue') <= QueueLength
    BY <1>1, <1>2, <1>3, AfterType DEF Serve
  <2>2. c.op # "send" => Head(queue) \in Items
    BY <1>1, <1>2, <1>3, AfterType DEF Serve
  <2>3. got' \in [Tasks -> Items \cup {NoCall}]
    BY <1>2, <1>3, <2>2
  <2>4. WokenBy(c) \in {"send", "receive"}
    BY DEF WokenBy
  <2>5. parked' \in [Tasks -> Sides] /\ wakes' \in [Tasks -> Nat] /\ owed' \in BOOLEAN
    BY <1>2, <1>3, <2>4, WakeOneEffect DEF Serve
  <2>6. left' \in [Tasks -> 0 .. MaxWait \cup {NoCall}]
    BY <1>2, <1>3 DEF Serve
  <2>7. pc' \in [Tasks -> PCs] /\ pc'[t] = "pass" /\ \A u \in Tasks : u # t => pc'[u] = pc[u]
    BY <1>2, <1>3 DEF PCs
  <2> QED
    BY <2>1, <2>3, <2>5, <2>6, <2>7 DEF Retry, TypeInv, TypeOK, InCallInv, GuardInv
<1>4. CASE Park(t, c) /\ pc' = [pc EXCEPT ![t] = "blocked"] /\ UNCHANGED got
  <2>1. parked' \in [Tasks -> Sides]
    BY <1>2, <1>4 DEF Park, SideOf, Sides, TypeOK
  <2>2. left' \in [Tasks -> 0 .. MaxWait \cup {NoCall}]
    BY <1>1, <1>2, <1>4 DEF Park
  <2>3. pc' \in [Tasks -> PCs] /\ pc'[t] = "blocked" /\ \A u \in Tasks : u # t => pc'[u] = pc[u]
    BY <1>2, <1>4 DEF PCs
  <2> QED
    BY <1>4, <2>1, <2>2, <2>3 DEF Park, Retry, TypeInv, TypeOK, InCallInv, GuardInv
<1>5. CASE TimeOut(t, c) /\ pc' = [pc EXCEPT ![t] = "fail"] /\ UNCHANGED got
  <2>1. left' \in [Tasks -> 0 .. MaxWait \cup {NoCall}]
    BY <1>2, <1>5 DEF TimeOut
  <2>2. pc' \in [Tasks -> PCs] /\ pc'[t] = "fail" /\ \A u \in Tasks : u # t => pc'[u] = pc[u]
    BY <1>2, <1>5 DEF PCs
  <2> QED
    BY <1>5, <2>1, <2>2 DEF TimeOut, Retry, TypeInv, TypeOK, InCallInv, GuardInv
<1> QED
  BY <1>3, <1>4, <1>5 DEF Retry

(* What a tick does to the tasks it wakes, by timeout or from an interrupt  *)
(* half.                                                                    *)
LEMMA TickWithEffect ==
  ASSUME SeamQueueAssumption, TypeOK, NEW woken \in SUBSET Tasks, TickWith(woken),
         \A w \in woken : Unparked[w] # "no"
  PROVE  /\ parked' \in [Tasks -> Sides]
         /\ left' \in [Tasks -> 0 .. MaxWait \cup {NoCall}]
         /\ wakes' \in [Tasks -> Nat]
         /\ age' \in [Tasks -> 0 .. MaxWait]
         /\ owed' \in BOOLEAN /\ ISR_WOKE' \in BOOLEAN
         /\ \A t \in Tasks :
              \/ parked'[t] = parked[t] /\ wakes'[t] = wakes[t]
              \/ parked[t] # "no" /\ parked'[t] = "no" /\ wakes'[t] = wakes[t] + 1
<1>1. Unparked \in [Tasks -> Sides]
  BY DEF Unparked, TypeOK, Sides
<1>2. parked' \in [Tasks -> Sides]
  BY <1>1 DEF TickWith, Sides
<1>3. left' \in [Tasks -> 0 .. MaxWait \cup {NoCall}]
  <2>1. MaxWait \in Nat /\ NoCall \notin Nat
    BY DEF SeamQueueAssumption
  <2>2. ASSUME NEW t \in Tasks
        PROVE  (IF left[t] \in Nat \ {0} THEN left[t] - 1 ELSE left[t])
                 \in 0 .. MaxWait \cup {NoCall}
    <3>1. left[t] \in 0 .. MaxWait \/ left[t] = NoCall
      BY DEF TypeOK
    <3> QED
      BY <2>1, <3>1
  <2> QED
    BY <2>2 DEF TickWith
<1>4. wakes' \in [Tasks -> Nat]
  BY DEF TickWith, TypeOK
<1>5. age' \in [Tasks -> 0 .. MaxWait]
  <2>1. MaxWait \in Nat
    BY DEF SeamQueueAssumption
  <2>2. ASSUME NEW t \in Tasks
        PROVE  (IF call[t] # NoCall /\ age[t] < MaxWait THEN age[t] + 1 ELSE age[t])
                 \in 0 .. MaxWait
    <3>1. age[t] \in 0 .. MaxWait
      BY DEF TypeOK
    <3> QED
      BY <2>1, <3>1
  <2> QED
    BY <2>2 DEF TickWith
<1>6. owed' \in BOOLEAN /\ ISR_WOKE' \in BOOLEAN
  BY DEF TickWith, WantOrWoke, TypeOK, WantsSwitch
<1>7. ASSUME NEW t \in Tasks
      PROVE  \/ parked'[t] = parked[t] /\ wakes'[t] = wakes[t]
             \/ parked[t] # "no" /\ parked'[t] = "no" /\ wakes'[t] = wakes[t] + 1
  <2>1. CASE t \in Expiring
    BY <2>1 DEF TickWith, Expiring, Ready, Unparked
  <2>2. CASE t \notin Expiring /\ t \in woken
    BY <2>2 DEF TickWith, Unparked
  <2>3. CASE t \notin Expiring /\ t \notin woken
    BY <2>3 DEF TickWith, Unparked
  <2> QED
    BY <2>1, <2>2, <2>3
<1> QED
  BY <1>2, <1>3, <1>4, <1>5, <1>6, <1>7

(* Every tick is TickWith of some set of waiting tasks, and what it does to *)
(* the queue is what the interrupt half's call does.                        *)
LEMMA TickShape ==
  ASSUME SeamQueueAssumption, TypeOK, on_tick
  PROVE  /\ queue' \in Seq(Items) /\ Len(queue') <= QueueLength
         /\ \E woken \in SUBSET Tasks :
              TickWith(woken) /\ \A w \in woken : Unparked[w] # "no"
         /\ UNCHANGED <<running, depth, callVars, died>>
<1>1. ASSUME TickWith({}), UNCHANGED queue
      PROVE  /\ queue' \in Seq(Items) /\ Len(queue') <= QueueLength
             /\ \E woken \in SUBSET Tasks :
                  TickWith(woken) /\ \A w \in woken : Unparked[w] # "no"
  <2>1. queue' \in Seq(Items) /\ Len(queue') <= QueueLength
    BY <1>1 DEF TypeOK
  <2>2. {} \in SUBSET Tasks /\ \A w \in {} : Unparked[w] # "no"
    OBVIOUS
  <2> QED
    BY <1>1, <2>1, <2>2
<1>2. ASSUME NEW c \in IsrProgram, CanServe(c), queue' = After(c),
             NEW woken \in SUBSET Tasks, IsrWakes(WokenBy(c), woken), TickWith(woken)
      PROVE  /\ queue' \in Seq(Items) /\ Len(queue') <= QueueLength
             /\ TickWith(woken) /\ \A w \in woken : Unparked[w] # "no"
  <2>1. c \in Calls
    BY DEF SeamQueueAssumption
  <2>2. queue' \in Seq(Items) /\ Len(queue') <= QueueLength
    BY <1>2, <2>1, AfterType DEF TypeOK
  <2>3. \A w \in woken : Unparked[w] # "no"
    BY <1>2 DEF IsrWakes, WokenBy
  <2> QED
    BY <1>2, <2>2, <2>3
<1>3. UNCHANGED <<running, depth, callVars, died>>
  BY DEF on_tick
<1>4. \/ TickWith({}) /\ UNCHANGED queue
      \/ \E c \in IsrProgram : /\ CanServe(c) /\ queue' = After(c)
                              /\ \E woken \in SUBSET Tasks :
                                   IsrWakes(WokenBy(c), woken) /\ TickWith(woken)
  BY DEF on_tick
<1> QED
  BY <1>1, <1>2, <1>3, <1>4

(* The strengthened type invariant holds of every behaviour.               *)
THEOREM TypeInvariant == Spec => []TypeInv
<1> USE SeamQueueAssumption
<1>1. ASSUME Init PROVE TypeInv
  <2>1. queue \in Seq(Items) /\ Len(queue) <= QueueLength
    BY <1>1 DEF Init, SeamQueueAssumption
  <2>2. running \in Tasks
    BY <1>1 DEF Init, Best
  <2>3. /\ spins \in [Tasks -> 0 .. SpinLimit] /\ age \in [Tasks -> 0 .. MaxWait]
        /\ wakes \in [Tasks -> Nat] /\ GuardInv
    BY <1>1 DEF Init, GuardInv, SeamQueueAssumption
  <2>4. /\ parked \in [Tasks -> Sides] /\ left \in [Tasks -> 0 .. MaxWait \cup {NoCall}]
        /\ call \in [Tasks -> Calls \cup {NoCall}] /\ pc \in [Tasks -> PCs]
        /\ got \in [Tasks -> Items \cup {NoCall}] /\ InCallInv
    BY <1>1 DEF Init, Sides, PCs, InCallInv
  <2> QED
    BY <1>1, <2>1, <2>2, <2>3, <2>4 DEF Init, TypeInv, TypeOK
<1>2. TypeInv /\ [Next]_vars => TypeInv'
  <2> SUFFICES ASSUME TypeInv, [Next]_vars PROVE TypeInv'
    OBVIOUS
  <2>1. ASSUME NEW t \in Tasks, Enter(t) PROVE TypeInv'
    <3>1. PICK c \in Program[t] :
            /\ call' = [call EXCEPT ![t] = c]
            /\ pc' = [pc EXCEPT ![t] =
                        IF c.op = "send" /\ c.position = "bad" THEN "fail" ELSE "loop"]
      BY <2>1 DEF Enter
    <3>2. c \in Calls /\ c # NoCall
      BY <3>1 DEF SeamQueueAssumption
    <3>3. /\ spins' \in [Tasks -> 0 .. SpinLimit] /\ age' \in [Tasks -> 0 .. MaxWait]
          /\ wakes' \in [Tasks -> Nat] /\ pc' \in [Tasks -> PCs]
          /\ call' \in [Tasks -> Calls \cup {NoCall}]
      BY <2>1, <3>1, <3>2 DEF Enter, TypeInv, TypeOK, PCs, SeamQueueAssumption
    <3>4. InCallInv'
      BY <3>1, <3>2 DEF TypeInv, TypeOK, InCallInv
    <3>5. GuardInv'
      BY <2>1 DEF Enter, TypeInv, TypeOK, GuardInv, SeamQueueAssumption
    <3> QED
      BY <2>1, <3>3, <3>4, <3>5 DEF Enter, kernelVars, TypeInv, TypeOK
  <2>2. ASSUME NEW t \in Tasks,
               xQueueGenericSend(t) \/ xQueueReceive(t) \/ xQueuePeek(t)
        PROVE  TypeInv'
    BY <2>2, RetryType DEF xQueueGenericSend, xQueueReceive, xQueuePeek
  <2>3. ASSUME NEW t \in Tasks, OnBlocked(t) PROVE TypeInv'
    <3>1. /\ spins' = [spins EXCEPT ![t] = spins[t] + 1]
          /\ spins \in [Tasks -> 0 .. SpinLimit] /\ SpinLimit \in Nat \ {0}
          /\ ~died /\ \A u \in Tasks : spins[u] < SpinLimit
      BY <2>3 DEF OnBlocked, CountRound, CanRun, TypeInv, TypeOK, GuardInv, SeamQueueAssumption
    <3>2. spins' \in [Tasks -> 0 .. SpinLimit] /\ GuardInv'
      BY <2>3, <3>1 DEF OnBlocked, AtLimit, GuardInv
    <3>3. pc' \in [Tasks -> PCs] /\ InCallInv' /\ died' \in BOOLEAN /\ owed' \in BOOLEAN
      BY <2>3 DEF OnBlocked, TypeInv, TypeOK, InCallInv, PCs, yield_now
    <3> QED
      BY <2>3, <3>2, <3>3 DEF OnBlocked, TypeInv, TypeOK
  <2>4. ASSUME NEW t \in Tasks, Return(t) PROVE TypeInv'
    BY <2>4 DEF Return, kernelVars, TypeInv, TypeOK, InCallInv, GuardInv, PCs
  <2>5. ASSUME NEW t \in Tasks, xTaskAbortDelay(t) PROVE TypeInv'
    <3>1. PICK w \in Tasks \ {t} :
            /\ parked' = [parked EXCEPT ![w] = "no"]
            /\ left' = [left EXCEPT ![w] = 0]
            /\ wakes' = [wakes EXCEPT ![w] = @ + 1]
            /\ age' = [age EXCEPT ![w] = MaxWait]
      BY <2>5 DEF xTaskAbortDelay
    <3>2. MaxWait \in 0 .. MaxWait /\ 0 \in 0 .. MaxWait
      BY DEF SeamQueueAssumption
    <3>3. parked' \in [Tasks -> Sides] /\ age' \in [Tasks -> 0 .. MaxWait]
      BY <3>1, <3>2 DEF TypeInv, TypeOK, Sides
    <3>4. left' \in [Tasks -> 0 .. MaxWait \cup {NoCall}]
      BY <3>1, <3>2 DEF TypeInv, TypeOK
    <3>5. wakes' \in [Tasks -> Nat]
      BY <3>1 DEF TypeInv, TypeOK
    <3> QED
      BY <2>5, <3>3, <3>4, <3>5 DEF xTaskAbortDelay, callVars, TypeInv, TypeOK, InCallInv, GuardInv
  <2>6. ASSUME NEW t \in Tasks, vPortEnterCritical(t) \/ vPortExitCritical(t) PROVE TypeInv'
    BY <2>6 DEF vPortEnterCritical, vPortExitCritical, callVars, TypeInv, TypeOK, InCallInv, GuardInv
  <2>7. ASSUME pick_next PROVE TypeInv'
    BY <2>7 DEF pick_next, Choice, Best, callVars, TypeInv, TypeOK, InCallInv, GuardInv
  <2>8. ASSUME on_tick PROVE TypeInv'
    <3>1. TypeOK
      BY DEF TypeInv
    <3>2. PICK woken \in SUBSET Tasks : TickWith(woken) /\ \A w \in woken : Unparked[w] # "no"
      BY <2>8, <3>1, TickShape
    <3> QED
      BY <2>8, <3>1, <3>2, TickShape, TickWithEffect
         DEF callVars, TypeInv, TypeOK, InCallInv, GuardInv
  <2>9. CASE UNCHANGED vars
    BY <2>9 DEF vars, kernelVars, callVars, TypeInv, TypeOK, InCallInv, GuardInv
  <2> QED
    BY <2>1, <2>2, <2>3, <2>4, <2>5, <2>6, <2>7, <2>8, <2>9 DEF Next, TaskStep, InCall
<1> QED
  BY <1>1, <1>2, PTL DEF Spec

(* TypeOK, for every instance: no call overfills the queue or leaves a task *)
(* in a place the code does not have.                                       *)
THEOREM TypeCorrect == Spec => []TypeOK
BY TypeInvariant, PTL DEF TypeInv

-----------------------------------------------------------------------------
(* The accounting of rounds and wakeups.                                    *)

(* The invariant behind SpinsPaidByWakeups: outside critical sections each  *)
(* round the kernel answered Blocked has parked the caller, so rounds and   *)
(* wakeups balance, the one under way included.  What makes it inductive is *)
(* that a parked task that still has the CPU is either about to yield or    *)
(* has a switch pending, so that it never calls the kernel again unwoken.   *)
UnderWay(t) == IF pc[t] = "blocked" /\ ~died THEN 1 ELSE 0
Waiting(t) == IF parked[t] = "no" THEN 0 ELSE 1

Account(t) ==
  /\ pc[t] \in {"c", "pass", "fail"} => parked[t] = "no"
  /\ running = t /\ parked[t] # "no" => pc[t] = "blocked" \/ owed
  /\ depth > 0 /\ running = t /\ call[t] # NoCall => call[t].ticks = 0
  /\ call[t] # NoCall /\ call[t].ticks = 0 =>
       parked[t] = "no" /\ spins[t] + UnderWay(t) <= 1 /\ (pc[t] = "loop" => spins[t] = 0)
  /\ call[t] # NoCall /\ call[t].ticks # 0 =>
       spins[t] + UnderWay(t) <= wakes[t] + Waiting(t)

AccountInv == BlocksInCritical \/ \A t \in Tasks : Account(t)

(* A new call starts with nothing counted and nothing owed.                *)
LEMMA AccountEnter ==
  ASSUME SeamQueueAssumption, TypeInv, ~BlocksInCritical, \A v \in Tasks : Account(v),
         NEW t \in Tasks, Enter(t), NEW u \in Tasks
  PROVE  Account(u)'
<1>1. PICK c \in Program[t] :
        /\ depth = 0 \/ c.ticks = 0
        /\ call' = [call EXCEPT ![t] = c]
        /\ pc' = [pc EXCEPT ![t] =
                    IF c.op = "send" /\ c.position = "bad" THEN "fail" ELSE "loop"]
  BY DEF Enter
<1>2. /\ spins' = [spins EXCEPT ![t] = 0] /\ wakes' = [wakes EXCEPT ![t] = 0]
      /\ UNCHANGED <<queue, parked, left, running, owed, depth, died>>
      /\ pc[t] = "c" /\ parked[t] = "no"
  BY DEF Enter, kernelVars, Account
<1>3. CASE u = t
  BY <1>1, <1>2, <1>3 DEF Account, UnderWay, Waiting, TypeInv, TypeOK
<1>4. CASE u # t
  <2>1. /\ spins'[u] = spins[u] /\ wakes'[u] = wakes[u] /\ pc'[u] = pc[u] /\ call'[u] = call[u]
    BY <1>1, <1>2, <1>4 DEF TypeInv, TypeOK
  <2> QED
    BY <1>2, <2>1 DEF Account, UnderWay, Waiting
<1> QED
  BY <1>3, <1>4

(* A task other than the caller that a served call wakes: one more wakeup,  *)
(* one fewer waiting.                                                       *)
LEMMA AccountWoken ==
  ASSUME TypeInv, NEW u \in Tasks, Account(u),
         pc'[u] = pc[u], call'[u] = call[u], spins'[u] = spins[u],
         UNCHANGED <<running, depth>>, died' = died, owed => owed',
         \/ parked'[u] = parked[u] /\ wakes'[u] = wakes[u]
         \/ parked[u] # "no" /\ parked'[u] = "no" /\ wakes'[u] = wakes[u] + 1
  PROVE  Account(u)'
<1>1. spins[u] \in Nat /\ wakes[u] \in Nat
  BY DEF TypeInv, TypeOK
<1>2. CASE parked'[u] = parked[u] /\ wakes'[u] = wakes[u]
  BY <1>2 DEF Account, UnderWay, Waiting
<1>3. CASE parked[u] # "no" /\ parked'[u] = "no" /\ wakes'[u] = wakes[u] + 1
  BY <1>1, <1>3 DEF Account, UnderWay, Waiting
<1> QED
  BY <1>2, <1>3

(* A kernel call of the loop parks the caller or ends the call.            *)
LEMMA AccountRetry ==
  ASSUME SeamQueueAssumption, TypeInv, ~BlocksInCritical, \A v \in Tasks : Account(v),
         NEW t \in Tasks, CanRun(t), pc[t] = "loop", Retry(t), NEW u \in Tasks
  PROVE  Account(u)'
<1> DEFINE c == call[t]
<1>1. c \in Calls /\ c # NoCall /\ TypeOK /\ c.ticks \in Nat
  <2>1. c \in Calls /\ c # NoCall /\ TypeOK
    BY DEF TypeInv, TypeOK, InCallInv
  <2>2. c.ticks \in 0 .. MaxWait /\ MaxWait \in Nat
    BY <2>1 DEF Calls, Sends, Receives, SeamQueueAssumption
  <2> QED
    BY <2>1, <2>2
<1>2. parked[t] = "no"
  BY <1>1 DEF CanRun, Account
<1>3. UNCHANGED <<running, depth>> /\ died' = died /\ ~died /\ call' = call /\ spins' = spins
  BY DEF Retry, CanRun
<1>4. CASE /\ Serve(t, c)
           /\ pc' = [pc EXCEPT ![t] = "pass"]
  <2>1. WokenBy(c) \in {"send", "receive"} /\ WakeOne(WokenBy(c))
    BY <1>4 DEF WokenBy, Serve
  <2>2. /\ owed => owed'
        /\ \A v \in Tasks :
             \/ parked'[v] = parked[v] /\ wakes'[v] = wakes[v]
             \/ parked[v] # "no" /\ parked'[v] = "no" /\ wakes'[v] = wakes[v] + 1
    BY <1>1, <2>1, WakeOneEffect
  <2>3. CASE u = t
    <3>1. parked'[t] = "no" /\ wakes'[t] = wakes[t] /\ pc'[t] = "pass"
      BY <1>2, <1>4, <2>2 DEF TypeInv, TypeOK
    <3> QED
      BY <1>1, <1>2, <1>3, <2>3, <3>1 DEF Account, UnderWay, Waiting, TypeOK
  <2>4. CASE u # t
    BY <1>3, <1>4, <2>2, <2>4, AccountWoken DEF TypeInv, TypeOK
  <2> QED
    BY <2>3, <2>4
<1>5. CASE Park(t, c) /\ pc' = [pc EXCEPT ![t] = "blocked"]
  <2>1. UNCHANGED <<wakes, owed>>
    BY <1>5 DEF Park
  <2>2. CASE u = t
    <3>1. pc'[t] = "blocked" /\ UnderWay(t) = 0 /\ UnderWay(t)' = 1
      BY <1>3, <1>5 DEF UnderWay, TypeInv, TypeOK
    <3>2. CASE c.ticks = 0
      BY <1>2, <1>3, <1>5, <2>1, <2>2, <3>1, <3>2 DEF Park, Account, TypeInv, TypeOK
    <3>3. CASE c.ticks # 0
      <4>1. parked'[t] # "no"
        BY <1>1, <1>5, <3>3 DEF Park, SideOf, TypeOK
      <4>2. Waiting(t) = 0 /\ Waiting(t)' = 1
        BY <1>2, <4>1 DEF Waiting
      <4>3. spins[t] \in Nat /\ wakes[t] \in Nat
        BY DEF TypeInv, TypeOK
      <4> QED
        BY <1>1, <1>3, <2>1, <2>2, <3>1, <3>3, <4>1, <4>2, <4>3 DEF Account
    <3> QED
      BY <3>2, <3>3
  <2>3. CASE u # t
    <3>1. parked'[u] = parked[u] /\ pc'[u] = pc[u]
      BY <1>5, <2>3 DEF Park, TypeInv, TypeOK
    <3> QED
      BY <1>3, <2>1, <3>1 DEF Account, UnderWay, Waiting
  <2> QED
    BY <2>2, <2>3
<1>6. CASE TimeOut(t, c) /\ pc' = [pc EXCEPT ![t] = "fail"]
  <2>1. UNCHANGED <<parked, wakes, owed>>
    BY <1>6 DEF TimeOut
  <2>2. CASE u = t
    BY <1>1, <1>2, <1>3, <1>6, <2>1, <2>2 DEF Account, UnderWay, Waiting, TypeInv, TypeOK
  <2>3. CASE u # t
    <3>1. pc'[u] = pc[u]
      BY <1>6, <2>3 DEF TypeInv, TypeOK
    <3> QED
      BY <1>3, <2>1, <3>1 DEF Account, UnderWay, Waiting
  <2> QED
    BY <2>2, <2>3
<1> QED
  BY <1>4, <1>5, <1>6 DEF Retry

(* Counting a round is paid by the wakeup the round waited for.            *)
LEMMA AccountOnBlocked ==
  ASSUME SeamQueueAssumption, TypeInv, ~BlocksInCritical, \A v \in Tasks : Account(v),
         NEW t \in Tasks, OnBlocked(t), NEW u \in Tasks
  PROVE  Account(u)'
<1>1. /\ call[t] # NoCall /\ pc[t] = "blocked" /\ ~died
      /\ spins[t] \in Nat /\ wakes[t] \in Nat
      /\ UNCHANGED <<parked, running, depth, call, wakes>>
  BY DEF OnBlocked, CanRun, TypeInv, TypeOK, InCallInv
<1>2. spins' = [spins EXCEPT ![t] = spins[t] + 1]
  BY DEF OnBlocked, CountRound
<1>3. CASE u = t
  <2>1. spins'[t] = spins[t] + 1 /\ UnderWay(t) = 1 /\ Waiting(t)' = Waiting(t)
    BY <1>1, <1>2 DEF UnderWay, Waiting, TypeInv, TypeOK
  <2>2. CASE died' = TRUE /\ UNCHANGED <<pc, owed>>
    BY <1>1, <1>3, <2>1, <2>2 DEF Account, UnderWay
  <2>3. CASE call[t].ticks = 0 /\ pc' = [pc EXCEPT ![t] = "fail"] /\ UNCHANGED <<died, owed>>
    BY <1>1, <1>3, <2>1, <2>3 DEF Account, UnderWay, TypeInv, TypeOK
  <2>4. CASE call[t].ticks # 0 /\ pc' = [pc EXCEPT ![t] = "loop"] /\ owed' = TRUE /\ UNCHANGED died
    BY <1>1, <1>3, <2>1, <2>4 DEF Account, UnderWay, TypeInv, TypeOK
  <2> QED
    BY <2>2, <2>3, <2>4 DEF OnBlocked, IsAPoll, yield_now
<1>4. CASE u # t
  <2>1. /\ spins'[u] = spins[u] /\ pc'[u] = pc[u] /\ (owed => owed')
    BY <1>2, <1>4 DEF OnBlocked, yield_now, TypeInv, TypeOK
  <2>2. UnderWay(u)' <= UnderWay(u) /\ UnderWay(u) \in {0, 1} /\ UnderWay(u)' \in {0, 1}
    BY <1>1, <2>1 DEF UnderWay
  <2>3. spins[u] \in Nat /\ wakes[u] \in Nat /\ Waiting(u)' = Waiting(u) /\ Waiting(u) \in {0, 1}
    BY <1>1 DEF TypeInv, TypeOK, Waiting
  <2> QED
    BY <1>1, <2>1, <2>2, <2>3 DEF Account
<1> QED
  BY <1>3, <1>4

(* The scheduler gives the CPU only to tasks that wait for nothing.        *)
LEMMA AccountSwitch ==
  ASSUME SeamQueueAssumption, TypeInv, \A v \in Tasks : Account(v), pick_next, NEW u \in Tasks
  PROVE  Account(u)'
<1>1. running' = u => parked[u] = "no"
  BY DEF pick_next, Choice, Best, Ready, SeamQueueAssumption
<1> QED
  BY <1>1 DEF pick_next, callVars, Account, UnderWay, Waiting

(* Every round of every loop is paid by a wakeup, or by the first call.    *)
THEOREM AccountInvariant == Spec => []AccountInv
<1> USE SeamQueueAssumption
<1>1. ASSUME Init PROVE AccountInv
  BY <1>1 DEF Init, AccountInv, Account, UnderWay, Waiting
<1>2. TypeInv /\ AccountInv /\ [Next]_vars => AccountInv'
  <2> SUFFICES ASSUME TypeInv, AccountInv, [Next]_vars, ~BlocksInCritical, NEW u \in Tasks
               PROVE  Account(u)'
    BY DEF AccountInv
  <2>0. \A v \in Tasks : Account(v)
    BY DEF AccountInv
  <2>1. ASSUME NEW t \in Tasks, Enter(t) PROVE Account(u)'
    BY <2>0, <2>1, AccountEnter
  <2>2. ASSUME NEW t \in Tasks,
               xQueueGenericSend(t) \/ xQueueReceive(t) \/ xQueuePeek(t)
        PROVE  Account(u)'
    BY <2>0, <2>2, AccountRetry DEF xQueueGenericSend, xQueueReceive, xQueuePeek
  <2>3. ASSUME NEW t \in Tasks, OnBlocked(t) PROVE Account(u)'
    BY <2>0, <2>3, AccountOnBlocked
  <2>4. ASSUME NEW t \in Tasks, Return(t) PROVE Account(u)'
    BY <2>0, <2>4 DEF Return, kernelVars, Account, UnderWay, Waiting, TypeInv, TypeOK
  <2>5. ASSUME NEW t \in Tasks, xTaskAbortDelay(t) PROVE Account(u)'
    <3>1. PICK w \in Tasks \ {t} :
            /\ parked[w] # "no"
            /\ parked' = [parked EXCEPT ![w] = "no"]
            /\ wakes' = [wakes EXCEPT ![w] = @ + 1]
      BY <2>5 DEF xTaskAbortDelay, Ready
    <3>2. /\ owed' = TRUE /\ UNCHANGED <<running, depth, call, pc, spins>> /\ died' = died
      BY <2>5 DEF xTaskAbortDelay, callVars
    <3>3. \/ parked'[u] = parked[u] /\ wakes'[u] = wakes[u]
          \/ parked[u] # "no" /\ parked'[u] = "no" /\ wakes'[u] = wakes[u] + 1
      BY <3>1 DEF TypeInv, TypeOK
    <3> QED
      BY <2>0, <3>2, <3>3, AccountWoken
  <2>6. ASSUME NEW t \in Tasks, vPortEnterCritical(t) \/ vPortExitCritical(t) PROVE Account(u)'
    BY <2>0, <2>6 DEF vPortEnterCritical, vPortExitCritical, CanRun, callVars,
                      Account, UnderWay, Waiting, TypeInv, InCallInv
  <2>7. ASSUME pick_next PROVE Account(u)'
    BY <2>0, <2>7, AccountSwitch
  <2>8. ASSUME on_tick PROVE Account(u)'
    <3>1. TypeOK
      BY DEF TypeInv
    <3>2. PICK woken \in SUBSET Tasks : TickWith(woken) /\ \A w \in woken : Unparked[w] # "no"
      BY <2>8, <3>1, TickShape
    <3>3. UNCHANGED <<running, depth, call, pc, spins>> /\ died' = died
      BY <2>8, <3>1, TickShape DEF callVars
    <3>4. owed => owed'
      BY <3>2 DEF TickWith, WantOrWoke
    <3>5. \/ parked'[u] = parked[u] /\ wakes'[u] = wakes[u]
          \/ parked[u] # "no" /\ parked'[u] = "no" /\ wakes'[u] = wakes[u] + 1
      BY <3>1, <3>2, TickWithEffect
    <3> QED
      BY <2>0, <3>3, <3>4, <3>5, AccountWoken
  <2>9. CASE UNCHANGED vars
    BY <2>0, <2>9 DEF vars, kernelVars, callVars, Account, UnderWay, Waiting
  <2> QED
    BY <2>1, <2>2, <2>3, <2>4, <2>5, <2>6, <2>7, <2>8, <2>9 DEF Next, TaskStep, InCall
<1> QED
  BY <1>1, <1>2, TypeInvariant, PTL DEF Spec

(* retry.rs's claim for every program that does not block in a critical     *)
(* section: one iteration per wakeup, never a hot loop.                     *)
THEOREM OneRoundPerWakeup == Spec => []SpinsPaidByWakeups
<1>1. TypeInv /\ AccountInv => SpinsPaidByWakeups
  <2> SUFFICES ASSUME TypeInv, AccountInv, ~BlocksInCritical,
                      NEW t \in Tasks, call[t] # NoCall
               PROVE  spins[t] + UnderWay(t) <= wakes[t] + 1
    BY DEF SpinsPaidByWakeups, UnderWay
  <2>1. Account(t) /\ spins[t] \in Nat /\ wakes[t] \in Nat
    BY DEF AccountInv, TypeInv, TypeOK
  <2> QED
    BY <2>1 DEF Account, UnderWay, Waiting
<1> QED
  BY <1>1, TypeInvariant, AccountInvariant, PTL

-----------------------------------------------------------------------------
(* No wake-up is stranded.                                                  *)

(* The invariant behind NoStrandedWakeup needs no exception for critical    *)
(* sections or a stopped run: a task that outranks the running one is ready *)
(* only while a switch is pending.                                          *)
StrandInv == ~owed => \A t \in Tasks : Ready(t) => ~Outranks(t)

(* A ready task that outranks the running one has its switch pending.      *)
THEOREM StrandInvariant == Spec => []StrandInv
<1> USE SeamQueueAssumption
<1>0. \A t \in Tasks : Prio[t] \in Nat
  BY DEF SeamQueueAssumption
<1>1. ASSUME Init PROVE StrandInv
  <2>1. running \in Tasks /\ \A t \in Tasks : Prio[t] <= Prio[running]
    BY <1>1 DEF Init, Best, Ready
  <2> QED
    BY <1>0, <2>1 DEF StrandInv, Outranks, SeamQueueAssumption
<1>2. TypeInv /\ StrandInv /\ [Next]_vars => StrandInv'
  <2> SUFFICES ASSUME TypeInv, StrandInv, [Next]_vars,
                      ~owed', NEW u \in Tasks, Ready(u)'
               PROVE  ~Outranks(u)'
    BY DEF StrandInv
  <2>1. ASSUME NEW t \in Tasks,
               \/ Enter(t) \/ Return(t)
               \/ vPortEnterCritical(t) \/ vPortExitCritical(t)
        PROVE  ~Outranks(u)'
    BY <2>1 DEF Enter, Return, vPortEnterCritical, vPortExitCritical, kernelVars,
                StrandInv, Ready, Outranks
  <2>2. ASSUME NEW t \in Tasks,
               xQueueGenericSend(t) \/ xQueueReceive(t) \/ xQueuePeek(t)
        PROVE  ~Outranks(u)'
    <3> DEFINE c == call[t]
    <3>1. Retry(t) /\ UNCHANGED running /\ pc[t] = "loop"
      BY <2>2 DEF xQueueGenericSend, xQueueReceive, xQueuePeek, Retry
    <3>2. CASE Serve(t, c)
      <4>1. WokenBy(c) \in {"send", "receive"} /\ WakeOne(WokenBy(c)) /\ TypeOK
        BY <3>2 DEF WokenBy, Serve, TypeInv
      <4>2. /\ owed => owed'
            /\ parked'[u] = parked[u] \/ (Outranks(u) => owed')
        BY <4>1, WakeOneEffect
      <4> QED
        BY <3>1, <4>2 DEF StrandInv, Ready, Outranks
    <3>3. CASE Park(t, c)
      <4>1. UNCHANGED owed /\ (parked'[u] = parked[u] \/ parked'[u] # "no")
        BY <3>3 DEF Park, SideOf, TypeInv, TypeOK
      <4> QED
        BY <3>1, <4>1 DEF StrandInv, Ready, Outranks
    <3>4. CASE TimeOut(t, c)
      BY <3>1, <3>4 DEF TimeOut, StrandInv, Ready, Outranks
    <3> QED
      BY <3>1, <3>2, <3>3, <3>4 DEF Retry
  <2>3. ASSUME NEW t \in Tasks, OnBlocked(t) PROVE ~Outranks(u)'
    BY <2>3 DEF OnBlocked, yield_now, StrandInv, Ready, Outranks
  <2>4. ASSUME NEW t \in Tasks, xTaskAbortDelay(t) PROVE ~Outranks(u)'
    BY <2>4 DEF xTaskAbortDelay
  <2>5. ASSUME pick_next PROVE ~Outranks(u)'
    <3>1. Ready(u) /\ running' \in Choice /\ parked' = parked
      BY <2>5 DEF pick_next, Ready
    <3>2. running' \in Tasks /\ Prio[u] <= Prio[running']
      BY <3>1, ChoiceIsBest
    <3> QED
      BY <1>0, <3>2 DEF Outranks, SeamQueueAssumption
  <2>6. ASSUME on_tick PROVE ~Outranks(u)'
    <3>1. TypeOK
      BY DEF TypeInv
    <3>2. PICK woken \in SUBSET Tasks : TickWith(woken) /\ \A w \in woken : Unparked[w] # "no"
      BY <2>6, <3>1, TickShape
    <3>3. UNCHANGED running
      BY <2>6, <3>1, TickShape
    <3>4. ~owed /\ ~WantsSwitch /\ \A w \in woken : ~Outranks(w)
      BY <3>2 DEF TickWith, WantOrWoke
    <3>5. u \in woken \/ u \in Expiring \/ Ready(u)
      BY <3>2 DEF TickWith, Unparked, Ready
    <3>6. CASE u \in woken
      BY <3>3, <3>4, <3>6 DEF Outranks
    <3>7. CASE (u \in Expiring \/ Ready(u)) /\ u # running
      <4>1. running # NoTask /\ ~(Prio[u] >= Prio[running])
        BY <3>4, <3>7 DEF WantsSwitch
      <4>2. running \in Tasks
        BY <4>1 DEF TypeInv, TypeOK
      <4> QED
        BY <1>0, <3>3, <4>1, <4>2 DEF Outranks
    <3>8. CASE u = running
      BY <1>0, <3>3, <3>8 DEF Outranks, SeamQueueAssumption
    <3> QED
      BY <3>5, <3>6, <3>7, <3>8
  <2>7. CASE UNCHANGED vars
    BY <2>7 DEF vars, kernelVars, StrandInv, Ready, Outranks
  <2> QED
    BY <2>1, <2>2, <2>3, <2>4, <2>5, <2>6, <2>7 DEF Next, TaskStep, InCall
<1> QED
  BY <1>1, <1>2, TypeInvariant, PTL DEF Spec

(* set_woken's purpose, for every instance: whatever woke it, a task that   *)
(* should be running either runs or has its switch pending.                 *)
THEOREM WakeupsReachTheScheduler == Spec => []NoStrandedWakeup
<1>1. StrandInv => NoStrandedWakeup
  BY DEF StrandInv, NoStrandedWakeup
<1> QED
  BY <1>1, StrandInvariant, PTL

-----------------------------------------------------------------------------
(* What the refinement needs beside the types.                             *)

Trying(t) == pc[t] \in {"loop", "blocked"}

(* A task that is in no loop, or whose call has no block time, is not      *)
(* parked and has no deadline.                                             *)
NoLeftovers(t) ==
  (~Trying(t) \/ call[t].ticks = 0) => left[t] = NoCall /\ Ready(t)

(* A deadline never runs ahead of the block time the call has used.        *)
OnTime(t) == left[t] # NoCall => left[t] + age[t] >= call[t].ticks

(* A parked task still on the CPU is on its way off it; inside a critical  *)
(* section, which keeps it there, nothing can come to serve or end its     *)
(* call.                                                                   *)
Stuck(t) ==
  (running = t /\ ~Ready(t)) =>
    IF depth = 0 THEN pc[t] = "blocked" \/ owed
                 ELSE ~CanServe(call[t]) /\ left[t] # 0

(* A position that decodes to nothing never reaches the kernel.            *)
Decoded(t) == Trying(t) => ~(call[t].op = "send" /\ call[t].position = "bad")

RefInv == \A t \in Tasks : NoLeftovers(t) /\ OnTime(t) /\ Stuck(t) /\ Decoded(t)

-----------------------------------------------------------------------------
(* RefInv is an invariant.                                                 *)

(* A task is not concerned by a step that leaves its own call alone, while *)
(* it is not the one that has the CPU.                                     *)
LEMMA Unconcerned ==
  ASSUME RefInv, NEW u \in Tasks, running' # u,
         pc'[u] = pc[u], call'[u] = call[u], left'[u] = left[u], age'[u] = age[u],
         parked'[u] = parked[u] \/ parked'[u] = "no"
  PROVE  (NoLeftovers(u) /\ OnTime(u) /\ Stuck(u) /\ Decoded(u))'
  BY DEF RefInv, NoLeftovers, OnTime, Stuck, Decoded, Trying, Ready

(* What the types say of one task.                                         *)
LEMMA TaskTypes ==
  ASSUME SeamQueueAssumption, TypeInv, NEW t \in Tasks
  PROVE  /\ left[t] \in Nat \/ left[t] = NoCall
         /\ age[t] \in Nat /\ age[t] <= MaxWait /\ MaxWait \in Nat /\ NoCall \notin Nat
         /\ pc[t] # "c" => /\ call[t] \in Calls /\ call[t] # NoCall
                           /\ call[t].ticks \in Nat /\ call[t].ticks <= MaxWait
  <1>1. MaxWait \in Nat /\ NoCall \notin Nat BY DEF SeamQueueAssumption
  <1>2. left[t] \in 0 .. MaxWait \cup {NoCall} /\ age[t] \in 0 .. MaxWait
    BY DEF TypeInv, TypeOK
  <1>3. pc[t] # "c" => call[t] \in Calls /\ call[t] # NoCall
    BY DEF TypeInv, TypeOK, InCallInv
  <1>4. \A c \in Calls : c.ticks \in 0 .. MaxWait BY DEF Calls, Sends, Receives
  <1> QED BY <1>1, <1>2, <1>3, <1>4

(* Making a call.                                                          *)
LEMMA EnterRef ==
  ASSUME SeamQueueAssumption, TypeInv, RefInv, NEW t \in Tasks, Enter(t)
  PROVE  RefInv'
  <1>1. PICK c \in Program[t] :
          /\ call' = [call EXCEPT ![t] = c]
          /\ pc' = [pc EXCEPT ![t] =
                      IF c.op = "send" /\ c.position = "bad" THEN "fail" ELSE "loop"]
    BY DEF Enter
  <1>2. /\ running = t /\ pc[t] = "c" /\ age' = [age EXCEPT ![t] = 0]
        /\ UNCHANGED <<queue, parked, left, running, owed, depth>>
    BY DEF Enter, CanRun, kernelVars
  <1>3. left[t] = NoCall /\ Ready(t) BY <1>2 DEF RefInv, NoLeftovers, Trying
  <1>4. /\ call'[t] = c
        /\ pc'[t] = IF c.op = "send" /\ c.position = "bad" THEN "fail" ELSE "loop"
    BY <1>1 DEF TypeInv, TypeOK
  <1>5. (NoLeftovers(t) /\ OnTime(t) /\ Stuck(t) /\ Decoded(t))'
    BY <1>2, <1>3, <1>4 DEF NoLeftovers, OnTime, Stuck, Decoded, Trying, Ready
  <1>6. ASSUME NEW u \in Tasks, u # t
        PROVE  (NoLeftovers(u) /\ OnTime(u) /\ Stuck(u) /\ Decoded(u))'
    <2>1. pc'[u] = pc[u] /\ call'[u] = call[u] /\ age'[u] = age[u]
      BY <1>1, <1>2, <1>6 DEF TypeInv, TypeOK
    <2> QED BY <1>2, <1>6, <2>1, Unconcerned
  <1> QED BY <1>5, <1>6 DEF RefInv

(* A kernel call of a task that is not parked, or that a critical section  *)
(* keeps on the CPU: in that case it is parked again.                      *)
LEMMA RetryRef ==
  ASSUME SeamQueueAssumption, TypeInv, RefInv,
         NEW t \in Tasks, CanRun(t), pc[t] = "loop", Retry(t)
  PROVE  RefInv'
  <1> DEFINE c == call[t]
  <1>1. /\ running = t /\ running' = t /\ depth' = depth /\ call' = call /\ age' = age
        /\ (owed => depth > 0) /\ depth \in {0, 1} /\ Trying(t)
    BY DEF Retry, CanRun, Trying, TypeInv, TypeOK
  <1>2. /\ left[t] \in Nat \/ left[t] = NoCall
        /\ age[t] \in Nat /\ NoCall \notin Nat /\ c.ticks \in Nat
    BY TaskTypes
  <1>3. ~Ready(t) => ~CanServe(c) /\ left[t] # 0
    BY <1>1 DEF RefInv, Stuck
  <1>4. CASE Serve(t, c) /\ pc' = [pc EXCEPT ![t] = "pass"]
    <2>1. WokenBy(c) \in {"send", "receive"} /\ WakeOne(WokenBy(c)) /\ TypeOK
      BY <1>4 DEF WokenBy, Serve, TypeInv
    <2>2. \A u \in Tasks : parked'[u] = parked[u] \/ parked'[u] = "no"
      BY <2>1, WakeOneEffect
    <2>3. Ready(t) BY <1>3, <1>4 DEF Serve
    <2>4. parked'[t] = "no" /\ pc'[t] = "pass" /\ left'[t] = NoCall
      BY <1>4, <2>2, <2>3 DEF Ready, Serve, TypeInv, TypeOK
    <2>5. (NoLeftovers(t) /\ OnTime(t) /\ Stuck(t) /\ Decoded(t))'
      BY <2>4 DEF NoLeftovers, OnTime, Stuck, Decoded, Trying, Ready
    <2>6. ASSUME NEW u \in Tasks, u # t
          PROVE  (NoLeftovers(u) /\ OnTime(u) /\ Stuck(u) /\ Decoded(u))'
      <3>1. pc'[u] = pc[u] /\ left'[u] = left[u]
        BY <1>4, <2>6 DEF Serve, TypeInv, TypeOK
      <3> QED BY <1>1, <2>2, <2>6, <3>1, Unconcerned
    <2> QED BY <2>5, <2>6 DEF RefInv
  <1>5. CASE Park(t, c) /\ pc' = [pc EXCEPT ![t] = "blocked"]
    <2>1. /\ ~CanServe(c) /\ left[t] # 0 /\ pc'[t] = "blocked"
          /\ queue' = queue /\ CanServe(c)' = CanServe(c)
      BY <1>1, <1>5 DEF Park, CanServe, TypeInv, TypeOK
    <2>2. CASE c.ticks = 0
      <3>1. parked' = parked /\ left' = left BY <1>5, <2>2 DEF Park
      <3>2. left[t] = NoCall /\ Ready(t) BY <1>1, <2>2 DEF RefInv, NoLeftovers
      <3> QED
        BY <1>1, <2>1, <2>2, <3>1, <3>2, <1>5
        DEF RefInv, NoLeftovers, OnTime, Stuck, Decoded, Trying, Ready, TypeInv, TypeOK
    <2>3. CASE c.ticks # 0
      <3>1. /\ parked' = [parked EXCEPT ![t] = SideOf(c)]
            /\ left' = [left EXCEPT ![t] = IF @ = NoCall THEN c.ticks ELSE @]
        BY <1>5, <2>3 DEF Park
      <3>2. left'[t] = IF left[t] = NoCall THEN c.ticks ELSE left[t]
        BY <3>1 DEF TypeInv, TypeOK
      <3>3. left'[t] # 0 /\ left'[t] \in Nat /\ left'[t] + age'[t] >= c.ticks
        BY <1>1, <1>2, <2>1, <2>3, <3>2 DEF RefInv, OnTime
      <3>4. (NoLeftovers(t) /\ OnTime(t) /\ Stuck(t) /\ Decoded(t))'
        BY <1>1, <2>1, <2>3, <3>3
        DEF RefInv, NoLeftovers, OnTime, Stuck, Decoded, Trying, Ready
      <3>5. ASSUME NEW u \in Tasks, u # t
            PROVE  (NoLeftovers(u) /\ OnTime(u) /\ Stuck(u) /\ Decoded(u))'
        <4>1. pc'[u] = pc[u] /\ left'[u] = left[u] /\ parked'[u] = parked[u]
          BY <1>5, <3>1, <3>5 DEF TypeInv, TypeOK
        <4> QED BY <1>1, <3>5, <4>1, Unconcerned
      <3> QED BY <3>4, <3>5 DEF RefInv
    <2> QED BY <2>2, <2>3
  <1>6. CASE TimeOut(t, c) /\ pc' = [pc EXCEPT ![t] = "fail"]
    <2>1. /\ left[t] = 0 /\ parked' = parked
          /\ left'[t] = NoCall /\ pc'[t] = "fail"
      BY <1>6 DEF TimeOut, TypeInv, TypeOK
    <2>2. Ready(t) BY <1>3, <2>1
    <2>3. (NoLeftovers(t) /\ OnTime(t) /\ Stuck(t) /\ Decoded(t))'
      BY <2>1, <2>2 DEF NoLeftovers, OnTime, Stuck, Decoded, Trying, Ready
    <2>4. ASSUME NEW u \in Tasks, u # t
          PROVE  (NoLeftovers(u) /\ OnTime(u) /\ Stuck(u) /\ Decoded(u))'
      <3>1. pc'[u] = pc[u] /\ left'[u] = left[u]
        BY <1>6, <2>4 DEF TimeOut, TypeInv, TypeOK
      <3> QED BY <1>1, <2>1, <2>4, <3>1, Unconcerned
    <2> QED BY <2>3, <2>4 DEF RefInv
  <1> QED BY <1>4, <1>5, <1>6 DEF Retry

(* The Blocked arm.  A poll has no deadline to leave behind; a parked task *)
(* pends the switch that takes it off the CPU.                             *)
LEMMA OnBlockedRef ==
  ASSUME SeamQueueAssumption, TypeInv, RefInv, NEW t \in Tasks, OnBlocked(t)
  PROVE  RefInv'
  <1>1. /\ running = t /\ running' = t /\ pc[t] = "blocked" /\ Trying(t)
        /\ UNCHANGED <<queue, parked, left, depth, call, age>>
    BY DEF OnBlocked, CanRun, Trying
  <1>2. /\ pc' \in {pc, [pc EXCEPT ![t] = "fail"], [pc EXCEPT ![t] = "loop"]}
        /\ owed' = owed \/ owed' = TRUE
    BY DEF OnBlocked, yield_now
  <1>3. \/ pc'[t] = "blocked" /\ owed' = owed
        \/ pc'[t] = "fail" /\ call[t].ticks = 0
        \/ pc'[t] = "loop" /\ owed' = TRUE
    BY <1>1 DEF OnBlocked, yield_now, IsAPoll, TypeInv, TypeOK
  <1>4. NoLeftovers(t) /\ OnTime(t) /\ Stuck(t) /\ Decoded(t)
    BY DEF RefInv
  <1>5. CanServe(call[t])' = CanServe(call[t]) /\ Ready(t)' = Ready(t)
    BY <1>1 DEF CanServe, Ready
  <1>6. (NoLeftovers(t) /\ OnTime(t) /\ Stuck(t) /\ Decoded(t))'
    BY <1>1, <1>3, <1>4, <1>5 DEF NoLeftovers, OnTime, Stuck, Decoded, Trying, Ready
  <1>7. ASSUME NEW u \in Tasks, u # t
        PROVE  (NoLeftovers(u) /\ OnTime(u) /\ Stuck(u) /\ Decoded(u))'
    <2>1. pc'[u] = pc[u] BY <1>2, <1>7 DEF TypeInv, TypeOK
    <2> QED BY <1>1, <1>7, <2>1, Unconcerned
  <1> QED BY <1>6, <1>7 DEF RefInv

(* Returning: the call is over and had nothing left over.                  *)
LEMMA ReturnRef ==
  ASSUME SeamQueueAssumption, TypeInv, RefInv, NEW t \in Tasks, Return(t)
  PROVE  RefInv'
  <1>1. /\ running = t /\ running' = t /\ ~Trying(t)
        /\ UNCHANGED <<queue, parked, left, owed, depth, age>>
        /\ pc' = [pc EXCEPT ![t] = "c"] /\ call' = [call EXCEPT ![t] = NoCall]
    BY DEF Return, CanRun, Trying, kernelVars
  <1>2. left[t] = NoCall /\ Ready(t) BY <1>1 DEF RefInv, NoLeftovers
  <1>3. pc'[t] = "c" BY <1>1 DEF TypeInv, TypeOK
  <1>4. (NoLeftovers(t) /\ OnTime(t) /\ Stuck(t) /\ Decoded(t))'
    BY <1>1, <1>2, <1>3 DEF NoLeftovers, OnTime, Stuck, Decoded, Trying, Ready
  <1>5. ASSUME NEW u \in Tasks, u # t
        PROVE  (NoLeftovers(u) /\ OnTime(u) /\ Stuck(u) /\ Decoded(u))'
    <2>1. pc'[u] = pc[u] /\ call'[u] = call[u] BY <1>1, <1>5 DEF TypeInv, TypeOK
    <2> QED BY <1>1, <1>5, <2>1, Unconcerned
  <1> QED BY <1>4, <1>5 DEF RefInv

(* Aborting a wait: only a task in a loop is parked, so only its own call  *)
(* is told that its block time is used up.                                 *)
LEMMA AbortRef ==
  ASSUME SeamQueueAssumption, TypeInv, RefInv, NEW t \in Tasks, xTaskAbortDelay(t)
  PROVE  RefInv'
  <1>1. /\ running = t /\ running' = t /\ pc[t] = "c"
        /\ UNCHANGED <<queue, depth, call, pc>>
    BY DEF xTaskAbortDelay, CanRun, callVars
  <1>2. PICK w \in Tasks \ {t} :
          /\ ~Ready(w)
          /\ parked' = [parked EXCEPT ![w] = "no"]
          /\ left' = [left EXCEPT ![w] = 0]
          /\ age' = [age EXCEPT ![w] = MaxWait]
    BY DEF xTaskAbortDelay
  <1>3. Trying(w) /\ call[w].ticks # 0 BY <1>2 DEF RefInv, NoLeftovers
  <1>4. parked'[w] = "no" /\ left'[w] = 0 /\ age'[w] = MaxWait
    BY <1>2 DEF TypeInv, TypeOK
  <1>5. /\ call[w].ticks \in Nat /\ call[w].ticks <= MaxWait /\ MaxWait \in Nat
        /\ Trying(w)' /\ Decoded(w)'
    BY <1>1, <1>3, TaskTypes DEF Trying, RefInv, Decoded
  <1>6. (NoLeftovers(w) /\ OnTime(w) /\ Stuck(w) /\ Decoded(w))'
    BY <1>1, <1>2, <1>3, <1>4, <1>5 DEF NoLeftovers, OnTime, Stuck, Ready
  <1>7. ASSUME NEW u \in Tasks, u # w
        PROVE  (NoLeftovers(u) /\ OnTime(u) /\ Stuck(u) /\ Decoded(u))'
    <2>1. /\ parked'[u] = parked[u] /\ left'[u] = left[u] /\ age'[u] = age[u]
          /\ pc'[u] = pc[u] /\ call'[u] = call[u]
      BY <1>1, <1>2, <1>7 DEF TypeInv, TypeOK
    <2>2. CASE u = t
      <3>1. Ready(t) BY <1>1 DEF RefInv, NoLeftovers, Trying
      <3> QED
        BY <2>1, <2>2, <3>1 DEF RefInv, NoLeftovers, OnTime, Stuck, Decoded, Trying, Ready
    <2>3. CASE u # t BY <1>1, <2>1, <2>3, Unconcerned
    <2> QED BY <2>2, <2>3
  <1> QED BY <1>6, <1>7 DEF RefInv

(* A critical section is entered and left by a task that is not parked.    *)
LEMMA CriticalRef ==
  ASSUME RefInv, NEW t \in Tasks,
         vPortEnterCritical(t) \/ vPortExitCritical(t)
  PROVE  RefInv'
  <1>1. /\ running = t /\ pc[t] = "c"
        /\ UNCHANGED <<queue, parked, left, running, owed, call, pc, age>>
    BY DEF vPortEnterCritical, vPortExitCritical, CanRun, callVars
  <1>2. Ready(t) BY <1>1 DEF RefInv, NoLeftovers, Trying
  <1> QED
    BY <1>1, <1>2 DEF RefInv, NoLeftovers, OnTime, Stuck, Decoded, Trying, Ready

(* The switch gives the CPU to a ready task, or to the idle task.          *)
LEMMA SwitchRef ==
  ASSUME SeamQueueAssumption, RefInv, pick_next
  PROVE  RefInv'
  <1>1. running' \in Choice /\ UNCHANGED <<queue, parked, left, depth, call, pc, age>>
    BY DEF pick_next, callVars
  <1>2. \A t \in Tasks : running' = t => Ready(t)
    BY <1>1 DEF Choice, Best, SeamQueueAssumption
  <1> QED
    BY <1>1, <1>2 DEF RefInv, NoLeftovers, OnTime, Stuck, Decoded, Trying, Ready

(* A tick takes one from every deadline and adds one to the block time     *)
(* used, and only unparks.                                                 *)
LEMMA TickRef ==
  ASSUME SeamQueueAssumption, TypeInv, RefInv, on_tick
  PROVE  RefInv'
  <1>1. /\ depth = 0 /\ UNCHANGED <<running, depth, call, pc>>
        /\ \E woken \in SUBSET Tasks : TickWith(woken)
    BY DEF on_tick, callVars
  <1>2. PICK woken \in SUBSET Tasks : TickWith(woken) BY <1>1
  <1>3. ASSUME NEW t \in Tasks
        PROVE  (NoLeftovers(t) /\ OnTime(t) /\ Stuck(t) /\ Decoded(t))'
    <2>1. parked'[t] = parked[t] \/ parked'[t] = "no" BY <1>2 DEF TickWith, Unparked
    <2>2. /\ left'[t] = IF left[t] \in Nat \ {0} THEN left[t] - 1 ELSE left[t]
          /\ age'[t] = IF call[t] # NoCall /\ age[t] < MaxWait THEN age[t] + 1 ELSE age[t]
      BY <1>2 DEF TickWith
    <2>3. owed \in BOOLEAN /\ owed' \in BOOLEAN /\ (owed => owed')
      BY <1>2 DEF TickWith, WantOrWoke, TypeInv, TypeOK
    <2>4. NoLeftovers(t) /\ OnTime(t) /\ Stuck(t) /\ Decoded(t) BY DEF RefInv
    <2>5. NoLeftovers(t)' /\ Decoded(t)'
      <3>1. left[t] = NoCall => left'[t] = NoCall
        BY <2>2, TaskTypes
      <3> QED BY <1>1, <2>1, <2>4, <3>1 DEF NoLeftovers, Decoded, Trying, Ready
    <2>6. Stuck(t)' BY <1>1, <2>1, <2>3, <2>4 DEF Stuck, Ready
    <2>7. OnTime(t)'
      <3>1. CASE left[t] = NoCall
        BY <2>2, <3>1, TaskTypes DEF OnTime
      <3>2. CASE left[t] # NoCall
        <4>1. /\ left[t] \in Nat /\ age[t] \in Nat /\ age[t] <= MaxWait /\ MaxWait \in Nat
              /\ pc[t] # "c" /\ call[t] # NoCall
              /\ call[t].ticks \in Nat /\ call[t].ticks <= MaxWait
              /\ left[t] + age[t] >= call[t].ticks
          BY <2>4, <3>2, TaskTypes DEF NoLeftovers, OnTime, Trying
        <4>2. left'[t] + age'[t] >= call[t].ticks
          BY <2>2, <4>1
        <4> QED BY <1>1, <4>2 DEF OnTime
      <3> QED BY <3>1, <3>2
    <2> QED BY <2>5, <2>6, <2>7
  <1> QED BY <1>3 DEF RefInv

(* RefInv holds of every behaviour: deadlines, parked tasks and running    *)
(* task agree as the refinement needs them to.                             *)
THEOREM RefInvariant == Spec => []RefInv
  <1>1. Init => RefInv
    BY DEF Init, RefInv, NoLeftovers, OnTime, Stuck, Decoded, Trying, Ready
  <1>2. ASSUME TypeInv, RefInv, [Next]_vars PROVE RefInv'
    <2>1. ASSUME NEW t \in Tasks, TaskStep(t) PROVE RefInv'
      <3>1. CASE Enter(t) BY <1>2, <3>1, EnterRef, SeamQueueAssumption
      <3>2. CASE xQueueGenericSend(t) \/ xQueueReceive(t) \/ xQueuePeek(t)
        <4>1. CanRun(t) /\ pc[t] = "loop" /\ Retry(t)
          BY <3>2 DEF xQueueGenericSend, xQueueReceive, xQueuePeek
        <4> QED BY <1>2, <4>1, RetryRef, SeamQueueAssumption
      <3>3. CASE OnBlocked(t) BY <1>2, <3>3, OnBlockedRef, SeamQueueAssumption
      <3>4. CASE Return(t) BY <1>2, <3>4, ReturnRef, SeamQueueAssumption
      <3>5. CASE xTaskAbortDelay(t) BY <1>2, <3>5, AbortRef, SeamQueueAssumption
      <3>6. CASE vPortEnterCritical(t) \/ vPortExitCritical(t)
        BY <1>2, <3>6, CriticalRef
      <3> QED
        BY <2>1, <3>1, <3>2, <3>3, <3>4, <3>5, <3>6 DEF TaskStep, InCall
    <2>2. CASE pick_next BY <1>2, <2>2, SwitchRef, SeamQueueAssumption
    <2>3. CASE on_tick BY <1>2, <2>3, TickRef, SeamQueueAssumption
    <2>4. CASE UNCHANGED vars
      BY <1>2, <2>4
      DEF vars, kernelVars, callVars, RefInv, NoLeftovers, OnTime, Stuck, Decoded,
          Trying, Ready, CanServe
    <2> QED BY <1>2, <2>1, <2>2, <2>3, <2>4 DEF Next
  <1> QED BY <1>1, <1>2, TypeInvariant, PTL DEF Spec

-----------------------------------------------------------------------------
(* Every step of the loops is a step of the contract or changes nothing    *)
(* the contract sees.                                                      *)

(* The outcomes after a step that settles one call.                        *)
LEMMA OneOutcome ==
  ASSUME NEW t \in Tasks, NEW o, Outcome(t)' = o,
         \A u \in Tasks \ {t} : Outcome(u)' = Outcome(u)
  PROVE  [u \in Tasks |-> Outcome(u)]' = [[u \in Tasks |-> Outcome(u)] EXCEPT ![t] = o]
  OBVIOUS

(* The outcomes after a step that settles none.                            *)
LEMMA SameOutcomes ==
  ASSUME \A u \in Tasks : Outcome(u)' = Outcome(u)
  PROVE  [u \in Tasks |-> Outcome(u)]' = [u \in Tasks |-> Outcome(u)]
  OBVIOUS

(* An outcome depends on where the task is and on the call it is in.       *)
LEMMA OutcomeKept ==
  ASSUME NEW u \in Tasks, pc'[u] = pc[u], call'[u] = call[u]
  PROVE  Outcome(u)' = Outcome(u)
  BY DEF Outcome

(* Making a call.                                                          *)
LEMMA EnterMaps ==
  ASSUME TypeInv, NEW t \in Tasks, Enter(t)
  PROVE  QC!Next
  <1>1. PICK c \in Program[t] :
          /\ call' = [call EXCEPT ![t] = c]
          /\ pc' = [pc EXCEPT ![t] =
                      IF c.op = "send" /\ c.position = "bad" THEN "fail" ELSE "loop"]
    BY DEF Enter
  <1>2. /\ pc[t] = "c" /\ queue' = queue /\ got' = got
        /\ age' = [age EXCEPT ![t] = 0]
    BY DEF Enter, kernelVars
  <1>3. call[t] = NoCall BY <1>2 DEF TypeInv, InCallInv
  <1>4. Outcome(t)' = IF c.op = "send" /\ c.position = "bad" THEN "failed" ELSE "pending"
    BY <1>1 DEF Outcome, TypeInv, TypeOK
  <1>5. \A u \in Tasks \ {t} : Outcome(u)' = Outcome(u)
    <2>1. \A u \in Tasks \ {t} : pc'[u] = pc[u] /\ call'[u] = call[u]
      BY <1>1 DEF TypeInv, TypeOK
    <2> QED BY <2>1, OutcomeKept
  <1>6. [u \in Tasks |-> Outcome(u)]' =
          [[u \in Tasks |-> Outcome(u)] EXCEPT ![t] =
             IF c.op = "send" /\ c.position = "bad" THEN "failed" ELSE "pending"]
    BY <1>4, <1>5, OneOutcome
  <1>7. QC!Invoke(t, c) BY <1>1, <1>2, <1>3, <1>6 DEF QC!Invoke
  <1> QED BY <1>7 DEF QC!Next

(* A served call takes effect; one that times out, and a poll that is not  *)
(* served, is refused; a parked one is still pending.                      *)
LEMMA RetryMaps ==
  ASSUME SeamQueueAssumption, TypeInv, RefInv,
         NEW t \in Tasks, CanRun(t), pc[t] = "loop", Retry(t)
  PROVE  [QC!Next]_QC!vars
  <1> DEFINE c == call[t]
  <1>1. /\ c \in Calls /\ c # NoCall /\ Trying(t) /\ Outcome(t) = "pending"
        /\ call' = call /\ age' = age
    BY TaskTypes DEF Retry, Trying, Outcome
  <1>2. QC!Possible(c) <=> CanServe(c) BY DEF QC!Possible, CanServe
  <1>3. \A pos \in PCs : pc' = [pc EXCEPT ![t] = pos] =>
          pc'[t] = pos /\ \A u \in Tasks \ {t} : Outcome(u)' = Outcome(u)
    <2> SUFFICES ASSUME NEW pos \in PCs, pc' = [pc EXCEPT ![t] = pos]
                 PROVE  pc'[t] = pos /\ \A u \in Tasks \ {t} : Outcome(u)' = Outcome(u)
      OBVIOUS
    <2>1. pc'[t] = pos /\ \A u \in Tasks \ {t} : pc'[u] = pc[u]
      BY DEF TypeInv, TypeOK
    <2> QED BY <1>1, <2>1, OutcomeKept
  <1>4. CASE /\ Serve(t, c) /\ pc' = [pc EXCEPT ![t] = "pass"]
             /\ got' = [got EXCEPT ![t] = IF c.op = "send" THEN NoCall ELSE Head(queue)]
    <2>1. CanServe(c) /\ queue' = After(c) BY <1>4 DEF Serve
    <2>2. QC!Effect(c)
      <3>1. ~(c.op = "send" /\ c.position = "bad") BY <1>1 DEF RefInv, Decoded
      <3>2. \/ c.op \in {"receive", "peek"}
            \/ c.op = "send" /\ c.position \in {"back", "front", "overwrite"}
        BY <1>1, <3>1 DEF Calls, Sends, Receives, Positions
      <3> QED BY <2>1, <3>2 DEF QC!Effect, After
    <2>3. Outcome(t)' = "passed" BY <1>3, <1>4 DEF Outcome, PCs
    <2>4. [u \in Tasks |-> Outcome(u)]' =
            [[u \in Tasks |-> Outcome(u)] EXCEPT ![t] = "passed"]
      BY <1>3, <1>4, <2>3, OneOutcome DEF PCs
    <2>5. QC!Pass(t) BY <1>1, <1>2, <1>4, <2>1, <2>2, <2>4 DEF QC!Pass
    <2> QED BY <2>5 DEF QC!Next
  <1>5. ASSUME Outcome(t)' = "failed", \A u \in Tasks \ {t} : Outcome(u)' = Outcome(u),
               ~CanServe(c), age[t] >= c.ticks, queue' = queue, got' = got
        PROVE  QC!Next
    <2>1. [u \in Tasks |-> Outcome(u)]' =
            [[u \in Tasks |-> Outcome(u)] EXCEPT ![t] = "failed"]
      BY <1>5, OneOutcome
    <2>2. QC!Refuse(t) BY <1>1, <1>2, <1>5, <2>1 DEF QC!Refuse
    <2> QED BY <2>2 DEF QC!Next
  <1>6. CASE Park(t, c) /\ pc' = [pc EXCEPT ![t] = "blocked"] /\ UNCHANGED got
    <2>1. ~CanServe(c) /\ queue' = queue BY <1>6 DEF Park
    <2>2. pc'[t] = "blocked" /\ \A u \in Tasks \ {t} : Outcome(u)' = Outcome(u)
      BY <1>3, <1>6 DEF PCs
    <2>3. CASE c.ticks = 0
      <3>1. Outcome(t)' = "failed" BY <1>1, <2>2, <2>3 DEF Outcome
      <3>2. age[t] >= c.ticks BY <2>3, TaskTypes
      <3> QED BY <1>5, <1>6, <2>1, <2>2, <3>1, <3>2
    <2>4. CASE c.ticks # 0
      <3>1. Outcome(t)' = Outcome(t) BY <1>1, <2>2, <2>4 DEF Outcome
      <3>2. [u \in Tasks |-> Outcome(u)]' = [u \in Tasks |-> Outcome(u)]
        BY <2>2, <3>1, SameOutcomes
      <3> QED BY <1>1, <1>6, <2>1, <3>2 DEF QC!vars
    <2> QED BY <2>3, <2>4
  <1>7. CASE TimeOut(t, c) /\ pc' = [pc EXCEPT ![t] = "fail"] /\ UNCHANGED got
    <2>1. ~CanServe(c) /\ left[t] = 0 /\ queue' = queue BY <1>7 DEF TimeOut
    <2>2. Outcome(t)' = "failed" /\ \A u \in Tasks \ {t} : Outcome(u)' = Outcome(u)
      BY <1>3, <1>7 DEF PCs, Outcome
    <2>3. age[t] >= c.ticks
      BY <2>1, TaskTypes DEF RefInv, OnTime
    <2> QED BY <1>5, <1>7, <2>1, <2>2, <2>3
  <1> QED BY <1>4, <1>6, <1>7 DEF Retry

(* The Blocked arm changes nothing the contract sees: a poll failed when   *)
(* the kernel answered, not now.                                           *)
LEMMA OnBlockedMaps ==
  ASSUME TypeInv, NEW t \in Tasks, OnBlocked(t)
  PROVE  UNCHANGED QC!vars
  <1>1. pc[t] = "blocked" /\ UNCHANGED <<queue, call, got, age>>
    BY DEF OnBlocked
  <1>2. \/ pc' = pc
        \/ pc' = [pc EXCEPT ![t] = "fail"] /\ call[t].ticks = 0
        \/ pc' = [pc EXCEPT ![t] = "loop"] /\ call[t].ticks # 0
    BY DEF OnBlocked, IsAPoll
  <1>3. \/ pc'[t] = "blocked"
        \/ pc'[t] = "fail" /\ call[t].ticks = 0
        \/ pc'[t] = "loop" /\ call[t].ticks # 0
    BY <1>1, <1>2 DEF TypeInv, TypeOK
  <1>4. Outcome(t)' = Outcome(t) BY <1>1, <1>3 DEF Outcome
  <1>5. \A u \in Tasks \ {t} : pc'[u] = pc[u] BY <1>2 DEF TypeInv, TypeOK
  <1>6. \A u \in Tasks : Outcome(u)' = Outcome(u) BY <1>1, <1>4, <1>5, OutcomeKept
  <1> QED BY <1>1, <1>6, SameOutcomes DEF QC!vars

(* The answer reaches the C.                                               *)
LEMMA ReturnMaps ==
  ASSUME SeamQueueAssumption, TypeInv, NEW t \in Tasks, Return(t)
  PROVE  QC!Next
  <1>1. /\ pc[t] \in {"pass", "fail"} /\ queue' = queue /\ age' = age
        /\ pc' = [pc EXCEPT ![t] = "c"] /\ call' = [call EXCEPT ![t] = NoCall]
        /\ got' = [got EXCEPT ![t] = NoCall]
    BY DEF Return, kernelVars
  <1>2. call[t] # NoCall BY <1>1 DEF TypeInv, InCallInv
  <1>3. pc'[t] = "c" /\ \A u \in Tasks \ {t} : pc'[u] = pc[u] /\ call'[u] = call[u]
    BY <1>1 DEF TypeInv, TypeOK
  <1>4. Outcome(t) # "pending" /\ Outcome(t)' = "pending"
    BY <1>1, <1>3 DEF Outcome
  <1>5. [u \in Tasks |-> Outcome(u)]' =
          [[u \in Tasks |-> Outcome(u)] EXCEPT ![t] = "pending"]
    BY <1>3, <1>4, OutcomeKept, OneOutcome
  <1>6. QC!Deliver(t) BY <1>1, <1>2, <1>4, <1>5 DEF QC!Deliver
  <1> QED BY <1>6 DEF QC!Next

(* An aborted wait is a call told to stop waiting.                         *)
LEMMA AbortMaps ==
  ASSUME SeamQueueAssumption, TypeInv, RefInv, NEW t \in Tasks, xTaskAbortDelay(t)
  PROVE  QC!Next
  <1>1. UNCHANGED <<queue, call, pc, got>> BY DEF xTaskAbortDelay, callVars
  <1>2. PICK w \in Tasks \ {t} : ~Ready(w) /\ age' = [age EXCEPT ![w] = MaxWait]
    BY DEF xTaskAbortDelay
  <1>3. Trying(w) BY <1>2 DEF RefInv, NoLeftovers
  <1>4. call[w] # NoCall BY <1>3, TaskTypes DEF Trying
  <1>5. [u \in Tasks |-> Outcome(u)]' = [u \in Tasks |-> Outcome(u)]
    BY <1>1, OutcomeKept, SameOutcomes
  <1>6. QC!Abort(w) BY <1>1, <1>2, <1>4, <1>5 DEF QC!Abort
  <1> QED BY <1>6 DEF QC!Next

(* A tick is time passing, with at most one interrupt-side use of the      *)
(* queue.                                                                  *)
LEMMA TickMaps ==
  ASSUME SeamQueueAssumption, on_tick
  PROVE  QC!Next
  <1>1. UNCHANGED <<call, pc, got>> BY DEF on_tick, callVars
  <1>2. age' = [t \in Tasks |->
                 IF call[t] # NoCall /\ age[t] < MaxWait THEN age[t] + 1 ELSE age[t]]
    BY DEF on_tick, TickWith
  <1>3. [u \in Tasks |-> Outcome(u)]' = [u \in Tasks |-> Outcome(u)]
    BY <1>1, OutcomeKept, SameOutcomes
  <1>4. UNCHANGED queue \/ \E c \in IsrProgram : QC!Possible(c) /\ QC!Effect(c)
    <2> SUFFICES ASSUME NEW c \in IsrProgram, CanServe(c), queue' = After(c)
                 PROVE  QC!Possible(c) /\ QC!Effect(c)
      BY DEF on_tick
    <2>1. \/ c.op \in {"receive", "peek"}
          \/ c.op = "send" /\ c.position \in {"back", "front", "overwrite"}
      BY DEF SeamQueueAssumption, Calls, Sends, Receives, Positions
    <2> QED BY <2>1 DEF QC!Possible, QC!Effect, CanServe, After
  <1>5. QC!Time BY <1>1, <1>2, <1>3, <1>4 DEF QC!Time
  <1> QED BY <1>5 DEF QC!Next

(* The blocking calls implement the contract of queue.h: with the retries, *)
(* the parking, the aborted waits and the preemptions hidden, every call   *)
(* takes effect exactly once or fails exactly when it may.                 *)
THEOREM Implements == Spec => ImplementsContract
  <1>1. Init => QC!Init
    BY SameOutcomes DEF Init, QC!Init, Outcome
  <1>2. TypeInv /\ RefInv /\ [Next]_vars => [QC!Next]_QC!vars
    <2> SUFFICES ASSUME TypeInv, RefInv, [Next]_vars
                 PROVE  [QC!Next]_QC!vars
      OBVIOUS
    <2>1. ASSUME NEW t \in Tasks, TaskStep(t) PROVE [QC!Next]_QC!vars
      <3>1. CASE Enter(t) BY <3>1, EnterMaps
      <3>2. CASE xQueueGenericSend(t) \/ xQueueReceive(t) \/ xQueuePeek(t)
        <4>1. CanRun(t) /\ pc[t] = "loop" /\ Retry(t)
          BY <3>2 DEF xQueueGenericSend, xQueueReceive, xQueuePeek
        <4> QED BY <4>1, RetryMaps, SeamQueueAssumption
      <3>3. CASE OnBlocked(t) BY <3>3, OnBlockedMaps
      <3>4. CASE Return(t) BY <3>4, ReturnMaps, SeamQueueAssumption
      <3>5. CASE xTaskAbortDelay(t) BY <3>5, AbortMaps, SeamQueueAssumption
      <3>6. CASE vPortEnterCritical(t) \/ vPortExitCritical(t)
        <4>1. UNCHANGED <<queue, call, pc, got, age>>
          BY <3>6 DEF vPortEnterCritical, vPortExitCritical, callVars
        <4> QED BY <4>1, OutcomeKept, SameOutcomes DEF QC!vars
      <3> QED BY <2>1, <3>1, <3>2, <3>3, <3>4, <3>5, <3>6 DEF TaskStep, InCall
    <2>2. CASE pick_next \/ UNCHANGED vars
      <3>1. UNCHANGED <<queue, call, pc, got, age>>
        BY <2>2 DEF pick_next, vars, kernelVars, callVars
      <3> QED BY <3>1, OutcomeKept, SameOutcomes DEF QC!vars
    <2>3. CASE on_tick BY <2>3, TickMaps, SeamQueueAssumption
    <2> QED BY <2>1, <2>2, <2>3 DEF Next
  <1> QED
    BY <1>1, <1>2, TypeInvariant, RefInvariant, PTL DEF Spec, ImplementsContract, QC!Spec

-----------------------------------------------------------------------------
(* The guard spares every wait that nobody can take from.                  *)

(* A task that has the CPU inside a critical section cannot lose it; what  *)
(* the guard does to its wait is what it is for.                           *)
Sealed(t) == depth > 0 /\ running = t
Waiter(t) == Trying(t) /\ call[t].ticks > 0 /\ ~Sealed(t)

(* The rounds counted, with the one under way, and the most there can be:  *)
(* one, or with interrupt halves that take what the call waits for one     *)
(* more for every tick of the block time that is over.                     *)
Used(t) == spins[t] + UnderWay(t)
Rounds(t) == IF IsrRivals(call[t]) THEN 1 + (call[t].ticks - left[t]) ELSE 1

(* Before its first try a call has used no round.                          *)
Fresh(t) == left[t] = NoCall => spins[t] = 0 /\ pc[t] = "loop" /\ Ready(t)

(* A parked call waits on its own side, with ticks left; whoever wakes it  *)
(* leaves what it waits for, or a tick has passed, and it may go round     *)
(* once more.                                                              *)
Within(t) ==
  left[t] # NoCall =>
    /\ left[t] <= call[t].ticks /\ Used(t) <= Rounds(t)
    /\ ~Ready(t) => parked[t] = SideOf(call[t]) /\ left[t] # 0
    /\ Ready(t) /\ left[t] # 0 => CanServe(call[t]) \/ Used(t) < Rounds(t)
    /\ IsrRivals(call[t]) /\ left[t] = 0 => Used(t) < Rounds(t)

(* A poll tries once.  A call is one of its task's program.                *)
Spared(t) ==
  /\ Trying(t) => call[t] \in Program[t] /\ (call[t].ticks = 0 => spins[t] = 0)
  /\ Waiter(t) => Fresh(t) /\ Within(t)
SpareInv == DiesOnlySealed /\ \A t \in Tasks : Spared(t)

(* Whatever a call that is served does to the queue, it leaves what a call *)
(* waits for that is not its rival, and what it wakes a call for.          *)
LEMMA LeavesEnough ==
  ASSUME SeamQueueAssumption, queue \in Seq(Items), Len(queue) <= QueueLength,
         NEW c \in Calls, CanServe(c), queue' = After(c),
         c.op = "send" => c.position # "bad",
         NEW d \in Calls,
         SideOf(d) = WokenBy(c) \/ (CanServe(d) /\ ~Rivals(d, c))
  PROVE  CanServe(d)'
<1>1. QueueLength \in Nat \ {0} /\ Len(queue) \in Nat
  BY DEF SeamQueueAssumption
<1>2. CASE c.op = "send"
  <2>1. queue' # <<>>
    <3>1. CASE c.position \in {"front", "overwrite"}
      <4>1. c.item \in Items
        BY <1>2 DEF Calls, Sends, Receives
      <4>2. CASE c.position = "overwrite"
        BY <1>2, <4>2 DEF After
      <4>3. CASE c.position = "front"
        <5>1. <<c.item>> \in Seq(Items) /\ Len(<<c.item>>) = 1
          BY <4>1
        <5>2. Len(queue') = 1 + Len(queue)
          BY <1>2, <4>3, <5>1, ConcatProperties DEF After
        <5> QED
          BY <1>1, <5>2
      <4> QED
        BY <3>1, <4>2, <4>3
    <3>2. CASE c.position \notin {"front", "overwrite"}
      <4>1. queue' = Append(queue, c.item) /\ c.item \in Items
        BY <1>2, <3>2 DEF After, Calls, Sends, Receives
      <4>2. Len(queue') = Len(queue) + 1
        BY <4>1, AppendProperties
      <4> QED
        BY <1>1, <4>2
    <3> QED
      BY <3>1, <3>2
  <2>2. d.op # "send"
    BY <1>2 DEF Rivals, SideOf, WokenBy
  <2> QED
    BY <2>1, <2>2 DEF CanServe
<1>3. CASE c.op # "send"
  <2>1. c.op \in {"receive", "peek"} /\ queue # <<>>
    BY <1>3 DEF Calls, Sends, Receives, CanServe
  <2>2. CASE c.op = "peek"
    <3>1. queue' = queue
      BY <2>2 DEF After
    <3>2. d.op # "send" \/ CanServe(d)
      BY <2>2 DEF SideOf, WokenBy
    <3> QED
      BY <2>1, <3>1, <3>2 DEF CanServe
  <2>3. CASE c.op = "receive"
    <3>1. queue' = Tail(queue) /\ Len(queue') = Len(queue) - 1
      BY <2>1, <2>3, HeadTailProperties DEF After
    <3>2. d.op = "send"
      BY <2>3 DEF Rivals, SideOf, WokenBy
    <3>3. Len(queue') < QueueLength
      BY <1>1, <2>1, <3>1, <3>2 DEF CanServe
    <3> QED
      BY <3>2, <3>3 DEF CanServe
  <2> QED
    BY <2>1, <2>2, <2>3
<1> QED
  BY <1>2, <1>3

(* A task is spared as before by a step of another that leaves its call    *)
(* alone, unless it is woken and what it waits for is not there.           *)
LEMMA OthersSpared ==
  ASSUME SeamQueueAssumption, TypeInv, NEW u \in Tasks, Spared(u),
         running # u, running' # u,
         pc'[u] = pc[u], call'[u] = call[u], left'[u] = left[u], spins'[u] = spins[u],
         died => died',
         parked'[u] = parked[u] \/ (parked'[u] = "no" /\ CanServe(call[u])'),
         Waiter(u) /\ CanServe(call[u]) => CanServe(call[u])'
  PROVE  Spared(u)'
<1>1. /\ spins[u] \in Nat /\ UnderWay(u) \in {0, 1} /\ UnderWay(u)' \in {0, 1}
      /\ UnderWay(u)' <= UnderWay(u)
  BY DEF UnderWay, TypeInv, TypeOK
<1>2. Trying(u)' = Trying(u) /\ Waiter(u)' = Waiter(u) /\ Rounds(u)' = Rounds(u)
  <2>1. IsrRivals(call[u])' = IsrRivals(call[u])
    BY DEF IsrRivals, Rivals
  <2> QED
    BY <2>1 DEF Trying, Waiter, Sealed, Rounds
<1>3. Used(u) \in Nat /\ Used(u)' \in Nat /\ Used(u)' <= Used(u)
  BY <1>1 DEF Used
<1>4. Waiter(u) /\ left[u] # NoCall => Rounds(u) \in Int
  BY TaskTypes DEF Rounds, Waiter, Trying
<1>5. Waiter(u) => Fresh(u)'
  BY <1>2 DEF Spared, Fresh, Ready
<1>6. ASSUME Waiter(u), left[u] # NoCall PROVE Within(u)'
  <2>1. Within(u) /\ Trying(u)
    BY <1>6 DEF Spared, Waiter
  <2>2. Ready(u)' => Ready(u) \/ CanServe(call[u])'
    BY DEF Ready
  <2>3. ~Ready(u)' => ~Ready(u) /\ parked'[u] = parked[u]
    BY DEF Ready
  <2>4. Used(u)' <= Rounds(u)'
    BY <1>2, <1>3, <1>4, <1>6, <2>1 DEF Within
  <2>5. Used(u) < Rounds(u) => Used(u)' < Rounds(u)'
    BY <1>2, <1>3, <1>4, <1>6
  <2>6. Ready(u)' /\ left[u] # 0 => CanServe(call[u])' \/ Used(u)' < Rounds(u)'
    BY <1>6, <2>1, <2>2, <2>5 DEF Within
  <2>7. IsrRivals(call[u]) /\ left[u] = 0 => Used(u)' < Rounds(u)'
    BY <1>6, <2>1, <2>5 DEF Within
  <2>8. ~Ready(u)' => parked'[u] = SideOf(call[u]) /\ left[u] # 0
    BY <1>6, <2>1, <2>3 DEF Within
  <2> QED
    BY <1>6, <2>1, <2>4, <2>6, <2>7, <2>8 DEF Within, CanServe, IsrRivals, Rivals
<1>7. Waiter(u) => Within(u)'
  BY <1>6 DEF Within
<1> QED
  BY <1>2, <1>5, <1>7 DEF Spared

(* Nobody on the same side takes what a waiting call waits for.            *)
LEMMA NoRival ==
  ASSUME Uncontested, NEW t \in Tasks, NEW u \in Tasks, u # t,
         Spared(t), Spared(u), Trying(t), Waiter(u)
  PROVE  ~Rivals(call[u], call[t])
  BY DEF Uncontested, Spared, Waiter

(* Making a call: it is of the program, and fresh.                         *)
LEMMA SpareEnter ==
  ASSUME SeamQueueAssumption, TypeInv, RefInv, SpareInv, NEW t \in Tasks, Enter(t)
  PROVE  SpareInv'
<1>1. PICK c \in Program[t] :
        /\ call' = [call EXCEPT ![t] = c]
        /\ pc' = [pc EXCEPT ![t] =
                    IF c.op = "send" /\ c.position = "bad" THEN "fail" ELSE "loop"]
  BY DEF Enter
<1>2. /\ running = t /\ running' = t /\ ~died /\ ~died' /\ pc[t] = "c"
      /\ spins' = [spins EXCEPT ![t] = 0]
      /\ UNCHANGED <<queue, parked, left, depth>>
  BY DEF Enter, CanRun, kernelVars
<1>3. left[t] = NoCall /\ Ready(t)
  BY <1>2 DEF RefInv, NoLeftovers, Trying
<1>4. call'[t] = c /\ pc'[t] \in {"fail", "loop"} /\ spins'[t] = 0
  BY <1>1, <1>2 DEF TypeInv, TypeOK
<1>5. Spared(t)'
  BY <1>2, <1>3, <1>4 DEF Spared, Waiter, Trying, Fresh, Within, Ready
<1>6. ASSUME NEW u \in Tasks, u # t PROVE Spared(u)'
  <2>1. pc'[u] = pc[u] /\ call'[u] = call[u] /\ spins'[u] = spins[u]
    BY <1>1, <1>2, <1>6 DEF TypeInv, TypeOK
  <2>2. CanServe(call[u]) => CanServe(call[u])'
    BY <1>2, <2>1 DEF CanServe
  <2> QED
    BY <1>2, <1>6, <2>1, <2>2, OthersSpared DEF SpareInv
<1> QED
  BY <1>2, <1>5, <1>6 DEF SpareInv, DiesOnlySealed

(* One try: a call that is parked again has used a round that the last     *)
(* tick, or its being the first, allows it.                                *)
LEMMA SpareRetry ==
  ASSUME SeamQueueAssumption, Uncontested, TypeInv, RefInv, SpareInv,
         NEW t \in Tasks, CanRun(t), pc[t] = "loop", Retry(t)
  PROVE  SpareInv'
<1> DEFINE c == call[t]
<1>1. /\ running = t /\ running' = t /\ depth' = depth /\ call' = call /\ spins' = spins
      /\ ~died /\ ~died' /\ (owed => depth > 0) /\ depth \in {0, 1} /\ Trying(t)
  BY DEF Retry, CanRun, Trying, TypeInv, TypeOK
<1>2. /\ left[t] \in Nat \/ left[t] = NoCall
      /\ NoCall \notin Nat /\ c.ticks \in Nat /\ c \in Calls
  BY TaskTypes
<1>3. spins[t] \in Nat /\ queue \in Seq(Items) /\ Len(queue) <= QueueLength
  BY DEF TypeInv, TypeOK
<1>4. ASSUME NEW u \in Tasks, u # t, pc'[u] = pc[u], left'[u] = left[u],
             parked'[u] = parked[u] \/ (parked'[u] = "no" /\ CanServe(call[u])'),
             Waiter(u) /\ CanServe(call[u]) => CanServe(call[u])'
      PROVE  Spared(u)'
  <2>1. call'[u] = call[u] /\ spins'[u] = spins[u] /\ (died => died') /\ Spared(u)
    BY <1>1 DEF SpareInv
  <2> QED
    BY <1>1, <1>4, <2>1, OthersSpared
<1>5. CASE Serve(t, c) /\ pc' = [pc EXCEPT ![t] = "pass"]
  <2>1. WokenBy(c) \in {"send", "receive"} /\ WakeOne(WokenBy(c)) /\ TypeOK
    BY <1>5 DEF WokenBy, Serve, TypeInv
  <2>2. \A u \in Tasks : parked'[u] = parked[u] \/ (parked[u] = WokenBy(c) /\ parked'[u] = "no")
    BY <2>1, WakeOneEffect
  <2>3. c.op = "send" => c.position # "bad"
    BY <1>1 DEF RefInv, Decoded
  <2>4. ASSUME NEW u \in Tasks, u # t PROVE Spared(u)'
    <3>1. pc'[u] = pc[u] /\ left'[u] = left[u]
      BY <1>5, <2>4 DEF Serve, TypeInv, TypeOK
    <3>2. Waiter(u) => call[u] \in Calls
      BY TaskTypes DEF Waiter, Trying
    <3>3. Waiter(u) /\ CanServe(call[u]) => CanServe(call[u])'
      <4> SUFFICES ASSUME Waiter(u), CanServe(call[u]) PROVE CanServe(call[u])'
        OBVIOUS
      <4>1. ~Rivals(call[u], c)
        BY <1>1, <2>4, NoRival DEF SpareInv
      <4> QED
        BY <1>1, <1>2, <1>3, <1>5, <2>3, <3>2, <4>1, LeavesEnough DEF Serve, CanServe
    <3>4. ASSUME parked'[u] # parked[u] PROVE parked'[u] = "no" /\ CanServe(call[u])'
      <4>1. parked[u] = WokenBy(c) /\ parked'[u] = "no" /\ ~Ready(u)
        BY <2>2, <2>1, <3>4 DEF Ready
      <4>2. Waiter(u) /\ left[u] # NoCall
        <5>1. Trying(u) /\ call[u].ticks # 0
          BY <4>1 DEF RefInv, NoLeftovers
        <5>2. call[u].ticks > 0
          BY <5>1, TaskTypes DEF Trying
        <5>3. Waiter(u)
          BY <1>1, <2>4, <5>1, <5>2 DEF Waiter, Sealed
        <5> QED
          BY <4>1, <5>3 DEF SpareInv, Spared, Fresh
      <4>3. SideOf(call[u]) = WokenBy(c)
        BY <4>1, <4>2 DEF SpareInv, Spared, Within
      <4> QED
        BY <1>1, <1>2, <1>3, <1>5, <2>3, <3>2, <4>1, <4>2, <4>3, LeavesEnough DEF Serve, CanServe
    <3> QED
      BY <1>4, <2>4, <3>1, <3>3, <3>4
  <2>5. Spared(t)'
    <3>1. pc'[t] = "pass"
      BY <1>5 DEF TypeInv, TypeOK
    <3> QED
      BY <3>1 DEF Spared, Waiter, Trying
  <2> QED
    BY <1>1, <2>4, <2>5 DEF SpareInv, DiesOnlySealed
<1>6. CASE Park(t, c) /\ pc' = [pc EXCEPT ![t] = "blocked"]
  <2>1. /\ ~CanServe(c) /\ left[t] # 0 /\ pc'[t] = "blocked" /\ queue' = queue
        /\ \A u \in Tasks : CanServe(call[u])' = CanServe(call[u])
    BY <1>1, <1>6 DEF Park, CanServe, TypeInv, TypeOK
  <2>2. ASSUME NEW u \in Tasks, u # t PROVE Spared(u)'
    <3>1. pc'[u] = pc[u] /\ left'[u] = left[u] /\ parked'[u] = parked[u]
      BY <1>6, <2>2 DEF Park, TypeInv, TypeOK
    <3> QED
      BY <1>4, <2>1, <2>2, <3>1
  <2>3. ASSUME Waiter(t)' PROVE (Fresh(t) /\ Within(t))'
    <3>1. Waiter(t) /\ c.ticks # 0 /\ depth = 0 /\ ~owed
      BY <1>1, <1>2, <2>3 DEF Waiter, Trying, Sealed
    <3>2. /\ parked' = [parked EXCEPT ![t] = SideOf(c)]
          /\ left' = [left EXCEPT ![t] = IF @ = NoCall THEN c.ticks ELSE @]
      BY <1>6, <3>1 DEF Park
    <3>3. /\ left'[t] = IF left[t] = NoCall THEN c.ticks ELSE left[t]
          /\ parked'[t] = SideOf(c)
      BY <3>2 DEF TypeInv, TypeOK
    <3>4. left'[t] \in Nat /\ left'[t] # 0 /\ left'[t] # NoCall /\ ~Ready(t)'
      BY <1>2, <2>1, <3>1, <3>3 DEF Ready, SideOf
    <3>5. Ready(t)
      BY <1>1, <3>1 DEF RefInv, Stuck
    <3>6. /\ Used(t)' = spins[t] + 1 /\ Used(t) = spins[t]
          /\ IsrRivals(call[t])' = IsrRivals(c)
      BY <1>1, <1>3, <2>1 DEF Used, UnderWay, IsrRivals, Rivals
    <3>7. CASE left[t] = NoCall
      <4>1. spins[t] = 0
        BY <3>1, <3>7 DEF SpareInv, Spared, Fresh
      <4>2. Rounds(t)' = 1
        BY <1>1, <1>2, <3>3, <3>7 DEF Rounds
      <4> QED
        BY <1>1, <1>2, <3>3, <3>4, <3>6, <3>7, <4>1, <4>2 DEF Fresh, Within
    <3>8. CASE left[t] # NoCall
      <4>1. Used(t) < Rounds(t) /\ left[t] <= c.ticks
        BY <2>1, <3>1, <3>5, <3>8 DEF SpareInv, Spared, Within
      <4>2. Rounds(t)' = Rounds(t) /\ Rounds(t) \in Int
        BY <1>1, <1>2, <3>3, <3>6, <3>8 DEF Rounds
      <4>3. Used(t)' <= Rounds(t)'
        BY <1>3, <3>6, <4>1, <4>2
      <4> QED
        BY <1>1, <3>3, <3>4, <3>8, <4>1, <4>3 DEF Fresh, Within
    <3> QED
      BY <3>7, <3>8
  <2>4. Spared(t)'
    <3>1. Trying(t)' => call'[t] \in Program[t] /\ (call'[t].ticks = 0 => spins'[t] = 0)
      BY <1>1 DEF SpareInv, Spared
    <3> QED
      BY <2>3, <3>1 DEF Spared
  <2> QED
    BY <1>1, <2>2, <2>4 DEF SpareInv, DiesOnlySealed
<1>7. CASE TimeOut(t, c) /\ pc' = [pc EXCEPT ![t] = "fail"]
  <2>1. ASSUME NEW u \in Tasks, u # t PROVE Spared(u)'
    <3>1. /\ pc'[u] = pc[u] /\ left'[u] = left[u] /\ parked'[u] = parked[u]
          /\ CanServe(call[u])' = CanServe(call[u])
      BY <1>1, <1>7, <2>1 DEF TimeOut, CanServe, TypeInv, TypeOK
    <3> QED
      BY <1>4, <2>1, <3>1
  <2>2. pc'[t] = "fail"
    BY <1>7 DEF TypeInv, TypeOK
  <2>3. Spared(t)'
    BY <2>2 DEF Spared, Waiter, Trying
  <2> QED
    BY <1>1, <2>1, <2>3 DEF SpareInv, DiesOnlySealed
<1> QED
  BY <1>5, <1>6, <1>7 DEF Retry

(* The Blocked arm: the round under way is counted, and the limit is out   *)
(* of reach of a waiter.                                                   *)
LEMMA SpareOnBlocked ==
  ASSUME SeamQueueAssumption, Uncontested, TypeInv, RefInv, SpareInv,
         NEW t \in Tasks, OnBlocked(t)
  PROVE  SpareInv'
<1>1. /\ running = t /\ running' = t /\ pc[t] = "blocked" /\ Trying(t) /\ ~died
      /\ spins' = [spins EXCEPT ![t] = @ + 1]
      /\ UNCHANGED <<queue, parked, left, depth, call>>
  BY DEF OnBlocked, CanRun, Trying, CountRound
<1>2. /\ spins'[t] = spins[t] + 1 /\ spins[t] \in Nat
      /\ spins[t] < SpinLimit /\ SpinLimit \in Nat /\ depth \in {0, 1}
  BY <1>1 DEF TypeInv, TypeOK, GuardInv, SeamQueueAssumption
<1>3. /\ left[t] \in Nat \/ left[t] = NoCall
      /\ NoCall \notin Nat /\ call[t].ticks \in Nat
  BY <1>1, TaskTypes
<1>4. Used(t) = spins[t] + 1
  BY <1>1 DEF Used, UnderWay
<1>5. CASE AtLimit(t) /\ died' = TRUE /\ UNCHANGED <<pc, owed>>
  <2>1. depth > 0
    <3> SUFFICES ASSUME depth = 0 PROVE FALSE
      BY <1>2
    <3>1. spins[t] + 1 = SpinLimit
      BY <1>5 DEF AtLimit
    <3>2. CASE call[t].ticks = 0
      BY <1>1, <1>2, <3>1, <3>2 DEF SpareInv, Spared, Uncontested
    <3>3. CASE call[t].ticks # 0
      <4>1. Waiter(t) /\ call[t] \in Program[t]
        BY <1>1, <1>3, <3>3 DEF Waiter, Sealed, SpareInv, Spared
      <4>2. left[t] # NoCall /\ Within(t)
        BY <1>1, <4>1 DEF SpareInv, Spared, Fresh
      <4>3. CASE IsrRivals(call[t])
        <5>1. call[t].ticks < SpinLimit
          BY <1>3, <3>3, <4>1, <4>3 DEF Uncontested
        <5>2. Rounds(t) = 1 + (call[t].ticks - left[t])
          BY <4>3 DEF Rounds
        <5>3. Used(t) <= Rounds(t) /\ (left[t] = 0 => Used(t) < Rounds(t)) /\ left[t] \in Nat
          BY <1>3, <4>2, <4>3 DEF Within
        <5> QED
          BY <1>2, <1>3, <1>4, <3>1, <5>1, <5>2, <5>3
      <4>4. CASE ~IsrRivals(call[t])
        <5>1. Used(t) <= 1
          BY <4>2, <4>4 DEF Within, Rounds
        <5> QED
          BY <1>2, <1>4, <3>1, <5>1 DEF Uncontested
      <4> QED
        BY <4>3, <4>4
    <3> QED
      BY <3>2, <3>3
  <2>2. Sealed(t)'
    BY <1>1, <2>1 DEF Sealed
  <2>3. Spared(t)'
    <3>1. call[t].ticks # 0
      <4> SUFFICES ASSUME call[t].ticks = 0 PROVE FALSE
        OBVIOUS
      <4> QED
        BY <1>1, <1>2, <1>5 DEF AtLimit, SpareInv, Spared, Uncontested
    <3> QED
      BY <1>1, <2>2, <3>1 DEF SpareInv, Spared, Waiter
  <2>4. ASSUME NEW u \in Tasks, u # t PROVE Spared(u)'
    <3>1. spins'[u] = spins[u] /\ CanServe(call[u])' = CanServe(call[u])
      BY <1>1, <2>4 DEF CanServe, TypeInv, TypeOK
    <3> QED
      BY <1>1, <1>5, <2>4, <3>1, OthersSpared DEF SpareInv
  <2> QED
    BY <1>1, <2>1, <2>3, <2>4 DEF SpareInv, DiesOnlySealed
<1>6. CASE ~AtLimit(t) /\ UNCHANGED died /\ pc' = [pc EXCEPT ![t] = "fail"]
  <2>1. pc'[t] = "fail"
    BY <1>6 DEF TypeInv, TypeOK
  <2>2. Spared(t)'
    BY <2>1 DEF Spared, Waiter, Trying
  <2>3. ASSUME NEW u \in Tasks, u # t PROVE Spared(u)'
    <3>1. pc'[u] = pc[u] /\ spins'[u] = spins[u] /\ CanServe(call[u])' = CanServe(call[u])
      BY <1>1, <1>6, <2>3 DEF CanServe, TypeInv, TypeOK
    <3> QED
      BY <1>1, <1>6, <2>3, <3>1, OthersSpared DEF SpareInv
  <2> QED
    BY <1>1, <1>6, <2>2, <2>3 DEF SpareInv, DiesOnlySealed
<1>7. CASE ~AtLimit(t) /\ UNCHANGED died /\ ~IsAPoll(t) /\ pc' = [pc EXCEPT ![t] = "loop"]
  <2>1. pc'[t] = "loop" /\ Trying(t)' /\ Waiter(t)' = Waiter(t)
    BY <1>1, <1>7 DEF Trying, Waiter, Sealed, TypeInv, TypeOK
  <2>2. Used(t)' = Used(t) /\ Rounds(t)' = Rounds(t) /\ IsrRivals(call[t])' = IsrRivals(call[t])
    BY <1>1, <1>2, <1>4, <2>1 DEF Used, UnderWay, Rounds, IsrRivals, Rivals
  <2>3. Spared(t) /\ call[t].ticks # 0
    BY <1>7 DEF SpareInv, IsAPoll
  <2>4. Waiter(t) => left[t] # NoCall /\ Within(t)
    BY <1>1, <2>3 DEF Spared, Fresh
  <2>5. Waiter(t) => (Fresh(t) /\ Within(t))'
    BY <1>1, <2>2, <2>4 DEF Fresh, Within, Ready, CanServe
  <2>6. Spared(t)'
    BY <1>1, <2>1, <2>3, <2>5 DEF Spared
  <2>7. ASSUME NEW u \in Tasks, u # t PROVE Spared(u)'
    <3>1. pc'[u] = pc[u] /\ spins'[u] = spins[u] /\ CanServe(call[u])' = CanServe(call[u])
      BY <1>1, <1>7, <2>7 DEF CanServe, TypeInv, TypeOK
    <3> QED
      BY <1>1, <1>7, <2>7, <3>1, OthersSpared DEF SpareInv
  <2> QED
    BY <1>1, <1>7, <2>6, <2>7 DEF SpareInv, DiesOnlySealed
<1> QED
  BY <1>5, <1>6, <1>7 DEF OnBlocked

(* The steps of a task that is in no loop: returning, and entering and     *)
(* leaving a critical section.                                             *)
LEMMA SpareQuiet ==
  ASSUME SeamQueueAssumption, TypeInv, SpareInv, NEW t \in Tasks,
         Return(t) \/ vPortEnterCritical(t) \/ vPortExitCritical(t)
  PROVE  SpareInv'
<1>1. /\ running = t /\ running' = t /\ ~died /\ ~died' /\ ~Trying(t) /\ ~Trying(t)'
      /\ UNCHANGED <<queue, parked, left, spins>>
      /\ \A u \in Tasks : u # t => pc'[u] = pc[u] /\ call'[u] = call[u]
  <2>1. CASE Return(t)
    BY <2>1 DEF Return, CanRun, Trying, kernelVars, TypeInv, TypeOK
  <2>2. CASE vPortEnterCritical(t) \/ vPortExitCritical(t)
    BY <2>2 DEF vPortEnterCritical, vPortExitCritical, CanRun, Trying, callVars
  <2> QED
    BY <2>1, <2>2
<1>2. Spared(t)'
  BY <1>1 DEF Spared, Waiter
<1>3. ASSUME NEW u \in Tasks, u # t PROVE Spared(u)'
  <2>1. CanServe(call[u])' = CanServe(call[u]) /\ pc'[u] = pc[u] /\ call'[u] = call[u]
    BY <1>1, <1>3 DEF CanServe
  <2> QED
    BY <1>1, <1>3, <2>1, OthersSpared DEF SpareInv
<1> QED
  BY <1>1, <1>2, <1>3 DEF SpareInv, DiesOnlySealed

(* An aborted wait has no ticks left and tries for the last time.          *)
LEMMA SpareAbort ==
  ASSUME SeamQueueAssumption, TypeInv, RefInv, SpareInv, NEW t \in Tasks, xTaskAbortDelay(t)
  PROVE  SpareInv'
<1>1. /\ running = t /\ running' = t /\ pc[t] = "c" /\ ~died /\ ~died' /\ ~Trying(t)
      /\ UNCHANGED <<queue, depth, call, pc, spins>>
  BY DEF xTaskAbortDelay, CanRun, callVars, Trying
<1>2. PICK w \in Tasks \ {t} :
        /\ ~Ready(w)
        /\ parked' = [parked EXCEPT ![w] = "no"]
        /\ left' = [left EXCEPT ![w] = 0]
  BY DEF xTaskAbortDelay
<1>3. /\ parked'[w] = "no" /\ left'[w] = 0
      /\ \A u \in Tasks : u # w => parked'[u] = parked[u] /\ left'[u] = left[u]
  BY <1>2 DEF TypeInv, TypeOK
<1>4. Trying(w) /\ call[w].ticks # 0
  BY <1>2 DEF RefInv, NoLeftovers
<1>5. /\ left[w] \in Nat \/ left[w] = NoCall
      /\ NoCall \notin Nat /\ call[w].ticks \in Nat /\ spins[w] \in Nat
  <2>1. spins[w] \in Nat
    BY DEF TypeInv, TypeOK
  <2> QED
    BY <1>4, <2>1, TaskTypes DEF Trying
<1>6. Waiter(w)
  BY <1>1, <1>2, <1>4, <1>5 DEF Waiter, Sealed
<1>7. left[w] # NoCall /\ left[w] # 0 /\ Within(w) /\ Spared(w)
  BY <1>2, <1>6 DEF SpareInv, Spared, Fresh, Within
<1>8. /\ Used(w)' = Used(w) /\ IsrRivals(call[w])' = IsrRivals(call[w])
      /\ Used(w) \in Nat
  BY <1>1, <1>5 DEF Used, UnderWay, IsrRivals, Rivals
<1>9. Used(w)' <= Rounds(w)' /\ (IsrRivals(call[w]) => Used(w)' < Rounds(w)')
  <2>1. CASE IsrRivals(call[w])
    <3>1. Rounds(w) = 1 + (call[w].ticks - left[w]) /\ Rounds(w)' = 1 + call[w].ticks
      BY <1>1, <1>3, <1>5, <1>8, <2>1 DEF Rounds
    <3>2. Used(w) <= Rounds(w)
      BY <1>7 DEF Within
    <3>3. left[w] \in Nat /\ left[w] # 0 /\ call[w].ticks \in Nat
      BY <1>5, <1>7
    <3> QED
      BY <1>8, <3>1, <3>2, <3>3
  <2>2. CASE ~IsrRivals(call[w])
    BY <1>1, <1>7, <1>8, <2>2 DEF Rounds, Within
  <2> QED
    BY <2>1, <2>2
<1>10. Spared(w)'
  <2>1. (Fresh(w) /\ Within(w))'
    BY <1>1, <1>3, <1>5, <1>8, <1>9 DEF Fresh, Within, Ready
  <2> QED
    BY <1>1, <1>7, <2>1 DEF Spared, Trying
<1>11. ASSUME NEW u \in Tasks, u # w PROVE Spared(u)'
  <2>1. CASE u = t
    BY <1>1, <2>1 DEF Spared, Waiter, Trying
  <2>2. CASE u # t
    <3>1. CanServe(call[u])' = CanServe(call[u])
      BY <1>1 DEF CanServe
    <3> QED
      BY <1>1, <1>3, <1>11, <2>2, <3>1, OthersSpared DEF SpareInv
  <2> QED
    BY <2>1, <2>2
<1> QED
  BY <1>1, <1>10, <1>11 DEF SpareInv, DiesOnlySealed

(* The switch comes with nothing masked, and changes no call.              *)
LEMMA SpareSwitch ==
  ASSUME TypeInv, SpareInv, pick_next
  PROVE  SpareInv'
<1>1. depth = 0 /\ UNCHANGED <<queue, parked, left, depth, call, pc, spins, died>>
  BY DEF pick_next, callVars
<1>2. ASSUME NEW u \in Tasks PROVE Spared(u)'
  <2>1. Waiter(u)' = Waiter(u) /\ Spared(u) /\ Trying(u)' = Trying(u)
    BY <1>1 DEF Waiter, Trying, Sealed, SpareInv
  <2>2. /\ Used(u)' = Used(u) /\ Rounds(u)' = Rounds(u)
        /\ IsrRivals(call[u])' = IsrRivals(call[u])
    BY <1>1 DEF Used, UnderWay, Rounds, IsrRivals, Rivals
  <2>3. Fresh(u)' = Fresh(u) /\ Within(u)' = Within(u)
    BY <1>1, <2>2 DEF Fresh, Within, Ready, CanServe
  <2> QED
    BY <1>1, <2>1, <2>3 DEF Spared
<1> QED
  BY <1>1, <1>2 DEF SpareInv, DiesOnlySealed

(* A tick: what it takes from a waiter by way of an interrupt half it pays *)
(* for with the ticks that are left.                                       *)
LEMMA SpareTick ==
  ASSUME SeamQueueAssumption, TypeInv, RefInv, SpareInv, on_tick
  PROVE  SpareInv'
<1>1. depth = 0 /\ ~died /\ UNCHANGED <<running, depth, call, pc, spins, died>>
  BY DEF on_tick, callVars
<1>2. queue \in Seq(Items) /\ Len(queue) <= QueueLength
  BY DEF TypeInv, TypeOK
<1>3. ASSUME NEW u \in Tasks, Waiter(u), ~IsrRivals(call[u]),
             CanServe(call[u]) \/ parked[u] = SideOf(call[u])
      PROVE  \E woken \in SUBSET Tasks :
               /\ TickWith(woken)
               /\ CanServe(call[u]) \/ u \in woken => CanServe(call[u])'
  <2>1. call[u] \in Calls
    BY <1>3, TaskTypes DEF Waiter, Trying
  <2>2. CASE TickWith({}) /\ UNCHANGED queue
    BY <1>1, <2>2 DEF CanServe
  <2>3. ASSUME NEW c \in IsrProgram, CanServe(c), queue' = After(c),
               NEW woken \in SUBSET Tasks, IsrWakes(WokenBy(c), woken), TickWith(woken)
        PROVE  CanServe(call[u]) \/ u \in woken => CanServe(call[u])'
    <3> SUFFICES ASSUME CanServe(call[u]) \/ u \in woken PROVE CanServe(call[u])'
      OBVIOUS
    <3>1. c \in Calls /\ (c.op = "send" => c.position # "bad")
      BY DEF SeamQueueAssumption
    <3>2. ~Rivals(call[u], c)
      BY <1>3 DEF IsrRivals
    <3>3. ASSUME u \in woken PROVE SideOf(call[u]) = WokenBy(c) \/ CanServe(call[u])
      <4>1. Unparked[u] = WokenBy(c)
        BY <2>3, <3>3 DEF IsrWakes
      <4>2. parked[u] = WokenBy(c)
        BY <4>1 DEF Unparked, WokenBy
      <4> QED
        BY <1>3, <4>2
    <3> QED
      BY <1>1, <1>2, <2>1, <2>3, <3>1, <3>2, <3>3, LeavesEnough DEF CanServe
  <2>4. \/ TickWith({}) /\ UNCHANGED queue
        \/ \E c \in IsrProgram : /\ CanServe(c) /\ queue' = After(c)
                                /\ \E woken \in SUBSET Tasks :
                                     IsrWakes(WokenBy(c), woken) /\ TickWith(woken)
    BY DEF on_tick
  <2> QED
    BY <2>2, <2>3, <2>4
<1>4. ASSUME NEW u \in Tasks PROVE Spared(u)'
  <2>1. Waiter(u)' = Waiter(u) /\ Trying(u)' = Trying(u) /\ Spared(u)
    BY <1>1 DEF Waiter, Trying, Sealed, SpareInv
  <2>2. Used(u)' = Used(u) /\ IsrRivals(call[u])' = IsrRivals(call[u]) /\ spins[u] \in Nat
    BY <1>1 DEF Used, UnderWay, IsrRivals, Rivals, TypeInv, TypeOK
  <2>3. Used(u) \in Nat
    BY <2>2 DEF Used, UnderWay
  <2>4. \E woken \in SUBSET Tasks : TickWith(woken)
    BY DEF on_tick
  <2>5. /\ parked'[u] = parked[u] \/ parked'[u] = "no"
        /\ left'[u] = IF left[u] \in Nat \ {0} THEN left[u] - 1 ELSE left[u]
        /\ ~Ready(u) /\ left[u] = 1 => Ready(u)'
    BY <2>4 DEF TickWith, Unparked, Expiring, Ready
  <2>6. /\ left[u] \in Nat \/ left[u] = NoCall
        /\ NoCall \notin Nat /\ (Trying(u) => call[u].ticks \in Nat)
    BY TaskTypes DEF Trying
  <2>7. CASE left[u] = NoCall /\ Waiter(u)
    BY <1>1, <2>1, <2>5, <2>6, <2>7 DEF Spared, Fresh, Within, Ready
  <2>8. CASE left[u] = 0 /\ Waiter(u)
    <3>1. left'[u] = 0 /\ Rounds(u)' = Rounds(u) /\ Within(u) /\ left[u] # NoCall
      BY <1>1, <2>1, <2>2, <2>5, <2>6, <2>8 DEF Spared, Rounds
    <3>2. Ready(u)'
      BY <2>5, <2>8, <3>1 DEF Within, Ready
    <3>3. (Fresh(u) /\ Within(u))'
      BY <1>1, <2>2, <2>6, <2>8, <3>1, <3>2 DEF Fresh, Within
    <3> QED
      BY <1>1, <2>1, <3>3 DEF Spared
  <2>9. CASE left[u] \in Nat \ {0} /\ Waiter(u)
    <3>1. /\ left'[u] = left[u] - 1 /\ left'[u] \in Nat /\ left[u] # NoCall /\ left'[u] # NoCall
          /\ Within(u) /\ call[u].ticks \in Nat
      BY <2>1, <2>5, <2>6, <2>9 DEF Spared, Waiter
    <3>2. ~Ready(u)' => ~Ready(u) /\ parked'[u] = parked[u] /\ left[u] # 1
      BY <2>5 DEF Ready
    <3>3. ~Ready(u)' => parked'[u] = SideOf(call[u]) /\ left'[u] # 0
      BY <2>9, <3>1, <3>2 DEF Within
    <3>4. left'[u] <= call[u].ticks
      BY <2>9, <3>1 DEF Within
    <3>5. CASE IsrRivals(call[u])
      <4>1. Rounds(u) = 1 + (call[u].ticks - left[u]) /\ Rounds(u)' = 1 + (call[u].ticks - left'[u])
        BY <1>1, <2>2, <3>5 DEF Rounds
      <4>2. Used(u)' < Rounds(u)'
        BY <2>2, <2>3, <2>9, <3>1, <4>1 DEF Within
      <4>3. Rounds(u)' \in Int
        BY <3>1, <4>1
      <4>4. (Fresh(u) /\ Within(u))'
        BY <1>1, <2>2, <2>3, <3>1, <3>3, <3>4, <4>2, <4>3 DEF Fresh, Within
      <4> QED
        BY <1>1, <2>1, <4>4 DEF Spared
    <3>6. CASE ~IsrRivals(call[u])
      <4>1. Rounds(u) = 1 /\ Rounds(u)' = 1
        BY <2>2, <3>6 DEF Rounds
      <4>2. Used(u)' <= Rounds(u)'
        BY <2>2, <3>1, <4>1 DEF Within
      <4>3. ASSUME Ready(u)', left'[u] # 0 PROVE CanServe(call[u])' \/ Used(u)' < Rounds(u)'
        <5>1. CASE Ready(u) /\ Used(u) < Rounds(u)
          BY <2>2, <4>1, <5>1
        <5>2. CASE Ready(u) /\ CanServe(call[u])
          BY <1>3, <2>9, <3>6, <5>2
        <5>3. CASE ~Ready(u)
          <6>1. parked[u] = SideOf(call[u]) /\ left[u] # 1
            BY <2>9, <3>1, <4>3, <5>3 DEF Within
          <6>2. PICK woken \in SUBSET Tasks :
                  /\ TickWith(woken)
                  /\ CanServe(call[u]) \/ u \in woken => CanServe(call[u])'
            BY <1>3, <2>9, <3>6, <6>1
          <6>3. u \in woken
            BY <4>3, <5>3, <6>1, <6>2 DEF TickWith, Unparked, Expiring, Ready
          <6> QED
            BY <6>2, <6>3
        <5> QED
          BY <2>9, <3>1, <5>1, <5>2, <5>3 DEF Within
      <4>4. (Fresh(u) /\ Within(u))'
        BY <1>1, <2>2, <3>1, <3>3, <3>4, <3>6, <4>2, <4>3 DEF Fresh, Within
      <4> QED
        BY <1>1, <2>1, <4>4 DEF Spared
    <3> QED
      BY <3>5, <3>6
  <2>10. CASE ~Waiter(u)
    BY <1>1, <2>1, <2>10 DEF Spared
  <2> QED
    BY <2>6, <2>7, <2>8, <2>9, <2>10
<1> QED
  BY <1>1, <1>4 DEF SpareInv, DiesOnlySealed

(* retry.rs: "a real block reaches single digits even across a long         *)
(* timeout".  If nobody can take what a call waits for but an interrupt     *)
(* half, and that less often than the guard has rounds, the guard stops no  *)
(* wait: only a loop that was entered inside a critical section.            *)
THEOREM GuardSparesWaits == Uncontested => (Spec => []DiesOnlySealed)
<1> SUFFICES ASSUME Uncontested PROVE Spec => []DiesOnlySealed
  OBVIOUS
<1> USE SeamQueueAssumption
<1>1. Init => SpareInv
  BY DEF Init, SpareInv, DiesOnlySealed, Spared, Waiter, Trying
<1>2. TypeInv /\ RefInv /\ SpareInv /\ [Next]_vars => SpareInv'
  <2> SUFFICES ASSUME TypeInv, RefInv, SpareInv, [Next]_vars PROVE SpareInv'
    OBVIOUS
  <2>1. ASSUME NEW t \in Tasks, TaskStep(t) PROVE SpareInv'
    <3>1. CASE Enter(t)
      BY <3>1, SpareEnter
    <3>2. CASE xQueueGenericSend(t) \/ xQueueReceive(t) \/ xQueuePeek(t)
      BY <3>2, SpareRetry DEF xQueueGenericSend, xQueueReceive, xQueuePeek
    <3>3. CASE OnBlocked(t)
      BY <3>3, SpareOnBlocked
    <3>4. CASE Return(t) \/ vPortEnterCritical(t) \/ vPortExitCritical(t)
      BY <3>4, SpareQuiet
    <3>5. CASE xTaskAbortDelay(t)
      BY <3>5, SpareAbort
    <3> QED
      BY <2>1, <3>1, <3>2, <3>3, <3>4, <3>5 DEF TaskStep, InCall
  <2>2. CASE pick_next
    BY <2>2, SpareSwitch
  <2>3. CASE on_tick
    BY <2>3, SpareTick
  <2>4. CASE UNCHANGED vars
    BY <2>4 DEF vars, kernelVars, callVars, SpareInv, DiesOnlySealed, Spared, Waiter, Trying,
                Sealed, Fresh, Within, Used, UnderWay, Rounds, IsrRivals, Rivals, Ready, CanServe
  <2> QED
    BY <2>1, <2>2, <2>3, <2>4 DEF Next
<1>3. SpareInv => DiesOnlySealed
  BY DEF SpareInv
<1> QED
  BY <1>1, <1>2, <1>3, TypeInvariant, RefInvariant, PTL DEF Spec
=============================================================================
