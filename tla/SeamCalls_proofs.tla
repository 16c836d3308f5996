-------------------------- MODULE SeamCalls_proofs --------------------------
(***************************************************************************)
(* Whatever the tasks, their functions, the programs and their interrupt   *)
(* halves: the task on the CPU has a thread of its own, and is one the     *)
(* kernel has ready.                                                       *)
(*                                                                         *)
(* Most steps are ordinary: they wake, block or suspend tasks, and neither *)
(* make nor end one.  OrdinarySteps is shown once for all of those; what   *)
(* is left is creation, deletion, collection, the switch, the tick and     *)
(* start-up.                                                               *)
(***************************************************************************)
EXTENDS SeamCalls, TLAPS

-----------------------------------------------------------------------------
(* The invariant.                                                          *)

KType ==
  [st : [Slots -> States], gen : [Slots -> Nat \ {0}], prio : [Slots -> Nat],
   left : [Slots -> Nat], since : [Slots -> Nat], cur : Slots, lock : BOOLEAN,
   late : SUBSET Slots, missed : Nat, declined : BOOLEAN]

Leaving == {"blocked", "yield", "idled", "slept"}
Working == {"c", "call", "loop", "blocked", "yield", "arm", "write", "ticks", "mid", "count"}
Busy == Working \ {"c"}
Phases == {"mon", "armmon", "demos", "arm", "sched", "run"}
LockOps == {"resumeall", "resume", "priority", "catchup", "notify", "setbits", "groupdelete"}

(* What a call keeps of the C's: a create names the function to run.       *)
IsCall(c) ==
  /\ c \in [op : STRING, whom : Functions \cup {"self"}, n : Nat, x : STRING, p : {c.p}]
  /\ c.op = "create" => c.whom \in Functions

(* What a task may be in the middle of while it has the scheduler          *)
(* suspended.                                                              *)
Held(at, c) == at \in {"c", "yield", "ticks"} \/ (at = "call" /\ c.op \in LockOps)

Shape ==
  /\ k \in KType
  /\ owed \in BOOLEAN /\ mask \in BOOLEAN
  /\ pc \in [Slots -> PCs]
  /\ call = [t \in Slots |-> call[t]]
  /\ entry \in [Slots -> Functions \cup {NoFunc}]
  /\ armed \in [Slots -> Nat]
  /\ phase \in Phases
  /\ program \in Programs

(* A thread in C code runs a function of the C's; one in a call keeps it.  *)
CallsKept ==
  /\ \A t \in Slots : pc[t] \in Working => entry[t] \in Functions
  /\ \A t \in Slots : pc[t] \in Busy => IsCall(call[t])

(* The slot whose task is being created, while interrupts are masked.      *)
Fresh == handle_from_c(call[k.cur].p).slot

(* Start-up: who has been given a thread when.                             *)
Booting ==
  /\ phase = "mon" => \A t \in Slots : k.st[t] = "free"
  /\ phase = "armmon" => \A t \in Slots : t # 0 => k.st[t] = "free"
  /\ phase = "demos" => \A t \in Slots : k.st[t] # "free" => armed[t] = k.gen[t]
  /\ phase = "arm" =>
       \A t \in Slots : (k.st[t] # "free" /\ t # Idle /\ t # Timer) => armed[t] = k.gen[t]
  /\ phase \in {"arm", "sched"} => k.st[k.cur] = "ready"
  /\ phase # "run" =>
       /\ ~owed /\ ~mask /\ ~k.lock /\ k.late = {}
       /\ \A t \in Slots : k.st[t] # "gone"

(* Every task has a thread of its own generation of the slot, the one that *)
(* is being created excepted.                                              *)
AllHaveThreads ==
  phase \in {"sched", "run"} =>
    \A t \in Slots : k.st[t] # "free" => armed[t] = k.gen[t] \/ (mask /\ t = Fresh)

Masking ==
  /\ mask => /\ pc[k.cur] = "arm" /\ call[k.cur].op = "create"
             /\ Fresh \in Slots /\ Fresh # k.cur
  /\ \A t \in Slots : pc[t] = "arm" => mask /\ t = k.cur

(* What is gone is not the idle task, and is woken by nobody.              *)
Life ==
  /\ \A t \in Slots : k.st[t] = "gone" => pc[t] \notin {"idle", "idled"}
  /\ \A t \in k.late : Alive(k, t)

(* The task on the CPU is ready, unless it is about to leave it: only with *)
(* no block time it need not be.                                           *)
Parting(t) == pc[t] \in Leaving /\ ~IsAPoll(t)
OnCpu ==
  phase = "run" =>
    /\ k.st[k.cur] # "free"
    /\ (~owed \/ mask) /\ ~Parting(k.cur) => k.st[k.cur] = "ready"
    /\ k.lock => k.st[k.cur] = "ready" /\ Held(pc[k.cur], call[k.cur])

(* On the CPU, not about to leave it, and not the daemon, which waits for  *)
(* its next command soon.                                                  *)
Heedful(t) ==
  /\ pc[t] # "daemon" /\ ~Parting(t)
  /\ ~(pc[t] = "ticks" /\ call[t].p = 1)
IInv ==
  /\ Shape /\ CallsKept /\ Booting /\ AllHaveThreads /\ Masking /\ Life /\ OnCpu

(* But for tasks of E, no ready task outranks the running one, or the      *)
(* suspended scheduler knows.  Which tasks those may be depends on what    *)
(* interrupts have asked of the daemon, and is left open here: whatever E  *)
(* is, a step that tells keeps this.                                       *)
NoneOutranks(kk, E) == \A s \in Slots \ E : kk.st[s] = "ready" => ~Outranks(kk, s)
Heeded(E) ==
  /\ phase \in {"arm", "sched"} => NoneOutranks(k, E)
  /\ (phase = "run" /\ ~owed /\ Heedful(k.cur))
       => NoneOutranks(k, E) \/ (k.lock /\ k.declined)
HeededKept == \A E : Heeded(E) => Heeded(E)'

-----------------------------------------------------------------------------
(* The kernel's operators.                                                 *)

(* Nobody is created, deleted or collected: the calls that only wake,      *)
(* block or suspend tasks.                                                 *)
KOrd(k1, k2) ==
  /\ k2 \in KType /\ k2.gen = k1.gen /\ k2.cur = k1.cur
  /\ \A s \in k2.late : s \in k1.late \/ Alive(k1, s)
  /\ \A s \in Slots : k2.st[s] = k1.st[s] \/ (Alive(k1, s) /\ Alive(k2, s))

(* Such a call that leaves the ready tasks ready, and the lock alone.      *)
Wakes(k1, k2) ==
  /\ KOrd(k1, k2) /\ k2.lock = k1.lock
  /\ \A s \in Slots : k1.st[s] = "ready" => k2.st[s] = "ready"

(* Waking some, then others, is waking both.                               *)
LEMMA WakesTrans ==
  ASSUME NEW k1, NEW k2, NEW k3, Wakes(k1, k2), Wakes(k2, k3)
  PROVE  Wakes(k1, k3)
  BY SMTT(20) DEF Wakes, KOrd, KType, Alive

(* Nobody need be woken.                                                   *)
LEMMA WakesNone == ASSUME NEW kk \in KType PROVE Wakes(kk, kk)
  BY DEF Wakes, KOrd, Alive

(* Waking tasks that are alive.                                            *)
LEMMA WakeWakes ==
  ASSUME NEW kk \in KType, NEW who, \A s \in who : Alive(kk, s)
  PROVE  Wakes(kk, Wake(kk, who))
  BY SMTT(20) DEF KType, KOrd, Wakes, Wake, Alive, States

(* Neither waking nor the clock changes a priority, or who runs.           *)
Ranks(k1, k2) ==
  k2.prio = k1.prio /\ k2.cur = k1.cur /\ k2.lock = k1.lock /\ k2.declined = k1.declined

(* Waking makes ready whom it names.                                       *)
LEMMA WakeRanks ==
  ASSUME NEW kk \in KType, NEW who
  PROVE  /\ Ranks(kk, Wake(kk, who))
         /\ \A s \in Slots : Wake(kk, who).st[s] = "ready" <=> s \in who \/ kk.st[s] = "ready"
  BY SMTT(20) DEF KType, Wake, Ranks, States

(* The clock leaves the priorities alone.                                  *)
LEMMA AdvanceRanks ==
  ASSUME NEW kk \in KType, NEW n
  PROVE  Ranks(kk, Advance(kk, n))
  <1> DEFINE w == Wake(kk, Expiring(kk, n))
             l == [t \in Slots |-> IF kk.left[t] > MaxWait THEN kk.left[t]
                               ELSE IF kk.left[t] > n THEN kk.left[t] - n ELSE 0]
             s == [t \in Slots |-> IF kk.since[t] = NoWait THEN NoWait
                                ELSE IF kk.since[t] + n > Forever THEN Forever
                                ELSE kk.since[t] + n]
  <1>1. Ranks(kk, w) BY WakeRanks
  <1>2. w = [kk EXCEPT !.st = [t \in Slots |-> IF t \in Expiring(kk, n) THEN "ready" ELSE kk.st[t]]]
    BY DEF Wake
  <1>3. Advance(kk, n) = [w EXCEPT !.left = l, !.since = s] BY DEF Advance
  <1> HIDE DEF l, s
  <1> QED BY <1>1, <1>2, <1>3 DEF KType, Ranks

(* It makes those ready whose time is up.                                  *)
LEMMA AdvanceReadies ==
  ASSUME NEW kk \in KType, NEW n, NEW s \in Slots
  PROVE  Advance(kk, n).st[s] = "ready" <=> s \in Expiring(kk, n) \/ kk.st[s] = "ready"
  <1> DEFINE w == Wake(kk, Expiring(kk, n))
             l == [t \in Slots |-> IF kk.left[t] > MaxWait THEN kk.left[t]
                               ELSE IF kk.left[t] > n THEN kk.left[t] - n ELSE 0]
             u == [t \in Slots |-> IF kk.since[t] = NoWait THEN NoWait
                                ELSE IF kk.since[t] + n > Forever THEN Forever
                                ELSE kk.since[t] + n]
  <1>1. w.st[s] = "ready" <=> s \in Expiring(kk, n) \/ kk.st[s] = "ready" BY WakeRanks
  <1>2. w = [kk EXCEPT !.st = [t \in Slots |-> IF t \in Expiring(kk, n) THEN "ready" ELSE kk.st[t]]]
    BY DEF Wake
  <1>3. Advance(kk, n) = [w EXCEPT !.left = l, !.since = u] BY DEF Advance
  <1>4. [w EXCEPT !.left = l, !.since = u].st = w.st
    <2> HIDE DEF l, u
    <2> QED BY <1>2 DEF KType
  <1> QED BY <1>1, <1>3, <1>4

(* A tick that asks for no switch wakes nobody that outranks the running   *)
(* task.                                                                   *)
LEMMA TickAsks ==
  ASSUME NEW kk \in KType, ~AsksSwitch(kk)
  PROVE  /\ Ranks(kk, increment_tick(kk)) /\ (kk.declined => kk.lock)
         /\ \A s \in Slots : increment_tick(kk).st[s] = "ready" =>
              kk.st[s] = "ready" \/ ~Outranks(kk, s)
  <1>1. CASE kk.lock
    <2> DEFINE n == IF kk.missed < MaxMissed THEN kk.missed + 1 ELSE kk.missed
               b == increment_tick(kk)
    <2>1. b = [kk EXCEPT !.missed = n] BY <1>1, Zenon DEF increment_tick
    <2> HIDE DEF n, b
    <2>2. b.st = kk.st /\ Ranks(kk, b) BY <2>1, Zenon DEF KType, Ranks
    <2> QED BY <1>1, <2>2 DEF b
  <1>2. CASE ~kk.lock
    <2> DEFINE a == Advance(kk, 1)
    <2>1. Ranks(kk, a) BY AdvanceRanks
    <2>2. increment_tick(kk) = a BY <1>2 DEF increment_tick
    <2>3. ASSUME NEW s \in Slots, a.st[s] = "ready"
          PROVE  kk.st[s] = "ready" \/ s \in Expiring(kk, 1)
      BY <2>3, AdvanceReadies
    <2> HIDE DEF a
    <2> QED BY <1>2, <2>1, <2>2, <2>3 DEF AsksSwitch
  <1> QED BY <1>1, <1>2

(* Block parks a task and leaves the others.                               *)
LEMMA BlockOrd ==
  ASSUME NEW kk \in KType, NEW t \in Slots, Alive(kk, t), NEW n \in Nat
  PROVE  KOrd(kk, Block(kk, t, n)) /\ Block(kk, t, n).lock = kk.lock
  <1> DEFINE s == [kk.st EXCEPT ![t] = "blocked"]
             m == IF n > MaxWait THEN Forever ELSE n
             l == [kk.left EXCEPT ![t] = m]
             b == Block(kk, t, n)
  <1>1. m \in Nat BY KernelAssumption DEF Forever
  <1>2. s \in [Slots -> States] /\ l \in [Slots -> Nat] BY <1>1 DEF KType, States
  <1>3. b = [kk EXCEPT !.st = s, !.left = l] BY Zenon DEF Block
  <1>4. s[t] = "blocked" /\ \A u \in Slots : u # t => s[u] = kk.st[u] BY DEF KType
  <1> HIDE DEF s, l, b
  <1>5. b \in KType /\ b.st = s /\ b.gen = kk.gen /\ b.cur = kk.cur /\ b.lock = kk.lock /\ b.late = kk.late
    BY <1>2, <1>3, Zenon DEF KType
  <1>6. KOrd(kk, b) BY <1>4, <1>5 DEF KOrd, Alive
  <1> QED BY <1>5, <1>6 DEF b

(* A tick's countdown wakes those whose time is up.                        *)
LEMMA AdvanceWakes ==
  ASSUME NEW kk \in KType, NEW n \in Nat
  PROVE  Wakes(kk, Advance(kk, n))
  <1> USE KernelAssumption
  <1> DEFINE w == Wake(kk, Expiring(kk, n))
             l == [t \in Slots |-> IF kk.left[t] > MaxWait THEN kk.left[t]
                               ELSE IF kk.left[t] > n THEN kk.left[t] - n ELSE 0]
             s == [t \in Slots |-> IF kk.since[t] = NoWait THEN NoWait
                                ELSE IF kk.since[t] + n > Forever THEN Forever
                                ELSE kk.since[t] + n]
  <1>1. Wakes(kk, w) BY WakeWakes DEF Expiring, Alive
  <1>2. w \in KType BY <1>1 DEF Wakes, KOrd
  <1>3. l \in [Slots -> Nat] BY DEF KType
  <1>4. s \in [Slots -> Nat] BY DEF KType, NoWait, Forever
  <1>5. Advance(kk, n) = [w EXCEPT !.left = l, !.since = s] BY DEF Advance
  <1> DEFINE b == Advance(kk, n)
  <1> HIDE DEF w, l, s, b
  <1>6. b = [w EXCEPT !.left = l, !.since = s] BY <1>5 DEF b
  <1>7. b \in KType /\ b.st = w.st /\ b.gen = w.gen /\ b.cur = w.cur /\ b.lock = w.lock /\ b.late = w.late
    BY <1>2, <1>3, <1>4, <1>6, Zenon DEF KType
  <1>8. Wakes(w, b) BY <1>7 DEF KOrd, Wakes
  <1>9. Wakes(kk, b) BY <1>1, <1>8, WakesTrans
  <1> QED BY <1>9 DEF b

(* A tick wakes, and stores what it may not count.                         *)
LEMMA TickWakes == ASSUME NEW kk \in KType PROVE Wakes(kk, increment_tick(kk))
  <1>1. CASE kk.lock
    <2> DEFINE n == IF kk.missed < MaxMissed THEN kk.missed + 1 ELSE kk.missed
               b == increment_tick(kk)
    <2>1. n \in Nat BY DEF KType
    <2>2. b = [kk EXCEPT !.missed = n] BY <1>1, Zenon DEF increment_tick
    <2> HIDE DEF n, b
    <2>3. b \in KType /\ b.st = kk.st /\ b.gen = kk.gen /\ b.cur = kk.cur /\ b.lock = kk.lock /\ b.late = kk.late
      BY <2>1, <2>2, Zenon DEF KType
    <2>4. Wakes(kk, b) BY <2>3, Zenon DEF KOrd, Wakes
    <2> QED BY <2>4 DEF b
  <1>2. CASE ~kk.lock
    BY <1>2, AdvanceWakes DEF increment_tick
  <1> QED BY <1>1, <1>2

(* What an interrupt half wakes, it may only note.                         *)
LEMMA IsrWakes ==
  ASSUME NEW kk \in KType, NEW who \in SUBSET Slots, \A s \in who : Alive(kk, s)
  PROVE  Wakes(kk, WakeFromIsr(kk, who))
  <1>1. CASE kk.lock
    <2> DEFINE l == kk.late \cup who
               b == WakeFromIsr(kk, who)
    <2>1. l \in SUBSET Slots BY DEF KType
    <2>2. b = [kk EXCEPT !.late = l] BY <1>1, Zenon DEF WakeFromIsr
    <2>3. \A s \in l : s \in kk.late \/ Alive(kk, s) OBVIOUS
    <2> HIDE DEF l, b
    <2>4. b \in KType /\ b.st = kk.st /\ b.gen = kk.gen /\ b.cur = kk.cur /\ b.lock = kk.lock /\ b.late = l
      BY <2>1, <2>2, Zenon DEF KType
    <2>5. Wakes(kk, b) BY <2>3, <2>4, Zenon DEF KOrd, Wakes
    <2> QED BY <2>5 DEF b
  <1>2. CASE ~kk.lock
    BY <1>2, WakeWakes DEF WakeFromIsr
  <1> QED BY <1>1, <1>2

(* suspend takes a task off the ready list.                                *)
LEMMA SuspendOrd ==
  ASSUME NEW kk \in KType, NEW t \in Slots, Alive(kk, t)
  PROVE  /\ KOrd(kk, suspend(kk, t)) /\ suspend(kk, t).lock = kk.lock
         /\ suspend(kk, t).prio = kk.prio /\ suspend(kk, t).declined = kk.declined
         /\ suspend(kk, t).st[t] # "ready"
         /\ \A s \in Slots : s # t => suspend(kk, t).st[s] = kk.st[s]
  <1> DEFINE s == [kk.st EXCEPT ![t] = "suspended"]
             l == kk.late \ {t}
             b == suspend(kk, t)
  <1>1. s \in [Slots -> States] /\ l \in SUBSET Slots /\ l \subseteq kk.late BY DEF KType, States
  <1>2. b = [kk EXCEPT !.st = s, !.late = l] BY Zenon DEF suspend
  <1>3. s[t] = "suspended" /\ \A u \in Slots : u # t => s[u] = kk.st[u] BY DEF KType
  <1> HIDE DEF s, l, b
  <1>4. /\ b \in KType /\ b.st = s /\ b.gen = kk.gen /\ b.cur = kk.cur /\ b.lock = kk.lock
        /\ b.late = l /\ b.prio = kk.prio /\ b.declined = kk.declined
    BY <1>1, <1>2, Zenon DEF KType
  <1>5. KOrd(kk, b) BY <1>1, <1>3, <1>4 DEF KOrd, Alive
  <1> QED BY <1>3, <1>4, <1>5 DEF b

(* resume only wakes.                                                      *)
LEMMA ResumeWakes ==
  ASSUME NEW kk \in KType, NEW t \in Slots
  PROVE  Wakes(kk, resume(kk, t))
  BY WakeWakes, WakesNone DEF resume, Alive

(* set_priority changes no task's state.                                   *)
LEMMA PriorityWakes ==
  ASSUME NEW kk \in KType, NEW t \in Slots, NEW n \in Nat
  PROVE  Wakes(kk, set_priority(kk, t, n))
  BY KernelAssumption, SMTT(20) DEF set_priority, Clamp, KType, KOrd, Wakes, Alive

(* A note of when a wait began changes no task's state.                    *)
LEMMA SinceWakes ==
  ASSUME NEW kk \in KType, NEW t \in Slots, NEW n \in Nat
  PROVE  Wakes(kk, [kk EXCEPT !.since[t] = n])
  BY SMTT(20) DEF KType, KOrd, Wakes, Alive

(* It changes neither who is ready nor who outranks whom.                  *)
LEMMA SinceRanks ==
  ASSUME NEW kk \in KType, NEW t \in Slots, NEW n \in Nat
  PROVE  Ranks(kk, [kk EXCEPT !.since[t] = n]) /\ [kk EXCEPT !.since[t] = n].st = kk.st
  BY SMTT(20) DEF KType, Ranks

(* abort_delay only wakes.                                                 *)
LEMMA AbortWakes ==
  ASSUME NEW kk \in KType, NEW t \in Slots, Abortable(kk, t)
  PROVE  Wakes(kk, abort_delay(kk, t))
  <1> DEFINE w == Wake(kk, {t})
  <1>1. Wakes(kk, w) BY WakeWakes DEF Abortable, Alive
  <1>2. abort_delay(kk, t) = [w EXCEPT !.left[t] = 0] BY DEF abort_delay
  <1> HIDE DEF w
  <1> QED BY <1>1, <1>2, SMTT(20) DEF KType, KOrd, Wakes, Alive

(* resume_all wakes whom it noted, and opens the lock.                     *)
LEMMA ResumeAllOrd ==
  ASSUME NEW kk \in KType, \A s \in kk.late : Alive(kk, s)
  PROVE  /\ KOrd(kk, resume_all(kk)) /\ ~resume_all(kk).lock
         /\ \A s \in Slots : kk.st[s] = "ready" => resume_all(kk).st[s] = "ready"
  <1> DEFINE w == Advance(Wake(kk, kk.late), kk.missed)
  <1>1. Wakes(kk, Wake(kk, kk.late)) BY WakeWakes
  <1>2. Wake(kk, kk.late) \in KType /\ kk.missed \in Nat BY <1>1 DEF Wakes, KOrd, KType
  <1>3. Wakes(Wake(kk, kk.late), w) BY <1>2, AdvanceWakes
  <1>4. Wakes(kk, w) BY <1>1, <1>3, WakesTrans
  <1>5. resume_all(kk) = [w EXCEPT !.lock = FALSE, !.late = {}, !.missed = 0] BY DEF resume_all
  <1> DEFINE b == resume_all(kk)
  <1> HIDE DEF w, b
  <1>6. w \in KType BY <1>4 DEF Wakes, KOrd
  <1>7. b \in KType /\ b.st = w.st /\ b.gen = w.gen /\ b.cur = w.cur /\ b.lock = FALSE /\ b.late = {}
    BY <1>5, <1>6, 0 \in Nat, Zenon DEF KType, b
  <1>8. KOrd(kk, b) BY <1>4, <1>7 DEF KOrd, Wakes, Alive
  <1>9. \A s \in Slots : kk.st[s] = "ready" => b.st[s] = "ready" BY <1>4, <1>7 DEF Wakes
  <1> QED BY <1>7, <1>8, <1>9 DEF b

(* Nor does the end of a suspension that asks for none.                    *)
LEMMA ResumeAllAsks ==
  ASSUME NEW kk \in KType, ~ResumeAsks(kk)
  PROVE  /\ resume_all(kk).prio = kk.prio /\ resume_all(kk).cur = kk.cur /\ ~kk.declined
         /\ \A s \in Slots : resume_all(kk).st[s] = "ready" =>
              kk.st[s] = "ready" \/ ~Outranks(kk, s)
  <1> DEFINE w == Wake(kk, kk.late)
             a == Advance(w, kk.missed)
             b == resume_all(kk)
  <1>1. Ranks(kk, w) BY WakeRanks
  <1>2. w = [kk EXCEPT !.st = [t \in Slots |-> IF t \in kk.late THEN "ready" ELSE kk.st[t]]]
    BY DEF Wake
  <1>3. w \in KType
    <2> DEFINE st == [t \in Slots |-> IF t \in kk.late THEN "ready" ELSE kk.st[t]]
    <2>1. st \in [Slots -> States] BY DEF KType, States
    <2>2. w = [kk EXCEPT !.st = st] BY <1>2
    <2> HIDE DEF st, w
    <2> QED BY <2>1, <2>2, Zenon DEF KType
  <1> HIDE DEF w
  <1>4. Ranks(w, a) BY <1>3, AdvanceRanks
  <1>5. b = [a EXCEPT !.lock = FALSE, !.late = {}, !.missed = 0] BY DEF resume_all, w
  <1>6. Expiring(w, kk.missed) \subseteq Expiring(kk, kk.missed)
    BY <1>2 DEF Expiring, KType
  <1>7. b.prio = a.prio /\ b.cur = a.cur /\ b.st = a.st
    <2>1. kk.missed \in Nat BY DEF KType
    <2>2. a \in KType BY <1>3, <2>1, AdvanceWakes DEF Wakes, KOrd
    <2> HIDE DEF a, b
    <2> QED BY <1>5, <2>2 DEF KType
  <1>8. b.prio = kk.prio /\ b.cur = kk.cur BY <1>1, <1>4, <1>7 DEF Ranks
  <1>9. ASSUME NEW s \in Slots, b.st[s] = "ready" PROVE kk.st[s] = "ready" \/ ~Outranks(kk, s)
    <2>1. w.st[s] = "ready" \/ s \in Expiring(w, kk.missed) BY <1>3, <1>7, <1>9, AdvanceReadies
    <2>2. w.st[s] = "ready" => kk.st[s] = "ready" \/ s \in kk.late BY WakeRanks DEF w
    <2> QED BY <1>6, <2>1, <2>2 DEF ResumeAsks
  <1> HIDE DEF b
  <1> QED BY <1>8, <1>9 DEF b, ResumeAsks

(* suspend_all closes the lock and does nothing else.                      *)
LEMMA SuspendAllDoes ==
  ASSUME NEW kk \in KType
  PROVE  /\ KOrd(kk, suspend_all(kk)) /\ suspend_all(kk).st = kk.st
         /\ suspend_all(kk).lock /\ suspend_all(kk).prio = kk.prio
         /\ suspend_all(kk).cur = kk.cur /\ suspend_all(kk).declined = kk.declined
  <1> DEFINE b == suspend_all(kk)
  <1>1. b = [kk EXCEPT !.lock = TRUE] BY Zenon DEF suspend_all
  <1> HIDE DEF b
  <1>2. /\ b \in KType /\ b.st = kk.st /\ b.gen = kk.gen /\ b.cur = kk.cur /\ b.late = kk.late
        /\ b.lock = TRUE /\ b.prio = kk.prio /\ b.declined = kk.declined
    BY <1>1, Zenon DEF KType
  <1>3. KOrd(kk, b) BY <1>2, Zenon DEF KOrd
  <1> QED BY <1>2, <1>3 DEF b

(* A created task is ready; nothing else changes.                          *)
LEMMA CreateDoes ==
  ASSUME NEW kk \in KType, NEW t \in Slots, NEW p \in Nat,
         NEW b, b = create_task(kk, t, p)
  PROVE  /\ b \in KType /\ b.gen = kk.gen /\ b.cur = kk.cur /\ b.lock = kk.lock /\ b.late = kk.late
         /\ b.st[t] = "ready" /\ \A u \in Slots : u # t => b.st[u] = kk.st[u]
         /\ b.prio[t] = Clamp(p) /\ \A u \in Slots : u # t => b.prio[u] = kk.prio[u]
  <1> DEFINE s == [kk.st EXCEPT ![t] = "ready"]
             q == [kk.prio EXCEPT ![t] = Clamp(p)]
             l == [kk.left EXCEPT ![t] = NoWait]
  <1>1. Clamp(p) \in Nat /\ NoWait \in Nat BY KernelAssumption DEF Clamp, NoWait
  <1>2. s \in [Slots -> States] /\ q \in [Slots -> Nat] /\ l \in [Slots -> Nat]
    BY <1>1 DEF KType, States
  <1>3. /\ s[t] = "ready" /\ \A u \in Slots : u # t => s[u] = kk.st[u]
        /\ q[t] = Clamp(p) /\ \A u \in Slots : u # t => q[u] = kk.prio[u]
    BY DEF KType
  <1>4. b = [kk EXCEPT !.st = s, !.prio = q, !.left = l] BY Zenon DEF create_task
  <1> HIDE DEF s, q, l
  <1>5. /\ b \in KType /\ b.gen = kk.gen /\ b.cur = kk.cur /\ b.lock = kk.lock /\ b.late = kk.late
        /\ b.st = s /\ b.prio = q
    BY <1>2, <1>4, Zenon DEF KType
  <1> QED BY <1>3, <1>5

(* The same, as one fact to cite.                                          *)
Made(k1, k2, t, p) ==
  /\ k2 \in KType /\ k2.gen = k1.gen /\ k2.cur = k1.cur /\ k2.lock = k1.lock /\ k2.late = k1.late
  /\ k2.st[t] = "ready" /\ \A u \in Slots : u # t => k2.st[u] = k1.st[u]
  /\ k2.prio[t] = Clamp(p) /\ \A u \in Slots : u # t => k2.prio[u] = k1.prio[u]

(* create_task makes a task in that sense.                                 *)
LEMMA CreateMakes ==
  ASSUME NEW kk \in KType, NEW t \in Slots, NEW p \in Nat
  PROVE  Made(kk, create_task(kk, t, p), t, p)
  <1> DEFINE b == create_task(kk, t, p)
  <1>1. b = create_task(kk, t, p) OBVIOUS
  <1> HIDE DEF b
  <1>2. /\ b \in KType /\ b.gen = kk.gen /\ b.cur = kk.cur /\ b.lock = kk.lock /\ b.late = kk.late
    BY <1>1, CreateDoes
  <1>3. b.st[t] = "ready" /\ \A u \in Slots : u # t => b.st[u] = kk.st[u]
    BY <1>1, CreateDoes
  <1>4. b.prio[t] = Clamp(p) /\ \A u \in Slots : u # t => b.prio[u] = kk.prio[u]
    BY <1>1, CreateDoes
  <1>5. Made(kk, b, t, p) BY <1>2, <1>3, <1>4 DEF Made
  <1> QED BY <1>1, <1>5

(* Deletion frees the slot of another task; the caller's is left to idle.  *)
LEMMA DeleteDoes ==
  ASSUME NEW kk \in KType, NEW t \in Slots, NEW b, b = task_delete(kk, t)
  PROVE  /\ b \in KType /\ Ranks(kk, b)
         /\ \A u \in b.late : u \in kk.late /\ u # t
         /\ \A u \in Slots : u # t => b.st[u] = kk.st[u] /\ b.gen[u] = kk.gen[u]
         /\ t = kk.cur => b.st[t] = "gone" /\ b.gen[t] = kk.gen[t]
         /\ t # kk.cur => b.st[t] = "free" /\ b.gen[t] = kk.gen[t] + 1
  <1> DEFINE l == kk.late \ {t}
  <1>1. l \in SUBSET Slots BY DEF KType
  <1>2. CASE t = kk.cur
    <2> DEFINE s == [kk.st EXCEPT ![t] = "gone"]
    <2>1. s \in [Slots -> States] BY DEF KType, States
    <2>2. s[t] = "gone" /\ \A u \in Slots : u # t => s[u] = kk.st[u] BY DEF KType
    <2>3. b = [kk EXCEPT !.st = s, !.late = l] BY <1>2, Zenon DEF task_delete
    <2> HIDE DEF s
    <2>4. /\ b \in KType /\ b.gen = kk.gen /\ b.cur = kk.cur /\ b.lock = kk.lock /\ b.late = l
          /\ b.st = s /\ b.prio = kk.prio /\ b.declined = kk.declined
      BY <1>1, <2>1, <2>3, Zenon DEF KType
    <2> QED BY <1>2, <2>2, <2>4 DEF Ranks
  <1>3. CASE t # kk.cur
    <2> DEFINE s == [kk.st EXCEPT ![t] = "free"]
               g == [kk.gen EXCEPT ![t] = @ + 1]
    <2>1. s \in [Slots -> States] /\ g \in [Slots -> Nat \ {0}] BY DEF KType, States
    <2>2. /\ s[t] = "free" /\ g[t] = kk.gen[t] + 1
          /\ \A u \in Slots : u # t => s[u] = kk.st[u] /\ g[u] = kk.gen[u]
      BY DEF KType
    <2>3. b = [kk EXCEPT !.st = s, !.gen = g, !.late = l] BY <1>3, Zenon DEF task_delete, Freed
    <2> HIDE DEF s, g
    <2>4. /\ b \in KType /\ b.gen = g /\ b.cur = kk.cur /\ b.lock = kk.lock /\ b.late = l
          /\ b.st = s /\ b.prio = kk.prio /\ b.declined = kk.declined
      BY <1>1, <2>1, <2>3, Zenon DEF KType
    <2> QED BY <1>3, <2>2, <2>4 DEF Ranks
  <1> QED BY <1>2, <1>3

(* The idle task frees what is gone, and only that.                        *)
LEMMA CollectDoes ==
  ASSUME NEW kk \in KType, NEW b, b = check_tasks_waiting_termination(kk)
  PROVE  /\ b \in KType /\ Ranks(kk, b) /\ b.late = kk.late
         /\ \A u \in Slots :
              /\ kk.st[u] # "gone" => b.st[u] = kk.st[u] /\ b.gen[u] = kk.gen[u]
              /\ kk.st[u] = "gone" => b.st[u] = "free" /\ b.gen[u] = kk.gen[u] + 1
  <1> DEFINE s == [t \in Slots |-> IF kk.st[t] = "gone" THEN "free" ELSE kk.st[t]]
             g == [t \in Slots |-> IF kk.st[t] = "gone" THEN kk.gen[t] + 1 ELSE kk.gen[t]]
  <1>1. s \in [Slots -> States] /\ g \in [Slots -> Nat \ {0}] BY DEF KType, States
  <1>2. \A u \in Slots : /\ kk.st[u] # "gone" => s[u] = kk.st[u] /\ g[u] = kk.gen[u]
                         /\ kk.st[u] = "gone" => s[u] = "free" /\ g[u] = kk.gen[u] + 1
    OBVIOUS
  <1>3. b = [kk EXCEPT !.st = s, !.gen = g] BY Zenon DEF check_tasks_waiting_termination
  <1> HIDE DEF s, g
  <1>4. /\ b \in KType /\ b.gen = g /\ b.cur = kk.cur /\ b.lock = kk.lock /\ b.late = kk.late
        /\ b.st = s /\ b.prio = kk.prio /\ b.declined = kk.declined
    BY <1>1, <1>3, Zenon DEF KType
  <1> QED BY <1>2, <1>4 DEF Ranks

(* No ready task outranks one that Best names.                             *)
LEMMA BestOutranks ==
  ASSUME NEW kk \in KType, NEW t \in Best(kk)
  PROVE  /\ t \in Slots /\ kk.st[t] = "ready"
         /\ \A s \in Slots : kk.st[s] = "ready" => ~(kk.prio[s] > kk.prio[t])
  <1>1. t \in Slots /\ kk.st[t] = "ready" BY DEF Best, Ready
  <1>2. \A s \in Slots : kk.st[s] = "ready" => kk.prio[s] <= kk.prio[t] BY DEF Best, Ready
  <1>3. \A s \in Slots : kk.prio[s] \in Nat BY DEF KType
  <1> QED BY <1>1, <1>2, <1>3

(* A switch finds a ready task, or is declined.                            *)
LEMMA SwitchDoes ==
  ASSUME NEW kk \in KType, NEW b \in switch_context(kk)
  PROVE  /\ b \in KType /\ b.st = kk.st /\ b.gen = kk.gen /\ b.lock = kk.lock /\ b.late = kk.late
         /\ b.prio = kk.prio
         /\ IF kk.lock THEN b.cur = kk.cur /\ b.declined
                       ELSE b.st[b.cur] = "ready" /\ NoneOutranks(b, {})
  <1>1. CASE kk.lock
    <2>1. b = [kk EXCEPT !.declined = TRUE] BY <1>1, Zenon DEF switch_context
    <2> QED BY <1>1, <2>1, Zenon DEF KType
  <1>2. CASE ~kk.lock
    <2> DEFINE whom == IF Best(kk) \subseteq {kk.cur} THEN Best(kk) ELSE Best(kk) \ {kk.cur}
    <2>1. PICK t \in Best(kk) : b = [kk EXCEPT !.cur = t, !.declined = FALSE]
      <3>1. whom \subseteq Best(kk) OBVIOUS
      <3>2. switch_context(kk) = {[kk EXCEPT !.cur = t, !.declined = FALSE] : t \in whom}
        BY <1>2, Zenon DEF switch_context
      <3> HIDE DEF whom
      <3> QED BY <3>1, <3>2, Zenon
    <2>2. t \in Slots /\ kk.st[t] = "ready" BY DEF Best, Ready
    <2>3. /\ b \in KType /\ b.st = kk.st /\ b.gen = kk.gen /\ b.lock = kk.lock /\ b.late = kk.late
          /\ b.cur = t /\ b.prio = kk.prio
      BY <2>1, <2>2, Zenon DEF KType
    <2>4. NoneOutranks(b, {}) BY <2>3, BestOutranks DEF NoneOutranks, Outranks
    <2> QED BY <1>2, <2>2, <2>3, <2>4
  <1> QED BY <1>1, <1>2

(* Remainder of a multiple and something less than the modulus.            *)
LEMMA Remainder ==
  ASSUME NEW n \in Nat \ {0}, NEW q \in Nat, NEW r \in 0 .. n - 1
  PROVE  (q * n + r) % n = r
  BY SMTT(20)

(* A handle leads back to its slot.                                        *)
LEMMA Codec ==
  ASSUME NEW s \in Slots, NEW g \in Nat
  PROVE  handle_from_c(handle_to_c(s, g)).slot = s
  <1>1. TASKS \in Nat \ {0} /\ s \in Nat /\ s < TASKS BY KernelAssumption DEF Slots
  <1>2. s # None BY <1>1 DEF None
  <1>3. s \in 0 .. TASKS - 1 BY DEF Slots
  <1>4. (g * TASKS + s) % TASKS = s BY <1>1, <1>3, Remainder, Zenon
  <1> DEFINE p == (g * TASKS + s) + 1
  <1>5. handle_to_c(s, g) = p BY <1>2, Zenon DEF handle_to_c
  <1>6. p - 1 = g * TASKS + s BY <1>1, SMTT(20)
  <1> HIDE DEF p
  <1>7. handle_from_c(p).slot = (p - 1) % TASKS BY Zenon DEF handle_from_c
  <1> QED BY <1>4, <1>5, <1>6, <1>7, Zenon

-----------------------------------------------------------------------------
(* The steps of the task on the CPU.                                       *)

(* What it may rely on outside the masked section of xTaskCreate.          *)
LEMMA Running ==
  ASSUME IInv, NEW t \in Slots, CanRun(t), pc[t] # "arm"
  PROVE  /\ phase = "run" /\ k.cur = t /\ ~mask /\ ~owed
         /\ k \in KType /\ k.st[t] # "free"
         /\ ~Parting(t) => k.st[t] = "ready"
         /\ k.lock => k.st[t] = "ready" /\ Held(pc[t], call[t])
  BY DEF IInv, Shape, Masking, OnCpu, CanRun

(* Where Goto leaves a thread, and what it keeps of the call.              *)
LEMMA Going ==
  ASSUME NEW t \in Slots, NEW at \in PCs, Goto(t, at), Shape
  PROVE  /\ pc' \in [Slots -> PCs] /\ pc'[t] = at
         /\ call' = [u \in Slots |-> call'[u]]
         /\ at # "c" => call' = call
         /\ \A u \in Slots : u # t => pc'[u] = pc[u] /\ call'[u] = call[u]
  <1>1. call = [u \in Slots |-> call[u]] BY DEF Shape
  <1>2. /\ pc' \in [Slots -> PCs] /\ pc'[t] = at
        /\ \A u \in Slots : u # t => pc'[u] = pc[u]
    BY DEF Goto, Shape
  <1>3. CASE at = "c"
    <2>1. call' = [call EXCEPT ![t] = NoCall] BY <1>3 DEF Goto
    <2> QED BY <1>1, <1>2, <1>3, <2>1
  <1>4. CASE at # "c"
    <2>1. call' = call BY <1>4 DEF Goto
    <2> QED BY <1>1, <1>2, <1>4, <2>1
  <1> QED BY <1>3, <1>4

(* A step that asks for a switch where it makes a task ready that outranks *)
(* the running one, and drops no switch declined.                          *)
Tells ==
  /\ k'.prio = k.prio /\ k'.cur = k.cur
  /\ k.lock /\ k.declined => k'.lock /\ k'.declined
  /\ \A s \in Slots : (k'.st[s] = "ready" /\ Outranks(k, s)) => k.st[s] = "ready" \/ owed'

(* Whoever the step makes ready and lets outrank the running task is heard *)
(* of, or the task is about to leave the CPU.                              *)
Told(t) == (~owed' /\ Heedful(t)') => (Heedful(t) /\ Tells)

(* A step of a task that is not, and tells.                                *)
LEMMA Tell == ASSUME NEW t, Heedful(t), Tells PROVE Told(t)
  BY DEF Told

(* Such a step leaves no more waiting than there were.                     *)
LEMMA ToldHeeds ==
  ASSUME NEW t \in Slots, NEW E, Heeded(E), phase = "run", k.cur = t, ~owed, Told(t), k'.cur = t,
         phase' = "run"
  PROVE  Heeded(E)'
  <1> SUFFICES ASSUME ~owed', Heedful(t)'
               PROVE  NoneOutranks(k', E) \/ (k'.lock /\ k'.declined)
    BY DEF Heeded
  <1>1. Heedful(t) /\ Tells BY DEF Told
  <1>2. NoneOutranks(k, E) \/ (k.lock /\ k.declined) BY <1>1 DEF Heeded
  <1> QED BY <1>1, <1>2 DEF Tells, NoneOutranks, Outranks

(* Waking asks for the switch where one is due.                            *)
LEMMA WakeTells ==
  ASSUME NEW who, k \in KType, k' = Wake(k, who), (\E s \in who : Outranks(k, s)) => owed'
  PROVE  Tells
  BY WakeRanks DEF Tells, Ranks

(* Nobody need be told where nobody is made ready.                         *)
LEMMA StillTells ==
  ASSUME Ranks(k, k'), \A s \in Slots : k'.st[s] = "ready" => k.st[s] = "ready"
  PROVE  Tells
  BY DEF Tells, Ranks

(* An ordinary step: nobody is created or deleted.                         *)
OrdStep(t) ==
  /\ KOrd(k, k')
  /\ UNCHANGED <<mask, entry, armed, phase, program>>
  /\ owed' \in BOOLEAN
  /\ pc' \in [Slots -> PCs] /\ call' = [u \in Slots |-> call'[u]]
  /\ \A u \in Slots : u # t => pc'[u] = pc[u] /\ call'[u] = call[u]
  /\ pc'[t] \notin {"arm", "write"}
  /\ pc'[t] \in Working => entry[t] \in Functions
  /\ pc'[t] \in Busy => IsCall(call'[t])
  /\ pc'[t] \in {"idle", "idled"} => pc[t] \in {"idle", "idled"}
  /\ k'.st[t] = "ready" \/ owed' \/ Parting(t)'
  /\ k'.lock => k'.st[t] = "ready" /\ Held(pc'[t], call'[t])
  /\ Told(t)

Ordinary(t) == CanRun(t) /\ pc[t] # "arm" /\ OrdStep(t)

(* An ordinary step of the task on the CPU keeps the invariant.            *)
LEMMA OrdinarySteps ==
  ASSUME IInv, NEW t \in Slots, Ordinary(t)
  PROVE  IInv' /\ HeededKept
  <1>1. CanRun(t) /\ pc[t] # "arm" /\ OrdStep(t) BY DEF Ordinary
  <1> USE <1>1, Running
  <1>2. phase' = "run" /\ k'.cur = t /\ k.cur = t /\ mask' = mask /\ ~mask
    BY DEF OrdStep, KOrd
  <1>3. Shape' BY DEF OrdStep, KOrd, IInv, Shape
  <1>4. CallsKept' BY DEF OrdStep, IInv, CallsKept
  <1>5. Booting' BY <1>2 DEF Booting
  <1>6. AllHaveThreads' BY <1>2 DEF AllHaveThreads, OrdStep, KOrd, IInv, Alive
  <1>7. Masking' BY <1>2 DEF Masking, OrdStep, IInv
  <1>8. Life'
    <2>1. \A u \in Slots : k'.st[u] = "gone" => k.st[u] = "gone" BY DEF OrdStep, KOrd, Alive
    <2>2. \A u \in Slots : pc'[u] \in {"idle", "idled"} => pc[u] \in {"idle", "idled"}
      BY DEF OrdStep
    <2>3. \A u \in k'.late : Alive(k, u) /\ u \in Slots
      BY DEF OrdStep, KOrd, KType, IInv, Life, Shape
    <2>4. \A u \in k'.late : Alive(k', u) BY <2>3 DEF OrdStep, KOrd, Alive
    <2> QED BY <2>1, <2>2, <2>4 DEF Life, IInv
  <1>9. OnCpu' BY <1>2 DEF OnCpu, OrdStep, KOrd, IInv, Alive
  <1>10. HeededKept BY <1>2, ToldHeeds DEF HeededKept, OrdStep
  <1> QED BY <1>3, <1>4, <1>5, <1>6, <1>7, <1>8, <1>9, <1>10 DEF IInv

(* In the middle of a call, other than between two of the ticks that       *)
(* xTaskCatchUpTicks makes up for.                                         *)
Calm == {"call", "loop", "mid", "count", "write"}
InACall == Calm \cup {"ticks"}

(* What a task in a call may rely on.                                      *)
LEMMA InCall ==
  ASSUME IInv, NEW t \in Slots, CanRun(t), pc[t] \in InACall
  PROVE  /\ phase = "run" /\ k.cur = t /\ ~mask /\ ~owed
         /\ k \in KType /\ k.st[t] = "ready" /\ Alive(k, t)
         /\ IsCall(call[t]) /\ entry[t] \in Functions
         /\ k.lock => pc[t] = "ticks" \/ (pc[t] = "call" /\ call[t].op \in LockOps)
         /\ pc[t] \in Calm => Heedful(t)
  <1>1. pc[t] # "arm" /\ pc[t] \in Busy /\ pc[t] \in Working /\ ~Parting(t)
    BY DEF InACall, Calm, Busy, Working, Parting, Leaving
  <1>2. IsCall(call[t]) /\ entry[t] \in Functions BY <1>1 DEF IInv, CallsKept
  <1>3. pc[t] \in Calm => Heedful(t) BY <1>1 DEF Calm, Heedful
  <1> QED BY <1>1, <1>2, <1>3, Running DEF Held, InACall, Calm, Alive

(* One of its steps, the last one included.                                *)
LEMMA CallSteps ==
  ASSUME IInv, NEW t \in Slots, CanRun(t), pc[t] \in InACall,
         NEW at \in {"c", "yield", "blocked", "mid", "ticks"}, Goto(t, at),
         KOrd(k, k'), owed' \in BOOLEAN, UNCHANGED <<mask, entry, armed, phase, program>>,
         k'.st[t] = "ready" \/ owed' \/ at = "yield" \/ (at = "blocked" /\ call[t].n # 0),
         k'.lock => k'.st[t] = "ready" /\ at \in {"c", "yield", "ticks"},
         Told(t) \/ at = "yield" \/ (at = "blocked" /\ call[t].n # 0)
  PROVE  Ordinary(t)
  <1>1. pc[t] # "arm" BY DEF InACall, Calm
  <1>2. at \in PCs /\ at \notin {"arm", "write"} /\ at \notin {"idle", "idled"} BY DEF PCs
  <1>3. /\ pc' \in [Slots -> PCs] /\ pc'[t] = at
        /\ call' = [u \in Slots |-> call'[u]]
        /\ at # "c" => call' = call
        /\ \A u \in Slots : u # t => pc'[u] = pc[u] /\ call'[u] = call[u]
    BY <1>2, Going DEF IInv
  <1>4. entry[t] \in Functions /\ IsCall(call[t]) BY InCall
  <1>5. pc'[t] \in Busy => IsCall(call'[t]) BY <1>3, <1>4 DEF Busy, Working
  <1>6. at = "yield" => Parting(t)' BY <1>3 DEF Parting, Leaving, IsAPoll
  <1>7. at = "blocked" /\ call[t].n # 0 => Parting(t)' BY <1>3 DEF Parting, Leaving, IsAPoll
  <1>8. k'.lock => Held(pc'[t], call'[t]) BY <1>3 DEF Held
  <1>9. Told(t) BY <1>6, <1>7 DEF Told, Heedful
  <1>10. OrdStep(t) BY <1>2, <1>3, <1>4, <1>5, <1>6, <1>7, <1>8, <1>9 DEF OrdStep
  <1> QED BY <1>1, <1>10 DEF Ordinary

(* The two usual ones: it wakes others, or nobody, and returns; or it      *)
(* parks its own task.                                                     *)
LEMMA Waking ==
  ASSUME IInv, NEW t \in Slots, CanRun(t), pc[t] \in Calm,
         NEW at \in {"c", "yield"}, Goto(t, at),
         Wakes(k, k'), owed' \in BOOLEAN, UNCHANGED <<mask, entry, armed, phase, program>>,
         at = "yield" \/ Tells
  PROVE  Ordinary(t)
  <1>1. pc[t] # "arm" /\ pc[t] \in InACall BY DEF InACall, Calm
  <1>2. at = "yield" \/ Told(t) BY <1>1, InCall, Tell
  <1> QED BY <1>1, <1>2, InCall, CallSteps DEF Wakes

(* A step of a call that changes no task keeps the invariant.              *)
LEMMA Staying ==
  ASSUME IInv, NEW t \in Slots, CanRun(t), pc[t] \in Calm,
         NEW at \in {"c", "yield", "blocked", "mid"}, Goto(t, at),
         ~k.lock \/ at \in {"c", "yield"},
         UNCHANGED <<k, owed, mask, entry, armed, phase, program>>
  PROVE  Ordinary(t)
  <1>1. pc[t] # "arm" /\ pc[t] \in InACall BY DEF InACall, Calm
  <1>2. k \in KType /\ k.st[t] = "ready" /\ Heedful(t) BY <1>1, InCall
  <1>3. KOrd(k, k) BY <1>2, WakesNone DEF Wakes
  <1>4. owed' \in BOOLEAN BY DEF IInv, Shape
  <1>5. Told(t) BY <1>1, <1>2, Tell DEF Tells
  <1> QED BY <1>1, <1>2, <1>3, <1>4, <1>5, CallSteps

(* Parked blocks the caller, or with no block time nobody.                 *)
LEMMA ParkedOrd ==
  ASSUME IInv, NEW t \in Slots, CanRun(t), pc[t] \in Calm
  PROVE  /\ KOrd(k, Parked(t)) /\ Parked(t).lock = k.lock
         /\ Parked(t).st[t] = "ready" \/ call[t].n # 0
  <1>1. k \in KType /\ k.st[t] = "ready" /\ Alive(k, t) /\ IsCall(call[t]) BY InCall DEF InACall
  <1>2. CASE call[t].n = 0
    BY <1>1, <1>2, WakesNone DEF Parked, Wakes
  <1>3. CASE call[t].n # 0
    <2> DEFINE n == IF pc[t] = "loop" THEN k.left[t] ELSE call[t].n
    <2>1. n \in Nat BY <1>1 DEF KType, IsCall
    <2>2. Parked(t) = Block(k, t, n) BY <1>3 DEF Parked
    <2> HIDE DEF n
    <2> QED BY <1>1, <1>3, <2>1, <2>2, BlockOrd
  <1> QED BY <1>2, <1>3

(* A step that parks its own task keeps the invariant.                     *)
LEMMA Parking ==
  ASSUME IInv, NEW t \in Slots, CanRun(t), pc[t] \in Calm, ~k.lock,
         k' = Parked(t), Goto(t, "blocked"),
         UNCHANGED <<owed, mask, entry, armed, phase, program>>
  PROVE  Ordinary(t)
  <1>1. owed' \in BOOLEAN BY DEF IInv, Shape
  <1>2. pc[t] # "arm" /\ pc[t] \in InACall BY DEF InACall, Calm
  <1>3. CASE call[t].n = 0
    <2>1. k' = k BY <1>3 DEF Parked
    <2>2. Told(t) BY <1>2, <2>1, InCall, Tell DEF Tells
    <2> QED BY <1>1, <1>2, <2>2, ParkedOrd, CallSteps
  <1>4. CASE call[t].n # 0
    BY <1>1, <1>2, <1>4, ParkedOrd, CallSteps
  <1> QED BY <1>3, <1>4

(* Tasks that are waiting, and tasks a handle names, are alive.            *)
LEMMA WaitsAlive ==
  ASSUME NEW ops
  PROVE  Waits(ops) \subseteq Slots /\ \A s \in Waits(ops) : Alive(k, s)
  BY DEF Waits, Alive

(* A handle names live tasks only.                                         *)
LEMMA NamedAlive ==
  ASSUME NEW t, NEW p, t \in Slots => Alive(k, t), p = NULL => t \in Slots, NEW s \in Named(t, p)
  PROVE  s \in Slots /\ Alive(k, s) /\ (s = t /\ p # NULL => Named(t, p) = {t})
  BY DEF Named

(* OneOf picks among those it is given.                                    *)
LEMMA OneOfIn ==
  ASSUME NEW who, NEW some \in OneOf(who)
  PROVE  some \subseteq who
  BY DEF OneOf, First

(* A call of these is not made while the scheduler is suspended.           *)
LEMMA Unlocked ==
  ASSUME IInv, NEW t \in Slots, CanRun(t), pc[t] \in Calm,
         pc[t] = "call" => call[t].op \notin LockOps
  PROVE  ~k.lock
  BY InCall DEF InACall, Calm

-----------------------------------------------------------------------------
(* The calls of SeamTasks.                                                 *)

(* A new thread's first step.                                              *)
LEMMA TrampolineOrdinary ==
  ASSUME IInv, NEW t \in Slots, c_task_trampoline(t) PROVE Ordinary(t)
  <1>1. CanRun(t) /\ pc[t] = "new" BY DEF c_task_trampoline, At
  <1> DEFINE at == IF entry[t] = NoFunc THEN "parked" ELSE "c"
  <1>2. at \in PCs /\ at \in {"parked", "c"} /\ (at = "c" => entry[t] \in Functions)
    BY DEF PCs, IInv, Shape
  <1>3. Goto(t, at) /\ UNCHANGED <<k, owed, still>> BY DEF c_task_trampoline
  <1> HIDE DEF at
  <1>4. k \in KType /\ k.st[t] = "ready" /\ (k.lock => Held(pc[t], call[t]))
    BY <1>1, Running DEF Parting, Leaving
  <1>5. ~k.lock BY <1>1, <1>4 DEF Held
  <1>6. KOrd(k, k) BY <1>4, WakesNone DEF Wakes
  <1>7. /\ pc' \in [Slots -> PCs] /\ pc'[t] = at
        /\ call' = [u \in Slots |-> call'[u]]
        /\ \A u \in Slots : u # t => pc'[u] = pc[u] /\ call'[u] = call[u]
    BY <1>2, <1>3, Going DEF IInv
  <1>8. at \notin Busy BY <1>2 DEF Busy, Working
  <1>9. owed' \in BOOLEAN BY <1>3 DEF IInv, Shape
  <1>10. Told(t) BY <1>1, <1>3, Tell, StillTells DEF Ranks, Heedful, Parting, Leaving
  <1>11. OrdStep(t)
    BY <1>2, <1>3, <1>4, <1>5, <1>6, <1>7, <1>8, <1>9, <1>10 DEF OrdStep, still, Working
  <1> QED BY <1>1, <1>11 DEF Ordinary

(* yield_now, after a call or between two tries of one.                    *)
LEMMA LeaveOrdinary ==
  ASSUME IInv, NEW t \in Slots, Leave(t) PROVE Ordinary(t)
  <1>1. CanRun(t) /\ pc[t] \in Leaving /\ pc[t] # "arm" BY DEF Leave, Leaving
  <1> DEFINE at == IF IsAPoll(t) THEN "c" ELSE AfterYield(pc[t])
  <1>2. /\ at \in PCs /\ at \in {"c", "loop", "idle", "daemon"}
        /\ at = "c" => pc[t] \in {"blocked", "yield"}
        /\ at = "loop" => pc[t] = "blocked"
        /\ at = "idle" => pc[t] = "idled"
        /\ pc[t] = "yield" => at = "c"
    BY <1>1 DEF PCs, Leaving, AfterYield, IsAPoll
  <1>3. Goto(t, at) /\ UNCHANGED <<k, still>> /\ owed' = (owed \/ ~IsAPoll(t))
    BY DEF Leave, yield_now
  <1>4. /\ k \in KType /\ (IsAPoll(t) => k.st[t] = "ready")
        /\ k.lock => k.st[t] = "ready" /\ Held(pc[t], call[t])
    BY <1>1, Running DEF Parting
  <1>5. KOrd(k, k) BY <1>4, WakesNone DEF Wakes
  <1> HIDE DEF at
  <1>6. /\ pc' \in [Slots -> PCs] /\ pc'[t] = at
        /\ call' = [u \in Slots |-> call'[u]]
        /\ at # "c" => call' = call
        /\ \A u \in Slots : u # t => pc'[u] = pc[u] /\ call'[u] = call[u]
    BY <1>2, <1>3, Going DEF IInv
  <1>7. pc'[t] \in Working => entry[t] \in Functions
    BY <1>2, <1>6 DEF IInv, CallsKept, Working
  <1>8. pc'[t] \in Busy => IsCall(call'[t])
    BY <1>2, <1>6 DEF IInv, CallsKept, Working, Busy
  <1>9. owed' \in BOOLEAN /\ (IsAPoll(t) \/ owed') BY <1>3
  <1>10. k.lock => Held(pc'[t], call'[t])
    BY <1>1, <1>2, <1>4, <1>6 DEF Held, Leaving
  <1>11. Told(t)
    <2>1. IsAPoll(t) => Heedful(t) BY DEF IsAPoll, Heedful, Parting
    <2>2. Tells BY <1>3, StillTells DEF Ranks
    <2> QED BY <1>1, <1>9, <2>1, <2>2, Tell DEF Told
  <1>12. OrdStep(t)
    BY <1>2, <1>3, <1>4, <1>5, <1>6, <1>7, <1>8, <1>9, <1>10, <1>11 DEF OrdStep, still
  <1> QED BY <1>1, <1>12 DEF Ordinary

(* The handle handed to the C.                                             *)
LEMMA WriteHandleOrdinary ==
  ASSUME IInv, NEW t \in Slots, WriteHandle(t) PROVE Ordinary(t)
  <1>1. CanRun(t) /\ pc[t] = "write" BY DEF WriteHandle, At
  <1>2. Goto(t, "c") /\ UNCHANGED <<k, owed, mask, entry, armed, phase, program>> BY DEF WriteHandle
  <1> QED BY <1>1, <1>2, Staying DEF Calm

(* xTaskGetHandle.                                                         *)
LEMMA LookupOrdinary ==
  ASSUME IInv, NEW t \in Slots, Lookup(t) PROVE Ordinary(t)
  <1>1. CanRun(t) /\ pc[t] = "call" BY DEF Lookup, Calling, At
  <1>2. Goto(t, "c") /\ UNCHANGED <<k, owed, mask, entry, armed, phase, program>> BY DEF Lookup
  <1> QED BY <1>1, <1>2, Staying DEF Calm

(* vTaskSuspend, of another task or of the caller.                         *)
LEMMA SuspendOrdinary ==
  ASSUME IInv, NEW t \in Slots, vTaskSuspend(t) PROVE Ordinary(t)
  <1>1. CanRun(t) /\ pc[t] = "call" /\ call[t].op = "suspend" BY DEF vTaskSuspend, Calling, At
  <1> DEFINE at == LeaveCpu(t)
             p == call[t].p
  <1>2. /\ Goto(t, at) /\ UNCHANGED <<mask, entry, armed, phase, program>>
        /\ owed' = (owed \/ OwnHandle(t))
    BY DEF vTaskSuspend, still
  <1>3. at \in {"c", "yield"} /\ (p = NULL => at = "yield") BY DEF LeaveCpu, LeavesByNull
  <1>4. ~k.lock BY <1>1, Unlocked DEF Calm, LockOps
  <1>5. k \in KType /\ k.st[t] = "ready" /\ Alive(k, t) /\ Heedful(t)
    BY <1>1, InCall DEF InACall, Calm
  <1>6. owed' \in BOOLEAN BY <1>2
  <1>7. CASE k' = k
    <2>1. KOrd(k, k') BY <1>5, <1>7, WakesNone DEF Wakes
    <2>2. Told(t) BY <1>1, <1>5, <1>7, Tell, StillTells DEF Ranks, Calm
    <2> QED
      BY <1>1, <1>2, <1>3, <1>4, <1>5, <1>6, <1>7, <2>1, <2>2, CallSteps DEF InACall, Calm
  <1>8. ASSUME NEW s \in Named(t, p), k' = suspend(k, s) PROVE Ordinary(t)
    <2>1. s \in Slots /\ Alive(k, s) /\ (s = t /\ p # NULL => Named(t, p) = {t}) BY <1>5, NamedAlive
    <2>2. /\ KOrd(k, k') /\ k'.lock = k.lock /\ k'.prio = k.prio /\ k'.declined = k.declined
          /\ \A u \in Slots : u # s => k'.st[u] = k.st[u]
      BY <1>5, <1>8, <2>1, SuspendOrd
    <2>3. k'.st[t] = "ready" \/ owed' \/ at = "yield"
      BY <1>2, <1>3, <1>5, <2>1, <2>2 DEF OwnHandle
    <2>4. k'.st[s] # "ready" BY <1>5, <1>8, <2>1, SuspendOrd
    <2>5. Tells BY <2>2, <2>4, StillTells DEF Ranks, KOrd
    <2>6. Told(t) BY <1>1, <1>5, <2>5, Tell DEF Calm
    <2> HIDE DEF at
    <2> QED BY <1>1, <1>2, <1>3, <1>4, <1>6, <2>2, <2>3, <2>6, CallSteps DEF InACall, Calm
  <1> QED BY <1>7, <1>8 DEF vTaskSuspend

(* vTaskResume.                                                            *)
LEMMA ResumeOrdinary ==
  ASSUME IInv, NEW t \in Slots, vTaskResume(t) PROVE Ordinary(t)
  <1>1. CanRun(t) /\ pc[t] = "call" BY DEF vTaskResume, Calling, At
  <1> DEFINE at == IF call[t].p = NULL THEN "c" ELSE "yield"
  <1>2. Goto(t, at) /\ UNCHANGED <<owed, mask, entry, armed, phase, program>>
    BY DEF vTaskResume, still
  <1>3. owed' \in BOOLEAN /\ at \in {"c", "yield"} BY <1>2 DEF IInv, Shape
  <1>4. k \in KType /\ Alive(k, t) BY <1>1, InCall DEF InACall, Calm
  <1>5. Wakes(k, k')
    <2>1. CASE k' = k BY <1>4, <2>1, WakesNone
    <2>2. ASSUME NEW s \in Named(t, call[t].p), k' = resume(k, s) PROVE Wakes(k, k')
      BY <1>4, <2>2, NamedAlive, ResumeWakes
    <2> QED BY <2>1, <2>2 DEF vTaskResume
  <1>6. at = "yield" \/ k' = k BY DEF vTaskResume
  <1>7. at = "yield" \/ Tells BY <1>6, StillTells DEF Ranks
  <1> HIDE DEF at
  <1> QED BY <1>1, <1>2, <1>3, <1>5, <1>7, Waking DEF Calm

(* vTaskPrioritySet.                                                       *)
LEMMA PriorityOrdinary ==
  ASSUME IInv, NEW t \in Slots, vTaskPrioritySet(t) PROVE Ordinary(t)
  <1>1. CanRun(t) /\ pc[t] = "call" BY DEF vTaskPrioritySet, Calling, At
  <1>2. Goto(t, "yield") /\ UNCHANGED <<owed, mask, entry, armed, phase, program>>
    BY DEF vTaskPrioritySet, still
  <1>3. owed' \in BOOLEAN BY <1>2 DEF IInv, Shape
  <1>4. k \in KType /\ Alive(k, t) /\ call[t].n \in Nat BY <1>1, InCall DEF InACall, Calm, IsCall
  <1>5. Wakes(k, k')
    <2>1. CASE k' = k BY <1>4, <2>1, WakesNone
    <2>2. ASSUME NEW s \in Named(t, call[t].p), k' = set_priority(k, s, call[t].n)
          PROVE  Wakes(k, k')
      BY <1>4, <2>2, NamedAlive, PriorityWakes
    <2> QED BY <2>1, <2>2 DEF vTaskPrioritySet
  <1> QED BY <1>1, <1>2, <1>3, <1>5, Waking DEF Calm

(* xTaskAbortDelay.                                                        *)
LEMMA AbortOrdinary ==
  ASSUME IInv, NEW t \in Slots, xTaskAbortDelay(t) PROVE Ordinary(t)
  <1>1. CanRun(t) /\ pc[t] = "call" BY DEF xTaskAbortDelay, Calling, At
  <1>2. UNCHANGED <<owed, mask, entry, armed, phase, program>> BY DEF xTaskAbortDelay, still
  <1>3. owed' \in BOOLEAN BY <1>2 DEF IInv, Shape
  <1>4. k \in KType /\ Alive(k, t) BY <1>1, InCall DEF InACall, Calm
  <1>5. CASE k' = k /\ Goto(t, "c")
    BY <1>1, <1>2, <1>5, Staying DEF Calm
  <1>6. ASSUME NEW s \in Named(t, call[t].p), Abortable(k, s), k' = abort_delay(k, s), Goto(t, "yield")
        PROVE  Ordinary(t)
    <2>1. Wakes(k, k') BY <1>4, <1>6, NamedAlive, AbortWakes
    <2> QED BY <1>1, <1>2, <1>3, <1>6, <2>1, Waking DEF Calm
  <1> QED BY <1>5, <1>6 DEF xTaskAbortDelay

(* vTaskDelay and xTaskDelayUntil.                                         *)
LEMMA DelayOrdinary ==
  ASSUME IInv, NEW t \in Slots, vTaskDelay(t) \/ xTaskDelayUntil(t) PROVE Ordinary(t)
  <1>1. CanRun(t) /\ pc[t] = "call" /\ call[t].op \in {"delay", "delayuntil"}
    BY DEF vTaskDelay, xTaskDelayUntil, Calling, At
  <1>2. UNCHANGED <<owed, mask, entry, armed, phase, program>>
    BY DEF vTaskDelay, xTaskDelayUntil, still
  <1>3. owed' \in BOOLEAN BY <1>2 DEF IInv, Shape
  <1>4. k \in KType /\ Alive(k, t) /\ call[t].n \in Nat BY <1>1, InCall DEF InACall, Calm, IsCall
  <1>5. ~k.lock BY <1>1, Unlocked DEF Calm, LockOps
  <1>6. CASE k' = k /\ Goto(t, "c")
    BY <1>1, <1>2, <1>6, Staying DEF Calm
  <1>7. ASSUME NEW n \in Nat, k' = Block(k, t, n), Goto(t, "yield") PROVE Ordinary(t)
    <2>1. KOrd(k, k') /\ k'.lock = k.lock BY <1>4, <1>7, BlockOrd
    <2> QED BY <1>1, <1>2, <1>3, <1>5, <1>7, <2>1, CallSteps DEF InACall, Calm
  <1>8. 1 .. call[t].n \subseteq Nat BY <1>4
  <1> QED BY <1>4, <1>6, <1>7, <1>8 DEF vTaskDelay, xTaskDelayUntil

(* vTaskSuspendAll.                                                        *)
LEMMA SuspendAllOrdinary ==
  ASSUME IInv, NEW t \in Slots, vTaskSuspendAll(t) PROVE Ordinary(t)
  <1>1. CanRun(t) /\ pc[t] = "call" BY DEF vTaskSuspendAll, Calling, At
  <1>2. /\ Goto(t, "c") /\ k' = suspend_all(k)
        /\ UNCHANGED <<owed, mask, entry, armed, phase, program>>
    BY DEF vTaskSuspendAll, still
  <1>3. owed' \in BOOLEAN BY <1>2 DEF IInv, Shape
  <1>4. k \in KType /\ k.st[t] = "ready" BY <1>1, InCall DEF InACall, Calm
  <1>5. KOrd(k, k') /\ k'.st[t] = "ready" BY <1>2, <1>4, SuspendAllDoes
  <1>6. Told(t)
    <2>1. k'.lock /\ k'.prio = k.prio /\ k'.cur = k.cur /\ k'.declined = k.declined /\ k'.st = k.st
      BY <1>2, <1>4, SuspendAllDoes
    <2>2. Tells BY <2>1 DEF Tells
    <2> QED BY <1>1, <2>2, InCall, Tell DEF InACall, Calm
  <1> QED BY <1>1, <1>2, <1>3, <1>5, <1>6, CallSteps DEF InACall, Calm

(* xTaskResumeAll.                                                         *)
LEMMA ResumeAllOrdinary ==
  ASSUME IInv, NEW t \in Slots, xTaskResumeAll(t) PROVE Ordinary(t)
  <1>1. CanRun(t) /\ pc[t] = "call" BY DEF xTaskResumeAll, Calling, At
  <1> DEFINE at == IF ResumeAsks(k) THEN "yield" ELSE "c"
  <1>2. /\ Goto(t, at) /\ k' = resume_all(k)
        /\ UNCHANGED <<owed, mask, entry, armed, phase, program>>
    BY DEF xTaskResumeAll, YieldsIfAsked, still
  <1>3. owed' \in BOOLEAN BY <1>2 DEF IInv, Shape
  <1>4. k \in KType /\ k.st[t] = "ready" BY <1>1, InCall DEF InACall, Calm
  <1>5. KOrd(k, k') /\ k'.st[t] = "ready" /\ ~k'.lock
    BY <1>2, <1>4, ResumeAllOrd DEF IInv, Life
  <1>6. at \in {"c", "yield"} OBVIOUS
  <1>7. at = "yield" \/ Told(t)
    <2>1. at = "c" => Tells BY <1>2, <1>4, ResumeAllAsks DEF Tells
    <2>2. Heedful(t) BY <1>1, InCall DEF InACall, Calm
    <2> QED BY <1>6, <2>1, <2>2, Tell
  <1> HIDE DEF at
  <1> QED BY <1>1, <1>2, <1>3, <1>5, <1>6, <1>7, CallSteps DEF InACall, Calm

(* taskYIELD.                                                              *)
LEMMA YieldOrdinary ==
  ASSUME IInv, NEW t \in Slots, vPortGenerateSimulatedInterrupt(t) PROVE Ordinary(t)
  <1>1. CanRun(t) /\ pc[t] = "call" BY DEF vPortGenerateSimulatedInterrupt, Calling, At
  <1>2. Goto(t, "yield") /\ UNCHANGED <<k, owed, mask, entry, armed, phase, program>>
    BY DEF vPortGenerateSimulatedInterrupt, still
  <1> QED BY <1>1, <1>2, Staying DEF Calm

(* A call whose block time or handle has been replaced.                    *)
LEMMA CallWith ==
  ASSUME NEW c, IsCall(c), NEW n \in Nat, NEW p
  PROVE  /\ IsCall([c EXCEPT !.n = n, !.p = p])
         /\ IsCall([c EXCEPT !.p = p])
  <1> DEFINE Of(q) == [op : STRING, whom : Functions \cup {"self"}, n : Nat, x : STRING, p : {q}]
  <1>1. c \in Of(c.p) /\ (c.op = "create" => c.whom \in Functions) BY DEF IsCall
  <1>2. ASSUME NEW d, d = [c EXCEPT !.p = p]
        PROVE  d \in Of(d.p) /\ d.p = p /\ d.op = c.op /\ d.whom = c.whom
    BY <1>1, <1>2
  <1>3. ASSUME NEW d, d = [c EXCEPT !.n = n, !.p = p]
        PROVE  d \in Of(d.p) /\ d.p = p /\ d.op = c.op /\ d.whom = c.whom
    BY <1>1, <1>3
  <1> QED BY <1>1, <1>2, <1>3, Zenon DEF IsCall

(* The ticks are made up for with the scheduler suspended or not.          *)
LEMMA CatchUpOrdinary ==
  ASSUME IInv, NEW t \in Slots, xTaskCatchUpTicks(t) PROVE Ordinary(t)
  <1>1. CanRun(t) /\ pc[t] \in {"call", "ticks"} /\ UNCHANGED <<owed, mask, entry, armed, phase, program>>
    BY DEF xTaskCatchUpTicks, Calling, At, still
  <1>2. pc[t] \in InACall /\ pc[t] # "arm" BY <1>1 DEF InACall, Calm
  <1>3. /\ k \in KType /\ k.st[t] = "ready" /\ entry[t] \in Functions /\ IsCall(call[t])
        /\ phase = "run" /\ k.cur = t
    BY <1>1, <1>2, InCall
  <1>4. owed' \in BOOLEAN BY <1>1 DEF IInv, Shape
  <1>5. CASE pc[t] = "call" /\ pc' = [pc EXCEPT ![t] = "ticks"] /\ UNCHANGED <<k, call>>
    <2>1. Goto(t, "ticks") BY <1>5 DEF Goto
    <2>2. KOrd(k, k') BY <1>3, <1>5, WakesNone DEF Wakes
    <2>3. Heedful(t) BY <1>5, <1>1, <1>2, InCall DEF Calm
    <2>4. Told(t) BY <1>1, <1>2, <1>5, <2>3, Tell, StillTells DEF Ranks
    <2> QED BY <1>1, <1>2, <1>3, <1>4, <1>5, <2>1, <2>2, <2>4, CallSteps
  <1>6. CASE /\ pc[t] = "ticks" /\ call[t].n > 0 /\ k' = increment_tick(k) /\ UNCHANGED pc
             /\ call' = [call EXCEPT ![t].n = @ - 1, ![t].p = Woken(t)]
    <2>1. KOrd(k, k') /\ k'.lock = k.lock /\ k'.st[t] = "ready" BY <1>3, <1>6, TickWakes DEF Wakes
    <2> DEFINE c == [call[t] EXCEPT !.n = @ - 1, !.p = Woken(t)]
    <2>2. call = [u \in Slots |-> call[u]] BY DEF IInv, Shape
    <2>3. call' = [u \in Slots |-> call'[u]] /\ \A u \in Slots : u # t => call'[u] = call[u]
      BY <1>6, <2>2
    <2>4. call'[t] = c BY <1>6, <2>2
    <2>5. IsCall(c)
      <3> DEFINE n == call[t].n - 1
                 p == Woken(t)
      <3>1. n \in Nat BY <1>3, <1>6 DEF IsCall
      <3> HIDE DEF n, p
      <3>2. IsCall([call[t] EXCEPT !.n = n, !.p = p]) BY <1>3, <3>1, CallWith, Zenon
      <3> QED BY <3>2 DEF n, p
    <2>6. c.p = Woken(t) BY <1>3 DEF IsCall
    <2> HIDE DEF c
    <2>7. pc' \in [Slots -> PCs] /\ pc'[t] = "ticks" /\ \A u \in Slots : pc'[u] = pc[u]
      BY <1>6 DEF IInv, Shape
    <2>8. (~AsksSwitch(k) /\ call[t].p # 1) \/ ~Heedful(t)'
      BY <2>4, <2>6, <2>7 DEF Woken, Heedful
    <2>9. Told(t)
      <3>1. ~AsksSwitch(k) => Tells BY <1>3, <1>6, TickAsks DEF Tells, Ranks
      <3>2. call[t].p # 1 => Heedful(t) BY <1>6 DEF Heedful, Parting, Leaving
      <3> QED BY <2>8, <3>1, <3>2 DEF Told
    <2>10. OrdStep(t) BY <1>1, <1>3, <1>4, <2>1, <2>3, <2>4, <2>5, <2>7, <2>9 DEF OrdStep, Held
    <2> QED BY <1>1, <1>2, <2>10 DEF Ordinary
  <1>7. CASE pc[t] = "ticks" /\ Goto(t, IF call[t].p = 1 THEN "yield" ELSE "c") /\ UNCHANGED k
    <2> DEFINE at == IF call[t].p = 1 THEN "yield" ELSE "c"
    <2>1. at \in {"c", "yield"} /\ Goto(t, at) BY <1>7
    <2>2. KOrd(k, k') BY <1>3, <1>7, WakesNone DEF Wakes
    <2>3. at = "yield" \/ Heedful(t) BY <1>7 DEF Heedful, Parting, Leaving
    <2>4. at = "yield" \/ Told(t) BY <1>1, <1>2, <1>7, <2>3, Tell, StillTells DEF Ranks
    <2> HIDE DEF at
    <2> QED BY <1>1, <1>2, <1>3, <1>4, <1>7, <2>1, <2>2, <2>4, CallSteps
  <1> QED BY <1>5, <1>6, <1>7 DEF xTaskCatchUpTicks, At, Calling

(* What the idle task collects it is not itself.                           *)
LEMMA IdleKeeps ==
  ASSUME IInv, NEW t \in Slots, idle(t) PROVE IInv' /\ HeededKept
  <1>1. CanRun(t) /\ pc[t] = "idle" /\ pc[t] # "arm" BY DEF idle, At
  <1>2. /\ Goto(t, "idled") /\ k' = check_tasks_waiting_termination(k)
        /\ UNCHANGED <<owed, mask, entry, armed, phase, program>>
    BY DEF idle, still
  <1>3. /\ phase = "run" /\ k.cur = t /\ ~mask /\ k \in KType /\ k.st[t] = "ready"
        /\ ~k.lock
    BY <1>1, Running DEF Parting, Leaving, Held
  <1>4. /\ k' \in KType /\ k'.cur = k.cur /\ k'.lock = k.lock /\ k'.late = k.late
        /\ \A u \in Slots : /\ k.st[u] # "gone" => k'.st[u] = k.st[u] /\ k'.gen[u] = k.gen[u]
                            /\ k.st[u] = "gone" => k'.st[u] = "free"
    BY <1>2, <1>3, CollectDoes DEF Ranks
  <1>5. /\ pc' \in [Slots -> PCs] /\ pc'[t] = "idled" /\ call' = call
        /\ \A u \in Slots : u # t => pc'[u] = pc[u]
    BY <1>2, Going DEF IInv, PCs
  <1>6. Shape' BY <1>2, <1>4, <1>5 DEF IInv, Shape
  <1>7. CallsKept' BY <1>2, <1>5 DEF IInv, CallsKept, Working, Busy
  <1>8. Booting' BY <1>2, <1>3 DEF Booting
  <1>9. AllHaveThreads' BY <1>2, <1>3, <1>4 DEF IInv, AllHaveThreads
  <1>10. Masking' BY <1>2, <1>3, <1>5 DEF IInv, Masking
  <1>11. Life'
    <2>1. \A u \in Slots : k'.st[u] # "gone" BY <1>4
    <2>2. \A u \in k'.late : Alive(k', u) BY <1>4 DEF IInv, Life, Shape, KType, Alive
    <2> QED BY <2>1, <2>2 DEF Life
  <1>12. OnCpu' BY <1>2, <1>3, <1>4, <1>5 DEF OnCpu, Held
  <1>13. HeededKept
    <2>1. Parting(t)' BY <1>5 DEF Parting, Leaving, IsAPoll
    <2> QED BY <1>2, <1>3, <1>4, <2>1 DEF HeededKept, Heeded, Heedful
  <1> QED BY <1>6, <1>7, <1>8, <1>9, <1>10, <1>11, <1>12, <1>13 DEF IInv

(* Deletion, of another task or of the caller.                             *)
LEMMA DeleteKeeps ==
  ASSUME IInv, NEW t \in Slots, vTaskDelete(t) PROVE IInv' /\ HeededKept
  <1>1. CanRun(t) /\ pc[t] = "call" /\ call[t].op = "delete" /\ pc[t] \in Calm
    BY DEF vTaskDelete, Calling, At, Calm
  <1> DEFINE at == LeaveCpu(t)
             p == call[t].p
  <1>2. /\ Goto(t, at) /\ UNCHANGED <<mask, entry, armed, phase, program>>
        /\ owed' = (owed \/ OwnHandle(t))
    BY DEF vTaskDelete, still
  <1>3. at \in {"c", "yield"} /\ at \in PCs /\ (p = NULL => at = "yield")
    BY DEF LeaveCpu, LeavesByNull, PCs
  <1>4. ~k.lock BY <1>1, Unlocked DEF Calm, LockOps
  <1>5. /\ phase = "run" /\ k.cur = t /\ ~mask /\ k \in KType /\ k.st[t] = "ready" /\ Alive(k, t)
        /\ entry[t] \in Functions /\ IsCall(call[t]) /\ Heedful(t)
    BY <1>1, InCall DEF InACall
  <1>6. owed' \in BOOLEAN BY <1>2
  <1>7. CASE k' = k
    <2>1. KOrd(k, k') BY <1>5, <1>7, WakesNone DEF Wakes
    <2>2. Told(t) BY <1>1, <1>5, <1>7, Tell, StillTells DEF Ranks, Calm
    <2>3. Ordinary(t)
      BY <1>1, <1>2, <1>3, <1>4, <1>5, <1>6, <1>7, <2>1, <2>2, CallSteps DEF InACall, Calm
    <2> QED BY <2>3, OrdinarySteps
  <1>8. ASSUME NEW s \in Named(t, p), k' = task_delete(k, s) PROVE IInv' /\ HeededKept
    <2>1. s \in Slots /\ Alive(k, s) /\ (s = t /\ p # NULL => Named(t, p) = {t}) BY <1>5, NamedAlive
    <2>2. /\ k' \in KType /\ k'.cur = t /\ ~k'.lock /\ Ranks(k, k')
          /\ \A u \in k'.late : u \in k.late /\ u # s
          /\ \A u \in Slots : u # s => k'.st[u] = k.st[u] /\ k'.gen[u] = k.gen[u]
          /\ s = t => k'.st[s] = "gone" /\ k'.gen[s] = k.gen[s]
          /\ s # t => k'.st[s] = "free"
      <3>1. k \in KType /\ s \in Slots /\ k' = task_delete(k, s) BY <1>5, <1>8, <2>1
      <3>2. k' \in KType /\ Ranks(k, k') BY <3>1, DeleteDoes
      <3>3. \A u \in k'.late : u \in k.late /\ u # s BY <3>1, DeleteDoes
      <3>4. \A u \in Slots : u # s => k'.st[u] = k.st[u] /\ k'.gen[u] = k.gen[u]
        BY <3>1, DeleteDoes
      <3>5. /\ s = k.cur => k'.st[s] = "gone" /\ k'.gen[s] = k.gen[s]
            /\ s # k.cur => k'.st[s] = "free"
        BY <3>1, DeleteDoes
      <3> QED BY <1>4, <1>5, <3>2, <3>3, <3>4, <3>5 DEF Ranks
    <2>3. s = t => owed' \/ at = "yield" BY <1>2, <1>3, <2>1 DEF OwnHandle
    <2> HIDE DEF at
    <2>4. /\ pc' \in [Slots -> PCs] /\ pc'[t] = at
          /\ call' = [u \in Slots |-> call'[u]]
          /\ at # "c" => call' = call
          /\ \A u \in Slots : u # t => pc'[u] = pc[u] /\ call'[u] = call[u]
      BY <1>2, <1>3, Going DEF IInv
    <2>5. Shape' BY <1>2, <1>6, <2>2, <2>4 DEF IInv, Shape
    <2>6. CallsKept' BY <1>2, <1>3, <1>5, <2>4 DEF IInv, CallsKept, Working, Busy
    <2>7. Booting' BY <1>2, <1>5 DEF Booting
    <2>8. AllHaveThreads' BY <1>2, <1>5, <2>1, <2>2 DEF IInv, AllHaveThreads, Alive
    <2>9. Masking' BY <1>2, <1>3, <1>5, <2>4 DEF IInv, Masking
    <2>10. Life'
      <3>1. \A u \in Slots : k'.st[u] = "gone" => k.st[u] = "gone" \/ u = t BY <2>2
      <3>2. \A u \in Slots : pc'[u] \in {"idle", "idled"} => pc[u] \in {"idle", "idled"} /\ u # t
        BY <1>3, <2>4
      <3>3. \A u \in k'.late : u \in Slots /\ Alive(k, u) /\ u # s BY <2>2 DEF IInv, Life, Shape, KType
      <3>4. \A u \in k'.late : Alive(k', u) BY <2>2, <3>3 DEF Alive
      <3> QED BY <3>1, <3>2, <3>4 DEF IInv, Life
    <2>11. k'.st[t] # "free" /\ (owed' \/ at = "yield" \/ k'.st[t] = "ready")
      BY <1>5, <2>1, <2>2, <2>3
    <2>12. at = "yield" => Parting(t)' BY <2>4 DEF Parting, Leaving, IsAPoll
    <2>13. OnCpu' BY <1>2, <1>5, <2>2, <2>11, <2>12 DEF OnCpu
    <2>14. HeededKept
      <3>1. \A u \in Slots : k'.st[u] = "ready" => k.st[u] = "ready" BY <1>5, <2>1, <2>2
      <3>2. Tells BY <2>2, <3>1, StillTells
      <3>3. Told(t) BY <1>5, <3>2, Tell
      <3>4. ~owed BY <1>1, InCall DEF InACall
      <3> QED BY <1>2, <1>5, <2>2, <3>3, <3>4, ToldHeeds DEF HeededKept
    <2> QED BY <2>5, <2>6, <2>7, <2>8, <2>9, <2>10, <2>13, <2>14 DEF IInv
  <1> QED BY <1>7, <1>8 DEF vTaskDelete

(* xTaskCreate masks interrupts until the task it made has a thread.       *)
LEMMA CreateKeeps ==
  ASSUME IInv, NEW t \in Slots, xTaskCreate(t) PROVE IInv' /\ HeededKept
  <1>1. CanRun(t) /\ pc[t] = "call" /\ call[t].op = "create" /\ pc[t] \in Calm
    BY DEF xTaskCreate, Calling, At, Calm
  <1>2. /\ phase = "run" /\ k.cur = t /\ ~mask /\ k \in KType /\ k.st[t] = "ready"
        /\ entry[t] \in Functions /\ IsCall(call[t])
    BY <1>1, InCall DEF InACall
  <1>3. ~k.lock BY <1>1, Unlocked DEF LockOps
  <1>4. CASE Goto(t, "c") /\ UNCHANGED <<k, owed, still>>
    BY <1>1, <1>4, Staying, OrdinarySteps DEF still
  <1>5. ASSUME NEW s \in FreeSlots(k), k' = create_task(k, s, call[t].n),
               owed' = (owed \/ Outranks(k', s)), mask' = TRUE, pc' = [pc EXCEPT ![t] = "arm"],
               call' = [call EXCEPT ![t].p = handle_to_c(s, k.gen[s])],
               UNCHANGED <<entry, armed, phase, program>>
        PROVE  IInv' /\ HeededKept
    <2>1. s \in Slots /\ k.st[s] = "free" /\ s # t BY <1>2 DEF FreeSlots
    <2>2. call[t].n \in Nat BY <1>2 DEF IsCall
    <2>3. k' \in KType /\ k'.gen = k.gen /\ k'.cur = k.cur /\ k'.lock = k.lock /\ k'.late = k.late
      BY <1>2, <1>5, <2>1, <2>2, CreateDoes
    <2>4. k'.st[s] = "ready" /\ \A u \in Slots : u # s => k'.st[u] = k.st[u]
      BY <1>2, <1>5, <2>1, <2>2, CreateDoes
    <2>5. \A u \in Slots : u # s => k'.prio[u] = k.prio[u]
      BY <1>2, <1>5, <2>1, <2>2, CreateDoes
    <2> DEFINE c == [call[t] EXCEPT !.p = handle_to_c(s, k.gen[s])]
    <2>6. call = [u \in Slots |-> call[u]] BY DEF IInv, Shape
    <2>7. /\ call' = [u \in Slots |-> call'[u]] /\ call'[t] = c
          /\ \A u \in Slots : u # t => call'[u] = call[u]
      BY <1>5, <2>6
    <2>8. IsCall(c) BY <1>2, 0 \in Nat, CallWith, Zenon
    <2>9. c.op = "create" /\ handle_from_c(c.p).slot = s
      <3>1. k.gen[s] \in Nat BY <1>2, <2>1 DEF KType
      <3>2. handle_from_c(handle_to_c(s, k.gen[s])).slot = s BY <2>1, <3>1, Codec
      <3>3. c.p = handle_to_c(s, k.gen[s]) /\ c.op = "create" BY <1>1, <1>2 DEF IsCall
      <3> QED BY <3>2, <3>3
    <2> HIDE DEF c
    <2>10. Fresh' = s BY <1>2, <2>3, <2>7, <2>9, Zenon DEF Fresh
    <2>11. /\ pc' \in [Slots -> PCs] /\ pc'[t] = "arm"
           /\ \A u \in Slots : u # t => pc'[u] = pc[u]
      BY <1>5 DEF IInv, Shape, PCs
    <2>12. owed' \in BOOLEAN BY <1>5
    <2>13. Shape' BY <1>5, <2>3, <2>7, <2>11, <2>12 DEF IInv, Shape
    <2>14. CallsKept' BY <1>2, <1>5, <2>7, <2>8, <2>11 DEF IInv, CallsKept, Working, Busy
    <2>15. Booting' BY <1>2, <1>5 DEF Booting
    <2>16. AllHaveThreads' BY <1>2, <1>5, <2>1, <2>3, <2>4, <2>10 DEF IInv, AllHaveThreads
    <2>17. Masking'
      <3>1. k'.cur = t BY <1>2, <2>3
      <3>2. \A u \in Slots : pc'[u] = "arm" => u = t BY <1>2, <2>11 DEF IInv, Masking
      <3> QED BY <1>5, <2>1, <2>7, <2>9, <2>10, <2>11, <3>1, <3>2 DEF Masking
    <2>18. Life'
      <3>1. \A u \in Slots : k'.st[u] = "gone" => k.st[u] = "gone" BY <2>4
      <3>2. \A u \in Slots : pc'[u] \in {"idle", "idled"} => pc[u] \in {"idle", "idled"} BY <2>11
      <3>3. \A u \in k'.late : u \in Slots /\ Alive(k, u) BY <2>3 DEF IInv, Life, Shape, KType
      <3>4. \A u \in k'.late : Alive(k', u) BY <2>4, <3>3 DEF Alive
      <3> QED BY <3>1, <3>2, <3>4 DEF IInv, Life
    <2>19. OnCpu' BY <1>2, <1>3, <2>1, <2>3, <2>4 DEF OnCpu
    <2>20. HeededKept
      <3> SUFFICES ASSUME NEW E, Heeded(E) PROVE Heeded(E)' BY DEF HeededKept
      <3>1. phase' = "run" /\ k'.cur = t /\ (owed' \/ ~Outranks(k', s)) BY <1>2, <1>5, <2>3
      <3>2. Heedful(t) /\ ~owed /\ ~k.lock BY <1>1, <1>3, InCall DEF InACall
      <3>3. NoneOutranks(k, E) BY <1>2, <3>2 DEF Heeded
      <3>4. \A u \in Slots \ E : k'.st[u] = "ready" /\ u # s => ~Outranks(k', u)
        BY <1>2, <2>1, <2>3, <2>4, <2>5, <3>3 DEF NoneOutranks, Outranks
      <3>5. owed' \/ NoneOutranks(k', E) BY <3>1, <3>4 DEF NoneOutranks
      <3> QED BY <3>1, <3>5 DEF Heeded
    <2> QED BY <2>13, <2>14, <2>15, <2>16, <2>17, <2>18, <2>19, <2>20 DEF IInv
  <1> QED BY <1>4, <1>5 DEF xTaskCreate, Masked

(* The end of the masked section: the new task gets its thread.            *)
LEMMA ArmKeeps ==
  ASSUME IInv, NEW t \in Slots, ArmCreated(t) PROVE IInv' /\ HeededKept
  <1> DEFINE s == handle_from_c(call[t].p).slot
  <1>1. CanRun(t) /\ pc[t] = "arm" /\ k.cur = t BY DEF ArmCreated, At, CanRun
  <1>2. /\ mask /\ call[t].op = "create" /\ s \in Slots /\ s # t /\ Fresh = s
        /\ phase = "run" /\ k \in KType
    BY <1>1 DEF IInv, Masking, Fresh, CanRun, Shape
  <1>3. IsCall(call[t]) /\ entry[t] \in Functions BY <1>1 DEF IInv, CallsKept, Busy, Working
  <1>4. call[t].whom \in Functions BY <1>2, <1>3 DEF IsCall
  <1>5. InThreadTable(s)
    BY <1>2, KernelAssumption, TasksAssumption DEF InThreadTable, Slots
  <1>6. /\ entry' = [entry EXCEPT ![s] = call[t].whom] /\ armed' = [armed EXCEPT ![s] = k.gen[s]]
        /\ pc' = [pc EXCEPT ![s] = "new", ![t] = "write"] /\ mask' = FALSE
        /\ UNCHANGED <<k, owed, call, phase, program>>
    BY <1>5 DEF ArmCreated, StoreEntry, arm_task
  <1>7. k.st[t] = "ready" /\ ~k.lock
    BY <1>1, <1>2 DEF IInv, OnCpu, Parting, Leaving, Held
  <1> HIDE DEF s
  <1>8. /\ pc' \in [Slots -> PCs] /\ pc'[t] = "write" /\ pc'[s] = "new"
        /\ \A u \in Slots : u # t /\ u # s => pc'[u] = pc[u]
    BY <1>2, <1>6 DEF IInv, Shape, PCs
  <1>9. /\ entry' \in [Slots -> Functions \cup {NoFunc}]
        /\ \A u \in Slots : u # s => entry'[u] = entry[u]
    BY <1>2, <1>4, <1>6 DEF IInv, Shape
  <1>10. /\ armed' \in [Slots -> Nat] /\ armed'[s] = k.gen[s]
         /\ \A u \in Slots : u # s => armed'[u] = armed[u]
    BY <1>2, <1>6 DEF IInv, Shape, KType
  <1>11. Shape' BY <1>6, <1>8, <1>9, <1>10 DEF IInv, Shape
  <1>12. CallsKept' BY <1>2, <1>3, <1>6, <1>8, <1>9 DEF IInv, CallsKept, Working, Busy
  <1>13. Booting' BY <1>2, <1>6 DEF Booting
  <1>14. AllHaveThreads' BY <1>2, <1>6, <1>10 DEF IInv, AllHaveThreads
  <1>15. Masking' BY <1>1, <1>6, <1>8 DEF IInv, Masking
  <1>16. Life'
    <2>1. \A u \in Slots : pc'[u] \in {"idle", "idled"} => pc[u] \in {"idle", "idled"} BY <1>8
    <2> QED BY <1>6, <2>1 DEF IInv, Life, Alive
  <1>17. OnCpu' BY <1>1, <1>6, <1>7 DEF OnCpu
  <1>18. HeededKept
    <2>1. Heedful(t) BY <1>1 DEF Heedful, Parting, Leaving
    <2> QED BY <1>1, <1>2, <1>6, <2>1 DEF HeededKept, Heeded
  <1> QED BY <1>11, <1>12, <1>13, <1>14, <1>15, <1>16, <1>17, <1>18 DEF IInv

(* The C calls in.                                                         *)
LEMMA EnterOrdinary ==
  ASSUME IInv, NEW t \in Slots, NEW objects, Enter(t, objects) PROVE Ordinary(t)
  <1>1. CanRun(t) /\ pc[t] = "c" /\ UNCHANGED <<k, owed, mask, entry, armed, phase, program>>
    BY DEF Enter, At, still
  <1>2. /\ k \in KType /\ k.st[t] = "ready" /\ pc[t] # "arm"
    BY <1>1, Running DEF Parting, Leaving
  <1>3. entry[t] \in Functions BY <1>1 DEF IInv, CallsKept, Working
  <1> DEFINE Num(c) == IF c.x = "above" THEN uxTaskPriorityGet(t, NULL) + 1 ELSE c.n
             Obj(c) == IF c.whom # "self" THEN handle[c.whom]
                       ELSE IF c.op \in DOMAIN objects THEN objects[c.op] ELSE NULL
             d(c) == [c EXCEPT !.p = Obj(c), !.n = Num(c)]
  <1>4. PICK c \in Code[entry[t]] :
          /\ MayCall(c)
          /\ call' = [call EXCEPT ![t] = d(c)]
          /\ pc' = [pc EXCEPT ![t] = IF c.op = "return" THEN "parked" ELSE "call"]
    BY Zenon DEF Enter
  <1>5. c \in Calls /\ (c.op = "create" => c.whom \in Functions)
    BY <1>3, TasksAssumption
  <1>6. Num(c) \in Nat
    <2>1. Named(t, NULL) = {t} BY DEF Named
    <2>2. uxTaskPriorityGet(t, NULL) = k.prio[t] BY <2>1 DEF uxTaskPriorityGet
    <2>3. k.prio[t] \in Nat BY <1>2 DEF KType
    <2>4. c.n \in Nat BY <1>5 DEF Calls
    <2> QED BY <2>2, <2>3, <2>4
  <1>7. IsCall(c) BY <1>5 DEF IsCall, Calls
  <1>8. IsCall(d(c)) /\ d(c).op = c.op
    <2> DEFINE n == Num(c)
               p == Obj(c)
    <2> HIDE DEF n, p
    <2>1. [c EXCEPT !.p = p, !.n = n] = [c EXCEPT !.n = n, !.p = p] BY <1>7, Zenon DEF IsCall
    <2>2. n \in Nat BY <1>6 DEF n
    <2>3. [c EXCEPT !.n = n, !.p = p].op = c.op BY <1>7 DEF IsCall
    <2>4. IsCall([c EXCEPT !.n = n, !.p = p]) BY <1>7, <2>2, CallWith, Zenon
    <2>5. IsCall([c EXCEPT !.p = p, !.n = n]) /\ [c EXCEPT !.p = p, !.n = n].op = c.op
      BY <2>1, <2>3, <2>4, Zenon
    <2> QED BY <2>5, Zenon DEF n, p
  <1> DEFINE e == d(c)
  <1> HIDE DEF e, d
  <1>9. call = [u \in Slots |-> call[u]] BY DEF IInv, Shape
  <1>10. /\ call' = [u \in Slots |-> call'[u]] /\ call'[t] = e
         /\ \A u \in Slots : u # t => call'[u] = call[u]
    BY <1>4, <1>9 DEF e
  <1>11. IsCall(e) /\ e.op = c.op BY <1>8 DEF e
  <1>12. /\ pc' \in [Slots -> PCs] /\ pc'[t] \in {"call", "parked"}
         /\ pc'[t] = "parked" => c.op = "return"
         /\ \A u \in Slots : u # t => pc'[u] = pc[u]
    BY <1>4 DEF IInv, Shape, PCs
  <1>13. k.lock => c.op \in LockOps BY <1>4 DEF MayCall, LockOps
  <1>14. k.lock => Held(pc'[t], call'[t])
    BY <1>10, <1>11, <1>12, <1>13 DEF Held, LockOps
  <1>15. KOrd(k, k') BY <1>1, <1>2, WakesNone DEF Wakes
  <1>16. owed' \in BOOLEAN BY <1>1 DEF IInv, Shape
  <1>17. Told(t) BY <1>1, <1>2, Tell, StillTells DEF Ranks, Heedful, Parting, Leaving
  <1>18. OrdStep(t)
    BY <1>1, <1>2, <1>3, <1>10, <1>11, <1>12, <1>14, <1>15, <1>16, <1>17 DEF OrdStep
  <1> QED BY <1>1, <1>2, <1>18 DEF Ordinary

-----------------------------------------------------------------------------
(* The switch and the tick.                                                *)

(* The switch picks a task that has a thread.                              *)
LEMMA SwitchKeeps == ASSUME IInv, pick_next PROVE IInv' /\ HeededKept
  <1>1. /\ phase = "run" /\ ~mask /\ owed' = FALSE /\ k' \in switch_context(k)
        /\ UNCHANGED <<mask, pc, call, entry, armed, program>>
        /\ phase' = IF armed[k'.cur] # 0 THEN "run" ELSE "died"
    BY DEF pick_next, sp_is_in_stack
  <1>2. k \in KType BY DEF IInv, Shape
  <1>3. /\ k' \in KType /\ k'.st = k.st /\ k'.gen = k.gen /\ k'.lock = k.lock /\ k'.late = k.late
        /\ IF k.lock THEN k'.cur = k.cur /\ k'.declined
                     ELSE k'.st[k'.cur] = "ready" /\ NoneOutranks(k', {})
    BY <1>1, <1>2, SwitchDoes
  <1>4. k'.cur \in Slots /\ k'.st[k'.cur] = "ready"
    BY <1>1, <1>3 DEF KType, IInv, OnCpu
  <1>5. armed[k'.cur] = k.gen[k'.cur]
    BY <1>1, <1>3, <1>4 DEF IInv, AllHaveThreads
  <1>6. phase' = "run" BY <1>1, <1>2, <1>4, <1>5 DEF KType
  <1>7. Shape' BY <1>1, <1>3, <1>6 DEF IInv, Shape, Phases
  <1>8. CallsKept' BY <1>1 DEF IInv, CallsKept
  <1>9. Booting' BY <1>6 DEF Booting
  <1>10. AllHaveThreads' BY <1>1, <1>3 DEF IInv, AllHaveThreads
  <1>11. Masking' BY <1>1 DEF IInv, Masking
  <1>12. Life' BY <1>1, <1>3 DEF IInv, Life, Alive
  <1>13. OnCpu' BY <1>1, <1>3, <1>4 DEF IInv, OnCpu
  <1>14. HeededKept BY <1>3, <1>6 DEF HeededKept, Heeded, NoneOutranks
  <1> QED BY <1>7, <1>8, <1>9, <1>10, <1>11, <1>12, <1>13, <1>14 DEF IInv

(* A tick, with tasks an interrupt half woke in it, told of or not.        *)
Rousing(who, woken) == (\A s \in who : Alive(k, s)) /\ Tick(who, woken)
Ticks == \E who \in SUBSET Slots, woken \in BOOLEAN : Rousing(who, woken)
ToldTicks == \E who \in SUBSET Slots : (\A s \in who : Alive(k, s)) /\ SysTick(who)

(* One that is told of is one of either.                                   *)
LEMMA ToldTicksTick == ToldTicks => Ticks
  BY DEF ToldTicks, Ticks, Rousing, SysTick

(* What it does to the tasks.                                              *)
LEMMA TickDoes ==
  ASSUME k \in KType, NEW who \in SUBSET Slots, NEW woken, Rousing(who, woken)
  PROVE  Wakes(k, k')
  <1> DEFINE kk == increment_tick(k)
  <1>1. k' = WakeFromIsr(kk, who) /\ \A s \in who : Alive(k, s) BY DEF Rousing, Tick
  <1>2. Wakes(k, kk) BY TickWakes
  <1>3. kk \in KType /\ \A s \in who : Alive(kk, s) BY <1>1, <1>2 DEF Wakes, KOrd, Alive
  <1> HIDE DEF kk
  <1>4. Wakes(kk, k') BY <1>1, <1>3, IsrWakes
  <1> QED BY <1>2, <1>4, WakesTrans

(* It keeps the invariant.                                                 *)
LEMMA TickKeeps == ASSUME IInv, Ticks PROVE IInv'
  <1>1. PICK who \in SUBSET Slots, woken \in BOOLEAN : Rousing(who, woken) BY DEF Ticks
  <1> USE <1>1
  <1> DEFINE kk == increment_tick(k)
  <1>2. /\ phase = "run" /\ ~mask /\ k' = WakeFromIsr(kk, who)
        /\ UNCHANGED <<mask, pc, call, entry, armed, phase, program>>
        /\ owed' \in BOOLEAN /\ (owed => owed')
    BY DEF Rousing, Tick, Decide
  <1>3. k \in KType BY DEF IInv, Shape
  <1>4. Wakes(k, kk) BY <1>3, TickWakes
  <1>5. kk \in KType BY <1>4 DEF Wakes, KOrd
  <1> HIDE DEF kk
  <1>6. Wakes(k, k') BY <1>3, TickDoes
  <1>7. Shape' BY <1>2, <1>6 DEF IInv, Shape, Wakes, KOrd
  <1>8. CallsKept' BY <1>2 DEF IInv, CallsKept
  <1>9. Booting' BY <1>2 DEF Booting
  <1>10. AllHaveThreads' BY <1>2, <1>6 DEF IInv, AllHaveThreads, Wakes, KOrd, Alive
  <1>11. Masking' BY <1>2 DEF IInv, Masking
  <1>12. Life'
    <2>1. \A u \in Slots : k'.st[u] = "gone" => k.st[u] = "gone" BY <1>6 DEF Wakes, KOrd, Alive
    <2>2. \A u \in k'.late : Alive(k, u) /\ u \in Slots
      BY <1>6 DEF Wakes, KOrd, KType, IInv, Life, Shape
    <2>3. \A u \in k'.late : Alive(k', u) BY <1>6, <2>2 DEF Wakes, KOrd, Alive
    <2> QED BY <1>2, <2>1, <2>3 DEF Life, IInv
  <1>13. OnCpu'
    <2>1. k'.cur = k.cur /\ k.cur \in Slots /\ k'.lock = k.lock BY <1>3, <1>6 DEF Wakes, KOrd, KType
    <2>2. k.st[k.cur] = "ready" => k'.st[k.cur] = "ready" BY <2>1, <1>6 DEF Wakes
    <2>3. k'.st[k.cur] # "free" BY <1>2, <1>6, <2>1 DEF Wakes, KOrd, Alive, IInv, OnCpu
    <2>4. Parting(k.cur)' <=> Parting(k.cur) BY <1>2, <2>1 DEF Parting, IsAPoll
    <2> QED BY <1>2, <2>1, <2>2, <2>3, <2>4 DEF IInv, OnCpu
  <1> QED BY <1>7, <1>8, <1>9, <1>10, <1>11, <1>12, <1>13 DEF IInv

(* Of the tasks an interrupt half wakes, only those of E may outrank the   *)
(* running one without anybody being told.                                 *)
LEMMA TickHeeds ==
  ASSUME IInv, NEW who \in SUBSET Slots, NEW woken \in BOOLEAN, Rousing(who, woken),
         NEW E, Heeded(E),
         k.lock \/ \A s \in who : Outranks(increment_tick(k), s) => woken \/ s \in E
  PROVE  Heeded(E)'
  <1> DEFINE kk == increment_tick(k)
  <1>1. /\ phase = "run" /\ k' = WakeFromIsr(kk, who) /\ UNCHANGED <<pc, call, phase>>
        /\ owed' = (owed \/ AsksSwitch(k) \/ ISR_WOKE \/ woken)
    BY DEF Rousing, Tick, Decide
  <1>2. k \in KType BY DEF IInv, Shape
  <1>3. kk \in KType BY <1>2, TickWakes DEF Wakes, KOrd
  <1>4. k.lock \/ \A s \in who : Outranks(kk, s) => woken \/ s \in E OBVIOUS
  <1> SUFFICES ASSUME ~owed', Heedful(k.cur)'
               PROVE  NoneOutranks(k', E) \/ (k'.lock /\ k'.declined)
    BY <1>1 DEF Heeded
  <1>5. ~owed /\ ~AsksSwitch(k) /\ ~woken BY <1>1
  <1>6. /\ Ranks(k, kk) /\ (k.declined => k.lock)
        /\ \A s \in Slots : kk.st[s] = "ready" => k.st[s] = "ready" \/ ~Outranks(k, s)
    BY <1>2, <1>5, TickAsks
  <1> HIDE DEF kk
  <1>7. /\ Ranks(kk, k')
        /\ \A s \in Slots : k'.st[s] = "ready" => kk.st[s] = "ready" \/ (s \in who /\ ~kk.lock)
    <2>1. CASE kk.lock
      <3> DEFINE l == kk.late \cup who
      <3>1. k' = [kk EXCEPT !.late = l] BY <1>1, <2>1, Zenon DEF WakeFromIsr
      <3> HIDE DEF l
      <3> QED BY <1>3, <3>1 DEF KType, Ranks
    <2>2. CASE ~kk.lock
      <3>1. k' = Wake(kk, who) BY <1>1, <2>2 DEF WakeFromIsr
      <3>2. /\ Ranks(kk, k')
            /\ \A s \in Slots : k'.st[s] = "ready" => kk.st[s] = "ready" \/ s \in who
        BY <1>3, <3>1, WakeRanks
      <3> QED BY <2>2, <3>2
    <2> QED BY <2>1, <2>2
  <1>8. Heedful(k.cur) BY <1>1, <1>6, <1>7 DEF Ranks, Heedful, Parting, IsAPoll
  <1>9. NoneOutranks(k, E) \/ (k.lock /\ k.declined) BY <1>1, <1>5, <1>8 DEF Heeded
  <1>10. CASE k.lock /\ k.declined BY <1>6, <1>7, <1>10 DEF Ranks
  <1>11. CASE NoneOutranks(k, E)
    <2> SUFFICES ASSUME NEW s \in Slots \ E, k'.st[s] = "ready" PROVE ~Outranks(k', s)
      BY DEF NoneOutranks
    <2>1. (Outranks(k', s) <=> Outranks(k, s)) /\ (Outranks(kk, s) <=> Outranks(k, s))
      BY <1>6, <1>7 DEF Ranks, Outranks
    <2>2. CASE s \in who /\ ~kk.lock BY <1>4, <1>5, <1>6, <2>1, <2>2 DEF Ranks
    <2>3. CASE kk.st[s] = "ready" BY <1>6, <1>11, <2>1, <2>3 DEF NoneOutranks
    <2> QED BY <1>7, <2>2, <2>3
  <1> QED BY <1>9, <1>10, <1>11

(* One that is told of leaves nobody waiting.                              *)
LEMMA ToldTicksKeep == ASSUME IInv, ToldTicks PROVE IInv' /\ HeededKept
  <1>1. PICK who \in SUBSET Slots : (\A s \in who : Alive(k, s)) /\ SysTick(who) BY DEF ToldTicks
  <1> DEFINE woken == \E w \in who : Outranks(increment_tick(k), w)
  <1>2. Rousing(who, woken) /\ woken \in BOOLEAN BY <1>1 DEF SysTick, Rousing
  <1>3. \A s \in who : Outranks(increment_tick(k), s) => woken OBVIOUS
  <1> HIDE DEF woken
  <1>4. HeededKept BY <1>2, <1>3, TickHeeds DEF HeededKept
  <1> QED BY <1>4, ToldTicksTick, TickKeeps

-----------------------------------------------------------------------------
(* Notifications.                                                          *)

(* The call, or a later try of a call that blocks.                         *)
LEMMA Tries ==
  ASSUME IInv, NEW t \in Slots, NEW op, Calling(t, op) \/ Looping(t, op)
  PROVE  /\ CanRun(t) /\ pc[t] \in Calm /\ k \in KType /\ Alive(k, t) /\ owed \in BOOLEAN
         /\ op \notin LockOps => ~k.lock
  <1>1. CanRun(t) /\ pc[t] \in {"call", "loop"} /\ call[t].op = op
    BY DEF Calling, Looping, At
  <1>2. pc[t] \in Calm /\ pc[t] # "ticks" BY <1>1 DEF Calm
  <1>3. owed \in BOOLEAN BY DEF IInv, Shape
  <1>4. pc[t] \in InACall BY <1>2 DEF InACall
  <1> QED BY <1>1, <1>2, <1>3, <1>4, Unlocked, InCall

(* The first half of a notification that returns the value.                *)
LEMMA QueryOrdinary ==
  ASSUME IInv, NEW t \in Slots, Query(t) PROVE Ordinary(t)
  <1>1. Calling(t, "query") /\ (Goto(t, "mid") \/ Goto(t, "c")) /\ UNCHANGED <<k, owed, still>>
    BY DEF Query
  <1>2. CanRun(t) /\ pc[t] \in Calm /\ ~k.lock BY <1>1, Tries DEF LockOps
  <1> QED BY <1>1, <1>2, Staying DEF still

(* xTaskGenericNotify.                                                     *)
LEMMA NotifyOrdinary ==
  ASSUME IInv, NEW t \in Slots, xTaskGenericNotify(t) PROVE Ordinary(t)
  <1>1. CanRun(t) /\ pc[t] \in Calm /\ UNCHANGED <<owed, mask, entry, armed, phase, program>>
    BY DEF xTaskGenericNotify, Calling, At, Calm, still
  <1>2. k \in KType /\ Alive(k, t) /\ owed' \in BOOLEAN BY <1>1, InCall DEF InACall, IInv, Shape
  <1>3. CASE Goto(t, "c") /\ UNCHANGED k BY <1>1, <1>3, Staying
  <1>4. ASSUME NEW s \in Named(t, call[t].p), Goto(t, "yield"), k' = Wake(k, Roused(s))
        PROVE  Ordinary(t)
    <2>1. \A u \in Roused(s) : Alive(k, u) BY <1>2, NamedAlive DEF Roused
    <2>2. Wakes(k, k') BY <1>2, <1>4, <2>1, WakeWakes
    <2> QED BY <1>1, <1>2, <1>4, <2>2, Waking
  <1>5. CASE Goto(t, "c") /\ UNCHANGED <<k, notifyVars>> BY <1>3, <1>5
  <1>6. ASSUME NEW s \in Named(t, call[t].p), notify(s, call[t].x), k' = Wake(k, Roused(s)),
               Goto(t, "yield")
        PROVE  Ordinary(t)
    BY <1>4, <1>6
  <1> QED BY <1>5, <1>6 DEF xTaskGenericNotify

(* xTaskGenericNotifyWait.                                                 *)
LEMMA NotifyWaitOrdinary ==
  ASSUME IInv, NEW t \in Slots, xTaskGenericNotifyWait(t) PROVE Ordinary(t)
  <1>1. Looping(t, "notifywait") /\ UNCHANGED <<owed, still>> BY DEF xTaskGenericNotifyWait
  <1>2. CanRun(t) /\ pc[t] \in Calm /\ ~k.lock BY <1>1, Tries DEF LockOps
  <1>3. CASE Goto(t, "c") /\ UNCHANGED k BY <1>1, <1>2, <1>3, Staying DEF still
  <1>4. CASE k' = Parked(t) /\ Goto(t, "blocked") BY <1>1, <1>2, <1>4, Parking DEF still
  <1> QED BY <1>3, <1>4 DEF xTaskGenericNotifyWait

(* ulTaskGenericNotifyTake.                                                *)
LEMMA TakeOrdinary ==
  ASSUME IInv, NEW t \in Slots, ulTaskGenericNotifyTake(t) PROVE Ordinary(t)
  <1>1. Looping(t, "take") /\ UNCHANGED <<owed, still>> BY DEF ulTaskGenericNotifyTake
  <1>2. CanRun(t) /\ pc[t] \in Calm /\ ~k.lock BY <1>1, Tries DEF LockOps
  <1>3. CASE Goto(t, "c") /\ UNCHANGED k BY <1>1, <1>2, <1>3, Staying DEF still
  <1>4. CASE k' = Parked(t) /\ Goto(t, "blocked") BY <1>1, <1>2, <1>4, Parking DEF still
  <1> QED BY <1>3, <1>4 DEF ulTaskGenericNotifyTake

(* The two calls that clear.                                               *)
LEMMA ClearOrdinary ==
  ASSUME IInv, NEW t \in Slots,
         xTaskGenericNotifyStateClear(t) \/ ulTaskGenericNotifyValueClear(t)
  PROVE  Ordinary(t)
  <1>1. /\ Calling(t, "stateclear") \/ Calling(t, "valueclear")
        /\ Goto(t, "c") /\ UNCHANGED <<k, owed, still>>
    BY DEF xTaskGenericNotifyStateClear, ulTaskGenericNotifyValueClear
  <1>2. CanRun(t) /\ pc[t] \in Calm BY <1>1, Tries
  <1> QED BY <1>1, <1>2, Staying DEF still

(* Every notification call.                                                *)
LEMMA NotifyCallOrdinary ==
  ASSUME IInv, NEW t \in Slots, NotifyCall(t) PROVE Ordinary(t)
  BY QueryOrdinary, NotifyOrdinary, NotifyWaitOrdinary, TakeOrdinary, ClearOrdinary DEF NotifyCall

(* A notification given by an interrupt half.                              *)
LEMMA NotifyIsrTicks ==
  ASSUME NotifyIsr PROVE ToldTicks
  <1>1. PICK c \in program.isr :
          xTaskGenericNotifyFromISR(c) \/ vTaskGenericNotifyGiveFromISR(c)
    BY DEF NotifyIsr
  <1>2. NotifyFromISR(c) \/ NotifyFromISR(Give(c))
    BY <1>1 DEF xTaskGenericNotifyFromISR, vTaskGenericNotifyGiveFromISR
  <1>3. ASSUME NEW d, NotifyFromISR(d) PROVE ToldTicks
    <2>1. PICK s \in Named(None, handle[d.whom]) : SysTick(Roused(s))
      BY <1>3 DEF NotifyFromISR
    <2>2. handle[d.whom] # NULL BY <1>3 DEF NotifyFromISR
    <2>3. s \in Slots /\ Alive(k, s) BY <2>2 DEF Named
    <2>4. Roused(s) \in SUBSET Slots /\ \A u \in Roused(s) : Alive(k, u) BY <2>3 DEF Roused
    <2> QED BY <2>1, <2>4 DEF ToldTicks
  <1> QED BY <1>2, <1>3

-----------------------------------------------------------------------------
(* Event groups.                                                           *)

(* The tasks a change of bits releases were waiting.                       *)
LEMMA ReleasedAlive ==
  ASSUME NEW b
  PROVE  Released(b) \in SUBSET Slots /\ \A s \in Released(b) : Alive(k, s)
  BY WaitsAlive DEF Released

(* A group made, or bits cleared.                                          *)
LEMMA GroupCreateOrdinary ==
  ASSUME IInv, NEW t \in Slots, xEventGroupCreate(t) \/ xEventGroupClearBits(t)
  PROVE  Ordinary(t)
  <1>1. /\ Calling(t, "groupcreate") \/ Calling(t, "clearbits")
        /\ Goto(t, "c") /\ UNCHANGED <<k, owed, still>>
    BY DEF xEventGroupCreate, xEventGroupClearBits
  <1>2. CanRun(t) /\ pc[t] \in Calm BY <1>1, Tries
  <1> QED BY <1>1, <1>2, Staying DEF still

(* vEventGroupDelete releases everybody.                                   *)
LEMMA GroupDeleteOrdinary ==
  ASSUME IInv, NEW t \in Slots, vEventGroupDelete(t) PROVE Ordinary(t)
  <1>1. /\ Calling(t, "groupdelete") /\ Goto(t, "c")
        /\ UNCHANGED <<mask, entry, armed, phase, program>>
    BY DEF vEventGroupDelete, still
  <1>2. CanRun(t) /\ pc[t] \in Calm /\ k \in KType /\ owed \in BOOLEAN BY <1>1, Tries
  <1>3. CASE /\ k' = Wake(k, Waits(WaitOps))
             /\ owed' = (owed \/ \E s \in Waits(WaitOps) : Outranks(k, s))
    <2>1. Wakes(k, k') BY <1>2, <1>3, WaitsAlive, WakeWakes
    <2>2. Tells BY <1>2, <1>3, WakeTells
    <2>3. owed' \in BOOLEAN BY <1>3
    <2> QED BY <1>1, <1>2, <2>1, <2>2, <2>3, Waking
  <1>4. CASE UNCHANGED <<k, owed>> BY <1>1, <1>2, <1>4, Staying
  <1> QED BY <1>3, <1>4 DEF vEventGroupDelete

(* xEventGroupSetBits.                                                     *)
LEMMA SetBitsOrdinary ==
  ASSUME IInv, NEW t \in Slots, xEventGroupSetBits(t) PROVE Ordinary(t)
  <1>1. Calling(t, "setbits") /\ UNCHANGED <<owed, mask, entry, armed, phase, program>>
    BY DEF xEventGroupSetBits, still
  <1>2. CanRun(t) /\ pc[t] \in Calm /\ k \in KType /\ owed' \in BOOLEAN BY <1>1, Tries
  <1> DEFINE at == IF call[t].p = NULL THEN "c" ELSE "yield"
  <1>3. at \in {"c", "yield"} /\ Goto(t, at) BY DEF xEventGroupSetBits
  <1>4. CASE k' = Wake(k, Released(OwnBits(t))) /\ Goto(t, "yield")
    <2>1. Wakes(k, k') BY <1>2, <1>4, ReleasedAlive, WakeWakes
    <2> QED BY <1>1, <1>2, <1>4, <2>1, Waking
  <1>5. CASE UNCHANGED k
    <2> HIDE DEF at
    <2> QED BY <1>1, <1>2, <1>3, <1>5, Staying
  <1> QED BY <1>3, <1>4, <1>5 DEF xEventGroupSetBits, group_from_c

(* xEventGroupWaitBits.                                                    *)
LEMMA WaitBitsOrdinary ==
  ASSUME IInv, NEW t \in Slots, xEventGroupWaitBits(t) PROVE Ordinary(t)
  <1>1. (Looping(t, "wait") \/ Looping(t, "watch")) /\ UNCHANGED <<owed, still>>
    BY DEF xEventGroupWaitBits
  <1>2. CanRun(t) /\ pc[t] \in Calm /\ ~k.lock BY <1>1, Tries DEF LockOps
  <1>3. CASE Goto(t, "c") /\ UNCHANGED k BY <1>1, <1>2, <1>3, Staying DEF still
  <1>4. CASE k' = Parked(t) /\ Goto(t, "blocked") BY <1>1, <1>2, <1>4, Parking DEF still
  <1> QED BY <1>3, <1>4 DEF xEventGroupWaitBits

(* The first try of a sync may release others and park its own task both.  *)
LEMMA SyncOrdinary ==
  ASSUME IInv, NEW t \in Slots, xEventGroupSync(t) PROVE Ordinary(t)
  <1>1. Looping(t, "sync") /\ UNCHANGED <<mask, entry, armed, phase, program>>
    BY DEF xEventGroupSync, still
  <1>2. /\ CanRun(t) /\ pc[t] \in Calm /\ ~k.lock /\ k \in KType /\ owed \in BOOLEAN
    BY <1>1, Tries DEF LockOps
  <1> DEFINE together == Met(t, bits \cup OwnBits(t))
             who == Released(OwnBits(t))
             kk == IF together THEN k ELSE Parked(t)
             at == IF together THEN "c" ELSE "blocked"
  <1>3. CASE /\ k' = Wake(kk, who) /\ Goto(t, at)
             /\ owed' = (owed \/ \E s \in who : Outranks(k, s))
    <2>1. KOrd(k, kk) /\ kk.lock = k.lock /\ (kk.st[t] = "ready" \/ (at = "blocked" /\ call[t].n # 0))
      <3>1. CASE together BY <1>2, <3>1, InCall, WakesNone DEF Wakes, InACall
      <3>2. CASE ~together BY <1>2, <3>2, ParkedOrd
      <3> QED BY <3>1, <3>2
    <2>2. at \in {"c", "blocked"} OBVIOUS
    <2>3. Told(t) \/ (at = "blocked" /\ call[t].n # 0)
      <3>1. kk = k \/ (at = "blocked" /\ call[t].n # 0) BY DEF Parked
      <3>2. pc[t] # "arm" /\ Heedful(t) BY <1>2, InCall DEF InACall, Calm
      <3>3. CASE kk = k
        <4>1. k' = Wake(k, who) /\ ((\E s \in who : Outranks(k, s)) => owed') BY <1>3, <3>3
        <4> HIDE DEF who
        <4>2. Tells BY <1>2, <4>1, WakeTells
        <4> QED BY <1>2, <3>2, <4>2, Tell
      <3> QED BY <3>1, <3>3
    <2>4. owed' \in BOOLEAN BY <1>3
    <2> HIDE DEF kk, at
    <2>5. \A s \in who : Alive(k, s) /\ s \in Slots BY ReleasedAlive
    <2> HIDE DEF who
    <2>6. \A s \in who : Alive(kk, s) BY <2>1, <2>5 DEF KOrd, Alive
    <2>7. Wakes(kk, k') BY <1>3, <2>1, <2>6, WakeWakes DEF KOrd
    <2>8. KOrd(k, k')
      <3>1. k' \in KType /\ k'.gen = k.gen /\ k'.cur = k.cur BY <2>1, <2>7 DEF Wakes, KOrd
      <3>2. \A s \in k'.late : s \in k.late \/ Alive(k, s)
        BY <2>1, <2>7 DEF Wakes, KOrd, KType, Alive
      <3>3. \A s \in Slots : k'.st[s] = k.st[s] \/ (Alive(k, s) /\ Alive(k', s))
        BY <2>1, <2>7 DEF Wakes, KOrd, Alive
      <3> QED BY <3>1, <3>2, <3>3 DEF KOrd
    <2>9. ~k'.lock BY <1>2, <2>1, <2>7 DEF Wakes
    <2>10. k'.st[t] = "ready" \/ (at = "blocked" /\ call[t].n # 0) BY <2>1, <2>7 DEF Wakes
    <2> QED BY <1>1, <1>2, <1>3, <2>2, <2>8, <2>9, <2>10, <2>3, <2>4, CallSteps DEF InACall
  <1>4. CASE Goto(t, "c") /\ UNCHANGED <<k, owed>> BY <1>1, <1>2, <1>4, Staying
  <1>5. CASE k' = Parked(t) /\ Goto(t, "blocked") /\ owed' = owed
    BY <1>1, <1>2, <1>5, Parking
  <1> HIDE DEF together, who
  <1> QED BY <1>3, <1>4, <1>5 DEF xEventGroupSync, together, who

(* Every event-group call.                                                 *)
LEMMA GroupCallOrdinary ==
  ASSUME IInv, NEW t \in Slots, GroupCall(t) PROVE Ordinary(t)
  BY GroupCreateOrdinary, GroupDeleteOrdinary, SetBitsOrdinary, WaitBitsOrdinary, SyncOrdinary DEF GroupCall

(* A command posted by an interrupt half wakes the daemon alone.           *)
LEMMA SleepingDaemonAlive ==
  SleepingDaemon \in SUBSET Slots /\ \A s \in SleepingDaemon : Alive(k, s)
  BY DEF SleepingDaemon, Alive

(* Told of, when it sets.                                                  *)
LEMMA SetIsrTicks ==
  ASSUME NEW c, xEventGroupSetBitsFromISR(c) PROVE ToldTicks
  <1>1. SysTick(SleepingDaemon) \/ SysTick({}) BY DEF xEventGroupSetBitsFromISR
  <1> QED BY <1>1, SleepingDaemonAlive DEF ToldTicks

(* Not when it clears.                                                     *)
LEMMA ClearIsrTicks ==
  ASSUME NEW c, xEventGroupClearBitsFromISR(c)
  PROVE  ToldTicks \/ (Accepts /\ Post("clear", BitsOf[c.x]) /\ Rousing(SleepingDaemon, FALSE))
  <1>1. SysTick({}) \/ (Accepts /\ Post("clear", BitsOf[c.x]) /\ Tick(SleepingDaemon, FALSE))
    BY DEF xEventGroupClearBitsFromISR
  <1> QED BY <1>1, SleepingDaemonAlive DEF ToldTicks, Rousing

(* Either is a tick.                                                       *)
LEMMA GroupIsrTicks == ASSUME GroupIsr PROVE Ticks
  <1>1. Rousing(SleepingDaemon, FALSE) => Ticks
    BY SleepingDaemonAlive DEF Ticks
  <1> QED BY <1>1, SetIsrTicks, ClearIsrTicks, ToldTicksTick DEF GroupIsr

(* The daemon carries out a command, or sleeps.                            *)
LEMMA DaemonOrdinary ==
  ASSUME IInv, NEW t \in Slots, timer_daemon(t) PROVE Ordinary(t)
  <1>1. CanRun(t) /\ pc[t] = "daemon" /\ pc[t] # "arm" /\ UNCHANGED <<owed, mask, entry, armed, phase, program>>
    BY DEF timer_daemon, At, still
  <1>2. k \in KType /\ k.st[t] = "ready" /\ ~k.lock /\ Alive(k, t)
    BY <1>1, Running DEF Parting, Leaving, Held, Alive
  <1>3. owed' \in BOOLEAN BY <1>1 DEF IInv, Shape
  <1>4. ASSUME Wakes(k, k'), UNCHANGED <<pc, call>> PROVE Ordinary(t)
    <2>1. KOrd(k, k') /\ k'.st[t] = "ready" /\ ~k'.lock BY <1>2, <1>4 DEF Wakes
    <2>2. pc' \in [Slots -> PCs] /\ call' = [u \in Slots |-> call'[u]]
      BY <1>4 DEF IInv, Shape
    <2>3. Told(t) BY <1>1, <1>4 DEF Told, Heedful
    <2>4. OrdStep(t) BY <1>1, <1>3, <1>4, <2>1, <2>2, <2>3 DEF OrdStep, Working, Busy
    <2> QED BY <1>1, <2>4 DEF Ordinary
  <1>5. CASE cmds # <<>>
    <2>1. UNCHANGED <<pc, call>> /\ pended(Head(cmds)) BY <1>5 DEF timer_daemon
    <2>2. k' = k \/ k' = Wake(k, Released(Head(cmds).bits)) BY <2>1 DEF pended
    <2>3. Wakes(k, k') BY <1>2, <2>2, ReleasedAlive, WakeWakes, WakesNone
    <2> QED BY <1>4, <2>1, <2>3
  <1>6. CASE cmds = <<>>
    <2>1. k' = Block(k, t, Forever) /\ Goto(t, "slept") BY <1>6 DEF timer_daemon
    <2>2. Forever \in Nat BY KernelAssumption DEF Forever
    <2>3. KOrd(k, k') /\ k'.lock = k.lock BY <1>2, <2>1, <2>2, BlockOrd
    <2>4. /\ pc' \in [Slots -> PCs] /\ pc'[t] = "slept" /\ call' = [u \in Slots |-> call'[u]]
          /\ \A u \in Slots : u # t => pc'[u] = pc[u] /\ call'[u] = call[u]
      BY <2>1, Going DEF IInv, PCs
    <2>5. Parting(t)' BY <2>4 DEF Parting, Leaving, IsAPoll
    <2>6. Told(t) BY <2>5 DEF Told, Heedful
    <2>7. OrdStep(t) BY <1>1, <1>2, <1>3, <2>3, <2>4, <2>5, <2>6 DEF OrdStep, Working, Busy
    <2> QED BY <1>1, <2>7 DEF Ordinary
  <1> QED BY <1>5, <1>6

-----------------------------------------------------------------------------
(* Buffers, the serial port, semaphores and mutexes.                       *)

(* Rouses only wakes.                                                      *)
LEMMA RousesWakes ==
  ASSUME IInv, NEW ops, NEW who, who \subseteq Waits(ops), Rouses(who)
  PROVE  Wakes(k, k') /\ owed' \in BOOLEAN /\ Tells
  <1>1. k \in KType BY DEF IInv, Shape
  <1>2. \A s \in who : Alive(k, s) BY WaitsAlive
  <1>3. /\ k' = Wake(k, who) /\ owed' \in BOOLEAN
        /\ (\E s \in who : Outranks(k, s)) => owed'
    BY DEF Rouses
  <1>4. Wakes(k, k') BY <1>1, <1>2, <1>3, WakeWakes
  <1>5. Tells BY <1>1, <1>3, WakeTells
  <1> QED BY <1>3, <1>4, <1>5

(* A step that changes what the call keeps.                                *)
LEMMA Rewriting ==
  ASSUME IInv, NEW t \in Slots, CanRun(t), pc[t] \in Calm, ~k.lock, Wakes(k, k'),
         owed' \in BOOLEAN, UNCHANGED <<mask, entry, armed, phase, program>>, Tells,
         NEW at \in {"c", "mid", "count"}, pc' = [pc EXCEPT ![t] = at],
         NEW d, call' = [call EXCEPT ![t] = d], at # "c" => IsCall(d)
  PROVE  Ordinary(t)
  <1>1. pc[t] # "arm" /\ at \in PCs BY DEF Calm, PCs
  <1>2. pc' \in [Slots -> PCs] /\ pc'[t] = at /\ \A u \in Slots : u # t => pc'[u] = pc[u]
    BY <1>1 DEF IInv, Shape
  <1>3. call = [u \in Slots |-> call[u]] BY DEF IInv, Shape
  <1>4. /\ call' = [u \in Slots |-> call'[u]] /\ call'[t] = d
        /\ \A u \in Slots : u # t => call'[u] = call[u]
    BY <1>3
  <1>5. entry[t] \in Functions /\ k.st[t] = "ready" /\ Heedful(t) BY InCall DEF InACall
  <1>6. KOrd(k, k') /\ k'.st[t] = "ready" /\ ~k'.lock BY <1>5 DEF Wakes
  <1>7. pc'[t] \in Busy => IsCall(call'[t]) BY <1>2, <1>4 DEF Busy
  <1>8. Told(t) BY <1>1, <1>5, Tell
  <1>9. OrdStep(t) BY <1>2, <1>4, <1>5, <1>6, <1>7, <1>8 DEF OrdStep
  <1> QED BY <1>1, <1>9 DEF Ordinary

(* These return with the kernel's tasks as they were.                      *)
LEMMA BufferReturnsOrdinary ==
  ASSUME IInv, NEW t \in Slots,
         vStreamBufferDelete(t) \/ xStreamBufferReset(t) \/ xSerialPortInitMinimal(t)
  PROVE  Ordinary(t)
  <1>1. /\ Calling(t, "sbdelete") \/ Calling(t, "sbreset") \/ Calling(t, "open")
        /\ Goto(t, "c") /\ UNCHANGED <<k, owed, still>>
    BY DEF vStreamBufferDelete, xStreamBufferReset, xSerialPortInitMinimal
  <1>2. CanRun(t) /\ pc[t] \in Calm BY <1>1, Tries
  <1> QED BY <1>1, <1>2, Staying DEF still

(* The steps of a buffer's creation, and of its count.                     *)
LEMMA BufferCreateOrdinary ==
  ASSUME IInv, NEW t \in Slots, xStreamBufferGenericCreate(t) \/ FlagCreated(t) \/ CountReceive(t)
  PROVE  Ordinary(t)
  <1>1. UNCHANGED <<k, owed, mask, entry, armed, phase, program>>
    BY DEF xStreamBufferGenericCreate, FlagCreated, CountReceive, still
  <1>2. CASE xStreamBufferGenericCreate(t)
    <2>1. Calling(t, "sbcreate") /\ (Goto(t, "mid") \/ Goto(t, "c"))
      BY <1>2 DEF xStreamBufferGenericCreate
    <2>2. CanRun(t) /\ pc[t] \in Calm /\ ~k.lock BY <2>1, Tries DEF LockOps
    <2> QED BY <1>1, <2>1, <2>2, Staying
  <1>3. CASE FlagCreated(t) \/ CountReceive(t)
    <2>1. CanRun(t) /\ pc[t] \in Calm /\ Goto(t, "c")
      BY <1>3 DEF FlagCreated, CountReceive, At, Calm
    <2> QED BY <1>1, <2>1, Staying
  <1> QED BY <1>2, <1>3

(* xStreamBufferSend.                                                      *)
LEMMA BufferSendOrdinary ==
  ASSUME IInv, NEW t \in Slots, xStreamBufferSend(t) PROVE Ordinary(t)
  <1>1. Looping(t, "sbsend") /\ UNCHANGED <<mask, entry, armed, phase, program>>
    BY DEF xStreamBufferSend, still
  <1>2. CanRun(t) /\ pc[t] \in Calm /\ ~k.lock BY <1>1, Tries DEF LockOps
  <1>3. CASE Rouses(Readers(buffer.level + 1)) /\ Goto(t, "c")
    <2>1. Readers(buffer.level + 1) \subseteq Waits({"sbreceive"}) BY DEF Readers
    <2> QED BY <1>1, <1>2, <1>3, <2>1, RousesWakes, Waking
  <1>4. CASE Blocks(t) /\ UNCHANGED owed BY <1>1, <1>2, <1>4, Parking DEF Blocks
  <1>5. CASE Goto(t, "c") /\ UNCHANGED <<k, owed>> BY <1>1, <1>2, <1>5, Staying
  <1> QED BY <1>3, <1>4, <1>5 DEF xStreamBufferSend

(* A receive that samples the tick count besides.                          *)
LEMMA BufferReceiveOrdinary ==
  ASSUME IInv, NEW t \in Slots, xStreamBufferReceive(t) PROVE Ordinary(t)
  <1> DEFINE kk == IF pc[t] = "call" THEN SampledNow(t) ELSE k
  <1>1. Attempt(t, kk) BY DEF xStreamBufferReceive
  <1>2. k \in KType /\ NoWait \in Nat BY KernelAssumption DEF IInv, Shape, NoWait
  <1>3. Wakes(k, kk) BY <1>2, 0 \in Nat, SinceWakes, WakesNone DEF SampledNow
  <1>4. kk \in KType /\ kk.since[t] \in Nat BY <1>3 DEF Wakes, KOrd, KType
  <1>5. Ranks(k, kk) /\ kk.st = k.st BY <1>2, 0 \in Nat, SinceRanks DEF SampledNow, Ranks
  <1> HIDE DEF kk
  <1>6. Looping(t, "sbreceive") /\ UNCHANGED <<mask, entry, armed, phase, program>>
    BY <1>1 DEF Attempt, still
  <1>7. CanRun(t) /\ pc[t] \in Calm /\ ~k.lock /\ owed \in BOOLEAN BY <1>6, Tries DEF LockOps
  <1>8. IsCall(call[t]) BY <1>7, InCall DEF InACall
  <1>9. ASSUME NEW who, who \subseteq Writers, k' = [Wake(kk, who) EXCEPT !.since[t] = NoWait],
               owed' = (owed \/ \E s \in who : Outranks(k, s)),
               pc' = [pc EXCEPT ![t] = IF call[t].n > 0 THEN "count" ELSE "c"],
               call' = [call EXCEPT ![t] = IF call[t].n > 0 THEN [@ EXCEPT !.p = kk.since[t]] ELSE NoCall]
        PROVE  Ordinary(t)
    <2>1. \A s \in who : Alive(k, s) /\ s \in Slots BY <1>9, WaitsAlive DEF Writers
    <2>2. \A s \in who : Alive(kk, s) BY <1>3, <2>1 DEF Wakes, KOrd, Alive
    <2>3. Wakes(kk, Wake(kk, who)) BY <1>4, <2>2, WakeWakes
    <2>4. Wake(kk, who) \in KType BY <2>3 DEF Wakes, KOrd
    <2>5. Wakes(Wake(kk, who), k') BY <1>2, <1>9, <2>4, SinceWakes
    <2>6. Wakes(k, k') BY <1>3, <2>3, <2>5, WakesTrans
    <2>7. Tells
      <3>1. Ranks(Wake(kk, who), k') /\ k'.st = Wake(kk, who).st BY <1>2, <1>9, <2>4, SinceRanks
      <3>2. /\ Ranks(kk, Wake(kk, who))
            /\ \A s \in Slots : Wake(kk, who).st[s] = "ready" <=> s \in who \/ kk.st[s] = "ready"
        BY <1>4, WakeRanks
      <3>3. Ranks(k, k') BY <1>5, <3>1, <3>2 DEF Ranks
      <3>4. \A s \in Slots : k'.st[s] = "ready" => s \in who \/ k.st[s] = "ready"
        BY <1>5, <3>1, <3>2
      <3> QED BY <1>9, <3>3, <3>4 DEF Tells, Ranks
    <2>8. owed' \in BOOLEAN BY <1>9
    <2> DEFINE at == IF call[t].n > 0 THEN "count" ELSE "c"
               d == IF call[t].n > 0 THEN [call[t] EXCEPT !.p = kk.since[t]] ELSE NoCall
    <2>9. pc' = [pc EXCEPT ![t] = at] /\ at \in {"c", "mid", "count"} BY <1>9
    <2>10. call' = [call EXCEPT ![t] = d] BY <1>9 DEF IInv, Shape
    <2>11. IsCall([call[t] EXCEPT !.p = kk.since[t]]) BY <1>8, 0 \in Nat, CallWith, Zenon
    <2>12. at # "c" => IsCall(d) BY <2>11
    <2> HIDE DEF at, d
    <2> QED BY <1>6, <1>7, <2>6, <2>9, <2>10, <2>12, <2>7, <2>8, Rewriting
  <1>10. ASSUME NEW n \in Nat, k' = [Parked(t) EXCEPT !.since[t] = n], Goto(t, "blocked"), UNCHANGED owed
        PROVE  Ordinary(t)
    <2> DEFINE b == Parked(t)
    <2>1. KOrd(k, b) /\ b.lock = k.lock /\ (b.st[t] = "ready" \/ call[t].n # 0) BY <1>7, ParkedOrd
    <2> HIDE DEF b
    <2>2. b \in KType BY <2>1 DEF KOrd
    <2>3. Wakes(b, [b EXCEPT !.since[t] = n]) BY <2>2, SinceWakes
    <2>4. Wakes(b, k') BY <1>10, <2>3 DEF b
    <2>5. KOrd(k, k')
      <3>1. k' \in KType /\ k'.gen = k.gen /\ k'.cur = k.cur BY <2>1, <2>4 DEF Wakes, KOrd
      <3>2. \A s \in k'.late : s \in k.late \/ Alive(k, s)
        BY <2>1, <2>4 DEF Wakes, KOrd, KType, Alive
      <3>3. \A s \in Slots : k'.st[s] = k.st[s] \/ (Alive(k, s) /\ Alive(k', s))
        BY <2>1, <2>4 DEF Wakes, KOrd, Alive
      <3> QED BY <3>1, <3>2, <3>3 DEF KOrd
    <2>6. ~k'.lock /\ (k'.st[t] = "ready" \/ call[t].n # 0) BY <1>7, <2>1, <2>4 DEF Wakes
    <2>7. call[t].n # 0 \/ Told(t)
      <3>1. CASE call[t].n = 0
        <4>1. b = k BY <3>1 DEF b, Parked
        <4>2. Ranks(k, k') /\ k'.st = k.st BY <1>2, <1>10, <4>1, SinceRanks DEF b
        <4>3. Tells BY <4>2, StillTells
        <4>4. pc[t] # "arm" /\ Heedful(t) BY <1>7, InCall DEF InACall, Calm
        <4> QED BY <1>7, <4>3, <4>4, Tell
      <3> QED BY <3>1
    <2> QED BY <1>6, <1>7, <1>10, <2>5, <2>6, <2>7, CallSteps DEF InACall
  <1>11. CASE k' = [k EXCEPT !.since[t] = NoWait] /\ Goto(t, "c") /\ UNCHANGED owed
    <2>1. Wakes(k, k') BY <1>2, <1>11, SinceWakes
    <2>2. Tells BY <1>2, <1>11, SinceRanks, StillTells
    <2> QED BY <1>6, <1>7, <1>11, <2>1, <2>2, Waking
  <1> DEFINE n == IF call[t].n > 0 THEN kk.since[t] ELSE NoWait
             some == IF buffer.level > 0 THEN Writers ELSE {}
  <1>12. n \in Nat BY <1>2, <1>4
  <1>13. some \subseteq Writers OBVIOUS
  <1>14. CASE k' = [Parked(t) EXCEPT !.since[t] = n] /\ Goto(t, "blocked") /\ UNCHANGED owed
    <2> HIDE DEF n
    <2> QED BY <1>10, <1>12, <1>14
  <1>15. CASE /\ k' = [Wake(kk, some) EXCEPT !.since[t] = NoWait]
              /\ owed' = (owed \/ \E s \in some : Outranks(k, s))
              /\ pc' = [pc EXCEPT ![t] = IF call[t].n > 0 THEN "count" ELSE "c"]
              /\ call' = [call EXCEPT ![t] = IF call[t].n > 0 THEN [@ EXCEPT !.p = kk.since[t]]
                                                               ELSE NoCall]
    <2> HIDE DEF some
    <2> QED BY <1>9, <1>13, <1>15
  <1> QED BY <1>1, <1>11, <1>14, <1>15, Zenon DEF Attempt

(* Those waiting on one queue.                                             *)
LEMMA QueueWaits ==
  ASSUME NEW q
  PROVE  Getters(q) \subseteq Waits({"get"}) /\ Putters(q) \subseteq Waits({"put"})
  BY DEF Getters, Putters

(* A call on a queue that is the port's no more.                           *)
LEMMA OldWireOrdinary ==
  ASSUME IInv, NEW t \in Slots, CanRun(t), pc[t] \in Calm, ~k.lock,
         UNCHANGED <<mask, entry, armed, phase, program>>,
         NEW ops, NEW others \in SUBSET Waits(ops), OnOldWire(t, others)
  PROVE  Ordinary(t)
  <1>1. CASE Blocks(t) /\ UNCHANGED owed BY <1>1, Parking DEF Blocks
  <1>2. ASSUME NEW who \in {{}} \cup OneOf(others), Rouses(who), Goto(t, "c") PROVE Ordinary(t)
    <2>1. who \subseteq others BY OneOfIn
    <2> QED BY <1>2, <2>1, RousesWakes, Waking
  <1> QED BY <1>1, <1>2 DEF OnOldWire

(* A character queued.                                                     *)
LEMMA PutOrdinary ==
  ASSUME IInv, NEW t \in Slots, xSerialPutChar(t) PROVE Ordinary(t)
  <1>1. Looping(t, "put") /\ UNCHANGED <<mask, entry, armed, phase, program>>
    BY DEF xSerialPutChar, still
  <1>2. CanRun(t) /\ pc[t] \in Calm /\ ~k.lock BY <1>1, Tries DEF LockOps
  <1>3. ASSUME NEW who \in OneOf(Getters(PORT)), Rouses(who), Goto(t, "c") PROVE Ordinary(t)
    <2>1. who \subseteq Waits({"get"}) BY OneOfIn, QueueWaits
    <2> QED BY <1>1, <1>2, <1>3, <2>1, RousesWakes, Waking
  <1>4. CASE Blocks(t) /\ UNCHANGED owed BY <1>1, <1>2, <1>4, Parking DEF Blocks
  <1>5. CASE Goto(t, "c") /\ UNCHANGED <<k, owed>> BY <1>1, <1>2, <1>5, Staying
  <1>6. CASE OnOldWire(t, Getters(call[t].p)) BY <1>1, <1>2, <1>6, QueueWaits, OldWireOrdinary
  <1> QED BY <1>3, <1>4, <1>5, <1>6 DEF xSerialPutChar

(* A character taken.                                                      *)
LEMMA GetOrdinary ==
  ASSUME IInv, NEW t \in Slots, xSerialGetChar(t) PROVE Ordinary(t)
  <1>1. Looping(t, "get") /\ UNCHANGED <<mask, entry, armed, phase, program>>
    BY DEF xSerialGetChar, still
  <1>2. CanRun(t) /\ pc[t] \in Calm /\ ~k.lock BY <1>1, Tries DEF LockOps
  <1>3. ASSUME NEW who \in OneOf(Putters(PORT)), Rouses(who), Goto(t, "c") PROVE Ordinary(t)
    <2>1. who \subseteq Waits({"put"}) BY OneOfIn, QueueWaits
    <2> QED BY <1>1, <1>2, <1>3, <2>1, RousesWakes, Waking
  <1>4. CASE Blocks(t) /\ UNCHANGED owed BY <1>1, <1>2, <1>4, Parking DEF Blocks
  <1>5. CASE Goto(t, "c") /\ UNCHANGED <<k, owed>> BY <1>1, <1>2, <1>5, Staying
  <1>6. CASE OnOldWire(t, Putters(call[t].p)) BY <1>1, <1>2, <1>6, QueueWaits, OldWireOrdinary
  <1> QED BY <1>3, <1>4, <1>5, <1>6 DEF xSerialGetChar

(* A string queued, a character at a time.                                 *)
LEMMA PutStringOrdinary ==
  ASSUME IInv, NEW t \in Slots, vSerialPutString(t) PROVE Ordinary(t)
  <1>1. /\ Looping(t, "putstring") \/ (At(t, "mid") /\ call[t].op = "putstring")
        /\ UNCHANGED <<mask, entry, armed, phase, program>>
    BY DEF vSerialPutString, still
  <1>2. CanRun(t) /\ pc[t] \in Calm /\ ~k.lock
    <2>1. CASE Looping(t, "putstring") BY <2>1, Tries DEF LockOps
    <2>2. CASE At(t, "mid") BY <2>2, Unlocked DEF At, Calm
    <2> QED BY <1>1, <2>1, <2>2
  <1>3. Wakes(k, k') /\ owed' \in BOOLEAN /\ Tells
    <2>1. ASSUME NEW who \in OneOf(Getters(PORT)), Rouses(who)
          PROVE  Wakes(k, k') /\ owed' \in BOOLEAN /\ Tells
      <3>1. who \subseteq Waits({"get"}) BY OneOfIn, QueueWaits
      <3> QED BY <2>1, <3>1, RousesWakes
    <2>2. CASE UNCHANGED <<k, owed>> BY <2>2, WakesNone, StillTells DEF IInv, Shape, Ranks
    <2> QED BY <2>1, <2>2 DEF vSerialPutString
  <1>4. CASE Goto(t, "c") BY <1>1, <1>2, <1>3, <1>4, Waking
  <1>5. CASE pc' = [pc EXCEPT ![t] = "mid"] /\ call' = [call EXCEPT ![t].p = @ + 1]
    <2> DEFINE d == [call[t] EXCEPT !.p = @ + 1]
    <2>1. call' = [call EXCEPT ![t] = d] BY <1>5
    <2>2. IsCall(call[t]) BY <1>2, InCall DEF InACall
    <2>3. IsCall(d)
      <3> DEFINE p == call[t].p + 1
      <3> HIDE DEF p
      <3>1. IsCall([call[t] EXCEPT !.p = p]) BY <2>2, 0 \in Nat, CallWith, Zenon
      <3> QED BY <3>1 DEF p
    <2> HIDE DEF d
    <2> QED BY <1>1, <1>2, <1>3, <1>5, <2>1, <2>3, Rewriting
  <1> QED BY <1>4, <1>5 DEF vSerialPutString

(* xQueueGenericReset.                                                     *)
LEMMA QueueResetOrdinary ==
  ASSUME IInv, NEW t \in Slots, xQueueGenericReset(t) PROVE Ordinary(t)
  <1>1. /\ Calling(t, "reset") /\ Goto(t, "c")
        /\ UNCHANGED <<mask, entry, armed, phase, program>>
    BY DEF xQueueGenericReset, still
  <1>2. CanRun(t) /\ pc[t] \in Calm BY <1>1, Tries
  <1>3. PICK q : \E who \in {{}} \cup OneOf(Putters(q)) : Rouses(who) BY DEF xQueueGenericReset
  <1>4. PICK who \in {{}} \cup OneOf(Putters(q)) : Rouses(who) BY <1>3
  <1>5. who \subseteq Waits({"put"}) BY OneOfIn, QueueWaits
  <1> QED BY <1>1, <1>2, <1>4, <1>5, RousesWakes, Waking

(* xQueueSemaphoreTake.                                                    *)
LEMMA SemTakeOrdinary ==
  ASSUME IInv, NEW t \in Slots, xQueueSemaphoreTake(t) PROVE Ordinary(t)
  <1>1. Looping(t, "semtake") /\ UNCHANGED <<owed, still>> BY DEF xQueueSemaphoreTake
  <1>2. CanRun(t) /\ pc[t] \in Calm /\ ~k.lock BY <1>1, Tries DEF LockOps
  <1>3. CASE Goto(t, "c") /\ UNCHANGED k BY <1>1, <1>2, <1>3, Staying DEF still
  <1>4. CASE Blocks(t) BY <1>1, <1>2, <1>4, Parking DEF still, Blocks
  <1> QED BY <1>3, <1>4 DEF xQueueSemaphoreTake

(* xQueueTakeMutexRecursive.                                               *)
LEMMA MutexTakeOrdinary ==
  ASSUME IInv, NEW t \in Slots, xQueueTakeMutexRecursive(t) PROVE Ordinary(t)
  <1>1. Looping(t, "mtake") /\ UNCHANGED <<owed, still>> BY DEF xQueueTakeMutexRecursive
  <1>2. CanRun(t) /\ pc[t] \in Calm /\ ~k.lock BY <1>1, Tries DEF LockOps
  <1>3. CASE Goto(t, "c") /\ UNCHANGED k BY <1>1, <1>2, <1>3, Staying DEF still
  <1>4. CASE Blocks(t) BY <1>1, <1>2, <1>4, Parking DEF still, Blocks
  <1> QED BY <1>3, <1>4 DEF xQueueTakeMutexRecursive

(* xQueueGiveMutexRecursive.                                               *)
LEMMA MutexGiveOrdinary ==
  ASSUME IInv, NEW t \in Slots, xQueueGiveMutexRecursive(t) PROVE Ordinary(t)
  <1>1. Calling(t, "mgive") /\ UNCHANGED <<owed, mask, entry, armed, phase, program>>
    BY DEF xQueueGiveMutexRecursive, still
  <1>2. CanRun(t) /\ pc[t] \in Calm /\ k \in KType /\ owed' \in BOOLEAN BY <1>1, Tries
  <1> DEFINE waiting == IF depth = 1 THEN Waits({"mtake"}) ELSE {}
  <1>3. ASSUME NEW who \in OneOf(waiting), k' = Wake(k, who), Goto(t, "yield") PROVE Ordinary(t)
    <2>1. who \subseteq Waits({"mtake"}) BY OneOfIn
    <2>2. Wakes(k, k') BY <1>2, <1>3, <2>1, WaitsAlive, WakeWakes
    <2> QED BY <1>1, <1>2, <1>3, <2>2, Waking
  <1>4. CASE Goto(t, "c") /\ UNCHANGED k BY <1>1, <1>2, <1>4, Staying
  <1> QED BY <1>3, <1>4 DEF xQueueGiveMutexRecursive, LeavesOnGive

(* Every call on a buffer, the wire, the semaphore or the mutex.           *)
LEMMA BufferCallOrdinary ==
  ASSUME IInv, NEW t \in Slots, BufferCall(t) PROVE Ordinary(t)
  <1>1. CASE StreamCall(t)
    BY <1>1, BufferReturnsOrdinary, BufferCreateOrdinary, BufferSendOrdinary, BufferReceiveOrdinary
    DEF StreamCall
  <1>2. CASE WireCall(t)
    BY <1>2, BufferReturnsOrdinary, PutOrdinary, GetOrdinary, PutStringOrdinary, QueueResetOrdinary
    DEF WireCall
  <1>3. CASE LockCall(t)
    BY <1>3, SemTakeOrdinary, MutexTakeOrdinary, MutexGiveOrdinary DEF LockCall
  <1> QED BY <1>1, <1>2, <1>3 DEF BufferCall

(* An interrupt half on any of them.                                       *)
LEMMA BuffersIsrTick ==
  ASSUME BuffersIsr PROVE ToldTicks
  <1>1. PICK c \in program.isr : BufferIsr(c) BY DEF BuffersIsr
  <1>2. ASSUME NEW ops, NEW who, who \subseteq Waits(ops), SysTick(who) PROVE ToldTicks
    BY <1>2, WaitsAlive DEF ToldTicks
  <1>3. CASE StreamIsr(c)
    <2>1. PICK who : /\ who \subseteq Waits({"sbreceive"}) \/ who \subseteq Waits({"sbsend"})
                     /\ SysTick(who)
      BY <1>3 DEF StreamIsr, xStreamBufferSendFromISR, xStreamBufferReceiveFromISR,
                  xStreamBufferSendCompletedFromISR, Readers, Writers
    <2> QED BY <1>2, <2>1
  <1>4. CASE WireIsr(c)
    <2>1. \/ \E who \in OneOf(Getters(PORT)) : SysTick(who)
          \/ \E who \in OneOf(Putters(PORT)) : SysTick(who)
      BY <1>4 DEF WireIsr, xQueueGenericSendFromISR, xQueueReceiveFromISR
    <2> QED BY <1>2, <2>1, OneOfIn, QueueWaits
  <1>5. CASE xQueueGiveFromISR(c)
    <2>1. \E who \in OneOf(Waits({"semtake"})) : SysTick(who) BY <1>5 DEF xQueueGiveFromISR
    <2> QED BY <1>2, <2>1, OneOfIn
  <1> QED BY <1>1, <1>3, <1>4, <1>5 DEF BufferIsr

(* A tick with nothing else, or with any interrupt half, is one.           *)
LEMMA HalvesTick ==
  ASSUME SysTick({}) \/ NotifyIsr \/ GroupIsr \/ BuffersIsr PROVE Ticks
  <1>1. SysTick({}) => ToldTicks BY DEF ToldTicks
  <1> QED BY <1>1, NotifyIsrTicks, GroupIsrTicks, BuffersIsrTick, ToldTicksTick

(* What it leaves alone.                                                   *)
LEMMA TicksFrame ==
  ASSUME Ticks
  PROVE  /\ phase = "run" /\ ~mask /\ phase' = "run"
         /\ UNCHANGED <<mask, pc, call, entry, armed, handle, program>>
  BY DEF Ticks, Rousing, Tick

-----------------------------------------------------------------------------
(* Start-up.                                                               *)

(* What a program's boot table gives start-up.                             *)
LEMMA BootTyped ==
  ASSUME program \in Programs
  PROVE  /\ Idle \in Slots /\ Timer \in Slots /\ 0 \in Slots /\ Idle # Timer
         /\ \A t \in Slots : t < Idle \/ t = 0 =>
              Boot[t + 1][1] \in Functions /\ Boot[t + 1][2] \in Nat
  <1>1. /\ Boot \in Seq(Functions \X (0 .. MaxPrio))
        /\ Len(Boot) >= 1 /\ Len(Boot) + 2 <= TASKS
    BY TasksAssumption DEF Boot
  <1>2. Len(Boot) \in Nat /\ TASKS \in Nat /\ MaxPrio \in Nat BY <1>1, KernelAssumption
  <1>3. Idle \in Slots /\ Timer \in Slots /\ 0 \in Slots /\ Idle # Timer
    BY <1>1, <1>2 DEF Idle, Timer, Slots
  <1>4. ASSUME NEW t \in Slots, t < Idle \/ t = 0
        PROVE  Boot[t + 1][1] \in Functions /\ Boot[t + 1][2] \in Nat
    <2>1. t \in Nat /\ t + 1 \in 1 .. Len(Boot) BY <1>1, <1>2, <1>4 DEF Idle, Slots
    <2>2. Boot[t + 1] \in Functions \X (0 .. MaxPrio) BY <1>1, <2>1
    <2> QED BY <1>2, <2>2
  <1> QED BY <1>3, <1>4

(* Before the machine runs nothing is masked, owed, gone or late.          *)
LEMMA Quiet ==
  ASSUME IInv, phase # "run"
  PROVE  /\ owed = FALSE /\ mask = FALSE /\ k \in KType /\ ~k.lock /\ k.late = {}
         /\ \A t \in Slots : k.st[t] # "gone"
         /\ \A t \in Slots : pc[t] # "arm"
  BY DEF IInv, Booting, Shape, Masking

(* The monitor is created.                                                 *)
LEMMA CreateMonitorKeeps == ASSUME IInv, CreateMonitor PROVE IInv' /\ HeededKept
  <1>1. /\ phase = "mon" /\ k' = create_task(k, 0, Boot[1][2]) /\ phase' = "armmon"
        /\ UNCHANGED <<owed, mask, pc, call, entry, armed, program>>
    BY DEF CreateMonitor
  <1>2. 0 \in Slots /\ Boot[1][2] \in Nat
    BY BootTyped DEF IInv, Shape
  <1>3. k \in KType BY <1>1, Quiet
  <1>4. Made(k, k', 0, Boot[1][2]) BY <1>1, <1>2, <1>3, CreateMakes
  <1>5. /\ k' \in KType /\ k'.gen = k.gen /\ k'.cur = k.cur /\ k'.lock = k.lock /\ k'.late = k.late
        /\ k'.st[0] = "ready" /\ \A u \in Slots : u # 0 => k'.st[u] = k.st[u]
    BY <1>4 DEF Made
  <1>6. Shape' BY <1>1, <1>5 DEF IInv, Shape, Phases
  <1>7. CallsKept' BY <1>1 DEF IInv, CallsKept
  <1>8. Booting' BY <1>1, <1>5, Quiet DEF IInv, Booting
  <1>9. AllHaveThreads' BY <1>1 DEF AllHaveThreads
  <1>10. Masking' BY <1>1, Quiet DEF Masking
  <1>11. Life' BY <1>1, <1>5, Quiet DEF Life
  <1>12. OnCpu' BY <1>1 DEF OnCpu
  <1>13. HeededKept BY <1>1 DEF HeededKept, Heeded
  <1> QED BY <1>6, <1>7, <1>8, <1>9, <1>10, <1>11, <1>12, <1>13 DEF IInv

(* The monitor gets its thread.                                            *)
LEMMA ArmMonitorKeeps == ASSUME IInv, ArmMonitor PROVE IInv' /\ HeededKept
  <1>1. /\ phase = "armmon" /\ armed' = [armed EXCEPT ![0] = k.gen[0]]
        /\ pc' = [pc EXCEPT ![0] = "c"] /\ entry' = [entry EXCEPT ![0] = Boot[1][1]]
        /\ phase' = "demos" /\ UNCHANGED <<k, owed, mask, call, program>>
    BY DEF ArmMonitor, arm_task
  <1>2. 0 \in Slots /\ Boot[1][1] \in Functions
    BY BootTyped DEF IInv, Shape
  <1>3. k \in KType BY <1>1, Quiet
  <1>4. pc' \in [Slots -> PCs] /\ pc'[0] = "c" /\ \A u \in Slots : u # 0 => pc'[u] = pc[u]
    BY <1>1, <1>2 DEF IInv, Shape, PCs
  <1>5. /\ entry' \in [Slots -> Functions \cup {NoFunc}] /\ entry'[0] \in Functions
        /\ \A u \in Slots : u # 0 => entry'[u] = entry[u]
    BY <1>1, <1>2 DEF IInv, Shape
  <1>6. armed' \in [Slots -> Nat] /\ armed'[0] = k.gen[0]
    BY <1>1, <1>2, <1>3 DEF IInv, Shape, KType
  <1>7. Shape' BY <1>1, <1>4, <1>5, <1>6 DEF IInv, Shape, Phases
  <1>8. CallsKept' BY <1>1, <1>4, <1>5 DEF IInv, CallsKept, Busy
  <1>9. Booting' BY <1>1, <1>6, Quiet DEF IInv, Booting
  <1>10. AllHaveThreads' BY <1>1 DEF AllHaveThreads
  <1>11. Masking' BY <1>1, <1>4, Quiet DEF Masking
  <1>12. Life' BY <1>1, Quiet DEF Life
  <1>13. OnCpu' BY <1>1 DEF OnCpu
  <1>14. HeededKept BY <1>1 DEF HeededKept, Heeded
  <1> QED BY <1>7, <1>8, <1>9, <1>10, <1>11, <1>12, <1>13, <1>14 DEF IInv

(* A demo's task is created and armed, before anything runs.               *)
LEMMA StartDemoKeeps == ASSUME IInv, StartDemo PROVE IInv' /\ HeededKept
  <1>1. PICK t \in FreeSlots(k) :
          /\ t < Idle /\ k' = create_task(k, t, Boot[t + 1][2])
          /\ entry' = [entry EXCEPT ![t] = Boot[t + 1][1]]
          /\ arm_task(t) /\ pc' = [pc EXCEPT ![t] = "new"]
    BY DEF StartDemo
  <1>2. phase = "demos" /\ UNCHANGED <<owed, mask, call, phase, program>> BY DEF StartDemo
  <1>3. t \in Slots /\ k.st[t] = "free" BY DEF FreeSlots
  <1>4. Boot[t + 1][1] \in Functions /\ Boot[t + 1][2] \in Nat
    BY <1>1, <1>3, BootTyped DEF IInv, Shape
  <1>5. k \in KType BY <1>2, Quiet
  <1>6. Made(k, k', t, Boot[t + 1][2]) BY <1>1, <1>3, <1>4, <1>5, CreateMakes
  <1>7. /\ k' \in KType /\ k'.gen = k.gen /\ k'.cur = k.cur /\ k'.lock = k.lock /\ k'.late = k.late
        /\ k'.st[t] = "ready" /\ \A u \in Slots : u # t => k'.st[u] = k.st[u]
    BY <1>6 DEF Made
  <1>8. pc' \in [Slots -> PCs] /\ pc'[t] = "new" /\ \A u \in Slots : u # t => pc'[u] = pc[u]
    BY <1>1, <1>3 DEF IInv, Shape, PCs
  <1>9. /\ entry' \in [Slots -> Functions \cup {NoFunc}]
        /\ \A u \in Slots : u # t => entry'[u] = entry[u]
    BY <1>1, <1>3, <1>4 DEF IInv, Shape
  <1>10. /\ armed' \in [Slots -> Nat] /\ armed'[t] = k.gen[t]
         /\ \A u \in Slots : u # t => armed'[u] = armed[u]
    BY <1>1, <1>3, <1>5 DEF IInv, Shape, KType, arm_task
  <1>11. Shape' BY <1>2, <1>7, <1>8, <1>9, <1>10 DEF IInv, Shape
  <1>12. CallsKept' BY <1>2, <1>8, <1>9 DEF IInv, CallsKept, Working, Busy
  <1>13. Booting' BY <1>2, <1>7, <1>10, Quiet DEF IInv, Booting
  <1>14. AllHaveThreads' BY <1>2 DEF AllHaveThreads
  <1>15. Masking' BY <1>2, <1>8, Quiet DEF Masking
  <1>16. Life' BY <1>2, <1>7, Quiet DEF Life
  <1>17. OnCpu' BY <1>2 DEF OnCpu
  <1>18. HeededKept BY <1>2 DEF HeededKept, Heeded
  <1> QED BY <1>11, <1>12, <1>13, <1>14, <1>15, <1>16, <1>17, <1>18 DEF IInv

(* The kernel creates the idle task and the daemon.                        *)
LEMMA StartKeeps == ASSUME IInv, start_scheduler PROVE IInv' /\ HeededKept
  <1> DEFINE k1 == create_task(k, Idle, 0)
             kk == create_task(k1, Timer, TIMER_TASK_PRIORITY)
  <1>1. phase = "demos" /\ phase' = "arm" /\ UNCHANGED <<owed, mask, pc, call, entry, armed, program>>
    BY DEF start_scheduler
  <1>2. PICK t \in Best(kk) : k' = [kk EXCEPT !.cur = t] BY DEF start_scheduler
  <1>3. Idle \in Slots /\ Timer \in Slots /\ Idle # Timer BY BootTyped DEF IInv, Shape
  <1>4. k \in KType /\ 0 \in Nat /\ TIMER_TASK_PRIORITY \in Nat
    BY <1>1, Quiet, TasksAssumption
  <1>5. Made(k, k1, Idle, 0) BY <1>3, <1>4, CreateMakes
  <1> HIDE DEF k1
  <1>6. /\ k1 \in KType /\ k1.gen = k.gen /\ k1.lock = k.lock /\ k1.late = k.late
        /\ k1.st[Idle] = "ready" /\ \A u \in Slots : u # Idle => k1.st[u] = k.st[u]
    BY <1>5 DEF Made
  <1>7. Made(k1, kk, Timer, TIMER_TASK_PRIORITY) BY <1>3, <1>4, <1>6, CreateMakes
  <1>8. /\ kk \in KType /\ kk.gen = k.gen /\ kk.lock = k.lock /\ kk.late = k.late
        /\ kk.st[Timer] = "ready" /\ \A u \in Slots : u # Timer => kk.st[u] = k1.st[u]
    BY <1>6, <1>7 DEF Made
  <1>9. /\ t \in Slots /\ kk.st[t] = "ready"
        /\ \A s \in Slots : kk.st[s] = "ready" => ~(kk.prio[s] > kk.prio[t])
    BY <1>8, BestOutranks
  <1> HIDE DEF kk
  <1>10. /\ k' \in KType /\ k'.st = kk.st /\ k'.gen = k.gen /\ k'.cur = t /\ k'.lock = k.lock
         /\ k'.late = k.late /\ k'.prio = kk.prio
    BY <1>2, <1>8, <1>9, Zenon DEF KType
  <1>11. \A u \in Slots : k'.st[u] = "ready" \/ (k'.st[u] = k.st[u] /\ u # Idle /\ u # Timer)
    BY <1>3, <1>6, <1>8, <1>10
  <1>12. Shape' BY <1>1, <1>10 DEF IInv, Shape, Phases
  <1>13. CallsKept' BY <1>1 DEF IInv, CallsKept
  <1>14. Idle' = Idle /\ Timer' = Timer BY <1>1 DEF Idle, Timer, Boot
  <1>15. Booting'
    <2>1. \A u \in Slots : (k'.st[u] # "free" /\ u # Idle /\ u # Timer) => armed[u] = k'.gen[u]
      BY <1>1, <1>3, <1>6, <1>8, <1>10 DEF IInv, Booting
    <2>2. ~owed' /\ ~mask' /\ ~k'.lock /\ k'.late = {} /\ \A u \in Slots : k'.st[u] # "gone"
      BY <1>1, <1>10, <1>11, Quiet
    <2> QED BY <1>1, <1>9, <1>10, <1>14, <2>1, <2>2 DEF Booting
  <1>16. AllHaveThreads' BY <1>1 DEF AllHaveThreads
  <1>17. Masking' BY <1>1, Quiet DEF Masking
  <1>18. Life' BY <1>1, <1>10, <1>11, Quiet DEF Life
  <1>19. OnCpu' BY <1>1 DEF OnCpu
  <1>20. HeededKept
    <2>1. NoneOutranks(k', {}) BY <1>9, <1>10 DEF NoneOutranks, Outranks
    <2> QED BY <1>1, <2>1 DEF HeededKept, Heeded, NoneOutranks
  <1> QED BY <1>12, <1>13, <1>15, <1>16, <1>17, <1>18, <1>19, <1>20 DEF IInv

(* Both get their threads.                                                 *)
LEMMA ArmBothKeeps == ASSUME IInv, ArmBoth PROVE IInv' /\ HeededKept
  <1>1. /\ phase = "arm" /\ phase' = "sched" /\ UNCHANGED <<k, owed, mask, call, entry, program>>
        /\ armed' = [armed EXCEPT ![Idle] = k.gen[Idle], ![Timer] = k.gen[Timer]]
        /\ pc' = [pc EXCEPT ![Idle] = "idle", ![Timer] = "daemon"]
    BY DEF ArmBoth
  <1>2. Idle \in Slots /\ Timer \in Slots /\ Idle # Timer BY BootTyped DEF IInv, Shape
  <1>3. k \in KType BY <1>1, Quiet
  <1>4. /\ pc' \in [Slots -> PCs] /\ pc'[Idle] = "idle" /\ pc'[Timer] = "daemon"
        /\ \A u \in Slots : u # Idle /\ u # Timer => pc'[u] = pc[u]
    BY <1>1, <1>2 DEF IInv, Shape, PCs
  <1>5. /\ armed' \in [Slots -> Nat] /\ armed'[Idle] = k.gen[Idle] /\ armed'[Timer] = k.gen[Timer]
        /\ \A u \in Slots : u # Idle /\ u # Timer => armed'[u] = armed[u]
    BY <1>1, <1>2, <1>3 DEF IInv, Shape, KType
  <1>6. Shape' BY <1>1, <1>4, <1>5 DEF IInv, Shape, Phases
  <1>7. CallsKept' BY <1>1, <1>2, <1>4 DEF IInv, CallsKept, Working, Busy
  <1>8. Booting' BY <1>1, Quiet DEF IInv, Booting
  <1>9. AllHaveThreads' BY <1>1, <1>5 DEF IInv, Booting, AllHaveThreads
  <1>10. Masking' BY <1>1, <1>4, Quiet DEF Masking
  <1>11. Life' BY <1>1, Quiet DEF Life
  <1>12. OnCpu' BY <1>1 DEF OnCpu
  <1>13. HeededKept BY <1>1 DEF HeededKept, Heeded
  <1> QED BY <1>6, <1>7, <1>8, <1>9, <1>10, <1>11, <1>12, <1>13 DEF IInv

(* The first task starts: by now every task has a thread.                  *)
LEMMA FirstTaskKeeps == ASSUME IInv, start_first_task PROVE IInv' /\ HeededKept
  <1>1. /\ phase = "sched" /\ phase' = "run"
        /\ UNCHANGED <<k, owed, mask, pc, call, entry, armed, program>>
    BY DEF start_first_task, AllArmed
  <1>2. k.st[k.cur] = "ready" /\ ~k.lock BY <1>1, Quiet DEF IInv, Booting
  <1>3. Shape' BY <1>1 DEF IInv, Shape, Phases
  <1>4. CallsKept' BY <1>1 DEF IInv, CallsKept
  <1>5. Booting' BY <1>1 DEF Booting
  <1>6. AllHaveThreads' BY <1>1, Quiet DEF IInv, AllHaveThreads
  <1>7. Masking' BY <1>1, Quiet DEF Masking
  <1>8. Life' BY <1>1, Quiet DEF Life
  <1>9. OnCpu' BY <1>1, <1>2 DEF OnCpu
  <1>10. HeededKept BY <1>1 DEF HeededKept, Heeded
  <1> QED BY <1>3, <1>4, <1>5, <1>6, <1>7, <1>8, <1>9, <1>10 DEF IInv

(* Every step of main.                                                     *)
LEMMA MainKeeps == ASSUME IInv, main PROVE IInv' /\ HeededKept
  BY CreateMonitorKeeps, ArmMonitorKeeps, StartDemoKeeps, StartKeeps, ArmBothKeeps, FirstTaskKeeps
  DEF main

(* The machine starts in the invariant.                                    *)
LEMMA Initially == Init => IInv
  <1> SUFFICES ASSUME TaskInit PROVE IInv BY DEF Init
  <1>1. k \in KType
    <2>1. 0 \in Slots /\ NoWait \in Nat BY KernelAssumption DEF Slots, NoWait
    <2> DEFINE s == [t \in Slots |-> "free"]
               g == [t \in Slots |-> 1]
               z == [t \in Slots |-> 0]
               w == [t \in Slots |-> NoWait]
    <2>2. /\ s \in [Slots -> States] /\ g \in [Slots -> Nat \ {0}]
          /\ z \in [Slots -> Nat] /\ w \in [Slots -> Nat]
      BY <2>1 DEF States
    <2>3. k = [st |-> s, gen |-> g, prio |-> z, left |-> w, since |-> w, cur |-> 0,
               lock |-> FALSE, late |-> {}, missed |-> 0, declined |-> FALSE]
      BY DEF TaskInit
    <2> HIDE DEF s, g, z, w
    <2>4. 0 \in Nat /\ {} \in SUBSET Slots OBVIOUS
    <2> QED BY <2>1, <2>2, <2>3, <2>4, Zenon DEF KType
  <1>2. /\ \A t \in Slots : k.st[t] = "free" /\ pc[t] = "off"
        /\ ~k.lock /\ k.late = {} /\ ~owed /\ ~mask /\ phase = "mon"
    BY DEF TaskInit
  <1>3. Shape
    <2>1. pc \in [Slots -> PCs] BY DEF TaskInit, PCs
    <2>2. entry \in [Slots -> Functions \cup {NoFunc}] /\ armed \in [Slots -> Nat]
      BY DEF TaskInit
    <2>3. call = [t \in Slots |-> call[t]] BY DEF TaskInit
    <2>4. owed \in BOOLEAN /\ mask \in BOOLEAN /\ phase \in Phases /\ program \in Programs
      BY DEF TaskInit, Phases
    <2> QED BY <1>1, <2>1, <2>2, <2>3, <2>4 DEF Shape
  <1>4. CallsKept BY <1>2 DEF CallsKept, Working, Busy
  <1>5. Booting BY <1>2 DEF Booting
  <1>6. AllHaveThreads BY <1>2 DEF AllHaveThreads
  <1>7. Masking BY <1>2 DEF Masking
  <1>8. Life BY <1>2 DEF Life
  <1>9. OnCpu BY <1>2 DEF OnCpu
  <1> QED BY <1>3, <1>4, <1>5, <1>6, <1>7, <1>8, <1>9 DEF IInv

-----------------------------------------------------------------------------
(* All of it.                                                              *)

(* One step of one task of SeamTasks.                                      *)
LEMMA TaskCallKeeps ==
  ASSUME IInv, NEW t \in Slots, TaskCall(t) PROVE IInv' /\ HeededKept
  BY TrampolineOrdinary, LeaveOrdinary, CreateKeeps, ArmKeeps, WriteHandleOrdinary, LookupOrdinary,
     DeleteKeeps, SuspendOrdinary, ResumeOrdinary, PriorityOrdinary, AbortOrdinary, DelayOrdinary,
     SuspendAllOrdinary, ResumeAllOrdinary, CatchUpOrdinary, YieldOrdinary, IdleKeeps,
     OrdinarySteps
  DEF TaskCall

(* A step that changes nothing the invariant reads keeps it.               *)
LEMMA StutterKeeps == ASSUME IInv, UNCHANGED vars PROVE IInv' /\ HeededKept
  <1>1. UNCHANGED <<k, owed, mask, pc, call, entry, armed, phase, program>>
    BY DEF vars, taskVars
  <1>2. Shape' BY <1>1 DEF IInv, Shape
  <1>3. CallsKept' BY <1>1 DEF IInv, CallsKept
  <1>4. Booting' BY <1>1 DEF IInv, Booting, Idle, Timer, Boot
  <1>5. AllHaveThreads' BY <1>1 DEF IInv, AllHaveThreads, Fresh
  <1>6. Masking' BY <1>1 DEF IInv, Masking, Fresh
  <1>7. Life' BY <1>1 DEF IInv, Life
  <1>8. OnCpu' BY <1>1 DEF IInv, OnCpu, Parting, IsAPoll
  <1>9. HeededKept BY <1>1 DEF HeededKept, Heeded, Heedful, Parting, IsAPoll
  <1> QED BY <1>2, <1>3, <1>4, <1>5, <1>6, <1>7, <1>8, <1>9 DEF IInv

(* Every step leaves nobody waiting but for those who waited before, a     *)
(* clear from an interrupt excepted.                                       *)
ClearTick ==
  \E c \in program.isr :
    Accepts /\ Post("clear", BitsOf[c.x]) /\ Rousing(SleepingDaemon, FALSE)

LEMMA OthersHeed ==
  ASSUME IInv, [Next]_vars
  PROVE  \/ IInv' /\ HeededKept
         \/ GroupIsr /\ ClearTick
  <1>1. CASE main BY <1>1, MainKeeps
  <1>2. CASE pick_next BY <1>2, SwitchKeeps
  <1>3. CASE Tasks BY <1>3, TaskCallKeeps, EnterOrdinary, OrdinarySteps DEF Tasks
  <1>4. CASE SysTick({})
    <2>1. ToldTicks BY <1>4 DEF ToldTicks
    <2> QED BY <2>1, ToldTicksKeep
  <1>5. CASE Notifies BY <1>5, NotifyCallOrdinary, OrdinarySteps DEF Notifies
  <1>6. CASE NotifyIsr BY <1>6, NotifyIsrTicks, ToldTicksKeep
  <1>7. CASE Groups BY <1>7, GroupCallOrdinary, DaemonOrdinary, OrdinarySteps DEF Groups
  <1>8. CASE GroupIsr
    BY <1>8, SetIsrTicks, ClearIsrTicks, ToldTicksKeep DEF GroupIsr, ClearTick
  <1>9. CASE Buffers BY <1>9, BufferCallOrdinary, OrdinarySteps DEF Buffers
  <1>10. CASE BuffersIsr BY <1>10, BuffersIsrTick, ToldTicksKeep
  <1>11. CASE UNCHANGED vars BY <1>11, StutterKeeps
  <1> QED
    BY <1>1, <1>2, <1>3, <1>4, <1>5, <1>6, <1>7, <1>8, <1>9, <1>10, <1>11 DEF Next

(* Every step keeps the invariant.                                         *)
LEMMA Steps == IInv /\ [Next]_vars => IInv'
  <1> SUFFICES ASSUME IInv, [Next]_vars PROVE IInv' OBVIOUS
  <1>1. GroupIsr => IInv' BY GroupIsrTicks, TickKeeps
  <1> QED BY <1>1, OthersHeed

(* The invariant holds of every behaviour of the machine: start-up, the    *)
(* calls of every task, the switch, the tick and its interrupt halves.     *)
THEOREM Invariant == Spec => []IInv
  <1>1. Init => IInv BY Initially
  <1>2. IInv /\ [Next]_vars => IInv' BY Steps
  <1> QED BY <1>1, <1>2, PTL DEF Spec

(* RunsArmed: the task on the CPU always has a thread of its own           *)
(* generation of the slot, so that xTaskCreate's "a task must not be       *)
(* reachable by the scheduler before it has somewhere to run" is kept, and *)
(* the switch never finds a corrupt slot.                                  *)
THEOREM AlwaysArmed == Spec => []RunsArmed
  <1>1. IInv => RunsArmed
    <2> SUFFICES ASSUME IInv PROVE RunsArmed OBVIOUS
    <2>1. phase # "died" BY DEF IInv, Shape, Phases
    <2>2. phase = "run" => armed[k.cur] = k.gen[k.cur]
      <3>1. k.cur \in Slots BY DEF IInv, Shape, KType
      <3>2. phase = "run" => k.st[k.cur] # "free" BY DEF IInv, OnCpu
      <3>3. mask => Fresh # k.cur BY DEF IInv, Masking
      <3> QED BY <3>1, <3>2, <3>3 DEF IInv, AllHaveThreads
    <2> QED BY <2>1, <2>2 DEF RunsArmed
  <1> QED BY <1>1, Invariant, PTL

(* NobodyRunsParked: code after a call that parked, suspended or deleted   *)
(* its own task does not run before the kernel has made the task ready.    *)
THEOREM ParkedStayOff == Spec => []NobodyRunsParked
  <1>1. IInv => NobodyRunsParked
    <2> SUFFICES ASSUME IInv, NEW t \in Slots, CanRun(t),
                        pc[t] \in {"c", "call", "loop", "new", "idle"}
                 PROVE  k.st[t] = "ready"
      BY DEF NobodyRunsParked
    <2>1. pc[t] # "arm" /\ ~Parting(t) BY DEF Parting, Leaving
    <2> QED BY <2>1, Running
  <1> QED BY <1>1, Invariant, PTL
=============================================================================
