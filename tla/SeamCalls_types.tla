-------------------------- MODULE SeamCalls_types --------------------------
(***************************************************************************)
(* The types of the calls' state, and what interrupts leave to the daemon: *)
(* every kernel call keeps the kernel's tasks within their bounds, and     *)
(* does nothing to a task it is not about but wake it.                     *)
(***************************************************************************)
EXTENDS SeamCalls_properties

-----------------------------------------------------------------------------
(* The kernel's operators again.                                           *)

(* The bounds of Kernels: a slot in use can still be given back, and only  *)
(* a suspended scheduler holds back wake-ups.                              *)
FitsOne(kk, s) ==
  /\ kk.gen[s] <= MaxGen + 1 /\ (kk.st[s] # "free" => kk.gen[s] <= MaxGen)
  /\ kk.prio[s] <= MaxPrio
  /\ kk.left[s] <= NoWait /\ kk.since[s] <= NoWait
Fits(kk) ==
  /\ kk \in KType
  /\ \A s \in Slots : FitsOne(kk, s)
  /\ kk.missed <= MaxMissed
  /\ kk.lock \/ kk.late = {}

(* A task that is ready or waits keeps its priority and is at most woken;  *)
(* a wake-up held back is kept until it is given.                          *)
Spare(k1, k2, d) ==
  k1.st[d] \in {"ready", "blocked"} =>
    /\ k2.prio[d] = k1.prio[d]
    /\ k2.st[d] \in {k1.st[d], "ready"}
    /\ d \in k1.late => d \in k2.late \/ k2.st[d] = "ready"

(* A deadline that is kept: since a caller read the tick count and as long *)
(* as its block time of n ticks has not run out, no more ticks are over    *)
(* than the rest of it allows.                                             *)
Timed(kk, t, n) ==
  /\ kk.since[t] <= Forever
  /\ \/ kk.left[t] = 0
     \/ kk.since[t] + kk.left[t] <= n
     \/ n > MaxWait /\ kk.left[t] > MaxWait
Lasts(k1, k2, t) == \A n \in Nat : Timed(k1, t, n) => Timed(k2, t, n)

(* A kernel call that is about nobody but the tasks of about, and sets the *)
(* deadlines of those of whose only.                                       *)
Tame(k1, k2, about, whose) ==
  /\ Fits(k2)
  /\ \A d \in Slots \ about : Spare(k1, k2, d)
  /\ \A d \in Slots \ whose : Lasts(k1, k2, d)

(* One such call after another is about the tasks of either.               *)
LEMMA TameTrans ==
  ASSUME NEW k1, NEW k2, NEW k3, NEW about, NEW whose,
         Tame(k1, k2, about, whose), Tame(k2, k3, about, whose)
  PROVE  Tame(k1, k3, about, whose)
  BY DEF Tame, Spare, Lasts

(* A call about fewer is about more.                                       *)
LEMMA TameMore ==
  ASSUME NEW k1, NEW k2, NEW few, NEW about, NEW some, NEW whose,
         Tame(k1, k2, few, some), few \subseteq about, some \subseteq whose
  PROVE  Tame(k1, k2, about, whose)
  BY DEF Tame

(* No call at all.                                                         *)
LEMMA TameNone == ASSUME NEW kk, Fits(kk) PROVE Tame(kk, kk, {}, {})
  BY DEF Tame, Spare, Lasts

(* Waking tasks that are alive.                                            *)
LEMMA WakeTame ==
  ASSUME NEW kk, Fits(kk), NEW who, \A s \in who : Alive(kk, s)
  PROVE  Tame(kk, Wake(kk, who), {}, {})
  <1> DEFINE st == [t \in Slots |-> IF t \in who THEN "ready" ELSE kk.st[t]]
             b == Wake(kk, who)
  <1>1. kk \in KType BY DEF Fits
  <1>2. st \in [Slots -> States] BY <1>1 DEF KType, States
  <1>3. b = [kk EXCEPT !.st = st] BY DEF Wake
  <1>4. \A s \in Slots : st[s] = IF s \in who THEN "ready" ELSE kk.st[s] OBVIOUS
  <1> HIDE DEF st, b
  <1>5. /\ b \in KType /\ b.st = st /\ b.gen = kk.gen /\ b.prio = kk.prio /\ b.left = kk.left
        /\ b.since = kk.since /\ b.late = kk.late /\ b.missed = kk.missed /\ b.lock = kk.lock
    BY <1>1, <1>2, <1>3, Zenon DEF KType
  <1>6. \A s \in Slots : b.st[s] # "free" => kk.st[s] # "free" BY <1>4, <1>5 DEF Alive
  <1>7. Fits(b) BY <1>5, <1>6 DEF Fits, FitsOne
  <1>8. \A d \in Slots : Spare(kk, b, d) /\ Lasts(kk, b, d)
    BY <1>4, <1>5 DEF Spare, Lasts, Timed
  <1> QED BY <1>7, <1>8 DEF Tame, b

(* Blocking a task.                                                        *)
LEMMA BlockTame ==
  ASSUME NEW kk, Fits(kk), NEW t \in Slots, Alive(kk, t), NEW n \in Nat
  PROVE  Tame(kk, Block(kk, t, n), {t}, {t})
  <1> DEFINE s == [kk.st EXCEPT ![t] = "blocked"]
             m == IF n > MaxWait THEN Forever ELSE n
             l == [kk.left EXCEPT ![t] = m]
             b == Block(kk, t, n)
  <1>1. kk \in KType BY DEF Fits
  <1>2. m \in Nat /\ m <= NoWait BY KernelAssumption DEF Forever, NoWait
  <1>3. s \in [Slots -> States] /\ l \in [Slots -> Nat] BY <1>1, <1>2 DEF KType, States
  <1>4. b = [kk EXCEPT !.st = s, !.left = l] BY Zenon DEF Block
  <1>5. /\ \A u \in Slots : u # t => s[u] = kk.st[u] /\ l[u] = kk.left[u]
        /\ l[t] = m
    BY <1>1 DEF KType
  <1> HIDE DEF s, m, l, b
  <1>6. /\ b \in KType /\ b.st = s /\ b.gen = kk.gen /\ b.prio = kk.prio /\ b.left = l
        /\ b.since = kk.since /\ b.late = kk.late /\ b.missed = kk.missed /\ b.lock = kk.lock
    BY <1>1, <1>3, <1>4, Zenon DEF KType
  <1>7. kk.st[t] # "free" BY DEF Alive
  <1>8. Fits(b) BY <1>2, <1>5, <1>6, <1>7 DEF Fits, FitsOne
  <1>9. \A d \in Slots \ {t} : Spare(kk, b, d) /\ Lasts(kk, b, d)
    BY <1>5, <1>6 DEF Spare, Lasts, Timed
  <1> QED BY <1>8, <1>9 DEF Tame, b

(* The countdown of a tick, or of several.                                 *)
LEMMA AdvanceTame ==
  ASSUME NEW kk, Fits(kk), NEW n \in Nat
  PROVE  Tame(kk, Advance(kk, n), {}, {})
  <1> USE KernelAssumption
  <1> DEFINE w == Wake(kk, Expiring(kk, n))
             l == [t \in Slots |-> IF kk.left[t] > MaxWait THEN kk.left[t]
                               ELSE IF kk.left[t] > n THEN kk.left[t] - n ELSE 0]
             s == [t \in Slots |-> IF kk.since[t] = NoWait THEN NoWait
                                ELSE IF kk.since[t] + n > Forever THEN Forever
                                ELSE kk.since[t] + n]
             b == Advance(kk, n)
  <1>1. Tame(kk, w, {}, {})
    <2>1. \A t \in Expiring(kk, n) : Alive(kk, t) BY DEF Expiring, Alive
    <2> QED BY <2>1, WakeTame
  <1>2. kk \in KType /\ w \in KType BY <1>1 DEF Tame, Fits
  <1>3. l \in [Slots -> Nat] /\ \A t \in Slots : l[t] <= NoWait
    <2>1. \A t \in Slots : kk.left[t] \in Nat /\ kk.left[t] <= NoWait
      BY <1>2 DEF KType, Fits, FitsOne
    <2> QED BY <2>1 DEF NoWait
  <1>4. s \in [Slots -> Nat] /\ \A t \in Slots : s[t] <= NoWait
    <2>1. \A t \in Slots : kk.since[t] \in Nat /\ kk.since[t] <= NoWait
      BY <1>2 DEF KType, Fits, FitsOne
    <2> QED BY <2>1 DEF NoWait, Forever
  <1>5. b = [w EXCEPT !.left = l, !.since = s] BY DEF Advance
  <1>6. w.left = kk.left /\ w.since = kk.since BY <1>2, Zenon DEF Wake, KType
  <1>7. \A d \in Slots :
          /\ l[d] = IF kk.left[d] > MaxWait THEN kk.left[d]
                    ELSE IF kk.left[d] > n THEN kk.left[d] - n ELSE 0
          /\ kk.since[d] <= Forever => s[d] <= Forever /\ s[d] <= kk.since[d] + n
    <2>1. \A d \in Slots : kk.since[d] \in Nat BY <1>2 DEF KType
    <2> QED BY <2>1 DEF NoWait, Forever
  <1> HIDE DEF w, l, s, b
  <1>8. /\ b \in KType /\ b.st = w.st /\ b.gen = w.gen /\ b.prio = w.prio /\ b.left = l
        /\ b.since = s /\ b.late = w.late /\ b.missed = w.missed /\ b.lock = w.lock
    BY <1>2, <1>3, <1>4, <1>5, Zenon DEF KType
  <1>9. Fits(w) BY <1>1 DEF Tame
  <1>10. Fits(b) BY <1>3, <1>4, <1>8, <1>9 DEF Fits, FitsOne
  <1>11. ASSUME NEW d \in Slots, NEW m \in Nat, Timed(w, d, m) PROVE Timed(b, d, m)
    <2>1. kk.since[d] <= Forever /\ s[d] <= Forever /\ s[d] <= kk.since[d] + n
      BY <1>6, <1>7, <1>11 DEF Timed
    <2>2. kk.since[d] \in Nat /\ kk.left[d] \in Nat /\ s[d] \in Nat /\ l[d] \in Nat
      BY <1>2, <1>3, <1>4 DEF KType
    <2>3. CASE kk.left[d] > MaxWait
      <3>1. l[d] = kk.left[d] BY <1>7, <2>3
      <3>2. m > MaxWait BY <1>6, <1>11, <2>2, <2>3 DEF Timed
      <3> QED BY <1>8, <2>1, <2>3, <3>1, <3>2 DEF Timed
    <2>4. CASE kk.left[d] <= MaxWait /\ kk.left[d] > n
      <3>1. l[d] = kk.left[d] - n BY <1>7, <2>2, <2>4
      <3>2. kk.since[d] + kk.left[d] <= m BY <1>6, <1>11, <2>2, <2>4 DEF Timed
      <3>3. s[d] + l[d] <= m BY <2>1, <2>2, <3>1, <3>2
      <3> QED BY <1>8, <2>1, <3>3 DEF Timed
    <2>5. CASE kk.left[d] <= MaxWait /\ kk.left[d] <= n
      <3>1. l[d] = 0 BY <1>7, <2>2, <2>5
      <3> QED BY <1>8, <2>1, <3>1 DEF Timed
    <2> QED BY <2>2, <2>3, <2>4, <2>5
  <1>12. \A d \in Slots : Spare(w, b, d) /\ Lasts(w, b, d) BY <1>8, <1>11 DEF Spare, Lasts
  <1>13. Tame(w, b, {}, {}) BY <1>10, <1>12 DEF Tame
  <1> QED BY <1>1, <1>13, TameTrans DEF b

(* A tick.                                                                 *)
LEMMA TickTame == ASSUME NEW kk, Fits(kk) PROVE Tame(kk, increment_tick(kk), {}, {})
  <1>1. CASE kk.lock
    <2> DEFINE n == IF kk.missed < MaxMissed THEN kk.missed + 1 ELSE kk.missed
               b == increment_tick(kk)
    <2>1. kk \in KType BY DEF Fits
    <2>2. n \in Nat /\ n <= MaxMissed BY <2>1, KernelAssumption DEF KType, Fits
    <2>3. b = [kk EXCEPT !.missed = n] BY <1>1, Zenon DEF increment_tick
    <2> HIDE DEF n, b
    <2>4. /\ b \in KType /\ b.st = kk.st /\ b.gen = kk.gen /\ b.prio = kk.prio /\ b.left = kk.left
          /\ b.since = kk.since /\ b.late = kk.late /\ b.missed = n /\ b.lock = kk.lock
      BY <2>1, <2>2, <2>3, Zenon DEF KType
    <2>5. Fits(b) BY <2>2, <2>4 DEF Fits, FitsOne
    <2>6. \A d \in Slots : Spare(kk, b, d) /\ Lasts(kk, b, d)
      BY <2>4 DEF Spare, Lasts, Timed
    <2> QED BY <2>5, <2>6 DEF Tame, b
  <1>2. CASE ~kk.lock BY <1>2, AdvanceTame DEF increment_tick
  <1> QED BY <1>1, <1>2

(* A wake-up by an interrupt half.                                         *)
LEMMA IsrTame ==
  ASSUME NEW kk, Fits(kk), NEW who \in SUBSET Slots, \A s \in who : Alive(kk, s)
  PROVE  Tame(kk, WakeFromIsr(kk, who), {}, {})
  <1>1. CASE kk.lock
    <2> DEFINE l == kk.late \cup who
               b == WakeFromIsr(kk, who)
    <2>1. kk \in KType BY DEF Fits
    <2>2. l \in SUBSET Slots BY <2>1 DEF KType
    <2>3. b = [kk EXCEPT !.late = l] BY <1>1, Zenon DEF WakeFromIsr
    <2>4. kk.late \subseteq l OBVIOUS
    <2> HIDE DEF l, b
    <2>5. /\ b \in KType /\ b.st = kk.st /\ b.gen = kk.gen /\ b.prio = kk.prio /\ b.left = kk.left
          /\ b.since = kk.since /\ b.late = l /\ b.missed = kk.missed /\ b.lock = kk.lock
      BY <2>1, <2>2, <2>3, Zenon DEF KType
    <2>6. Fits(b) BY <1>1, <2>5 DEF Fits, FitsOne
    <2>7. \A d \in Slots : Spare(kk, b, d) /\ Lasts(kk, b, d)
      BY <2>4, <2>5 DEF Spare, Lasts, Timed
    <2> QED BY <2>6, <2>7 DEF Tame, b
  <1>2. CASE ~kk.lock BY <1>2, WakeTame DEF WakeFromIsr
  <1> QED BY <1>1, <1>2

(* A created task.                                                         *)
LEMMA CreateTame ==
  ASSUME NEW kk, Fits(kk), NEW t \in FreeSlots(kk), NEW p \in Nat
  PROVE  Tame(kk, create_task(kk, t, p), {}, {t})
  <1> DEFINE s == [kk.st EXCEPT ![t] = "ready"]
             q == [kk.prio EXCEPT ![t] = Clamp(p)]
             l == [kk.left EXCEPT ![t] = NoWait]
             b == create_task(kk, t, p)
  <1>1. kk \in KType /\ t \in Slots /\ kk.st[t] = "free" /\ kk.gen[t] <= MaxGen
    BY DEF Fits, FreeSlots
  <1>2. Clamp(p) \in Nat /\ Clamp(p) <= MaxPrio /\ NoWait \in Nat
    BY KernelAssumption DEF Clamp, NoWait
  <1>3. s \in [Slots -> States] /\ q \in [Slots -> Nat] /\ l \in [Slots -> Nat]
    BY <1>1, <1>2 DEF KType, States
  <1>4. /\ \A u \in Slots : u # t => s[u] = kk.st[u] /\ q[u] = kk.prio[u] /\ l[u] = kk.left[u]
        /\ q[t] = Clamp(p) /\ l[t] = NoWait
    BY <1>1 DEF KType
  <1>5. b = [kk EXCEPT !.st = s, !.prio = q, !.left = l] BY Zenon DEF create_task
  <1> HIDE DEF s, q, l, b
  <1>6. /\ b \in KType /\ b.st = s /\ b.gen = kk.gen /\ b.prio = q /\ b.left = l
        /\ b.since = kk.since /\ b.late = kk.late /\ b.missed = kk.missed /\ b.lock = kk.lock
    BY <1>1, <1>3, <1>5, Zenon DEF KType
  <1>7. NoWait <= NoWait BY <1>2
  <1>8. Fits(b) BY <1>1, <1>2, <1>4, <1>6, <1>7 DEF Fits, FitsOne
  <1>9. /\ \A d \in Slots : Spare(kk, b, d)
        /\ \A d \in Slots \ {t} : Lasts(kk, b, d)
    BY <1>1, <1>4, <1>6 DEF Spare, Lasts, Timed
  <1> QED BY <1>8, <1>9 DEF Tame, b

(* A deleted one.                                                          *)
LEMMA DeleteTame ==
  ASSUME NEW kk, Fits(kk), NEW t \in Slots, Alive(kk, t)
  PROVE  Tame(kk, task_delete(kk, t), {t}, {})
  <1> DEFINE l == kk.late \ {t}
  <1>1. kk \in KType /\ kk.gen[t] \in Nat \ {0} /\ kk.gen[t] <= MaxGen /\ l \in SUBSET Slots
    BY DEF Fits, FitsOne, Alive, KType
  <1>2. kk.lock \/ l = {} BY DEF Fits
  <1>3. CASE t = kk.cur
    <2> DEFINE s == [kk.st EXCEPT ![t] = "gone"]
               b == task_delete(kk, t)
    <2>1. b = [kk EXCEPT !.st = s, !.late = l] BY <1>3, Zenon DEF task_delete
    <2>2. s \in [Slots -> States] BY <1>1 DEF KType, States
    <2>3. s[t] = "gone" /\ \A u \in Slots : u # t => s[u] = kk.st[u] BY <1>1 DEF KType
    <2>4. \A u \in Slots : u # t /\ u \in kk.late => u \in l OBVIOUS
    <2> HIDE DEF s, l, b
    <2>5. /\ b \in KType /\ b.st = s /\ b.gen = kk.gen /\ b.prio = kk.prio /\ b.left = kk.left
          /\ b.since = kk.since /\ b.late = l /\ b.missed = kk.missed /\ b.lock = kk.lock
      BY <1>1, <2>1, <2>2, Zenon DEF KType
    <2>6. Fits(b) BY <1>1, <1>2, <2>3, <2>5 DEF Fits, FitsOne
    <2>7. /\ \A d \in Slots \ {t} : Spare(kk, b, d)
          /\ \A d \in Slots : Lasts(kk, b, d)
      BY <2>3, <2>4, <2>5 DEF Spare, Lasts, Timed
    <2> QED BY <2>6, <2>7 DEF Tame, b
  <1>4. CASE t # kk.cur
    <2> DEFINE s == [kk.st EXCEPT ![t] = "free"]
               g == [kk.gen EXCEPT ![t] = kk.gen[t] + 1]
               b == task_delete(kk, t)
    <2>1. b = [kk EXCEPT !.st = s, !.gen = g, !.late = l] BY <1>4, Zenon DEF task_delete, Freed
    <2>2. s \in [Slots -> States] /\ g \in [Slots -> Nat \ {0}] BY <1>1 DEF KType, States
    <2>3. /\ s[t] = "free" /\ \A u \in Slots : u # t => s[u] = kk.st[u] /\ g[u] = kk.gen[u]
          /\ g[t] <= MaxGen + 1
      BY <1>1, KernelAssumption DEF KType
    <2>4. \A u \in Slots : u # t /\ u \in kk.late => u \in l OBVIOUS
    <2> HIDE DEF s, g, l, b
    <2>5. /\ b \in KType /\ b.st = s /\ b.gen = g /\ b.prio = kk.prio /\ b.left = kk.left
          /\ b.since = kk.since /\ b.late = l /\ b.missed = kk.missed /\ b.lock = kk.lock
      BY <1>1, <2>1, <2>2, Zenon DEF KType
    <2>6. Fits(b) BY <1>1, <1>2, <2>3, <2>5 DEF Fits, FitsOne
    <2>7. /\ \A d \in Slots \ {t} : Spare(kk, b, d)
          /\ \A d \in Slots : Lasts(kk, b, d)
      BY <2>3, <2>4, <2>5 DEF Spare, Lasts, Timed
    <2> QED BY <2>6, <2>7 DEF Tame, b
  <1> QED BY <1>3, <1>4

(* What is gone is collected.                                              *)
LEMMA CollectTame ==
  ASSUME NEW kk, Fits(kk)
  PROVE  Tame(kk, check_tasks_waiting_termination(kk), {}, {})
  <1> DEFINE s == [t \in Slots |-> IF kk.st[t] = "gone" THEN "free" ELSE kk.st[t]]
             g == [t \in Slots |-> IF kk.st[t] = "gone" THEN kk.gen[t] + 1 ELSE kk.gen[t]]
             b == check_tasks_waiting_termination(kk)
  <1>1. kk \in KType BY DEF Fits
  <1>2. s \in [Slots -> States] /\ g \in [Slots -> Nat \ {0}] BY <1>1 DEF KType, States
  <1>3. \A u \in Slots : /\ kk.st[u] # "gone" => s[u] = kk.st[u] /\ g[u] = kk.gen[u]
                         /\ kk.st[u] = "gone" => s[u] = "free" /\ g[u] = kk.gen[u] + 1
    OBVIOUS
  <1>4. b = [kk EXCEPT !.st = s, !.gen = g] BY Zenon DEF check_tasks_waiting_termination
  <1> HIDE DEF s, g, b
  <1>5. /\ b \in KType /\ b.st = s /\ b.gen = g /\ b.prio = kk.prio /\ b.left = kk.left
        /\ b.since = kk.since /\ b.late = kk.late /\ b.missed = kk.missed /\ b.lock = kk.lock
    BY <1>1, <1>2, <1>4, Zenon DEF KType
  <1>6. ASSUME NEW u \in Slots PROVE FitsOne(b, u)
    <2>1. kk.gen[u] \in Nat BY <1>1 DEF KType
    <2>2. FitsOne(kk, u) BY DEF Fits
    <2> QED BY <1>3, <1>5, <2>1, <2>2, KernelAssumption DEF FitsOne
  <1>7. Fits(b) BY <1>5, <1>6 DEF Fits
  <1>8. \A d \in Slots : Spare(kk, b, d) /\ Lasts(kk, b, d)
    BY <1>3, <1>5 DEF Spare, Lasts, Timed
  <1> QED BY <1>7, <1>8 DEF Tame, b

(* A suspended task.                                                       *)
LEMMA SuspendTame ==
  ASSUME NEW kk, Fits(kk), NEW t \in Slots, Alive(kk, t)
  PROVE  Tame(kk, suspend(kk, t), {t}, {})
  <1> DEFINE l == kk.late \ {t}
             s == [kk.st EXCEPT ![t] = "suspended"]
             b == suspend(kk, t)
  <1>1. kk \in KType /\ kk.gen[t] <= MaxGen BY DEF Fits, FitsOne, Alive
  <1>2. kk.lock \/ l = {} BY DEF Fits
  <1>3. b = [kk EXCEPT !.st = s, !.late = l] BY Zenon DEF suspend
  <1>4. s \in [Slots -> States] /\ l \in SUBSET Slots BY <1>1 DEF KType, States
  <1>5. \A u \in Slots : u # t => s[u] = kk.st[u] /\ (u \in kk.late => u \in l)
    BY <1>1 DEF KType
  <1> HIDE DEF s, l, b
  <1>6. /\ b \in KType /\ b.st = s /\ b.gen = kk.gen /\ b.prio = kk.prio /\ b.left = kk.left
        /\ b.since = kk.since /\ b.late = l /\ b.missed = kk.missed /\ b.lock = kk.lock
    BY <1>1, <1>3, <1>4, Zenon DEF KType
  <1>7. Fits(b) BY <1>1, <1>2, <1>5, <1>6 DEF Fits, FitsOne
  <1>8. /\ \A d \in Slots \ {t} : Spare(kk, b, d)
        /\ \A d \in Slots : Lasts(kk, b, d)
    BY <1>5, <1>6 DEF Spare, Lasts, Timed
  <1> QED BY <1>7, <1>8 DEF Tame, b

(* A resumed one.                                                          *)
LEMMA ResumeTame == ASSUME NEW kk, Fits(kk), NEW t PROVE Tame(kk, resume(kk, t), {}, {})
  BY WakeTame, TameNone DEF resume, Alive

(* One whose priority is set.                                              *)
LEMMA PriorityTame ==
  ASSUME NEW kk, Fits(kk), NEW t \in Slots, NEW p \in Nat
  PROVE  Tame(kk, set_priority(kk, t, p), {t}, {})
  <1> DEFINE q == [kk.prio EXCEPT ![t] = Clamp(p)]
             b == set_priority(kk, t, p)
  <1>1. kk \in KType BY DEF Fits
  <1>2. Clamp(p) \in Nat /\ Clamp(p) <= MaxPrio BY KernelAssumption DEF Clamp
  <1>3. b = [kk EXCEPT !.prio = q] BY Zenon DEF set_priority
  <1>4. q \in [Slots -> Nat] BY <1>1, <1>2 DEF KType
  <1>5. q[t] = Clamp(p) /\ \A u \in Slots : u # t => q[u] = kk.prio[u] BY <1>1 DEF KType
  <1> HIDE DEF q, b
  <1>6. /\ b \in KType /\ b.st = kk.st /\ b.gen = kk.gen /\ b.prio = q /\ b.left = kk.left
        /\ b.since = kk.since /\ b.late = kk.late /\ b.missed = kk.missed /\ b.lock = kk.lock
    BY <1>1, <1>3, <1>4, Zenon DEF KType
  <1>7. Fits(b) BY <1>2, <1>5, <1>6 DEF Fits, FitsOne
  <1>8. /\ \A d \in Slots \ {t} : Spare(kk, b, d)
        /\ \A d \in Slots : Lasts(kk, b, d)
    BY <1>5, <1>6 DEF Spare, Lasts, Timed
  <1> QED BY <1>7, <1>8 DEF Tame, b

(* A deadline of the caller's, or what it saw of the clock.                *)
LEMMA SinceTame ==
  ASSUME NEW kk, Fits(kk), NEW t \in Slots, NEW n \in Nat, n <= NoWait
  PROVE  Tame(kk, [kk EXCEPT !.since[t] = n], {}, {t})
  <1> DEFINE q == [kk.since EXCEPT ![t] = n]
             b == [kk EXCEPT !.since[t] = n]
  <1>1. kk \in KType BY DEF Fits
  <1>2. b = [kk EXCEPT !.since = q] BY Zenon
  <1>3. q \in [Slots -> Nat] BY <1>1 DEF KType
  <1>4. q[t] = n /\ \A u \in Slots : u # t => q[u] = kk.since[u] BY <1>1 DEF KType
  <1> HIDE DEF q, b
  <1>5. /\ b \in KType /\ b.st = kk.st /\ b.gen = kk.gen /\ b.prio = kk.prio /\ b.left = kk.left
        /\ b.since = q /\ b.late = kk.late /\ b.missed = kk.missed /\ b.lock = kk.lock
    BY <1>1, <1>2, <1>3, Zenon DEF KType
  <1>6. Fits(b) BY <1>4, <1>5 DEF Fits, FitsOne
  <1>7. /\ \A d \in Slots : Spare(kk, b, d)
        /\ \A d \in Slots \ {t} : Lasts(kk, b, d)
    BY <1>4, <1>5 DEF Spare, Lasts, Timed
  <1> QED BY <1>6, <1>7 DEF Tame, b

(* A wait that is ended.                                                   *)
LEMMA AbortTame ==
  ASSUME NEW kk, Fits(kk), NEW t \in Slots, Abortable(kk, t)
  PROVE  Tame(kk, abort_delay(kk, t), {}, {})
  <1> DEFINE w == Wake(kk, {t})
             q == [w.left EXCEPT ![t] = 0]
             b == abort_delay(kk, t)
  <1>1. Tame(kk, w, {}, {}) BY WakeTame DEF Abortable, Alive
  <1>2. Fits(w) /\ w \in KType BY <1>1 DEF Tame, Fits
  <1>3. b = [w EXCEPT !.left = q] BY Zenon DEF abort_delay
  <1>4. q \in [Slots -> Nat] /\ 0 <= NoWait
    <2> HIDE DEF w
    <2>1. q \in [Slots -> Nat] BY <1>2 DEF KType
    <2>2. 0 <= NoWait BY KernelAssumption DEF NoWait
    <2> QED BY <2>1, <2>2
  <1>5. q[t] = 0 /\ \A u \in Slots : u # t => q[u] = w.left[u] BY <1>2 DEF KType
  <1> HIDE DEF q, w, b
  <1>6. /\ b \in KType /\ b.st = w.st /\ b.gen = w.gen /\ b.prio = w.prio /\ b.left = q
        /\ b.since = w.since /\ b.late = w.late /\ b.missed = w.missed /\ b.lock = w.lock
    BY <1>2, <1>3, <1>4, Zenon DEF KType
  <1>7. Fits(b) BY <1>2, <1>4, <1>5, <1>6 DEF Fits, FitsOne
  <1>8. \A d \in Slots : Spare(w, b, d) /\ Lasts(w, b, d)
    BY <1>5, <1>6 DEF Spare, Lasts, Timed
  <1>9. Tame(w, b, {}, {}) BY <1>7, <1>8 DEF Tame
  <1> QED BY <1>1, <1>9, TameTrans DEF b

(* The scheduler suspended.                                                *)
LEMMA SuspendAllTame == ASSUME NEW kk, Fits(kk) PROVE Tame(kk, suspend_all(kk), {}, {})
  <1> DEFINE b == suspend_all(kk)
  <1>1. kk \in KType BY DEF Fits
  <1>2. b = [kk EXCEPT !.lock = TRUE] BY Zenon DEF suspend_all
  <1> HIDE DEF b
  <1>3. /\ b \in KType /\ b.st = kk.st /\ b.gen = kk.gen /\ b.prio = kk.prio /\ b.left = kk.left
        /\ b.since = kk.since /\ b.late = kk.late /\ b.missed = kk.missed
    BY <1>1, <1>2, Zenon DEF KType
  <1>4. b.lock BY <1>1, <1>2, Zenon DEF KType
  <1>5. Fits(b) BY <1>3, <1>4 DEF Fits, FitsOne
  <1>6. \A d \in Slots : Spare(kk, b, d) /\ Lasts(kk, b, d)
    BY <1>3 DEF Spare, Lasts, Timed
  <1> QED BY <1>5, <1>6 DEF Tame, b

(* The scheduler resumed: whom an interrupt woke meanwhile is ready now.   *)
LEMMA ResumeAllTame ==
  ASSUME NEW kk, Fits(kk), \A s \in kk.late : Alive(kk, s)
  PROVE  Tame(kk, resume_all(kk), {}, {})
  <1> DEFINE w == Wake(kk, kk.late)
             a == Advance(w, kk.missed)
             b == resume_all(kk)
  <1>1. Tame(kk, w, {}, {}) BY WakeTame
  <1>2. kk.missed \in Nat /\ kk \in KType BY DEF Fits, KType
  <1>3. Fits(w) BY <1>1 DEF Tame
  <1>4. Tame(w, a, {}, {}) BY <1>2, <1>3, AdvanceTame
  <1>5. Tame(kk, a, {}, {}) BY <1>1, <1>4, TameTrans
  <1>6. Fits(a) /\ a \in KType BY <1>4 DEF Tame, Fits
  <1>7. \A d \in kk.late : d \in Slots /\ a.st[d] = "ready"
    <2>1. \A d \in kk.late : d \in Slots /\ w.st[d] = "ready" BY <1>2 DEF KType, Wake
    <2> QED BY <1>4, <2>1 DEF Tame, Spare
  <1>8. b = [a EXCEPT !.lock = FALSE, !.late = {}, !.missed = 0] BY Zenon DEF resume_all
  <1>9. 0 <= MaxMissed BY KernelAssumption
  <1> HIDE DEF w, a, b
  <1>10. {} \in SUBSET Slots /\ FALSE \in BOOLEAN /\ 0 \in Nat OBVIOUS
  <1>11. /\ b \in KType /\ b.st = a.st /\ b.gen = a.gen /\ b.prio = a.prio /\ b.left = a.left
         /\ b.since = a.since /\ b.late = {} /\ b.missed = 0
    BY <1>6, <1>8, <1>10, Zenon DEF KType
  <1>12. Fits(b) BY <1>6, <1>9, <1>11 DEF Fits, FitsOne
  <1>13. \A d \in Slots : Spare(kk, b, d) /\ Lasts(kk, b, d)
    BY <1>5, <1>7, <1>11, Zenon DEF Tame, Spare, Lasts, Timed
  <1> QED BY <1>12, <1>13 DEF Tame, b

(* The switch changes no task.                                             *)
LEMMA SwitchTame ==
  ASSUME NEW kk, Fits(kk), NEW b \in switch_context(kk)
  PROVE  Tame(kk, b, {}, {})
  <1>1. kk \in KType BY DEF Fits
  <1>2. CASE kk.lock
    <2>1. b = [kk EXCEPT !.declined = TRUE] BY <1>2, Zenon DEF switch_context
    <2>2. /\ b \in KType /\ b.st = kk.st /\ b.gen = kk.gen /\ b.prio = kk.prio
          /\ b.left = kk.left /\ b.since = kk.since /\ b.late = kk.late
          /\ b.missed = kk.missed /\ b.lock = kk.lock
      BY <1>1, <2>1, Zenon DEF KType
    <2>3. Fits(b) BY <2>2 DEF Fits, FitsOne
    <2>4. \A d \in Slots : Spare(kk, b, d) /\ Lasts(kk, b, d)
      BY <2>2 DEF Spare, Lasts, Timed
    <2> QED BY <2>3, <2>4 DEF Tame
  <1>3. CASE ~kk.lock
    <2> DEFINE whom == IF Best(kk) \subseteq {kk.cur} THEN Best(kk) ELSE Best(kk) \ {kk.cur}
    <2>1. whom \subseteq Slots BY DEF Best, Ready
    <2>2. PICK t \in Slots : b = [kk EXCEPT !.cur = t, !.declined = FALSE]
      <3>1. switch_context(kk) = {[kk EXCEPT !.cur = t, !.declined = FALSE] : t \in whom}
        BY <1>3, Zenon DEF switch_context
      <3> HIDE DEF whom
      <3> QED BY <2>1, <3>1, Zenon
    <2>3. /\ b \in KType /\ b.st = kk.st /\ b.gen = kk.gen /\ b.prio = kk.prio
          /\ b.left = kk.left /\ b.since = kk.since /\ b.late = kk.late
          /\ b.missed = kk.missed /\ b.lock = kk.lock
      BY <1>1, <2>2, Zenon DEF KType
    <2>4. Fits(b) BY <2>3 DEF Fits, FitsOne
    <2>5. \A d \in Slots : Spare(kk, b, d) /\ Lasts(kk, b, d)
      BY <2>3 DEF Spare, Lasts, Timed
    <2> QED BY <2>4, <2>5 DEF Tame
  <1> QED BY <1>2, <1>3

-----------------------------------------------------------------------------
(* The steps again: whom they are about.                                   *)

(* Whose slot was given a function of the C's to run.                      *)
Ours == {s \in Slots : entry[s] \in Functions}

(* Whose slot a step puts a new task in.                                   *)
Born == {s \in Slots : k.st[s] = "free" /\ k'.st[s] # "free"}

(* Parking is about the caller.                                            *)
LEMMA ParkedTame ==
  ASSUME IInv, Fits(k), NEW t \in Slots, CanRun(t), pc[t] \in Calm
  PROVE  Tame(k, Parked(t), {t}, {t})
  <1>1. k \in KType /\ Alive(k, t) /\ IsCall(call[t]) BY InCall DEF InACall
  <1>2. CASE call[t].n = 0 BY <1>2, TameNone, TameMore DEF Parked
  <1>3. CASE call[t].n # 0
    <2> DEFINE n == IF pc[t] = "loop" THEN k.left[t] ELSE call[t].n
    <2>1. n \in Nat BY <1>1 DEF KType, IsCall
    <2>2. Parked(t) = Block(k, t, n) BY <1>3 DEF Parked
    <2> HIDE DEF n
    <2> QED BY <1>1, <2>1, <2>2, BlockTame
  <1> QED BY <1>2, <1>3

(* Whom a call of these names is the caller, or a task of the C's.         *)
LEMMA NamedOurs ==
  ASSUME IInv, Arguments, NEW t \in Slots, CanRun(t), pc[t] = "call",
         call[t].op \notin DOMAIN Objects, NEW s \in Named(t, call[t].p)
  PROVE  s \in Slots /\ Alive(k, s) /\ s \in {t} \cup Ours
  <1>1. Alive(k, t) /\ IsCall(call[t]) BY InCall DEF InACall, Calm
  <1>2. s \in Slots /\ Alive(k, s) BY <1>1, NamedAlive
  <1>3. call[t].whom \in Functions \cup {"self"} BY <1>1 DEF IsCall
  <1>4. s = t \/ entry[s] \in Functions BY <1>3, NamedByHandle
  <1> QED BY <1>2, <1>4 DEF Ours

(* The calls that change the tasks themselves.                             *)
LEMMA TaskTame ==
  ASSUME IInv, Fits(k), Arguments, NEW t \in Slots, TaskCall(t)
  PROVE  Tame(k, k', {t} \cup Ours, {t} \cup Born)
  <1> DEFINE about == {t} \cup Ours
             whose == {t} \cup Born
  <1> SUFFICES Tame(k, k', about, whose) OBVIOUS
  <1>1. Tame(k, k, {}, {}) BY TameNone
  <1>2. ASSUME Tame(k, k', {}, {}) PROVE Tame(k, k', about, whose) BY <1>2, TameMore
  <1>3. ASSUME NEW s \in about, Tame(k, k', {s}, {}) PROVE Tame(k, k', about, whose)
    BY <1>3, TameMore
  <1>4. ASSUME NEW op, Calling(t, op), op \notin DOMAIN Objects
        PROVE  /\ CanRun(t) /\ call[t].n \in Nat /\ Alive(k, t)
               /\ \A s \in Named(t, call[t].p) : s \in Slots /\ Alive(k, s) /\ s \in about
    <2>1. CanRun(t) /\ pc[t] = "call" /\ call[t].op = op BY <1>4 DEF Calling, At
    <2>2. Alive(k, t) /\ IsCall(call[t]) BY <2>1, InCall DEF InACall, Calm
    <2> HIDE DEF about
    <2>3. \A s \in Named(t, call[t].p) : s \in Slots /\ Alive(k, s) /\ s \in about
      BY <1>4, <2>1, NamedOurs DEF about
    <2> QED BY <2>1, <2>2, <2>3 DEF IsCall
  <1>5. CASE UNCHANGED k BY <1>1, <1>2, <1>5
  <1>6. CASE xTaskCreate(t)
    <2>1. call[t].n \in Nat BY <1>4, <1>6 DEF xTaskCreate, Objects, GroupOps, StreamOps, WireOps
    <2>2. k' = k \/ \E s \in FreeSlots(k) : k' = create_task(k, s, call[t].n)
      BY <1>6 DEF xTaskCreate
    <2>3. ASSUME NEW s \in FreeSlots(k), k' = create_task(k, s, call[t].n)
          PROVE  Tame(k, k', about, whose)
      <3>1. s \in Slots /\ k.st[s] = "free" /\ k \in KType BY DEF FreeSlots, Fits
      <3>2. Made(k, k', s, call[t].n) BY <2>1, <2>3, <3>1, CreateMakes
      <3>3. s \in Born BY <3>1, <3>2 DEF Made, Born
      <3>4. Tame(k, k', {}, {s}) BY <2>1, <2>3, CreateTame
      <3> QED BY <3>3, <3>4, TameMore
    <2> QED BY <1>1, <1>2, <2>2, <2>3
  <1> HIDE DEF about, whose
  <1>7. CASE vTaskDelete(t)
    <2>1. \A s \in Named(t, call[t].p) : s \in Slots /\ Alive(k, s) /\ s \in about
      BY <1>4, <1>7 DEF vTaskDelete, Objects, GroupOps, StreamOps, WireOps
    <2>2. k' = k \/ \E s \in Named(t, call[t].p) : k' = task_delete(k, s)
      BY <1>7 DEF vTaskDelete
    <2> QED BY <1>1, <1>2, <1>3, <2>1, <2>2, DeleteTame
  <1>8. CASE vTaskSuspend(t)
    <2>1. \A s \in Named(t, call[t].p) : s \in Slots /\ Alive(k, s) /\ s \in about
      BY <1>4, <1>8 DEF vTaskSuspend, Objects, GroupOps, StreamOps, WireOps
    <2>2. k' = k \/ \E s \in Named(t, call[t].p) : k' = suspend(k, s)
      BY <1>8 DEF vTaskSuspend
    <2> QED BY <1>1, <1>2, <1>3, <2>1, <2>2, SuspendTame
  <1>9. CASE vTaskResume(t)
    <2>1. k' = k \/ \E s \in Named(t, call[t].p) : k' = resume(k, s) BY <1>9 DEF vTaskResume
    <2> QED BY <1>1, <1>2, <2>1, ResumeTame
  <1>10. CASE vTaskPrioritySet(t)
    <2>1. /\ \A s \in Named(t, call[t].p) : s \in Slots /\ Alive(k, s) /\ s \in about
          /\ call[t].n \in Nat
      BY <1>4, <1>10 DEF vTaskPrioritySet, Objects, GroupOps, StreamOps, WireOps
    <2>2. k' = k \/ \E s \in Named(t, call[t].p) : k' = set_priority(k, s, call[t].n)
      BY <1>10 DEF vTaskPrioritySet
    <2>3. \A s \in Named(t, call[t].p) : Tame(k, set_priority(k, s, call[t].n), {s}, {})
      BY <2>1, PriorityTame
    <2> QED BY <1>1, <1>2, <1>3, <2>1, <2>2, <2>3
  <1>11. CASE xTaskAbortDelay(t)
    <2>1. \A s \in Named(t, call[t].p) : s \in Slots
      BY <1>4, <1>11 DEF xTaskAbortDelay, Objects, GroupOps, StreamOps, WireOps
    <2>2. \/ k' = k
          \/ \E s \in Named(t, call[t].p) : Abortable(k, s) /\ k' = abort_delay(k, s)
      BY <1>11 DEF xTaskAbortDelay
    <2> QED BY <1>1, <1>2, <2>1, <2>2, AbortTame
  <1>12. CASE vTaskDelay(t) \/ xTaskDelayUntil(t)
    <2>1. call[t].n \in Nat /\ Alive(k, t)
      BY <1>4, <1>12 DEF vTaskDelay, xTaskDelayUntil, Objects, GroupOps, StreamOps, WireOps
    <2>2. \A n \in 1 .. call[t].n : n \in Nat OBVIOUS
    <2>3. k' = k \/ \E n \in Nat : k' = Block(k, t, n)
      BY <1>12, <2>1, <2>2 DEF vTaskDelay, xTaskDelayUntil
    <2>4. t \in about /\ t \in whose BY DEF about, whose
    <2>5. Tame(k, k', {t}, {t}) => Tame(k, k', about, whose) BY <2>4, TameMore
    <2> QED BY <1>1, <1>2, <2>1, <2>3, <2>5, BlockTame
  <1>13. CASE vTaskSuspendAll(t) BY <1>2, <1>13, SuspendAllTame DEF vTaskSuspendAll
  <1>14. CASE xTaskResumeAll(t)
    <2>1. \A s \in k.late : Alive(k, s) BY DEF IInv, Life
    <2> QED BY <1>2, <1>14, <2>1, ResumeAllTame DEF xTaskResumeAll
  <1>15. CASE xTaskCatchUpTicks(t)
    <2>1. k' = k \/ k' = increment_tick(k) BY <1>15 DEF xTaskCatchUpTicks
    <2> QED BY <1>1, <1>2, <2>1, TickTame
  <1>16. CASE idle(t) BY <1>2, <1>16, CollectTame DEF idle
  <1> QED
    BY <1>5, <1>6, <1>7, <1>8, <1>9, <1>10, <1>11, <1>12, <1>13, <1>14, <1>15, <1>16
    DEF TaskCall, c_task_trampoline, Leave, ArmCreated, WriteHandle, Lookup,
        vPortGenerateSimulatedInterrupt

(* The calls that only wake others or park their own task.                 *)
LEMMA WakingTame ==
  ASSUME IInv, Fits(k), NEW t \in Slots, CanRun(t), pc[t] \in Calm,
         NEW who, \A s \in who : Alive(k, s), k' \in {k, Wake(k, who), Parked(t)}
  PROVE  Tame(k, k', {t}, {t})
  <1>1. Tame(k, k, {}, {}) /\ Tame(k, Wake(k, who), {}, {}) BY TameNone, WakeTame
  <1>2. Tame(k, k', {t}, {t}) \/ Tame(k, k', {}, {}) BY <1>1, ParkedTame
  <1> QED BY <1>2, TameMore

(* Notifications.                                                          *)
LEMMA NotifyTame ==
  ASSUME IInv, Fits(k), NEW t \in Slots, NotifyCall(t)
  PROVE  Tame(k, k', {t}, {t})
  <1>1. CanRun(t) /\ pc[t] \in Calm
    BY DEF NotifyCall, Query, xTaskGenericNotify, xTaskGenericNotifyWait, ulTaskGenericNotifyTake,
           xTaskGenericNotifyStateClear, ulTaskGenericNotifyValueClear, Calling, Looping, At, Calm
  <1>2. Alive(k, t) BY <1>1, InCall DEF InACall
  <1>3. \E who : (\A s \in who : Alive(k, s)) /\ k' \in {k, Wake(k, who), Parked(t)}
    <2>1. CASE k' = k \/ k' = Parked(t)
      <3>1. (\A s \in {} : Alive(k, s)) /\ k' \in {k, Wake(k, {}), Parked(t)} BY <2>1
      <3> QED BY <3>1
    <2>2. CASE xTaskGenericNotify(t)
      <3>1. k' = k \/ \E s \in Named(t, call[t].p) : k' = Wake(k, Roused(s))
        BY <2>2 DEF xTaskGenericNotify
      <3>2. \A s \in Named(t, call[t].p) : \A u \in Roused(s) : Alive(k, u)
        BY <1>2, NamedAlive DEF Roused
      <3> QED BY <2>1, <3>1, <3>2
    <2> QED
      BY <2>1, <2>2
      DEF NotifyCall, Query, xTaskGenericNotifyWait, ulTaskGenericNotifyTake,
          xTaskGenericNotifyStateClear, ulTaskGenericNotifyValueClear
  <1>4. PICK who : (\A s \in who : Alive(k, s)) /\ k' \in {k, Wake(k, who), Parked(t)} BY <1>3
  <1> QED BY <1>1, <1>4, WakingTame

(* Event groups.                                                           *)
LEMMA GroupTame ==
  ASSUME IInv, Fits(k), NEW t \in Slots, GroupCall(t)
  PROVE  Tame(k, k', {t}, {t})
  <1>1. CanRun(t) /\ pc[t] \in Calm
    BY DEF GroupCall, xEventGroupCreate, vEventGroupDelete, xEventGroupSetBits,
           xEventGroupClearBits, xEventGroupWaitBits, xEventGroupSync, Calling, Looping, At, Calm
  <1>2. ASSUME NEW who, \A s \in who : Alive(k, s), k' \in {k, Wake(k, who), Parked(t)}
        PROVE  Tame(k, k', {t}, {t})
    BY <1>1, <1>2, WakingTame
  <1>3. CASE k' = k \/ k' = Parked(t)
    <2>1. (\A s \in {} : Alive(k, s)) /\ k' \in {k, Wake(k, {}), Parked(t)} BY <1>3
    <2> QED BY <1>2, <2>1
  <1>4. CASE vEventGroupDelete(t)
    <2>1. k' \in {k, Wake(k, Waits(WaitOps)), Parked(t)} BY <1>4 DEF vEventGroupDelete
    <2> QED BY <1>2, <2>1, WaitsAlive
  <1>5. CASE xEventGroupSetBits(t)
    <2>1. k' \in {k, Wake(k, Released(OwnBits(t))), Parked(t)} BY <1>5 DEF xEventGroupSetBits
    <2> QED BY <1>2, <2>1, ReleasedAlive
  <1>6. CASE xEventGroupSync(t)
    <2> DEFINE together == Met(t, bits \cup OwnBits(t))
               who == Released(OwnBits(t))
    <2>1. \A s \in who : Alive(k, s) BY ReleasedAlive
    <2>2. \/ k' = k \/ k' = Parked(t)
          \/ k' = Wake(IF together THEN k ELSE Parked(t), who)
      <3> HIDE DEF together, who
      <3> QED BY <1>6 DEF xEventGroupSync, together, who
    <2> HIDE DEF together, who
    <2>3. ASSUME k' = Wake(Parked(t), who) PROVE Tame(k, k', {t}, {t})
      <3>1. Tame(k, Parked(t), {t}, {t}) BY <1>1, ParkedTame
      <3>2. KOrd(k, Parked(t)) BY <1>1, ParkedOrd
      <3>3. \A s \in who : s \in Slots BY ReleasedAlive DEF who
      <3>4. \A s \in who : Alive(Parked(t), s) BY <2>1, <3>2, <3>3 DEF KOrd, Alive
      <3>5. Fits(Parked(t)) BY <3>1 DEF Tame
      <3>6. Tame(Parked(t), k', {}, {}) BY <2>3, <3>4, <3>5, WakeTame
      <3>7. Tame(Parked(t), k', {t}, {t}) BY <3>6, TameMore
      <3> QED BY <3>1, <3>7, TameTrans
    <2> QED BY <1>2, <1>3, <2>1, <2>2, <2>3
  <1> QED
    BY <1>3, <1>4, <1>5, <1>6
    DEF GroupCall, xEventGroupCreate, xEventGroupClearBits, xEventGroupWaitBits

(* The daemon.                                                             *)
LEMMA DaemonTame ==
  ASSUME IInv, Fits(k), NEW t \in Slots, timer_daemon(t)
  PROVE  Tame(k, k', {t}, {t})
  <1>1. CanRun(t) /\ pc[t] = "daemon" /\ pc[t] # "arm" BY DEF timer_daemon, At
  <1>2. Alive(k, t) BY <1>1, Running DEF Parting, Leaving, Alive
  <1>3. CASE cmds # <<>>
    <2>1. pended(Head(cmds)) BY <1>3 DEF timer_daemon
    <2>2. k' = k \/ k' = Wake(k, Released(Head(cmds).bits)) BY <2>1 DEF pended
    <2>3. Tame(k, k', {}, {}) BY <2>2, ReleasedAlive, TameNone, WakeTame
    <2> QED BY <2>3, TameMore
  <1>4. CASE cmds = <<>>
    <2>1. k' = Block(k, t, Forever) BY <1>4 DEF timer_daemon
    <2>2. Forever \in Nat BY KernelAssumption DEF Forever
    <2> QED BY <1>2, <2>1, <2>2, BlockTame
  <1> QED BY <1>3, <1>4

(* A receive, which reads the clock besides.                               *)
LEMMA ReceiveTame ==
  ASSUME IInv, Fits(k), NEW t \in Slots, xStreamBufferReceive(t)
  PROVE  Tame(k, k', {t}, {t})
  <1> DEFINE kk == IF pc[t] = "call" THEN SampledNow(t) ELSE k
  <1>1. Attempt(t, kk) BY DEF xStreamBufferReceive
  <1>2. CanRun(t) /\ pc[t] \in Calm BY <1>1 DEF Attempt, Looping, Calm
  <1>3. 0 \in Nat /\ 0 <= NoWait /\ NoWait \in Nat /\ NoWait <= NoWait
    BY KernelAssumption DEF NoWait
  <1>4. Tame(k, kk, {}, {t}) BY <1>3, SinceTame, TameNone, TameMore DEF SampledNow
  <1>5. kk.st = k.st
    <2>1. k \in KType BY DEF Fits
    <2> QED BY <2>1, 0 \in Nat, SinceRanks DEF SampledNow
  <1>6. Fits(kk) /\ kk.since[t] \in Nat /\ kk.since[t] <= NoWait
    BY <1>4 DEF Tame, Fits, FitsOne, KType
  <1> HIDE DEF kk
  <1>7. ASSUME NEW who, who \subseteq Writers, k' = [Wake(kk, who) EXCEPT !.since[t] = NoWait]
        PROVE  Tame(k, k', {t}, {t})
    <2> DEFINE w == Wake(kk, who)
    <2>1. \A s \in who : Alive(kk, s) BY <1>5, <1>7, WaitsAlive DEF Writers, Alive
    <2>2. Tame(kk, w, {}, {}) BY <1>6, <2>1, WakeTame
    <2>3. Fits(w) BY <2>2 DEF Tame
    <2> HIDE DEF w
    <2>4. Tame(w, [w EXCEPT !.since[t] = NoWait], {}, {t}) BY <1>3, <2>3, SinceTame
    <2>5. Tame(w, k', {}, {t}) BY <1>7, <2>4 DEF w
    <2>6. Tame(kk, w, {}, {t}) BY <2>2, TameMore DEF w
    <2>7. Tame(k, k', {}, {t}) BY <1>4, <2>5, <2>6, TameTrans
    <2> QED BY <2>7, TameMore
  <1>8. ASSUME NEW n \in Nat, n <= NoWait, k' = [Parked(t) EXCEPT !.since[t] = n]
        PROVE  Tame(k, k', {t}, {t})
    <2> DEFINE b == Parked(t)
    <2>1. Tame(k, b, {t}, {t}) BY <1>2, ParkedTame
    <2> HIDE DEF b
    <2>2. Fits(b) BY <2>1 DEF Tame
    <2>3. Tame(b, [b EXCEPT !.since[t] = n], {}, {t}) BY <1>8, <2>2, SinceTame
    <2>4. Tame(b, k', {}, {t}) BY <1>8, <2>3 DEF b
    <2>5. Tame(b, k', {t}, {t}) BY <2>4, TameMore
    <2> QED BY <2>1, <2>5, TameTrans
  <1>9. CASE k' = [k EXCEPT !.since[t] = NoWait]
    <2>1. Tame(k, k', {}, {t}) BY <1>3, <1>9, SinceTame
    <2> QED BY <2>1, TameMore
  <1> DEFINE n == IF call[t].n > 0 THEN kk.since[t] ELSE NoWait
             some == IF buffer.level > 0 THEN Writers ELSE {}
  <1>10. n \in Nat /\ n <= NoWait /\ some \subseteq Writers BY <1>3, <1>6
  <1>11. CASE k' = [Parked(t) EXCEPT !.since[t] = n]
    <2> HIDE DEF n
    <2> QED BY <1>8, <1>10, <1>11
  <1>12. CASE k' = [Wake(kk, some) EXCEPT !.since[t] = NoWait]
    <2> HIDE DEF some
    <2> QED BY <1>7, <1>10, <1>12
  <1> QED BY <1>1, <1>9, <1>11, <1>12, Zenon DEF Attempt

(* Buffers, the serial port, semaphores and mutexes.                       *)
LEMMA BufferTame ==
  ASSUME IInv, Fits(k), NEW t \in Slots, BufferCall(t)
  PROVE  Tame(k, k', {t}, {t})
  <1>1. CASE k' = k BY <1>1, TameNone, TameMore
  <1>2. ASSUME NEW ops, NEW who, who \subseteq Waits(ops), k' = Wake(k, who)
        PROVE  Tame(k, k', {t}, {t})
    <2>1. Tame(k, k', {}, {}) BY <1>2, WaitsAlive, WakeTame
    <2> QED BY <2>1, TameMore
  <1>3. ASSUME k' = Parked(t), NEW op, Looping(t, op) PROVE Tame(k, k', {t}, {t})
    <2>1. CanRun(t) /\ pc[t] \in Calm BY <1>3 DEF Looping, Calm
    <2> QED BY <1>3, <2>1, ParkedTame
  <1>4. CASE StreamCall(t)
    <2>1. CASE xStreamBufferSend(t)
      <3>1. Readers(buffer.level + 1) \subseteq Waits({"sbreceive"}) BY DEF Readers
      <3>2. k' = k \/ k' = Parked(t) \/ k' = Wake(k, Readers(buffer.level + 1))
        BY <2>1 DEF xStreamBufferSend, Rouses, Blocks
      <3> QED BY <1>1, <1>2, <1>3, <2>1, <3>1, <3>2 DEF xStreamBufferSend
    <2>2. CASE xStreamBufferReceive(t) BY <2>2, ReceiveTame
    <2> QED
      BY <1>1, <1>4, <2>1, <2>2
      DEF StreamCall, xStreamBufferGenericCreate, FlagCreated, vStreamBufferDelete, CountReceive,
          xStreamBufferReset
  <1>5. CASE WireCall(t)
    <2>1. ASSUME NEW q, NEW who \in {{}} \cup OneOf(Getters(q)) \cup OneOf(Putters(q)), Rouses(who)
          PROVE  Tame(k, k', {t}, {t})
      <3>1. who \subseteq Waits({"get"}) \/ who \subseteq Waits({"put"}) BY OneOfIn, QueueWaits
      <3> QED BY <1>2, <2>1, <3>1 DEF Rouses
    <2>2. ASSUME NEW q, NEW op, Looping(t, op), OnOldWire(t, Getters(q)) \/ OnOldWire(t, Putters(q))
          PROVE  Tame(k, k', {t}, {t})
      <3>1. \/ k' = Parked(t)
            \/ \E who \in {{}} \cup OneOf(Getters(q)) \cup OneOf(Putters(q)) : Rouses(who)
        BY <2>2 DEF OnOldWire, Blocks
      <3> QED BY <1>3, <2>1, <2>2, <3>1
    <2>3. CASE xSerialPortInitMinimal(t) BY <1>1, <2>3 DEF xSerialPortInitMinimal
    <2>4. CASE xSerialPutChar(t) BY <1>1, <1>3, <2>1, <2>2, <2>4 DEF xSerialPutChar, Blocks
    <2>5. CASE xSerialGetChar(t) BY <1>1, <1>3, <2>1, <2>2, <2>5 DEF xSerialGetChar, Blocks
    <2>6. CASE vSerialPutString(t) BY <1>1, <2>1, <2>6 DEF vSerialPutString
    <2>7. CASE xQueueGenericReset(t) BY <2>1, <2>7 DEF xQueueGenericReset
    <2> QED BY <1>5, <2>3, <2>4, <2>5, <2>6, <2>7 DEF WireCall
  <1>6. CASE LockCall(t)
    <2>1. CASE xQueueGiveMutexRecursive(t)
      <3> DEFINE waiting == IF depth = 1 THEN Waits({"mtake"}) ELSE {}
      <3>1. k' = k \/ \E who \in OneOf(waiting) : k' = Wake(k, who)
        BY <2>1 DEF xQueueGiveMutexRecursive
      <3>2. \A who \in OneOf(waiting) : who \subseteq Waits({"mtake"}) BY OneOfIn
      <3> HIDE DEF waiting
      <3> QED BY <1>1, <1>2, <3>1, <3>2
    <2> QED
      BY <1>1, <1>3, <1>6, <2>1
      DEF LockCall, xQueueSemaphoreTake, xQueueTakeMutexRecursive, Blocks
  <1> QED BY <1>4, <1>5, <1>6 DEF BufferCall

(* Every step of the task on the CPU.                                      *)
LEMMA ActsTame ==
  ASSUME IInv, Fits(k), Arguments, NEW t \in Slots, Acts(t)
  PROVE  Tame(k, k', {t} \cup Ours, {t} \cup Born)
  <1>1. ASSUME Tame(k, k', {t}, {t}) PROVE Tame(k, k', {t} \cup Ours, {t} \cup Born)
    BY <1>1, TameMore
  <1>2. CASE Enter(t, Objects)
    <2>1. k' = k BY <1>2 DEF Enter
    <2> QED BY <2>1, TameNone, TameMore
  <1> QED BY <1>1, <1>2, TaskTame, NotifyTame, GroupTame, DaemonTame, BufferTame DEF Acts

(* A tick, and whom its interrupt half woke.                               *)
LEMMA TicksTame ==
  ASSUME IInv, Fits(k), Ticks
  PROVE  Tame(k, k', {}, {})
  <1>1. PICK who \in SUBSET Slots, woken \in BOOLEAN : Rousing(who, woken) BY DEF Ticks
  <1> DEFINE kk == increment_tick(k)
  <1>2. k' = WakeFromIsr(kk, who) /\ \A s \in who : Alive(k, s) BY <1>1 DEF Rousing, Tick
  <1>3. Tame(k, kk, {}, {}) /\ Wakes(k, kk) BY TickTame, TickWakes DEF Fits
  <1>4. Fits(kk) /\ \A s \in who : Alive(kk, s) BY <1>2, <1>3 DEF Tame, Wakes, KOrd, Alive
  <1> HIDE DEF kk
  <1>5. Tame(kk, k', {}, {}) BY <1>2, <1>4, IsrTame
  <1> QED BY <1>3, <1>5, TameTrans

-----------------------------------------------------------------------------
(* The daemon keeps to itself: it runs no function of the C's, so that no  *)
(* handle names it, and no call is about it.                               *)

(* Before the first task runs no slot has been given back.                 *)
FirstOnes == phase # "run" => \A s \in Slots : k.gen[s] = 1

Daemons == {"daemon", "slept"}
Apart ==
  /\ entry[Timer] = NoFunc /\ (mask => Fresh # Timer)
  /\ \A t \in Slots : pc[t] \in Daemons => t = Timer
  /\ phase \in {"arm", "sched", "run"} =>
       k.st[Timer] \in {"ready", "blocked"} /\ k.prio[Timer] = TIMER_TASK_PRIORITY
  /\ phase \in {"sched", "run"} => pc[Timer] \in Daemons

(* All that is added to the invariant about the kernel's tasks.            *)
Fitting == Fits(k) /\ FirstOnes /\ Apart

(* A task made in a slot that can still be given back.                     *)
LEMMA CreateFits ==
  ASSUME NEW kk, Fits(kk), NEW t \in Slots, kk.gen[t] <= MaxGen, NEW p \in Nat
  PROVE  Fits(create_task(kk, t, p))
  <1> DEFINE s == [kk.st EXCEPT ![t] = "ready"]
             q == [kk.prio EXCEPT ![t] = Clamp(p)]
             l == [kk.left EXCEPT ![t] = NoWait]
             b == create_task(kk, t, p)
  <1>1. kk \in KType BY DEF Fits
  <1>2. Clamp(p) \in Nat /\ Clamp(p) <= MaxPrio /\ NoWait \in Nat
    BY KernelAssumption DEF Clamp, NoWait
  <1>3. s \in [Slots -> States] /\ q \in [Slots -> Nat] /\ l \in [Slots -> Nat]
    BY <1>1, <1>2 DEF KType, States
  <1>4. /\ \A u \in Slots : u # t => s[u] = kk.st[u] /\ q[u] = kk.prio[u] /\ l[u] = kk.left[u]
        /\ q[t] = Clamp(p) /\ l[t] = NoWait
    BY <1>1 DEF KType
  <1>5. b = [kk EXCEPT !.st = s, !.prio = q, !.left = l] BY Zenon DEF create_task
  <1> HIDE DEF s, q, l, b
  <1>6. /\ b \in KType /\ b.st = s /\ b.gen = kk.gen /\ b.prio = q /\ b.left = l
        /\ b.since = kk.since /\ b.late = kk.late /\ b.missed = kk.missed /\ b.lock = kk.lock
    BY <1>1, <1>3, <1>5, Zenon DEF KType
  <1>7. NoWait <= NoWait BY <1>2
  <1>8. Fits(b) BY <1>1, <1>2, <1>4, <1>6, <1>7 DEF Fits, FitsOne
  <1> QED BY <1>8 DEF b

(* The daemon's priority is one of the kernel's.                           *)
LEMMA TimerClamp ==
  /\ TIMER_TASK_PRIORITY \in Nat /\ Clamp(TIMER_TASK_PRIORITY) = TIMER_TASK_PRIORITY
  /\ 1 <= MaxGen
  BY TasksAssumption, KernelAssumption DEF Clamp

(* Start-up.                                                               *)
LEMMA MainFits == ASSUME IInv, Fitting, main PROVE Fitting'
  <1>1. phase # "run" BY DEF main, CreateMonitor, ArmMonitor, StartDemo, start_scheduler,
                             ArmBoth, start_first_task, AllArmed
  <1>2. k \in KType /\ ~mask BY <1>1, Quiet
  <1>3. Fits(k) /\ Apart /\ \A s \in Slots : k.gen[s] = 1 BY <1>1 DEF Fitting, FirstOnes
  <1>4. program' = program
    BY DEF main, CreateMonitor, ArmMonitor, StartDemo, start_scheduler, ArmBoth, start_first_task
  <1>5. Idle' = Idle /\ Timer' = Timer BY <1>4 DEF Idle, Timer, Boot
  <1>6. /\ Idle \in Slots /\ Timer \in Slots /\ 0 \in Slots /\ Idle # Timer /\ 0 # Timer
        /\ \A t \in Slots : t < Idle \/ t = 0 =>
             t # Timer /\ Boot[t + 1][1] \in Functions /\ Boot[t + 1][2] \in Nat
    <2>1. program \in Programs BY DEF IInv, Shape
    <2>2. Idle \in Nat /\ Idle # 0
      BY <2>1, TasksAssumption DEF Idle, Boot
    <2>3. \A t \in Slots : t < Idle \/ t = 0 => t # Timer BY <2>2 DEF Timer, Slots
    <2> QED BY <2>1, <2>3, BootTyped
  <1>7. ASSUME NEW kk, Fits(kk), kk.gen = k.gen, NEW s \in Slots, NEW n \in Nat
        PROVE  Fits(create_task(kk, s, n)) /\ Made(kk, create_task(kk, s, n), s, n)
    <2>1. kk.gen[s] <= MaxGen BY <1>3, <1>7, TimerClamp
    <2>2. kk \in KType BY <1>7 DEF Fits
    <2> QED BY <1>7, <2>1, <2>2, CreateFits, CreateMakes
  <1>8. CASE CreateMonitor
    <2>1. /\ phase' = "armmon" /\ k' = create_task(k, 0, Boot[1][2])
          /\ UNCHANGED <<mask, pc, entry>>
      BY <1>8 DEF CreateMonitor
    <2>2. Boot[1][2] \in Nat BY <1>6
    <2>3. Fits(k') /\ k'.gen = k.gen BY <1>3, <1>6, <1>7, <2>1, <2>2 DEF Made
    <2>4. Apart' BY <1>2, <1>3, <1>5, <2>1 DEF Apart
    <2> QED BY <1>3, <2>3, <2>4 DEF Fitting, FirstOnes
  <1>9. CASE ArmMonitor
    <2>1. /\ phase' = "demos" /\ pc' = [pc EXCEPT ![0] = "c"]
          /\ entry' = [entry EXCEPT ![0] = Boot[1][1]] /\ UNCHANGED <<k, mask>>
      BY <1>9 DEF ArmMonitor
    <2>2. entry'[Timer] = NoFunc BY <1>3, <1>6, <2>1 DEF Apart, IInv, Shape
    <2>3. \A u \in Slots : pc'[u] \in Daemons => pc[u] \in Daemons
      BY <2>1 DEF IInv, Shape, Daemons
    <2>4. Apart' BY <1>2, <1>3, <1>5, <2>1, <2>2, <2>3 DEF Apart
    <2> QED BY <1>3, <2>1, <2>4 DEF Fitting, FirstOnes
  <1>10. CASE StartDemo
    <2>1. PICK s \in FreeSlots(k) :
            /\ s < Idle /\ k' = create_task(k, s, Boot[s + 1][2])
            /\ entry' = [entry EXCEPT ![s] = Boot[s + 1][1]] /\ pc' = [pc EXCEPT ![s] = "new"]
      BY <1>10 DEF StartDemo
    <2>2. phase = "demos" /\ phase' = "demos" /\ UNCHANGED mask BY <1>10 DEF StartDemo
    <2>3. s \in Slots BY DEF FreeSlots
    <2>4. s # Timer /\ Boot[s + 1][2] \in Nat BY <1>6, <2>1, <2>3
    <2>5. Fits(k') /\ k'.gen = k.gen BY <1>3, <1>7, <2>1, <2>3, <2>4 DEF Made
    <2>6. entry'[Timer] = NoFunc BY <1>3, <1>6, <2>1, <2>4 DEF Apart, IInv, Shape
    <2>7. \A u \in Slots : pc'[u] \in Daemons => pc[u] \in Daemons
      BY <2>1 DEF IInv, Shape, Daemons
    <2>8. Apart' BY <1>2, <1>3, <1>5, <2>2, <2>6, <2>7 DEF Apart
    <2> QED BY <1>3, <2>5, <2>8 DEF Fitting, FirstOnes
  <1>11. CASE start_scheduler
    <2> DEFINE k1 == create_task(k, Idle, 0)
               kk == create_task(k1, Timer, TIMER_TASK_PRIORITY)
    <2>1. phase' = "arm" /\ UNCHANGED <<mask, pc, entry>> BY <1>11 DEF start_scheduler
    <2>2. PICK t \in Best(kk) : k' = [kk EXCEPT !.cur = t] BY <1>11 DEF start_scheduler
    <2>3. Fits(k1) /\ Made(k, k1, Idle, 0) BY <1>3, <1>6, <1>7, 0 \in Nat
    <2> HIDE DEF k1
    <2>4. Fits(kk) /\ Made(k1, kk, Timer, TIMER_TASK_PRIORITY)
      <3>1. Fits(k1) /\ k1.gen = k.gen BY <2>3 DEF Made
      <3> QED BY <1>6, <1>7, <3>1, TimerClamp
    <2> HIDE DEF kk
    <2>5. /\ kk \in KType /\ kk.gen = k.gen /\ kk.st[Timer] = "ready"
          /\ kk.prio[Timer] = TIMER_TASK_PRIORITY
      BY <2>3, <2>4, TimerClamp DEF Made
    <2>6. t \in Slots BY DEF Best, Ready
    <2>7. /\ k' \in KType /\ k'.st = kk.st /\ k'.gen = kk.gen /\ k'.prio = kk.prio
          /\ k'.left = kk.left /\ k'.since = kk.since /\ k'.late = kk.late
          /\ k'.missed = kk.missed /\ k'.lock = kk.lock
      BY <2>2, <2>5, <2>6, Zenon DEF KType
    <2>8. Fits(k') BY <2>4, <2>7 DEF Fits, FitsOne
    <2>9. Apart' BY <1>2, <1>3, <1>5, <2>1, <2>5, <2>7 DEF Apart
    <2> QED BY <1>3, <2>5, <2>7, <2>8, <2>9 DEF Fitting, FirstOnes
  <1>12. CASE ArmBoth
    <2>1. /\ phase = "arm" /\ phase' = "sched" /\ UNCHANGED <<k, mask, entry>>
          /\ pc' = [pc EXCEPT ![Idle] = "idle", ![Timer] = "daemon"]
      BY <1>12 DEF ArmBoth
    <2>2. pc'[Timer] = "daemon" /\ \A u \in Slots : u # Timer => pc'[u] \notin Daemons
      BY <1>3, <1>6, <2>1 DEF Apart, IInv, Shape, Daemons
    <2>3. Apart' BY <1>2, <1>3, <1>5, <2>1, <2>2 DEF Apart, Daemons
    <2> QED BY <1>3, <2>1, <2>3 DEF Fitting, FirstOnes
  <1>13. CASE start_first_task
    <2>1. phase = "sched" /\ phase' = "run" /\ UNCHANGED <<k, mask, pc, entry>>
      BY <1>13 DEF start_first_task, AllArmed
    <2>2. Apart' BY <1>2, <1>3, <1>5, <2>1 DEF Apart
    <2> QED BY <1>3, <2>1, <2>2 DEF Fitting, FirstOnes
  <1> QED BY <1>8, <1>9, <1>10, <1>11, <1>12, <1>13 DEF main

(* From its passes through its queue the daemon makes no call, and nobody  *)
(* else gets there.                                                        *)
LEMMA DaemonOnly ==
  ASSUME NEW t \in Slots, Acts(t), pc[t] \in Daemons
  PROVE  Leave(t) \/ timer_daemon(t)
  <1>1. pc[t] \in {"daemon", "slept"} BY DEF Daemons
  <1>2. TaskCall(t) => Leave(t)
    BY <1>1
    DEF TaskCall, c_task_trampoline, xTaskCreate, ArmCreated, WriteHandle, Lookup,
        vTaskDelete, vTaskSuspend, vTaskResume, vTaskPrioritySet, xTaskAbortDelay, vTaskDelay,
        xTaskDelayUntil, vTaskSuspendAll, xTaskResumeAll, xTaskCatchUpTicks,
        vPortGenerateSimulatedInterrupt, idle, Calling, At
  <1>3. ~Enter(t, Objects)
    <2>1. Enter(t, Objects) => pc[t] = "c" BY Zenon DEF Enter, At
    <2> QED BY <1>1, <2>1
  <1>4. ~GroupCall(t)
    BY <1>1
    DEF GroupCall, xEventGroupCreate, vEventGroupDelete, xEventGroupSetBits,
        xEventGroupClearBits, xEventGroupWaitBits, xEventGroupSync, Calling, Looping, At
  <1>5. ~BufferCall(t)
    BY <1>1
    DEF BufferCall, StreamCall, WireCall, LockCall, xStreamBufferGenericCreate, FlagCreated,
        vStreamBufferDelete, xStreamBufferSend, xStreamBufferReceive, Attempt, CountReceive,
        xStreamBufferReset, xSerialPortInitMinimal, xSerialPutChar, xSerialGetChar,
        vSerialPutString, xQueueGenericReset, xQueueSemaphoreTake, xQueueTakeMutexRecursive,
        xQueueGiveMutexRecursive, Calling, Looping, At
  <1>6. ~NotifyCall(t)
    BY <1>1
    DEF NotifyCall, Query, xTaskGenericNotify, xTaskGenericNotifyWait, ulTaskGenericNotifyTake,
        xTaskGenericNotifyStateClear, ulTaskGenericNotifyValueClear, Calling, Looping, At
  <1> QED BY <1>2, <1>3, <1>4, <1>5, <1>6 DEF Acts

(* Where a step of a task other than the daemon leaves it.                 *)
LEMMA NobodyElse ==
  ASSUME IInv, NEW t \in Slots, Acts(t), pc[t] \notin Daemons
  PROVE  pc'[t] \notin Daemons
  <1>1. pc \in [Slots -> PCs] BY DEF IInv, Shape
  <1>2. \A at : pc' = [pc EXCEPT ![t] = at] => pc'[t] = at BY <1>1
  <1>3. \A at : Goto(t, at) => pc'[t] = at BY <1>1 DEF Goto
  <1>4. CASE TaskCall(t)
    <2>1. CASE xTaskCreate(t)
      <3>1. pc'[t] \in {"c", "arm"} BY <1>2, <1>3, <2>1 DEF xTaskCreate
      <3> QED BY <3>1 DEF Daemons
    <2>2. CASE ArmCreated(t)
      <3> DEFINE s == handle_from_c(call[t].p).slot
      <3>1. \/ pc' = [pc EXCEPT ![s] = "new", ![t] = "write"]
            \/ pc' = [pc EXCEPT ![t] = "c"]
        BY <2>2 DEF ArmCreated
      <3> HIDE DEF s
      <3>2. pc'[t] \in {"c", "write", "new"} BY <1>1, <3>1
      <3> QED BY <3>2 DEF Daemons
    <2>3. CASE xTaskCatchUpTicks(t)
      <3>1. pc'[t] \in {"ticks", "c", "yield"}
        BY <1>1, <2>3 DEF xTaskCatchUpTicks, Goto, Calling, At
      <3> QED BY <3>1 DEF Daemons
    <2>4. CASE Leave(t)
      <3>1. pc[t] \in {"blocked", "yield", "idled"} BY <2>4 DEF Leave, Daemons
      <3>2. AfterYield(pc[t]) \in {"loop", "c", "idle"} BY <3>1 DEF AfterYield
      <3>3. pc'[t] \in {"loop", "c", "idle"} BY <1>3, <2>4, <3>2 DEF Leave
      <3> QED BY <3>3 DEF Daemons
    <2>5. CASE vTaskDelete(t) \/ vTaskSuspend(t)
      <3>1. pc'[t] \in {"c", "yield"}
        BY <1>3, <2>5 DEF vTaskDelete, vTaskSuspend, LeaveCpu, LeavesByNull
      <3> QED BY <3>1 DEF Daemons
    <2>6. ASSUME ~xTaskCreate(t), ~ArmCreated(t), ~xTaskCatchUpTicks(t), ~Leave(t),
                 ~vTaskDelete(t), ~vTaskSuspend(t)
          PROVE  pc'[t] \in {"c", "yield", "parked", "idled"}
      BY <1>3, <1>4, <2>6
      DEF TaskCall, c_task_trampoline, vTaskResume, xTaskAbortDelay, xTaskResumeAll,
          YieldsIfAsked, WriteHandle, Lookup, vTaskPrioritySet, vTaskDelay, xTaskDelayUntil,
          vTaskSuspendAll, vPortGenerateSimulatedInterrupt, idle
    <2> QED BY <2>1, <2>2, <2>3, <2>4, <2>5, <2>6 DEF Daemons
  <1>5. CASE NotifyCall(t)
    <2>1. pc'[t] \in {"c", "yield", "blocked", "mid"}
      BY <1>3, <1>5
      DEF NotifyCall, Query, xTaskGenericNotify, xTaskGenericNotifyWait, ulTaskGenericNotifyTake,
          xTaskGenericNotifyStateClear, ulTaskGenericNotifyValueClear
    <2> QED BY <2>1 DEF Daemons
  <1>6. CASE GroupCall(t)
    <2>1. pc'[t] \in {"c", "yield", "blocked"}
      BY <1>3, <1>6
      DEF GroupCall, xEventGroupCreate, vEventGroupDelete, xEventGroupSetBits,
          xEventGroupClearBits, xEventGroupWaitBits, xEventGroupSync
    <2> QED BY <2>1 DEF Daemons
  <1>7. CASE timer_daemon(t) BY <1>7 DEF timer_daemon, At, Daemons
  <1>8. CASE BufferCall(t)
    <2>1. pc'[t] \in {"c", "yield", "blocked", "mid", "count"}
      BY <1>2, <1>3, <1>8
      DEF BufferCall, StreamCall, WireCall, LockCall, xStreamBufferGenericCreate, FlagCreated,
          vStreamBufferDelete, xStreamBufferSend, xStreamBufferReceive, Attempt, CountReceive,
          xStreamBufferReset, Blocks, xSerialPortInitMinimal, vSerialPutString, xSerialPutChar,
          xSerialGetChar, xQueueGenericReset, xQueueSemaphoreTake, xQueueTakeMutexRecursive,
          xQueueGiveMutexRecursive, LeavesOnGive, OnOldWire
    <2> QED BY <2>1 DEF Daemons
  <1>9. CASE Enter(t, Objects)
    <2>1. pc'[t] = "call" \/ pc'[t] = "parked" BY <1>9, Entering
    <2> QED BY <2>1 DEF Daemons
  <1> QED BY <1>4, <1>5, <1>6, <1>7, <1>8, <1>9 DEF Acts

(* What a task's step does besides: only the creation of a task touches    *)
(* another, the one that is made.                                          *)
Frame(t) ==
  /\ CanRun(t) /\ k.cur = t /\ phase = "run" /\ UNCHANGED <<phase, program>>
  /\ \A u \in Slots : ~(mask /\ u = Fresh) => /\ entry'[u] = entry[u]
                                              /\ u # t => pc'[u] = pc[u]
  /\ mask' => k.st[Fresh'] = "free"

(* Such is every ordinary step, and so are the others.                     *)
LEMMA ActsFrame ==
  ASSUME IInv, Faithful, NEW t \in Slots, Acts(t)
  PROVE  Frame(t)
  <1>1. CASE Ordinary(t)
    <2>1. CanRun(t) /\ OrdStep(t) BY <1>1 DEF Ordinary
    <2>2. UNCHANGED <<entry, program>> BY <2>1 DEF OrdStep
    <2> QED BY <1>1, <2>1, <2>2, OrdinaryMoves DEF Frame
  <1>2. CASE xTaskCreate(t)
    <2>1. CanRun(t) /\ pc[t] = "call" BY <1>2 DEF xTaskCreate, Calling, At
    <2>2. phase = "run" /\ k.cur = t /\ ~mask /\ k \in KType /\ IsCall(call[t])
      BY <2>1, InCall DEF InACall, Calm
    <2>3. CASE Goto(t, "c") /\ UNCHANGED <<k, owed, still>>
      <3>1. Ordinary(t) BY <2>1, <2>3, Staying DEF still, Calm
      <3> QED BY <1>1, <2>3, <3>1, OrdinaryMoves, <2>1, <2>2 DEF Frame, still
    <2>4. ASSUME NEW s \in FreeSlots(k), k' = create_task(k, s, call[t].n),
                 mask' = TRUE, pc' = [pc EXCEPT ![t] = "arm"],
                 call' = [call EXCEPT ![t].p = handle_to_c(s, k.gen[s])],
                 UNCHANGED <<entry, phase, program>>
          PROVE  Frame(t)
      <3>1. s \in Slots /\ k.st[s] = "free" BY DEF FreeSlots
      <3>2. call[t].n \in Nat /\ k.gen[s] \in Nat BY <2>2, <3>1 DEF IsCall, KType
      <3>3. k'.cur = k.cur
        <4>1. Made(k, k', s, call[t].n) BY <2>2, <2>4, <3>1, <3>2, CreateMakes
        <4> QED BY <4>1 DEF Made
      <3> DEFINE p == handle_to_c(s, k.gen[s])
      <3>4. call'[t].p = p
        <4>1. call'[t] = [call[t] EXCEPT !.p = p] BY <2>4 DEF IInv, Shape
        <4> HIDE DEF p
        <4> QED BY <2>2, <4>1 DEF IsCall
      <3>5. handle_from_c(p).slot = s BY <3>1, <3>2, Codec
      <3> HIDE DEF p
      <3>6. Fresh' = s BY <2>2, <3>3, <3>4, <3>5, Zenon DEF Fresh
      <3>7. \A u \in Slots : u # t => pc'[u] = pc[u] BY <2>4 DEF IInv, Shape
      <3> QED BY <2>1, <2>2, <2>4, <3>1, <3>6, <3>7 DEF Frame
    <2> QED BY <1>2, <2>3, <2>4, Zenon DEF xTaskCreate, Masked
  <1>3. CASE ArmCreated(t)
    <2> DEFINE s == handle_from_c(call[t].p).slot
    <2>1. CanRun(t) /\ pc[t] = "arm" /\ k.cur = t BY <1>3 DEF ArmCreated, At, CanRun
    <2>2. mask /\ s \in Slots /\ Fresh = s /\ phase = "run"
      BY <2>1 DEF IInv, Masking, Fresh, CanRun
    <2>3. /\ entry' = [entry EXCEPT ![s] = call[t].whom] /\ mask' = FALSE
          /\ \/ pc' = [pc EXCEPT ![s] = "new", ![t] = "write"]
             \/ pc' = [pc EXCEPT ![t] = "c"]
          /\ UNCHANGED <<phase, program>>
      BY <1>3 DEF ArmCreated, StoreEntry
    <2> HIDE DEF s
    <2> QED BY <2>1, <2>2, <2>3 DEF Frame, IInv, Shape
  <1>4. CASE vTaskDelete(t)
    <2>1. CanRun(t) /\ pc[t] = "call" BY <1>4 DEF vTaskDelete, Calling, At
    <2>2. phase = "run" /\ ~mask /\ k.cur = t BY <2>1, InCall DEF InACall, Calm
    <2>3. UNCHANGED <<mask, entry, phase, program>> /\ \E at : pc' = [pc EXCEPT ![t] = at]
      BY <1>4 DEF vTaskDelete, still, Goto
    <2> QED BY <2>1, <2>2, <2>3 DEF Frame, IInv, Shape
  <1>5. CASE idle(t)
    <2>1. CanRun(t) /\ pc[t] = "idle" BY <1>5 DEF idle, At
    <2>2. phase = "run" /\ ~mask /\ k.cur = t BY <2>1, Running
    <2>3. UNCHANGED <<mask, entry, phase, program>> /\ \E at : pc' = [pc EXCEPT ![t] = at]
      BY <1>5 DEF idle, still, Goto
    <2> QED BY <2>1, <2>2, <2>3 DEF Frame, IInv, Shape
  <1>6. CASE TaskCall(t)
    BY <1>1, <1>2, <1>3, <1>4, <1>5, <1>6, TrampolineOrdinary, LeaveOrdinary,
       WriteHandleOrdinary, LookupOrdinary, SuspendOrdinary, ResumeOrdinary, PriorityOrdinary,
       AbortOrdinary, DelayOrdinary, SuspendAllOrdinary, ResumeAllOrdinary, CatchUpOrdinary,
       YieldOrdinary
    DEF TaskCall
  <1> QED
    BY <1>1, <1>6, NotifyCallOrdinary, GroupCallOrdinary, DaemonOrdinary, BufferCallOrdinary,
       EnterOrdinary
    DEF Acts

(* A pass of the daemon.                                                   *)
LEMMA DaemonStays ==
  ASSUME IInv, Fits(k), NEW t \in Slots, timer_daemon(t)
  PROVE  /\ pc'[t] \in Daemons
         /\ k.st[t] \in {"ready", "blocked"} =>
              k'.st[t] \in {"ready", "blocked"} /\ k'.prio[t] = k.prio[t]
  <1>1. k \in KType /\ pc \in [Slots -> PCs] BY DEF Fits, IInv, Shape
  <1>2. pc[t] = "daemon" BY DEF timer_daemon, At
  <1>3. CASE cmds # <<>>
    <2>1. pc' = pc /\ pended(Head(cmds)) BY <1>3 DEF timer_daemon
    <2>2. k' = k \/ k' = Wake(k, Released(Head(cmds).bits)) BY <2>1 DEF pended
    <2>3. Tame(k, k', {}, {}) BY <2>2, ReleasedAlive, TameNone, WakeTame
    <2> QED BY <1>2, <2>1, <2>3 DEF Tame, Spare, Daemons
  <1>4. CASE cmds = <<>>
    <2>1. k' = Block(k, t, Forever) /\ Goto(t, "slept") BY <1>4 DEF timer_daemon
    <2>2. pc'[t] = "slept" BY <1>1, <2>1 DEF Goto
    <2> DEFINE s == [k.st EXCEPT ![t] = "blocked"]
               l == [k.left EXCEPT ![t] = IF Forever > MaxWait THEN Forever ELSE Forever]
    <2>3. k' = [k EXCEPT !.st = s, !.left = l] BY <2>1, Zenon DEF Block
    <2>4. s[t] = "blocked" BY <1>1 DEF KType
    <2> HIDE DEF s, l
    <2>5. k'.st = s /\ k'.prio = k.prio BY <1>1, <2>3 DEF KType
    <2> QED BY <2>2, <2>4, <2>5 DEF Daemons
  <1> QED BY <1>3, <1>4

(* Every step of the tasks.                                                *)
LEMMA ActsFit ==
  ASSUME IInv, Faithful, Arguments, Fitting, NEW t \in Slots, Acts(t)
  PROVE  Fitting'
  <1>1. Frame(t) /\ Others(t) BY ActsFrame, ActsMove
  <1>2. Fits(k) /\ Apart BY DEF Fitting
  <1>3. Tame(k, k', {t} \cup Ours, {t} \cup Born) BY <1>2, ActsTame
  <1>4. Fits(k') BY <1>3 DEF Tame
  <1>5. FirstOnes' BY <1>1 DEF Frame, FirstOnes
  <1>6. Timer \in Slots /\ Timer' = Timer
    <2>1. Timer' = Timer BY <1>1 DEF Frame, Timer, Idle, Boot
    <2> QED BY <2>1, BootTyped DEF IInv, Shape
  <1>7. phase = "run" /\ phase' = "run" BY <1>1 DEF Frame
  <1>8. ~(mask /\ Timer = Fresh) /\ k.st[Timer] \in {"ready", "blocked"}
    BY <1>2, <1>7 DEF Apart
  <1>9. entry'[Timer] = NoFunc BY <1>1, <1>2, <1>6, <1>8 DEF Frame, Apart
  <1>10. mask' => Fresh' # Timer BY <1>1, <1>8 DEF Frame
  <1>11. pc[Timer] \in Daemons /\ k.prio[Timer] = TIMER_TASK_PRIORITY BY <1>2, <1>7 DEF Apart
  <1>12. /\ pc'[Timer] \in Daemons
         /\ k'.st[Timer] \in {"ready", "blocked"} /\ k'.prio[Timer] = k.prio[Timer]
    <2>1. CASE t # Timer
      <3>1. pc'[Timer] = pc[Timer] BY <1>1, <1>6, <1>8, <2>1 DEF Frame
      <3>2. Timer \notin Ours BY <1>2, TasksAssumption DEF Apart, Ours
      <3>3. Spare(k, k', Timer) BY <1>3, <1>6, <2>1, <3>2 DEF Tame
      <3> QED BY <1>8, <1>11, <3>1, <3>3 DEF Spare
    <2>2. CASE t = Timer
      <3>1. CASE timer_daemon(t) BY <1>2, <1>8, <2>2, <3>1, DaemonStays
      <3>2. CASE Leave(t)
        <4>1. k' = k BY <3>2 DEF Leave
        <4>2. pc[t] = "slept" BY <1>11, <2>2, <3>2 DEF Leave, Daemons
        <4>3. Goto(t, "daemon") BY <3>2, <4>2 DEF Leave, IsAPoll, AfterYield
        <4>4. pc'[t] = "daemon" BY <4>3 DEF Goto, IInv, Shape
        <4> QED BY <1>8, <2>2, <4>1, <4>4 DEF Daemons
      <3> QED BY <1>11, <2>2, <3>1, <3>2, DaemonOnly
    <2> QED BY <2>1, <2>2
  <1>13. ASSUME NEW u \in Slots, pc'[u] \in Daemons PROVE u = Timer
    <2>1. CASE u # t
      <3>1. pc'[u] = pc[u] BY <1>1, <1>13, <2>1 DEF Others, Daemons
      <3> QED BY <1>2, <1>13, <3>1 DEF Apart
    <2>2. CASE u = t
      <3>1. pc[t] \in Daemons BY <1>13, <2>2, NobodyElse
      <3> QED BY <1>2, <2>2, <3>1 DEF Apart
    <2> QED BY <2>1, <2>2
  <1>14. Apart' BY <1>6, <1>9, <1>10, <1>11, <1>12, <1>13 DEF Apart
  <1> QED BY <1>4, <1>5, <1>14 DEF Fitting

(* The tick and the switch.                                                *)
LEMMA TimeFits == ASSUME IInv, Fitting, Ticks \/ pick_next PROVE Fitting'
  <1>1. Fits(k) /\ Apart /\ phase = "run" BY TicksFrame DEF Fitting, pick_next
  <1>2. UNCHANGED <<mask, pc, call, entry, program>> BY TicksFrame DEF pick_next
  <1>3. Tame(k, k', {}, {}) BY <1>1, TicksTame, SwitchTame DEF pick_next
  <1>4. phase' = "run"
    <2>1. CASE Ticks BY <2>1, TicksFrame
    <2>2. CASE pick_next
      <3>1. IInv' BY <2>2, SwitchKeeps
      <3> QED BY <2>2, <3>1 DEF pick_next, IInv, Shape, Phases
    <2> QED BY <2>1, <2>2
  <1>5. ~mask BY TicksFrame DEF pick_next
  <1>6. Timer' = Timer /\ Timer \in Slots
    <2>1. Timer' = Timer BY <1>2 DEF Timer, Idle, Boot
    <2> QED BY <2>1, BootTyped DEF IInv, Shape
  <1>7. Spare(k, k', Timer) BY <1>3, <1>6 DEF Tame
  <1>8. Apart' BY <1>1, <1>2, <1>4, <1>5, <1>6, <1>7 DEF Apart, Spare
  <1> QED BY <1>3, <1>4, <1>8 DEF Fitting, FirstOnes, Tame

(* Every step.                                                             *)
LEMMA FittingKept == IInv /\ Faithful /\ Arguments /\ Fitting /\ [Next]_vars => Fitting'
  <1> SUFFICES ASSUME IInv, Faithful, Arguments, Fitting, [Next]_vars PROVE Fitting' OBVIOUS
  <1>1. CASE main BY <1>1, MainFits
  <1>2. CASE Ticks \/ pick_next BY <1>2, TimeFits
  <1>3. CASE Tasks \/ Notifies \/ Groups \/ Buffers
    BY <1>3, ActsFit DEF Tasks, Notifies, Groups, Buffers, Acts
  <1>4. CASE SysTick({}) \/ NotifyIsr \/ GroupIsr \/ BuffersIsr BY <1>2, <1>4, HalvesTick
  <1>5. CASE UNCHANGED vars
    <2>1. UNCHANGED <<k, mask, pc, call, entry, phase, program>> BY <1>5 DEF vars, taskVars
    <2> QED BY <2>1 DEF Fitting, FirstOnes, Apart, Fresh, Timer, Idle, Boot
  <1> QED BY <1>1, <1>2, <1>3, <1>4, <1>5 DEF Next

(* The kernel's tasks stay within their bounds, and the daemon to itself.  *)
THEOREM AlwaysFitting == Spec => []Fitting
  <1>1. Init => Fitting
    <2> SUFFICES ASSUME TaskInit PROVE Fitting BY DEF Init
    <2>1. /\ \A t \in Slots : /\ k.st[t] = "free" /\ k.gen[t] = 1 /\ k.prio[t] = 0
                              /\ k.left[t] = NoWait /\ k.since[t] = NoWait
                              /\ pc[t] = "off" /\ entry[t] = NoFunc
          /\ k.missed = 0 /\ k.late = {} /\ ~mask /\ phase = "mon" /\ program \in Programs
      BY DEF TaskInit
    <2>2. k \in KType
      <3>1. 0 \in Slots /\ NoWait \in Nat BY KernelAssumption DEF Slots, NoWait
      <3> DEFINE s == [t \in Slots |-> "free"]
                 g == [t \in Slots |-> 1]
                 z == [t \in Slots |-> 0]
                 w == [t \in Slots |-> NoWait]
      <3>2. /\ s \in [Slots -> States] /\ g \in [Slots -> Nat \ {0}]
            /\ z \in [Slots -> Nat] /\ w \in [Slots -> Nat]
        BY <3>1 DEF States
      <3>3. k = [st |-> s, gen |-> g, prio |-> z, left |-> w, since |-> w, cur |-> 0,
                 lock |-> FALSE, late |-> {}, missed |-> 0, declined |-> FALSE]
        BY DEF TaskInit
      <3> HIDE DEF s, g, z, w
      <3>4. 0 \in Nat /\ {} \in SUBSET Slots OBVIOUS
      <3> QED BY <3>1, <3>2, <3>3, <3>4, Zenon DEF KType
    <2>3. Fits(k)
      <3>1. 1 <= MaxGen + 1 /\ 0 <= MaxPrio /\ NoWait <= NoWait /\ 0 <= MaxMissed
        BY KernelAssumption DEF NoWait
      <3> QED BY <2>1, <2>2, <3>1 DEF Fits, FitsOne
    <2>4. Apart
      <3>1. Timer \in Slots BY <2>1, BootTyped
      <3> QED BY <2>1, <3>1 DEF Apart, Daemons
    <2> QED BY <2>1, <2>3, <2>4 DEF Fitting, FirstOnes
  <1> QED BY <1>1, FittingKept, Invariant, HandlesFaithful, ArgumentsNameTheirTasks, PTL DEF Spec

-----------------------------------------------------------------------------
(* The calls the tasks are in.                                             *)

(* In a try of a call, or between two of its kernel calls.                 *)
Sending == {"call", "blocked", "loop", "mid"}

(* A call is the C's, its bits are some of the group's, and no more of a   *)
(* string has gone than there is of it.                                    *)
Good(c, at) ==
  /\ at \in Busy => c \in Calls
  /\ at \in Sending => /\ c.op \in BitOps => c.x \in DOMAIN BitsOf
                       /\ c.op = "putstring" => c.p < StrLen
CallsTyped ==
  /\ call \in [Slots -> Calls \cup {NoCall}]
  /\ \A t \in Slots : Good(call[t], pc[t])

(* A thread that goes on within its call keeps it.                         *)
LEMMA GotoTyped ==
  ASSUME Shape, CallsTyped, NEW t \in Slots, NEW at, Goto(t, at),
         at \in Busy => pc[t] \in Busy, at \in Sending => pc[t] \in Sending
  PROVE  CallsTyped'
  <1>1. pc'[t] = at /\ \A u \in Slots : u # t => pc'[u] = pc[u] BY DEF Goto, Shape
  <1>2. CASE at = "c"
    <2>1. call' = [call EXCEPT ![t] = NoCall] BY <1>2 DEF Goto
    <2>2. at \notin Busy /\ at \notin Sending BY <1>2 DEF Busy, Working, Sending
    <2>3. call' \in [Slots -> Calls \cup {NoCall}] /\ \A u \in Slots : u # t => call'[u] = call[u]
      BY <2>1 DEF CallsTyped
    <2> QED BY <1>1, <2>2, <2>3 DEF CallsTyped, Good
  <1>3. CASE at # "c"
    <2>1. call' = call BY <1>3 DEF Goto
    <2> QED BY <1>1, <2>1 DEF CallsTyped, Good
  <1> QED BY <1>2, <1>3

(* One that changes it has a call of the C's again.                        *)
LEMMA SetTyped ==
  ASSUME Shape, CallsTyped, NEW t \in Slots, NEW c \in Calls, NEW at, Good(c, at),
         pc' = [pc EXCEPT ![t] = at], call' = [call EXCEPT ![t] = c]
  PROVE  CallsTyped'
  <1>1. pc'[t] = at /\ \A u \in Slots : u # t => pc'[u] = pc[u] BY DEF Shape
  <1>2. /\ call' \in [Slots -> Calls \cup {NoCall}]
        /\ call'[t] = c /\ \A u \in Slots : u # t => call'[u] = call[u]
    BY DEF CallsTyped
  <1> QED BY <1>1, <1>2 DEF CallsTyped

(* A handle is a number.                                                   *)
LEMMA HandleNat ==
  ASSUME NEW t \in Slots, NEW g \in Nat PROVE handle_to_c(t, g) \in Nat \ {0}
  <1>1. TASKS \in Nat \ {0} /\ t \in Nat BY KernelAssumption DEF Slots
  <1>2. g * TASKS \in Nat BY <1>1
  <1>3. t # None BY <1>1 DEF None, Slots
  <1> QED BY <1>1, <1>2, <1>3 DEF handle_to_c

(* The C asks for something.                                               *)
LEMMA EnterTyped ==
  ASSUME IInv, CallsTyped, handle \in [Functions -> Nat], made \in Nat, xStreamBuffer \in Nat,
         PORT \in Nat, NEW t \in Slots, Enter(t, Objects)
  PROVE  CallsTyped'
  <1>1. CanRun(t) /\ pc[t] = "c" BY DEF Enter, At
  <1>2. entry[t] \in Functions BY <1>1 DEF IInv, CallsKept, Working
  <1> DEFINE Num(c) == IF c.x = "above" THEN uxTaskPriorityGet(t, NULL) + 1 ELSE c.n
             Obj(c) == IF c.whom # "self" THEN handle[c.whom]
                       ELSE IF c.op \in DOMAIN Objects THEN Objects[c.op] ELSE NULL
  <1>3. PICK c \in Code[entry[t]] :
          /\ call' = [call EXCEPT ![t] = [c EXCEPT !.p = Obj(c), !.n = Num(c)]]
          /\ pc' = [pc EXCEPT ![t] = IF c.op = "return" THEN "parked" ELSE "call"]
    BY Zenon DEF Enter
  <1>4. c \in Calls /\ (c.op \in BitOps => c.x \in DOMAIN BitsOf)
        /\ (c.op \notin NamingOps => c.whom = "self")
    <2>1. c \in Calls BY <1>2, TasksAssumption
    <2>2. c.op \in BitOps => c.x \in DOMAIN BitsOf BY <1>2, GroupsAssumption
    <2>3. c.op \notin NamingOps => c.whom = "self" BY <1>2, TasksAssumption
    <2> QED BY <2>1, <2>2, <2>3
  <1>5. Num(c) \in Nat
    <2>1. Named(t, NULL) = {t} BY DEF Named
    <2>2. k.prio[t] \in Nat BY DEF IInv, Shape, KType
    <2>3. uxTaskPriorityGet(t, NULL) \in Nat BY <2>1, <2>2 DEF uxTaskPriorityGet
    <2> QED BY <1>4, <2>3 DEF Calls
  <1>6. Obj(c) \in Nat
    <2>1. CASE c.whom # "self" BY <1>4, <2>1 DEF Calls
    <2>2. CASE c.whom = "self" BY <2>2 DEF Objects, NULL
    <2> QED BY <2>1, <2>2
  <1>7. c.op = "putstring" => Obj(c) = 0
    BY <1>4 DEF NamingOps, Objects, GroupOps, StreamOps, WireOps, NULL
  <1> DEFINE n == Num(c)
             p == Obj(c)
             d == [c EXCEPT !.p = p, !.n = n]
             at == IF c.op = "return" THEN "parked" ELSE "call"
  <1>8. n \in Nat /\ p \in Nat /\ (c.op = "putstring" => p = 0) BY <1>5, <1>6, <1>7
  <1>9. call' = [call EXCEPT ![t] = d] /\ pc' = [pc EXCEPT ![t] = at] BY <1>3
  <1> HIDE DEF Num, Obj
  <1> HIDE DEF n, p
  <1>10. d \in Calls /\ d.op = c.op /\ d.x = c.x /\ d.p = p BY <1>4, <1>8 DEF Calls
  <1> HIDE DEF d
  <1>11. Good(d, at)
    <2>1. at = "call" \/ (at \notin Busy /\ at \notin Sending)
      BY DEF Busy, Working, Sending
    <2>2. StrLen \in Nat \ {0} BY BuffersAssumption
    <2> HIDE DEF at
    <2> QED BY <1>4, <1>8, <1>10, <2>1, <2>2 DEF Good
  <1> HIDE DEF at
  <1> QED BY <1>9, <1>10, <1>11, SetTyped DEF IInv

(* Every step of the tasks.                                                *)
LEMMA ActsCallsTyped ==
  ASSUME IInv, CallsTyped, handle \in [Functions -> Nat], made \in Nat, xStreamBuffer \in Nat,
         PORT \in Nat, NEW t \in Slots, Acts(t)
  PROVE  CallsTyped'
  <1> USE DEF Busy, Working, Sending
  <1>1. Shape /\ pc[t] \in PCs BY DEF IInv, Shape
  <1>2. ASSUME NEW at \in {"c", "parked", "idled", "idle", "daemon", "slept"}, Goto(t, at)
        PROVE  CallsTyped'
    BY <1>1, <1>2, GotoTyped
  <1>3. ASSUME NEW at \in {"yield", "write", "ticks", "count"}, Goto(t, at), pc[t] \in Busy
        PROVE  CallsTyped'
    BY <1>1, <1>3, GotoTyped
  <1>4. ASSUME NEW at \in {"blocked", "loop", "mid"}, Goto(t, at), pc[t] \in Sending
        PROVE  CallsTyped'
    BY <1>1, <1>4, GotoTyped
  <1>5. pc[t] \in Busy => call[t] \in Calls BY DEF CallsTyped, Good
  <1>6. CASE TaskCall(t)
    <2>1. CASE c_task_trampoline(t)
      <3>1. Goto(t, "parked") \/ Goto(t, "c") BY <2>1 DEF c_task_trampoline
      <3> QED BY <1>2, <3>1
    <2>2. CASE Leave(t)
      <3>1. CASE IsAPoll(t) BY <1>2, <2>2, <3>1 DEF Leave
      <3>2. CASE ~IsAPoll(t)
        <4>1. Goto(t, AfterYield(pc[t])) /\ pc[t] \in {"blocked", "yield", "idled", "slept"}
          BY <2>2, <3>2 DEF Leave
        <4>2. (pc[t] = "blocked" /\ AfterYield(pc[t]) = "loop")
              \/ AfterYield(pc[t]) \in {"c", "idle", "daemon"}
          BY <4>1 DEF AfterYield
        <4> QED BY <1>2, <1>4, <4>1, <4>2
      <3> QED BY <3>1, <3>2
    <2>3. CASE xTaskCreate(t)
      <3>1. pc[t] = "call" /\ call[t].op = "create" BY <2>3 DEF xTaskCreate, Calling, At
      <3>2. CASE Goto(t, "c") BY <1>2, <3>2
      <3>3. ASSUME NEW s \in FreeSlots(k), pc' = [pc EXCEPT ![t] = "arm"],
                   call' = [call EXCEPT ![t].p = handle_to_c(s, k.gen[s])]
            PROVE  CallsTyped'
        <4>1. s \in Slots /\ k.gen[s] \in Nat BY DEF FreeSlots, IInv, Shape, KType
        <4> DEFINE p == handle_to_c(s, k.gen[s])
                   d == [call[t] EXCEPT !.p = p]
        <4>2. p \in Nat BY <4>1, HandleNat
        <4>3. call' = [call EXCEPT ![t] = d] BY <3>3
        <4> HIDE DEF p
        <4>4. d \in Calls
          <5>1. call[t] \in Calls BY <1>5, <3>1
          <5> QED BY <4>2, <5>1 DEF Calls
        <4> HIDE DEF d
        <4>5. Good(d, "arm") BY <4>4 DEF Good
        <4> QED BY <1>1, <3>3, <4>3, <4>4, <4>5, SetTyped
      <3> QED BY <2>3, <3>2, <3>3, Zenon DEF xTaskCreate
    <2>4. CASE ArmCreated(t)
      <3> DEFINE s == handle_from_c(call[t].p).slot
      <3>1. /\ pc[t] = "arm" /\ call' = call
            /\ \/ pc' = [pc EXCEPT ![s] = "new", ![t] = "write"]
               \/ pc' = [pc EXCEPT ![t] = "c"]
        BY <2>4 DEF ArmCreated, At
      <3> HIDE DEF s
      <3>2. \A u \in Slots : pc'[u] \in {"new", "write", "c"} \/ pc'[u] = pc[u]
        BY <3>1 DEF IInv, Shape
      <3>3. pc \in [Slots -> PCs] BY DEF IInv, Shape
      <3>4. \A u \in Slots : u # t => pc'[u] \in {"new", "c"} \/ pc'[u] = pc[u]
        BY <3>1, <3>3
      <3>5. \A u \in Slots : Good(call[u], pc[u]) BY DEF CallsTyped
      <3>6. \A u \in Slots : Good(call[u], pc'[u]) BY <1>5, <3>1, <3>2, <3>4, <3>5 DEF Good
      <3> QED BY <3>1, <3>6 DEF CallsTyped
    <2>5. CASE xTaskCatchUpTicks(t)
      <3>1. CASE Calling(t, "catchup") /\ pc' = [pc EXCEPT ![t] = "ticks"] /\ call' = call
        <4>1. Goto(t, "ticks") /\ pc[t] = "call" BY <3>1 DEF Goto, Calling, At
        <4> QED BY <1>3, <4>1
      <3>2. CASE /\ At(t, "ticks") /\ call[t].n > 0 /\ pc' = pc
                 /\ call' = [call EXCEPT ![t].n = @ - 1, ![t].p = Woken(t)]
        <4>1. pc[t] = "ticks" /\ Woken(t) \in Nat BY <3>2 DEF At, Woken
        <4> DEFINE p == Woken(t)
                   d == [call[t] EXCEPT !.n = call[t].n - 1, !.p = p]
        <4>2. call' = [call EXCEPT ![t] = d]
          <5>1. call'[t] = [call[t] EXCEPT !.n = call[t].n - 1, !.p = p] BY <1>1, <3>2 DEF Shape
          <5>2. call' = [call EXCEPT ![t] = call'[t]] BY <1>1, <3>2 DEF Shape
          <5> QED BY <5>1, <5>2
        <4> HIDE DEF p
        <4>3. p \in Nat BY <4>1 DEF p
        <4>4. d \in Calls
          <5> DEFINE n == call[t].n - 1
          <5>1. call[t] \in Calls BY <1>5, <4>1
          <5>2. n \in Nat BY <3>2, <5>1 DEF Calls
          <5> HIDE DEF n
          <5>3. [call[t] EXCEPT !.n = n, !.p = p] \in Calls BY <4>3, <5>1, <5>2 DEF Calls
          <5> QED BY <5>3 DEF n
        <4> HIDE DEF d
        <4>5. Good(d, "ticks") BY <4>4 DEF Good
        <4>6. pc' = [pc EXCEPT ![t] = "ticks"] BY <3>2, <4>1 DEF IInv, Shape
        <4> QED BY <1>1, <4>2, <4>4, <4>5, <4>6, SetTyped
      <3>3. CASE At(t, "ticks") /\ (Goto(t, "yield") \/ Goto(t, "c"))
        BY <1>2, <1>3, <3>3 DEF At
      <3> QED BY <2>5, <3>1, <3>2, <3>3 DEF xTaskCatchUpTicks
    <2>6. CASE vTaskDelete(t) \/ vTaskSuspend(t)
      <3>1. pc[t] = "call" /\ (Goto(t, "c") \/ Goto(t, "yield"))
        BY <2>6 DEF vTaskDelete, vTaskSuspend, LeaveCpu, LeavesByNull, Calling, At
      <3> QED BY <1>2, <1>3, <3>1
    <2>7. CASE WriteHandle(t) \/ Lookup(t) \/ idle(t)
      BY <1>2, <2>7 DEF WriteHandle, Lookup, idle
    <2>8. ASSUME vTaskResume(t) \/ vTaskPrioritySet(t) \/ xTaskAbortDelay(t) \/ vTaskDelay(t)
                 \/ xTaskDelayUntil(t) \/ vTaskSuspendAll(t) \/ xTaskResumeAll(t)
                 \/ vPortGenerateSimulatedInterrupt(t)
          PROVE  CallsTyped'
      <3>1. pc[t] = "call" /\ (Goto(t, "c") \/ Goto(t, "yield"))
        BY <2>8
        DEF vTaskResume, vTaskPrioritySet, xTaskAbortDelay, vTaskDelay, xTaskDelayUntil,
            vTaskSuspendAll, xTaskResumeAll, YieldsIfAsked, vPortGenerateSimulatedInterrupt,
            Calling, At
      <3> QED BY <1>2, <1>3, <3>1
    <2> QED BY <1>6, <2>1, <2>2, <2>3, <2>4, <2>5, <2>6, <2>7, <2>8 DEF TaskCall
  <1>7. CASE NotifyCall(t)
    <2>1. /\ pc[t] \in {"call", "loop", "mid"}
          /\ \E at \in {"c", "yield", "blocked", "mid"} : Goto(t, at)
      BY <1>7
      DEF NotifyCall, Query, xTaskGenericNotify, xTaskGenericNotifyWait, ulTaskGenericNotifyTake,
          xTaskGenericNotifyStateClear, ulTaskGenericNotifyValueClear, Calling, Looping, At
    <2> QED BY <1>2, <1>3, <1>4, <2>1
  <1>8. CASE GroupCall(t)
    <2>1. /\ pc[t] \in {"call", "loop"}
          /\ \E at \in {"c", "yield", "blocked"} : Goto(t, at)
      BY <1>8, Zenon
      DEF GroupCall, xEventGroupCreate, vEventGroupDelete, xEventGroupSetBits,
          xEventGroupClearBits, xEventGroupWaitBits, xEventGroupSync, Calling, Looping, At
    <2> QED BY <1>2, <1>3, <1>4, <2>1
  <1>9. CASE timer_daemon(t)
    <2>1. CASE UNCHANGED <<pc, call>> BY <2>1 DEF CallsTyped
    <2>2. CASE Goto(t, "slept") BY <1>2, <2>2
    <2> QED BY <1>9, <2>1, <2>2 DEF timer_daemon
  <1>10. CASE Enter(t, Objects) BY <1>10, EnterTyped
  <1>11. CASE BufferCall(t)
    <2>1. CASE xStreamBufferReceive(t)
      <3> DEFINE kk == IF pc[t] = "call" THEN SampledNow(t) ELSE k
      <3>1. Attempt(t, kk) BY <2>1 DEF xStreamBufferReceive
      <3>2. kk.since[t] \in Nat
        <4>1. k \in KType BY DEF IInv, Shape
        <4>2. SampledNow(t).since[t] \in Nat BY <4>1 DEF SampledNow, KType
        <4> QED BY <4>1, <4>2 DEF KType
      <3> HIDE DEF kk
      <3>3. pc[t] \in {"call", "loop"} BY <3>1 DEF Attempt, Looping
      <3> DEFINE p == kk.since[t]
                 d == [call[t] EXCEPT !.p = p]
      <3>4. CASE pc' = [pc EXCEPT ![t] = "count"] /\ call' = [call EXCEPT ![t] = d]
        <4> HIDE DEF p
        <4>1. d \in Calls
          <5>1. call[t] \in Calls /\ p \in Nat BY <1>5, <3>2, <3>3 DEF p
          <5> QED BY <5>1 DEF Calls
        <4> HIDE DEF d
        <4>2. Good(d, "count") BY <4>1 DEF Good
        <4> QED BY <1>1, <3>4, <4>1, <4>2, SetTyped
      <3>5. CASE pc' = [pc EXCEPT ![t] = "c"] /\ call' = [call EXCEPT ![t] = NoCall]
        <4>1. Goto(t, "c") BY <3>5 DEF Goto
        <4> QED BY <1>2, <4>1
      <3>6. CASE Goto(t, "blocked") \/ Goto(t, "c") BY <1>2, <1>4, <3>3, <3>6
      <3>7. \/ pc' = [pc EXCEPT ![t] = "count"] /\ call' = [call EXCEPT ![t] = d]
            \/ pc' = [pc EXCEPT ![t] = "c"] /\ call' = [call EXCEPT ![t] = NoCall]
            \/ Goto(t, "blocked") \/ Goto(t, "c")
        BY <3>1, Zenon DEF Attempt
      <3> QED BY <3>4, <3>5, <3>6, <3>7
    <2>2. CASE vSerialPutString(t)
      <3>1. pc[t] \in Sending /\ call[t].op = "putstring"
        BY <2>2 DEF vSerialPutString, Looping, At
      <3>2. CASE Goto(t, "c") BY <1>2, <3>2
      <3>3. CASE /\ ~DropsTheRest(t) /\ pc' = [pc EXCEPT ![t] = "mid"]
                 /\ call' = [call EXCEPT ![t].p = @ + 1]
        <4> DEFINE p == call[t].p + 1
                   d == [call[t] EXCEPT !.p = p]
        <4>1. call[t] \in Calls /\ call[t].p \in Nat /\ call[t].p < StrLen
          BY <1>5, <3>1 DEF CallsTyped, Good, Calls
        <4>2. p \in Nat /\ p < StrLen
          <5>1. call[t].p + 1 # StrLen BY <3>3 DEF DropsTheRest
          <5>2. StrLen \in Nat BY BuffersAssumption
          <5> QED BY <4>1, <5>1, <5>2
        <4>3. call' = [call EXCEPT ![t] = d] BY <3>3
        <4> HIDE DEF p
        <4>4. d \in Calls /\ d.op = "putstring" /\ d.p = p
          BY <3>1, <4>1, <4>2 DEF Calls
        <4> HIDE DEF d
        <4>5. Good(d, "mid") BY <4>2, <4>4 DEF Good, BitOps
        <4> QED BY <1>1, <3>3, <4>3, <4>4, <4>5, SetTyped
      <3> QED BY <2>2, <3>2, <3>3 DEF vSerialPutString
    <2>3. CASE FlagCreated(t) \/ CountReceive(t)
      BY <1>2, <2>3 DEF FlagCreated, CountReceive
    <2>4. ASSUME ~xStreamBufferReceive(t), ~vSerialPutString(t), ~FlagCreated(t), ~CountReceive(t)
          PROVE  /\ pc[t] \in {"call", "loop"}
                 /\ \E at \in {"c", "yield", "blocked", "mid"} : Goto(t, at)
      BY <1>11, <2>4
      DEF BufferCall, StreamCall, WireCall, LockCall, xStreamBufferGenericCreate,
          vStreamBufferDelete, xStreamBufferSend, xStreamBufferReset, Blocks,
          xSerialPortInitMinimal, xSerialPutChar, xSerialGetChar, xQueueGenericReset, OnOldWire,
          xQueueSemaphoreTake, xQueueTakeMutexRecursive, xQueueGiveMutexRecursive,
          LeavesOnGive, Calling, Looping, At
    <2> QED BY <1>2, <1>3, <1>4, <2>1, <2>2, <2>3, <2>4
  <1> QED BY <1>6, <1>7, <1>8, <1>9, <1>10, <1>11 DEF Acts

-----------------------------------------------------------------------------
(* The types that are left.                                                *)

(* A remainder.                                                            *)
LEMMA ModIn ==
  ASSUME NEW n \in Nat, NEW w \in Nat \ {0}
  PROVE  n % w \in 0 .. w - 1
  OBVIOUS

(* The tasks'.                                                             *)
TasksTyped ==
  /\ ISR_WOKE \in BOOLEAN
  /\ armed \in [Slots -> 0 .. MaxGen + 1]
  /\ handle \in [Functions -> Nat]

(* A step of a task.                                                       *)
LEMMA ActsTasksTyped ==
  ASSUME IInv, Fits(k), CallsTyped, TasksTyped, NEW t \in Slots, Acts(t)
  PROVE  TasksTyped'
  <1>1. k \in KType /\ armed \in [Slots -> 0 .. MaxGen + 1] /\ handle \in [Functions -> Nat]
    BY DEF IInv, Shape, TasksTyped
  <1>2. \A s \in Slots : k.gen[s] \in Nat /\ k.gen[s] <= MaxGen + 1
    BY <1>1 DEF Fits, FitsOne, KType
  <1>3. CASE UNCHANGED <<ISR_WOKE, armed, handle>> BY <1>3 DEF TasksTyped
  <1>4. ASSUME UNCHANGED <<ISR_WOKE, armed>>, NEW f, NEW p \in Nat,
               handle' = [handle EXCEPT ![f] = p]
        PROVE  TasksTyped'
    BY <1>1, <1>4 DEF TasksTyped
  <1>5. CASE TaskCall(t)
    <2>1. CASE ArmCreated(t)
      <3> DEFINE s == handle_from_c(call[t].p).slot
      <3>1. armed' = [armed EXCEPT ![s] = k.gen[s]] \/ armed' = armed
        BY <2>1 DEF ArmCreated, arm_task
      <3>2. UNCHANGED <<ISR_WOKE, handle>> BY <2>1 DEF ArmCreated
      <3> HIDE DEF s
      <3>3. armed' \in [Slots -> 0 .. MaxGen + 1]
        <4>1. CASE s \in Slots
          <5>1. k.gen[s] \in 0 .. MaxGen + 1 BY <1>2, <4>1, KernelAssumption
          <5> QED BY <1>1, <3>1, <5>1
        <4>2. CASE s \notin Slots BY <1>1, <3>1, <4>2
        <4> QED BY <4>1, <4>2
      <3> QED BY <3>2, <3>3 DEF TasksTyped
    <2>2. CASE WriteHandle(t)
      <3>1. /\ pc[t] = "write" /\ UNCHANGED <<ISR_WOKE, armed>>
            /\ handle' = [handle EXCEPT ![call[t].whom] = call[t].p]
        BY <2>2 DEF WriteHandle, At
      <3>2. call[t].p \in Nat
        BY <3>1 DEF CallsTyped, Good, Busy, Working, Calls
      <3> QED BY <1>4, <3>1, <3>2
    <2>3. CASE Lookup(t)
      <3>1. \A s \in Slots : handle_to_c(s, k.gen[s]) \in Nat BY <1>2, HandleNat
      <3>2. xTaskGetCurrentTaskHandle \in Nat BY <1>1, <3>1 DEF xTaskGetCurrentTaskHandle, KType
      <3>3. \A f : xTaskGetHandle(f) \in Nat
        <4> TAKE f
        <4> DEFINE them == {s \in Slots : Alive(k, s) /\ entry[s] = f}
                   s == CHOOSE s \in them : TRUE
        <4>1. CASE them = {} BY <4>1 DEF xTaskGetHandle, NULL
        <4>2. CASE them # {}
          <5>1. s \in them BY <4>2
          <5>2. xTaskGetHandle(f) = handle_to_c(s, k.gen[s]) BY <4>2, Zenon DEF xTaskGetHandle
          <5> QED BY <3>1, <5>1, <5>2
        <4> QED BY <4>1, <4>2
      <3> DEFINE p == IF call[t].whom = entry[t] THEN xTaskGetCurrentTaskHandle
                                                 ELSE xTaskGetHandle(call[t].whom)
      <3>4. p \in Nat BY <3>2, <3>3
      <3>5. UNCHANGED <<ISR_WOKE, armed>> /\ handle' = [handle EXCEPT ![call[t].whom] = p]
        BY <2>3 DEF Lookup
      <3> HIDE DEF p
      <3> QED BY <1>4, <3>4, <3>5
    <2>4. CASE xTaskCreate(t) BY <1>3, <2>4 DEF xTaskCreate, still
    <2>5. ASSUME ~ArmCreated(t), ~WriteHandle(t), ~Lookup(t), ~xTaskCreate(t)
          PROVE  UNCHANGED <<ISR_WOKE, armed, handle>>
      BY <1>5, <2>5
      DEF TaskCall, c_task_trampoline, Leave, vTaskDelete, vTaskSuspend,
        vTaskResume, vTaskPrioritySet, xTaskAbortDelay, vTaskDelay, xTaskDelayUntil,
        vTaskSuspendAll, xTaskResumeAll, xTaskCatchUpTicks, vPortGenerateSimulatedInterrupt,
        idle, still
    <2> QED BY <1>3, <2>1, <2>2, <2>3, <2>4, <2>5
  <1>6. CASE NotifyCall(t)
    BY <1>3, <1>6 DEF NotifyCall, Query, xTaskGenericNotify, xTaskGenericNotifyWait,
      ulTaskGenericNotifyTake, xTaskGenericNotifyStateClear, ulTaskGenericNotifyValueClear, still
  <1>7. CASE GroupCall(t) \/ timer_daemon(t)
    BY <1>3, <1>7 DEF GroupCall, timer_daemon, xEventGroupCreate, vEventGroupDelete,
      xEventGroupSetBits, xEventGroupClearBits, xEventGroupWaitBits, xEventGroupSync, still
  <1>8. CASE StreamCall(t)
    BY <1>3, <1>8 DEF StreamCall, xStreamBufferGenericCreate, FlagCreated, vStreamBufferDelete,
      xStreamBufferSend, xStreamBufferReceive, Attempt, CountReceive, xStreamBufferReset, still
  <1>9. CASE WireCall(t)
    BY <1>3, <1>9 DEF WireCall, xSerialPortInitMinimal, xSerialPutChar, xSerialGetChar,
      vSerialPutString, xQueueGenericReset, still
  <1>10. CASE LockCall(t)
    BY <1>3, <1>10 DEF LockCall, xQueueSemaphoreTake, xQueueTakeMutexRecursive,
      xQueueGiveMutexRecursive, still
  <1>11. CASE Enter(t, Objects) BY <1>3, <1>11, Zenon DEF Enter, still
  <1> QED BY <1>5, <1>6, <1>7, <1>8, <1>9, <1>10, <1>11 DEF Acts, BufferCall

(* A tick, and the switch.                                                 *)
LEMMA TimeTasksTyped == ASSUME TasksTyped, Ticks \/ pick_next PROVE TasksTyped'
  <1>1. UNCHANGED <<armed, handle>> BY TicksFrame DEF pick_next
  <1>2. ISR_WOKE' \in BOOLEAN
    <2>1. CASE Ticks
      <3>1. PICK w : ISR_WOKE' = (AsksSwitch(k) /\ (ISR_WOKE \/ w))
        BY <2>1, Zenon DEF Ticks, Rousing, Tick, Decide
      <3> QED BY <3>1, Zenon
    <2>2. CASE pick_next BY <2>2 DEF pick_next, TasksTyped
    <2> QED BY <2>1, <2>2
  <1> QED BY <1>1, <1>2 DEF TasksTyped

(* Start-up.                                                               *)
LEMMA MainTasksTyped ==
  ASSUME IInv, Fits(k), TasksTyped, main
  PROVE  TasksTyped'
  <1>1. k \in KType /\ armed \in [Slots -> 0 .. MaxGen + 1] /\ handle \in [Functions -> Nat]
    BY DEF IInv, Shape, TasksTyped
  <1>2. \A s \in Slots : k.gen[s] \in Nat /\ k.gen[s] \in 0 .. MaxGen + 1
    BY <1>1, KernelAssumption DEF Fits, FitsOne, KType
  <1>3. Idle \in Slots /\ Timer \in Slots /\ 0 \in Slots BY BootTyped DEF IInv, Shape
  <1>4. ISR_WOKE' = ISR_WOKE
    BY DEF main, CreateMonitor, ArmMonitor, StartDemo, start_scheduler, ArmBoth, start_first_task
  <1>5. armed' \in [Slots -> 0 .. MaxGen + 1]
    <2>1. CASE ArmMonitor BY <1>1, <1>2, <1>3, <2>1 DEF ArmMonitor, arm_task
    <2>2. CASE StartDemo
      <3>1. PICK s \in FreeSlots(k) : arm_task(s) BY <2>2 DEF StartDemo
      <3> QED BY <1>1, <1>2, <3>1 DEF arm_task, FreeSlots
    <2>3. CASE ArmBoth
      <3>1. armed' = [armed EXCEPT ![Idle] = k.gen[Idle], ![Timer] = k.gen[Timer]]
        BY <2>3 DEF ArmBoth
      <3> QED BY <1>1, <1>2, <1>3, <3>1
    <2>4. ASSUME ~ArmMonitor, ~StartDemo, ~ArmBoth PROVE armed' = armed
      BY <2>4 DEF main, CreateMonitor, start_scheduler, start_first_task
    <2> QED BY <1>1, <2>1, <2>2, <2>3, <2>4
  <1>6. handle' \in [Functions -> Nat]
    <2>1. CASE StartDemo
      <3>1. PICK s \in FreeSlots(k) :
              handle' = [handle EXCEPT ![Boot[s + 1][1]] = handle_to_c(s, k.gen[s])]
        BY <2>1 DEF StartDemo
      <3> DEFINE p == handle_to_c(s, k.gen[s])
      <3>2. p \in Nat BY <1>2, HandleNat DEF FreeSlots
      <3> HIDE DEF p
      <3>3. \E f : handle' = [handle EXCEPT ![f] = p] BY <3>1 DEF p
      <3> QED BY <1>1, <3>2, <3>3
    <2>2. ASSUME ~StartDemo PROVE handle' = handle
      BY <2>2 DEF main, CreateMonitor, ArmMonitor, ArmBoth, start_scheduler, start_first_task
    <2> QED BY <1>1, <2>1, <2>2
  <1> QED BY <1>4, <1>5, <1>6 DEF TasksTyped

(* The notifications'.  What an action makes of a value.                   *)
LEMMA NewValueIn ==
  ASSUME NotifyTypeOK, NEW s \in Slots, NEW x
  PROVE  NewValue(s, x) \in 0 .. Width - 1
  <1>1. nval[s] \in 0 .. Width - 1 /\ Width \in Nat \ {0} /\ Notified \in 0 .. Width - 1
    BY WidthAssumption DEF NotifyTypeOK
  <1> DEFINE v == nval[s]
             m == (v + 1) % Width
  <1>2. v + 1 \in Nat BY <1>1
  <1>3. m \in 0 .. Width - 1 BY <1>1, <1>2, ModIn
  <1> HIDE DEF m
  <1>4. NewValue(s, x) \in {v, m, Notified} BY Zenon DEF NewValue, m
  <1> QED BY <1>1, <1>3, <1>4

(* The kernel's notify.                                                    *)
LEMMA NotifyTyped ==
  ASSUME NotifyTypeOK, NEW s \in Slots, NEW x, notify(s, x), prev' = prev
  PROVE  NotifyTypeOK'
  <1>1. due[s] \in Nat /\ Width \in Nat \ {0} BY WidthAssumption DEF NotifyTypeOK
  <1> DEFINE d == IF x = "inc" THEN (due[s] + 1) % Width ELSE due[s]
             v == NewValue(s, x)
  <1>2. d \in 0 .. Width - 1
    <2>1. due[s] + 1 \in Nat BY <1>1
    <2> QED BY <1>1, <2>1, ModIn DEF NotifyTypeOK
  <1>3. v \in 0 .. Width - 1 BY NewValueIn
  <1>4. nval' = [nval EXCEPT ![s] = v] /\ nstate' = [nstate EXCEPT ![s] = "received"]
    BY DEF notify
  <1>5. due' = [due EXCEPT ![s] = d] BY DEF notify
  <1>6. meddled' \subseteq Slots BY DEF notify, Disturbed, NotifyTypeOK
  <1> HIDE DEF d, v
  <1> QED BY <1>2, <1>3, <1>4, <1>5, <1>6 DEF NotifyTypeOK

(* The calls on notifications.                                             *)
LEMMA NotifyCallTyped ==
  ASSUME NotifyTypeOK, NEW t \in Slots, NotifyCall(t)
  PROVE  NotifyTypeOK'
  <1>1. Width \in Nat \ {0} /\ 0 \in 0 .. Width - 1 BY WidthAssumption
  <1>2. /\ nval \in [Slots -> 0 .. Width - 1] /\ prev \in [Slots -> 0 .. Width - 1]
        /\ due \in [Slots -> 0 .. Width - 1]
        /\ nstate \in [Slots -> {"none", "waiting", "received"}] /\ meddled \subseteq Slots
    BY DEF NotifyTypeOK
  <1>3. CASE Query(t)
    <2>1. /\ meddled' \subseteq Slots /\ UNCHANGED <<nval, nstate, due>>
          /\ \/ prev' = prev
             \/ \E n \in {0} \cup {ValueBefore(s, call[t].x) : s \in Named(t, call[t].p)} :
                  prev' = [prev EXCEPT ![t] = n]
      BY <1>2, <1>3 DEF Query
    <2>2. \A s \in Named(t, call[t].p) : ValueBefore(s, call[t].x) \in 0 .. Width - 1
      BY <1>2 DEF ValueBefore, Named
    <2>3. prev' \in [Slots -> 0 .. Width - 1] BY <1>1, <1>2, <2>1, <2>2
    <2> QED BY <1>2, <2>1, <2>3 DEF NotifyTypeOK
  <1>4. CASE xTaskGenericNotify(t)
    <2>1. CASE UNCHANGED notifyVars BY <2>1 DEF notifyVars, NotifyTypeOK
    <2>2. CASE \E s \in Named(t, call[t].p) : notify(s, call[t].x) /\ UNCHANGED prev
      BY <2>2, NotifyTyped DEF Named
    <2> QED BY <1>4, <2>1, <2>2 DEF xTaskGenericNotify
  <1>5. CASE xTaskGenericNotifyWait(t)
    <2>1. /\ UNCHANGED <<prev, due>> /\ meddled' \subseteq Slots
          /\ \E v \in {0, nval[t]} : nval' = [nval EXCEPT ![t] = v]
          /\ \E v \in {"none", "waiting"} : nstate' = [nstate EXCEPT ![t] = v]
      BY <1>2, <1>5 DEF xTaskGenericNotifyWait, Disturbed
    <2>2. nval' \in [Slots -> 0 .. Width - 1] BY <1>1, <1>2, <2>1
    <2> QED BY <1>2, <2>1, <2>2 DEF NotifyTypeOK
  <1>6. CASE ulTaskGenericNotifyTake(t)
    <2>1. /\ prev' = prev /\ meddled' \subseteq Slots
          /\ \E v \in {"none", "waiting"} : nstate' = [nstate EXCEPT ![t] = v]
      BY <1>2, <1>6 DEF ulTaskGenericNotifyTake, Disturbed
    <2>2. CASE UNCHANGED <<nval, due>> BY <1>2, <2>1, <2>2 DEF NotifyTypeOK
    <2>3. CASE nval[t] > 0 /\ xTaskNotifyTakes(t)
      <3> DEFINE v == IF ClearsCount(t) THEN 0 ELSE nval[t] - 1
                 w == IF call[t].x = "clear" THEN nval[t] ELSE 1
                 d == (due[t] + Width - w) % Width
      <3>1. v \in 0 .. Width - 1 /\ due[t] + Width - w \in Nat
        <4>1. nval[t] \in 0 .. Width - 1 /\ nval[t] > 0 /\ due[t] \in 0 .. Width - 1
          BY <1>2, <2>3
        <4> QED BY <1>1, <4>1
      <3>2. d \in 0 .. Width - 1 BY <1>1, <3>1, ModIn
      <3>3. nval' = [nval EXCEPT ![t] = v] /\ due' = [due EXCEPT ![t] = d]
        BY <2>3 DEF xTaskNotifyTakes
      <3> HIDE DEF v, d
      <3> QED BY <1>2, <2>1, <3>1, <3>2, <3>3 DEF NotifyTypeOK
    <2> QED BY <1>6, <2>2, <2>3 DEF ulTaskGenericNotifyTake
  <1>7. CASE xTaskGenericNotifyStateClear(t)
    <2>1. nstate' \in [Slots -> {"none", "waiting", "received"}]
      BY <1>2, <1>7 DEF xTaskGenericNotifyStateClear
    <2> QED BY <1>2, <1>7, <2>1 DEF xTaskGenericNotifyStateClear, NotifyTypeOK
  <1>8. CASE ulTaskGenericNotifyValueClear(t)
    <2>1. nval' \in [Slots -> 0 .. Width - 1]
      BY <1>1, <1>2, <1>8 DEF ulTaskGenericNotifyValueClear
    <2>2. \A s \in Slots : (due[s] + Width - nval[s]) % Width \in 0 .. Width - 1
      <3> TAKE s \in Slots
      <3> DEFINE n == due[s] + Width - nval[s]
      <3>1. n \in Nat
        <4>1. due[s] \in 0 .. Width - 1 /\ nval[s] \in 0 .. Width - 1 BY <1>2
        <4> QED BY <1>1, <4>1
      <3> HIDE DEF n
      <3>2. n % Width \in 0 .. Width - 1 BY <1>1, <3>1, ModIn
      <3> QED BY <3>2 DEF n
    <2> DEFINE d(s) == IF s \in Named(t, call[t].p) THEN (due[s] + Width - nval[s]) % Width
                       ELSE due[s]
    <2>3. \A s \in Slots : d(s) \in 0 .. Width - 1 BY <1>2, <2>2
    <2>4. due' = [s \in Slots |-> d(s)] BY <1>8 DEF ulTaskGenericNotifyValueClear
    <2> HIDE DEF d
    <2>5. due' \in [Slots -> 0 .. Width - 1] BY <2>3, <2>4
    <2>6. UNCHANGED <<nstate, prev>> /\ meddled' \subseteq Slots
      BY <1>2, <1>8 DEF ulTaskGenericNotifyValueClear, Disturbed
    <2> QED BY <1>2, <2>1, <2>5, <2>6 DEF NotifyTypeOK
  <1> QED BY <1>3, <1>4, <1>5, <1>6, <1>7, <1>8 DEF NotifyCall

(* An interrupt half's.                                                    *)
LEMMA NotifyIsrTyped == ASSUME NotifyTypeOK, NotifyIsr PROVE NotifyTypeOK'
  <1>1. PICK c : NotifyFromISR(c)
    BY DEF NotifyIsr, xTaskGenericNotifyFromISR, vTaskGenericNotifyGiveFromISR
  <1>2. PICK s \in Slots : notify(s, c.x) /\ prev' = prev
    BY <1>1 DEF NotifyFromISR, Named
  <1> QED BY <1>2, NotifyTyped

(* A task that was only just made.                                         *)
LEMMA NewTyped == ASSUME NotifyTypeOK, NewUnnotified PROVE NotifyTypeOK'
  <1>1. 0 \in 0 .. Width - 1 BY WidthAssumption
  <1> QED BY <1>1 DEF NotifyTypeOK, NewUnnotified

(* The group's.  The daemon's commands.                                    *)
Cmds == [do : {"set", "clear"}, group : 1 .. MaxGroups, bits : SUBSET Bits]

(* Bits that are set, and waiters that are released.                       *)
LEMMA SetTypedBits ==
  ASSUME bits \subseteq Bits, promised \subseteq Bits, out \subseteq Slots,
         NEW b \in SUBSET Bits, NEW more, set_bits(b, more)
  PROVE  bits' \subseteq Bits /\ promised' \subseteq Bits /\ out' \subseteq Slots
  <1>1. out' \subseteq Slots BY DEF set_bits, Released, Waits
  <1>2. bits' \subseteq Bits /\ promised' \subseteq Bits BY DEF set_bits
  <1> QED BY <1>1, <1>2

(* A round come through.                                                   *)
LEMMA PassesTyped ==
  ASSUME NEW t \in Slots, passed \in [Slots -> 0 .. 2], Passes(t)
  PROVE  passed' \in [Slots -> 0 .. 2]
  <1> DEFINE n == (passed[t] + 1) % 3
  <1>1. n \in 0 .. 2 OBVIOUS
  <1>2. passed' = [passed EXCEPT ![t] = n] BY DEF Passes
  <1> HIDE DEF n
  <1> QED BY <1>1, <1>2

(* The calls on groups.                                                    *)
LEMMA GroupCallTyped ==
  ASSUME CallsTyped, GroupTypeOK, NEW t \in Slots, GroupCall(t)
  PROVE  GroupTypeOK'
  <1>1. /\ made \in 0 .. MaxGroups /\ live \in BOOLEAN
        /\ bits \subseteq Bits /\ promised \subseteq Bits /\ out \subseteq Slots
        /\ passed \in [Slots -> 0 .. 2]
    BY DEF GroupTypeOK
  <1>2. MaxGroups \in Nat BY GroupsAssumption
  <1>3. cmds' = cmds
    BY DEF GroupCall, xEventGroupCreate, vEventGroupDelete, xEventGroupSetBits,
           xEventGroupClearBits, xEventGroupWaitBits, xEventGroupSync
  <1>4. ASSUME made' \in 0 .. MaxGroups, live' \in BOOLEAN,
               bits' \subseteq Bits, promised' \subseteq Bits, out' \subseteq Slots,
               passed' \in [Slots -> 0 .. 2]
        PROVE  GroupTypeOK'
    BY <1>3, <1>4 DEF GroupTypeOK
  <1>5. ASSUME pc[t] \in {"call", "loop"}, call[t].op \in BitOps PROVE OwnBits(t) \subseteq Bits
    <2>1. call[t].x \in DOMAIN BitsOf BY <1>5 DEF CallsTyped, Good, Sending
    <2> QED BY <2>1, GroupsAssumption DEF OwnBits
  <1>6. CASE xEventGroupCreate(t)
    <2>1. UNCHANGED <<out, promised, passed>> BY <1>6 DEF xEventGroupCreate
    <2>2. CASE made < MaxGroups /\ made' = made + 1 /\ live' = TRUE /\ bits' = {}
      <3>1. made' \in 0 .. MaxGroups BY <1>1, <1>2, <2>2
      <3> QED BY <1>1, <1>4, <2>1, <2>2, <3>1
    <2>3. CASE UNCHANGED <<made, live, bits>> BY <1>1, <1>4, <2>1, <2>3
    <2> QED BY <1>6, <2>2, <2>3 DEF xEventGroupCreate
  <1>7. CASE vEventGroupDelete(t)
    <2>1. UNCHANGED <<made, out, passed>> BY <1>7 DEF vEventGroupDelete
    <2>2. /\ live' \in BOOLEAN /\ bits' \in {bits, {}} /\ promised' \in {promised, {}}
      BY <1>1, <1>7 DEF vEventGroupDelete
    <2> QED BY <1>1, <1>4, <2>1, <2>2
  <1>8. CASE xEventGroupSetBits(t)
    <2>1. UNCHANGED <<made, live, passed>> /\ pc[t] = "call" /\ call[t].op \in BitOps
      BY <1>8 DEF xEventGroupSetBits, Calling, At, BitOps
    <2>2. CASE set_bits(OwnBits(t), {})
      <3>1. bits' \subseteq Bits /\ promised' \subseteq Bits /\ out' \subseteq Slots
        BY <1>1, <1>5, <2>1, <2>2, SetTypedBits
      <3> QED BY <1>1, <1>4, <2>1, <3>1
    <2>3. CASE UNCHANGED <<bits, out, promised>> BY <1>1, <1>4, <2>1, <2>3
    <2> QED BY <1>8, <2>2, <2>3 DEF xEventGroupSetBits
  <1>9. CASE xEventGroupClearBits(t)
    <2>1. UNCHANGED <<made, live, out, passed>> BY <1>9 DEF xEventGroupClearBits
    <2>2. bits' \subseteq bits /\ promised' \subseteq promised
      BY <1>9 DEF xEventGroupClearBits, clear_bits
    <2> QED BY <1>1, <1>4, <2>1, <2>2
  <1>10. CASE xEventGroupWaitBits(t)
    <2>1. UNCHANGED <<made, live, passed>> /\ out' \subseteq out
      BY <1>10 DEF xEventGroupWaitBits
    <2>2. bits' \subseteq bits /\ promised' \subseteq promised
      BY <1>10 DEF xEventGroupWaitBits, clear_bits
    <2> QED BY <1>1, <1>4, <2>1, <2>2
  <1>11. CASE xEventGroupSync(t)
    <2>1. /\ UNCHANGED <<made, live>> /\ pc[t] \in {"call", "loop"} /\ call[t].op \in BitOps
          /\ passed' = passed \/ Passes(t)
      BY <1>11 DEF xEventGroupSync, Looping, BitOps
    <2>2. passed' \in [Slots -> 0 .. 2] BY <1>1, <2>1, PassesTyped
    <2>3. \/ \E more : set_bits(OwnBits(t), more)
          \/ bits' \subseteq bits /\ promised' \subseteq promised /\ out' \subseteq out
      <3>1. CASE pc[t] = "call" /\ group_from_c(call[t].p)
                 /\ \E more : set_bits(OwnBits(t), more)
        BY <3>1
      <3>2. CASE /\ IF t \notin out /\ Met(t, bits) THEN clear_bits(Clears(t))
                                                    ELSE UNCHANGED <<bits, promised>>
                 /\ out' = out \ {t}
        BY <3>2 DEF clear_bits
      <3>3. CASE UNCHANGED <<bits, promised>> /\ out' \in {out, out \ {t}} BY <3>3
      <3> QED BY <1>11, <3>1, <3>2, <3>3 DEF xEventGroupSync
    <2>4. bits' \subseteq Bits /\ promised' \subseteq Bits /\ out' \subseteq Slots
      BY <1>1, <1>5, <2>1, <2>3, SetTypedBits
    <2> QED BY <1>1, <1>4, <2>1, <2>2, <2>4
  <1> QED BY <1>6, <1>7, <1>8, <1>9, <1>10, <1>11 DEF GroupCall

(* The daemon, which takes the first of its commands.                      *)
LEMMA DaemonTyped ==
  ASSUME GroupTypeOK, NEW t \in Slots, timer_daemon(t)
  PROVE  GroupTypeOK'
  <1>1. UNCHANGED <<made, live, passed>> BY DEF timer_daemon
  <1>2. CASE cmds = <<>> /\ UNCHANGED <<cmds, bits, out, promised>>
    BY <1>1, <1>2 DEF GroupTypeOK
  <1>3. CASE cmds # <<>> /\ pended(Head(cmds)) /\ cmds' = Tail(cmds)
    <2>1. cmds \in Seq(Cmds) /\ Len(cmds) <= CmdLen BY DEF GroupTypeOK, Cmds
    <2>2. /\ Tail(cmds) \in Seq(Cmds) /\ Len(Tail(cmds)) = Len(cmds) - 1
          /\ Head(cmds) \in Cmds /\ Len(cmds) \in Nat
      BY <1>3, <2>1
    <2>3. CmdLen \in Nat BY GroupsAssumption
    <2>4. cmds' \in Seq(Cmds) /\ Len(cmds') <= CmdLen BY <1>3, <2>1, <2>2, <2>3
    <2>5. Head(cmds).bits \in SUBSET Bits BY <2>2 DEF Cmds
    <2>6. \/ set_bits(Head(cmds).bits, {})
          \/ bits' \subseteq bits /\ promised' \subseteq promised /\ out' = out
      BY <1>3 DEF pended, clear_bits
    <2>7. bits' \subseteq Bits /\ promised' \subseteq Bits /\ out' \subseteq Slots
      BY <2>5, <2>6, SetTypedBits DEF GroupTypeOK
    <2> QED BY <1>1, <2>4, <2>7 DEF GroupTypeOK, Cmds
  <1> QED BY <1>2, <1>3 DEF timer_daemon

(* An interrupt half's, which may add one.                                 *)
LEMMA IsrPosts ==
  ASSUME GroupIsr
  PROVE  /\ UNCHANGED <<made, live, bits, out, passed>>
         /\ \/ UNCHANGED <<cmds, promised>>
            \/ \E c \in program.isr, what \in {"set", "clear"}, woken \in BOOLEAN :
                 /\ c.op \in BitOps /\ Accepts /\ Post(what, BitsOf[c.x])
                 /\ promised' = promised \cup (IF what = "set" THEN BitsOf[c.x] ELSE {})
                 /\ Rousing(SleepingDaemon, woken)
  <1>1. PICK c \in program.isr : \/ xEventGroupSetBitsFromISR(c)
                                 \/ xEventGroupClearBitsFromISR(c)
    BY DEF GroupIsr
  <1>2. CASE xEventGroupSetBitsFromISR(c)
    <2> DEFINE woken == \E w \in SleepingDaemon : Outranks(increment_tick(k), w)
    <2>1. UNCHANGED <<made, live, bits, out, passed>> /\ c.op \in BitOps
      BY <1>2 DEF xEventGroupSetBitsFromISR, BitOps
    <2>2. woken \in BOOLEAN /\ (SysTick(SleepingDaemon) => Rousing(SleepingDaemon, woken))
      BY SleepingDaemonAlive DEF SysTick, Rousing
    <2> HIDE DEF woken
    <2> QED BY <1>1, <1>2, <2>1, <2>2 DEF xEventGroupSetBitsFromISR
  <1>3. CASE xEventGroupClearBitsFromISR(c)
    <2>1. UNCHANGED <<made, live, bits, out, passed, promised>> /\ c.op \in BitOps
      BY <1>3 DEF xEventGroupClearBitsFromISR, BitOps
    <2>2. Tick(SleepingDaemon, FALSE) => Rousing(SleepingDaemon, FALSE)
      BY SleepingDaemonAlive DEF Rousing
    <2>3. promised = promised \cup {} OBVIOUS
    <2> QED BY <1>1, <1>3, <2>1, <2>2, <2>3 DEF xEventGroupClearBitsFromISR
  <1> QED BY <1>1, <1>2, <1>3

LEMMA GroupIsrTyped ==
  ASSUME program \in Programs, GroupTypeOK, GroupIsr
  PROVE  GroupTypeOK'
  <1>1. UNCHANGED <<made, live, bits, out, passed>> BY IsrPosts
  <1>2. CASE UNCHANGED <<cmds, promised>> BY <1>1, <1>2 DEF GroupTypeOK
  <1>3. ASSUME NEW c \in program.isr, NEW what \in {"set", "clear"}, c.op \in BitOps, Accepts,
               Post(what, BitsOf[c.x]),
               promised' = promised \cup (IF what = "set" THEN BitsOf[c.x] ELSE {})
        PROVE  GroupTypeOK'
    <2> DEFINE cmd == [do |-> what, group |-> made, bits |-> BitsOf[c.x]]
    <2>1. made \in 1 .. MaxGroups BY <1>3, GroupsAssumption DEF Accepts, GroupTypeOK, NULL
    <2>2. BitsOf[c.x] \in SUBSET Bits
      <3>1. c.x \in DOMAIN BitsOf BY <1>3, GroupsAssumption
      <3> QED BY <3>1, GroupsAssumption
    <2>3. cmd \in Cmds BY <2>1, <2>2 DEF Cmds
    <2>4. cmds \in Seq(Cmds) BY DEF GroupTypeOK, Cmds
    <2>5. cmds' = Append(cmds, cmd) BY <1>3 DEF Post
    <2> HIDE DEF cmd
    <2>6. cmds' \in Seq(Cmds) /\ Len(cmds') = Len(cmds) + 1 BY <2>3, <2>4, <2>5
    <2>7. Len(cmds') <= CmdLen
      <3>1. Len(cmds) \in Nat /\ CmdLen \in Nat BY <2>4, GroupsAssumption
      <3> QED BY <1>3, <2>6, <3>1 DEF Accepts
    <2>8. promised' \subseteq Bits BY <1>3, <2>2 DEF GroupTypeOK
    <2> QED BY <1>1, <2>6, <2>7, <2>8 DEF GroupTypeOK, Cmds
  <1> QED BY <1>2, <1>3, IsrPosts

(* The buffer's, the port's, and the semaphore's and the mutex's.          *)
StreamBuffers ==
  [made : 0 .. MaxBuffers, live : BOOLEAN, test : BOOLEAN, level : 0 .. Cap]
StreamTyped ==
  /\ buffer \in StreamBuffers
  /\ xStreamBuffer \in 0 .. MaxBuffers /\ IS_TRIGGER_BUFFER \in BOOLEAN
  /\ over \subseteq Slots /\ late \subseteq Slots
WireTyped ==
  /\ wire \in Seq(0 .. StrLen) /\ Len(wire) <= WireLen
  /\ PORT \in 0 .. MaxPorts /\ got \in 0 .. StrLen
LockTyped ==
  /\ sem \in 0 .. SemMax /\ holder \in Slots \cup {None} /\ depth \in 0 .. MaxDepth
  /\ holder # None => depth >= 1

(* What can become of the buffer.                                          *)
LEMMA BufferFields ==
  ASSUME buffer \in StreamBuffers
  PROVE  /\ buffer.made \in 0 .. MaxBuffers /\ buffer.level \in 0 .. Cap
         /\ \A n \in 0 .. Cap : [buffer EXCEPT !.level = n] \in StreamBuffers
         /\ \A b \in BOOLEAN : [buffer EXCEPT !.live = b] \in StreamBuffers
  <1>1. buffer.made \in 0 .. MaxBuffers /\ buffer.level \in 0 .. Cap BY DEF StreamBuffers
  <1>2. \A n \in 0 .. Cap : [buffer EXCEPT !.level = n] \in StreamBuffers BY DEF StreamBuffers
  <1>3. \A b \in BOOLEAN : [buffer EXCEPT !.live = b] \in StreamBuffers BY Zenon DEF StreamBuffers
  <1> QED BY <1>1, <1>2, <1>3

(* The calls on the stream buffer.                                         *)
LEMMA StreamCallTyped ==
  ASSUME StreamTyped, NEW t \in Slots, StreamCall(t)
  PROVE  StreamTyped'
  <1>1. /\ buffer \in StreamBuffers /\ xStreamBuffer \in 0 .. MaxBuffers
        /\ IS_TRIGGER_BUFFER \in BOOLEAN /\ over \subseteq Slots /\ late \subseteq Slots
    BY DEF StreamTyped
  <1>2. Cap \in Nat /\ 0 \in 0 .. Cap BY BuffersAssumption
  <1>3. ASSUME buffer' \in StreamBuffers, UNCHANGED <<xStreamBuffer, IS_TRIGGER_BUFFER>>,
               over' \subseteq Slots, late' \subseteq Slots
        PROVE  StreamTyped'
    BY <1>1, <1>3 DEF StreamTyped
  <1>4. CASE xStreamBufferGenericCreate(t)
    <2>1. UNCHANGED <<xStreamBuffer, IS_TRIGGER_BUFFER, over, late>>
      BY <1>4 DEF xStreamBufferGenericCreate
    <2>2. CASE /\ buffer.made < MaxBuffers
               /\ buffer' = [made |-> buffer.made + 1, live |-> TRUE,
                             test |-> call[t].x = "test", level |-> 0]
      <3> DEFINE test == call[t].x = "test"
                 n == buffer.made + 1
      <3>1. n \in 0 .. MaxBuffers
        <4>1. buffer.made \in 0 .. MaxBuffers /\ MaxBuffers \in Nat
          BY <1>1, BufferFields, BuffersAssumption
        <4> QED BY <2>2, <4>1
      <3>2. test \in BOOLEAN OBVIOUS
      <3>3. buffer' = [made |-> n, live |-> TRUE, test |-> test, level |-> 0] BY <2>2
      <3> HIDE DEF test, n
      <3>4. buffer' \in StreamBuffers BY <1>2, <3>1, <3>2, <3>3, Zenon DEF StreamBuffers
      <3> QED BY <1>1, <1>3, <2>1, <3>4
    <2>3. CASE buffer' = buffer BY <1>1, <1>3, <2>1, <2>3
    <2> QED BY <1>4, <2>2, <2>3 DEF xStreamBufferGenericCreate
  <1>5. CASE FlagCreated(t)
    <2>1. /\ IS_TRIGGER_BUFFER' = (call[t].x = "test") /\ xStreamBuffer' = buffer.made
          /\ UNCHANGED <<buffer, over, late>>
      BY <1>5 DEF FlagCreated, Flag
    <2>2. IS_TRIGGER_BUFFER' \in BOOLEAN BY <2>1, Zenon
    <2>3. xStreamBuffer' \in 0 .. MaxBuffers BY <1>1, <2>1, BufferFields
    <2> QED BY <1>1, <2>1, <2>2, <2>3 DEF StreamTyped
  <1>6. CASE vStreamBufferDelete(t)
    <2> DEFINE b == buffer.live /\ ~stream_from_c(call[t].p)
    <2>1. b \in BOOLEAN OBVIOUS
    <2>2. /\ buffer' = [buffer EXCEPT !.live = b]
          /\ UNCHANGED <<xStreamBuffer, IS_TRIGGER_BUFFER, over, late>>
      BY <1>6, Zenon DEF vStreamBufferDelete
    <2> HIDE DEF b
    <2>3. buffer' \in StreamBuffers BY <1>1, <2>1, <2>2, BufferFields
    <2> QED BY <1>1, <1>3, <2>2, <2>3
  <1>7. CASE xStreamBufferSend(t)
    <2>1. UNCHANGED <<xStreamBuffer, IS_TRIGGER_BUFFER, over, late>>
      BY <1>7 DEF xStreamBufferSend
    <2>2. CASE buffer.level < Cap /\ buffer' = [buffer EXCEPT !.level = @ + 1]
      <3>1. buffer.level + 1 \in 0 .. Cap BY <1>1, <1>2, <2>2, BufferFields
      <3>2. buffer' \in StreamBuffers BY <1>1, <2>2, <3>1, BufferFields
      <3> QED BY <1>1, <1>3, <2>1, <3>2
    <2>3. CASE buffer' = buffer BY <1>1, <1>3, <2>1, <2>3
    <2> QED BY <1>7, <2>2, <2>3 DEF xStreamBufferSend
  <1>8. CASE xStreamBufferReceive(t)
    <2>1. PICK kk : Attempt(t, kk) BY <1>8 DEF xStreamBufferReceive
    <2>2. UNCHANGED <<xStreamBuffer, IS_TRIGGER_BUFFER>> BY <2>1 DEF Attempt
    <2>3. buffer' = buffer \/ buffer' = [buffer EXCEPT !.level = 0] BY <2>1, Zenon DEF Attempt
    <2>4. over' \in {over, over \ {t}} /\ late' \in {late, late \cup {t}, late \ {t}}
      BY <2>1 DEF Attempt
    <2>5. buffer' \in StreamBuffers BY <1>1, <1>2, <2>3, BufferFields
    <2> QED BY <1>1, <1>3, <2>2, <2>4, <2>5
  <1>9. CASE CountReceive(t)
    <2>1. over' \in {over, over \cup {t}}
          /\ UNCHANGED <<buffer, xStreamBuffer, IS_TRIGGER_BUFFER, late>>
      BY <1>9 DEF CountReceive
    <2> QED BY <1>1, <1>3, <2>1
  <1>10. CASE xStreamBufferReset(t)
    <2> DEFINE n == IF stream_from_c(call[t].p) /\ Waits({"sbsend", "sbreceive"}) = {} THEN 0
                    ELSE buffer.level
    <2>1. n \in 0 .. Cap BY <1>1, <1>2, BufferFields
    <2>2. /\ buffer' = [buffer EXCEPT !.level = n]
          /\ UNCHANGED <<xStreamBuffer, IS_TRIGGER_BUFFER, over, late>>
      BY <1>10, Zenon DEF xStreamBufferReset
    <2> HIDE DEF n
    <2>3. buffer' \in StreamBuffers BY <1>1, <2>1, <2>2, BufferFields
    <2> QED BY <1>1, <1>3, <2>2, <2>3
  <1> QED BY <1>4, <1>5, <1>6, <1>7, <1>8, <1>9, <1>10 DEF StreamCall

(* An interrupt half's.                                                    *)
LEMMA StreamIsrTyped == ASSUME StreamTyped, NEW c, StreamIsr(c) PROVE StreamTyped'
  <1>1. buffer \in StreamBuffers /\ Cap \in Nat /\ 0 \in 0 .. Cap
    BY BuffersAssumption DEF StreamTyped
  <1>2. UNCHANGED <<xStreamBuffer, IS_TRIGGER_BUFFER, over, late>> BY DEF StreamIsr
  <1>3. \/ buffer' = buffer
        \/ buffer.level < Cap /\ buffer' = [buffer EXCEPT !.level = buffer.level + 1]
        \/ buffer' = [buffer EXCEPT !.level = 0]
    BY Zenon DEF StreamIsr, xStreamBufferSendFromISR, xStreamBufferReceiveFromISR,
                 xStreamBufferSendCompletedFromISR
  <1>4. buffer.level < Cap => buffer.level + 1 \in 0 .. Cap BY <1>1, BufferFields
  <1>5. buffer' \in StreamBuffers BY <1>1, <1>3, <1>4, BufferFields
  <1> QED BY <1>2, <1>5 DEF StreamTyped

(* A character more on the wire, and one off it.                           *)
LEMMA WireMore ==
  ASSUME WireTyped, Len(wire) < WireLen, NEW c \in 0 .. StrLen
  PROVE  Append(wire, c) \in Seq(0 .. StrLen) /\ Len(Append(wire, c)) <= WireLen
  <1>1. wire \in Seq(0 .. StrLen) /\ Len(wire) \in Nat /\ WireLen \in Nat
    BY BuffersAssumption DEF WireTyped
  <1>2. Append(wire, c) \in Seq(0 .. StrLen) /\ Len(Append(wire, c)) = Len(wire) + 1
    BY <1>1
  <1> QED BY <1>1, <1>2

LEMMA WireLess ==
  ASSUME WireTyped, wire # <<>>, Off
  PROVE  wire' \in Seq(0 .. StrLen) /\ Len(wire') <= WireLen /\ got' \in 0 .. StrLen
  <1>1. wire \in Seq(0 .. StrLen) /\ Len(wire) <= WireLen /\ WireLen \in Nat
    BY BuffersAssumption DEF WireTyped
  <1>2. /\ Tail(wire) \in Seq(0 .. StrLen) /\ Len(Tail(wire)) = Len(wire) - 1
        /\ Head(wire) \in 0 .. StrLen /\ Len(wire) \in Nat
    <2> DEFINE S == 0 .. StrLen
    <2>1. wire \in Seq(S) BY <1>1
    <2> HIDE DEF S
    <2>2. /\ Tail(wire) \in Seq(S) /\ Len(Tail(wire)) = Len(wire) - 1
          /\ Head(wire) \in S /\ Len(wire) \in Nat
      BY <2>1
    <2> QED BY <2>2 DEF S
  <1> QED BY <1>1, <1>2 DEF Off, WireTyped

(* The calls on the port.                                                  *)
LEMMA WireCallTyped ==
  ASSUME CallsTyped, WireTyped, NEW t \in Slots, WireCall(t)
  PROVE  WireTyped'
  <1>1. WireLen \in Nat \ {0} /\ StrLen \in Nat \ {0} /\ Other \in 0 .. StrLen
    BY BuffersAssumption DEF Other
  <1>2. CASE xSerialPortInitMinimal(t)
    <2>1. MaxPorts \in Nat BY BuffersAssumption
    <2>2. CASE PORT < MaxPorts /\ PORT' = PORT + 1 /\ wire' = <<>> /\ got' = 0
      BY <1>1, <2>1, <2>2 DEF WireTyped
    <2>3. CASE UNCHANGED <<wire, PORT, got>> BY <2>3 DEF WireTyped
    <2> QED BY <1>2, <2>2, <2>3 DEF xSerialPortInitMinimal, wireVars
  <1>3. CASE xSerialPutChar(t)
    <2>1. UNCHANGED <<PORT, got>> BY <1>3 DEF xSerialPutChar
    <2>2. (Room /\ wire' = Append(wire, Other)) \/ wire' = wire BY <1>3 DEF xSerialPutChar
    <2> QED BY <1>1, <2>1, <2>2, WireMore DEF WireTyped, Room
  <1>4. CASE xSerialGetChar(t)
    <2>1. PORT' = PORT BY <1>4 DEF xSerialGetChar
    <2>2. (wire # <<>> /\ Off) \/ UNCHANGED <<wire, got>> BY <1>4 DEF xSerialGetChar
    <2> QED BY <2>1, <2>2, WireLess DEF WireTyped
  <1>5. CASE vSerialPutString(t)
    <2>1. UNCHANGED <<PORT, got>> /\ pc[t] \in Sending /\ call[t].op = "putstring"
      BY <1>5 DEF vSerialPutString, Looping, At, Sending
    <2>2. call[t].p + 1 \in 0 .. StrLen
      <3>1. call[t] \in Calls /\ call[t].p < StrLen
        BY <2>1 DEF CallsTyped, Good, Sending, Busy, Working
      <3>2. call[t].p \in Nat BY <3>1 DEF Calls
      <3> QED BY <1>1, <3>1, <3>2
    <2>3. (Room /\ wire' = Append(wire, call[t].p + 1)) \/ wire' = wire
      BY <1>5 DEF vSerialPutString, WireTakes
    <2> QED BY <2>1, <2>2, <2>3, WireMore DEF WireTyped, Room
  <1>6. CASE xQueueGenericReset(t)
    <2>1. PORT' = PORT /\ ((wire' = <<>> /\ got' = 0) \/ UNCHANGED <<wire, got>>)
      BY <1>6 DEF xQueueGenericReset
    <2>2. CASE wire' = <<>> /\ got' = 0 BY <1>1, <2>1, <2>2 DEF WireTyped
    <2>3. CASE UNCHANGED <<wire, got>> BY <2>1, <2>3 DEF WireTyped
    <2> QED BY <2>1, <2>2, <2>3
  <1> QED BY <1>2, <1>3, <1>4, <1>5, <1>6 DEF WireCall

(* An interrupt half's.                                                    *)
LEMMA WireIsrTyped == ASSUME WireTyped, NEW c, WireIsr(c) PROVE WireTyped'
  <1>1. WireLen \in Nat \ {0} /\ StrLen \in Nat \ {0} /\ Other \in 0 .. StrLen
    BY BuffersAssumption DEF Other
  <1>2. CASE xQueueGenericSendFromISR(c)
    <2>1. UNCHANGED <<PORT, got>> /\ wire' \in Placed(c.x)
      BY <1>2 DEF xQueueGenericSendFromISR
    <2>2. \/ Room /\ wire' = Append(wire, Other)
          \/ Room /\ wire' = <<Other>> \o wire
          \/ wire' = <<Other>>
      BY <2>1 DEF Placed
    <2>3. ASSUME Room
          PROVE  <<Other>> \o wire \in Seq(0 .. StrLen) /\ Len(<<Other>> \o wire) <= WireLen
      <3>1. wire \in Seq(0 .. StrLen) /\ Len(wire) \in Nat /\ Len(wire) < WireLen
        BY <2>3 DEF WireTyped, Room
      <3>2. /\ <<Other>> \in Seq(0 .. StrLen) /\ Len(<<Other>>) = 1 BY <1>1
      <3>3. /\ <<Other>> \o wire \in Seq(0 .. StrLen)
            /\ Len(<<Other>> \o wire) = Len(<<Other>>) + Len(wire)
        BY <3>1, <3>2
      <3> QED BY <1>1, <3>1, <3>2, <3>3
    <2>4. <<Other>> \in Seq(0 .. StrLen) /\ Len(<<Other>>) <= WireLen BY <1>1
    <2> QED BY <1>1, <2>1, <2>2, <2>3, <2>4, WireMore DEF WireTyped, Room
  <1>3. CASE xQueueReceiveFromISR(c)
    <2>1. PORT' = PORT /\ wire # <<>> /\ Off BY <1>3 DEF xQueueReceiveFromISR
    <2> QED BY <2>1, WireLess DEF WireTyped
  <1> QED BY <1>2, <1>3 DEF WireIsr

(* The calls on the semaphore and the mutex.                               *)
LEMMA LockCallTyped ==
  ASSUME LockTyped, NEW t \in Slots, LockCall(t)
  PROVE  LockTyped'
  <1>1. SemMax \in Nat /\ MaxDepth \in Nat \ {0} /\ t # None
    BY BuffersAssumption, KernelAssumption DEF Slots, None
  <1>2. CASE xQueueSemaphoreTake(t)
    <2>1. UNCHANGED <<holder, depth>> /\ (sem' = sem \/ (sem > 0 /\ sem' = sem - 1))
      BY <1>2 DEF xQueueSemaphoreTake
    <2> QED BY <1>1, <2>1 DEF LockTyped
  <1>3. CASE xQueueTakeMutexRecursive(t)
    <2>1. /\ sem' = sem
          /\ \/ UNCHANGED <<holder, depth>>
             \/ depth < MaxDepth /\ holder' = t /\ depth' = depth + 1
      BY <1>3 DEF xQueueTakeMutexRecursive
    <2> QED BY <1>1, <2>1 DEF LockTyped
  <1>4. CASE xQueueGiveMutexRecursive(t)
    <2>1. /\ sem' = sem
          /\ \/ UNCHANGED <<holder, depth>>
             \/ /\ holder = t /\ depth' = depth - 1
                /\ holder' = IF depth = 1 THEN None ELSE t
      BY <1>4 DEF xQueueGiveMutexRecursive
    <2> QED BY <1>1, <2>1 DEF LockTyped
  <1> QED BY <1>2, <1>3, <1>4 DEF LockCall

(* An interrupt half's.                                                    *)
LEMMA LockIsrTyped == ASSUME LockTyped, NEW c, xQueueGiveFromISR(c) PROVE LockTyped'
  <1>1. SemMax \in Nat /\ UNCHANGED <<holder, depth>> /\ sem < SemMax /\ sem' = sem + 1
    BY BuffersAssumption DEF xQueueGiveFromISR
  <1> QED BY <1>1 DEF LockTyped

-----------------------------------------------------------------------------
(* All the types.                                                          *)

(* What is added to the invariant.                                         *)
Typed ==
  /\ Fitting /\ CallsTyped /\ TasksTyped
  /\ NotifyTypeOK /\ GroupTypeOK /\ StreamTyped /\ WireTyped /\ LockTyped

(* A step of a task.                                                       *)
LEMMA ActsTyped ==
  ASSUME IInv, Typed, NEW t \in Slots, Acts(t)
  PROVE  CallsTyped' /\ TasksTyped'
  <1>1. made \in Nat BY GroupsAssumption DEF Typed, GroupTypeOK
  <1>2. xStreamBuffer \in Nat BY BuffersAssumption DEF Typed, StreamTyped
  <1>3. PORT \in Nat BY BuffersAssumption DEF Typed, WireTyped
  <1>4. Fits(k) /\ CallsTyped /\ TasksTyped /\ handle \in [Functions -> Nat]
    BY DEF Typed, Fitting, TasksTyped
  <1> QED BY <1>1, <1>2, <1>3, <1>4, ActsCallsTyped, ActsTasksTyped

(* Every step.                                                             *)
LEMMA TypedKept == IInv /\ Typed /\ Fitting' /\ [Next]_vars => Typed'
  <1> SUFFICES ASSUME IInv, Typed, Fitting', [Next]_vars PROVE Typed' OBVIOUS
  <1>1. program \in Programs /\ k \in KType BY DEF IInv, Shape
  <1>2. ASSUME NEW t \in Slots, Acts(t) PROVE CallsTyped' /\ TasksTyped'
    BY <1>2, ActsTyped
  <1>3. ASSUME Ticks \/ pick_next PROVE CallsTyped' /\ TasksTyped'
    <2>1. UNCHANGED <<pc, call>> BY <1>3, TicksFrame DEF pick_next
    <2> QED BY <1>3, <2>1, TimeTasksTyped DEF CallsTyped, Typed
  <1>4. ASSUME main PROVE CallsTyped' /\ TasksTyped'
    <2>1. call' = call
      BY <1>4 DEF main, CreateMonitor, ArmMonitor, StartDemo, start_scheduler, ArmBoth,
                  start_first_task
    <2>2. \A u \in Slots : pc'[u] = pc[u] \/ pc'[u] \in {"c", "new", "idle", "daemon"}
      BY <1>4
      DEF main, CreateMonitor, ArmMonitor, StartDemo, start_scheduler, ArmBoth,
          start_first_task, IInv, Shape
    <2>3. CallsTyped' BY <2>1, <2>2 DEF Typed, CallsTyped, Good, Busy, Working, Sending
    <2> QED BY <1>4, <2>3, MainTasksTyped DEF Typed, Fitting
  <1>5. ASSUME UNCHANGED groupVars PROVE GroupTypeOK'
    BY <1>5 DEF groupVars, Typed, GroupTypeOK
  <1>6. ASSUME UNCHANGED streamVars PROVE StreamTyped'
    BY <1>6 DEF streamVars, Typed, StreamTyped
  <1>7. ASSUME UNCHANGED wireVars PROVE WireTyped'
    BY <1>7 DEF wireVars, Typed, WireTyped
  <1>8. ASSUME UNCHANGED lockVars PROVE LockTyped'
    BY <1>8 DEF lockVars, Typed, LockTyped
  <1>9. ASSUME UNCHANGED bufferVars PROVE StreamTyped' /\ WireTyped' /\ LockTyped'
    BY <1>6, <1>7, <1>8, <1>9 DEF bufferVars
  <1>10. ASSUME UNCHANGED notifyVars PROVE NotifyTypeOK'
    BY <1>10 DEF notifyVars, Typed, NotifyTypeOK
  <1>11. CASE (main \/ pick_next \/ Tasks \/ SysTick({})) /\ NewUnnotified
              /\ UNCHANGED <<groupVars, bufferVars>>
    <2>1. SysTick({}) => Ticks BY HalvesTick
    <2>2. CallsTyped' /\ TasksTyped' BY <1>2, <1>3, <1>4, <1>11, <2>1 DEF Tasks, Acts
    <2>3. NotifyTypeOK' BY <1>11, NewTyped DEF Typed
    <2> QED BY <1>5, <1>9, <1>11, <2>2, <2>3 DEF Typed
  <1>12. CASE (Notifies \/ NotifyIsr) /\ UNCHANGED <<groupVars, bufferVars>>
    <2>1. CallsTyped' /\ TasksTyped'
      BY <1>2, <1>3, <1>12, HalvesTick DEF Notifies, Acts
    <2>2. NotifyTypeOK' BY <1>12, NotifyCallTyped, NotifyIsrTyped DEF Notifies, Typed
    <2> QED BY <1>5, <1>9, <1>12, <2>1, <2>2 DEF Typed
  <1>13. CASE (Groups \/ GroupIsr) /\ UNCHANGED <<notifyVars, bufferVars>>
    <2>1. CallsTyped' /\ TasksTyped'
      BY <1>2, <1>3, <1>13, HalvesTick DEF Groups, Acts
    <2>2. GroupTypeOK'
      BY <1>1, <1>13, GroupCallTyped, DaemonTyped, GroupIsrTyped DEF Groups, Typed
    <2> QED BY <1>9, <1>10, <1>13, <2>1, <2>2 DEF Typed
  <1>14. CASE (Buffers \/ BuffersIsr) /\ UNCHANGED <<notifyVars, groupVars>>
    <2>1. CallsTyped' /\ TasksTyped'
      BY <1>2, <1>3, <1>14, HalvesTick DEF Buffers, Acts
    <2>2. CASE Buffers
      <3>1. PICK t \in Slots : BufferCall(t) BY <2>2 DEF Buffers
      <3>2. StreamTyped' /\ WireTyped' /\ LockTyped'
        BY <1>6, <1>7, <1>8, <3>1, StreamCallTyped, WireCallTyped, LockCallTyped
        DEF BufferCall, Typed
      <3> QED BY <1>5, <1>10, <1>14, <2>1, <3>2 DEF Typed
    <2>3. CASE BuffersIsr
      <3>1. PICK c : BufferIsr(c) BY <2>3 DEF BuffersIsr
      <3>2. StreamTyped' /\ WireTyped' /\ LockTyped'
        BY <1>6, <1>7, <1>8, <3>1, StreamIsrTyped, WireIsrTyped, LockIsrTyped
        DEF BufferIsr, Typed
      <3> QED BY <1>5, <1>10, <1>14, <2>1, <3>2 DEF Typed
    <2> QED BY <1>14, <2>2, <2>3
  <1>15. CASE UNCHANGED vars
    <2>1. CallsTyped' /\ TasksTyped' BY <1>15 DEF vars, taskVars, Typed, CallsTyped, TasksTyped
    <2> QED BY <1>5, <1>9, <1>10, <1>15, <2>1 DEF vars, Typed
  <1> QED BY <1>11, <1>12, <1>13, <1>14, <1>15 DEF Next

(* At the start.                                                           *)
LEMMA TypedInit == Init /\ Fitting => Typed
  <1> SUFFICES ASSUME Init, Fitting PROVE Typed OBVIOUS
  <1>1. CallsTyped
    BY DEF Init, TaskInit, CallsTyped, Good, Busy, Working, Sending
  <1>2. TasksTyped
    <2>1. 0 \in 0 .. MaxGen + 1 /\ 0 \in Nat BY KernelAssumption
    <2>2. ISR_WOKE \in BOOLEAN BY Zenon DEF Init, TaskInit
    <2>3. armed \in [Slots -> 0 .. MaxGen + 1] /\ handle \in [Functions -> Nat]
      BY <2>1 DEF Init, TaskInit, NULL
    <2> QED BY <2>2, <2>3 DEF TasksTyped
  <1>3. NotifyTypeOK
    <2>1. 0 \in 0 .. Width - 1 BY WidthAssumption
    <2> QED BY <2>1 DEF Init, NotifyInit, NotifyTypeOK
  <1>4. GroupTypeOK
    <2>1. 0 \in 0 .. MaxGroups /\ 0 <= CmdLen /\ 0 \in 0 .. 2 BY GroupsAssumption
    <2>2. cmds \in Seq(Cmds) /\ Len(cmds) = 0 BY DEF Init, GroupInit
    <2> QED BY <2>1, <2>2 DEF Init, GroupInit, GroupTypeOK, Cmds
  <1>5. StreamTyped
    <2>1. 0 \in 0 .. MaxBuffers /\ 0 \in 0 .. Cap BY BuffersAssumption
    <2> QED BY <2>1 DEF Init, BufferInit, StreamTyped, StreamBuffers, NULL
  <1>6. WireTyped
    <2>1. 0 \in 0 .. StrLen /\ 0 <= WireLen BY BuffersAssumption
    <2>2. PORT = 0 /\ 0 \in 0 .. MaxPorts BY BuffersAssumption DEF Init, BufferInit, NULL
    <2>3. wire \in Seq(0 .. StrLen) /\ Len(wire) = 0 /\ got = 0 BY DEF Init, BufferInit
    <2> QED BY <2>1, <2>2, <2>3 DEF WireTyped
  <1>7. LockTyped
    <2>1. 0 \in 0 .. SemMax /\ 0 \in 0 .. MaxDepth BY BuffersAssumption
    <2> QED BY <2>1 DEF Init, BufferInit, LockTyped
  <1> QED BY <1>1, <1>2, <1>3, <1>4, <1>5, <1>6, <1>7 DEF Typed

(* They are what TypesOK says.                                             *)
LEMMA TypedTypesOK == IInv /\ Typed => TypesOK
  <1> SUFFICES ASSUME IInv, Typed PROVE TypesOK OBVIOUS
  <1>1. k \in Kernels
    <2>1. k \in KType /\ Fits(k) BY DEF IInv, Shape, Typed, Fitting
    <2> DEFINE G == 1 .. MaxGen + 1
               P == 0 .. MaxPrio
               L == 0 .. NoWait
               M == 0 .. MaxMissed
    <2>2. /\ \A t \in Slots : k.gen[t] \in G /\ k.prio[t] \in P
                              /\ k.left[t] \in L /\ k.since[t] \in L
          /\ k.missed \in M
      BY <2>1, KernelAssumption DEF KType, Fits, FitsOne, NoWait
    <2> HIDE DEF G, P, L, M
    <2>3. k.gen \in [Slots -> G] /\ k.prio \in [Slots -> P] BY <2>1, <2>2 DEF KType
    <2>4. k.left \in [Slots -> L] /\ k.since \in [Slots -> L] BY <2>1, <2>2 DEF KType
    <2>5. k \in [st : [Slots -> States], gen : [Slots -> G], prio : [Slots -> P],
                 left : [Slots -> L], since : [Slots -> L], cur : Slots, lock : BOOLEAN,
                 late : SUBSET Slots, missed : M, declined : BOOLEAN]
      BY <2>1, <2>2, <2>3, <2>4 DEF KType
    <2> QED BY <2>5 DEF Kernels, G, P, L, M
  <1>2. TypeOK
    BY <1>1 DEF IInv, Shape, Phases, Typed, TasksTyped, CallsTyped, TypeOK
  <1>3. BufferTypeOK
    BY DEF Typed, StreamTyped, StreamBuffers, WireTyped, LockTyped, BufferTypeOK
  <1> QED BY <1>2, <1>3 DEF Typed, TypesOK

(* Every variable keeps its type.                                          *)
THEOREM AlwaysTyped == Spec => []TypesOK
  <1>1. Spec => []Typed
    BY TypedInit, TypedKept, AlwaysFitting, Invariant, PTL DEF Spec
  <1> QED BY <1>1, TypedTypesOK, Invariant, PTL

-----------------------------------------------------------------------------
(* What interrupts leave to the daemon.                                    *)

(* A bit some command is going to set in a group.                          *)
Coming(s, g, b) ==
  \E i \in 1 .. Len(s) : s[i].do = "set" /\ s[i].group = g /\ b \in s[i].bits

(* A bit promised is in the group, or a command is going to set it there.  *)
Promises ==
  /\ \A b \in promised : b \in bits \/ Coming(cmds, made, b)
  /\ ~live => promised = {}
  /\ live => made # NULL

(* The daemon has been woken, or will be when the scheduler is resumed.    *)
Up(kk) == kk.st[Timer] = "ready" \/ Timer \in kk.late
Deferred == Promises /\ (cmds # <<>> => phase = "run" /\ Up(k))

(* A command more, and a command carried out.                              *)
LEMMA ComingAppend ==
  ASSUME NEW s \in Seq(Cmds), NEW c \in Cmds, NEW g, NEW b
  PROVE  /\ Coming(s, g, b) => Coming(Append(s, c), g, b)
         /\ c.do = "set" /\ c.group = g /\ b \in c.bits => Coming(Append(s, c), g, b)
  <1>1. /\ Len(s) \in Nat /\ Len(Append(s, c)) = Len(s) + 1
        /\ \A i \in 1 .. Len(s) : Append(s, c)[i] = s[i]
        /\ Append(s, c)[Len(s) + 1] = c
    OBVIOUS
  <1>2. \A i \in 1 .. Len(s) : i \in 1 .. Len(Append(s, c)) BY <1>1
  <1>3. Len(s) + 1 \in 1 .. Len(Append(s, c)) BY <1>1
  <1> QED BY <1>1, <1>2, <1>3 DEF Coming

LEMMA ComingTail ==
  ASSUME NEW s \in Seq(Cmds), s # <<>>, NEW g, NEW b, Coming(s, g, b)
  PROVE  \/ Coming(Tail(s), g, b)
         \/ Head(s).do = "set" /\ Head(s).group = g /\ b \in Head(s).bits
  <1>1. PICK i \in 1 .. Len(s) : s[i].do = "set" /\ s[i].group = g /\ b \in s[i].bits
    BY DEF Coming
  <1>2. CASE i = 1
    <2>1. Head(s) = s[1] OBVIOUS
    <2> QED BY <1>1, <1>2, <2>1
  <1>3. CASE i # 1
    <2>1. i - 1 \in 1 .. Len(Tail(s)) /\ Tail(s)[i - 1] = s[i] BY <1>1, <1>3
    <2> QED BY <1>1, <2>1 DEF Coming
  <1> QED BY <1>2, <1>3

(* A change of the bits that commands have nothing to do with.             *)
LEMMA PromisesKept ==
  ASSUME Promises, UNCHANGED <<made, live, cmds>>,
         \/ \E b, more : set_bits(b, more)
         \/ \E b : clear_bits(b)
         \/ UNCHANGED <<bits, promised>>
  PROVE  Promises'
  BY DEF Promises, set_bits, clear_bits

(* The calls on groups keep the promises, and leave the commands alone.    *)
LEMMA GroupCallPromises ==
  ASSUME Promises, GroupTypeOK, NEW t \in Slots, GroupCall(t)
  PROVE  Promises' /\ cmds' = cmds
  <1>1. CASE xEventGroupCreate(t)
    <2>1. UNCHANGED <<cmds, promised>> BY <1>1 DEF xEventGroupCreate
    <2>2. CASE ~live /\ made' = made + 1 /\ live' = TRUE
      <3>1. promised' = {} /\ made' # NULL
        BY <2>1, <2>2, GroupsAssumption DEF Promises, GroupTypeOK, NULL
      <3> QED BY <2>1, <3>1 DEF Promises
    <2>3. CASE UNCHANGED <<made, live, bits>> BY <2>1, <2>3, PromisesKept
    <2> QED BY <1>1, <2>1, <2>2, <2>3 DEF xEventGroupCreate
  <1>2. CASE vEventGroupDelete(t)
    <2>1. UNCHANGED <<cmds, made>> BY <1>2 DEF vEventGroupDelete
    <2>2. CASE live' = FALSE /\ promised' = {} BY <2>1, <2>2 DEF Promises
    <2>3. CASE UNCHANGED <<live, bits, promised>> BY <2>1, <2>3, PromisesKept
    <2> QED BY <1>2, <2>1, <2>2, <2>3 DEF vEventGroupDelete
  <1>3. CASE xEventGroupSetBits(t) BY <1>3, PromisesKept DEF xEventGroupSetBits
  <1>4. CASE xEventGroupClearBits(t) BY <1>4, PromisesKept DEF xEventGroupClearBits
  <1>5. CASE xEventGroupWaitBits(t) BY <1>5, PromisesKept DEF xEventGroupWaitBits
  <1>6. CASE xEventGroupSync(t)
    <2>1. UNCHANGED <<made, live, cmds>> BY <1>6 DEF xEventGroupSync
    <2>2. \/ \E b, more : set_bits(b, more)
          \/ \E b : clear_bits(b)
          \/ UNCHANGED <<bits, promised>>
      BY <1>6, Zenon DEF xEventGroupSync
    <2> QED BY <2>1, <2>2, PromisesKept
  <1> QED BY <1>1, <1>2, <1>3, <1>4, <1>5, <1>6 DEF GroupCall

(* A command of the daemon's sets the bits it was to set.                  *)
LEMMA DaemonPromises ==
  ASSUME Promises, GroupTypeOK, NEW t \in Slots, timer_daemon(t)
  PROVE  Promises'
  <1>1. UNCHANGED <<made, live>> BY DEF timer_daemon
  <1>2. CASE UNCHANGED <<cmds, bits, promised>> BY <1>1, <1>2, PromisesKept
  <1>3. CASE cmds # <<>> /\ pended(Head(cmds)) /\ cmds' = Tail(cmds)
    <2> DEFINE c == Head(cmds)
    <2>1. cmds \in Seq(Cmds) BY DEF GroupTypeOK, Cmds
    <2>2. \A b : Coming(cmds, made, b) =>
            Coming(Tail(cmds), made, b) \/ (c.do = "set" /\ c.group = made /\ b \in c.bits)
      BY <1>3, <2>1, ComingTail
    <2>3. c \in Cmds BY <1>3, <2>1
    <2> HIDE DEF c
    <2>4. promised' \subseteq promised
      BY <1>3 DEF pended, set_bits, clear_bits, c
    <2>5. ASSUME NEW b \in promised' PROVE b \in bits' \/ Coming(cmds', made', b)
      <3>1. b \in promised /\ live /\ made # NULL BY <2>4, <2>5 DEF Promises
      <3>2. b \in bits \/ Coming(Tail(cmds), made, b)
            \/ (c.do = "set" /\ c.group = made /\ b \in c.bits)
        BY <2>2, <3>1 DEF Promises
      <3>3. CASE CapiTickHook(c) /\ c.do = "set" /\ set_bits(c.bits, {})
        BY <1>1, <1>3, <2>5, <3>2, <3>3 DEF set_bits
      <3>4. CASE CapiTickHook(c) /\ c.do = "clear" /\ clear_bits(c.bits)
        BY <1>1, <1>3, <2>5, <3>2, <3>4 DEF clear_bits
      <3>5. CASE ~CapiTickHook(c) /\ UNCHANGED <<bits, promised>>
        <4>1. c.group # made BY <3>1, <3>5 DEF CapiTickHook, group_from_c
        <4> QED BY <1>1, <1>3, <3>2, <3>5, <4>1
      <3> QED BY <1>3, <3>3, <3>4, <3>5 DEF pended, c
    <2> QED BY <1>1, <2>4, <2>5 DEF Promises
  <1> QED BY <1>2, <1>3 DEF timer_daemon

(* An interrupt half's command is a promise, and the daemon is told.       *)
LEMMA IsrPromises ==
  ASSUME IInv, Fits(k), Apart, Promises, GroupTypeOK, GroupTypeOK', GroupIsr
  PROVE  Promises' /\ (cmds' = cmds \/ Up(k'))
  <1>1. UNCHANGED <<made, live, bits>> BY IsrPosts
  <1>2. CASE UNCHANGED <<cmds, promised>> BY <1>1, <1>2, PromisesKept
  <1>3. ASSUME NEW c, NEW what \in {"set", "clear"}, NEW woken, Accepts, Post(what, BitsOf[c.x]),
               promised' = promised \cup (IF what = "set" THEN BitsOf[c.x] ELSE {}),
               Rousing(SleepingDaemon, woken)
        PROVE  Promises' /\ Up(k')
    <2> DEFINE more == BitsOf[c.x]
               cmd == [do |-> what, group |-> made, bits |-> more]
               who == SleepingDaemon
    <2>1. cmds \in Seq(Cmds) /\ cmds' \in Seq(Cmds) /\ cmds' = Append(cmds, cmd)
      BY <1>3 DEF GroupTypeOK, Cmds, Post
    <2>2. cmd.do = what /\ cmd.group = made /\ cmd.bits = more OBVIOUS
    <2> HIDE DEF cmd
    <2>3. cmd \in Cmds
      <3>1. Len(cmds) \in Nat /\ Len(Append(cmds, cmd)) = Len(cmds) + 1
            /\ Append(cmds, cmd)[Len(cmds) + 1] = cmd
        BY <2>1
      <3>2. Len(cmds) + 1 \in 1 .. Len(cmds') BY <2>1, <3>1
      <3>3. cmds'[Len(cmds) + 1] \in Cmds BY <2>1, <3>2
      <3> QED BY <2>1, <3>1, <3>3
    <2>4. \A b : Coming(cmds, made, b) => Coming(cmds', made, b)
      BY <2>1, <2>3, ComingAppend
    <2>5. \A b \in more : what = "set" => Coming(cmds', made, b)
      BY <2>1, <2>2, <2>3, ComingAppend
    <2>6. promised' = promised \cup (IF what = "set" THEN more ELSE {}) BY <1>3
    <2> HIDE DEF more
    <2>7. \A b \in promised' : b \in bits' \/ Coming(cmds', made', b)
      BY <1>1, <2>4, <2>5, <2>6 DEF Promises
    <2>8. Promises' BY <1>1, <1>3, <2>7 DEF Promises, Accepts
    <2>9. Up(k')
      <3> DEFINE kk == increment_tick(k)
      <3>1. phase = "run" /\ k' = WakeFromIsr(kk, who) BY <1>3 DEF Rousing, Tick
      <3>2. Wakes(k, kk) /\ k.st[Timer] \in {"ready", "blocked"} /\ Timer \in Slots
        <4>1. k \in KType /\ program \in Programs BY DEF IInv, Shape
        <4> QED BY <3>1, <4>1, TickWakes, BootTyped DEF Apart
      <3> HIDE DEF kk
      <3>3. kk \in KType BY <3>2 DEF Wakes, KOrd
      <3>4. CASE k.st[Timer] = "ready"
        <4>1. kk.st[Timer] = "ready" BY <3>2, <3>4 DEF Wakes
        <4>2. k'.st[Timer] = "ready" \/ (k'.st = kk.st)
          <5>1. CASE kk.lock
            <6>1. \E l : k' = [kk EXCEPT !.late = l] BY <3>1, <5>1, Zenon DEF WakeFromIsr
            <6> QED BY <3>3, <6>1 DEF KType
          <5>2. CASE ~kk.lock BY <3>1, <3>2, <3>3, <4>1, <5>2, WakeRanks DEF WakeFromIsr
          <5> QED BY <5>1, <5>2
        <4> QED BY <4>1, <4>2 DEF Up
      <3>5. CASE k.st[Timer] = "blocked"
        <4>1. Timer \in who BY <3>2, <3>5 DEF SleepingDaemon
        <4> HIDE DEF who
        <4>2. CASE kk.lock
          <5> DEFINE l == kk.late \cup who
          <5>1. k' = [kk EXCEPT !.late = l] BY <3>1, <4>2, Zenon DEF WakeFromIsr
          <5>2. Timer \in l BY <4>1
          <5> HIDE DEF l
          <5>3. k'.late = l BY <3>3, <5>1 DEF KType
          <5> QED BY <5>2, <5>3 DEF Up
        <4>3. CASE ~kk.lock
          <5>1. k' = Wake(kk, who) BY <3>1, <4>3 DEF WakeFromIsr
          <5> QED BY <3>2, <3>3, <4>1, <5>1, WakeRanks DEF Up
        <4> QED BY <4>2, <4>3
      <3> QED BY <3>2, <3>4, <3>5
    <2> QED BY <2>8, <2>9
  <1> QED BY <1>2, <1>3, IsrPosts

(* Every step.                                                             *)
LEMMA DeferredKept ==
  IInv /\ Faithful /\ Arguments /\ Typed /\ Typed' /\ Deferred /\ [Next]_vars => Deferred'
  <1> SUFFICES ASSUME IInv, Faithful, Arguments, Typed, Typed', Deferred, [Next]_vars
               PROVE  Deferred'
    OBVIOUS
  <1>1. /\ k \in KType /\ program \in Programs /\ Fits(k) /\ Apart
        /\ GroupTypeOK /\ GroupTypeOK' /\ Timer \in Slots
    BY BootTyped DEF IInv, Shape, Typed, Fitting
  <1>2. ASSUME UNCHANGED groupVars PROVE Promises' /\ cmds' = cmds
    BY <1>2, PromisesKept DEF groupVars, Deferred
  <1>3. ASSUME Spare(k, k', Timer), phase = "run", Up(k) PROVE Up(k')
    BY <1>1, <1>3 DEF Spare, Up, Apart
  <1>4. ASSUME UNCHANGED program, phase' = "run", Promises', cmds' # <<>> => Up(k')
        PROVE  Deferred'
    BY <1>4 DEF Deferred, Up, Timer, Idle, Boot
  <1>5. ASSUME NEW t \in Slots, Acts(t), cmds' = cmds, Promises' PROVE Deferred'
    <2>1. Frame(t) BY <1>5, ActsFrame
    <2>2. phase = "run" /\ phase' = "run" /\ UNCHANGED program BY <2>1 DEF Frame
    <2>3. ASSUME cmds # <<>> PROVE Up(k')
      <3>1. Up(k) BY <2>3 DEF Deferred
      <3>2. Tame(k, k', {t} \cup Ours, {t} \cup Born) BY <1>1, <1>5, ActsTame
      <3>3. Timer \notin Ours BY <1>1, TasksAssumption DEF Apart, Ours
      <3>4. CASE t # Timer
        <4>1. Spare(k, k', Timer) BY <1>1, <3>2, <3>3, <3>4 DEF Tame
        <4> QED BY <1>3, <2>2, <3>1, <4>1
      <3>5. CASE t = Timer
        <4>1. pc[t] \in Daemons BY <1>1, <2>2, <3>5 DEF Apart
        <4>2. CASE Leave(t)
          <5>1. k' = k BY <4>2 DEF Leave
          <5> QED BY <3>1, <5>1
        <4>3. CASE timer_daemon(t)
          <5>1. pended(Head(cmds)) BY <2>3, <4>3 DEF timer_daemon
          <5>2. k' = k \/ k' = Wake(k, Released(Head(cmds).bits)) BY <5>1 DEF pended
          <5>3. Tame(k, k', {}, {}) BY <1>1, <5>2, ReleasedAlive, TameNone, WakeTame
          <5> QED BY <1>1, <1>3, <2>2, <3>1, <5>3 DEF Tame
        <4> QED BY <1>5, <4>1, <4>2, <4>3, DaemonOnly
      <3> QED BY <3>4, <3>5
    <2> QED BY <1>4, <1>5, <2>2, <2>3
  <1>6. ASSUME NEW t \in Slots, timer_daemon(t) PROVE Deferred'
    <2>1. Promises' BY <1>1, <1>6, DaemonPromises DEF Deferred
    <2>2. Acts(t) BY <1>6 DEF Acts
    <2>3. Frame(t) BY <2>2, ActsFrame
    <2>4. phase = "run" /\ phase' = "run" /\ UNCHANGED program BY <2>3 DEF Frame
    <2>5. CASE cmds = <<>>
      <3>1. cmds' = cmds BY <1>6, <2>5 DEF timer_daemon
      <3> QED BY <1>4, <2>1, <2>4, <2>5, <3>1
    <2>6. CASE cmds # <<>>
      <3>1. pended(Head(cmds)) BY <1>6, <2>6 DEF timer_daemon
      <3>2. k' = k \/ k' = Wake(k, Released(Head(cmds).bits)) BY <3>1 DEF pended
      <3>3. Tame(k, k', {}, {}) BY <1>1, <3>2, ReleasedAlive, TameNone, WakeTame
      <3>4. Up(k) BY <2>6 DEF Deferred
      <3> QED BY <1>1, <1>3, <1>4, <2>1, <2>4, <3>3, <3>4 DEF Tame
    <2> QED BY <2>5, <2>6
  <1>7. ASSUME Ticks, Promises', cmds' = cmds \/ Up(k') PROVE Deferred'
    <2>1. phase = "run" /\ phase' = "run" /\ UNCHANGED program BY <1>7, TicksFrame
    <2>2. Tame(k, k', {}, {}) BY <1>1, <1>7, TicksTame
    <2>3. Spare(k, k', Timer) BY <1>1, <2>2 DEF Tame
    <2> QED BY <1>3, <1>4, <1>7, <2>1, <2>3 DEF Deferred
  <1>8. CASE pick_next /\ UNCHANGED groupVars
    <2>1. UNCHANGED program /\ phase = "run" BY <1>8 DEF pick_next
    <2>2. phase' = "run"
      <3>1. IInv' BY <1>8, SwitchKeeps
      <3> QED BY <1>8, <3>1 DEF pick_next, IInv, Shape, Phases
    <2>3. Tame(k, k', {}, {}) BY <1>1, <1>8, SwitchTame DEF pick_next
    <2>4. Spare(k, k', Timer) BY <1>1, <2>3 DEF Tame
    <2> QED BY <1>2, <1>3, <1>4, <1>8, <2>1, <2>2, <2>4 DEF Deferred
  <1>9. CASE main /\ UNCHANGED groupVars
    <2>1. phase # "run"
      BY <1>9 DEF main, CreateMonitor, ArmMonitor, StartDemo, start_scheduler, ArmBoth,
                  start_first_task, AllArmed
    <2>2. cmds = <<>> BY <2>1 DEF Deferred
    <2> QED BY <1>2, <1>9, <2>2 DEF Deferred
  <1>10. CASE UNCHANGED vars
    <2>1. UNCHANGED <<k, phase, program, groupVars>> BY <1>10 DEF vars, taskVars
    <2> QED BY <1>2, <2>1 DEF Deferred, Up, Timer, Idle, Boot
  <1>11. CASE (main \/ pick_next \/ Tasks \/ SysTick({})) /\ UNCHANGED groupVars
    <2>1. SysTick({}) => Ticks BY HalvesTick
    <2> QED BY <1>2, <1>5, <1>7, <1>8, <1>9, <1>11, <2>1 DEF Tasks, Acts
  <1>12. CASE (Notifies \/ Buffers) /\ UNCHANGED groupVars
    BY <1>2, <1>5, <1>12 DEF Notifies, Buffers, Acts
  <1>13. CASE (NotifyIsr \/ BuffersIsr) /\ UNCHANGED groupVars
    BY <1>2, <1>7, <1>13, HalvesTick
  <1>14. CASE Groups
    <2>1. PICK t \in Slots : GroupCall(t) \/ timer_daemon(t) BY <1>14 DEF Groups
    <2>2. CASE GroupCall(t)
      BY <1>1, <1>5, <2>2, GroupCallPromises DEF Acts, Deferred
    <2> QED BY <1>6, <2>1, <2>2
  <1>15. CASE GroupIsr BY <1>1, <1>7, <1>15, IsrPromises, HalvesTick DEF Deferred
  <1> QED BY <1>10, <1>11, <1>12, <1>13, <1>14, <1>15 DEF Next

(* Nobody waits for a task it outranks, but for the daemon while the first *)
(* of its commands is a clear: an interrupt woke it with that, and told    *)
(* nobody.                                                                 *)
Excused == IF ClearFirst THEN {Timer} ELSE {}
Heeding == Heeded(Excused)

(* Excusing more tasks asks for less.                                      *)
LEMMA HeededMore ==
  ASSUME NEW E, NEW F, E \subseteq F, Heeded(E)
  PROVE  Heeded(F)
  BY DEF Heeded, NoneOutranks

(* The program that was started is the one that runs.                      *)
LEMMA ProgramStays == ASSUME IInv, Faithful, [Next]_vars PROVE program' = program
  <1>1. CASE main
    BY <1>1 DEF main, CreateMonitor, ArmMonitor, StartDemo, start_scheduler, ArmBoth,
                start_first_task, AllArmed
  <1>2. CASE pick_next BY <1>2 DEF pick_next
  <1>3. CASE SysTick({}) \/ NotifyIsr \/ GroupIsr \/ BuffersIsr BY <1>3, HalvesTick, TicksFrame
  <1>4. CASE Tasks \/ Notifies \/ Groups \/ Buffers
    <2>1. PICK t \in Slots : Acts(t) BY <1>4 DEF Tasks, Notifies, Groups, Buffers, Acts
    <2> QED BY <2>1, ActsFrame DEF Frame
  <1>5. CASE UNCHANGED vars BY <1>5 DEF vars, taskVars
  <1> QED BY <1>1, <1>2, <1>3, <1>4, <1>5 DEF Next

(* The first command stays that, unless the daemon takes it, and then the  *)
(* daemon is running.                                                      *)
LEMMA FirstStays ==
  ASSUME IInv, GroupTypeOK, [Next]_vars
  PROVE  \/ ClearFirst => ClearFirst'
         \/ phase' = "run" /\ ~Heedful(k.cur)'
  <1> DEFINE Goal == \/ ClearFirst => ClearFirst'
                     \/ phase' = "run" /\ ~Heedful(k.cur)'
  <1>1. cmds \in Seq(Cmds) BY DEF GroupTypeOK, Cmds
  <1>2. CASE cmds' = cmds BY <1>2 DEF ClearFirst
  <1>3. ASSUME NEW c, cmds' = Append(cmds, c) PROVE Goal
    <2>1. cmds # <<>> => Append(cmds, c) # <<>> /\ Head(Append(cmds, c)) = Head(cmds)
      BY <1>1
    <2> QED BY <1>3, <2>1 DEF ClearFirst
  <1>4. ASSUME NEW t \in Slots, timer_daemon(t), cmds # <<>> PROVE Goal
    <2>1. /\ k.cur = t /\ pc[t] = "daemon" /\ phase = "run" /\ phase' = phase
          /\ pc' = pc /\ pended(Head(cmds))
      BY <1>4 DEF timer_daemon, At, CanRun, still
    <2>2. k' = k \/ k' = Wake(k, Released(Head(cmds).bits)) BY <2>1 DEF pended
    <2>3. k'.cur = k.cur BY <2>2, WakeRanks DEF IInv, Shape, Ranks
    <2> QED BY <2>1, <2>3 DEF Heedful
  <1>5. CASE Groups
    <2>1. PICK t \in Slots : GroupCall(t) \/ timer_daemon(t) BY <1>5 DEF Groups
    <2>2. CASE GroupCall(t)
      <3>1. cmds' = cmds
        BY <2>2 DEF GroupCall, xEventGroupCreate, vEventGroupDelete, xEventGroupSetBits,
                    xEventGroupClearBits, xEventGroupWaitBits, xEventGroupSync
      <3> QED BY <1>2, <3>1
    <2>3. CASE timer_daemon(t) BY <1>2, <1>4, <2>3 DEF timer_daemon
    <2> QED BY <2>1, <2>2, <2>3
  <1>6. CASE GroupIsr BY <1>2, <1>3, <1>6, IsrPosts DEF Post
  <1>7. CASE UNCHANGED groupVars BY <1>2, <1>7 DEF groupVars
  <1>8. CASE UNCHANGED vars BY <1>7, <1>8 DEF vars
  <1> QED BY <1>5, <1>6, <1>7, <1>8 DEF Next

(* Every step.                                                             *)
LEMMA HeedingKept ==
  IInv /\ Faithful /\ Typed /\ Deferred /\ Heeding /\ [Next]_vars => Heeding'
  <1> SUFFICES ASSUME IInv, Faithful, Typed, Deferred, Heeding, [Next]_vars PROVE Heeding'
    OBVIOUS
  <1>1. PICK E, F : E = Excused /\ F = Excused' OBVIOUS
  <1>2. Heeded(E) BY <1>1 DEF Heeding
  <1>3. Heeded(F)' => Heeding' BY <1>1 DEF Heeding, Heeded, NoneOutranks
  <1>4. Timer' = Timer BY ProgramStays DEF Timer, Idle, Boot
  <1>5. CASE phase' = "run" /\ ~Heedful(k.cur)' BY <1>5 DEF Heeding, Heeded
  <1>6. CASE ClearFirst => ClearFirst'
    <2>1. E \subseteq F BY <1>1, <1>4, <1>6 DEF Excused
    <2>2. Heeded(F) BY <1>2, <2>1, HeededMore
    <2>3. CASE HeededKept BY <1>3, <2>2, <2>3 DEF HeededKept
    <2>4. CASE GroupIsr /\ ClearTick
      <3>1. PICK c \in program.isr :
              Accepts /\ Post("clear", BitsOf[c.x]) /\ Rousing(SleepingDaemon, FALSE)
        BY <2>4 DEF ClearTick
      <3>2. SleepingDaemon \in SUBSET Slots BY SleepingDaemonAlive
      <3>3. k.lock \/ \A s \in SleepingDaemon : s \in F
        <4> SUFFICES ASSUME ~k.lock, NEW s \in SleepingDaemon PROVE s \in F OBVIOUS
        <4>1. s = Timer /\ k.st[Timer] = "blocked" BY DEF SleepingDaemon
        <4>2. k.late = {} BY DEF Typed, Fitting, Fits
        <4>3. cmds = <<>> BY <4>1, <4>2 DEF Deferred, Up
        <4>4. cmds' = <<[do |-> "clear", group |-> made, bits |-> BitsOf[c.x]]>>
          BY <3>1, <4>3 DEF Post
        <4>5. ClearFirst' BY <4>4 DEF ClearFirst
        <4> QED BY <1>1, <1>4, <4>1, <4>5 DEF Excused
      <3>4. Heeded(F)' BY <2>2, <3>1, <3>2, <3>3, TickHeeds
      <3> QED BY <1>3, <3>4
    <2> QED BY <2>3, <2>4, OthersHeed
  <1>7. GroupTypeOK BY DEF Typed
  <1> QED BY <1>5, <1>6, <1>7, FirstStays

(* What interrupts leave to the daemon, and who may wait, in every         *)
(* behaviour.                                                              *)
LEMMA DeferredAlways == Spec => [](Typed /\ Deferred /\ Heeding)
  <1>1. Init => Deferred
    BY DEF Init, TaskInit, GroupInit, Deferred, Promises
  <1>2. Init => Heeding BY DEF Init, TaskInit, Heeding, Heeded
  <1>3. Spec => []Typed
    BY TypedInit, TypedKept, AlwaysFitting, Invariant, PTL DEF Spec
  <1>4. Spec => []Deferred
    BY <1>1, <1>3, DeferredKept, HandlesFaithful, ArgumentsNameTheirTasks, Invariant, PTL
    DEF Spec
  <1>5. Spec => []Heeding
    BY <1>2, <1>3, <1>4, HeedingKept, HandlesFaithful, Invariant, PTL DEF Spec
  <1> QED BY <1>3, <1>4, <1>5, PTL

(* NoTaskStranded: whatever made a task ready, a call, a tick, ticks made  *)
(* up for, an interrupt half or the end of a suspension, a switch to it    *)
(* has been asked for, or the task on the CPU is about to leave it.  The   *)
(* one exception is the daemon, woken by a clear from an interrupt: the    *)
(* seam tells set_woken of a set from there, and not of a clear.           *)
THEOREM NobodyStranded == Spec => []NoTaskStranded
  <1>1. Heeding => NoTaskStranded
    <2> SUFFICES ASSUME Heeding, InC, NEW t \in Ready(k), Outranks(k, t)
                 PROVE  t = Timer /\ ClearFirst
      BY DEF NoTaskStranded
    <2>1. Heedful(k.cur) BY DEF InC, Heedful, Parting, Leaving
    <2>2. NoneOutranks(k, Excused) BY <2>1 DEF InC, Heeding, Heeded
    <2>3. t \in Excused BY <2>2 DEF NoneOutranks, Ready
    <2> QED BY <2>3 DEF Excused
  <1> QED BY <1>1, DeferredAlways, PTL

(* What interrupts left to the daemon is done before a lower task goes on: *)
(* a task below the daemon that is back in C code has no ready task above  *)
(* it, so that the daemon waits, and it waits only when it has no command. *)
(* With a clear first among the commands, what comes after it may not be   *)
(* done yet.                                                               *)
THEOREM DeferredBitsAlwaysArrive == Spec => []DeferredBitsArrive
  <1>1. ASSUME IInv, Typed, Deferred, Heeding PROVE DeferredBitsArrive
    <2> SUFFICES ASSUME phase = "run", ~owed, ~k.lock, k.prio[k.cur] < TIMER_TASK_PRIORITY,
                        pc[k.cur] \in {"c", "call", "loop"}, ~ClearFirst
                 PROVE  promised \subseteq bits
      BY DEF DeferredBitsArrive
    <2>1. Heedful(k.cur) BY DEF Heedful, Parting, Leaving
    <2>2. NoneOutranks(k, {}) BY <1>1, <2>1 DEF Heeding, Heeded, Excused
    <2>3. k \in KType /\ Timer \in Slots /\ k.prio[Timer] = TIMER_TASK_PRIORITY
      BY <1>1, BootTyped DEF IInv, Shape, Typed, Fitting, Apart
    <2>4. k.prio[k.cur] \in Nat /\ TIMER_TASK_PRIORITY \in Nat BY <2>3, TimerClamp DEF KType
    <2>5. k.st[Timer] # "ready" BY <2>2, <2>3, <2>4 DEF NoneOutranks, Outranks
    <2>6. k.late = {} BY <1>1 DEF Typed, Fitting, Fits
    <2>7. cmds = <<>> BY <1>1, <2>5, <2>6 DEF Deferred, Up
    <2>8. Len(cmds) = 0 BY <2>7
    <2>9. \A b \in promised : b \in bits \/ Coming(cmds, made, b)
      BY <1>1 DEF Deferred, Promises
    <2> QED BY <2>8, <2>9 DEF Coming
  <1> QED BY <1>1, DeferredAlways, Invariant, PTL
=============================================================================
