---------------------------- MODULE Turns_proofs ----------------------------
(***************************************************************************)
(* Whatever the tasks and their priorities: no switch asked of a core is   *)
(* lost, a turn finds its core's switch made, and the task lock keeps the  *)
(* processor.                                                              *)
(***************************************************************************)
EXTENDS Turns, TLAPS

(* As OnRecord, and a switch the suspended scheduler declined was the one  *)
(* of the core that suspended it, which still has the turn.                *)
Kept(c) ==
  \/ c \in OWED \cup k.yields
  \/ pend /\ core = c /\ depth = 1
  \/ c \in k.repend /\ (leaves[k.cur[c]] \/ (k.lock /\ core = c))

CallsEnd == \A t \in Tasks : pc[t] = "c" => ~leaves[t]
NoPassInside == depth = 1 => pc[thread] # "pass"

IInv ==
  /\ TypeOK
  /\ PassIsFresh
  /\ \A c \in k.asked : Kept(c)
  /\ CallsEnd
  /\ NoPassInside

(* A kernel operation on core here: the current tasks and the declined     *)
(* switches stay, and a new request to another core is left to be taken.   *)
Operation(kk, here) ==
  /\ kk \in Kernels
  /\ kk.cur = k.cur
  /\ kk.repend = k.repend
  /\ k.asked \subseteq kk.asked
  /\ k.yields \subseteq kk.yields
  /\ kk.asked \ k.asked \subseteq kk.yields \cup {here}

(* What pick does with a collected kernel kk and the switches owed.        *)
Declined(c) == c \in k'.repend /\ k'.lock /\ core' = c

PickDone(kk, owed, plain) ==
  /\ k' \in Kernels
  /\ k'.cur[0] # k'.cur[1]
  /\ core' \in Cores
  /\ thread' = k'.cur[core']
  /\ OWED' \subseteq Cores
  /\ PASS' = FALSE
  /\ k'.yields = {}
  /\ k'.lock = kk.lock
  /\ \A c \in k'.asked :
       /\ c \in kk.asked
       /\ k'.cur[c] = kk.cur[c]
       /\ c \in kk.repend => c \in k'.repend
       /\ c \in owed => c \in OWED' \/ Declined(c)
  /\ plain /\ core \in k'.asked => Declined(core)
  /\ kk.lock => core' = core /\ k'.cur = kk.cur
  /\ core' # core => core' \notin OWED' /\ ~k'.lock

(* What the steps do to the turn.                                          *)
TurnMoves ==
  /\ k'.lock => thread' = thread
  /\ core' # core => /\ core' \notin OWED' \cup k'.yields
                     /\ ~k'.lock /\ depth' = 0 /\ thread' = k'.cur[core']

-----------------------------------------------------------------------------
(* switch_context on a core: declined, or the core runs a task of its own  *)
(* and is asked no more.                                                   *)
LEMMA SwitchContext ==
  ASSUME NEW kk \in Kernels, kk.cur[0] # kk.cur[1], NEW c \in Cores,
         NEW q \in switch_context(kk, c)
  PROVE  /\ q \in Kernels
         /\ q.cur[0] # q.cur[1]
         /\ q.lock = kk.lock
         /\ q.yields = kk.yields
         /\ kk.lock => q.cur = kk.cur /\ q.asked = kk.asked
                       /\ q.repend = kk.repend \cup {c}
         /\ ~kk.lock => /\ q.asked = kk.asked \ {c}
                        /\ q.repend = kk.repend \ {c}
                        /\ q.cur[Other(c)] = kk.cur[Other(c)]
<1>1. CASE kk.lock
  <2>1. q = [kk EXCEPT !.repend = @ \cup {c}]
    BY <1>1 DEF switch_context
  <2> QED
    BY <1>1, <2>1 DEF Kernels
<1>2. CASE ~kk.lock
  <2>1. PICK t \in Nexts(kk, c) :
          q = [kk EXCEPT !.cur[c] = t, !.asked = @ \ {c}, !.repend = @ \ {c}]
    BY <1>2 DEF switch_context
  <2>2. t \in kk.ready /\ t # kk.cur[Other(c)]
    BY DEF Nexts, Best
  <2>3. t \in Tasks
    BY <2>2 DEF Kernels
  <2>4. q \in Kernels /\ q.lock = kk.lock /\ q.yields = kk.yields
        /\ q.asked = kk.asked \ {c} /\ q.repend = kk.repend \ {c}
        /\ q.cur = [kk.cur EXCEPT ![c] = t]
    BY <2>1, <2>3 DEF Kernels
  <2>5. q.cur[c] = t /\ q.cur[Other(c)] = kk.cur[Other(c)]
    BY <2>4 DEF Kernels, Cores, Other
  <2>6. q.cur[0] # q.cur[1]
    BY <2>5, <2>2 DEF Cores, Other
  <2> QED
    BY <1>2, <2>4, <2>5, <2>6
<1> QED
  BY <1>1, <1>2

(* The pick of every caller does what PickDone says.                       *)
LEMMA PickDoes ==
  ASSUME TypeOK, NEW kk \in Kernels, kk.cur = k.cur, kk.yields = {},
         NEW owed \in SUBSET Cores, NEW in_isr \in BOOLEAN, NEW passing \in BOOLEAN,
         pick(kk, owed, core, in_isr, passing)
  PROVE  PickDone(kk, owed, ~in_isr /\ ~passing)
<1> DEFINE other == Other(core)
<1>1. kk.cur[0] # kk.cur[1] /\ core \in Cores /\ other \in Cores /\ other # core
  BY DEF TypeOK, Cores, Other
<1>2. PASS' = FALSE /\ thread' = k'.cur[core']
  BY DEF pick, TakePass, Grant
<1>3. CASE KeepTurn(kk, owed, core) /\ (in_isr \/ passing)
  BY <1>1, <1>2, <1>3 DEF PickDone, KeepTurn
<1>4. CASE SwitchHere(kk, owed, core)
  <2>1. k' \in switch_context(kk, core) /\ core' = core /\ OWED' = owed \ {core}
    BY <1>4 DEF SwitchHere
  <2>2. /\ k' \in Kernels
        /\ k'.cur[0] # k'.cur[1]
        /\ k'.lock = kk.lock
        /\ k'.yields = {}
        /\ kk.lock => k'.cur = kk.cur /\ k'.asked = kk.asked
                      /\ k'.repend = kk.repend \cup {core}
        /\ ~kk.lock => /\ k'.asked = kk.asked \ {core}
                       /\ k'.repend = kk.repend \ {core}
                       /\ k'.cur[other] = kk.cur[other]
    BY <1>1, <2>1, SwitchContext
  <2>3. CASE kk.lock
    BY <1>1, <1>2, <2>1, <2>2, <2>3 DEF PickDone, Declined
  <2>4. CASE ~kk.lock
    <3>1. k'.asked \subseteq {other}
      BY <2>2, <2>4 DEF Kernels, Cores, Other, TypeOK
    <3> QED
      BY <1>1, <1>2, <2>1, <2>2, <2>4, <3>1 DEF PickDone, Declined
  <2> QED
    BY <2>3, <2>4
<1>5. CASE ~kk.lock /\ PassTurn(kk, owed, core) /\ (in_isr \/ passing)
  <2>1. CASE other \in owed
    <3>1. k' \in switch_context(kk, other) /\ core' = other /\ OWED' = owed \ {other}
      BY <1>5, <2>1 DEF PassTurn, SwitchHere
    <3>2. /\ k' \in Kernels
          /\ k'.cur[0] # k'.cur[1]
          /\ k'.lock = kk.lock
          /\ k'.yields = {}
          /\ k'.asked = kk.asked \ {other}
          /\ k'.repend = kk.repend \ {other}
          /\ k'.cur[Other(other)] = kk.cur[Other(other)]
      BY <1>1, <1>5, <3>1, SwitchContext
    <3>3. k'.asked \subseteq {core} /\ Other(other) = core
      BY <3>2 DEF Kernels, Cores, Other, TypeOK
    <3> QED
      BY <1>1, <1>2, <1>5, <3>1, <3>2, <3>3 DEF PickDone, Declined
  <2>2. CASE other \notin owed
    <3>1. k' = kk /\ core' = other /\ OWED' = owed
      BY <1>5, <2>2 DEF PassTurn, KeepTurn
    <3> QED
      BY <1>1, <1>2, <1>5, <2>2, <3>1 DEF PickDone, Declined
  <2> QED
    BY <2>1, <2>2
<1> QED
  BY <1>3, <1>4, <1>5 DEF pick, TurnHeld
-----------------------------------------------------------------------------
(* Asking cores to reschedule is an operation, and so is what follows one. *)
LEMMA AskOperates ==
  ASSUME NEW here \in Cores, NEW jj, Operation(jj, here), NEW kk \in Asks(jj, here)
  PROVE  Operation(kk, here) /\ kk.lock = jj.lock
<1>1. PICK a \in SUBSET MayAsk(jj) :
        kk = [jj EXCEPT !.asked = @ \cup a, !.yields = @ \cup (a \ {here})]
  BY DEF Asks
<1>2. a \subseteq Cores
  BY DEF MayAsk
<1>3. kk.asked = jj.asked \cup a /\ kk.yields = jj.yields \cup (a \ {here})
      /\ kk.cur = jj.cur /\ kk.repend = jj.repend /\ kk.lock = jj.lock
  BY <1>1 DEF Kernels, Operation
<1>4. kk \in Kernels
  BY <1>1, <1>2 DEF Kernels, Operation
<1> QED
  BY <1>3, <1>4 DEF Operation

(* So is a waking, by a task or by an interrupt.                           *)
LEMMA WakeOperates ==
  ASSUME NEW here \in Cores, NEW jj, Operation(jj, here),
         NEW us \in SUBSET Tasks, NEW kk \in Wake(jj, us, here)
  PROVE  Operation(kk, here) /\ kk.lock = jj.lock
<1> DEFINE r == [jj EXCEPT !.ready = @ \cup us]
<1>1. r \in Kernels /\ r.lock = jj.lock /\ r.asked = jj.asked /\ r.yields = jj.yields
      /\ r.cur = jj.cur /\ r.repend = jj.repend
  BY DEF Operation, Kernels
<1>2. Operation(r, here)
  BY <1>1 DEF Operation
<1>3. kk \in Asks(r, here)
  BY DEF Wake
<1> HIDE DEF r
<1> QED
  BY <1>1, <1>2, <1>3, AskOperates

LEMMA IsrWakeOperates ==
  ASSUME NEW jj, Operation(jj, 0), NEW us \in SUBSET Tasks,
         NEW kk \in WakeFromIsr(jj, us)
  PROVE  Operation(kk, 0) /\ kk.lock = jj.lock
<1> DEFINE p == [jj EXCEPT !.pending = @ \cup us]
<1>1. p \in Kernels /\ p.lock = jj.lock /\ p.asked = jj.asked /\ p.yields = jj.yields
      /\ p.cur = jj.cur /\ p.repend = jj.repend
  BY DEF Operation, Kernels
<1>2. Operation(p, 0) /\ 0 \in Cores
  BY <1>1 DEF Operation, Cores
<1>3. CASE jj.lock
  <2>1. kk \in Asks(p, 0)
    BY <1>3 DEF WakeFromIsr
  <2> HIDE DEF p
  <2> QED
    BY <1>1, <1>2, <2>1, AskOperates
<1>4. CASE ~jj.lock
  BY <1>2, <1>4, WakeOperates DEF WakeFromIsr
<1> QED
  BY <1>3, <1>4

(* A kernel operation under with_kernel, by a task inside its call.        *)
LEMMA WithKernelKeeps ==
  ASSUME IInv, NEW t \in Tasks, Runs(t), pc[t] = "c",
         NEW kk, Operation(kk, core), WithKernel(t, kk),
         NEW ends \in BOOLEAN, KernelCall(t, ends),
         ~k.lock \/ kk.lock \/ (depth = 0 /\ (core \in k.repend => ends))
  PROVE  IInv'
<1> DEFINE jj == Collected(kk)
           asksHere == core \in kk.asked \ k.asked
<1>1. /\ jj \in Kernels /\ jj.cur = k.cur /\ jj.yields = {} /\ jj.lock = kk.lock
      /\ jj.asked = kk.asked /\ jj.repend = k.repend
  BY DEF Collected, Operation, Kernels
<1>2. Banked(kk) \in SUBSET Cores /\ OWED \cup k.yields \subseteq Banked(kk)
      /\ kk.asked \ k.asked \subseteq Banked(kk) \cup {core}
  BY DEF Banked, Operation, TypeOK, IInv, Kernels
<1>3. PASS = FALSE
  BY DEF IInv, TypeOK, PassIsFresh, Runs
<1>4. pc' = [pc EXCEPT ![t] = "after"] /\ leaves' = [leaves EXCEPT ![t] = ends]
      /\ depth' = depth
  BY DEF KernelCall
<1>5. thread = t /\ k.cur[core] = t /\ core \in Cores
  BY DEF Runs, IInv, TypeOK
<1>6. CallsEnd'
  <2>1. SUFFICES ASSUME NEW u \in Tasks, pc'[u] = "c" PROVE ~leaves'[u]
    BY DEF CallsEnd
  <2>2. u # t /\ pc[u] = "c" /\ leaves'[u] = leaves[u]
    BY <1>4, <2>1 DEF IInv, TypeOK
  <2> QED
    BY <2>2 DEF IInv, CallsEnd
<1>7. /\ depth \in {0, 1} /\ pend' \in BOOLEAN
      /\ pend => pend'
      /\ asksHere /\ depth = 1 => pend'
  <2>1. pend' = (pend \/ (asksHere /\ depth > 0)) /\ depth \in {0, 1}
        /\ pend \in BOOLEAN
    BY DEF WithKernel, IInv, TypeOK
  <2>2. depth = 1 => depth > 0
    OBVIOUS
  <2> HIDE DEF asksHere
  <2> QED
    BY <2>1, <2>2, Zenon
<1>8. pc' \in [Tasks -> PCs] /\ leaves' \in [Tasks -> BOOLEAN] /\ pend' \in BOOLEAN
      /\ depth' \in {0, 1}
  BY <1>4, <1>7 DEF IInv, TypeOK, PCs
<1>9. \A c \in Cores : c # core => /\ k.cur[c] # t
                                  /\ leaves'[k.cur[c]] = leaves[k.cur[c]]
  BY <1>4, <1>5 DEF IInv, TypeOK, Cores, Kernels
<1>10. CASE asksHere /\ depth = 0
  <2>1. pick(jj, Banked(kk), core, FALSE, PASS)
    BY <1>10 DEF WithKernel
  <2>2. PickDone(jj, Banked(kk), TRUE)
    BY <1>1, <1>2, <1>3, <2>1, PickDoes DEF IInv
  <2>3. TypeOK' /\ PassIsFresh' /\ NoPassInside'
    BY <1>4, <1>8, <1>10, <2>2 DEF PickDone, TypeOK, PassIsFresh, NoPassInside
  <2>4. ASSUME NEW c \in k'.asked PROVE Kept(c)'
    <3>1. CASE c = core
      BY <2>2, <3>1 DEF PickDone, Declined, Kept
    <3>2. CASE c # core /\ c \in Banked(kk)
      BY <2>2, <3>2 DEF PickDone, Declined, Kept
    <3>3. CASE c # core /\ c \notin Banked(kk)
      <4>1. c \in k.asked /\ c \in Cores /\ Kept(c)
        BY <1>1, <1>2, <2>2, <3>3 DEF PickDone, IInv, TypeOK, Kernels
      <4>2. c \in k.repend /\ leaves[k.cur[c]]
        BY <1>2, <3>3, <4>1 DEF Kept
      <4> QED
        BY <1>1, <1>9, <2>2, <3>3, <4>1, <4>2 DEF PickDone, Kept
    <3> QED
      BY <3>1, <3>2, <3>3
  <2> QED
    BY <1>6, <2>3, <2>4 DEF IInv
<1>11. CASE ~(asksHere /\ depth = 0)
  <2>1. k' = jj /\ OWED' = Banked(kk) /\ core' = core /\ thread' = thread /\ PASS' = PASS
    BY <1>11 DEF WithKernel
  <2>2. TypeOK' /\ PassIsFresh' /\ NoPassInside'
    BY <1>1, <1>2, <1>3, <1>4, <1>5, <1>8, <2>1
       DEF IInv, TypeOK, PassIsFresh, NoPassInside
  <2>3. ASSUME NEW c \in k'.asked PROVE Kept(c)'
    <3>1. CASE c \in Banked(kk)
      BY <2>1, <3>1 DEF Kept
    <3>2. CASE c \notin Banked(kk) /\ c \notin k.asked
      <4>1. c = core /\ asksHere
        BY <1>1, <1>2, <2>1, <3>2
      <4>2. depth = 1 /\ pend'
        BY <1>7, <1>11, <4>1, Zenon
      <4> QED
        BY <1>4, <2>1, <4>1, <4>2 DEF Kept
    <3>3. CASE c \notin Banked(kk) /\ c \in k.asked
      <4>1. Kept(c) /\ c \in Cores
        BY <3>3 DEF IInv, TypeOK, Kernels
      <4>2. CASE pend /\ core = c /\ depth = 1
        BY <1>4, <1>7, <2>1, <4>2 DEF Kept
      <4>3. CASE c \in k.repend /\ c # core /\ leaves[k.cur[c]]
        BY <1>1, <1>9, <2>1, <4>1, <4>3 DEF Kept
      <4>4. CASE c \in k.repend /\ c = core /\ k.lock
        <5>1. leaves'[t] = ends
          BY <1>4 DEF IInv, TypeOK
        <5> QED
          BY <1>1, <1>5, <2>1, <4>4, <5>1 DEF Kept
      <4>5. CASE c \in k.repend /\ c = core /\ ~k.lock
        BY <1>2, <1>5, <3>3, <4>1, <4>2, <4>5 DEF Kept, IInv, CallsEnd
      <4> QED
        BY <1>2, <3>3, <4>1, <4>2, <4>3, <4>4, <4>5 DEF Kept
    <3> QED
      BY <3>1, <3>2, <3>3
  <2> QED
    BY <1>6, <2>2, <2>3 DEF IInv
<1> QED
  BY <1>10, <1>11

(* A request survives a pick that follows a kernel operation.              *)
LEMMA KeptThroughPick ==
  ASSUME IInv, NEW here \in Cores, NEW kk, Operation(kk, here), kk.lock = k.lock,
         NEW owed \in SUBSET Cores, Banked(kk) \subseteq owed,
         NEW plain \in BOOLEAN, PickDone(Collected(kk), owed, plain),
         ~plain => depth = 0,
         NEW c \in k'.asked,
         c \in k.asked \/ c \in owed,
         leaves'[k.cur[c]] = leaves[k.cur[c]] \/ (plain /\ c = core)
  PROVE  Kept(c)'
<1>1. /\ Collected(kk).cur = k.cur /\ Collected(kk).asked = kk.asked
      /\ Collected(kk).repend = k.repend /\ Collected(kk).lock = k.lock
  BY DEF Collected, Operation, Kernels
<1>2. CASE c \in owed
  BY <1>2 DEF PickDone, Declined, Kept
<1>3. CASE plain /\ c = core
  BY <1>3 DEF PickDone, Declined, Kept
<1>4. CASE c \notin owed /\ ~(plain /\ c = core)
  <2>1. Kept(c) /\ c \notin OWED \cup k.yields
    BY <1>4 DEF IInv, Banked, Operation
  <2>2. ~(pend /\ core = c /\ depth = 1)
    BY <1>4
  <2>3. c \in k.repend /\ (leaves[k.cur[c]] \/ (k.lock /\ core = c))
    BY <2>1, <2>2 DEF Kept
  <2>4. c \in k'.repend /\ k'.cur[c] = k.cur[c]
        /\ (k.lock => core' = core) /\ k'.lock = k.lock
    BY <1>1, <2>3 DEF PickDone
  <2> QED
    BY <1>4, <2>3, <2>4 DEF Kept
<1> QED
  BY <1>2, <1>3, <1>4

(* The kernel as it stands, with nothing done to it.                       *)
LEMMA NothingOperates ==
  ASSUME TypeOK, NEW here
  PROVE  Operation(k, here)
BY DEF TypeOK, Operation

(* What a task asks of the kernel is an operation on its core, and a       *)
(* suspended scheduler stays so unless the task is told to yield for the   *)
(* switch it declined.                                                     *)
LEMMA KernelCallOperates ==
  ASSUME IInv, NEW t \in Tasks,
         \/ WakeCall(t) \/ WaitCall(t) \/ SuspendAll(t) \/ ResumeAll(t) \/ IdleCall(t)
  PROVE  \E kk : \E ends \in BOOLEAN :
           /\ Runs(t) /\ pc[t] = "c"
           /\ Operation(kk, core) /\ WithKernel(t, kk) /\ KernelCall(t, ends)
           /\ ~k.lock \/ kk.lock \/ (depth = 0 /\ (core \in k.repend => ends))
<1>1. TypeOK /\ core \in Cores /\ Operation(k, core)
  BY NothingOperates DEF IInv, TypeOK
<1>2. CASE WakeCall(t)
  <2>1. PICK u \in Asleep(k) : \E kk \in Wake(k, {u}, core) : WithKernel(t, kk)
    BY <1>2 DEF WakeCall
  <2>2. PICK kk \in Wake(k, {u}, core) : WithKernel(t, kk)
    BY <2>1
  <2>3. Operation(kk, core) /\ kk.lock = k.lock
    BY <1>1, <2>2, WakeOperates DEF Asleep
  <2> QED
    BY <1>2, <2>2, <2>3 DEF WakeCall
<1>3. CASE WaitCall(t)
  <2>1. Operation(Block(k, t), core)
    BY <1>1 DEF Operation, Block, Kernels
  <2> QED
    BY <1>3, <2>1 DEF WaitCall
<1>4. CASE SuspendAll(t)
  <2>1. Operation(suspend_all(k), core)
    BY <1>1 DEF Operation, suspend_all, Kernels
  <2> QED
    BY <1>4, <2>1 DEF SuspendAll
<1>5. CASE ResumeAll(t)
  <2>1. PICK kk \in resume_all(k, core) : WithKernel(t, kk)
    BY <1>5 DEF ResumeAll
  <2> DEFINE r == [k EXCEPT !.lock = FALSE, !.pending = {}]
  <2>2. Operation(r, core) /\ k.pending \in SUBSET Tasks
    BY <1>1 DEF Operation, Kernels
  <2>3. kk \in Wake(r, k.pending, core)
    BY <2>1 DEF resume_all
  <2> HIDE DEF r
  <2>4. Operation(kk, core)
    BY <1>1, <2>2, <2>3, WakeOperates
  <2>5. (core \in k.repend) \in BOOLEAN /\ depth = 0
    BY <1>5 DEF ResumeAll
  <2> QED
    BY <1>5, <2>1, <2>4, <2>5 DEF ResumeAll
<1>6. CASE IdleCall(t)
  <2>1. WithKernel(t, k) /\ KernelCall(t, TRUE) /\ Runs(t) /\ pc[t] = "c"
    BY <1>6 DEF IdleCall
  <2>2. ~k.lock \/ k.lock
    BY <1>1 DEF TypeOK, Kernels
  <2> QED
    BY <1>1, <2>1, <2>2
<1> QED
  BY <1>2, <1>3, <1>4, <1>5, <1>6

(* Each action of a task keeps the invariant.                              *)
LEMMA KernelCallsKeep ==
  ASSUME IInv, NEW t \in Tasks,
         \/ WakeCall(t) \/ WaitCall(t) \/ SuspendAll(t) \/ ResumeAll(t) \/ IdleCall(t)
  PROVE  IInv'
BY KernelCallOperates, WithKernelKeeps

LEMMA AfterCallKeeps ==
  ASSUME IInv, NEW t \in Tasks, after_call(t)
  PROVE  IInv'
<1>1. /\ thread = t /\ pc[t] = "after"
      /\ UNCHANGED <<k, core, thread, OWED, depth, pend, leaves>>
  BY DEF after_call, Runs
<1>2. \/ depth > 0 /\ pc' = [pc EXCEPT ![t] = Then(t)] /\ PASS' = PASS
      \/ ~(depth > 0) /\ pc' = [pc EXCEPT ![t] = "pass"] /\ PASS' = TRUE
  BY DEF after_call
<1>3. Then(t) \in {"yield", "c"} /\ (Then(t) = "c" => ~leaves[t])
  BY DEF Then
<1>4. CASE depth > 0 /\ pc' = [pc EXCEPT ![t] = Then(t)] /\ PASS' = PASS
  <2>1. PASS = FALSE
    BY <1>1 DEF IInv, TypeOK, PassIsFresh
  <2>2. TypeOK' /\ PassIsFresh' /\ NoPassInside' /\ CallsEnd'
    BY <1>1, <1>3, <1>4, <2>1
       DEF IInv, TypeOK, PassIsFresh, NoPassInside, CallsEnd, PCs
  <2> QED
    BY <1>1, <2>2 DEF IInv, Kept
<1>5. CASE ~(depth > 0) /\ pc' = [pc EXCEPT ![t] = "pass"] /\ PASS' = TRUE
  <2>1. depth = 0
    BY <1>5 DEF IInv, TypeOK
  <2>2. TypeOK' /\ PassIsFresh' /\ NoPassInside' /\ CallsEnd'
    BY <1>1, <1>5, <2>1 DEF IInv, TypeOK, PassIsFresh, NoPassInside, CallsEnd, PCs
  <2> QED
    BY <1>1, <2>2 DEF IInv, Kept
<1> QED
  BY <1>2, <1>4, <1>5

(* What the pick of a task that yields does.                               *)
LEMMA PickFromTaskDoes ==
  ASSUME IInv, PickFromTask
  PROVE  /\ PickDone(Collected(k), Banked(k), ~PASS)
         /\ Banked(k) \in SUBSET Cores
<1>1. /\ Collected(k) \in Kernels /\ Collected(k).cur = k.cur
      /\ Collected(k).yields = {} /\ TypeOK /\ PASS \in BOOLEAN
      /\ Banked(k) \in SUBSET Cores
  BY DEF IInv, TypeOK, Collected, Kernels, Banked
<1>2. PickDone(Collected(k), Banked(k), ~FALSE /\ ~PASS)
  BY <1>1, PickDoes DEF PickFromTask
<1> QED
  BY <1>1, <1>2

(* A request survives it, plain or passing.                                *)
LEMMA KeptThroughPickFromTask ==
  ASSUME IInv, PickFromTask, PASS => depth = 0, NEW c \in k'.asked,
         leaves'[k.cur[c]] = leaves[k.cur[c]] \/ (~PASS /\ c = core)
  PROVE  Kept(c)'
<1>1. PickDone(Collected(k), Banked(k), ~PASS) /\ Banked(k) \in SUBSET Cores
  BY PickFromTaskDoes
<1>2. core \in Cores /\ Operation(k, core) /\ PASS \in BOOLEAN
  BY NothingOperates DEF IInv, TypeOK
<1>3. c \in k.asked
  BY <1>1, <1>2 DEF PickDone, Collected, Operation, Kernels
<1>4. (~PASS) \in BOOLEAN /\ (~~PASS => depth = 0)
  OBVIOUS
<1> QED
  BY <1>1, <1>2, <1>3, <1>4, KeptThroughPick

LEMMA PassAtCallKeeps ==
  ASSUME IInv, NEW t \in Tasks, PassAtCall(t)
  PROVE  IInv'
<1>1. /\ thread = t /\ pc[t] = "pass" /\ PickFromTask
      /\ pc' = [pc EXCEPT ![t] = Then(t)]
      /\ depth' = depth /\ pend' = pend /\ leaves' = leaves
  BY DEF PassAtCall, Runs
<1>2. depth = 0
  BY <1>1 DEF IInv, TypeOK, NoPassInside
<1>3. PickDone(Collected(k), Banked(k), ~PASS)
  BY <1>1, PickFromTaskDoes
<1>4. Then(t) \in {"yield", "c"} /\ (Then(t) = "c" => ~leaves[t])
  BY DEF Then
<1>5. TypeOK' /\ PassIsFresh' /\ NoPassInside' /\ CallsEnd'
  BY <1>1, <1>2, <1>3, <1>4
     DEF PickDone, IInv, TypeOK, PassIsFresh, NoPassInside, CallsEnd, PCs
<1>6. ASSUME NEW c \in k'.asked PROVE Kept(c)'
  BY <1>1, <1>2, KeptThroughPickFromTask
<1> QED
  BY <1>5, <1>6 DEF IInv

LEMMA YieldNowKeeps ==
  ASSUME IInv, NEW t \in Tasks, yield_now(t)
  PROVE  IInv'
<1>1. /\ thread = t /\ pc[t] = "yield" /\ k.cur[core] = t /\ PASS = FALSE
      /\ pc' = [pc EXCEPT ![t] = "c"]
      /\ leaves' = [leaves EXCEPT ![t] = FALSE]
      /\ depth' = depth /\ depth \in {0, 1}
  BY DEF yield_now, Runs, IInv, TypeOK, PassIsFresh
<1>2. CallsEnd' /\ pc' \in [Tasks -> PCs] /\ leaves' \in [Tasks -> BOOLEAN]
  BY <1>1 DEF IInv, TypeOK, CallsEnd, PCs
<1>3. \A c \in Cores : c # core => /\ k.cur[c] # t
                                  /\ leaves'[k.cur[c]] = leaves[k.cur[c]]
  <2>1. /\ k.cur \in [Cores -> Tasks] /\ k.cur[0] # k.cur[1] /\ core \in Cores
        /\ leaves \in [Tasks -> BOOLEAN]
    BY DEF IInv, TypeOK, Kernels
  <2>2. \A c \in Cores : c # core => k.cur[c] # t /\ k.cur[c] \in Tasks
    BY <1>1, <2>1 DEF Cores
  <2> QED
    BY <1>1, <2>1, <2>2
<1>4. CASE depth = 1
  <2>1. pend' = TRUE /\ UNCHANGED <<k, cell>>
    BY <1>4 DEF yield_now
  <2>2. TypeOK' /\ PassIsFresh' /\ NoPassInside'
    BY <1>1, <1>2, <1>4, <2>1
       DEF cell, IInv, TypeOK, PassIsFresh, NoPassInside
  <2>3. ASSUME NEW c \in k'.asked PROVE Kept(c)'
    <3>1. c \in Cores /\ Kept(c)
      BY <2>1 DEF IInv, TypeOK, Kernels
    <3>2. CASE c = core
      BY <1>1, <1>4, <2>1, <3>2 DEF Kept, cell
    <3>3. CASE c # core
      BY <1>1, <1>3, <2>1, <3>1, <3>3 DEF Kept, cell
    <3> QED
      BY <3>2, <3>3
  <2> QED
    BY <1>2, <2>2, <2>3 DEF IInv
<1>5. CASE depth = 0
  <2>1. PickFromTask /\ pend' = pend
    BY <1>5 DEF yield_now
  <2>2. PickDone(Collected(k), Banked(k), ~PASS)
    BY <2>1, PickFromTaskDoes
  <2>3. TypeOK' /\ PassIsFresh' /\ NoPassInside'
    BY <1>1, <1>2, <1>5, <2>1, <2>2
       DEF PickDone, IInv, TypeOK, PassIsFresh, NoPassInside
  <2>4. ASSUME NEW c \in k'.asked PROVE Kept(c)'
    <3>1. c \in Cores
      BY <2>2 DEF PickDone, Kernels
    <3> QED
      BY <1>1, <1>3, <2>1, <3>1, KeptThroughPickFromTask
  <2> QED
    BY <1>2, <2>3, <2>4 DEF IInv
<1> QED
  BY <1>1, <1>4, <1>5

LEMMA CriticalKeeps ==
  ASSUME IInv, NEW t \in Tasks, EnterCritical(t) \/ ExitCritical(t)
  PROVE  IInv'
<1>1. thread = t /\ pc[t] = "c" /\ PASS = FALSE
  BY DEF EnterCritical, ExitCritical, Runs, IInv, TypeOK, PassIsFresh
<1>2. CASE EnterCritical(t)
  <2>1. depth = 0 /\ depth' = 1 /\ UNCHANGED <<k, core, thread, pc, leaves, OWED, PASS, pend>>
    BY <1>2 DEF EnterCritical, cell
  <2>2. TypeOK' /\ PassIsFresh' /\ NoPassInside' /\ CallsEnd'
    BY <1>1, <2>1 DEF IInv, TypeOK, PassIsFresh, NoPassInside, CallsEnd
  <2> QED
    BY <1>1, <2>1, <2>2 DEF IInv, Kept
<1>3. ASSUME ExitCritical(t)
      PROVE  /\ depth' = 0 /\ pend' = FALSE /\ leaves' = leaves
             /\ pc' = [pc EXCEPT ![t] = "after"]
             /\ CallsEnd' /\ pc' \in [Tasks -> PCs]
  <2>1. /\ depth' = 0 /\ pend' = FALSE
        /\ pc' = [pc EXCEPT ![t] = "after"]
        /\ leaves' = [leaves EXCEPT ![t] = FALSE]
    BY <1>3 DEF ExitCritical
  <2>2. pc \in [Tasks -> PCs] /\ leaves \in [Tasks -> BOOLEAN] /\ leaves[t] = FALSE
    BY <1>1 DEF IInv, TypeOK, CallsEnd
  <2>3. leaves' = leaves /\ pc' \in [Tasks -> PCs]
    BY <2>1, <2>2 DEF PCs
  <2>4. CallsEnd'
    BY <2>1, <2>2, <2>3 DEF IInv, CallsEnd
  <2> QED
    BY <2>1, <2>3, <2>4
<1>4. CASE ExitCritical(t) /\ pend
  <2>1. PickFromTask /\ depth' = 0 /\ pend' = FALSE
    BY <1>4 DEF ExitCritical
  <2>2. PickDone(Collected(k), Banked(k), ~PASS)
    BY <2>1, PickFromTaskDoes
  <2>3. TypeOK' /\ PassIsFresh' /\ NoPassInside'
    BY <1>1, <1>3, <1>4, <2>1, <2>2
       DEF PickDone, IInv, TypeOK, PassIsFresh, NoPassInside
  <2>4. ASSUME NEW c \in k'.asked PROVE Kept(c)'
    BY <1>1, <1>3, <1>4, <2>1, KeptThroughPickFromTask
  <2> QED
    BY <1>3, <1>4, <2>3, <2>4 DEF IInv
<1>5. CASE ExitCritical(t) /\ ~pend
  <2>1. depth' = 0 /\ pend' = FALSE /\ UNCHANGED <<k, core, thread, OWED, PASS>>
    BY <1>5 DEF ExitCritical, cell
  <2>2. TypeOK' /\ PassIsFresh' /\ NoPassInside'
    BY <1>1, <1>3, <1>5, <2>1 DEF IInv, TypeOK, PassIsFresh, NoPassInside
  <2> QED
    BY <1>1, <1>3, <1>5, <2>1, <2>2 DEF IInv, Kept
<1> QED
  BY <1>2, <1>4, <1>5

(* A pick of an interrupt, after whatever it did to the kernel.            *)
LEMMA InterruptKeeps ==
  ASSUME IInv, depth = 0, NEW kk, Operation(kk, 0), kk.lock = k.lock,
         NEW owed \in SUBSET Cores, Banked(kk) \subseteq owed,
         0 \in kk.asked \ k.asked => 0 \in owed,
         pick(Collected(kk), owed, core, TRUE, PASS),
         UNCHANGED <<depth, pend, pc, leaves>>
  PROVE  /\ IInv'
         /\ PickDone(Collected(kk), owed, FALSE)
<1>1. /\ Collected(kk) \in Kernels /\ Collected(kk).cur = k.cur
      /\ Collected(kk).yields = {} /\ Collected(kk).asked = kk.asked
      /\ TypeOK /\ PASS \in BOOLEAN
  BY DEF IInv, TypeOK, Operation, Kernels, Collected
<1>2. PickDone(Collected(kk), owed, ~TRUE /\ ~PASS)
  BY <1>1, PickDoes
<1>3. PickDone(Collected(kk), owed, FALSE)
  BY <1>2
<1>4. TypeOK' /\ PassIsFresh' /\ NoPassInside' /\ CallsEnd'
  BY <1>3 DEF PickDone, IInv, TypeOK, PassIsFresh, NoPassInside, CallsEnd
<1>5. ASSUME NEW c \in k'.asked PROVE Kept(c)'
  <2>1. c \in kk.asked
    BY <1>1, <1>3 DEF PickDone
  <2>2. c \in k.asked \/ c \in owed
    BY <2>1 DEF Operation, Banked
  <2>3. 0 \in Cores
    BY DEF Cores
  <2> QED
    BY <1>3, <2>2, <2>3, KeptThroughPick
<1> QED
  BY <1>3, <1>4, <1>5 DEF IInv

(* The kernel's tick and an interrupt half are an operation on core 0.     *)
LEMMA TickOperates ==
  ASSUME TypeOK, NEW due \in SUBSET Asleep(k), NEW ticked \in increment_tick(k, due),
         NEW kk \in {ticked} \cup Halves(ticked)
  PROVE  Operation(kk, 0) /\ kk.lock = k.lock
<1>1. Operation(k, 0) /\ 0 \in Cores /\ due \in SUBSET Tasks
  BY NothingOperates DEF Cores, Asleep
<1>2. Operation(ticked, 0) /\ ticked.lock = k.lock
  BY <1>1, WakeOperates DEF increment_tick
<1>3. CASE kk \in Halves(ticked)
  <2>1. PICK u \in Asleep(ticked) : kk \in WakeFromIsr(ticked, {u})
    BY <1>3 DEF Halves
  <2>2. {u} \in SUBSET Tasks
    BY DEF Asleep
  <2> QED
    BY <1>2, <2>1, <2>2, IsrWakeOperates
<1> QED
  BY <1>2, <1>3

(* The interrupts keep the invariant, and their pick is PickDone's.        *)
LEMMA InterruptsKeep ==
  ASSUME IInv, on_tick \/ slice
  PROVE  /\ IInv'
         /\ depth = 0 /\ UNCHANGED <<depth, pend, pc, leaves>>
         /\ \E kk, owed : /\ Operation(kk, 0) /\ kk.lock = k.lock
                         /\ PickDone(Collected(kk), owed, FALSE)
<1>1. depth = 0 /\ UNCHANGED <<depth, pend, pc, leaves>> /\ TypeOK
  BY DEF on_tick, slice, IInv
<1>2. CASE on_tick
  <2>1. PICK due \in SUBSET Asleep(k) : \E ticked \in increment_tick(k, due) :
          \E kk \in {ticked} \cup Halves(ticked) :
            pick(Collected(kk), BankedByTick(kk, 0 \in kk.asked \ k.asked), core,
                 TRUE, PASS)
    BY <1>2 DEF on_tick, PutBack
  <2>2. PICK ticked \in increment_tick(k, due) :
          \E kk \in {ticked} \cup Halves(ticked) :
            pick(Collected(kk), BankedByTick(kk, 0 \in kk.asked \ k.asked), core,
                 TRUE, PASS)
    BY <2>1
  <2>3. PICK kk \in {ticked} \cup Halves(ticked) :
          pick(Collected(kk), BankedByTick(kk, 0 \in kk.asked \ k.asked), core,
               TRUE, PASS)
    BY <2>2
  <2> DEFINE owed == BankedByTick(kk, 0 \in kk.asked \ k.asked)
  <2>4. Operation(kk, 0) /\ kk.lock = k.lock
    BY <1>1, TickOperates
  <2>5. owed \in SUBSET Cores /\ Banked(kk) \subseteq owed
        /\ (0 \in kk.asked \ k.asked => 0 \in owed)
    BY <1>1, <2>4 DEF BankedByTick, Banked, TypeOK, Operation, Kernels, Cores
  <2> HIDE DEF owed
  <2>6. pick(Collected(kk), owed, core, TRUE, PASS)
    BY <2>3 DEF owed
  <2> QED
    BY <1>1, <2>4, <2>5, <2>6, InterruptKeeps
<1>3. CASE slice
  <2>1. pick(Collected(k), Banked(k), core, TRUE, PASS)
    BY <1>3 DEF slice
  <2>2. Operation(k, 0) /\ Banked(k) \in SUBSET Cores
    BY <1>1, NothingOperates DEF TypeOK, Banked, Kernels
  <2> QED
    BY <1>1, <2>1, <2>2, InterruptKeeps
<1> QED
  BY <1>1, <1>2, <1>3

-----------------------------------------------------------------------------
(* How the turn moves: not at all, or as a pick moves it.                  *)
LEMMA PickMoves ==
  ASSUME TypeOK, NEW kk, kk.cur = k.cur, NEW owed, NEW plain,
         PickDone(kk, owed, plain), depth' = 0
  PROVE  TurnMoves
<1>1. kk.lock => thread' = thread
  BY DEF PickDone, TypeOK
<1> QED
  BY <1>1 DEF PickDone, TurnMoves

LEMMA StaysPut ==
  ASSUME UNCHANGED <<core, thread>>
  PROVE  TurnMoves
BY DEF TurnMoves

LEMMA WithKernelMoves ==
  ASSUME IInv, NEW t \in Tasks, Runs(t), pc[t] = "c", depth' = depth,
         NEW kk, Operation(kk, core), WithKernel(t, kk)
  PROVE  TurnMoves
<1>1. /\ Collected(kk) \in Kernels /\ Collected(kk).cur = k.cur
      /\ Collected(kk).yields = {} /\ TypeOK /\ PASS = FALSE
      /\ Banked(kk) \in SUBSET Cores
  BY DEF IInv, TypeOK, PassIsFresh, Runs, Operation, Kernels, Collected, Banked
<1>2. CASE UNCHANGED <<core, thread>>
  BY <1>2, StaysPut
<1>3. CASE depth = 0 /\ pick(Collected(kk), Banked(kk), core, FALSE, PASS)
  <2>1. PickDone(Collected(kk), Banked(kk), ~FALSE /\ ~FALSE)
    BY <1>1, <1>3, PickDoes
  <2> QED
    BY <1>1, <1>3, <2>1, PickMoves
<1> QED
  BY <1>2, <1>3 DEF WithKernel

LEMMA PickFromTaskMoves ==
  ASSUME IInv, PickFromTask, depth' = 0
  PROVE  TurnMoves
<1>1. PickDone(Collected(k), Banked(k), ~PASS)
  BY PickFromTaskDoes
<1>2. Collected(k).cur = k.cur /\ TypeOK
  BY DEF Collected, IInv, TypeOK, Kernels
<1> QED
  BY <1>1, <1>2, PickMoves

(* Every step moves the turn so.                                           *)
LEMMA StepsMove == IInv /\ [Next]_vars => TurnMoves
<1> SUFFICES ASSUME IInv, [Next]_vars PROVE TurnMoves
  OBVIOUS
<1>1. CASE \E t \in Tasks : WakeCall(t) \/ WaitCall(t) \/ SuspendAll(t)
                            \/ ResumeAll(t) \/ IdleCall(t)
  <2>1. PICK t \in Tasks : WakeCall(t) \/ WaitCall(t) \/ SuspendAll(t)
                            \/ ResumeAll(t) \/ IdleCall(t)
    BY <1>1
  <2>2. PICK kk : WithKernel(t, kk) /\ Operation(kk, core)
    BY <2>1, KernelCallOperates
  <2>3. Runs(t) /\ pc[t] = "c" /\ depth' = depth
    BY <2>1 DEF WakeCall, WaitCall, SuspendAll, ResumeAll, IdleCall, KernelCall
  <2> QED
    BY <2>2, <2>3, WithKernelMoves
<1>2. CASE \E t \in Tasks : after_call(t) \/ EnterCritical(t)
  BY <1>2, StaysPut DEF after_call, EnterCritical, cell
<1>3. CASE \E t \in Tasks : PassAtCall(t)
  <2>1. PickFromTask /\ depth' = 0
    BY <1>3 DEF PassAtCall, Runs, IInv, TypeOK, NoPassInside
  <2> QED
    BY <2>1, PickFromTaskMoves
<1>4. CASE \E t \in Tasks : yield_now(t)
  <2>1. UNCHANGED <<core, thread>> \/ (PickFromTask /\ depth' = 0)
    BY <1>4 DEF yield_now, cell, IInv, TypeOK
  <2> QED
    BY <2>1, PickFromTaskMoves, StaysPut
<1>5. CASE \E t \in Tasks : ExitCritical(t)
  <2>1. UNCHANGED <<core, thread>> \/ (PickFromTask /\ depth' = 0)
    BY <1>5 DEF ExitCritical, cell
  <2> QED
    BY <2>1, PickFromTaskMoves, StaysPut
<1>6. CASE on_tick \/ slice
  <2>1. depth' = 0 /\ TypeOK
    BY <1>6, InterruptsKeep DEF IInv
  <2>2. PICK kk, owed : Operation(kk, 0) /\ PickDone(Collected(kk), owed, FALSE)
    BY <1>6, InterruptsKeep
  <2>3. Collected(kk).cur = k.cur
    BY <2>2 DEF Collected, Operation, Kernels
  <2> QED
    BY <2>1, <2>2, <2>3, PickMoves
<1>7. CASE UNCHANGED vars
  BY <1>7, StaysPut DEF vars, cell
<1> QED
  BY <1>1, <1>2, <1>3, <1>4, <1>5, <1>6, <1>7 DEF Next, TaskStep

-----------------------------------------------------------------------------
(* The scheduler starts with nothing asked and nothing owed.               *)
LEMMA Initially == Init => IInv
<1> SUFFICES ASSUME Init PROVE IInv
  OBVIOUS
<1>1. PICK f \in [Cores -> Idle] :
        /\ f[0] # f[1]
        /\ k \in first([cur |-> f, ready |-> Tasks, asked |-> {}, yields |-> {},
                        lock |-> FALSE, pending |-> {}, repend |-> {}])
  BY DEF Init
<1> DEFINE kk == [cur |-> f, ready |-> Tasks, asked |-> {}, yields |-> {},
                  lock |-> FALSE, pending |-> {}, repend |-> {}]
<1>2. f \in [Cores -> Tasks]
  BY TurnsAssumption
<1>3. kk \in Kernels /\ kk.cur[0] # kk.cur[1] /\ kk.asked = {} /\ ~kk.lock
  BY <1>1, <1>2 DEF Kernels
<1>4. PICK q \in switch_context(kk, 1) : k \in switch_context(q, 0)
  BY <1>1 DEF first
<1> HIDE DEF kk
<1>5. 0 \in Cores /\ 1 \in Cores
  BY DEF Cores
<1>6. q \in Kernels /\ q.cur[0] # q.cur[1] /\ q.asked = {} /\ ~q.lock
  BY <1>3, <1>4, <1>5, SwitchContext
<1>7. k \in Kernels /\ k.cur[0] # k.cur[1] /\ k.asked = {}
  BY <1>4, <1>5, <1>6, SwitchContext
<1>8. TypeOK
  BY <1>5, <1>7 DEF Init, TypeOK, PCs
<1> QED
  BY <1>7, <1>8 DEF Init, IInv, PassIsFresh, CallsEnd, NoPassInside

(* Every step keeps the invariant.                                         *)
LEMMA Steps == IInv /\ [Next]_vars => IInv'
<1> SUFFICES ASSUME IInv, [Next]_vars PROVE IInv'
  OBVIOUS
<1>1. CASE \E t \in Tasks : TaskStep(t)
  BY <1>1, KernelCallsKeep, AfterCallKeeps, PassAtCallKeeps, YieldNowKeeps,
     CriticalKeeps DEF TaskStep
<1>2. CASE on_tick \/ slice
  BY <1>2, InterruptsKeep
<1>3. CASE UNCHANGED vars
  BY <1>3 DEF vars, cell, IInv, TypeOK, PassIsFresh, Kept, CallsEnd, NoPassInside
<1> QED
  BY <1>1, <1>2, <1>3 DEF Next

(* The invariant holds throughout.                                         *)
THEOREM Invariant == Spec => []IInv
  BY Initially, Steps, PTL DEF Spec

(* The type invariant: two cores, two tasks, and the permit with the       *)
(* current task of the core it stands for.                                 *)
THEOREM TypeCorrect == Spec => []TypeOK
<1>1. IInv => TypeOK
  BY DEF IInv
<1> QED
  BY <1>1, Invariant, PTL

(* PASS is set only between after_call and the pick it is meant for.       *)
THEOREM PassFresh == Spec => []PassIsFresh
<1>1. IInv => PassIsFresh
  BY DEF IInv
<1> QED
  BY <1>1, Invariant, PTL

(* No request to reschedule a core is ever lost.                           *)
THEOREM SwitchesKept == Spec => []NoSwitchLost
<1>1. IInv => NoSwitchLost
  BY DEF IInv, NoSwitchLost, Kept, OnRecord
<1> QED
  BY <1>1, Invariant, PTL

(* The task lock keeps the processor for the task that took it.            *)
THEOREM LockKeeps == Spec => LockKeepsTheThread
<1>1. IInv /\ [Next]_vars => [k.lock /\ k'.lock => thread' = thread]_vars
  BY StepsMove DEF TurnMoves
<1> QED
  BY <1>1, Invariant, PTL DEF Spec, LockKeepsTheThread

(* A turn finds its core's switch made.                                    *)
THEOREM TurnsTakeWhatIsOwed == Spec => OwedTakenOnTurn
<1>1. IInv /\ IInv' /\ [Next]_vars =>
        (core' # core => /\ core' \notin OWED'
                         /\ core' \in k'.asked => core' \in k'.repend /\ leaves'[thread'])
  <2> SUFFICES ASSUME IInv, IInv', [Next]_vars, core' # core
               PROVE  /\ core' \notin OWED'
                      /\ core' \in k'.asked => core' \in k'.repend /\ leaves'[thread']
    OBVIOUS
  <2>1. core' \notin OWED' \cup k'.yields /\ ~k'.lock /\ depth' = 0
        /\ thread' = k'.cur[core']
    BY StepsMove DEF TurnMoves
  <2>2. ASSUME core' \in k'.asked PROVE core' \in k'.repend /\ leaves'[thread']
    <3>1. Kept(core)'
      BY <2>2 DEF IInv
    <3> QED
      BY <2>1, <3>1 DEF Kept
  <2> QED
    BY <2>1, <2>2
<1>2. IInv /\ IInv' /\ [Next]_vars =>
        [core' # core => /\ core' \notin OWED'
                         /\ core' \in k'.asked => core' \in k'.repend /\ leaves'[thread']]_vars
  BY <1>1
<1> QED
  BY <1>2, Invariant, PTL DEF Spec, OwedTakenOnTurn
=============================================================================
