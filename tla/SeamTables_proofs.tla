-------------------------- MODULE SeamTables_proofs --------------------------
(***************************************************************************)
(* The item tables are right for every number of tasks, slots and sizes,   *)
(* under the condition a run shows to be needed: no queue set is ever      *)
(* deleted.                                                                *)
(***************************************************************************)
EXTENDS SeamTables, TLAPS

Items == [raw : Nat, c : Nat]

SlotRecords ==
  [gen : 0 .. MaxGen, kind : Kinds, items : Seq(Items), set : Handles \cup {None}]

Calls ==
  {NoCall} \cup [op : {"create", "createSet"}, queue : Handles, size : Nat]
           \cup [op : {"read"}, queue : Handles, item : Items]

TypeInv ==
  /\ queues \in [Slots -> SlotRecords]
  /\ asked \in [Slots -> 0 .. MAX_ITEM_BYTES]
  /\ ITEM_SIZES \in [Slots -> 0 .. MAX_ITEM_BYTES]
  /\ IS_SET \in [Slots -> BOOLEAN]
  /\ call \in [Tasks -> Calls]

(* An item is what the slot's queue should hold: a member's handle in a    *)
(* set, else a number that fits in the bytes the C asked for.              *)
Right(s, item) ==
  IF queues[s].kind = "set"
    THEN \E h \in Handles : item.raw = Raw[h] /\ item.c = Raw[h] + 1
    ELSE item.raw = item.c /\ item.c < Values[asked[s]]

(* The tables say what the slot's queue is.                                *)
Settled(s) == ITEM_SIZES[s] = asked[s] /\ (queues[s].kind = "set" => IS_SET[s])

InCreation(s) == \E t \in Tasks : Creating(t) /\ call[t].queue.slot = s

SlotOK(s) ==
  /\ Len(queues[s].items) <= QueueLength
  /\ queues[s].kind = "free" => queues[s].items = <<>> /\ queues[s].set = None
  /\ queues[s].kind = "set" => asked[s] = SET_ITEM_BYTES /\ queues[s].set = None
  /\ queues[s].kind = "semaphore" => asked[s] = 0
  /\ queues[s].set # None => IsKind(queues[s].set, "set")
  /\ IS_SET[s] => queues[s].kind = "set"
  /\ \A i \in 1 .. Len(queues[s].items) : Right(s, queues[s].items[i])
  /\ queues[s].kind \in {"queue", "set"} => Settled(s) \/ InCreation(s)

CallOK(t) ==
  /\ Creating(t) => /\ Live(call[t].queue)
                    /\ asked[call[t].queue.slot] = call[t].size
                    /\ queues[call[t].queue.slot].kind =
                         (IF call[t].op = "create" THEN "queue" ELSE "set")
  /\ Reading(t) => /\ Live(call[t].queue)
                   /\ queues[call[t].queue.slot].kind \in {"queue", "set"}
                   /\ Settled(call[t].queue.slot)
                   /\ Right(call[t].queue.slot, call[t].item)

(* Nobody uses a slot somebody else is creating a queue in.                *)
Apart(t, u) ==
  t # u /\ Creating(t) /\ ~Idle(u) => call[t].queue.slot # call[u].queue.slot

IInv ==
  /\ TypeInv
  /\ \A s \in Slots : SlotOK(s)
  /\ \A t \in Tasks : CallOK(t)
  /\ \A t, u \in Tasks : Apart(t, u)

-----------------------------------------------------------------------------
(* A number that fits in n bytes survives being cut to n bytes.            *)
LEMMA BytesFit ==
  ASSUME NEW n \in 0 .. MAX_ITEM_BYTES, NEW v \in Nat, v < Values[n]
  PROVE  Bytes(v, n) = v
<1>1. n <= MAX_ITEM_BYTES
  OBVIOUS
<1>2. Values[n] \in Nat
  BY TablesAssumption
<1> QED
  BY <1>1, <1>2 DEF Bytes

(* A handle is its slot and its generation.                                *)
LEMMA SameHandle ==
  ASSUME NEW h \in Handles, NEW k \in Handles, h.slot = k.slot, h.gen = k.gen
  PROVE  h = k
<1>1. h = [slot |-> h.slot, gen |-> h.gen] /\ k = [slot |-> k.slot, gen |-> k.gen]
  BY DEF Handles
<1> QED
  BY <1>1

(* What a call record holds, by what the task is doing.                    *)
LEMMA CallShapes ==
  ASSUME NEW c \in Calls
  PROVE  /\ c.op \in {"create", "createSet"} => c.queue \in Handles /\ c.size \in Nat
         /\ c.op = "read" => c.queue \in Handles /\ c.item \in Items
         /\ c.op # "none" => c.op \in {"create", "createSet", "read"}
<1>1. CASE c = NoCall
  BY <1>1 DEF NoCall
<1>2. CASE c \in [op : {"create", "createSet"}, queue : Handles, size : Nat]
  BY <1>2
<1>3. CASE c \in [op : {"read"}, queue : Handles, item : Items]
  BY <1>3
<1> QED
  BY <1>1, <1>2, <1>3 DEF Calls

(* The codec is right where the invariant says what is in a slot.          *)
LEMMA ReadsWhole ==
  ASSUME IInv
  PROVE  ItemsComeBackWhole
<1> SUFFICES ASSUME NEW t \in Tasks, Reading(t)
             PROVE  Written(call[t]) = call[t].item.c
  BY DEF ItemsComeBackWhole
<1> DEFINE s == call[t].queue.slot
           item == call[t].item
<1>0. call[t].queue \in Handles /\ item \in Items
  BY CallShapes DEF IInv, TypeInv, Reading
<1>1. /\ s \in Slots /\ item \in Items
      /\ queues[s].kind \in {"queue", "set"} /\ Settled(s) /\ Right(s, item) /\ SlotOK(s)
  BY <1>0 DEF IInv, CallOK, Handles
<1>2. ITEM_SIZES[s] \in 0 .. MAX_ITEM_BYTES
  BY <1>1 DEF IInv, TypeInv
<1>3. CASE queues[s].kind = "queue"
  <2>1. ~IS_SET[s] /\ item.raw = item.c /\ item.c < Values[ITEM_SIZES[s]]
    BY <1>1, <1>3 DEF SlotOK, Right, Settled
  <2>2. Bytes(item.raw, ITEM_SIZES[s]) = item.c
    BY <1>1, <1>2, <2>1, BytesFit DEF Items
  <2> QED
    BY <2>1, <2>2 DEF Written, item_for_c
<1>4. CASE queues[s].kind = "set"
  <2>1. IS_SET[s] /\ ITEM_SIZES[s] = SET_ITEM_BYTES
    BY <1>1, <1>4 DEF SlotOK, Settled
  <2>2. PICK h \in Handles : item.raw = Raw[h] /\ item.c = Raw[h] + 1
    BY <1>1, <1>4 DEF Right
  <2>3. item_for_c(s, item.raw) = item.c /\ item.c < Values[SET_ITEM_BYTES]
    BY <2>1, <2>2, TablesAssumption DEF item_for_c, set_item_to_c
  <2>4. Bytes(item.c, SET_ITEM_BYTES) = item.c
    BY <1>1, <1>2, <2>1, <2>3, BytesFit DEF Items
  <2> QED
    BY <2>1, <2>3, <2>4 DEF Written
<1> QED
  BY <1>1, <1>3, <1>4

(* A handle the C holds names a settled queue nobody is creating.          *)
LEMMA HeldFacts ==
  ASSUME IInv, NEW h \in Held
  PROVE  /\ h \in Handles /\ h.slot \in Slots /\ queues[h.slot].gen = h.gen
         /\ queues[h.slot].kind \in {"queue", "semaphore", "set"}
         /\ ~InCreation(h.slot)
         /\ queues[h.slot].kind \in {"queue", "set"} => Settled(h.slot)
<1>1. /\ h \in Handles /\ h.slot \in Slots /\ queues[h.slot].gen = h.gen
      /\ queues[h.slot].kind \in {"queue", "semaphore", "set"}
  BY DEF IInv, TypeInv, SlotRecords, Held, Live, Handles, Kinds
<1>2. ASSUME NEW t \in Tasks, Creating(t), call[t].queue.slot = h.slot
      PROVE  FALSE
  <2>1. call[t].queue \in Handles /\ Live(call[t].queue)
    BY <1>2, CallShapes DEF IInv, TypeInv, CallOK, Creating
  <2>2. call[t].queue = h
    BY <1>1, <1>2, <2>1, SameHandle DEF Live
  <2> QED
    BY <1>2, <2>2 DEF Held
<1> QED
  BY <1>1, <1>2 DEF IInv, SlotOK, InCreation

-----------------------------------------------------------------------------
(* Steps that leave kinds, generations, sizes and tables alone.            *)

KindsKept ==
  /\ queues' \in [Slots -> SlotRecords]
  /\ \A s \in Slots : queues'[s].kind = queues[s].kind /\ queues'[s].gen = queues[s].gen
  /\ UNCHANGED <<asked, ITEM_SIZES, IS_SET>>

(* What is said of slots and handles keeps its truth in such a step.       *)
LEMMA KeptFacts ==
  ASSUME IInv, KindsKept
  PROVE  /\ \A s \in Slots : Settled(s)' <=> Settled(s)
         /\ \A s \in Slots, item \in Items : Right(s, item)' <=> Right(s, item)
         /\ \A h \in Handles : Live(h)' <=> Live(h)
         /\ \A h \in Handles : IsKind(h, "set")' <=> IsKind(h, "set")
<1>1. ASSUME NEW s \in Slots
      PROVE  Settled(s)' <=> Settled(s)
  BY <1>1 DEF KindsKept, Settled
<1>2. ASSUME NEW s \in Slots, NEW item \in Items
      PROVE  Right(s, item)' <=> Right(s, item)
  BY <1>2 DEF KindsKept, Right
<1>3. ASSUME NEW h \in Handles
      PROVE  (Live(h)' <=> Live(h)) /\ (IsKind(h, "set")' <=> IsKind(h, "set"))
  <2>1. h.slot \in Slots
    BY DEF Handles
  <2> QED
    BY <2>1 DEF KindsKept, Live, IsKind
<1> QED
  BY <1>1, <1>2, <1>3

(* What such a step still owes of each slot.                               *)
SlotKept(s) ==
  /\ Len(queues'[s].items) <= QueueLength
  /\ \A i \in 1 .. Len(queues'[s].items) : Right(s, queues'[s].items[i])
  /\ queues[s].kind = "free" => queues'[s].items = <<>>
  /\ queues'[s].set # None =>
       queues[s].kind \in {"queue", "semaphore"} /\ IsKind(queues'[s].set, "set")

(* A slot that still owes nothing is right after such a step.              *)
LEMMA KeptSlots ==
  ASSUME IInv, KindsKept, \A s \in Slots : SlotKept(s),
         \A s \in Slots : InCreation(s) => InCreation(s)'
  PROVE  \A s \in Slots : SlotOK(s)'
<1> SUFFICES ASSUME NEW s \in Slots
             PROVE  SlotOK(s)'
  OBVIOUS
<1>1. queues'[s] \in SlotRecords /\ SlotOK(s) /\ SlotKept(s)
  BY DEF IInv, KindsKept
<1>2. /\ queues'[s].kind = queues[s].kind /\ asked'[s] = asked[s] /\ IS_SET'[s] = IS_SET[s]
      /\ queues'[s].set \in Handles \cup {None} /\ queues'[s].items \in Seq(Items)
  BY <1>1 DEF KindsKept, SlotRecords
<1>3. /\ Len(queues'[s].items) <= QueueLength
      /\ queues'[s].kind = "free" => queues'[s].items = <<>> /\ queues'[s].set = None
      /\ queues'[s].kind = "set" => asked'[s] = SET_ITEM_BYTES /\ queues'[s].set = None
      /\ queues'[s].kind = "semaphore" => asked'[s] = 0
      /\ IS_SET'[s] => queues'[s].kind = "set"
  BY <1>1, <1>2 DEF SlotOK, SlotKept
<1>4. ASSUME queues'[s].set # None
      PROVE  IsKind(queues[s].set, "set")'
  BY <1>1, <1>2, <1>4, KeptFacts DEF SlotKept
<1>5. ASSUME NEW i \in 1 .. Len(queues'[s].items)
      PROVE  Right(s, queues[s].items[i])'
  <2>1. queues'[s].items[i] \in Items
    BY <1>2, <1>5
  <2> QED
    BY <1>1, <1>5, <2>1, KeptFacts DEF SlotKept
<1>6. queues'[s].kind \in {"queue", "set"} => Settled(s)' \/ InCreation(s)'
  BY <1>1, <1>2, KeptFacts DEF SlotOK
<1> QED
  BY <1>3, <1>4, <1>5, <1>6 DEF SlotOK

(* A call nobody touched is right after such a step.                       *)
LEMMA KeptCalls ==
  ASSUME IInv, KindsKept, NEW t \in Tasks, call'[t] = call[t]
  PROVE  CallOK(t)'
<1>1. call[t] \in Calls /\ CallOK(t)
  BY DEF IInv, TypeInv
<1>2. ASSUME Creating(t)
      PROVE  CallOK(t)'
  <2>1. call[t].queue \in Handles /\ call[t].queue.slot \in Slots /\ call[t].op # "read"
    BY <1>1, <1>2, CallShapes DEF Creating, Handles
  <2>2. Live(call[t].queue)'
    BY <1>1, <1>2, <2>1, KeptFacts DEF CallOK
  <2>3. /\ asked'[call'[t].queue.slot] = call'[t].size
        /\ queues'[call'[t].queue.slot].kind =
             (IF call'[t].op = "create" THEN "queue" ELSE "set")
    BY <1>1, <1>2, <2>1 DEF CallOK, KindsKept
  <2>4. ~Reading(t)'
    BY <2>1 DEF Reading
  <2> QED
    BY <2>2, <2>3, <2>4 DEF CallOK
<1>3. ASSUME Reading(t)
      PROVE  CallOK(t)'
  <2>1. /\ call[t].queue \in Handles /\ call[t].queue.slot \in Slots
        /\ call[t].item \in Items /\ ~Creating(t)
    BY <1>1, <1>3, CallShapes DEF Creating, Reading, Handles
  <2>2. Live(call[t].queue)' /\ Settled(call[t].queue.slot)'
        /\ Right(call[t].queue.slot, call[t].item)'
    BY <1>1, <1>3, <2>1, KeptFacts DEF CallOK
  <2> QED
    BY <1>1, <1>3, <2>1, <2>2 DEF CallOK, KindsKept, Creating, Reading
<1>4. ASSUME ~Creating(t), ~Reading(t)
      PROVE  CallOK(t)'
  BY <1>4 DEF CallOK, Creating, Reading
<1> QED
  BY <1>2, <1>3, <1>4

(* A step that only moves items or members.                                *)
LEMMA QuietStep ==
  ASSUME IInv, KindsKept, \A s \in Slots : SlotKept(s), UNCHANGED call
  PROVE  IInv'
<1>1. TypeInv'
  BY DEF IInv, TypeInv, KindsKept
<1>2. \A s \in Slots : SlotOK(s)'
  <2>1. \A s \in Slots : InCreation(s) => InCreation(s)'
    BY DEF InCreation, Creating
  <2> QED
    BY <2>1, KeptSlots
<1>3. \A t \in Tasks : CallOK(t)'
  BY KeptCalls
<1>4. \A t, u \in Tasks : Apart(t, u)'
  BY DEF IInv, Apart, Creating, Idle
<1> QED
  BY <1>1, <1>2, <1>3, <1>4 DEF IInv

-----------------------------------------------------------------------------
(* The actions that only move items or members.                            *)

(* A slot whose items are some of the items it had.                        *)
LEMMA FewerItems ==
  ASSUME IInv, NEW s \in Slots, queues'[s].set = queues[s].set,
         Len(queues'[s].items) <= Len(queues[s].items),
         queues[s].kind = "free" => queues'[s].items = <<>>,
         \A i \in 1 .. Len(queues'[s].items) : \E j \in 1 .. Len(queues[s].items) :
            queues'[s].items[i] = queues[s].items[j],
         Len(queues'[s].items) \in Nat
  PROVE  SlotKept(s)
<1>1. SlotOK(s) /\ queues[s].kind \in Kinds /\ queues[s].items \in Seq(Items)
  BY DEF IInv, TypeInv, SlotRecords
<1>2. Len(queues'[s].items) <= QueueLength
  BY <1>1, TablesAssumption DEF SlotOK
<1> QED
  BY <1>1, <1>2 DEF SlotOK, SlotKept, Kinds

(* A slot that is left alone still owes nothing.                           *)
LEMMA UntouchedSlot ==
  ASSUME IInv, NEW s \in Slots, queues'[s] = queues[s]
  PROVE  SlotKept(s)
<1>1. SlotOK(s) /\ queues[s].kind \in Kinds /\ queues[s].items \in Seq(Items)
  BY DEF IInv, TypeInv, SlotRecords
<1> QED
  BY <1>1 DEF SlotOK, SlotKept, Kinds

(* Items taken or dropped at h.                                            *)
LEMMA DropStep ==
  ASSUME IInv, NEW h \in Held, NEW rest \in Seq(Items),
         queues' = [queues EXCEPT ![h.slot].items = rest],
         UNCHANGED <<asked, ITEM_SIZES, IS_SET>>,
         rest = <<>> \/ (queues[h.slot].items # <<>> /\ rest = Tail(queues[h.slot].items))
  PROVE  KindsKept /\ \A s \in Slots : SlotKept(s)
<1>1. /\ h.slot \in Slots /\ queues \in [Slots -> SlotRecords]
      /\ queues[h.slot].kind # "free"
  BY HeldFacts DEF IInv, TypeInv
<1>2. queues[h.slot] \in SlotRecords /\ queues[h.slot].items \in Seq(Items)
  BY <1>1 DEF SlotRecords
<1>3. queues'[h.slot] = [queues[h.slot] EXCEPT !.items = rest]
  BY <1>1
<1>4. queues'[h.slot] \in SlotRecords
  BY <1>2, <1>3 DEF SlotRecords
<1>5. ASSUME NEW s \in Slots, s # h.slot
      PROVE  queues'[s] = queues[s]
  BY <1>1, <1>5
<1>6. queues' \in [Slots -> SlotRecords]
  BY <1>1, <1>4, <1>5
<1>7. /\ queues'[h.slot].kind = queues[h.slot].kind /\ queues'[h.slot].gen = queues[h.slot].gen
      /\ queues'[h.slot].set = queues[h.slot].set /\ queues'[h.slot].items = rest
  BY <1>2, <1>3 DEF SlotRecords
<1>8. SlotKept(h.slot)
  <2>1. /\ Len(rest) <= Len(queues[h.slot].items)
        /\ \A i \in 1 .. Len(rest) : \E j \in 1 .. Len(queues[h.slot].items) :
              rest[i] = queues[h.slot].items[j]
    <3>1. CASE rest = <<>>
      BY <3>1, <1>2
    <3>2. CASE queues[h.slot].items # <<>> /\ rest = Tail(queues[h.slot].items)
      <4>1. ASSUME NEW i \in 1 .. Len(rest)
            PROVE  i + 1 \in 1 .. Len(queues[h.slot].items) /\ rest[i] = queues[h.slot].items[i + 1]
        BY <1>2, <3>2, <4>1
      <4> QED
        BY <1>2, <3>2, <4>1
    <3> QED
      BY <3>1, <3>2
  <2> QED
    BY <1>1, <1>7, <2>1, FewerItems
<1>9. \A s \in Slots : SlotKept(s)
  BY <1>5, <1>8, UntouchedSlot
<1> QED
  BY <1>5, <1>6, <1>7, <1>9 DEF KindsKept

(* Taking an item by a call that reads no table, and resetting.            *)
LEMMA TakeOneStep ==
  ASSUME IInv, NEW t \in Tasks, TakeOne(t) \/ xQueueGenericReset(t)
  PROVE  IInv'
<1>1. PICK h \in Held, rest \in Seq(Items) :
        /\ queues' = [queues EXCEPT ![h.slot].items = rest]
        /\ rest = <<>> \/ (queues[h.slot].items # <<>> /\ rest = Tail(queues[h.slot].items))
  <2>1. CASE TakeOne(t)
    <3>1. PICK h \in Held : Count(h) > 0
                           /\ queues' = [queues EXCEPT ![h.slot].items = Tail(@)]
      BY <2>1 DEF TakeOne
    <3>2. queues[h.slot].items \in Seq(Items)
      BY HeldFacts DEF IInv, TypeInv, SlotRecords
    <3>3. queues[h.slot].items # <<>> /\ Tail(queues[h.slot].items) \in Seq(Items)
      BY <3>1, <3>2 DEF Count
    <3> QED
      BY <3>1, <3>3
  <2>2. CASE xQueueGenericReset(t)
    <3>1. PICK h \in Held : queues' = [queues EXCEPT ![h.slot].items = <<>>]
      BY <2>2 DEF xQueueGenericReset
    <3>2. <<>> \in Seq(Items)
      OBVIOUS
    <3> QED
      BY <3>1, <3>2
  <2> QED
    BY <2>1, <2>2
<1>2. UNCHANGED <<asked, ITEM_SIZES, IS_SET, call>>
  BY DEF TakeOne, xQueueGenericReset
<1>3. KindsKept /\ \A s \in Slots : SlotKept(s)
  BY <1>1, <1>2, DropStep
<1> QED
  BY <1>2, <1>3, QuietStep

(* A task that has its answer reads from a settled slot.                   *)
LEMMA AnswerStep ==
  ASSUME IInv, KindsKept, \A s \in Slots : SlotKept(s),
         NEW t \in Tasks, NEW h \in Handles, Answer(t, h)
  PROVE  IInv'
<1> DEFINE item == Head(queues[h.slot].items)
<1>1. /\ h \in Held /\ Idle(t) /\ h.slot \in Slots /\ Live(h)
      /\ queues[h.slot].kind \in {"queue", "set"}
      /\ ~InCreation(h.slot) /\ Settled(h.slot)
  BY HeldFacts DEF Answer, IsKind, Live
<1>2. item \in Items /\ Right(h.slot, item)
  <2>1. queues[h.slot].items \in Seq(Items) /\ queues[h.slot].items # <<>>
    BY <1>1 DEF Answer, Count, IInv, TypeInv, SlotRecords
  <2>2. item = queues[h.slot].items[1] /\ 1 \in 1 .. Len(queues[h.slot].items) /\ item \in Items
    BY <2>1
  <2> QED
    BY <1>1, <2>2 DEF IInv, SlotOK
<1>3. call' = [call EXCEPT ![t] = [op |-> "read", queue |-> h, item |-> item]]
  BY DEF Answer
<1>4. /\ call'[t] = [op |-> "read", queue |-> h, item |-> item]
      /\ \A u \in Tasks : u # t => call'[u] = call[u]
  BY <1>3 DEF IInv, TypeInv
<1>5. TypeInv'
  <2>1. [op |-> "read", queue |-> h, item |-> item] \in Calls
    BY <1>2 DEF Calls
  <2> QED
    BY <1>3, <2>1 DEF IInv, TypeInv, KindsKept
<1>6. \A s \in Slots : SlotOK(s)'
  <2>1. ASSUME NEW s \in Slots, InCreation(s)
        PROVE  InCreation(s)'
    BY <1>1, <1>4, <2>1 DEF InCreation, Creating, Idle
  <2> QED
    BY <2>1, KeptSlots
<1>7. \A u \in Tasks : CallOK(u)'
  <2>1. ASSUME NEW u \in Tasks, u # t
        PROVE  CallOK(u)'
    BY <1>4, <2>1, KeptCalls
  <2>2. CallOK(t)'
    <3>1. PICK it \in Items : it = item
      BY <1>2
    <3>2. Right(h.slot, it)' /\ Live(h)' /\ Settled(h.slot)'
      BY <1>1, <1>2, <3>1, KeptFacts
    <3>3. call'[t].op = "read" /\ call'[t].queue = h /\ call'[t].item = it
      BY <1>4, <3>1
    <3>4. queues'[h.slot].kind \in {"queue", "set"}
      BY <1>1 DEF KindsKept
    <3> QED
      BY <3>2, <3>3, <3>4 DEF CallOK, Creating, Reading, Live, Settled, Right
  <2> QED
    BY <2>1, <2>2
<1>8. \A u, w \in Tasks : Apart(u, w)'
  <2> SUFFICES ASSUME NEW u \in Tasks, NEW w \in Tasks, u # w, Creating(u)', ~Idle(w)'
               PROVE  call'[u].queue.slot # call'[w].queue.slot
    BY DEF Apart
  <2>1. u # t /\ call'[u] = call[u] /\ Creating(u)
    <3>1. u # t
      <4>1. call'[u].op \in {"create", "createSet"}
        BY DEF Creating
      <4>2. call'[t].op = "read"
        BY <1>4
      <4> QED
        BY <4>1, <4>2
    <3> QED
      BY <1>4, <3>1 DEF Creating
  <2>2. CASE w = t
    BY <1>1, <1>4, <2>1, <2>2 DEF InCreation
  <2>3. CASE w # t
    BY <1>4, <2>1, <2>3 DEF IInv, Apart, Idle
  <2> QED
    BY <2>2, <2>3
<1> QED
  BY <1>5, <1>6, <1>7, <1>8 DEF IInv

(* Receiving and peeking, up to the kernel's answer.                       *)
LEMMA ReadStep ==
  ASSUME IInv, NEW t \in Tasks, xQueueReceive(t) \/ xQueuePeek(t)
  PROVE  IInv'
<1>1. CASE xQueueReceive(t)
  <2>1. PICK h \in Handles : /\ Answer(t, h)
                            /\ queues' = [queues EXCEPT ![h.slot].items = Tail(@)]
    BY <1>1 DEF xQueueReceive
  <2>2. h \in Held /\ queues[h.slot].items \in Seq(Items)
    BY <2>1, HeldFacts DEF Answer, IInv, TypeInv, SlotRecords
  <2>3. queues[h.slot].items # <<>> /\ Tail(queues[h.slot].items) \in Seq(Items)
    BY <2>1, <2>2 DEF Answer, Count
  <2>4. KindsKept /\ \A s \in Slots : SlotKept(s)
    BY <2>1, <2>2, <2>3, DropStep DEF Answer
  <2> QED
    BY <2>1, <2>4, AnswerStep
<1>2. CASE xQueuePeek(t)
  <2>1. PICK h \in Handles : Answer(t, h) /\ UNCHANGED queues
    BY <1>2 DEF xQueuePeek
  <2>2. KindsKept
    BY <2>1 DEF Answer, KindsKept, IInv, TypeInv
  <2>3. \A s \in Slots : SlotKept(s)
    BY <2>1, UntouchedSlot
  <2> QED
    BY <2>1, <2>2, <2>3, AnswerStep
<1> QED
  BY <1>1, <1>2

(* A task that leaves its call is in nobody's slot.                        *)
LEMMA LeavesApart ==
  ASSUME IInv, NEW t \in Tasks, call'[t] = NoCall,
         \A u \in Tasks : u # t => call'[u] = call[u]
  PROVE  \A u, w \in Tasks : Apart(u, w)'
<1> SUFFICES ASSUME NEW u \in Tasks, NEW w \in Tasks, u # w, Creating(u)', ~Idle(w)'
             PROVE  call'[u].queue.slot # call'[w].queue.slot
  BY DEF Apart
<1>1. u # t /\ w # t
  <2>1. call'[u].op \in {"create", "createSet"} /\ call'[w].op # "none"
    BY DEF Creating, Idle
  <2>2. call'[t].op = "none"
    BY DEF NoCall
  <2> QED
    BY <2>1, <2>2
<1>2. call'[u] = call[u] /\ call'[w] = call[w]
  BY <1>1
<1>3. Creating(u) /\ ~Idle(w)
  BY <1>2 DEF Creating, Idle
<1> QED
  BY <1>2, <1>3 DEF IInv, Apart

(* The copy into the C's buffer ends the call.                             *)
LEMMA WriteItemStep ==
  ASSUME IInv, NEW t \in Tasks, WriteItem(t)
  PROVE  IInv'
<1>1. /\ call'[t] = NoCall
      /\ \A u \in Tasks : u # t => call'[u] = call[u]
      /\ call' \in [Tasks -> Calls]
      /\ UNCHANGED <<queues, asked, ITEM_SIZES, IS_SET>>
  BY DEF WriteItem, IInv, TypeInv, Calls
<1>2. KindsKept
  BY <1>1 DEF KindsKept, IInv, TypeInv
<1>3. \A s \in Slots : SlotOK(s)'
  <2>1. \A s \in Slots : SlotKept(s)
    BY <1>1, UntouchedSlot
  <2>2. \A s \in Slots : InCreation(s) => InCreation(s)'
    BY <1>1 DEF InCreation, Creating, Reading, WriteItem
  <2> QED
    BY <1>2, <2>1, <2>2, KeptSlots
<1>4. \A u \in Tasks : CallOK(u)'
  <2>1. ASSUME NEW u \in Tasks, u # t
        PROVE  CallOK(u)'
    BY <1>1, <1>2, <2>1, KeptCalls
  <2>2. CallOK(t)'
    BY <1>1 DEF CallOK, Creating, Reading, NoCall
  <2> QED
    BY <2>1, <2>2
<1>5. \A u, w \in Tasks : Apart(u, w)'
  BY <1>1, LeavesApart
<1> QED
  BY <1>1, <1>3, <1>4, <1>5 DEF IInv, TypeInv

-----------------------------------------------------------------------------
(* Items put in, and the queue's handle into its set.                      *)

(* A slot that is given one more item of the right kind.                   *)
LEMMA AppendSlot ==
  ASSUME IInv, NEW s \in Slots, NEW item \in Items, Right(s, item),
         queues[s].kind # "free", Len(queues[s].items) < QueueLength,
         queues'[s] = [queues[s] EXCEPT !.items = Append(@, item)]
  PROVE  /\ queues'[s] \in SlotRecords
         /\ queues'[s].kind = queues[s].kind /\ queues'[s].gen = queues[s].gen
         /\ SlotKept(s)
<1>1. SlotOK(s) /\ queues[s] \in SlotRecords /\ queues[s].items \in Seq(Items)
      /\ queues[s].kind \in Kinds
  BY DEF IInv, TypeInv, SlotRecords
<1>2. /\ queues'[s].kind = queues[s].kind /\ queues'[s].gen = queues[s].gen
      /\ queues'[s].set = queues[s].set
      /\ queues'[s].items = Append(queues[s].items, item)
      /\ queues'[s] \in SlotRecords
  <2>0. Append(queues[s].items, item) \in Seq(Items)
    BY <1>1
  <2>1. PICK longer \in Seq(Items) : longer = Append(queues[s].items, item)
    BY <2>0
  <2>2. queues'[s] = [queues[s] EXCEPT !.items = longer]
    BY <2>1
  <2> QED
    BY <1>1, <2>1, <2>2 DEF SlotRecords
<1>3. Len(queues'[s].items) <= QueueLength
  BY <1>1, <1>2, TablesAssumption
<1>4. \A i \in 1 .. Len(queues'[s].items) : Right(s, queues'[s].items[i])
  <2> SUFFICES ASSUME NEW i \in 1 .. Len(queues'[s].items)
               PROVE  Right(s, queues'[s].items[i])
    OBVIOUS
  <2>1. CASE i = Len(queues[s].items) + 1
    <3>1. queues'[s].items[i] = item
      BY <1>1, <1>2, <2>1
    <3> QED
      BY <3>1
  <2>2. CASE i # Len(queues[s].items) + 1
    <3>1. i \in 1 .. Len(queues[s].items)
      BY <1>1, <1>2, <2>2
    <3>2. queues'[s].items[i] = queues[s].items[i]
      BY <1>1, <1>2, <3>1
    <3> QED
      BY <1>1, <3>1, <3>2 DEF SlotOK
  <2> QED
    BY <2>1, <2>2
<1>5. queues'[s].set # None =>
        queues[s].kind \in {"queue", "semaphore"} /\ IsKind(queues'[s].set, "set")
  BY <1>1, <1>2 DEF SlotOK, Kinds
<1> QED
  BY <1>2, <1>3, <1>4, <1>5 DEF SlotKept

(* The width the send reads is the width the item was asked to have.       *)
LEMMA SentWhole ==
  ASSUME IInv, NEW h \in Held, ~IsKind(h, "set"),
         NEW v \in 0 .. Values[asked[h.slot]] - 1
  PROVE  /\ Item(Bytes(v, ITEM_SIZES[h.slot]), v) \in Items
         /\ Right(h.slot, Item(Bytes(v, ITEM_SIZES[h.slot]), v))
<1> DEFINE s == h.slot
<1>1. /\ s \in Slots /\ queues[s].kind \in {"queue", "semaphore"}
      /\ (queues[s].kind = "queue" => ITEM_SIZES[s] = asked[s])
      /\ (queues[s].kind = "semaphore" => asked[s] = 0)
  <2>1. /\ s \in Slots /\ queues[s].kind \in {"queue", "semaphore", "set"}
        /\ queues[s].gen = h.gen /\ (queues[s].kind = "queue" => Settled(s))
    BY HeldFacts
  <2>2. queues[s].kind # "set"
    BY <2>1 DEF IsKind, Live
  <2> QED
    BY <2>1, <2>2 DEF IInv, SlotOK, Settled
<1>2. asked[s] \in 0 .. MAX_ITEM_BYTES /\ ITEM_SIZES[s] \in 0 .. MAX_ITEM_BYTES
  BY <1>1 DEF IInv, TypeInv
<1>3. Values[asked[s]] \in Nat /\ Values[ITEM_SIZES[s]] \in Nat \ {0}
      /\ Values[MAX_ITEM_BYTES] \in Nat \ {0}
  BY <1>2, TablesAssumption
<1>4. v \in Nat /\ v < Values[asked[s]]
  BY <1>3
<1>5. Bytes(v, ITEM_SIZES[s]) = v
  <2>1. CASE queues[s].kind = "queue"
    BY <1>1, <1>2, <1>4, <2>1, BytesFit
  <2>2. CASE queues[s].kind = "semaphore"
    <3>1. v = 0 /\ v < Values[ITEM_SIZES[s]]
      BY <1>1, <1>3, <1>4, <2>2, TablesAssumption
    <3> QED
      BY <1>2, <1>4, <3>1, BytesFit
  <2> QED
    BY <1>1, <2>1, <2>2
<1>6. Item(Bytes(v, ITEM_SIZES[s]), v) = [raw |-> v, c |-> v]
  BY <1>5 DEF Item
<1> QED
  BY <1>1, <1>4, <1>6 DEF Items, Right

(* Sending: the item into its queue, the queue's handle into its set.      *)
LEMMA SendStep ==
  ASSUME IInv, NEW t \in Tasks, xQueueGenericSend(t)
  PROVE  IInv'
<1>1. PICK h \in Held :
        /\ ~IsKind(h, "set") /\ HasRoom(h)
        /\ \E v \in 0 .. Values[asked[h.slot]] - 1 : Put(h, Item(Bytes(v, ITEM_SIZES[h.slot]), v))
  BY DEF xQueueGenericSend
<1>2. PICK item \in Items : Right(h.slot, item) /\ Put(h, item)
  BY <1>1, SentWhole
<1>3. UNCHANGED <<asked, ITEM_SIZES, IS_SET, call>>
  BY DEF xQueueGenericSend
<1> DEFINE set == queues[h.slot].set
           member == Item(Raw[h], handle_to_c(h))
<1>4. /\ h \in Handles /\ h.slot \in Slots /\ queues[h.slot].kind # "free" /\ SlotOK(h.slot)
      /\ queues[h.slot].kind # "set" /\ Len(queues[h.slot].items) < QueueLength
  BY <1>1, HeldFacts DEF IInv, IsKind, Live, HasRoom, Count
<1>5. /\ queues'[h.slot] = [queues[h.slot] EXCEPT !.items = Append(@, item)]
      /\ queues' \in [Slots -> {queues'[s] : s \in Slots}]
  BY <1>2, <1>4 DEF Put
<1>6. /\ queues'[h.slot] \in SlotRecords
      /\ queues'[h.slot].kind = queues[h.slot].kind /\ queues'[h.slot].gen = queues[h.slot].gen
      /\ SlotKept(h.slot)
  BY <1>2, <1>4, <1>5, AppendSlot
<1>7. ASSUME NEW s \in Slots, s # h.slot
      PROVE  /\ queues'[s] \in SlotRecords
             /\ queues'[s].kind = queues[s].kind /\ queues'[s].gen = queues[s].gen
             /\ SlotKept(s)
  <2>1. CASE set # None /\ s = set.slot
    <3>1. IsKind(set, "set") /\ queues[s].kind = "set"
      BY <1>4, <2>1 DEF SlotOK, IsKind
    <3>2. member \in Items /\ Right(s, member)
      <4>1. member.raw = Raw[h] /\ member.c = Raw[h] + 1 /\ member = [raw |-> Raw[h], c |-> Raw[h] + 1]
        BY <1>4 DEF Item, handle_to_c, is_null, Handles
      <4>2. Raw[h] \in Nat
        BY <1>4, TablesAssumption
      <4> QED
        BY <1>4, <3>1, <4>1, <4>2 DEF Items, Right
    <3>3. Len(queues[s].items) < QueueLength
      BY <1>1, <2>1 DEF HasRoom, Count
    <3>4. queues'[s] = [queues[s] EXCEPT !.items = Append(@, member)]
      BY <1>2, <1>7, <2>1 DEF Put
    <3> QED
      BY <3>1, <3>2, <3>3, <3>4, AppendSlot
  <2>2. CASE ~(set # None /\ s = set.slot)
    <3>1. queues'[s] = queues[s]
      BY <1>2, <1>7, <2>2 DEF Put
    <3> QED
      BY <3>1, UntouchedSlot DEF IInv, TypeInv
  <2> QED
    BY <2>1, <2>2
<1>8. KindsKept /\ \A s \in Slots : SlotKept(s)
  <2>1. queues' \in [Slots -> SlotRecords]
    <3>1. \A s \in Slots : queues'[s] \in SlotRecords
      BY <1>6, <1>7
    <3> QED
      BY <1>5, <3>1
  <2> QED
    BY <1>3, <1>6, <1>7, <2>1 DEF KindsKept
<1> QED
  BY <1>3, <1>8, QuietStep

-----------------------------------------------------------------------------
(* Sets.                                                                   *)

(* A held queue or semaphore enters or leaves a set.                       *)
LEMMA MembershipStep ==
  ASSUME IInv, NEW h \in Held, NEW set \in Handles \cup {None},
         set # None => ~IsKind(h, "set") /\ IsKind(set, "set"),
         queues' = [queues EXCEPT ![h.slot].set = set],
         UNCHANGED <<asked, ITEM_SIZES, IS_SET, call>>
  PROVE  IInv'
<1> DEFINE s == h.slot
<1>1. /\ s \in Slots /\ queues[s] \in SlotRecords /\ SlotOK(s) /\ Live(h)
      /\ queues[s].kind \in {"queue", "semaphore", "set"}
  BY HeldFacts DEF IInv, TypeInv, Held
<1>2. queues'[s] = [queues[s] EXCEPT !.set = set]
  BY <1>1 DEF IInv, TypeInv
<1>3. /\ queues'[s] \in SlotRecords /\ queues'[s].set = set
      /\ queues'[s].kind = queues[s].kind /\ queues'[s].gen = queues[s].gen
      /\ queues'[s].items = queues[s].items
  BY <1>1, <1>2 DEF SlotRecords
<1>4. ASSUME NEW r \in Slots, r # s
      PROVE  queues'[r] = queues[r]
  BY <1>4 DEF IInv, TypeInv
<1>5. queues' \in [Slots -> SlotRecords]
  BY <1>1, <1>3, <1>4 DEF IInv, TypeInv
<1>6. KindsKept
  BY <1>3, <1>4, <1>5 DEF KindsKept
<1>7. SlotKept(s)
  <2>1. set # None => queues[s].kind \in {"queue", "semaphore"}
    BY <1>1 DEF IsKind
  <2> QED
    BY <1>1, <1>3, <2>1 DEF SlotOK, SlotKept
<1>8. \A r \in Slots : SlotKept(r)
  BY <1>4, <1>7, UntouchedSlot
<1> QED
  BY <1>6, <1>8, QuietStep

(* xQueueAddToSet and xQueueRemoveFromSet.                                 *)
LEMMA SetStep ==
  ASSUME IInv, NEW t \in Tasks, xQueueAddToSet(t) \/ xQueueRemoveFromSet(t)
  PROVE  IInv'
<1>1. UNCHANGED <<asked, ITEM_SIZES, IS_SET, call>>
  BY DEF xQueueAddToSet, xQueueRemoveFromSet
<1>2. CASE xQueueAddToSet(t)
  <2>1. PICK h \in Held, set \in Held :
          /\ ~IsKind(h, "set") /\ IsKind(set, "set")
          /\ queues' = [queues EXCEPT ![h.slot].set = set]
    BY <1>2 DEF xQueueAddToSet
  <2>2. set \in Handles
    BY DEF Held
  <2> QED
    BY <1>1, <2>1, <2>2, MembershipStep
<1>3. CASE xQueueRemoveFromSet(t)
  <2>1. PICK h \in Held : queues' = [queues EXCEPT ![h.slot].set = None]
    BY <1>3 DEF xQueueRemoveFromSet
  <2> QED
    BY <1>1, <2>1, MembershipStep
<1> QED
  BY <1>2, <1>3

-----------------------------------------------------------------------------
(* Steps that change what one slot is: everybody else is elsewhere.        *)

(* A slot is right if it, its set and its creator are left alone.          *)
LEMMA SlotElsewhere ==
  ASSUME IInv, NEW s \in Slots, queues'[s] = queues[s], asked'[s] = asked[s],
         ITEM_SIZES'[s] = ITEM_SIZES[s], IS_SET'[s] = IS_SET[s],
         InCreation(s) => InCreation(s)',
         NEW owner \in Handles \cup {None}, owner = queues[s].set,
         owner # None => queues'[owner.slot] = queues[owner.slot]
  PROVE  SlotOK(s)'
<1>1. SlotOK(s)
  BY DEF IInv
<1>2. ASSUME NEW i \in 1 .. Len(queues[s].items)
      PROVE  Right(s, queues[s].items[i])'
  <2>1. Right(s, queues[s].items[i])
    BY <1>1, <1>2 DEF SlotOK
  <2> QED
    BY <2>1 DEF Right
<1>3. owner # None => IsKind(owner, "set")'
  BY <1>1 DEF SlotOK, IsKind, Live
<1>4. Settled(s)' <=> Settled(s)
  BY DEF Settled
<1> QED
  BY <1>1, <1>2, <1>3, <1>4 DEF SlotOK

(* A call is right if it and its slot are left alone.                      *)
LEMMA CallElsewhere ==
  ASSUME IInv, NEW t \in Tasks, call'[t] = call[t],
         NEW s \in Slots, ~Idle(t) => call[t].queue.slot = s,
         ~Idle(t) => /\ queues'[s].gen = queues[s].gen /\ queues'[s].kind = queues[s].kind
                     /\ asked'[s] = asked[s]
                     /\ Settled(s) => Settled(s)'
  PROVE  CallOK(t)'
<1>1. CallOK(t) /\ call[t] \in Calls
  BY DEF IInv, TypeInv
<1>2. ASSUME Creating(t)
      PROVE  CallOK(t)'
  <2>1. ~Idle(t) /\ ~Reading(t)
    BY <1>2 DEF Creating, Idle, Reading
  <2> QED
    BY <1>1, <1>2, <2>1 DEF CallOK, Creating, Reading, Live
<1>3. ASSUME Reading(t)
      PROVE  CallOK(t)'
  <2>1. ~Idle(t) /\ ~Creating(t)
    BY <1>3 DEF Creating, Idle, Reading
  <2>2. Right(s, call[t].item) /\ Settled(s) /\ Live(call[t].queue)
        /\ queues[s].kind \in {"queue", "set"}
    BY <1>1, <1>3, <2>1 DEF CallOK
  <2>3. Right(s, call[t].item)'
    BY <2>1, <2>2 DEF Right
  <2>4. Live(call[t].queue)'
    BY <2>1, <2>2 DEF Live
  <2>5. Settled(s)' /\ queues'[s].kind \in {"queue", "set"}
    BY <2>1, <2>2
  <2>6. call'[t].queue.slot = s /\ ~Creating(t)'
    BY <2>1 DEF Creating
  <2>7. Settled(call[t].queue.slot)' /\ Right(call[t].queue.slot, call[t].item)'
    BY <2>1, <2>3, <2>5 DEF Settled, Right
  <2> QED
    BY <2>1, <2>4, <2>5, <2>6, <2>7 DEF CallOK
<1>4. ASSUME ~Creating(t), ~Reading(t)
      PROVE  CallOK(t)'
  BY <1>4 DEF CallOK, Creating, Reading
<1> QED
  BY <1>2, <1>3, <1>4

(* Nobody is in a free slot, and no set is.                                *)
LEMMA FreeSlot ==
  ASSUME IInv, NEW s \in Slots, queues[s].kind = "free"
  PROVE  /\ ~IS_SET[s] /\ ~InCreation(s)
         /\ \A t \in Tasks : ~Idle(t) => call[t].queue \in Handles /\ call[t].queue.slot # s
         /\ \A r \in Slots : queues[r].set # None => queues[r].set.slot # s
<1>1. ~IS_SET[s]
  BY DEF IInv, SlotOK
<1>2. ASSUME NEW t \in Tasks, ~Idle(t)
      PROVE  call[t].queue \in Handles /\ call[t].queue.slot # s
  <2>1. call[t].op \in {"create", "createSet", "read"} /\ call[t].queue \in Handles
    BY <1>2, CallShapes DEF IInv, TypeInv, Idle
  <2>2. Live(call[t].queue)
    BY <2>1 DEF IInv, CallOK, Creating, Reading
  <2> QED
    BY <2>1, <2>2 DEF Live
<1>3. ASSUME NEW r \in Slots, queues[r].set # None
      PROVE  queues[r].set.slot # s
  BY <1>3 DEF IInv, SlotOK, IsKind
<1>4. ~InCreation(s)
  BY <1>2 DEF InCreation, Creating, Idle
<1> QED
  BY <1>1, <1>2, <1>3, <1>4

-----------------------------------------------------------------------------
(* Creation.  A slot comes out of the free list with what the kernel and   *)
(* the C made of it, the tables still as its last user left them.          *)

NewSlot(s, kind, items, size) ==
  /\ queues[s].kind = "free"
  /\ queues' = [queues EXCEPT ![s] = Made(s, kind, items)]
  /\ asked' = [asked EXCEPT ![s] = size]
  /\ UNCHANGED <<ITEM_SIZES, IS_SET>>

(* What the new slot holds; the others are left alone.                     *)
LEMMA NewSlotFacts ==
  ASSUME IInv, NEW s \in Slots, NEW kind \in Kinds, NEW items \in Seq(Items),
         NEW size \in 0 .. MAX_ITEM_BYTES, NewSlot(s, kind, items, size)
  PROVE  /\ queues' \in [Slots -> SlotRecords]
         /\ asked' \in [Slots -> 0 .. MAX_ITEM_BYTES]
         /\ queues'[s].kind = kind /\ queues'[s].items = items /\ queues'[s].set = None
         /\ queues'[s].gen \in 1 .. MaxGen /\ queues'[s].gen = Made(s, kind, items).gen
         /\ asked'[s] = size
         /\ \A r \in Slots : r # s => queues'[r] = queues[r] /\ asked'[r] = asked[r]
<1>1. queues \in [Slots -> SlotRecords] /\ asked \in [Slots -> 0 .. MAX_ITEM_BYTES]
  BY DEF IInv, TypeInv
<1>2. queues[s].gen \in 0 .. MaxGen
  BY <1>1 DEF SlotRecords
<1>3. PICK gen \in 1 .. MaxGen : gen = (queues[s].gen % MaxGen) + 1
  <2>1. (queues[s].gen % MaxGen) + 1 \in 1 .. MaxGen
    BY <1>2, TablesAssumption
  <2> QED
    BY <2>1
<1>4. Made(s, kind, items) = [gen |-> gen, kind |-> kind, items |-> items, set |-> None]
  BY <1>3 DEF Made
<1>5. Made(s, kind, items) \in SlotRecords
  BY <1>4, TablesAssumption DEF SlotRecords
<1>6. /\ queues' \in [Slots -> SlotRecords] /\ queues'[s] = Made(s, kind, items)
      /\ \A r \in Slots : r # s => queues'[r] = queues[r]
  BY <1>1, <1>5 DEF NewSlot
<1>7. /\ asked' \in [Slots -> 0 .. MAX_ITEM_BYTES] /\ asked'[s] = size
      /\ \A r \in Slots : r # s => asked'[r] = asked[r]
  BY <1>1 DEF NewSlot
<1> QED
  BY <1>4, <1>6, <1>7

(* Whatever the new slot is, the others do not notice.                     *)
LEMMA NewSlotOthers ==
  ASSUME IInv, NEW s \in Slots, NEW kind \in Kinds, NEW items \in Seq(Items),
         NEW size \in 0 .. MAX_ITEM_BYTES, NewSlot(s, kind, items, size),
         \A r \in Slots : InCreation(r) => InCreation(r)'
  PROVE  /\ \A r \in Slots : r # s => SlotOK(r)'
         /\ \A t \in Tasks : call'[t] = call[t] => CallOK(t)'
<1>1. /\ \A r \in Slots : r # s => queues'[r] = queues[r] /\ asked'[r] = asked[r]
      /\ UNCHANGED <<ITEM_SIZES, IS_SET>> /\ queues[s].kind = "free"
  BY NewSlotFacts DEF NewSlot
<1>2. ASSUME NEW r \in Slots, r # s
      PROVE  SlotOK(r)'
  <2>1. PICK owner \in Handles \cup {None} : owner = queues[r].set
    BY DEF IInv, TypeInv, SlotRecords
  <2>2. owner # None => owner.slot \in Slots /\ owner.slot # s
    BY <1>1, <2>1, FreeSlot DEF Handles
  <2>3. owner # None => queues'[owner.slot] = queues[owner.slot]
    BY <1>1, <2>2
  <2> QED
    BY <1>1, <1>2, <2>1, <2>3, SlotElsewhere
<1>3. ASSUME NEW t \in Tasks, call'[t] = call[t]
      PROVE  CallOK(t)'
  <2>1. CASE Idle(t)
    BY <1>3, <2>1, CallElsewhere
  <2>2. CASE ~Idle(t)
    <3>1. PICK r \in Slots : r = call[t].queue.slot /\ r # s
      BY <1>1, <2>2, FreeSlot DEF Handles
    <3>2. queues'[r] = queues[r] /\ asked'[r] = asked[r] /\ (Settled(r) => Settled(r)')
      BY <1>1, <3>1 DEF Settled
    <3> QED
      BY <1>3, <3>1, <3>2, CallElsewhere
  <2> QED
    BY <2>1, <2>2
<1> QED
  BY <1>2, <1>3

(* What the two creators ask of the kernel.                                *)
Asked(kind, op, size) ==
  /\ op = (IF kind = "queue" THEN "create" ELSE "createSet")
  /\ kind = "set" => size = SET_ITEM_BYTES

(* The kernel's half of xQueueGenericCreate and xQueueCreateSet.           *)
LEMMA CreateStep ==
  ASSUME IInv, NEW t \in Tasks, NEW s \in Slots, NEW size \in 0 .. MAX_ITEM_BYTES,
         NEW kind \in {"queue", "set"}, NEW op \in {"create", "createSet"},
         Asked(kind, op, size),
         KernelCreate(t, s, kind, op, size)
  PROVE  IInv'
<1>0. kind \in Kinds
  BY DEF Kinds
<1>a. PICK empty \in Seq(Items) : empty = <<>> /\ Len(empty) = 0
  <2>1. <<>> \in Seq(Items)
    OBVIOUS
  <2>2. Len(<<>>) = 0
    OBVIOUS
  <2> QED
    BY <2>1, <2>2
<1>1. NewSlot(s, kind, empty, size) /\ Idle(t) /\ queues[s].kind = "free"
  BY <1>a DEF KernelCreate, NewSlot
<1>2. /\ queues' \in [Slots -> SlotRecords] /\ asked' \in [Slots -> 0 .. MAX_ITEM_BYTES]
      /\ queues'[s].kind = kind /\ queues'[s].items = empty /\ queues'[s].set = None
      /\ queues'[s].gen \in 1 .. MaxGen /\ queues'[s].gen = Made(s, kind, empty).gen
      /\ asked'[s] = size
  BY <1>0, <1>1, NewSlotFacts
<1>3. PICK h \in Handles : h.slot = s /\ h.gen = queues'[s].gen
                           /\ h = [slot |-> s, gen |-> Made(s, kind, empty).gen]
  BY <1>2 DEF Handles
<1>4. PICK mine \in Calls : mine = [op |-> op, queue |-> h, size |-> size]
  <2>1. size \in Nat
    BY TablesAssumption
  <2>2. [op |-> op, queue |-> h, size |-> size] \in
          [op : {"create", "createSet"}, queue : Handles, size : Nat]
    BY <2>1
  <2>3. [op |-> op, queue |-> h, size |-> size] \in Calls
    BY <2>2 DEF Calls
  <2> QED
    BY <2>3
<1>5. call' = [call EXCEPT ![t] = mine]
  BY <1>3, <1>4, <1>a DEF KernelCreate
<1>6. call'[t] = mine /\ call' \in [Tasks -> Calls]
      /\ \A u \in Tasks : u # t => call'[u] = call[u]
  BY <1>5 DEF IInv, TypeInv
<1>7. /\ mine.op = op /\ mine.queue = h /\ mine.queue.slot = s /\ mine.size = size
      /\ mine.op # "read" /\ mine.op # "none"
  BY <1>3, <1>4
<1>8. \A r \in Slots : InCreation(r) => InCreation(r)'
  BY <1>1, <1>6 DEF InCreation, Creating, Idle
<1>9. InCreation(s)'
  BY <1>6, <1>7 DEF InCreation, Creating
<1>10. TypeInv'
  BY <1>1, <1>2, <1>6 DEF IInv, TypeInv, NewSlot
<1>11. \A r \in Slots : SlotOK(r)'
  <2>1. SlotOK(s)'
    <3>1. ~IS_SET'[s]
      BY <1>1, FreeSlot DEF NewSlot
    <3>2. Len(queues'[s].items) = 0
      BY <1>2, <1>a
    <3>3. /\ Len(queues'[s].items) <= QueueLength
          /\ \A i \in 1 .. Len(queues'[s].items) : FALSE
      BY <3>2, TablesAssumption
    <3>4. /\ queues'[s].kind # "free" /\ queues'[s].kind # "semaphore" /\ queues'[s].set = None
          /\ queues'[s].kind = "set" => asked'[s] = SET_ITEM_BYTES
      BY <1>2 DEF Asked
    <3> QED
      BY <1>9, <3>1, <3>3, <3>4 DEF SlotOK
  <2>2. \A r \in Slots : r # s => SlotOK(r)'
    BY <1>0, <1>1, <1>8, NewSlotOthers
  <2> QED
    BY <2>1, <2>2
<1>12. \A u \in Tasks : CallOK(u)'
  <2>1. CallOK(t)'
    <3>1. queues'[h.slot].kind # "free" /\ queues'[h.slot].gen = h.gen
      BY <1>2, <1>3
    <3> QED
      BY <1>2, <1>3, <1>6, <1>7, <3>1 DEF Asked, CallOK, Reading, Creating, Live
  <2>2. \A u \in Tasks : u # t => CallOK(u)'
    BY <1>0, <1>1, <1>6, <1>8, NewSlotOthers
  <2> QED
    BY <2>1, <2>2
<1>13. \A u, w \in Tasks : Apart(u, w)'
  <2> SUFFICES ASSUME NEW u \in Tasks, NEW w \in Tasks, u # w, Creating(u)', ~Idle(w)'
               PROVE  call'[u].queue.slot # call'[w].queue.slot
    BY DEF Apart
  <2>1. CASE u = t
    <3>1. call'[w] = call[w] /\ ~Idle(w)
      BY <1>6, <2>1 DEF Idle
    <3> QED
      BY <1>1, <1>6, <1>7, <2>1, <3>1, FreeSlot
  <2>2. CASE w = t
    <3>1. call'[u] = call[u] /\ ~Idle(u)
      BY <1>6, <2>2 DEF Creating, Idle
    <3> QED
      BY <1>1, <1>6, <1>7, <2>2, <3>1, FreeSlot
  <2>3. CASE u # t /\ w # t
    <3>1. call'[u] = call[u] /\ call'[w] = call[w] /\ Creating(u) /\ ~Idle(w)
      BY <1>6, <2>3 DEF Creating, Idle
    <3> QED
      BY <3>1 DEF IInv, Apart
  <2> QED
    BY <2>1, <2>2, <2>3
<1> QED
  BY <1>10, <1>11, <1>12, <1>13 DEF IInv

(* A semaphore or mutex, which never touches the tables.                   *)
LEMMA CreateSemaphoreStep ==
  ASSUME IInv, NEW t \in Tasks, CreateSemaphore(t)
  PROVE  IInv'
<1>1. PICK s \in Slots, n \in 0 .. QueueLength :
        /\ queues[s].kind = "free"
        /\ queues' = [queues EXCEPT ![s] = Made(s, "semaphore", [i \in 1 .. n |-> Item(0, 0)])]
        /\ asked' = [asked EXCEPT ![s] = 0]
  BY DEF CreateSemaphore
<1>2. UNCHANGED <<ITEM_SIZES, IS_SET, call>>
  BY DEF CreateSemaphore
<1>3. PICK items \in Seq(Items) : items = [i \in 1 .. n |-> Item(0, 0)]
  <2>1. [i \in 1 .. n |-> Item(0, 0)] \in Seq(Items)
    BY TablesAssumption DEF Items, Item
  <2> QED
    BY <2>1
<1>4. /\ NewSlot(s, "semaphore", items, 0) /\ "semaphore" \in Kinds
      /\ 0 \in 0 .. MAX_ITEM_BYTES
  BY <1>1, <1>2, <1>3, TablesAssumption DEF NewSlot, Kinds
<1>5. /\ queues' \in [Slots -> SlotRecords] /\ asked' \in [Slots -> 0 .. MAX_ITEM_BYTES]
      /\ queues'[s].kind = "semaphore" /\ queues'[s].items = items /\ queues'[s].set = None
      /\ asked'[s] = 0
  BY <1>4, NewSlotFacts
<1>6. \A r \in Slots : InCreation(r) => InCreation(r)'
  BY <1>2 DEF InCreation, Creating
<1>7. SlotOK(s)'
  <2>1. ~IS_SET'[s]
    BY <1>1, <1>2, FreeSlot
  <2>2. Len(items) = n /\ n <= QueueLength
    BY <1>3, TablesAssumption
  <2>3. ASSUME NEW i \in 1 .. Len(items)
        PROVE  items[i].raw = 0 /\ items[i].c = 0
    BY <1>3, <2>2, <2>3 DEF Item
  <2>4. 0 < Values[0]
    BY TablesAssumption
  <2>5. \A i \in 1 .. Len(queues'[s].items) : Right(s, queues[s].items[i])'
    BY <1>5, <2>3, <2>4 DEF Right
  <2> QED
    BY <1>5, <2>1, <2>2, <2>5 DEF SlotOK
<1>8. /\ \A r \in Slots : SlotOK(r)'
      /\ \A u \in Tasks : CallOK(u)'
  BY <1>2, <1>4, <1>6, <1>7, NewSlotOthers
<1>9. \A u, w \in Tasks : Apart(u, w)'
  BY <1>2 DEF IInv, Apart, Creating, Idle
<1> QED
  BY <1>2, <1>5, <1>8, <1>9 DEF IInv, TypeInv

(* The creator writes its slot's entries, and only those.                  *)
LEMMA StoreStep ==
  ASSUME IInv, NEW t \in Tasks, StoreTables(t)
  PROVE  IInv'
<1>1. PICK s \in Slots, size \in 0 .. MAX_ITEM_BYTES :
        /\ call[t].queue \in Handles /\ call[t].queue.slot = s /\ call[t].size = size
        /\ asked[s] = size /\ Live(call[t].queue)
        /\ queues[s].kind = (IF call[t].op = "create" THEN "queue" ELSE "set")
  <2>1. call[t].queue \in Handles /\ Creating(t)
    BY CallShapes DEF IInv, TypeInv, StoreTables, Creating
  <2>2. CallOK(t)
    BY DEF IInv
  <2>3. call[t].queue.slot \in Slots
    BY <2>1 DEF Handles
  <2>4. call[t].size \in 0 .. MAX_ITEM_BYTES
    BY <2>1, <2>2, <2>3 DEF IInv, TypeInv, CallOK
  <2> QED
    BY <2>1, <2>2, <2>3, <2>4 DEF CallOK
<1>2. /\ UNCHANGED <<queues, asked>>
      /\ call'[t] = NoCall /\ call' \in [Tasks -> Calls]
      /\ \A u \in Tasks : u # t => call'[u] = call[u]
  BY DEF StoreTables, IInv, TypeInv, Calls
<1>3. /\ ITEM_SIZES' = [ITEM_SIZES EXCEPT ![s] = size]
      /\ ITEM_SIZES' \in [Slots -> 0 .. MAX_ITEM_BYTES] /\ ITEM_SIZES'[s] = size
      /\ \A r \in Slots : r # s => ITEM_SIZES'[r] = ITEM_SIZES[r]
  BY <1>1 DEF StoreTables, SizesStored, IInv, TypeInv
<1>4. /\ IS_SET' \in [Slots -> BOOLEAN]
      /\ queues[s].kind = "set" => IS_SET'[s]
      /\ queues[s].kind = "queue" => ~IS_SET'[s]
      /\ \A r \in Slots : r # s => IS_SET'[r] = IS_SET[r]
  <2>1. CASE call[t].op = "createSet"
    <3>1. IS_SET' = [IS_SET EXCEPT ![s] = TRUE] /\ queues[s].kind = "set"
      BY <1>1, <2>1 DEF StoreTables, FlagStored
    <3> QED
      BY <3>1 DEF IInv, TypeInv
  <2>2. CASE call[t].op # "createSet"
    <3>1. IS_SET' = IS_SET /\ queues[s].kind = "queue"
      BY <1>1, <2>2 DEF StoreTables, Creating
    <3>2. ~IS_SET[s]
      BY <3>1 DEF IInv, SlotOK
    <3> QED
      BY <3>1, <3>2 DEF IInv, TypeInv
  <2> QED
    BY <2>1, <2>2
<1>5. queues[s].kind \in {"queue", "set"}
  BY <1>1
<1>6. TypeInv'
  BY <1>2, <1>3, <1>4 DEF IInv, TypeInv
<1>7. ASSUME NEW r \in Slots, r # s
      PROVE  SlotOK(r)'
  <2>1. ASSUME InCreation(r)
        PROVE  InCreation(r)'
    <3>1. PICK u \in Tasks : Creating(u) /\ call[u].queue.slot = r
      BY <2>1 DEF InCreation
    <3>2. call'[u] = call[u]
      BY <1>1, <1>2, <1>7, <3>1
    <3> QED
      BY <3>1, <3>2 DEF InCreation, Creating
  <2>2. PICK owner \in Handles \cup {None} : owner = queues[r].set
    BY DEF IInv, TypeInv, SlotRecords
  <2> QED
    BY <1>2, <1>3, <1>4, <1>7, <2>1, <2>2, SlotElsewhere
<1>8. SlotOK(s)'
  <2>1. SlotOK(s)
    BY DEF IInv
  <2>2. ASSUME NEW i \in 1 .. Len(queues[s].items)
        PROVE  Right(s, queues[s].items[i])'
    <3>1. Right(s, queues[s].items[i])
      BY <2>1, <2>2 DEF SlotOK
    <3> QED
      BY <1>2, <3>1 DEF Right
  <2>3. Settled(s)'
    BY <1>1, <1>2, <1>3, <1>4, <1>5 DEF Settled
  <2>4. IS_SET'[s] => queues'[s].kind = "set"
    BY <1>2, <1>4, <1>5
  <2>5. queues'[s].set # None => IsKind(queues[s].set, "set")'
    BY <1>2, <2>1 DEF SlotOK, IsKind, Live
  <2> QED
    BY <1>2, <2>1, <2>2, <2>3, <2>4, <2>5 DEF SlotOK
<1>9. ASSUME NEW u \in Tasks
      PROVE  CallOK(u)'
  <2>1. CASE u = t
    <3>1. ~Creating(u)' /\ ~Reading(u)'
      BY <1>2, <2>1 DEF Creating, Reading, NoCall
    <3> QED
      BY <3>1 DEF CallOK
  <2>2. CASE u # t /\ Idle(u)
    <3>1. ~Creating(u)' /\ ~Reading(u)'
      BY <1>2, <2>2 DEF Creating, Reading, Idle
    <3> QED
      BY <3>1 DEF CallOK
  <2>3. CASE u # t /\ ~Idle(u)
    <3>1. call[u].queue \in Handles
      BY <2>3, CallShapes DEF IInv, TypeInv, Idle
    <3>2. PICK r \in Slots : r = call[u].queue.slot /\ r # s
      BY <1>1, <2>3, <3>1 DEF IInv, Apart, StoreTables, Handles
    <3>3. Settled(r)' <=> Settled(r)
      BY <1>2, <1>3, <1>4, <3>2 DEF Settled
    <3> QED
      BY <1>2, <2>3, <3>2, <3>3, CallElsewhere
  <2> QED
    BY <2>1, <2>2, <2>3
<1>10. \A u, w \in Tasks : Apart(u, w)'
  BY <1>2, LeavesApart
<1> QED
  BY <1>6, <1>7, <1>8, <1>9, <1>10 DEF IInv

-----------------------------------------------------------------------------
(* Deletion.  A slot goes free with the flag it has, which is why no set   *)
(* may go.                                                                 *)
LEMMA DeleteStep ==
  ASSUME IInv, ~DeletesSets, NEW t \in Tasks, vQueueDelete(t)
  PROVE  IInv'
<1>1. PICK h \in Held :
        /\ Unused(h) /\ ~IsKind(h, "set")
        /\ queues' = [queues EXCEPT ![h.slot] = [@ EXCEPT !.kind = "free", !.items = <<>>]]
  BY DEF vQueueDelete
<1>2. UNCHANGED <<asked, ITEM_SIZES, IS_SET, call>>
  BY DEF vQueueDelete
<1>3. PICK s \in Slots : s = h.slot
  BY HeldFacts
<1>4. /\ h \in Handles /\ Live(h) /\ queues[s].gen = h.gen /\ queues[s].kind # "set"
      /\ queues[s] \in SlotRecords /\ SlotOK(s)
  BY <1>1, <1>3, HeldFacts DEF IInv, TypeInv, Held, IsKind
<1>5. PICK empty \in Seq(Items) : empty = <<>> /\ Len(empty) = 0
  <2>1. <<>> \in Seq(Items)
    OBVIOUS
  <2>2. Len(<<>>) = 0
    OBVIOUS
  <2> QED
    BY <2>1, <2>2
<1>6. queues'[s] = [queues[s] EXCEPT !.kind = "free", !.items = empty]
  BY <1>1, <1>3, <1>5 DEF IInv, TypeInv
<1>7. /\ queues'[s] \in SlotRecords /\ queues'[s].kind = "free" /\ queues'[s].items = empty
      /\ queues'[s].set = queues[s].set /\ queues'[s].gen = queues[s].gen
  BY <1>4, <1>6 DEF SlotRecords, Kinds
<1>8. ASSUME NEW r \in Slots, r # s
      PROVE  queues'[r] = queues[r]
  BY <1>1, <1>3, <1>8 DEF IInv, TypeInv
<1>9. queues' \in [Slots -> SlotRecords]
  <2>1. queues' \in [Slots -> {queues'[r] : r \in Slots}]
    BY <1>1 DEF IInv, TypeInv
  <2>2. \A r \in Slots : queues'[r] \in SlotRecords
    BY <1>7, <1>8 DEF IInv, TypeInv
  <2> QED
    BY <2>1, <2>2
<1>10. TypeInv'
  BY <1>2, <1>9 DEF IInv, TypeInv
<1>11. \A r \in Slots : InCreation(r) => InCreation(r)'
  BY <1>2 DEF InCreation, Creating
<1>12. SlotOK(s)'
  <2>1. queues'[s].set = None
    BY <1>1, <1>3, <1>7 DEF Unused
  <2>2. ~IS_SET'[s]
    BY <1>2, <1>4 DEF SlotOK
  <2>3. /\ Len(queues'[s].items) <= QueueLength
        /\ \A i \in 1 .. Len(queues'[s].items) : FALSE
    BY <1>5, <1>7, TablesAssumption
  <2> QED
    BY <1>5, <1>7, <2>1, <2>2, <2>3 DEF SlotOK
<1>13. ASSUME NEW r \in Slots, r # s
       PROVE  SlotOK(r)'
  <2>1. PICK owner \in Handles \cup {None} : owner = queues[r].set
    BY DEF IInv, TypeInv, SlotRecords
  <2>2. ASSUME owner # None
        PROVE  queues'[owner.slot] = queues[owner.slot]
    <3>1. owner \in Handles /\ Live(owner) /\ owner # h
      BY <1>1, <2>1, <2>2 DEF IInv, SlotOK, IsKind, Unused
    <3>2. owner.slot # s
      BY <1>3, <1>4, <3>1, SameHandle DEF Live
    <3>3. owner.slot \in Slots
      BY <3>1 DEF Handles
    <3> QED
      BY <1>8, <3>2, <3>3
  <2> QED
    BY <1>2, <1>8, <1>11, <1>13, <2>1, <2>2, SlotElsewhere
<1>14. ASSUME NEW u \in Tasks
       PROVE  CallOK(u)'
  <2>1. CASE Idle(u)
    <3>1. ~Creating(u)' /\ ~Reading(u)'
      BY <1>2, <2>1 DEF Creating, Reading, Idle
    <3> QED
      BY <3>1 DEF CallOK
  <2>2. CASE ~Idle(u)
    <3>1. call[u].queue \in Handles /\ (Creating(u) \/ Reading(u))
      BY <2>2, CallShapes DEF IInv, TypeInv, Idle, Creating, Reading
    <3>2. Live(call[u].queue) /\ call[u].queue # h
      BY <1>1, <2>2, <3>1 DEF IInv, CallOK, Unused
    <3>3. PICK r \in Slots : r = call[u].queue.slot /\ r # s
      BY <1>3, <1>4, <3>1, <3>2, SameHandle DEF Live, Handles
    <3>4. queues'[r] = queues[r] /\ (Settled(r) => Settled(r)')
      BY <1>2, <1>8, <3>3 DEF Settled
    <3> QED
      BY <1>2, <3>3, <3>4, CallElsewhere
  <2> QED
    BY <2>1, <2>2
<1>15. \A u, w \in Tasks : Apart(u, w)'
  BY <1>2 DEF IInv, Apart, Creating, Idle
<1> QED
  BY <1>10, <1>12, <1>13, <1>14, <1>15 DEF IInv

-----------------------------------------------------------------------------
(* The specification.                                                      *)

(* Nothing has been created yet.                                           *)
LEMMA InitHolds ==
  ASSUME Init
  PROVE  IInv
<1>1. <<>> \in Seq(Items)
  OBVIOUS
<1>2. Len(<<>>) = 0
  OBVIOUS
<1>3. ASSUME NEW s \in Slots
      PROVE  SlotOK(s)
  <2>1. queues[s] = [gen |-> 0, kind |-> "free", items |-> <<>>, set |-> None] /\ ~IS_SET[s]
    BY DEF Init
  <2>2. Len(queues[s].items) <= QueueLength /\ \A i \in 1 .. Len(queues[s].items) : FALSE
    BY <1>2, <2>1, TablesAssumption
  <2> QED
    BY <2>1, <2>2 DEF SlotOK
<1>4. TypeInv
  <2>1. [gen |-> 0, kind |-> "free", items |-> <<>>, set |-> None] \in SlotRecords
    BY <1>1, TablesAssumption DEF SlotRecords, Kinds
  <2>2. 0 \in 0 .. MAX_ITEM_BYTES
    BY TablesAssumption
  <2> QED
    BY <2>1, <2>2 DEF Init, TypeInv, Calls
<1>5. ASSUME NEW t \in Tasks
      PROVE  ~Creating(t) /\ ~Reading(t)
  BY DEF Init, NoCall, Creating, Reading
<1> QED
  BY <1>3, <1>4, <1>5 DEF IInv, CallOK, Apart

(* Every action of every task preserves the invariant.                     *)
LEMMA StepHolds ==
  ASSUME IInv, ~DeletesSets, [Next]_vars
  PROVE  IInv'
<1>1. ASSUME NEW t \in Tasks, xQueueGenericCreate(t)
      PROVE  IInv'
  <2>1. PICK s \in Slots, n \in ItemSizes :
          n <= MAX_ITEM_BYTES /\ KernelCreate(t, s, "queue", "create", n)
    BY <1>1 DEF xQueueGenericCreate, item_size_fits
  <2>2. n \in 0 .. MAX_ITEM_BYTES
    BY <2>1, TablesAssumption
  <2> QED
    BY <2>1, <2>2, CreateStep DEF Asked
<1>2. ASSUME NEW t \in Tasks, xQueueCreateSet(t)
      PROVE  IInv'
  <2>1. PICK s \in Slots : KernelCreate(t, s, "set", "createSet", SET_ITEM_BYTES)
    BY <1>2 DEF xQueueCreateSet
  <2>2. SET_ITEM_BYTES \in 0 .. MAX_ITEM_BYTES
    BY TablesAssumption
  <2> QED
    BY <2>1, <2>2, CreateStep DEF Asked
<1>3. CASE UNCHANGED vars
  BY <1>3 DEF vars, IInv, TypeInv, SlotOK, CallOK, Apart, Right, Settled, InCreation,
              Live, IsKind, Idle, Creating, Reading
<1>4. CASE Next
  <2>1. PICK t \in Tasks : Task(t)
    BY <1>4 DEF Next
  <2>2. CASE Refused(t)
    BY <1>3, <2>2 DEF Refused
  <2> QED
    BY <1>1, <1>2, <2>1, <2>2, StoreStep, CreateSemaphoreStep, DeleteStep, SendStep,
       ReadStep, WriteItemStep, TakeOneStep, SetStep DEF Task
<1> QED
  BY <1>3, <1>4

(* The inductive invariant is one: no call of any task, in any order, on   *)
(* any number of slots, leaves a table that disagrees with its queue.      *)
THEOREM TablesInvariant ==
  ASSUME ~DeletesSets
  PROVE  Spec => []IInv
<1>1. Init => IInv
  BY InitHolds
<1>2. IInv /\ [Next]_vars => IInv'
  BY StepHolds
<1> QED
  BY <1>1, <1>2, PTL DEF Spec

(* The type invariant: sets and their members are live and the tables      *)
(* never say more than the kernel's number can carry.                      *)
THEOREM TablesTyped ==
  ASSUME ~DeletesSets
  PROVE  Spec => []TypeOK
<1>1. IInv => TypeOK
  <2> SUFFICES ASSUME IInv
               PROVE  TypeOK
    OBVIOUS
  <2>1. ASSUME NEW s \in Slots
        PROVE  /\ queues[s].gen \in 0 .. MaxGen /\ queues[s].kind \in Kinds
               /\ queues[s] \in SlotRecords /\ SlotOK(s)
    BY DEF IInv, TypeInv, SlotRecords
  <2>2. asked \in [Slots -> Nat]
    BY TablesAssumption DEF IInv, TypeInv
  <2>3. ASSUME NEW t \in Tasks, ~Idle(t)
        PROVE  call[t].queue \in Handles
    BY <2>3, CallShapes DEF IInv, TypeInv, Idle
  <2>4. ITEM_SIZES \in [Slots -> 0 .. MAX_ITEM_BYTES] /\ IS_SET \in [Slots -> BOOLEAN]
    BY DEF IInv, TypeInv
  <2> QED
    BY <2>1, <2>2, <2>3, <2>4 DEF SlotOK, TypeOK
<1> QED
  BY <1>1, TablesInvariant, PTL

(* Whatever was created, deleted and recreated in a slot before, and       *)
(* whoever runs between the kernel's answer and the copy, the C reads out  *)
(* of a queue what it put in, and out of a set the handle it holds.        *)
THEOREM ItemsAreWhole ==
  ASSUME ~DeletesSets
  PROVE  Spec => []ItemsComeBackWhole
<1>1. IInv => ItemsComeBackWhole
  BY ReadsWhole
<1> QED
  BY <1>1, TablesInvariant, PTL
=============================================================================
