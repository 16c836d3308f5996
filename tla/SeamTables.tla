----------------------------- MODULE SeamTables -----------------------------
(***************************************************************************)
(* The two tables seam/abi.rs keeps beside the kernel's queues, and the    *)
(* calls that fill and read them.                                          *)
(*                                                                         *)
(* A kernel queue carries numbers; a C queue carries items of uxItemSize   *)
(* bytes, and a queue set carries handles.  ITEM_SIZES and IS_SET say, by  *)
(* the index of the kernel's slot, how wide an item is and whether it is   *)
(* a handle.  Both are written after the kernel has made the queue and     *)
(* read after the kernel has handed an item out, so a call here is two     *)
(* steps; the slots are reused, the tables never cleared.                  *)
(*                                                                         *)
(* Blocking and retrying is SeamQueue's business and left out here.        *)
(***************************************************************************)
EXTENDS Integers, Sequences

CONSTANTS
  Tasks,
  Slots,         \* the kernel's queue slots, QUEUES of them
  MaxGen,        \* generations of a slot, after which they start again
  None,
  Raw,           \* Handle::to_raw, a number per handle
  ItemSizes,     \* the item sizes the C asks for
  MAX_ITEM_BYTES,  \* the widest the kernel's number carries, 8 in the code
  QueueLength,   \* bound: length of every queue and set
  Values,        \* how many values so many bytes have, 256^n in the code
  SET_ITEM_BYTES,  \* the bytes of a QueueHandle_t
  DeletesSets    \* whether the C ever deletes a queue set

Handles == [slot : Slots, gen : 1 .. MaxGen]

ASSUME TablesAssumption ==
  /\ None \notin Handles
  /\ Raw \in [Handles -> Nat \ {0}]
  /\ \A h, k \in Handles : Raw[h] = Raw[k] => h = k
  /\ ItemSizes \subseteq Nat /\ SET_ITEM_BYTES <= MAX_ITEM_BYTES
  /\ QueueLength \in Nat \ {0}
  /\ SET_ITEM_BYTES \in Nat /\ MAX_ITEM_BYTES \in Nat
  /\ Values \in [ItemSizes \cup 0 .. MAX_ITEM_BYTES -> Nat \ {0}]
  /\ Values[0] = 1
  /\ \A h \in Handles : Raw[h] + 1 < Values[SET_ITEM_BYTES]
  /\ MaxGen \in Nat \ {0} /\ DeletesSets \in BOOLEAN

VARIABLES
  queues,      \* the kernel's slots: generation, kind, items, set it is in
  asked,       \* per slot: the item size the C asked for, a history variable
  ITEM_SIZES, IS_SET,
  call         \* per task: the call it is in the middle of, or NoCall

vars == <<queues, asked, ITEM_SIZES, IS_SET, call>>

Kinds == {"free", "queue", "semaphore", "set"}

Live(h) == queues[h.slot].gen = h.gen /\ queues[h.slot].kind # "free"
IsKind(h, kind) == Live(h) /\ queues[h.slot].kind = kind
Count(h) == Len(queues[h.slot].items)

NoCall == [op |-> "none"]
Idle(t) == call[t].op = "none"
Creating(t) == call[t].op \in {"create", "createSet"}
Reading(t) == call[t].op = "read"

(* The C holds a handle once its creator has returned.                     *)
Held == {h \in Handles : Live(h) /\ \A t \in Tasks : Creating(t) => call[t].queue # h}

-----------------------------------------------------------------------------
(* The codec.                                                              *)

(* item_from_bytes and item_to_bytes: so many bytes of a number, no more   *)
(* than the kernel's number has.                                           *)
Bytes(value, n) == value % Values[IF n <= MAX_ITEM_BYTES THEN n ELSE MAX_ITEM_BYTES]

AnySize(n) == TRUE
item_size_fits(n) == n <= MAX_ITEM_BYTES

is_null(h) == h.gen = 0
handle_to_c(h) == IF is_null(h) THEN 0 ELSE Raw[h] + 1

set_item_to_c(raw) == IF raw = 0 THEN 0 ELSE raw + 1

item_for_c(slot, value) == IF IS_SET[slot] THEN set_item_to_c(value) ELSE value

(* An item in a queue: the kernel's number, and what the C is to see when  *)
(* it comes out.                                                           *)
Item(raw, c) == [raw |-> raw, c |-> c]

-----------------------------------------------------------------------------
(* Creation and deletion.                                                  *)

Made(s, kind, items) ==
  [gen |-> (queues[s].gen % MaxGen) + 1, kind |-> kind, items |-> items, set |-> None]

KernelCreate(t, s, kind, op, size) ==
  /\ Idle(t)
  /\ queues[s].kind = "free"
  /\ queues' = [queues EXCEPT ![s] = Made(s, kind, <<>>)]
  /\ asked' = [asked EXCEPT ![s] = size]
  /\ call' = [call EXCEPT ![t] =
       [op |-> op, queue |-> [slot |-> s, gen |-> Made(s, kind, <<>>).gen], size |-> size]]
  /\ UNCHANGED <<ITEM_SIZES, IS_SET>>

xQueueGenericCreate(t) ==
  \E s \in Slots, n \in ItemSizes :
    item_size_fits(n) /\ KernelCreate(t, s, "queue", "create", n)

xQueueCreateSet(t) ==
  \E s \in Slots : KernelCreate(t, s, "set", "createSet", SET_ITEM_BYTES)

(* xQueueCreateCountingSemaphore, xQueueCreateMutex: the tables keep what  *)
(* the slot's last user left in them.                                      *)
CreateSemaphore(t) ==
  /\ Idle(t)
  /\ \E s \in Slots, n \in 0 .. QueueLength :
       /\ queues[s].kind = "free"
       /\ queues' = [queues EXCEPT ![s] = Made(s, "semaphore", [i \in 1 .. n |-> Item(0, 0)])]
       /\ asked' = [asked EXCEPT ![s] = 0]
  /\ UNCHANGED <<ITEM_SIZES, IS_SET, call>>

(* What the queue and the set do to the tables before they return.         *)
SizesKept(s, n) == ITEM_SIZES
SizesStored(s, n) == [ITEM_SIZES EXCEPT ![s] = n]
FlagKept(s) == IS_SET
FlagStored(s) == [IS_SET EXCEPT ![s] = TRUE]

StoreTables(t) ==
  /\ Creating(t)
  /\ ITEM_SIZES' = SizesStored(call[t].queue.slot, call[t].size)
  /\ IS_SET' = IF call[t].op = "createSet" THEN FlagStored(call[t].queue.slot) ELSE IS_SET
  /\ call' = [call EXCEPT ![t] = NoCall]
  /\ UNCHANGED <<queues, asked>>

(* vQueueDelete: only the kernel's slot is freed.  A C program deletes a   *)
(* queue nobody uses: no other call is in it, and it is in no set and has  *)
(* no member.                                                              *)
Unused(h) ==
  /\ \A t \in Tasks : ~Idle(t) => call[t].queue # h
  /\ queues[h.slot].set = None
  /\ \A s \in Slots : queues[s].set # h

vQueueDelete(t) ==
  /\ Idle(t)
  /\ \E h \in Held :
       /\ Unused(h)
       /\ IsKind(h, "set") => DeletesSets
       /\ queues' = [queues EXCEPT ![h.slot] = [@ EXCEPT !.kind = "free", !.items = <<>>]]
  /\ UNCHANGED <<asked, ITEM_SIZES, IS_SET, call>>

-----------------------------------------------------------------------------
(* Items.                                                                  *)

(* The kernel puts an item in, and the queue's handle into its set.        *)
Put(h, item) ==
  LET set == queues[h.slot].set IN
  queues' = [s \in Slots |->
    IF s = h.slot THEN [queues[s] EXCEPT !.items = Append(@, item)]
    ELSE IF set # None /\ s = set.slot
      THEN [queues[s] EXCEPT !.items = Append(@, Item(Raw[h], handle_to_c(h)))]
    ELSE queues[s]]

HasRoom(h) ==
  /\ Count(h) < QueueLength
  /\ queues[h.slot].set # None => Count(queues[h.slot].set) < QueueLength

(* xQueueGenericSend and its interrupt form: the width is read first.  A   *)
(* semaphore is given this way, with no item.                              *)
xQueueGenericSend(t) ==
  /\ Idle(t)
  /\ \E h \in Held :
       /\ ~IsKind(h, "set") /\ HasRoom(h)
       /\ \E v \in 0 .. Values[asked[h.slot]] - 1 :
            Put(h, Item(Bytes(v, ITEM_SIZES[h.slot]), v))
  /\ UNCHANGED <<asked, ITEM_SIZES, IS_SET, call>>

(* xQueueReceive and xQueuePeek, up to the kernel's answer.                *)
Answer(t, h) ==
  /\ Idle(t)
  /\ h \in Held /\ Count(h) > 0 /\ ~IsKind(h, "semaphore")
  /\ call' = [call EXCEPT ![t] =
       [op |-> "read", queue |-> h, item |-> Head(queues[h.slot].items)]]
  /\ UNCHANGED <<asked, ITEM_SIZES, IS_SET>>

xQueueReceive(t) ==
  \E h \in Handles :
    Answer(t, h) /\ queues' = [queues EXCEPT ![h.slot].items = Tail(@)]

xQueuePeek(t) == \E h \in Handles : Answer(t, h) /\ UNCHANGED queues

(* What the C's buffer gets: item_for_c, then write_item.                  *)
Written(c) ==
  Bytes(item_for_c(c.queue.slot, c.item.raw), ITEM_SIZES[c.queue.slot])

WriteItem(t) ==
  /\ Reading(t)
  /\ call' = [call EXCEPT ![t] = NoCall]
  /\ UNCHANGED <<queues, asked, ITEM_SIZES, IS_SET>>

(* Calls that take an item and read no table: xQueueSemaphoreTake, of a    *)
(* semaphore or a queue of no bytes, and xQueueSelectFromSet, which        *)
(* answers handle_to_c of it; xQueueGenericReset takes them all.           *)
TakeOne(t) ==
  /\ Idle(t)
  /\ \E h \in Held :
       /\ Count(h) > 0 /\ (IsKind(h, "queue") => asked[h.slot] = 0)
       /\ queues' = [queues EXCEPT ![h.slot].items = Tail(@)]
  /\ UNCHANGED <<asked, ITEM_SIZES, IS_SET, call>>

xQueueGenericReset(t) ==
  /\ Idle(t)
  /\ \E h \in Held : queues' = [queues EXCEPT ![h.slot].items = <<>>]
  /\ UNCHANGED <<asked, ITEM_SIZES, IS_SET, call>>

-----------------------------------------------------------------------------
(* Sets.                                                                   *)

xQueueAddToSet(t) ==
  /\ Idle(t)
  /\ \E h, set \in Held :
       /\ ~IsKind(h, "set") /\ IsKind(set, "set")
       /\ queues[h.slot].set = None /\ Count(h) = 0
       /\ queues' = [queues EXCEPT ![h.slot].set = set]
  /\ UNCHANGED <<asked, ITEM_SIZES, IS_SET, call>>

xQueueRemoveFromSet(t) ==
  /\ Idle(t)
  /\ \E h \in Held :
       /\ queues[h.slot].set # None /\ Count(h) = 0
       /\ queues' = [queues EXCEPT ![h.slot].set = None]
  /\ UNCHANGED <<asked, ITEM_SIZES, IS_SET, call>>

(* A call that is refused, or only asks: an unknown handle, an oversize    *)
(* item, an empty queue, uxQueueMessagesWaiting.                           *)
Refused(t) == Idle(t) /\ UNCHANGED vars

-----------------------------------------------------------------------------
Init ==
  /\ queues = [s \in Slots |-> [gen |-> 0, kind |-> "free", items |-> <<>>, set |-> None]]
  /\ asked = [s \in Slots |-> 0]
  /\ ITEM_SIZES = [s \in Slots |-> 0]
  /\ IS_SET = [s \in Slots |-> FALSE]
  /\ call = [t \in Tasks |-> NoCall]

Task(t) ==
  \/ xQueueGenericCreate(t) \/ xQueueCreateSet(t) \/ StoreTables(t)
  \/ CreateSemaphore(t)
  \/ vQueueDelete(t)
  \/ xQueueGenericSend(t)
  \/ xQueueReceive(t) \/ xQueuePeek(t) \/ WriteItem(t)
  \/ TakeOne(t) \/ xQueueGenericReset(t)
  \/ xQueueAddToSet(t) \/ xQueueRemoveFromSet(t)
  \/ Refused(t)

Next == \E t \in Tasks : Task(t)

Spec == Init /\ [][Next]_vars

-----------------------------------------------------------------------------
(* Every variable keeps to its range; sets and their members are live, and *)
(* no table entry is wider than the kernel's number.                       *)
TypeOK ==
  /\ \A s \in Slots :
       /\ queues[s].gen \in 0 .. MaxGen /\ queues[s].kind \in Kinds
       /\ Len(queues[s].items) <= QueueLength
       /\ queues[s].kind = "free" => queues[s].items = <<>> /\ queues[s].set = None
       /\ queues[s].set # None => queues[s].kind # "set" /\ IsKind(queues[s].set, "set")
  /\ asked \in [Slots -> Nat] /\ ITEM_SIZES \in [Slots -> 0 .. MAX_ITEM_BYTES]
  /\ IS_SET \in [Slots -> BOOLEAN]
  /\ \A t \in Tasks : ~Idle(t) => call[t].queue \in Handles

(* item_for_c: "For an ordinary queue that is the value itself.  For a SET *)
(* it is a handle", the one the C holds: whatever was created, deleted and *)
(* recreated in the slot before, and whoever runs between the kernel's     *)
(* answer and the copy, the C reads out what was put in.                   *)
ItemsComeBackWhole ==
  \A t \in Tasks :
    Reading(t) => Written(call[t]) = call[t].item.c
=============================================================================
