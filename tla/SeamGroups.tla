----------------------------- MODULE SeamGroups -----------------------------
(***************************************************************************)
(* Event groups: bits that tasks set, clear, wait for and meet on, and     *)
(* that interrupts set and clear by way of the daemon, which asks the      *)
(* application's tick hook to make the change.                             *)
(*                                                                         *)
(* A call's x names its bits.  A "wait" wants all of them and clears them; *)
(* a "watch" wants any and clears none; a "sync" sets its own and wants    *)
(* every bit.                                                              *)
(***************************************************************************)
EXTENDS SeamTasks, SequencesExt

CONSTANTS
  Bits,     \* of one group
  BitsOf,   \* the bits a call's x names
  CmdLen,   \* places in the daemon's command queue
  MaxGroups \* bound: groups ever created

BitOps == {"setbits", "clearbits", "wait", "watch", "sync", "isrset", "isrclear"}

ASSUME GroupsAssumption ==
  /\ CmdLen \in Nat \ {0} /\ MaxGroups \in Nat \ {0}
  /\ \A x \in DOMAIN BitsOf : BitsOf[x] \subseteq Bits
  /\ \A f \in Functions : \A c \in Code[f] : c.op \in BitOps => c.x \in DOMAIN BitsOf
  /\ \A q \in Programs : \A c \in q.isr : c.op \in BitOps => c.x \in DOMAIN BitsOf

VARIABLES
  made,     \* groups created, and so the C's handle to the last of them
  live,     \* it has not been deleted
  bits,     \* its bits
  out,      \* waiters the kernel has released with an answer
  cmds,     \* the daemon's commands
  promised, \* history: bits an interrupt was told are set, until cleared
  passed    \* history: rounds of xEventGroupSync each task has come through

groupVars == <<made, live, bits, out, cmds, promised, passed>>

GroupOps == {"setbits", "clearbits", "wait", "watch", "sync", "groupdelete"}
WaitOps == {"wait", "watch", "sync"}

-----------------------------------------------------------------------------
(* The kernel's event group.                                               *)

group_from_c(p) == p # NULL /\ p = made /\ live

OwnBits(t) == BitsOf[call[t].x]
EveryBit(t) == Bits
WaitsFor(t) == IF call[t].op = "sync" THEN EveryBit(t) ELSE OwnBits(t)
Met(t, b) ==
  IF call[t].op = "watch" THEN WaitsFor(t) \cap b # {} ELSE WaitsFor(t) \subseteq b
Clears(t) == IF call[t].op = "watch" THEN {} ELSE WaitsFor(t)

(* Setting bits releases, with an answer, every waiter they are enough for *)
(* and clears what any of those wanted cleared.                            *)
Released(b) == {s \in Waits(WaitOps) : Met(s, bits \cup b)}
ClearedBy(b) == UNION {Clears(s) : s \in Released(b)}
set_bits(b, more) ==
  /\ bits' = (bits \cup b) \ (ClearedBy(b) \cup more)
  /\ out' = out \cup Released(b)
  /\ promised' = promised \ (ClearedBy(b) \cup more)
clear_bits(b) == bits' = bits \ b /\ promised' = promised \ b

-----------------------------------------------------------------------------
(* The calls.                                                              *)

xEventGroupCreate(t) ==
  /\ Calling(t, "groupcreate")
  /\ \/ /\ ~live /\ made < MaxGroups
        /\ made' = made + 1 /\ live' = TRUE /\ bits' = {}
     \/ (live \/ made = MaxGroups) /\ UNCHANGED <<made, live, bits>>
  /\ Goto(t, "c")
  /\ UNCHANGED <<k, owed, still, out, cmds, promised, passed>>

(* Deletion releases the waiters, whose next try finds no group.  The      *)
(* kernel asks for the switch.                                             *)
vEventGroupDelete(t) ==
  /\ Calling(t, "groupdelete")
  /\ \/ /\ group_from_c(call[t].p)
        /\ live' = FALSE /\ bits' = {} /\ promised' = {}
        /\ k' = Wake(k, Waits(WaitOps))
        /\ owed' = (owed \/ \E s \in Waits(WaitOps) : Outranks(k, s))
     \/ ~group_from_c(call[t].p) /\ UNCHANGED <<k, owed, live, bits, promised>>
  /\ Goto(t, "c")
  /\ UNCHANGED <<still, made, out, cmds, passed>>

(* This leaves the CPU even when the kernel refuses a stale handle.        *)
xEventGroupSetBits(t) ==
  /\ Calling(t, "setbits")
  /\ \/ /\ group_from_c(call[t].p)
        /\ set_bits(OwnBits(t), {})
        /\ k' = Wake(k, Released(OwnBits(t)))
     \/ ~group_from_c(call[t].p) /\ UNCHANGED <<k, bits, out, promised>>
  /\ Goto(t, IF call[t].p = NULL THEN "c" ELSE "yield")
  /\ UNCHANGED <<owed, still, made, live, cmds, passed>>

xEventGroupClearBits(t) ==
  /\ Calling(t, "clearbits")
  /\ \/ group_from_c(call[t].p) /\ clear_bits(OwnBits(t))
     \/ ~group_from_c(call[t].p) /\ UNCHANGED <<bits, promised>>
  /\ Goto(t, "c")
  /\ UNCHANGED <<k, owed, still, made, live, out, cmds, passed>>

(* A try of a wait: the answer of a release, the bits as they stand, the   *)
(* deadline, or the list again.                                            *)
Answered(t) == t \in out \/ ~group_from_c(call[t].p) \/ Met(t, bits) \/ TimedOut(t)
xEventGroupWaitBits(t) ==
  /\ Looping(t, "wait") \/ Looping(t, "watch")
  /\ \/ /\ Answered(t)
        /\ IF t \notin out /\ group_from_c(call[t].p) /\ Met(t, bits)
             THEN clear_bits(Clears(t)) ELSE UNCHANGED <<bits, promised>>
        /\ out' = out \ {t}
        /\ Goto(t, "c")
        /\ UNCHANGED k
     \/ /\ ~Answered(t)
        /\ k' = Parked(t)
        /\ Goto(t, "blocked")
        /\ UNCHANGED <<bits, out, promised>>
  /\ UNCHANGED <<owed, still, made, live, cmds, passed>>

(* The first try of a sync sets the caller's bits, which may release the   *)
(* others; the seam does not leave the CPU when that completes the round.  *)
Passes(t) == passed' = [passed EXCEPT ![t] = (@ + 1) % 3]
xEventGroupSync(t) ==
  /\ Looping(t, "sync")
  /\ \/ /\ pc[t] = "call" /\ group_from_c(call[t].p)
        /\ LET together == Met(t, bits \cup OwnBits(t)) IN
           /\ set_bits(OwnBits(t), IF together THEN Clears(t) ELSE {})
           /\ k' = Wake(IF together THEN k ELSE Parked(t), Released(OwnBits(t)))
           /\ owed' = (owed \/ \E s \in Released(OwnBits(t)) : Outranks(k, s))
           /\ Goto(t, IF together THEN "c" ELSE "blocked")
           /\ IF together THEN Passes(t) ELSE UNCHANGED passed
     \/ /\ pc[t] = "loop" /\ Answered(t) /\ group_from_c(call[t].p)
        /\ IF t \notin out /\ Met(t, bits) THEN clear_bits(Clears(t))
                                          ELSE UNCHANGED <<bits, promised>>
        /\ IF t \in out \/ Met(t, bits) THEN Passes(t) ELSE UNCHANGED passed
        /\ out' = out \ {t}
        /\ Goto(t, "c")
        /\ UNCHANGED <<k, owed>>
     \/ /\ pc[t] = "loop" /\ ~Answered(t)
        /\ k' = Parked(t)
        /\ Goto(t, "blocked")
        /\ UNCHANGED <<owed, bits, out, promised, passed>>
     \/ /\ ~group_from_c(call[t].p)
        /\ out' = out \ {t}
        /\ Goto(t, "c")
        /\ UNCHANGED <<k, owed, bits, promised, passed>>
  /\ UNCHANGED <<still, made, live, cmds>>

GroupCall(t) ==
  \/ xEventGroupCreate(t)
  \/ vEventGroupDelete(t)
  \/ xEventGroupSetBits(t)
  \/ xEventGroupClearBits(t)
  \/ xEventGroupWaitBits(t)
  \/ xEventGroupSync(t)

-----------------------------------------------------------------------------
(* The interrupt forms post a command: accepted, it wakes the daemon; a    *)
(* full queue refuses it.                                                  *)

Accepts == made # NULL /\ live /\ Len(cmds) < CmdLen
Post(what, b) == cmds' = Append(cmds, [do |-> what, group |-> made, bits |-> b])
SleepingDaemon == {Timer} \cap {s \in Slots : k.st[s] = "blocked"}

xEventGroupSetBitsFromISR(c) ==
  /\ c.op = "isrset"
  /\ \/ /\ Accepts
        /\ Post("set", BitsOf[c.x])
        /\ promised' = promised \cup BitsOf[c.x]
        /\ SysTick(SleepingDaemon)
     \/ ~Accepts /\ SysTick({}) /\ UNCHANGED <<cmds, promised>>
  /\ UNCHANGED <<made, live, bits, out, passed>>

(* The kernel answers the same of a clear, and the seam drops the answer:  *)
(* nobody tells set_woken.                                                 *)
xEventGroupClearBitsFromISR(c) ==
  /\ c.op = "isrclear"
  /\ \/ Accepts /\ Post("clear", BitsOf[c.x]) /\ Tick(SleepingDaemon, FALSE)
     \/ ~Accepts /\ SysTick({}) /\ UNCHANGED cmds
  /\ UNCHANGED <<made, live, bits, out, promised, passed>>

(* The daemon takes one command a pass, and the hook carries it out.  With *)
(* none it waits on the queue, and never on anything else.                 *)
NoTickHook(cmd) == FALSE
CapiTickHook(cmd) == group_from_c(cmd.group)
pended(cmd) ==
  /\ \/ /\ CapiTickHook(cmd) /\ cmd.do = "set"
        /\ set_bits(cmd.bits, {})
        /\ k' = Wake(k, Released(cmd.bits))
     \/ /\ CapiTickHook(cmd) /\ cmd.do = "clear"
        /\ clear_bits(cmd.bits)
        /\ UNCHANGED <<k, out>>
     \/ ~CapiTickHook(cmd) /\ UNCHANGED <<k, bits, out, promised>>

timer_daemon(t) ==
  /\ At(t, "daemon")
  /\ \/ /\ cmds # <<>>
        /\ pended(Head(cmds))
        /\ cmds' = Tail(cmds)
        /\ UNCHANGED <<pc, call>>
     \/ /\ cmds = <<>>
        /\ k' = Block(k, t, Forever)
        /\ Goto(t, "slept")
        /\ UNCHANGED <<cmds, bits, out, promised>>
  /\ UNCHANGED <<owed, still, made, live, passed>>

GroupInit ==
  /\ made = 0 /\ live = FALSE /\ bits = {} /\ out = {} /\ cmds = <<>> /\ promised = {}
  /\ passed = [t \in Slots |-> 0]

-----------------------------------------------------------------------------
(* Properties.                                                             *)

GroupTypeOK ==
  /\ made \in 0 .. MaxGroups /\ live \in BOOLEAN
  /\ bits \subseteq Bits /\ promised \subseteq Bits
  /\ out \subseteq Slots
  /\ cmds \in Seq([do : {"set", "clear"}, group : 1 .. MaxGroups, bits : SUBSET Bits])
  /\ Len(cmds) <= CmdLen
  /\ passed \in [Slots -> 0 .. 2]

(* The daemon was woken by a clear from an interrupt, of which nobody was  *)
(* told, if it has not got to that clear.                                  *)
ClearFirst == cmds # <<>> /\ Head(cmds).do = "clear"

(* A wake-up is acted on: with a task in C code, or idle, no ready task    *)
(* outranks it.  Neither a call, nor a tick, nor the ticks made up for,    *)
(* nor an interrupt half, nor the end of a suspension leaves one waiting,  *)
(* but for the daemon when a clear from an interrupt has woken it.         *)
NoTaskStranded ==
  InC => \A t \in Ready(k) : Outranks(k, t) => t = Timer /\ ClearFirst

(* The comment on ISR_WOKE: "Set when an ISR-side call woke a task that    *)
(* outranks the running one", so that no wake-up of an interrupt half is   *)
(* dropped.  The same without an exception.                                *)
EveryWakeIsActedOn == InC => \A t \in Ready(k) : ~Outranks(k, t)

(* CapiTickHook::pended and the daemon: a bit an interrupt was told pdPASS *)
(* for is in the group by the time a task below the daemon is back in C    *)
(* code, unless it has been cleared since: the deferral is neither dropped *)
(* nor late.  A suspended scheduler may hold it up, and so may a task of   *)
(* the daemon's priority or above, and a clear before it, which wakes the  *)
(* daemon without a switch.                                                *)
DeferredBitsArrive ==
  (phase = "run" /\ ~owed /\ ~k.lock /\ k.prio[k.cur] < TIMER_TASK_PRIORITY
     /\ pc[k.cur] \in {"c", "call", "loop"} /\ ~ClearFirst)
    => promised \subseteq bits

(* xEventGroupSync: of tasks that meet without a deadline none gets a      *)
(* round ahead of where another already is: the answer of a release        *)
(* survives until its owner's retry, and a retry neither sets its bits     *)
(* again nor passes on bits it was not released by.                        *)
Meeter(f) == \E c \in Code[f] : c.op = "sync" /\ c.n = Forever
Meets(t) == entry[t] # NoFunc /\ Meeter(entry[t])
SyncTogether ==
  \A t, u \in Slots :
    (Meets(t) /\ Meets(u) /\ k.st[t] # "free" /\ k.st[u] # "free")
      => \/ passed[t] = passed[u]
         \/ (passed[t] = (passed[u] + 1) % 3 /\ u \in out)
         \/ (passed[u] = (passed[t] + 1) % 3 /\ t \in out)

(* The rule an application keeps for that.  Its tasks are those it is      *)
(* started with and those they create.  Of each function that meets there  *)
(* is one task, started at boot, which meets without a deadline whenever   *)
(* it meets, and has a bit that only its meeting sets.  Nobody deletes,    *)
(* suspends or aborts the wait of such a task, nor does such a task any    *)
(* other's, as with a handle not yet written the call is about the caller; *)
(* and nobody deletes the group.                                           *)
Started(q) == {q.boot[i][1] : i \in 1 .. Len(q.boot)}
Cast(q) ==
  Started(q) \cup UNION {{c.whom : c \in {d \in Code[f] : d.op = "create"}} : f \in Started(q)}
Meeters(q) == {f \in Cast(q) : Meeter(f)}
OwnBit(q, f, b) ==
  /\ \A c \in Code[f] : c.op = "sync" => b \in BitsOf[c.x]
  /\ \A g \in Cast(q) : \A c \in Code[g] :
       c.op = "setbits" \/ (c.op = "sync" /\ g # f) => b \notin BitsOf[c.x]
  /\ \A c \in q.isr : c.op = "isrset" => b \notin BitsOf[c.x]
Suits(q, f, c) ==
  /\ c.op = "create" => c.whom \in Cast(q) \ Meeters(q)
  /\ c.op \in {"delete", "suspend", "abort"} => {f, c.whom} \cap Meeters(q) = {}
  /\ c.op = "groupdelete" => Meeters(q) = {}
  /\ c.op = "sync" /\ f \in Meeters(q) => c.n = Forever /\ c.x # "above"
MeetersAreFree ==
  \A q \in Programs :
    /\ \A i, j \in 1 .. Len(q.boot) :
         q.boot[i][1] \in Meeters(q) /\ q.boot[j][1] = q.boot[i][1] => i = j
    /\ \A f \in Meeters(q) : \E b \in Bits : OwnBit(q, f, b)
    /\ \A f \in Cast(q) : \A c \in Code[f] : Suits(q, f, c)
=============================================================================
