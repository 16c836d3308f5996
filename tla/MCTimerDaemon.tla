--------------------------- MODULE MCTimerDaemon ---------------------------
(***************************************************************************)
(* Small instances of TimerDaemon: a task below the daemon and one above.  *)
(***************************************************************************)
EXTENDS TimerDaemon, TLC

CONSTANTS low, high

OneSlotOnce == 0 :> 1
OneSlotTwice == 0 :> 2
Uses == (0 :> 2) @@ (1 :> 1)
AllHandles == UNION {[slot : {s}, gen : 1 .. MaxGen[s]] : s \in Slots}

OnePrio == (low :> 1) @@ (Daemon :> 2)
BothPrio == (low :> 1) @@ (Daemon :> 2) @@ (high :> 3)

Post(op, n) == [op |-> op, value |-> 0, ticks |-> n]
Kind(p, r, c) == [period |-> p, reload |-> r, callback |-> c]

TwoKinds == {Kind(1, TRUE, TRUE), Kind(2, FALSE, FALSE)}
PairProgram == low :> {Post("start", 0), Post("delete", 0)}
Resets == (low  :> {Post("reset", 0)}) @@
          (high :> {[op |-> "change_period", value |-> 2, ticks |-> 0]})
NameProgram == low :> {Post("delete", 0)}
FullProgram == (low :> {}) @@ (high :> {Post("start", 2)})
StopItself == {Post("stop", 0)}
IsrStart == {Post("start", 0)}
=============================================================================
