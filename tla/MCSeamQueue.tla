---------------------------- MODULE MCSeamQueue ----------------------------
(***************************************************************************)
(* Small instances of SeamQueue.  The producer and the second consumer are *)
(* peers; the first consumer outranks both.                                *)
(***************************************************************************)
EXTENDS SeamQueue, TLC

CONSTANTS p, c1, c2, a, b

Send(i, pos, n) == [op |-> "send", item |-> i, position |-> pos, ticks |-> n]
Read(op, n) == [op |-> op, ticks |-> n]

ThreePrio == (p :> 1) @@ (c1 :> 2) @@ (c2 :> 1)
ThreeProgram ==
  (p  :> {Send(a, "back", 0), Send(b, "front", 1), Send(a, "back", 2), Send(a, "bad", 1)}) @@
  (c1 :> {Read("receive", 2), Read("peek", 1)}) @@
  (c2 :> {Read("receive", 0), Read("receive", 2)})
ThreeIsr == {Send(b, "back", 0)}

PeerPrio == (p :> 1) @@ (c1 :> 1)
PeerProgram ==
  (p  :> {Send(a, "back", 2), Send(b, "overwrite", 0)}) @@
  (c1 :> {Read("receive", 0), Read("receive", 2), Read("peek", 1)})
PeerIsr == {Send(a, "overwrite", 0)}

(* The rule under which the guard only stops a loop in a critical section  *)
(* is kept by these two, on which DiesOnlySealed is checked.               *)
ASSUME Program = PeerProgram => Uncontested

(* Three peers: p feeds the queue, c1 polls it, c2 waits on it for longer   *)
(* than the guard has rounds.                                              *)
RacePrio == (p :> 1) @@ (c1 :> 1) @@ (c2 :> 1)
RaceProgram ==
  (p  :> {Send(a, "back", 0)}) @@
  (c1 :> {Read("receive", 0)}) @@
  (c2 :> {Read("receive", 6)})
=============================================================================
