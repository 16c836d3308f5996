----------------------------- MODULE ExpiryFifo -----------------------------
(***************************************************************************)
(* What the C is owed of its timers' callbacks: every recorded expiry is   *)
(* delivered once, in the order recorded, except those that came while     *)
(* Capacity of them were already waiting.                                  *)
(***************************************************************************)
EXTENDS Naturals, Sequences

CONSTANTS Timers, Capacity, None

VARIABLES
  waiting,    \* expiries recorded and not delivered, oldest first
  delivered,  \* the last one delivered, or None
  lost        \* some expiry was dropped

vars == <<waiting, delivered, lost>>

Times(t, n) == [i \in 1 .. n |-> t]

Record(t, n) ==
  LET kept == IF n <= Capacity - Len(waiting) THEN n ELSE Capacity - Len(waiting)
  IN  /\ waiting' = waiting \o Times(t, kept)
      /\ lost' = (lost \/ kept < n)
      /\ UNCHANGED delivered

Deliver ==
  /\ waiting # <<>>
  /\ delivered' = Head(waiting)
  /\ waiting' = Tail(waiting)
  /\ UNCHANGED lost

Done ==
  /\ delivered' = None
  /\ UNCHANGED <<waiting, lost>>

Init == waiting = <<>> /\ delivered = None /\ lost = FALSE

Next ==
  \/ \E t \in Timers : \E n \in 1 .. Capacity + 1 : Record(t, n)
  \/ Deliver
  \/ Done

Spec == Init /\ [][Next]_vars
=============================================================================
