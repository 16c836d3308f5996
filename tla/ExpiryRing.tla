----------------------------- MODULE ExpiryRing -----------------------------
(***************************************************************************)
(* The ring between the kernel's timer hook and the C's callbacks.         *)
(*                                                                         *)
(* TickHook::timer runs while the kernel is borrowed, so it only records   *)
(* the timer; the daemon drains the ring later with nothing borrowed.  The *)
(* head and the tail are free-running counters that wrap with their width; *)
(* a slot is a counter modulo the ring's size.                             *)
(***************************************************************************)
EXTENDS Naturals, Sequences

CONSTANTS
  Handles,      \* the timer handles there can be
  NoHandle,     \* an empty cell, a callback not yet stored
  EXPIRY_RING,  \* 64 in the code
  Wrap          \* the counters are u32: 2^32 in the code

ASSUME RingAssumption ==
  /\ NoHandle \notin Handles
  /\ EXPIRY_RING \in Nat \ {0}
  /\ Wrap \in Nat /\ Wrap > EXPIRY_RING /\ Wrap % EXPIRY_RING = 0

VARIABLES
  EXPIRED,        \* the cells
  EXPIRY_HEAD,    \* where the next expiry is recorded
  EXPIRY_TAIL,    \* where the next callback is taken from
  EXPIRIES_LOST   \* whether the counter of dropped expiries moved

ringVars == <<EXPIRED, EXPIRY_HEAD, EXPIRY_TAIL, EXPIRIES_LOST>>

Cells == 0 .. EXPIRY_RING - 1

(* head.wrapping_sub(tail)                                                 *)
InRing == (EXPIRY_HEAD + Wrap - EXPIRY_TAIL) % Wrap

RoomPlusOne == EXPIRY_RING + 1 - InRing
Room == EXPIRY_RING - InRing

(* n expiries of one timer, recorded one after the other in one kernel     *)
(* call; those that find the ring full are counted and dropped.            *)
note_timer_expiry(t, n) ==
  LET kept == IF n <= Room THEN n ELSE Room
      written == {(EXPIRY_HEAD + j) % EXPIRY_RING : j \in 0 .. kept - 1}
  IN  /\ EXPIRED' = [c \in Cells |-> IF c \in written THEN t ELSE EXPIRED[c]]
      /\ EXPIRY_HEAD' = (EXPIRY_HEAD + kept) % Wrap
      /\ EXPIRIES_LOST' = (EXPIRIES_LOST \/ kept < n)
      /\ UNCHANGED EXPIRY_TAIL

RingEmpty == EXPIRY_TAIL = EXPIRY_HEAD

(* The oldest expiry, and the step that takes it off.                      *)
Oldest == EXPIRED[EXPIRY_TAIL % EXPIRY_RING]

TakeOldest ==
  /\ ~RingEmpty
  /\ EXPIRY_TAIL' = (EXPIRY_TAIL + 1) % Wrap
  /\ UNCHANGED <<EXPIRED, EXPIRY_HEAD, EXPIRIES_LOST>>

RingInit ==
  /\ EXPIRED = [c \in Cells |-> NoHandle]
  /\ EXPIRY_HEAD = 0 /\ EXPIRY_TAIL = 0
  /\ EXPIRIES_LOST = FALSE

(* What the ring holds, oldest first.                                      *)
InOrder == [i \in 1 .. InRing |-> EXPIRED[(EXPIRY_TAIL + i - 1) % EXPIRY_RING]]
=============================================================================
