------------------------- MODULE TimerDaemon_proofs -------------------------
(***************************************************************************)
(* Proofs about the timer daemon, for every set of timers, tasks and       *)
(* programs, every length of the command queue and every size of the ring. *)
(*                                                                         *)
(* The ring of expiries comes first, and first of all its arithmetic: the  *)
(* counters wrap at Wrap and the cells at EXPIRY_RING, and because the one *)
(* is a multiple of the other a counter that wrapped still names the cell  *)
(* it would have named.                                                    *)
(***************************************************************************)
EXTENDS TimerDaemon, TLAPS, SequenceTheorems, WellFoundedInduction

-----------------------------------------------------------------------------
(* Remainders.                                                             *)

(* What % and \div give.                                                   *)
LEMMA Remainder ==
  ASSUME NEW a \in Int, NEW m \in Int, m > 0
  PROVE  /\ a % m \in 0 .. m - 1
         /\ \E q \in Int : a = m * q + (a % m)
  OBVIOUS

(* A remainder is the only one.                                            *)
LEMMA RemainderIs ==
  ASSUME NEW a \in Int, NEW m \in Int, m > 0,
         NEW q \in Int, NEW r \in 0 .. m - 1, a = m * q + r
  PROVE  a % m = r
  OBVIOUS

(* Reducing by a multiple of m first does not change the remainder by m.   *)
LEMMA RemainderAgain ==
  ASSUME NEW m \in Int, m > 0, NEW w \in Int, w > 0, w % m = 0,
         NEW a \in Int, NEW j \in Int
  PROVE  ((a % w) + j) % m = (a + j) % m
  <1>1. PICK q \in Int : a = w * q + (a % w) BY Remainder
  <1>2. PICK k \in Int : w = m * k
    <2>1. PICK k \in Int : w = m * k + (w % m) BY Remainder
    <2>2. m * k \in Int OBVIOUS
    <2> QED BY <2>1, <2>2
  <1>3. a % w \in Int BY Remainder
  <1> DEFINE b == (a % w) + j
             r == b % m
  <1>4. b \in Int BY <1>3
  <1>5. PICK p \in Int : r \in 0 .. m - 1 /\ b = m * p + r BY <1>4, Remainder
  <1>6. a + j = w * q + b BY <1>1, <1>3
  <1> HIDE DEF b, r
  <1>7. w * q = m * (k * q) BY <1>2
  <1>8. m * (k * q) + m * p = m * (k * q + p) OBVIOUS
  <1>9. a + j = m * (k * q + p) + r
    <2>1. m * (k * q) \in Int /\ m * p \in Int /\ r \in Int BY <1>5
    <2> QED BY <1>5, <1>6, <1>7, <1>8, <2>1
  <1>10. k * q + p \in Int /\ a + j \in Int OBVIOUS
  <1>11. (a + j) % m = r BY <1>5, <1>9, <1>10, RemainderIs
  <1> QED BY <1>11 DEF r, b

(* Two numbers less than m apart have different remainders.                *)
LEMMA RemaindersApart ==
  ASSUME NEW m \in Int, m > 0, NEW a \in Int, NEW b \in Int, a < b, b - a < m
  PROVE  a % m # b % m
  <1> SUFFICES ASSUME a % m = b % m PROVE FALSE OBVIOUS
  <1>1. PICK p \in Int : a = m * p + (a % m) BY Remainder
  <1>2. PICK q \in Int : b = m * q + (b % m) BY Remainder
  <1>3. a % m \in Int BY Remainder
  <1>4. b - a = m * q - m * p
    <2>1. m * q \in Int /\ m * p \in Int OBVIOUS
    <2> QED BY <1>1, <1>2, <1>3, <2>1
  <1>5. m * q - m * p = m * (q - p) OBVIOUS
  <1>6. 0 < m * (q - p) /\ m * (q - p) < m BY <1>4, <1>5
  <1> QED BY <1>6

-----------------------------------------------------------------------------
(* The ring.                                                               *)

RingOK ==
  /\ EXPIRED \in [Cells -> Handles \cup {NoHandle}]
  /\ EXPIRY_HEAD \in 0 .. Wrap - 1 /\ EXPIRY_TAIL \in 0 .. Wrap - 1
  /\ InRing <= EXPIRY_RING
  /\ EXPIRIES_LOST \in BOOLEAN

(* What RingAssumption says, in the form the arithmetic needs.             *)
LEMMA Sizes ==
  ASSUME RingAssumption
  PROVE  /\ EXPIRY_RING \in Int /\ EXPIRY_RING > 0
         /\ Wrap \in Int /\ Wrap > EXPIRY_RING /\ Wrap > 0
         /\ Wrap % EXPIRY_RING = 0 /\ Wrap % Wrap = 0
  <1>1. /\ EXPIRY_RING \in Int /\ EXPIRY_RING > 0
        /\ Wrap \in Int /\ Wrap > EXPIRY_RING /\ Wrap % EXPIRY_RING = 0
    BY DEF RingAssumption
  <1>2. Wrap = Wrap * 1 + 0 /\ 0 \in 0 .. Wrap - 1 BY <1>1
  <1>3. Wrap % Wrap = 0 BY <1>1, <1>2, RemainderIs
  <1> QED BY <1>1, <1>3

(* A counter that wrapped still counts on, and still names its cell.       *)
LEMMA WrapAgain ==
  ASSUME RingAssumption, NEW a \in Int, NEW j \in Int
  PROVE  /\ ((a % Wrap) + j) % Wrap = (a + j) % Wrap
         /\ ((a % Wrap) + j) % EXPIRY_RING = (a + j) % EXPIRY_RING
  <1>0. /\ EXPIRY_RING \in Int /\ EXPIRY_RING > 0
        /\ Wrap \in Int /\ Wrap > 0
        /\ Wrap % EXPIRY_RING = 0 /\ Wrap % Wrap = 0
    BY Sizes
  <1>1. ((a % Wrap) + j) % Wrap = (a + j) % Wrap
    BY ONLY <1>0, RemainderAgain, a \in Int, j \in Int
  <1>2. ((a % Wrap) + j) % EXPIRY_RING = (a + j) % EXPIRY_RING
    BY ONLY <1>0, RemainderAgain, a \in Int, j \in Int, Zenon
  <1> QED BY <1>1, <1>2

(* head.wrapping_sub(tail) is how far the head is ahead of the tail.       *)
LEMMA Distance ==
  ASSUME RingAssumption, NEW h \in 0 .. Wrap - 1, NEW t \in 0 .. Wrap - 1
  PROVE  /\ (h + Wrap - t) % Wrap \in 0 .. Wrap - 1
         /\ h = (t + ((h + Wrap - t) % Wrap)) % Wrap
         /\ (h + Wrap - t) % Wrap = 0 <=> t = h
  <1>1. Wrap \in Int /\ Wrap > 0 BY Sizes
  <1>2. CASE h >= t
    <2>1. h + Wrap - t = Wrap * 1 + (h - t) /\ h - t \in 0 .. Wrap - 1 BY <1>1, <1>2
    <2>2. (h + Wrap - t) % Wrap = h - t BY <1>1, <2>1, RemainderIs
    <2>3. t + (h - t) = Wrap * 0 + h BY <1>1
    <2>4. (t + (h - t)) % Wrap = h BY <1>1, <2>3, RemainderIs
    <2> QED BY <1>1, <1>2, <2>1, <2>2, <2>4
  <1>3. CASE h < t
    <2>1. h + Wrap - t = Wrap * 0 + (h + Wrap - t) /\ h + Wrap - t \in 0 .. Wrap - 1
      BY <1>1, <1>3
    <2>2. (h + Wrap - t) % Wrap = h + Wrap - t BY <1>1, <2>1, RemainderIs
    <2>3. t + (h + Wrap - t) = Wrap * 1 + h BY <1>1
    <2>4. (t + (h + Wrap - t)) % Wrap = h BY <1>1, <2>3, RemainderIs
    <2> QED BY <1>1, <1>3, <2>1, <2>2, <2>4
  <1> QED BY <1>1, <1>2, <1>3

(* ...and the only such number below Wrap.                                 *)
LEMMA DistanceIs ==
  ASSUME RingAssumption, NEW t \in 0 .. Wrap - 1, NEW n \in 0 .. Wrap - 1
  PROVE  (((t + n) % Wrap) + Wrap - t) % Wrap = n
  <1>1. Wrap \in Int /\ Wrap > 0 BY Sizes
  <1>2. CASE t + n < Wrap
    <2>1. t + n = Wrap * 0 + (t + n) /\ t + n \in 0 .. Wrap - 1 BY <1>1, <1>2
    <2>2. (t + n) % Wrap = t + n BY <1>1, <2>1, RemainderIs
    <2>3. t + n + Wrap - t = Wrap * 1 + n BY <1>1
    <2>4. (t + n + Wrap - t) % Wrap = n BY <1>1, <2>3, RemainderIs
    <2> QED BY <2>2, <2>4
  <1>3. CASE t + n >= Wrap
    <2>1. t + n = Wrap * 1 + (t + n - Wrap) /\ t + n - Wrap \in 0 .. Wrap - 1
      BY <1>1, <1>3
    <2>2. (t + n) % Wrap = t + n - Wrap BY <1>1, <2>1, RemainderIs
    <2>3. t + n - Wrap + Wrap - t = Wrap * 0 + n BY <1>1
    <2>4. (t + n - Wrap + Wrap - t) % Wrap = n BY <1>1, <2>3, RemainderIs
    <2> QED BY <2>2, <2>4
  <1> QED BY <1>1, <1>2, <1>3

Entries == Handles \cup {NoHandle}

(* A function on 1 .. n is a sequence of length n.                         *)
LEMMA FunctionIsSeq ==
  ASSUME NEW S, NEW n \in Nat, NEW f \in [1 .. n -> S]
  PROVE  f \in Seq(S) /\ Len(f) = n
  <1>1. f \in Seq(S) BY SeqDef
  <1>2. DOMAIN f = 1 .. Len(f) /\ Len(f) \in Nat BY <1>1, LenProperties
  <1>3. 1 .. Len(f) = 1 .. n BY <1>2
  <1>4. Len(f) = n BY <1>2, <1>3
  <1> QED BY <1>1, <1>4

(* The expiries in order are a sequence as long as the ring is full.       *)
LEMMA InOrderIs ==
  ASSUME RingAssumption, RingOK
  PROVE  /\ InRing \in 0 .. EXPIRY_RING
         /\ InOrder \in Seq(Entries) /\ Len(InOrder) = InRing
         /\ \A i \in 1 .. InRing :
              InOrder[i] = EXPIRED[(EXPIRY_TAIL + i - 1) % EXPIRY_RING]
         /\ RingEmpty <=> InRing = 0
  <1>1. /\ EXPIRY_RING \in Int /\ EXPIRY_RING > 0 /\ Wrap \in Int
        /\ EXPIRY_TAIL \in Int
    BY Sizes DEF RingOK
  <1>2. InRing \in 0 .. EXPIRY_RING /\ (RingEmpty <=> InRing = 0)
    BY <1>1, Distance DEF RingOK, InRing, RingEmpty
  <1>3. \A i \in 1 .. InRing :
          /\ InOrder[i] = EXPIRED[(EXPIRY_TAIL + i - 1) % EXPIRY_RING]
          /\ (EXPIRY_TAIL + i - 1) % EXPIRY_RING \in Cells
    BY <1>1, <1>2, Remainder DEF InOrder, Cells
  <1>4. InOrder \in [1 .. InRing -> Entries]
    <2>1. \A i \in 1 .. InRing :
            EXPIRED[(EXPIRY_TAIL + i - 1) % EXPIRY_RING] \in Entries
      BY <1>3 DEF RingOK, Entries
    <2> QED BY <2>1 DEF InOrder
  <1>5. InOrder \in Seq(Entries) /\ Len(InOrder) = InRing
    BY <1>2, <1>4, FunctionIsSeq
  <1> QED BY <1>2, <1>3, <1>5

(* How many of n expiries find room.                                       *)
Kept(n) == IF n <= Room THEN n ELSE Room

(* Recording keeps the order and puts the new expiries behind the others:  *)
(* the cells written are none of those that still wait.                    *)
LEMMA RecordEffect ==
  ASSUME RingAssumption, RingOK, NEW t \in Handles, NEW n \in Nat,
         note_timer_expiry(t, n)
  PROVE  /\ RingOK'
         /\ Kept(n) \in Nat
         /\ InOrder' = InOrder \o [i \in 1 .. Kept(n) |-> t]
         /\ EXPIRIES_LOST' = (EXPIRIES_LOST \/ Kept(n) < n)
  <1> DEFINE kept == Kept(n)
             written == {(EXPIRY_HEAD + j) % EXPIRY_RING : j \in 0 .. kept - 1}
  <1>1. /\ EXPIRED' = [c \in Cells |-> IF c \in written THEN t ELSE EXPIRED[c]]
        /\ EXPIRY_HEAD' = (EXPIRY_HEAD + kept) % Wrap
        /\ EXPIRIES_LOST' = (EXPIRIES_LOST \/ kept < n)
        /\ EXPIRY_TAIL' = EXPIRY_TAIL
    BY DEF note_timer_expiry, Kept
  <1>2. /\ EXPIRY_RING \in Int /\ EXPIRY_RING > 0
        /\ Wrap \in Int /\ Wrap > EXPIRY_RING
        /\ EXPIRY_HEAD \in 0 .. Wrap - 1 /\ EXPIRY_TAIL \in 0 .. Wrap - 1
        /\ InRing \in 0 .. EXPIRY_RING
    BY Sizes, InOrderIs DEF RingOK
  <1>3. kept \in Nat /\ InRing + kept \in 0 .. EXPIRY_RING
    BY <1>2 DEF Kept, Room
  <1>4. EXPIRY_HEAD = (EXPIRY_TAIL + InRing) % Wrap
    BY <1>2, Distance DEF InRing
  <1> HIDE DEF kept
  <1>6. EXPIRY_HEAD' = (EXPIRY_TAIL + (InRing + kept)) % Wrap
    <2>1. (((EXPIRY_TAIL + InRing) % Wrap) + kept) % Wrap
            = (EXPIRY_TAIL + InRing + kept) % Wrap
      <3>1. EXPIRY_TAIL + InRing \in Int /\ kept \in Int BY <1>2, <1>3
      <3> QED BY <3>1, WrapAgain
    <2>2. EXPIRY_TAIL + InRing + kept = EXPIRY_TAIL + (InRing + kept)
      BY <1>2, <1>3
    <2> QED BY <1>1, <1>4, <2>1, <2>2
  <1>7. EXPIRY_HEAD' \in 0 .. Wrap - 1 /\ InRing' = InRing + kept
    <2>1. InRing + kept \in 0 .. Wrap - 1 BY <1>2, <1>3
    <2>2. EXPIRY_HEAD' \in 0 .. Wrap - 1 BY <1>2, <1>3, <1>6, Remainder
    <2> QED BY <1>1, <1>2, <1>6, <2>1, <2>2, DistanceIs DEF InRing
  <1>8. RingOK'
    BY <1>1, <1>2, <1>3, <1>7 DEF RingOK
  <1>9. \A j \in 0 .. kept - 1 :
          (EXPIRY_HEAD + j) % EXPIRY_RING = (EXPIRY_TAIL + InRing + j) % EXPIRY_RING
    <2> SUFFICES ASSUME NEW j \in 0 .. kept - 1
                 PROVE  (EXPIRY_HEAD + j) % EXPIRY_RING
                          = (EXPIRY_TAIL + InRing + j) % EXPIRY_RING
      OBVIOUS
    <2>1. EXPIRY_TAIL + InRing \in Int /\ j \in Int BY <1>2, <1>3
    <2>2. (((EXPIRY_TAIL + InRing) % Wrap) + j) % EXPIRY_RING
            = (EXPIRY_TAIL + InRing + j) % EXPIRY_RING
      BY <2>1, WrapAgain
    <2> QED BY <1>4, <2>2
  <1>10. ASSUME NEW i \in 1 .. InRing
         PROVE  InOrder'[i] = InOrder[i]
    <2>1. (EXPIRY_TAIL + i - 1) % EXPIRY_RING \notin written
      <3> SUFFICES ASSUME NEW j \in 0 .. kept - 1,
                          (EXPIRY_TAIL + i - 1) % EXPIRY_RING
                            = (EXPIRY_TAIL + InRing + j) % EXPIRY_RING
                   PROVE  FALSE
        BY <1>9
      <3> DEFINE a == EXPIRY_TAIL + i - 1
                 b == EXPIRY_TAIL + InRing + j
      <3>1. a \in Int /\ b \in Int /\ a < b /\ b - a < EXPIRY_RING
        BY <1>2, <1>3
      <3> QED BY <1>2, <3>1, RemaindersApart
    <2>2. (EXPIRY_TAIL + i - 1) % EXPIRY_RING \in Cells
      BY <1>2, Remainder DEF Cells
    <2>3. EXPIRED'[(EXPIRY_TAIL + i - 1) % EXPIRY_RING]
            = EXPIRED[(EXPIRY_TAIL + i - 1) % EXPIRY_RING]
      BY <1>1, <2>1, <2>2
    <2>4. i \in 1 .. InRing' BY <1>2, <1>3, <1>7
    <2>5. InOrder'[i] = EXPIRED'[(EXPIRY_TAIL + i - 1) % EXPIRY_RING]
      BY <1>1, <2>4 DEF InOrder
    <2>6. InOrder[i] = EXPIRED[(EXPIRY_TAIL + i - 1) % EXPIRY_RING]
      BY DEF InOrder
    <2> QED BY <2>3, <2>5, <2>6
  <1>11. ASSUME NEW i \in InRing + 1 .. InRing + kept
         PROVE  InOrder'[i] = t
    <2> DEFINE j == i - 1 - InRing
    <2>1. j \in 0 .. kept - 1 /\ EXPIRY_TAIL + InRing + j = EXPIRY_TAIL + i - 1
      BY <1>2, <1>3
    <2>2. (EXPIRY_TAIL + i - 1) % EXPIRY_RING \in written
      BY <1>9, <2>1
    <2>3. (EXPIRY_TAIL + i - 1) % EXPIRY_RING \in Cells
      BY <1>2, <1>3, Remainder DEF Cells
    <2>4. EXPIRED'[(EXPIRY_TAIL + i - 1) % EXPIRY_RING] = t
      BY <1>1, <2>2, <2>3
    <2>5. i \in 1 .. InRing' BY <1>2, <1>3, <1>7
    <2> QED BY <1>1, <2>4, <2>5 DEF InOrder
  <1>12. InOrder' = InOrder \o [i \in 1 .. kept |-> t]
    <2> DEFINE new == [i \in 1 .. kept |-> t]
    <2>1. new \in Seq(Entries) /\ Len(new) = kept
      BY <1>3, FunctionIsSeq DEF Entries
    <2> HIDE DEF new
    <2>2. InOrder \in Seq(Entries) /\ Len(InOrder) = InRing BY InOrderIs
    <2>3. InOrder' \in Seq(Entries) /\ Len(InOrder') = InRing + kept
      <3>1. (RingAssumption /\ RingOK)' => (InOrder \in Seq(Entries) /\ Len(InOrder) = InRing)'
        BY InOrderIs, PTL
      <3> QED BY <1>7, <1>8, <3>1 DEF RingAssumption, Entries
    <2>4. /\ InOrder \o new \in Seq(Entries) /\ Len(InOrder \o new) = InRing + kept
          /\ \A i \in 1 .. InRing + kept :
               (InOrder \o new)[i] = IF i <= InRing THEN InOrder[i] ELSE new[i - InRing]
      <3> DEFINE old == InOrder
      <3>1. old \in Seq(Entries) /\ Len(old) = InRing BY <2>2
      <3> HIDE DEF old
      <3>2. /\ old \o new \in Seq(Entries) /\ Len(old \o new) = InRing + kept
            /\ \A i \in 1 .. InRing + kept :
                 (old \o new)[i] = IF i <= InRing THEN old[i] ELSE new[i - InRing]
        BY <2>1, <3>1, ConcatProperties
      <3> QED BY <3>2 DEF old
    <2>5. ASSUME NEW i \in 1 .. InRing + kept
          PROVE  InOrder'[i] = (InOrder \o new)[i]
      <3>1. CASE i <= InRing BY <1>2, <1>3, <1>10, <2>4, <3>1
      <3>2. CASE i > InRing
        <4>1. i - InRing \in 1 .. kept /\ i \in InRing + 1 .. InRing + kept
          BY <1>2, <1>3, <3>2
        <4>2. new[i - InRing] = t BY <4>1 DEF new
        <4>3. (InOrder \o new)[i] = new[i - InRing] BY <1>2, <1>3, <2>4, <3>2
        <4> QED BY <1>11, <4>1, <4>2, <4>3
      <3>3. i \in Int /\ InRing \in Int BY <1>2, <1>3
      <3>4. i <= InRing \/ i > InRing BY <3>3
      <3> QED BY <3>1, <3>2, <3>4
    <2>6. InOrder' = InOrder \o new BY <2>3, <2>4, <2>5, SeqEqual
    <2> QED BY <2>6 DEF new
  <1> QED BY <1>1, <1>3, <1>8, <1>12 DEF kept

(* Taking the oldest expiry off leaves the others in their order.          *)
LEMMA TakeEffect ==
  ASSUME RingAssumption, RingOK, TakeOldest
  PROVE  /\ RingOK'
         /\ InOrder # <<>> /\ InRing > 0
         /\ Head(InOrder) = Oldest /\ InOrder[1] = Oldest
         /\ InRing' = InRing - 1
         /\ \A i \in 1 .. InRing' : InOrder'[i] = InOrder[i + 1]
         /\ InOrder' = Tail(InOrder)
  <1>1. /\ EXPIRY_RING \in Int /\ EXPIRY_RING > 0
        /\ Wrap \in Int /\ Wrap > EXPIRY_RING
        /\ EXPIRY_HEAD \in 0 .. Wrap - 1 /\ EXPIRY_TAIL \in 0 .. Wrap - 1
        /\ InRing \in 1 .. EXPIRY_RING
    BY Sizes, InOrderIs DEF RingOK, TakeOldest
  <1>2. /\ EXPIRY_TAIL' = (EXPIRY_TAIL + 1) % Wrap
        /\ EXPIRED' = EXPIRED /\ EXPIRY_HEAD' = EXPIRY_HEAD
        /\ EXPIRIES_LOST' = EXPIRIES_LOST
    BY DEF TakeOldest
  <1>4. EXPIRY_TAIL' \in 0 .. Wrap - 1 BY <1>1, <1>2, Remainder
  <1>5. InRing' = InRing - 1
    <2>1. EXPIRY_HEAD = (EXPIRY_TAIL + InRing) % Wrap
      BY <1>1, Distance DEF InRing
    <2>2. (EXPIRY_TAIL' + (InRing - 1)) % Wrap = (EXPIRY_TAIL + 1 + (InRing - 1)) % Wrap
      <3>1. EXPIRY_TAIL + 1 \in Int /\ InRing - 1 \in Int BY <1>1
      <3>2. (((EXPIRY_TAIL + 1) % Wrap) + (InRing - 1)) % Wrap
              = (EXPIRY_TAIL + 1 + (InRing - 1)) % Wrap
        BY <3>1, WrapAgain
      <3> QED BY <1>2, <3>2
    <2>3. EXPIRY_TAIL + 1 + (InRing - 1) = EXPIRY_TAIL + InRing BY <1>1
    <2>4. EXPIRY_HEAD' = (EXPIRY_TAIL' + (InRing - 1)) % Wrap
      BY <1>2, <2>1, <2>2, <2>3
    <2>5. InRing - 1 \in 0 .. Wrap - 1 BY <1>1
    <2> QED BY <1>4, <2>4, <2>5, DistanceIs DEF InRing
  <1>6. RingOK' BY <1>1, <1>2, <1>4, <1>5 DEF RingOK
  <1>7. /\ InOrder \in Seq(Entries) /\ Len(InOrder) = InRing /\ InOrder # <<>>
    BY <1>1, InOrderIs, EmptySeq
  <1>8. InOrder[1] = Oldest
    <2>1. EXPIRY_TAIL + 1 - 1 = EXPIRY_TAIL BY <1>1
    <2>2. InOrder[1] = EXPIRED[(EXPIRY_TAIL + 1 - 1) % EXPIRY_RING]
      BY <1>1, InOrderIs
    <2> QED BY <2>1, <2>2 DEF Oldest
  <1>9. ASSUME NEW i \in 1 .. InRing' PROVE InOrder'[i] = InOrder[i + 1]
    <2>1. i \in Int /\ i + 1 \in 1 .. InRing BY <1>1, <1>5
    <2>2. (((EXPIRY_TAIL + 1) % Wrap) + (i - 1)) % EXPIRY_RING
            = (EXPIRY_TAIL + 1 + (i - 1)) % EXPIRY_RING
      <3>1. EXPIRY_TAIL + 1 \in Int /\ i - 1 \in Int BY <1>1, <2>1
      <3> QED BY <3>1, WrapAgain
    <2>3. EXPIRY_TAIL + 1 + (i - 1) = EXPIRY_TAIL + (i + 1) - 1
      BY <1>1, <2>1
    <2>4. EXPIRY_TAIL' + i - 1 = ((EXPIRY_TAIL + 1) % Wrap) + (i - 1)
      BY <1>2, <1>4, <2>1
    <2>5. InOrder'[i] = EXPIRED[(EXPIRY_TAIL' + i - 1) % EXPIRY_RING]
      BY <1>2 DEF InOrder
    <2>6. InOrder[i + 1] = EXPIRED[(EXPIRY_TAIL + (i + 1) - 1) % EXPIRY_RING]
      BY <2>1 DEF InOrder
    <2> QED BY <2>2, <2>3, <2>4, <2>5, <2>6
  <1>10. InOrder' = Tail(InOrder)
    <2>1. InOrder' \in Seq(Entries) /\ Len(InOrder') = InRing - 1
      <3>1. (RingAssumption /\ RingOK)' => (InOrder \in Seq(Entries) /\ Len(InOrder) = InRing)'
        BY InOrderIs, PTL
      <3> QED BY <1>5, <1>6, <3>1 DEF RingAssumption, Entries
    <2>2. /\ Tail(InOrder) \in Seq(Entries) /\ Len(Tail(InOrder)) = InRing - 1
          /\ \A i \in 1 .. InRing - 1 : Tail(InOrder)[i] = InOrder[i + 1]
      BY <1>7, HeadTailProperties
    <2>3. \A i \in 1 .. InRing - 1 : InOrder'[i] = Tail(InOrder)[i]
      BY <1>5, <1>9, <2>2
    <2> QED BY <2>1, <2>2, <2>3, SeqEqual
  <1>11. Head(InOrder) = InOrder[1] BY <1>7
  <1> QED BY <1>1, <1>5, <1>6, <1>7, <1>8, <1>9, <1>10, <1>11

-----------------------------------------------------------------------------
(* The inductive invariant.                                                *)

Commands == [op : Ops, value : Nat, timer : Handles]

(* No period is 0, so that periods that are over can be counted; and a     *)
(* timer is overdue only so far, so that there is a soonest one.           *)
Periods == \A s \in Slots : timers[s].period # 0 /\ timers[s].left >= -MaxOverdue

(* A live timer has a number, and its slot is not used up.                 *)
Numbered ==
  \A s \in Slots : timers[s].gen <= MaxGen[s] /\ (timers[s].live => timers[s].gen # 0)

(* A timer under creation is live, idle, and no other client's.            *)
Making ==
  \A c \in Clients : creating[c] # NoHandle =>
    /\ Valid(creating[c]) /\ ~timers[creating[c].slot].active
    /\ \A d \in Clients : creating[d] = creating[c] => d = c

(* The queue holds commands about timers whose creation is over.           *)
Orders == {c \in Commands :
             c.timer \in Known /\ (c.op = "change_period" => c.value # 0)}
Sent == commands \in Seq(Orders)

(* Once a timer is created its slot has its own callback or none.          *)
Stored == \A h \in Known : Valid(h) => TIMER_CALLBACKS[h.slot] \in {h, NoHandle}

(* Every expiry in the ring is of a timer that still exists.               *)
Standing == {h \in Known : Valid(h)}
Waiting == InOrder \in Seq(Standing)

(* Nothing is left in the ring once the daemon goes on to the timers and   *)
(* the commands.                                                           *)
Drained == at \notin {"drain", "callback"} => RingEmpty

Served == at = "callback" => callback = serving /\ serving \in Standing

(* The daemon waits on the empty command queue and nowhere else, and does  *)
(* not go round its loop while it waits.                                   *)
Off ==
  ~Ready(Daemon) =>
    /\ parked[Daemon] = "receive" /\ commands = <<>>
    /\ at = "yield" \/ (at = "drain" /\ (owed \/ running # Daemon))

Strand == ~owed => \A t \in Procs : Ready(t) => ~Outranks(t)

(* The timer the daemon found due is still due, at the time it sampled.    *)
IsDue == at = "process" => \E s \in Active : timers[s].left + late <= 0

Ownership == Making /\ Sent /\ Stored /\ Waiting /\ Drained /\ Served
Schedule == Off /\ Strand /\ IsDue
TimerInv == TypeOK /\ Periods /\ Numbered /\ Ownership /\ Schedule

-----------------------------------------------------------------------------
(* Handles, records and the sequences built of them.                       *)

(* What a handle is made of.                                               *)
LEMMA HandleParts ==
  ASSUME TimerAssumption, NEW h \in Handles
  PROVE  /\ h.slot \in Slots /\ h.gen \in Nat /\ h.gen # 0 /\ h.gen <= MaxGen[h.slot]
         /\ h = [slot |-> h.slot, gen |-> h.gen]
  <1>1. PICK s \in Slots : h \in [slot : {s}, gen : 1 .. MaxGen[s]]
    BY DEF TimerAssumption
  <1>2. MaxGen[s] \in Nat BY DEF TimerAssumption
  <1> QED BY <1>1, <1>2

(* Every numbered use of a slot has a handle.                              *)
LEMMA HandleMade ==
  ASSUME TimerAssumption, NEW s \in Slots, NEW g \in 1 .. MaxGen[s]
  PROVE  [slot |-> s, gen |-> g] \in Handles
  BY DEF TimerAssumption

(* A timer's record after its activity, its period and its time changed.   *)
LEMMA TimerChanged ==
  ASSUME NEW r \in TimerRecords, NEW a \in BOOLEAN, NEW l \in Int, NEW p \in Nat
  PROVE  /\ [r EXCEPT !.left = l] \in TimerRecords
         /\ [r EXCEPT !.active = a, !.left = l] \in TimerRecords
         /\ [r EXCEPT !.active = a, !.period = p, !.left = l] \in TimerRecords
  BY DEF TimerRecords

(* An empty sequence is one over any set.                                  *)
LEMMA EmptyOfAny ==
  ASSUME RingAssumption, RingOK, RingEmpty, NEW S
  PROVE  InOrder = <<>> /\ InOrder \in Seq(S)
  BY InOrderIs, EmptySeq

(* The parts of the type invariant, one by one.                            *)
LEMMA Types ==
  ASSUME TypeOK
  PROVE  /\ RingOK
         /\ timers \in [Slots -> TimerRecords] /\ \A s \in Active : timers[s].live
         /\ \A s \in Slots : /\ timers[s] \in TimerRecords
                             /\ timers[s].gen \in Nat /\ timers[s].live \in BOOLEAN
                             /\ timers[s].active \in BOOLEAN /\ timers[s].left \in Int
                             /\ timers[s].period \in Nat /\ timers[s].reload \in BOOLEAN
         /\ commands \in Seq(Commands) /\ Len(commands) <= TIMER_QUEUE_LENGTH
         /\ parked \in [Procs -> {"no", "sleep", "send", "receive"}]
         /\ deadline \in Nat \cup {NoWait} /\ wait \in Nat
         /\ running \in Procs \cup {NoTask} /\ owed \in BOOLEAN
         /\ TIMER_CALLBACKS \in [Slots -> Handles \cup {NoHandle}]
         /\ TIMER_NAMES \in [Slots -> Handles \cup {NoHandle}]
         /\ creating \in [Clients -> Handles \cup {NoHandle}]
         /\ at \in Places
         /\ serving \in Handles \cup {NoHandle} /\ callback \in Handles \cup {NoHandle}
         /\ late \in 0 .. MaxLate
  BY DEF TypeOK, RingOK, TimerRecords, Commands

-----------------------------------------------------------------------------
(* What the daemon's kernel calls do to a timer.                           *)

(* At most the timer h is changed, it keeps its number, and the ring gets  *)
(* expiries of h alone, while h is live.                                   *)
Touched(h) ==
  /\ timers' \in [Slots -> TimerRecords] /\ Periods'
  /\ \A u \in Slots : u # h.slot => timers'[u] = timers[u]
  /\ timers'[h.slot].gen = timers[h.slot].gen
  /\ timers'[h.slot].active => timers'[h.slot].live
  /\ timers'[h.slot].live => timers[h.slot].live
  /\ \/ UNCHANGED ringVars
     \/ /\ RingOK' /\ Valid(h)'
        /\ \E k \in Nat : InOrder' = InOrder \o [i \in 1 .. k |-> h]

(* How many periods are over is never negative.                            *)
LEMMA MissedSome ==
  ASSUME NEW r \in TimerRecords, r.period # 0, NEW l \in Int, l <= 0
  PROVE  Missed(r, l) \in Nat /\ Missed(r, l) # 0
  <1>1. -l \in Nat /\ r.period \in Int /\ r.period > 0 BY DEF TimerRecords
  <1>2. \A a \in Nat : (a \div r.period) + 1 \in Nat \ {0} BY <1>1
  <1> QED BY <1>1, <1>2 DEF Missed

(* An expiry changes the time of one timer, and records its handle.        *)
LEMMA ExpireTouches ==
  ASSUME TimerAssumption, RingAssumption,
         RingOK, timers \in [Slots -> TimerRecords], Periods,
         NEW s \in Slots, NEW h \in Handles, h = HandleOf(s),
         NEW r \in TimerRecords, r.period # 0, r.gen = timers[s].gen,
         r.left >= -MaxOverdue,
         r.live, timers[s].live,
         NEW l \in Int, l <= 0, Expire(s, r, l)
  PROVE  Touched(h)
  <1> DEFINE n == Missed(r, l)
             a == r.reload
             m == IF r.reload THEN r.left + n * r.period ELSE 0
             q == [r EXCEPT !.active = a, !.left = m]
  <1>1. n \in Nat BY MissedSome
  <1>2. a \in BOOLEAN /\ m \in Int /\ m >= -MaxOverdue
    <2>1. r.left \in Int /\ r.period \in Nat /\ r.reload \in BOOLEAN BY DEF TimerRecords
    <2>2. n * r.period \in Nat BY <1>1, <2>1
    <2>3. MaxOverdue \in Nat BY DEF MaxOverdue, TimerAssumption
    <2> QED BY <2>1, <2>2, <2>3
  <1>3. note_timer_expiry(h, n) /\ timers' = [timers EXCEPT ![s] = q]
    BY DEF Expire
  <1> HIDE DEF n, a, m
  <1>4. /\ q \in TimerRecords /\ q.gen = r.gen /\ q.live = r.live /\ q.period = r.period
        /\ q.left = m
    <2>1. q \in TimerRecords
      <3>1. 0 \in Nat OBVIOUS
      <3> QED BY <1>2, <3>1, TimerChanged, Zenon
    <2>2. /\ q.gen = r.gen /\ q.live = r.live /\ q.period = r.period
          /\ q.left = m
      BY DEF TimerRecords
    <2> QED BY <2>1, <2>2
  <1> HIDE DEF q
  <1>5. timers' \in [Slots -> TimerRecords] /\ timers'[s] = q
        /\ \A u \in Slots : u # s => timers'[u] = timers[u]
    BY <1>3, <1>4
  <1>6. h.slot = s /\ h.gen = timers[s].gen BY DEF HandleOf
  <1>7. RingOK' /\ \E k \in Nat : InOrder' = InOrder \o [i \in 1 .. k |-> h]
    BY <1>1, <1>3, RecordEffect
  <1>8. Valid(h)' BY <1>4, <1>5, <1>6 DEF Valid
  <1>9. Periods' BY <1>2, <1>4, <1>5 DEF Periods
  <1> QED BY <1>4, <1>5, <1>6, <1>7, <1>8, <1>9 DEF Touched

(* Starting a timer, even one whose period is over at once.                *)
LEMMA BeginTouches ==
  ASSUME TimerAssumption, RingAssumption, TypeOK, Periods,
         NEW s \in Slots, NEW h \in Handles, h = HandleOf(s), timers[s].live,
         NEW p \in Nat, p # 0, Begin(s, p)
  PROVE  Touched(h)
  <1>1. PICK age \in 0 .. MaxLate :
          LET timer == [timers[s] EXCEPT !.active = TRUE, !.period = p, !.left = p - age]
          IN  IF timer.left > 0
                THEN timers' = [timers EXCEPT ![s] = timer] /\ UNCHANGED ringVars
                ELSE Expire(s, timer, timer.left)
    BY DEF Begin
  <1> DEFINE l == p - age
             r == [timers[s] EXCEPT !.active = TRUE, !.period = p, !.left = l]
  <1>2. l \in Int /\ l >= -MaxOverdue BY DEF TimerAssumption, MaxOverdue
  <1>3. timers[s] \in TimerRecords /\ TRUE \in BOOLEAN BY Types
  <1> HIDE DEF l
  <1>4. r \in TimerRecords BY <1>2, <1>3, TimerChanged, Zenon
  <1>5. /\ r.gen = timers[s].gen /\ r.live = timers[s].live /\ r.period = p
        /\ r.left = l /\ r.active
    BY <1>3 DEF TimerRecords
  <1> HIDE DEF r
  <1>6. IF r.left > 0
          THEN timers' = [timers EXCEPT ![s] = r] /\ UNCHANGED ringVars
          ELSE Expire(s, r, r.left)
    BY <1>1 DEF r, l
  <1>7. CASE r.left > 0
    <2>1. timers' = [timers EXCEPT ![s] = r] /\ UNCHANGED ringVars BY <1>6, <1>7
    <2>2. timers \in [Slots -> TimerRecords] BY Types
    <2>3. timers' \in [Slots -> TimerRecords] /\ timers'[s] = r
          /\ \A u \in Slots : u # s => timers'[u] = timers[u]
      BY <1>4, <2>1, <2>2
    <2>4. h.slot = s BY DEF HandleOf
    <2>5. Periods' BY <1>2, <1>5, <2>3 DEF Periods
    <2> QED BY <1>5, <2>1, <2>3, <2>4, <2>5 DEF Touched
  <1>8. CASE ~(r.left > 0)
    <2>1. Expire(s, r, l) /\ l <= 0 BY <1>2, <1>5, <1>6, <1>8
    <2>2. RingOK /\ timers \in [Slots -> TimerRecords] BY Types
    <2> QED BY <1>2, <1>4, <1>5, <2>1, <2>2, ExpireTouches
  <1> QED BY <1>7, <1>8

(* Every command touches the timer it is about and no other.               *)
LEMMA ObeyTouches ==
  ASSUME TimerAssumption, RingAssumption, TypeOK, Periods,
         NEW c \in Commands, c.op = "change_period" => c.value # 0, Obey(c)
  PROVE  /\ Touched(c.timer)
         /\ ~Valid(c.timer) => UNCHANGED <<timers, ringVars>>
  <1> DEFINE h == c.timer
             s == h.slot
  <1>1. h \in Handles /\ s \in Slots /\ h = [slot |-> s, gen |-> h.gen] /\ c.value \in Nat
    BY HandleParts DEF Commands
  <1>2. timers \in [Slots -> TimerRecords] /\ timers[s] \in TimerRecords
        /\ timers[s].period \in Nat /\ timers[s].gen \in Nat
        /\ (timers[s].active => timers[s].live)
    BY <1>1, Types DEF Active
  <1>3. CASE ~Valid(h)
    <2>1. UNCHANGED <<timers, ringVars>> BY <1>3 DEF Obey
    <2> QED BY <1>2, <1>3, <2>1 DEF Touched, Periods
  <1>4. ASSUME Valid(h) PROVE h = HandleOf(s) /\ timers[s].live
    BY <1>1, <1>4 DEF Valid, HandleOf
  <1>5. CASE Valid(h) /\ Begin(s, timers[s].period)
    <2> DEFINE p == timers[s].period
    <2>1. p # 0 /\ p \in Nat /\ Begin(s, p) BY <1>1, <1>2, <1>5 DEF Periods
    <2> HIDE DEF p
    <2> QED BY <1>1, <1>4, <1>5, <2>1, BeginTouches
  <1>6. CASE Valid(h) /\ c.op = "change_period" /\ Begin(s, c.value)
    BY <1>1, <1>2, <1>4, <1>6, BeginTouches
  <1>7. ASSUME Valid(h), UNCHANGED ringVars, NEW q \in TimerRecords, q.period # 0,
               q.left = 0, q.gen = timers[s].gen, ~q.active,
               timers' = [timers EXCEPT ![s] = q]
        PROVE  Touched(h)
    <2>1. timers' \in [Slots -> TimerRecords] /\ timers'[s] = q
          /\ \A u \in Slots : u # s => timers'[u] = timers[u]
      BY <1>1, <1>2, <1>7
    <2>2. MaxOverdue \in Nat BY DEF MaxOverdue, TimerAssumption
    <2>3. Periods' BY <1>7, <2>1, <2>2 DEF Periods
    <2> QED BY <1>4, <1>7, <2>1, <2>3 DEF Touched
  <1>8. CASE Valid(h) /\ c.op = "stop"
    <2> DEFINE q == [timers[s] EXCEPT !.active = FALSE, !.left = 0]
    <2>1. timers' = [timers EXCEPT ![s] = q] /\ UNCHANGED ringVars
      BY <1>8 DEF Obey
    <2>2. q \in TimerRecords
      <3>1. FALSE \in BOOLEAN /\ 0 \in Int /\ 0 \in Nat OBVIOUS
      <3> QED BY <1>2, <3>1, TimerChanged, Zenon
    <2>3. /\ q.period = timers[s].period /\ q.gen = timers[s].gen /\ ~q.active
          /\ q.left = 0
      BY <1>2 DEF TimerRecords
    <2>4. timers[s].period # 0 BY <1>1 DEF Periods
    <2> HIDE DEF q
    <2> QED BY <1>7, <1>8, <2>1, <2>2, <2>3, <2>4
  <1>9. CASE Valid(h) /\ c.op = "delete"
    <2> DEFINE q == Unused(timers[s].gen)
    <2>1. timers' = [timers EXCEPT ![s] = q] /\ UNCHANGED ringVars
      BY <1>9 DEF Obey
    <2>2. /\ q \in TimerRecords /\ q.period # 0 /\ q.gen = timers[s].gen /\ ~q.active
          /\ q.left = 0
      BY <1>2 DEF Unused, TimerRecords
    <2> HIDE DEF q
    <2> QED BY <1>7, <1>9, <2>1, <2>2
  <1>10. \/ ~Valid(h)
         \/ Valid(h) /\ Begin(s, timers[s].period)
         \/ Valid(h) /\ c.op = "change_period" /\ Begin(s, c.value)
         \/ Valid(h) /\ c.op = "stop"
         \/ Valid(h) /\ c.op = "delete"
    BY DEF Obey
  <1>11. ~Valid(h) => UNCHANGED <<timers, ringVars>> BY DEF Obey
  <1>12. Touched(h) BY <1>3, <1>5, <1>6, <1>8, <1>9, <1>10
  <1> QED BY <1>11, <1>12

(* A due timer expires as of the time sampled.                             *)
LEMMA ProcessTouches ==
  ASSUME TimerAssumption, RingAssumption, TypeOK, Periods, Numbered, IsDue,
         at = "process", NEW s \in Soonest, Expire(s, timers[s], timers[s].left + late)
  PROVE  HandleOf(s) \in Handles /\ \A h \in Handles : h = HandleOf(s) => Touched(h)
  <1>1. s \in Slots /\ timers[s].active /\ \A u \in Active : timers[s].left <= timers[u].left
    BY DEF Soonest, Active
  <1>2. PICK u \in Active : timers[u].left + late <= 0 BY DEF IsDue
  <1>3. late \in Int /\ timers[s].left \in Int /\ timers[u].left \in Int
    BY <1>1, Types DEF Active, TimerAssumption
  <1>4. timers[s].left + late \in Int /\ timers[s].left + late <= 0
    <2>1. timers[s].left <= timers[u].left BY <1>1
    <2> QED BY <1>2, <1>3, <2>1
  <1>5. /\ timers[s] \in TimerRecords /\ timers[s].live /\ timers[s].period # 0
        /\ timers[s].gen \in Nat /\ timers[s].gen # 0 /\ timers[s].gen <= MaxGen[s]
        /\ RingOK /\ timers \in [Slots -> TimerRecords]
    BY <1>1, Types DEF Periods, Numbered, Active
  <1>6. HandleOf(s) \in Handles
    <2>1. MaxGen[s] \in Nat BY <1>1 DEF TimerAssumption
    <2> QED BY <1>1, <1>5, <2>1, HandleMade DEF HandleOf
  <1>7. ASSUME NEW h \in Handles, h = HandleOf(s) PROVE Touched(h)
    <2>1. timers[s].left >= -MaxOverdue BY <1>1 DEF Periods
    <2> QED BY <1>1, <1>4, <1>5, <1>7, <2>1, ExpireTouches
  <1> QED BY <1>6, <1>7

-----------------------------------------------------------------------------
(* Ownership: whose timer a handle, a command, an expiry and a stored      *)
(* callback name.                                                          *)

(* A live timer has one handle.                                            *)
LEMMA OneHandle ==
  ASSUME TimerAssumption, NEW g \in Handles, NEW h \in Handles,
         Valid(g), Valid(h), g.slot = h.slot
  PROVE  g = h
  <1>1. g = [slot |-> g.slot, gen |-> g.gen] /\ h = [slot |-> h.slot, gen |-> h.gen]
    BY HandleParts
  <1>2. g.gen = h.gen BY DEF Valid
  <1> QED BY <1>1, <1>2

(* Nobody's handles change meaning as long as no timer is created or       *)
(* deleted.                                                                *)
LEMMA SameIdentities ==
  ASSUME TimerAssumption,
         \A s \in Slots : timers'[s].gen = timers[s].gen /\ timers'[s].live = timers[s].live,
         creating' = creating
  PROVE  Known' = Known /\ Orders' = Orders /\ Standing' = Standing
  <1>1. \A h \in Handles : h.slot \in Slots BY HandleParts
  <1>2. Known' = Known BY <1>1 DEF Known
  <1>3. \A h \in Known : Valid(h)' = Valid(h) BY <1>1 DEF Valid, Known
  <1> QED BY <1>2, <1>3 DEF Orders, Standing

(* ...nor which callback is whose.                                         *)
LEMMA SameOwners ==
  ASSUME TimerAssumption, TypeOK, Making, Stored,
         \A s \in Slots : /\ timers'[s].gen = timers[s].gen
                          /\ timers'[s].live = timers[s].live
                          /\ timers'[s].active = timers[s].active,
         UNCHANGED <<creating, TIMER_CALLBACKS>>
  PROVE  Making' /\ Stored'
  <1>1. \A h \in Handles : h.slot \in Slots BY HandleParts
  <1>2. Known' = Known BY SameIdentities
  <1>3. \A h \in Handles : Valid(h)' = Valid(h) BY <1>1 DEF Valid
  <1>4. \A c \in Clients : creating[c] # NoHandle => creating[c] \in Handles BY Types
  <1>5. Making' BY <1>1, <1>3, <1>4 DEF Making
  <1>6. Stored' BY <1>2, <1>3 DEF Stored, Known
  <1> QED BY <1>5, <1>6

(* A step that touches one timer, after the ring was drained: a timer      *)
(* under creation is not that one, and what the ring now holds are         *)
(* expiries of that timer.                                                 *)
LEMMA TouchOwnership ==
  ASSUME TimerAssumption, RingAssumption, TypeOK, Ownership, RingEmpty,
         NEW h \in Known, Touched(h),
         Valid(h) \/ UNCHANGED <<timers, ringVars>>,
         UNCHANGED <<creating, TIMER_CALLBACKS>>
  PROVE  Making' /\ Stored' /\ Waiting' /\ Known' = Known /\ Orders' = Orders
  <1>1. h \in Handles /\ h.slot \in Slots BY HandleParts DEF Known
  <1>2. \A s \in Slots : timers'[s].gen = timers[s].gen /\ (timers'[s].live => timers[s].live)
    BY <1>1 DEF Touched
  <1>3. \A g \in Handles : g.slot \in Slots BY HandleParts
  <1>4. Known' = Known BY <1>2, <1>3 DEF Known
  <1>5. Orders' = Orders BY <1>4 DEF Orders
  <1>6. \A g \in Handles : Valid(g)' => Valid(g) BY <1>2, <1>3 DEF Valid
  <1>7. Stored' BY <1>4, <1>6 DEF Stored, Ownership, Known
  <1>8. Making'
    <2> SUFFICES ASSUME NEW c \in Clients, creating[c] # NoHandle
                 PROVE  /\ Valid(creating[c])' /\ ~timers'[creating[c].slot].active
                        /\ \A d \in Clients : creating[d] = creating[c] => d = c
      BY DEF Making
    <2>1. /\ Valid(creating[c]) /\ ~timers[creating[c].slot].active
          /\ \A d \in Clients : creating[d] = creating[c] => d = c
      BY DEF Ownership, Making
    <2>2. creating[c] \in Handles /\ creating[c] # h /\ creating[c].slot \in Slots
      BY <1>3, Types DEF Known
    <2>3. timers'[creating[c].slot] = timers[creating[c].slot]
      <3>1. CASE Valid(h)
        <4>1. creating[c].slot # h.slot BY <1>1, <2>1, <2>2, <3>1, OneHandle
        <4> QED BY <2>2, <4>1 DEF Touched
      <3>2. CASE UNCHANGED timers BY <3>2
      <3> QED BY <3>1, <3>2
    <2>4. Valid(creating[c])' BY <2>1, <2>3 DEF Valid
    <2> QED BY <2>1, <2>3, <2>4
  <1>9. Waiting'
    <2>1. InOrder = <<>> /\ RingOK BY EmptyOfAny, Types
    <2>2. CASE UNCHANGED ringVars
      <3>1. InOrder' = InOrder BY <2>2 DEF ringVars, InOrder, InRing
      <3> QED BY <2>1, <3>1, EmptySeq DEF Waiting
    <2>3. CASE Valid(h)' /\ \E k \in Nat : InOrder' = InOrder \o [i \in 1 .. k |-> h]
      <3>1. h \in Standing' BY <1>4, <2>3 DEF Standing
      <3>2. PICK k \in Nat : InOrder' = InOrder \o [i \in 1 .. k |-> h] BY <2>3
      <3> DEFINE new == [i \in 1 .. k |-> h]
      <3>3. new \in Seq(Standing') BY <3>1, FunctionIsSeq
      <3> HIDE DEF new
      <3>4. <<>> \o new = new BY <3>3, ConcatEmptySeq
      <3>5. InOrder' = new BY <2>1, <3>2, <3>4 DEF new
      <3> QED BY <3>3, <3>5 DEF Waiting
    <2> QED BY <2>2, <2>3 DEF Touched
  <1> QED BY <1>4, <1>5, <1>7, <1>8, <1>9

(* A new timer is nobody's but its creator's.                              *)
LEMMA CreateOwnership ==
  ASSUME TimerAssumption, TypeOK, Making, Stored,
         NEW c \in Clients, xTimerCreate(c)
  PROVE  Making' /\ Stored' /\ Known' = Known /\ Orders' = Orders /\ Standing' = Standing
  <1>1. PICK s \in Slots : \E k \in Kinds :
       /\ ~timers[s].live /\ timers[s].gen < MaxGen[s]
       /\ timers' = [timers EXCEPT ![s] =
            [gen |-> @.gen + 1, live |-> TRUE, active |-> FALSE, left |-> 0,
             period |-> k.period, reload |-> k.reload, callback |-> k.callback]]
       /\ creating' = [creating EXCEPT ![c] = [slot |-> s, gen |-> timers[s].gen + 1]]
    BY DEF xTimerCreate
  <1> DEFINE new == [slot |-> s, gen |-> timers[s].gen + 1]
  <1>2. /\ timers'[s].gen = timers[s].gen + 1 /\ timers'[s].live /\ ~timers'[s].active
        /\ \A u \in Slots : u # s => timers'[u] = timers[u]
        /\ ~timers[s].live /\ timers[s].gen < MaxGen[s] /\ timers[s].gen \in Nat
    BY <1>1, Types
  <1>3. MaxGen[s] \in Nat BY DEF TimerAssumption
  <1>4. new \in Handles BY <1>2, <1>3, HandleMade
  <1>5. creating'[c] = new /\ \A d \in Clients : d # c => creating'[d] = creating[d]
    BY <1>1, Types
  <1>6. creating[c] = NoHandle /\ TIMER_CALLBACKS' = TIMER_CALLBACKS
    BY DEF xTimerCreate
  <1>7. NoHandle \notin Handles BY RingAssumption DEF RingAssumption
  <1>8. Known' = Known
    <2>1. ASSUME NEW h \in Handles PROVE h \in Known' <=> h \in Known
      <3>1. h.slot \in Slots /\ h.gen \in Nat /\ h = [slot |-> h.slot, gen |-> h.gen]
        BY HandleParts
      <3>2. (\A d \in Clients : creating'[d] # h) <=>
              (h # new /\ \A d \in Clients : creating[d] # h)
        BY <1>5, <1>6, <1>7
      <3>3. CASE h.slot # s
        <4>1. h # new BY <3>3
        <4> QED BY <1>2, <3>1, <3>2, <3>3, <4>1 DEF Known
      <3>4. CASE h.slot = s
        <4>1. h = new <=> h.gen = timers[s].gen + 1 BY <3>1, <3>4
        <4>2. h.gen <= timers'[s].gen <=> (h.gen <= timers[s].gen \/ h.gen = timers[s].gen + 1)
          BY <1>2, <3>1
        <4>3. h = new => ~(h.gen <= timers[s].gen) BY <1>2, <4>1
        <4> QED BY <3>2, <3>4, <4>1, <4>2, <4>3 DEF Known
      <3> QED BY <3>3, <3>4
    <2> QED BY <2>1 DEF Known
  <1>9. Orders' = Orders BY <1>8 DEF Orders
  <1>10. \A h \in Known : Valid(h)' <=> Valid(h)
    <2> SUFFICES ASSUME NEW h \in Known PROVE Valid(h)' <=> Valid(h) OBVIOUS
    <2>1. h.slot \in Slots /\ h.gen \in Nat /\ h.gen <= timers[h.slot].gen
      BY HandleParts DEF Known
    <2>2. CASE h.slot # s BY <1>2, <2>1, <2>2 DEF Valid
    <2>3. CASE h.slot = s
      <3>1. h.gen # timers'[s].gen BY <1>2, <2>1, <2>3
      <3> QED BY <1>2, <2>3, <3>1 DEF Valid
    <2> QED BY <2>2, <2>3
  <1>11. Standing' = Standing BY <1>8, <1>10 DEF Standing
  <1>12. Stored' BY <1>6, <1>8, <1>10 DEF Stored
  <1>13. Making'
    <2>1. ASSUME NEW d \in Clients, creating'[d] # NoHandle, d # c
          PROVE  /\ Valid(creating[d])' /\ ~timers'[creating'[d].slot].active
                 /\ \A e \in Clients : creating'[e] = creating'[d] => e = d
      <3>1. creating'[d] = creating[d] BY <1>5, <2>1
      <3>2. /\ Valid(creating[d]) /\ ~timers[creating[d].slot].active
            /\ \A e \in Clients : creating[e] = creating[d] => e = d
        BY <2>1, <3>1 DEF Making
      <3>3. creating[d] \in Handles /\ creating[d].slot \in Slots
        BY <2>1, <3>1, Types, HandleParts
      <3>4. creating[d].slot # s BY <1>2, <3>2 DEF Valid
      <3>5. timers'[creating[d].slot] = timers[creating[d].slot] BY <1>2, <3>3, <3>4
      <3>6. timers'[creating[d].slot].live /\ timers'[creating[d].slot].gen = creating[d].gen
        BY <3>2, <3>5 DEF Valid
      <3>7. creating'[c] # creating[d] BY <1>5, <3>4
      <3>8. \A e \in Clients : creating'[e] = creating'[d] => e = d
        BY <1>5, <3>1, <3>2, <3>7
      <3> QED BY <3>1, <3>2, <3>5, <3>6, <3>8 DEF Valid
    <2>2. ASSUME NEW e \in Clients, creating'[e] = creating'[c] PROVE e = c
      <3> SUFFICES ASSUME e # c PROVE FALSE OBVIOUS
      <3>1. creating[e] = new BY <1>5, <2>2
      <3>2. Valid(creating[e]) BY <1>4, <1>7, <3>1 DEF Making
      <3> QED BY <1>2, <3>1, <3>2 DEF Valid
    <2>3. Valid(creating[c])' /\ ~timers'[creating'[c].slot].active
      BY <1>2, <1>5 DEF Valid
    <2> QED BY <2>1, <2>2, <2>3 DEF Making, Valid
  <1> QED BY <1>8, <1>9, <1>11, <1>12, <1>13

(* The creation ends: the timer becomes known with its own callback.       *)
LEMMA RememberOwnership ==
  ASSUME TimerAssumption, TypeOK, Making, Stored,
         NEW c \in Clients, Remember(c)
  PROVE  /\ Making' /\ Stored'
         /\ Known \subseteq Known' /\ Orders \subseteq Orders' /\ Standing \subseteq Standing'
  <1> DEFINE h == creating[c]
  <1>1. /\ h # NoHandle /\ timers' = timers
        /\ TIMER_CALLBACKS' = [TIMER_CALLBACKS EXCEPT ![h.slot] =
                                 IF timers[h.slot].callback THEN h ELSE NoHandle]
        /\ creating' = [creating EXCEPT ![c] = NoHandle]
    BY DEF Remember, kernelVars
  <1>2. h \in Handles /\ h.slot \in Slots BY <1>1, Types, HandleParts
  <1>3. /\ Valid(h) /\ \A d \in Clients : creating[d] = h => d = c
    BY <1>1 DEF Making
  <1>4. creating'[c] = NoHandle /\ \A d \in Clients : d # c => creating'[d] = creating[d]
    BY <1>1, Types
  <1>5. NoHandle \notin Handles BY RingAssumption DEF RingAssumption
  <1>6. \A g \in Known' : g = h \/ g \in Known
    BY <1>1, <1>4 DEF Known
  <1>7. Known \subseteq Known' BY <1>1, <1>4, <1>5 DEF Known
  <1>8. Orders \subseteq Orders' BY <1>7 DEF Orders
  <1>9. \A g \in Handles : Valid(g)' <=> Valid(g) BY <1>1 DEF Valid
  <1>10. Standing \subseteq Standing' BY <1>7, <1>9 DEF Standing, Known
  <1>11. Making'
    <2> SUFFICES ASSUME NEW d \in Clients, creating'[d] # NoHandle
                 PROVE  /\ Valid(creating[d])' /\ ~timers'[creating'[d].slot].active
                        /\ \A e \in Clients : creating'[e] = creating'[d] => e = d
      BY DEF Making, Valid
    <2>1. d # c /\ creating'[d] = creating[d] BY <1>4
    <2>2. /\ Valid(creating[d]) /\ ~timers[creating[d].slot].active
          /\ \A e \in Clients : creating[e] = creating[d] => e = d
      BY <2>1 DEF Making
    <2> QED BY <1>1, <1>4, <2>1, <2>2 DEF Valid
  <1>12. Stored'
    <2> SUFFICES ASSUME NEW g \in Known', Valid(g)'
                 PROVE  TIMER_CALLBACKS'[g.slot] \in {g, NoHandle}
      BY DEF Stored
    <2>1. g \in Handles /\ g.slot \in Slots /\ Valid(g)
      BY <1>9, HandleParts DEF Known
    <2>2. CASE g = h
      <3>1. TIMER_CALLBACKS'[h.slot] \in {h, NoHandle} BY <1>1, <1>2, Types
      <3> QED BY <2>2, <3>1
    <2>3. CASE g # h
      <3>1. g \in Known /\ g.slot # h.slot
        BY <1>2, <1>3, <1>6, <2>1, <2>3, OneHandle
      <3>2. TIMER_CALLBACKS'[g.slot] = TIMER_CALLBACKS[g.slot]
        BY <1>1, <2>1, <3>1, Types
      <3> QED BY <2>1, <3>1, <3>2 DEF Stored
    <2> QED BY <2>2, <2>3
  <1> QED BY <1>7, <1>8, <1>10, <1>11, <1>12

-----------------------------------------------------------------------------
(* Every step keeps the invariant.                                         *)

(* The type invariant beside the ring.                                     *)
OtherTypes ==
  /\ timers \in [Slots -> TimerRecords]
  /\ \A s \in Active : timers[s].live
  /\ commands \in Seq(Commands)
  /\ Len(commands) <= TIMER_QUEUE_LENGTH
  /\ parked \in [Procs -> {"no", "sleep", "send", "receive"}]
  /\ deadline \in Nat \cup {NoWait} /\ wait \in Nat
  /\ running \in Procs \cup {NoTask}
  /\ owed \in BOOLEAN
  /\ TIMER_CALLBACKS \in [Slots -> Handles \cup {NoHandle}]
  /\ TIMER_NAMES \in [Slots -> Handles \cup {NoHandle}]
  /\ creating \in [Clients -> Handles \cup {NoHandle}]
  /\ at \in Places
  /\ {serving, callback} \subseteq Handles \cup {NoHandle}
  /\ late \in 0 .. MaxLate

(* The type invariant is the ring's and the rest's.                        *)
LEMMA TypeParts ==
  /\ TypeOK <=> RingOK /\ OtherTypes
  /\ TypeOK' <=> RingOK' /\ OtherTypes'
  BY DEF TypeOK, RingOK, OtherTypes, Commands

(* Steps that leave the timers, their handles and the ring alone.          *)
LEMMA Quiet ==
  ASSUME TimerAssumption, TimerInv,
         UNCHANGED <<ringVars, timers, creating, TIMER_CALLBACKS>>
  PROVE  /\ RingOK' /\ (RingEmpty' <=> RingEmpty) /\ Active' = Active
         /\ Periods' /\ Numbered' /\ Making' /\ Stored' /\ Waiting'
         /\ Known' = Known /\ Orders' = Orders /\ Standing' = Standing
  <1>1. UNCHANGED <<EXPIRED, EXPIRY_HEAD, EXPIRY_TAIL, EXPIRIES_LOST>> BY DEF ringVars
  <1>2. InRing' = InRing /\ InOrder' = InOrder /\ (RingEmpty' <=> RingEmpty)
    BY <1>1 DEF InRing, InOrder, RingEmpty
  <1>3. RingOK' BY <1>1, <1>2, Types DEF RingOK, TimerInv
  <1>4. Periods' /\ Numbered' /\ Active' = Active
    BY DEF TimerInv, Periods, Numbered, Active
  <1>5. Known' = Known /\ Orders' = Orders /\ Standing' = Standing BY SameIdentities
  <1>6. Making' /\ Stored' BY SameOwners DEF TimerInv, Ownership
  <1>7. Waiting' BY <1>2, <1>5 DEF Waiting, TimerInv, Ownership
  <1> QED BY <1>2, <1>3, <1>4, <1>5, <1>6, <1>7

(* A step that changes what is ready pends the switch it makes due.        *)
LEMMA StrandKept ==
  ASSUME Strand, running' = running, owed \in BOOLEAN, owed' \in BOOLEAN, owed => owed',
         \A u \in Procs : Ready(u)' => Ready(u) \/ (Outranks(u) => owed')
  PROVE  Strand'
  BY DEF Strand, Outranks

(* What posting a command does.                                            *)
LEMMA PostEffect ==
  ASSUME TimerAssumption, TypeOK, Sent,
         NEW t \in Procs, NEW h \in Known, NEW p \in Posts, t = Daemon => p.ticks = 0,
         xTimerGenericCommandFromTask(t, h, p)
  PROVE  /\ commands' \in Seq(Orders) /\ Len(commands') <= TIMER_QUEUE_LENGTH
         /\ parked' \in [Procs -> {"no", "sleep", "send", "receive"}]
         /\ owed' \in BOOLEAN /\ (owed => owed')
         /\ \A u \in Procs : Ready(u)' => Ready(u) \/ (Outranks(u) => owed')
         /\ ~Ready(Daemon)' =>
              /\ parked'[Daemon] = parked[Daemon]
              /\ parked[Daemon] = "receive" => commands' = commands
  <1> DEFINE order == [op |-> p.op, value |-> p.value, timer |-> h]
  <1>1. order \in Orders
    <2>1. h \in Handles BY DEF Known
    <2>2. p.op \in Ops /\ p.value \in Nat /\ (p.op = "change_period" => p.value # 0)
      BY DEF Posts
    <2>3. order \in Commands BY <2>1, <2>2 DEF Commands
    <2> QED BY <2>2, <2>3 DEF Orders
  <1>2. /\ commands \in Seq(Orders) /\ Len(commands) <= TIMER_QUEUE_LENGTH
        /\ Len(commands) \in Nat /\ TIMER_QUEUE_LENGTH \in Nat
    BY Types, LenProperties DEF Sent, TimerAssumption
  <1>3. /\ parked \in [Procs -> {"no", "sleep", "send", "receive"}] /\ owed \in BOOLEAN
        /\ Daemon \in Procs
    BY Types DEF Procs
  <1>4. CASE Put(order) /\ WakeDaemon
    <2>1. commands' = Append(commands, order) /\ Len(commands) < TIMER_QUEUE_LENGTH
      BY <1>4 DEF Put
    <2>2. commands' \in Seq(Orders) /\ Len(commands') = Len(commands) + 1
      BY <1>1, <1>2, <2>1, AppendProperties
    <2>3. Len(commands') <= TIMER_QUEUE_LENGTH BY <1>2, <2>1, <2>2
    <2>4. CASE DaemonWaits
      <3>1. /\ parked' = [parked EXCEPT ![Daemon] = "no"]
            /\ owed' = (owed \/ Outranks(Daemon))
        BY <1>4, <2>4 DEF WakeDaemon
      <3>2. /\ parked'[Daemon] = "no" /\ \A u \in Procs : u # Daemon => parked'[u] = parked[u]
            /\ parked' \in [Procs -> {"no", "sleep", "send", "receive"}]
        BY <1>3, <3>1
      <3>3. owed' \in BOOLEAN /\ (owed => owed') /\ (Outranks(Daemon) => owed')
        BY <1>3, <3>1 DEF Outranks
      <3> QED BY <2>2, <2>3, <3>2, <3>3 DEF Ready
    <2>5. CASE ~DaemonWaits
      <3>1. UNCHANGED <<parked, owed>> BY <1>4, <2>5 DEF WakeDaemon
      <3> QED BY <1>3, <2>2, <2>3, <2>5, <3>1 DEF Ready, DaemonWaits
    <2> QED BY <2>4, <2>5
  <1>5. CASE /\ parked' = IF p.ticks = 0 THEN parked ELSE [parked EXCEPT ![t] = "send"]
             /\ UNCHANGED <<commands, owed>>
    <2>1. /\ parked' \in [Procs -> {"no", "sleep", "send", "receive"}]
          /\ parked'[Daemon] = parked[Daemon]
          /\ \A u \in Procs : parked'[u] = "no" => parked[u] = "no"
      BY <1>3, <1>5
    <2> QED BY <1>2, <1>3, <1>5, <2>1 DEF Ready
  <1>6. CASE UNCHANGED <<commands, parked, owed>>
    BY <1>2, <1>3, <1>6 DEF Ready
  <1> QED BY <1>4, <1>5, <1>6 DEF xTimerGenericCommandFromTask

(* Creating a timer.                                                       *)
LEMMA CreateStep ==
  ASSUME TimerAssumption, RingAssumption, TimerInv, NEW c \in Clients, xTimerCreate(c)
  PROVE  TimerInv'
  <1>1. /\ UNCHANGED <<ringVars, commands, parked, deadline, running, owed, daemonVars,
                       TIMER_CALLBACKS, TIMER_NAMES>>
        /\ creating[c] = NoHandle
    BY DEF xTimerCreate
  <1>2. UNCHANGED <<EXPIRED, EXPIRY_HEAD, EXPIRY_TAIL, EXPIRIES_LOST, at, serving,
                    callback, late, wait>>
    BY <1>1 DEF ringVars, daemonVars
  <1>3. PICK s \in Slots, k \in Kinds :
       /\ ~timers[s].live /\ timers[s].gen < MaxGen[s]
       /\ timers' = [timers EXCEPT ![s] =
            [gen |-> @.gen + 1, live |-> TRUE, active |-> FALSE, left |-> 0,
             period |-> k.period, reload |-> k.reload, callback |-> k.callback]]
       /\ creating' = [creating EXCEPT ![c] = [slot |-> s, gen |-> timers[s].gen + 1]]
    BY DEF xTimerCreate
  <1> DEFINE r == [gen |-> timers[s].gen + 1, live |-> TRUE, active |-> FALSE, left |-> 0,
                   period |-> k.period, reload |-> k.reload, callback |-> k.callback]
  <1>4. /\ r \in TimerRecords /\ r.period # 0 /\ ~r.active /\ r.gen = timers[s].gen + 1
        /\ r.left >= -MaxOverdue
    <2>1. k.period \in Nat /\ k.period # 0 /\ k.reload \in BOOLEAN /\ k.callback \in BOOLEAN
      BY DEF TimerAssumption
    <2>2. timers[s].gen + 1 \in Nat BY Types DEF TimerInv
    <2>3. MaxOverdue \in Nat BY DEF MaxOverdue, TimerAssumption
    <2> QED BY <2>1, <2>2, <2>3 DEF TimerRecords
  <1>5. timers' = [timers EXCEPT ![s] = r] BY <1>3
  <1> HIDE DEF r
  <1>6. /\ timers \in [Slots -> TimerRecords] /\ timers' \in [Slots -> TimerRecords]
        /\ timers'[s] = r /\ \A u \in Slots : u # s => timers'[u] = timers[u]
    BY <1>4, <1>5, Types DEF TimerInv
  <1>7. /\ \A u \in Active' : timers'[u].live /\ u \in Active /\ u # s
        /\ \A u \in Active : u # s => u \in Active'
        /\ s \notin Active
    BY <1>3, <1>4, <1>6, Types DEF Active, TimerInv
  <1>8. timers[s].gen \in Nat /\ MaxGen[s] \in Nat BY Types DEF TimerInv, TimerAssumption
  <1>9. creating' \in [Clients -> Handles \cup {NoHandle}]
    <2>1. [slot |-> s, gen |-> timers[s].gen + 1] \in Handles BY <1>3, <1>8, HandleMade
    <2> QED BY <1>3, <2>1, Types DEF TimerInv
  <1>10. TypeOK'
    <2>1. RingOK' BY <1>2, Types DEF RingOK, InRing, TimerInv
    <2>2. OtherTypes'
      BY <1>1, <1>2, <1>6, <1>7, <1>9, TypeParts DEF OtherTypes, TimerInv
    <2> QED BY <2>1, <2>2, TypeParts
  <1>11. Periods' BY <1>4, <1>6 DEF Periods, TimerInv
  <1>12. Numbered'
    BY <1>3, <1>4, <1>6, <1>8 DEF Numbered, TimerInv
  <1>13. Making' /\ Stored' /\ Known' = Known /\ Orders' = Orders /\ Standing' = Standing
    BY CreateOwnership DEF TimerInv, Ownership
  <1>14. Ownership'
    <2>1. InOrder' = InOrder /\ RingEmpty' = RingEmpty
      BY <1>2 DEF InOrder, InRing, RingEmpty
    <2> QED
      BY <1>1, <1>2, <1>13, <2>1 DEF Ownership, Sent, Waiting, Drained, Served, TimerInv
  <1>15. Schedule'
    <2>1. IsDue'
      <3> SUFFICES ASSUME at = "process"
                   PROVE  \E u \in Active' : timers'[u].left + late <= 0
        BY <1>2 DEF IsDue
      <3>1. PICK u \in Active : timers[u].left + late <= 0
        BY DEF IsDue, Schedule, TimerInv
      <3>2. u \in Slots /\ u # s BY <1>7 DEF Active
      <3>3. u \in Active' /\ timers'[u] = timers[u] BY <1>6, <1>7, <3>2
      <3> QED BY <3>1, <3>3
    <2> QED
      BY <1>1, <1>2, <2>1 DEF Schedule, Off, Strand, Ready, Outranks, TimerInv
  <1> QED BY <1>10, <1>11, <1>12, <1>14, <1>15 DEF TimerInv

(* The end of a creation.                                                  *)
LEMMA RememberStep ==
  ASSUME TimerAssumption, RingAssumption, TimerInv, NEW c \in Clients, Remember(c)
  PROVE  TimerInv'
  <1> DEFINE h == creating[c]
  <1>1. /\ UNCHANGED <<ringVars, kernelVars, running, owed, daemonVars>>
        /\ h # NoHandle
        /\ TIMER_CALLBACKS' = [TIMER_CALLBACKS EXCEPT ![h.slot] =
                                 IF timers[h.slot].callback THEN h ELSE NoHandle]
        /\ TIMER_NAMES' = [TIMER_NAMES EXCEPT ![h.slot] = h]
        /\ creating' = [creating EXCEPT ![c] = NoHandle]
    BY DEF Remember
  <1>2. UNCHANGED <<EXPIRED, EXPIRY_HEAD, EXPIRY_TAIL, EXPIRIES_LOST, at, serving,
                    callback, late, wait, timers, commands, parked, deadline>>
    BY <1>1 DEF ringVars, daemonVars, kernelVars
  <1>3. InOrder' = InOrder /\ InRing' = InRing /\ RingEmpty' = RingEmpty
    BY <1>2 DEF InOrder, InRing, RingEmpty
  <1>4. h \in Handles /\ h.slot \in Slots
    BY <1>1, Types, HandleParts DEF TimerInv
  <1>5. TypeOK'
    <2>1. RingOK' BY <1>2, <1>3, Types DEF RingOK, TimerInv
    <2>2. /\ TIMER_CALLBACKS' \in [Slots -> Handles \cup {NoHandle}]
          /\ TIMER_NAMES' \in [Slots -> Handles \cup {NoHandle}]
          /\ creating' \in [Clients -> Handles \cup {NoHandle}]
      BY <1>1, <1>4, Types DEF TimerInv
    <2>3. OtherTypes'
      BY <1>1, <1>2, <2>2, TypeParts DEF OtherTypes, TimerInv, Active
    <2> QED BY <2>1, <2>3, TypeParts
  <1>6. Periods' /\ Numbered' BY <1>2 DEF Periods, Numbered, TimerInv
  <1>7. /\ Making' /\ Stored'
        /\ Orders \subseteq Orders' /\ Standing \subseteq Standing'
    BY RememberOwnership DEF TimerInv, Ownership
  <1>8. Sent' BY <1>2, <1>7, SeqMonotonic DEF Sent, TimerInv, Ownership
  <1>9. Waiting' BY <1>3, <1>7, SeqMonotonic DEF Waiting, TimerInv, Ownership
  <1>10. Ownership'
    BY <1>2, <1>3, <1>7, <1>8, <1>9 DEF Ownership, Drained, Served, TimerInv
  <1>11. Schedule'
    BY <1>1, <1>2 DEF Schedule, Off, Strand, IsDue, Active, Ready, Outranks, TimerInv
  <1> QED BY <1>5, <1>6, <1>10, <1>11 DEF TimerInv

(* Posting a command.                                                      *)
LEMMA CommandStep ==
  ASSUME TimerAssumption, RingAssumption, TimerInv, NEW c \in Clients, Command(c)
  PROVE  TimerInv'
  <1>1. /\ UNCHANGED <<ringVars, timers, deadline, running>>
        /\ UNCHANGED <<at, serving, callback, late, wait>>
        /\ UNCHANGED <<TIMER_CALLBACKS, TIMER_NAMES, creating>>
    BY DEF Command, daemonVars, tableVars
  <1>2. PICK h \in Known, p \in Program[c] : xTimerGenericCommandFromTask(c, h, p)
    BY DEF Command
  <1>3. p \in Posts /\ c \in Procs /\ c # Daemon
    BY DEF TimerAssumption, Procs
  <1>4. /\ commands' \in Seq(Orders) /\ Len(commands') <= TIMER_QUEUE_LENGTH
        /\ parked' \in [Procs -> {"no", "sleep", "send", "receive"}]
        /\ owed' \in BOOLEAN /\ (owed => owed')
        /\ \A u \in Procs : Ready(u)' => Ready(u) \/ (Outranks(u) => owed')
        /\ ~Ready(Daemon)' =>
             /\ parked'[Daemon] = parked[Daemon]
             /\ parked[Daemon] = "receive" => commands' = commands
    BY <1>2, <1>3, PostEffect DEF TimerInv, Ownership
  <1>5. /\ RingOK' /\ (RingEmpty' <=> RingEmpty) /\ Active' = Active
        /\ Periods' /\ Numbered' /\ Making' /\ Stored' /\ Waiting'
        /\ Known' = Known /\ Orders' = Orders /\ Standing' = Standing
    BY <1>1, Quiet
  <1>6. TypeOK'
    <2>1. commands' \in Seq(Commands) BY <1>4, SeqMonotonic DEF Orders
    <2>2. OtherTypes' BY <1>1, <1>4, <1>5, <2>1, TypeParts DEF OtherTypes, TimerInv
    <2> QED BY <1>5, <2>2, TypeParts
  <1>7. Ownership'
    BY <1>1, <1>4, <1>5 DEF Ownership, Sent, Drained, Served, TimerInv
  <1>8. Schedule'
    <2>1. Strand' BY <1>1, <1>4, StrandKept, Types DEF TimerInv, Schedule
    <2>2. IsDue' BY <1>1, <1>5 DEF IsDue, TimerInv, Schedule
    <2>3. Off' BY <1>1, <1>4 DEF Off, Ready, TimerInv, Schedule
    <2> QED BY <2>1, <2>2, <2>3 DEF Schedule
  <1> QED BY <1>5, <1>6, <1>7, <1>8 DEF TimerInv

(* A client goes to sleep.                                                 *)
LEMMA DelayStep ==
  ASSUME TimerAssumption, RingAssumption, TimerInv, NEW c \in Clients, vTaskDelay(c)
  PROVE  TimerInv'
  <1>1. /\ UNCHANGED <<ringVars, timers, commands, deadline, running>>
        /\ UNCHANGED <<at, serving, callback, late, wait>>
        /\ UNCHANGED <<TIMER_CALLBACKS, TIMER_NAMES, creating>>
        /\ parked' = [parked EXCEPT ![c] = "sleep"] /\ owed' = TRUE
    BY DEF vTaskDelay, daemonVars, tableVars
  <1>2. c \in Procs /\ c # Daemon /\ Daemon \in Procs BY DEF TimerAssumption, Procs
  <1>3. /\ parked' \in [Procs -> {"no", "sleep", "send", "receive"}]
        /\ parked'[Daemon] = parked[Daemon]
    BY <1>1, <1>2, Types DEF TimerInv
  <1>4. /\ RingOK' /\ (RingEmpty' <=> RingEmpty) /\ Active' = Active
        /\ Periods' /\ Numbered' /\ Making' /\ Stored' /\ Waiting'
        /\ Known' = Known /\ Orders' = Orders /\ Standing' = Standing
    BY <1>1, Quiet
  <1>5. OtherTypes' BY <1>1, <1>3, <1>4, TypeParts DEF OtherTypes, TimerInv
  <1>6. TypeOK' BY <1>4, <1>5, TypeParts
  <1>7. Ownership' BY <1>1, <1>4 DEF Ownership, Sent, Drained, Served, TimerInv
  <1>8. Schedule'
    BY <1>1, <1>3, <1>4 DEF Schedule, Off, Strand, IsDue, Ready, TimerInv
  <1> QED BY <1>4, <1>6, <1>7, <1>8 DEF TimerInv

(* The switch.                                                             *)
LEMMA SwitchStep ==
  ASSUME TimerAssumption, RingAssumption, TimerInv, pick_next
  PROVE  TimerInv'
  <1>1. /\ UNCHANGED <<ringVars, timers, commands, parked, deadline>>
        /\ UNCHANGED <<at, serving, callback, late, wait>>
        /\ UNCHANGED <<TIMER_CALLBACKS, TIMER_NAMES, creating>>
        /\ owed' = FALSE
    BY DEF pick_next, kernelVars, daemonVars, tableVars
  <1>2. /\ RingOK' /\ (RingEmpty' <=> RingEmpty) /\ Active' = Active
        /\ Periods' /\ Numbered' /\ Making' /\ Stored' /\ Waiting'
        /\ Known' = Known /\ Orders' = Orders /\ Standing' = Standing
    BY <1>1, Quiet
  <1>3. \/ running' = NoTask /\ \A t \in Procs : ~Ready(t)
        \/ /\ running' \in Procs /\ Ready(running')
           /\ \A u \in Procs : Ready(u) => Prio[u] <= Prio[running']
    BY DEF pick_next
  <1>4. OtherTypes' BY <1>1, <1>2, <1>3, TypeParts DEF OtherTypes, TimerInv
  <1>5. TypeOK' BY <1>2, <1>4, TypeParts
  <1>6. Ownership' BY <1>1, <1>2 DEF Ownership, Sent, Drained, Served, TimerInv
  <1>7. NoTask \notin Procs /\ \A t \in Procs : Prio[t] \in Nat
    BY DEF TimerAssumption
  <1>8. Strand'
    <2>1. \A u \in Procs : Ready(u) => running' # NoTask /\ ~(Prio[u] > Prio[running'])
      BY <1>3, <1>7
    <2> QED BY <1>1, <2>1 DEF Strand, Outranks, Ready
  <1>9. Off'
    <2>1. ~Ready(Daemon) => running' # Daemon BY <1>3, <1>7 DEF Procs
    <2> QED BY <1>1, <2>1 DEF Off, Ready, TimerInv, Schedule
  <1>10. IsDue' BY <1>1, <1>2 DEF IsDue, TimerInv, Schedule
  <1>11. Schedule' BY <1>8, <1>9, <1>10 DEF Schedule
  <1> QED BY <1>2, <1>5, <1>6, <1>11 DEF TimerInv

(* The daemon takes the oldest expiry, or finds the ring empty.            *)
LEMMA DrainStep ==
  ASSUME TimerAssumption, RingAssumption, TimerInv, drain_timer_expiries
  PROVE  TimerInv'
  <1>1. /\ UNCHANGED <<timers, commands, parked, deadline, running, owed, late, wait>>
        /\ UNCHANGED <<TIMER_CALLBACKS, TIMER_NAMES, creating>>
        /\ running = Daemon /\ ~owed /\ at = "drain"
    BY DEF drain_timer_expiries, CanRun, kernelVars, tableVars
  <1>2. Ready(Daemon) BY <1>1 DEF TimerInv, Schedule, Off
  <1>3. Known' = Known /\ Orders' = Orders /\ Standing' = Standing
    BY <1>1, SameIdentities
  <1>4. Making' /\ Stored' BY <1>1, SameOwners DEF TimerInv, Ownership
  <1>5. Periods' /\ Numbered' /\ Active' = Active
    BY <1>1 DEF TimerInv, Periods, Numbered, Active
  <1>6. Sent' BY <1>1, <1>3 DEF Sent, TimerInv, Ownership
  <1>7. CASE RingEmpty /\ at' = "due" /\ serving' = NoHandle /\ UNCHANGED <<ringVars, callback>>
    <2>1. RingOK' /\ RingEmpty' /\ Waiting'
      BY <1>1, <1>7, Quiet
    <2>2. OtherTypes'
      BY <1>1, <1>5, <1>7, TypeParts DEF OtherTypes, TimerInv, Places
    <2>3. TypeOK' BY <2>1, <2>2, TypeParts
    <2>4. Ownership'
      BY <1>4, <1>6, <1>7, <2>1 DEF Ownership, Drained, Served
    <2>5. Schedule'
      BY <1>1, <1>2, <1>7
      DEF Schedule, Off, Strand, IsDue, Ready, Outranks, TimerInv
    <2> QED BY <1>5, <2>3, <2>4, <2>5 DEF TimerInv
  <1>8. CASE /\ TakeOldest /\ serving' = Oldest
             /\ callback' = TIMER_CALLBACKS[Oldest.slot]
             /\ at' = IF callback' = NoHandle THEN "drain" ELSE "callback"
    <2>1. /\ RingOK' /\ InOrder # <<>> /\ Head(InOrder) = Oldest /\ InOrder' = Tail(InOrder)
      BY <1>8, TakeEffect, Types DEF TimerInv
    <2>2. /\ Oldest \in Standing /\ InOrder' \in Seq(Standing)
      BY <2>1, HeadTailProperties DEF TimerInv, Ownership, Waiting
    <2>3. Oldest \in Known /\ Oldest \in Handles /\ Valid(Oldest)
      BY <2>2 DEF Standing, Known
    <2>4. callback' \in {Oldest, NoHandle}
      BY <1>8, <2>3 DEF TimerInv, Ownership, Stored
    <2>5. OtherTypes'
      BY <1>1, <1>5, <1>8, <2>3, <2>4, TypeParts DEF OtherTypes, TimerInv, Places
    <2>6. TypeOK' BY <2>1, <2>5, TypeParts
    <2>7. Ownership'
      <3>1. Served' BY <1>3, <1>8, <2>2, <2>4 DEF Served
      <3>2. Drained' BY <1>8 DEF Drained
      <3>3. Waiting' BY <1>3, <2>2 DEF Waiting
      <3> QED BY <1>4, <1>6, <3>1, <3>2, <3>3 DEF Ownership
    <2>8. Schedule'
      BY <1>1, <1>2, <1>8
      DEF Schedule, Off, Strand, IsDue, Ready, Outranks, TimerInv
    <2> QED BY <1>5, <2>6, <2>7, <2>8 DEF TimerInv
  <1> QED BY <1>7, <1>8 DEF drain_timer_expiries

(* The C's callback runs.                                                  *)
LEMMA CallbackStep ==
  ASSUME TimerAssumption, RingAssumption, TimerInv, RunCallback
  PROVE  TimerInv'
  <1>1. /\ UNCHANGED <<ringVars, timers, deadline, running, serving, late, wait>>
        /\ UNCHANGED <<TIMER_CALLBACKS, TIMER_NAMES, creating>>
        /\ running = Daemon /\ at = "callback" /\ at' = "drain" /\ callback' = NoHandle
    BY DEF RunCallback, CanRun, tableVars, AfterCallback
  <1>2. Ready(Daemon) /\ serving \in Known /\ Daemon \in Procs
    BY <1>1 DEF TimerInv, Schedule, Off, Ownership, Served, Standing, Procs
  <1>3. /\ commands' \in Seq(Orders) /\ Len(commands') <= TIMER_QUEUE_LENGTH
        /\ parked' \in [Procs -> {"no", "sleep", "send", "receive"}]
        /\ owed' \in BOOLEAN /\ (owed => owed')
        /\ \A u \in Procs : Ready(u)' => Ready(u) \/ (Outranks(u) => owed')
        /\ ~Ready(Daemon)' => parked'[Daemon] = parked[Daemon]
    <2>1. CASE UNCHANGED <<commands, parked, owed>>
      BY <2>1, Types DEF TimerInv, Ownership, Sent, Ready
    <2>2. ASSUME NEW p \in CallbackProgram, xTimerGenericCommandFromTask(Daemon, serving, p)
          PROVE  <1>3!:
      <3>1. p \in Posts /\ p.ticks = 0 BY DEF TimerAssumption
      <3> QED BY <1>2, <2>2, <3>1, PostEffect DEF TimerInv, Ownership
    <2> QED BY <2>1, <2>2 DEF RunCallback
  <1>4. /\ RingOK' /\ (RingEmpty' <=> RingEmpty) /\ Active' = Active
        /\ Periods' /\ Numbered' /\ Making' /\ Stored' /\ Waiting'
        /\ Known' = Known /\ Orders' = Orders /\ Standing' = Standing
    BY <1>1, Quiet
  <1>5. TypeOK'
    <2>1. commands' \in Seq(Commands) BY <1>3, SeqMonotonic DEF Orders
    <2>2. OtherTypes'
      BY <1>1, <1>3, <1>4, <2>1, TypeParts DEF OtherTypes, TimerInv, Places
    <2> QED BY <1>4, <2>2, TypeParts
  <1>6. Ownership' BY <1>1, <1>3, <1>4 DEF Ownership, Sent, Drained, Served
  <1>7. Schedule'
    <2>1. Strand' BY <1>1, <1>3, StrandKept, Types DEF TimerInv, Schedule
    <2>2. IsDue' BY <1>1 DEF IsDue
    <2>3. Off' BY <1>2, <1>3 DEF Off, Ready
    <2> QED BY <2>1, <2>2, <2>3 DEF Schedule
  <1> QED BY <1>4, <1>5, <1>6, <1>7 DEF TimerInv

(* The daemon looks for a timer that is due.                               *)
LEMMA SampleStep ==
  ASSUME TimerAssumption, RingAssumption, TimerInv, SampleTime
  PROVE  TimerInv'
  <1>1. /\ UNCHANGED <<ringVars, timers, commands, parked, deadline, running, owed>>
        /\ UNCHANGED <<TIMER_CALLBACKS, TIMER_NAMES, creating, serving, callback, wait>>
        /\ running = Daemon /\ ~owed /\ at = "due" /\ late' = 0
        /\ at' = IF \E s \in Active : timers[s].left <= 0 THEN "process" ELSE "wait"
    BY DEF SampleTime, CanRun, kernelVars, tableVars
  <1>2. Ready(Daemon) /\ RingEmpty
    BY <1>1 DEF TimerInv, Schedule, Off, Ownership, Drained
  <1>3. /\ RingOK' /\ (RingEmpty' <=> RingEmpty) /\ Active' = Active
        /\ Periods' /\ Numbered' /\ Making' /\ Stored' /\ Waiting'
        /\ Known' = Known /\ Orders' = Orders /\ Standing' = Standing
    BY <1>1, Quiet
  <1>4. TypeOK'
    <2>1. late' \in 0 .. MaxLate /\ at' \in Places BY <1>1 DEF TimerAssumption, Places
    <2>2. OtherTypes' BY <1>1, <1>3, <2>1, TypeParts DEF OtherTypes, TimerInv
    <2> QED BY <1>3, <2>2, TypeParts
  <1>5. Ownership'
    BY <1>1, <1>2, <1>3 DEF Ownership, Sent, Drained, Served, TimerInv
  <1>6. Schedule'
    <2>1. IsDue'
      <3> SUFFICES ASSUME at' = "process"
                   PROVE  \E s \in Active' : timers'[s].left + late' <= 0
        BY DEF IsDue
      <3>1. PICK s \in Active : timers[s].left <= 0 BY <1>1
      <3>2. timers[s].left \in Int BY Types DEF Active, TimerInv
      <3> QED BY <1>1, <1>3, <3>1, <3>2
    <2>2. Off' /\ Strand' BY <1>1, <1>2 DEF Off, Strand, Ready, Outranks, TimerInv, Schedule
    <2> QED BY <2>1, <2>2 DEF Schedule
  <1> QED BY <1>3, <1>4, <1>5, <1>6 DEF TimerInv

(* A natural number of ticks separates every timer from the furthest that  *)
(* one can be overdue, so when some timer is active one is the soonest.    *)
LEMMA SomeSoonest ==
  ASSUME TimerAssumption, TypeOK, Periods, Active # {}
  PROVE  Soonest # {}
  <1> DEFINE S == {timers[s].left + MaxOverdue : s \in Active}
  <1>1. MaxOverdue \in Nat BY DEF MaxOverdue, TimerAssumption
  <1>2. \A s \in Active : timers[s].left \in Int /\ timers[s].left >= -MaxOverdue
    BY Types DEF Periods, Active
  <1>3. S \in SUBSET Nat /\ S # {} BY <1>1, <1>2
  <1>4. PICK n \in S : \A m \in S : n <= m
    <2>1. PICK n \in S : \A m \in S : ~ (<<m, n>> \in OpToRel(<, Nat))
      BY ONLY <1>3, NatLessThanWellFounded, WFMin, Zenon
    <2>2. \A m \in S : ~ (m < n) BY <1>3, <2>1 DEF OpToRel
    <2> HIDE DEF S
    <2>3. \A m \in S : n <= m BY <1>3, <2>2
    <2> QED BY <2>3
  <1>5. PICK s \in Active : n = timers[s].left + MaxOverdue BY <1>4
  <1>6. \A u \in Active : timers[s].left <= timers[u].left
    <2> SUFFICES ASSUME NEW u \in Active PROVE timers[s].left <= timers[u].left
      OBVIOUS
    <2>1. timers[s].left + MaxOverdue <= timers[u].left + MaxOverdue BY <1>4, <1>5
    <2> QED BY <1>1, <1>2, <2>1
  <1> QED BY <1>5, <1>6 DEF Soonest

(* The daemon works out how long to wait.                                  *)
LEMMA WaitStep ==
  ASSUME TimerAssumption, RingAssumption, TimerInv, ComputeWait
  PROVE  TimerInv'
  <1>1. /\ UNCHANGED <<ringVars, timers, commands, parked, deadline, running, owed>>
        /\ UNCHANGED <<TIMER_CALLBACKS, TIMER_NAMES, creating, serving, callback, late>>
        /\ running = Daemon /\ ~owed /\ at = "wait" /\ at' = "command"
        /\ wait' = NextExpiry
    BY DEF ComputeWait, CanRun, kernelVars, tableVars
  <1>2. Ready(Daemon) /\ RingEmpty
    BY <1>1 DEF TimerInv, Schedule, Off, Ownership, Drained
  <1>3. /\ RingOK' /\ (RingEmpty' <=> RingEmpty) /\ Active' = Active
        /\ Periods' /\ Numbered' /\ Making' /\ Stored' /\ Waiting'
        /\ Known' = Known /\ Orders' = Orders /\ Standing' = Standing
    BY <1>1, Quiet
  <1>4. NextExpiry \in Nat
    <2>1. CASE Active = {} BY <2>1 DEF NextExpiry, TimerAssumption
    <2>2. CASE Active # {}
      <3> DEFINE s == CHOOSE s \in Soonest : TRUE
                 l == timers[s].left
      <3>1. s \in Soonest BY <2>2, SomeSoonest DEF TimerInv
      <3>2. l \in Int BY <3>1, Types DEF Soonest, Active, TimerInv
      <3>3. NextExpiry = IF l > 0 THEN l ELSE 0 BY <2>2 DEF NextExpiry
      <3> HIDE DEF l
      <3> QED BY <3>2, <3>3
    <2> QED BY <2>1, <2>2
  <1>5. TypeOK'
    <2>1. OtherTypes' BY <1>1, <1>3, <1>4, TypeParts DEF OtherTypes, TimerInv, Places
    <2> QED BY <1>3, <2>1, TypeParts
  <1>6. Ownership'
    BY <1>1, <1>2, <1>3 DEF Ownership, Sent, Drained, Served, TimerInv
  <1>7. Schedule'
    BY <1>1, <1>2 DEF Schedule, IsDue, Off, Strand, Ready, Outranks, TimerInv
  <1> QED BY <1>3, <1>5, <1>6, <1>7 DEF TimerInv

(* The daemon yields.                                                      *)
LEMMA YieldStep ==
  ASSUME TimerAssumption, RingAssumption, TimerInv, yield_now
  PROVE  TimerInv'
  <1>1. /\ UNCHANGED <<ringVars, timers, commands, parked, deadline, running, wait>>
        /\ UNCHANGED <<TIMER_CALLBACKS, TIMER_NAMES, creating, serving, callback, late>>
        /\ at = "yield" /\ at' = "drain" /\ owed' = TRUE
    BY DEF yield_now, kernelVars, tableVars
  <1>2. /\ RingOK' /\ (RingEmpty' <=> RingEmpty) /\ Active' = Active
        /\ Periods' /\ Numbered' /\ Making' /\ Stored' /\ Waiting'
        /\ Known' = Known /\ Orders' = Orders /\ Standing' = Standing
    BY <1>1, Quiet
  <1>3. TypeOK'
    <2>1. OtherTypes' BY <1>1, <1>2, TypeParts DEF OtherTypes, TimerInv, Places
    <2> QED BY <1>2, <2>1, TypeParts
  <1>4. Ownership' BY <1>1, <1>2 DEF Ownership, Sent, Drained, Served, TimerInv
  <1>5. Schedule' BY <1>1 DEF Schedule, IsDue, Off, Strand, Ready, TimerInv
  <1> QED BY <1>2, <1>3, <1>4, <1>5 DEF TimerInv

(* What a touched timer leaves of the invariant, after the ring was        *)
(* drained.                                                                *)
LEMMA TouchStep ==
  ASSUME TimerAssumption, RingAssumption, TimerInv, RingEmpty,
         NEW h \in Known, Touched(h),
         Valid(h) \/ UNCHANGED <<timers, ringVars>>,
         UNCHANGED <<creating, TIMER_CALLBACKS>>
  PROVE  /\ RingOK' /\ timers' \in [Slots -> TimerRecords]
         /\ \A s \in Active' : timers'[s].live
         /\ Periods' /\ Numbered' /\ Making' /\ Stored' /\ Waiting'
         /\ Known' = Known /\ Orders' = Orders
  <1>1. h \in Handles /\ h.slot \in Slots BY HandleParts DEF Known
  <1>2. RingOK'
    <2>1. CASE UNCHANGED ringVars
      <3>1. UNCHANGED <<EXPIRED, EXPIRY_HEAD, EXPIRY_TAIL, EXPIRIES_LOST>> BY <2>1 DEF ringVars
      <3>2. InRing' = InRing BY <3>1 DEF InRing
      <3> QED BY <3>1, <3>2, Types DEF RingOK, TimerInv
    <2> QED BY <2>1 DEF Touched
  <1>3. timers' \in [Slots -> TimerRecords] /\ Periods' BY DEF Touched
  <1>4. \A s \in Slots : (timers'[s].active => timers'[s].live)
    BY <1>1, Types DEF Touched, TimerInv, Active
  <1>5. Numbered' BY <1>1 DEF Touched, Numbered, TimerInv
  <1>6. Making' /\ Stored' /\ Waiting' /\ Known' = Known /\ Orders' = Orders
    BY TouchOwnership DEF TimerInv
  <1> QED BY <1>2, <1>3, <1>4, <1>5, <1>6 DEF Active

(* The daemon lets a timer expire.                                         *)
LEMMA ProcessStep ==
  ASSUME TimerAssumption, RingAssumption, TimerInv, process_expired_timer
  PROVE  TimerInv'
  <1>1. /\ UNCHANGED <<commands, parked, deadline, running, owed, wait>>
        /\ UNCHANGED <<TIMER_CALLBACKS, TIMER_NAMES, creating, serving, callback>>
        /\ running = Daemon /\ ~owed /\ at = "process" /\ at' = "drain" /\ late' = 0
    BY DEF process_expired_timer, CanRun, tableVars, AfterExpiry
  <1>2. Ready(Daemon) /\ RingEmpty
    BY <1>1 DEF TimerInv, Schedule, Off, Ownership, Drained
  <1>3. PICK s \in Soonest : Expire(s, timers[s], timers[s].left + late)
    BY DEF process_expired_timer
  <1>4. PICK h \in Handles : h = HandleOf(s) /\ Touched(h)
    BY <1>1, <1>3, ProcessTouches DEF TimerInv, Schedule
  <1>5. s \in Slots /\ timers[s].active /\ timers[s].live /\ timers[s].gen \in Nat
    BY <1>3, Types DEF Soonest, Active, TimerInv
  <1>6. Valid(h) /\ h.slot = s /\ h.gen = timers[s].gen
    BY <1>4, <1>5 DEF HandleOf, Valid
  <1>7. h \in Known
    <2>1. \A c \in Clients : creating[c] # h
      <3> SUFFICES ASSUME NEW c \in Clients, creating[c] = h PROVE FALSE OBVIOUS
      <3>1. creating[c] # NoHandle BY <1>4 DEF RingAssumption
      <3> QED BY <1>5, <1>6, <3>1 DEF TimerInv, Ownership, Making
    <2> QED BY <1>5, <1>6, <2>1 DEF Known
  <1>8. /\ RingOK' /\ timers' \in [Slots -> TimerRecords]
        /\ \A u \in Active' : timers'[u].live
        /\ Periods' /\ Numbered' /\ Making' /\ Stored' /\ Waiting'
        /\ Known' = Known /\ Orders' = Orders
    BY <1>1, <1>2, <1>4, <1>6, <1>7, TouchStep
  <1>9. TypeOK'
    <2>1. late' \in 0 .. MaxLate BY <1>1 DEF TimerAssumption
    <2>2. OtherTypes' BY <1>1, <1>8, <2>1, TypeParts DEF OtherTypes, TimerInv, Places
    <2> QED BY <1>8, <2>2, TypeParts
  <1>10. Ownership' BY <1>1, <1>8 DEF Ownership, Sent, Drained, Served, TimerInv
  <1>11. Schedule'
    BY <1>1, <1>2 DEF Schedule, IsDue, Off, Strand, Ready, Outranks, TimerInv
  <1> QED BY <1>8, <1>9, <1>10, <1>11 DEF TimerInv

(* Taking a command lets at most one client go on.                         *)
LEMMA WakeEffect ==
  ASSUME TimerAssumption, TypeOK, WakeSender
  PROVE  /\ parked' \in [Procs -> {"no", "sleep", "send", "receive"}]
         /\ parked'[Daemon] = parked[Daemon]
         /\ owed' \in BOOLEAN /\ (owed => owed')
         /\ \A u \in Procs : Ready(u)' => Ready(u) \/ (Outranks(u) => owed')
  <1>1. /\ parked \in [Procs -> {"no", "sleep", "send", "receive"}] /\ owed \in BOOLEAN
        /\ Daemon \in Procs
    BY Types DEF Procs
  <1>2. CASE UNCHANGED <<parked, owed>> BY <1>1, <1>2 DEF Ready
  <1>3. ASSUME NEW c \in Clients,
               parked' = [parked EXCEPT ![c] = "no"], owed' = (owed \/ Outranks(c))
        PROVE  /\ parked' \in [Procs -> {"no", "sleep", "send", "receive"}]
               /\ parked'[Daemon] = parked[Daemon]
               /\ owed' \in BOOLEAN /\ (owed => owed')
               /\ \A u \in Procs : Ready(u)' => Ready(u) \/ (Outranks(u) => owed')
    <2>1. c \in Procs /\ c # Daemon BY DEF TimerAssumption, Procs
    <2>2. /\ parked' \in [Procs -> {"no", "sleep", "send", "receive"}]
          /\ \A u \in Procs : u # c => parked'[u] = parked[u]
      BY <1>1, <1>3, <2>1
    <2>3. owed' \in BOOLEAN /\ (owed => owed') /\ (Outranks(c) => owed')
      BY <1>1, <1>3 DEF Outranks
    <2> QED BY <1>1, <2>1, <2>2, <2>3 DEF Ready
  <1> QED BY <1>2, <1>3 DEF WakeSender

(* The daemon takes a command, waits for one, or goes round.               *)
LEMMA TakeStep ==
  ASSUME TimerAssumption, RingAssumption, TimerInv, process_one_timer_command
  PROVE  TimerInv'
  <1>1. /\ UNCHANGED <<running, serving, callback, late>>
        /\ UNCHANGED <<TIMER_CALLBACKS, TIMER_NAMES, creating>>
        /\ running = Daemon /\ ~owed /\ at = "command" /\ wait' = 0
    BY DEF process_one_timer_command, CanRun, tableVars
  <1>2. Ready(Daemon) /\ RingEmpty
    BY <1>1 DEF TimerInv, Schedule, Off, Ownership, Drained
  <1>3. Daemon \in Procs /\ deadline \in Nat \cup {NoWait} /\ wait \in Nat
    BY Types DEF Procs, TimerInv
  <1>4. CASE /\ commands # <<>> /\ Obey(Head(commands)) /\ commands' = Tail(commands)
             /\ WakeSender /\ deadline' = NoWait /\ at' = AfterCommand
    <2> DEFINE c == Head(commands)
               h == c.timer
    <2>1. /\ c \in Orders /\ commands' \in Seq(Orders)
          /\ Len(commands') <= TIMER_QUEUE_LENGTH
      <3>1. commands \in Seq(Orders) BY DEF TimerInv, Ownership, Sent
      <3>2. c \in Orders /\ commands' \in Seq(Orders) /\ Len(commands') = Len(commands) - 1
        BY <1>4, <3>1, HeadTailProperties
      <3>3. Len(commands) \in Nat /\ Len(commands) <= TIMER_QUEUE_LENGTH
            /\ TIMER_QUEUE_LENGTH \in Nat
        BY <3>1, LenProperties, Types DEF TimerInv, TimerAssumption
      <3> QED BY <3>2, <3>3
    <2>2. c \in Commands /\ h \in Known /\ (c.op = "change_period" => c.value # 0)
      BY <2>1 DEF Orders
    <2>3. Obey(c) BY <1>4
    <2> HIDE DEF c
    <2>4. Touched(h) /\ (~Valid(h) => UNCHANGED <<timers, ringVars>>)
      BY <2>2, <2>3, ObeyTouches DEF TimerInv
    <2> HIDE DEF h
    <2>5. /\ RingOK' /\ timers' \in [Slots -> TimerRecords]
          /\ \A s \in Active' : timers'[s].live
          /\ Periods' /\ Numbered' /\ Making' /\ Stored' /\ Waiting'
          /\ Known' = Known /\ Orders' = Orders
      BY <1>1, <1>2, <2>2, <2>4, TouchStep
    <2>6. /\ parked' \in [Procs -> {"no", "sleep", "send", "receive"}]
          /\ parked'[Daemon] = parked[Daemon]
          /\ owed' \in BOOLEAN /\ (owed => owed')
          /\ \A u \in Procs : Ready(u)' => Ready(u) \/ (Outranks(u) => owed')
      BY <1>4, WakeEffect DEF TimerInv
    <2>7. at' = "drain" /\ deadline' = NoWait BY <1>4 DEF AfterCommand
    <2>8. TypeOK'
      <3>1. commands' \in Seq(Commands) BY <2>1, SeqMonotonic DEF Orders
      <3>2. OtherTypes'
        BY <1>1, <2>1, <2>5, <2>6, <2>7, <3>1, TypeParts
        DEF OtherTypes, TimerInv, Places
      <3> QED BY <2>5, <3>2, TypeParts
    <2>9. Ownership'
      BY <1>1, <2>1, <2>5, <2>7 DEF Ownership, Sent, Drained, Served
    <2>10. Schedule'
      <3>1. Strand' BY <1>1, <2>6, StrandKept, Types DEF TimerInv, Schedule
      <3> QED BY <1>2, <2>6, <2>7, <3>1 DEF Schedule, IsDue, Off, Ready
    <2> QED BY <2>5, <2>8, <2>9, <2>10 DEF TimerInv
  <1>5. ASSUME UNCHANGED <<ringVars, timers, commands, owed>>, commands = <<>>,
               parked' \in {parked, OnTheQueue}, deadline' \in {NoWait, wait, deadline},
               at' = "yield"
        PROVE  TimerInv'
    <2>1. /\ RingOK' /\ (RingEmpty' <=> RingEmpty) /\ Active' = Active
          /\ Periods' /\ Numbered' /\ Making' /\ Stored' /\ Waiting'
          /\ Known' = Known /\ Orders' = Orders /\ Standing' = Standing
      BY <1>1, <1>5, Quiet
    <2>2. /\ parked' \in [Procs -> {"no", "sleep", "send", "receive"}]
          /\ parked'[Daemon] \in {"no", "receive"}
          /\ \A u \in Procs : Ready(u)' => Ready(u)
      BY <1>2, <1>3, <1>5, Types DEF OnTheQueue, Ready, TimerInv
    <2>3. OtherTypes'
      BY <1>1, <1>3, <1>5, <2>1, <2>2, TypeParts DEF OtherTypes, TimerInv, Places
    <2>4. TypeOK' BY <2>1, <2>3, TypeParts
    <2>5. Ownership' BY <1>1, <1>2, <1>5, <2>1 DEF Ownership, Sent, Drained, Served, TimerInv
    <2>6. Schedule'
      <3>1. Strand' BY <1>1, <1>5, <2>2, StrandKept, Types DEF TimerInv, Schedule
      <3> QED BY <1>5, <2>2, <3>1 DEF Schedule, IsDue, Off, Ready
    <2> QED BY <2>1, <2>4, <2>5, <2>6 DEF TimerInv
  <1>6. CASE /\ commands = <<>> /\ parked' = OnTheQueue
             /\ deadline' = IF deadline = NoWait THEN wait ELSE deadline
             /\ at' = "yield" /\ UNCHANGED <<ringVars, timers, commands, owed>>
    BY <1>5, <1>6
  <1>7. CASE /\ commands = <<>> /\ deadline' = NoWait /\ at' = "yield"
             /\ UNCHANGED <<ringVars, timers, commands, parked, owed>>
    BY <1>5, <1>7
  <1> QED BY <1>4, <1>6, <1>7 DEF process_one_timer_command

(* What a tick does to the timers.                                         *)
LEMMA TickPasses ==
  ASSUME TimerAssumption, TypeOK, Periods,
         timers' = [s \in Slots |->
           IF timers[s].active THEN [timers[s] EXCEPT !.left = Passed(@)] ELSE timers[s]]
  PROVE  /\ timers' \in [Slots -> TimerRecords] /\ Periods'
         /\ \A s \in Slots : /\ timers'[s].gen = timers[s].gen
                             /\ timers'[s].live = timers[s].live
                             /\ timers'[s].active = timers[s].active
                             /\ timers[s].active => timers'[s].left = Passed(timers[s].left)
  <1>1. ASSUME NEW s \in Slots
        PROVE  /\ timers'[s] \in TimerRecords
               /\ timers'[s].period # 0 /\ timers'[s].left >= -MaxOverdue
               /\ timers'[s].gen = timers[s].gen
               /\ timers'[s].live = timers[s].live
               /\ timers'[s].active = timers[s].active
               /\ timers[s].active => timers'[s].left = Passed(timers[s].left)
    <2>1. /\ timers[s] \in TimerRecords /\ timers[s].left \in Int
          /\ timers[s].period # 0 /\ timers[s].left >= -MaxOverdue
      BY <1>1, Types DEF Periods
    <2>2. CASE timers[s].active
      <3> DEFINE l == Passed(timers[s].left)
                 r == [timers[s] EXCEPT !.left = l]
      <3>1. l \in Int /\ l >= -MaxOverdue
        <4>1. MaxOverdue \in Nat BY DEF MaxOverdue, TimerAssumption
        <4> QED BY <2>1, <4>1 DEF Passed
      <3>2. timers'[s] = r BY <1>1, <2>2
      <3> HIDE DEF l
      <3>3. r \in TimerRecords
        <4>1. TRUE \in BOOLEAN /\ 0 \in Nat OBVIOUS
        <4> QED BY <2>1, <3>1, <4>1, TimerChanged, Zenon
      <3>4. /\ r.gen = timers[s].gen /\ r.live = timers[s].live
            /\ r.active = timers[s].active /\ r.period = timers[s].period /\ r.left = l
        BY <2>1 DEF TimerRecords
      <3> HIDE DEF r
      <3> QED BY <2>1, <3>1, <3>2, <3>3, <3>4 DEF l
    <2>3. CASE ~timers[s].active BY <1>1, <2>1, <2>3
    <2> QED BY <2>2, <2>3
  <1>2. timers' \in [Slots -> TimerRecords]
    <2>1. \A s \in Slots :
            (IF timers[s].active THEN [timers[s] EXCEPT !.left = Passed(@)] ELSE timers[s])
              \in TimerRecords
      BY <1>1
    <2> QED BY <2>1, Zenon
  <1> QED BY <1>1, <1>2 DEF Periods

(* A tick, and what an interrupt half does during it.                      *)
LEMMA TickStep ==
  ASSUME TimerAssumption, RingAssumption, TimerInv, on_tick
  PROVE  TimerInv'
  <1>1. /\ UNCHANGED <<ringVars, running, at, serving, callback, wait>>
        /\ UNCHANGED <<TIMER_CALLBACKS, TIMER_NAMES, creating>>
        /\ Ready(Daemon) => ~OverdueBy(MaxLate) /\ late < MaxLate
        /\ timers' = [s \in Slots |->
             IF timers[s].active THEN [timers[s] EXCEPT !.left = Passed(@)] ELSE timers[s]]
        /\ late' = IF at = "process" THEN late + 1 ELSE late
        /\ deadline' = IF deadline > 0 THEN deadline - 1 ELSE deadline
    BY DEF on_tick, tableVars
  <1>2. UNCHANGED <<EXPIRED, EXPIRY_HEAD, EXPIRY_TAIL, EXPIRIES_LOST>>
    BY <1>1 DEF ringVars
  <1>3. InOrder' = InOrder /\ InRing' = InRing /\ RingEmpty' = RingEmpty
    BY <1>2 DEF InOrder, InRing, RingEmpty
  <1>4. /\ timers' \in [Slots -> TimerRecords] /\ Periods'
        /\ \A s \in Slots : /\ timers'[s].gen = timers[s].gen
                            /\ timers'[s].live = timers[s].live
                            /\ timers'[s].active = timers[s].active
                            /\ timers[s].active => timers'[s].left = Passed(timers[s].left)
    BY <1>1, TickPasses DEF TimerInv
  <1>5. Known' = Known /\ Orders' = Orders /\ Standing' = Standing
    BY <1>1, <1>4, SameIdentities
  <1>6. Making' /\ Stored' BY <1>1, <1>4, SameOwners DEF TimerInv, Ownership
  <1>7. Active' = Active /\ Numbered' BY <1>4 DEF Active, Numbered, TimerInv
  <1>8. Daemon \in Procs /\ (at = "process" => Ready(Daemon))
    BY DEF TimerInv, Schedule, Off, Procs
  <1>9. late' \in 0 .. MaxLate
    <2>1. late \in 0 .. MaxLate /\ MaxLate \in Nat BY Types DEF TimerInv, TimerAssumption
    <2>2. CASE at = "process"
      <3>1. late < MaxLate BY <1>1, <2>2 DEF TimerInv, Schedule, Off
      <3> QED BY <1>1, <2>1, <2>2, <3>1
    <2> QED BY <1>1, <2>1, <2>2
  <1>10. deadline' \in Nat \cup {NoWait}
    <2>1. deadline \in Nat \cup {NoWait} BY Types DEF TimerInv
    <2> QED BY <1>1, <2>1 DEF NoWait
  <1>11. PICK woken \in SUBSET {c \in Clients : ~Ready(c)}, posted \in BOOLEAN :
         LET wakes == woken \cup (IF ~Ready(Daemon) /\ (deadline = 1 \/ (posted /\ DaemonWaits))
                                  THEN {Daemon} ELSE {})
         IN  /\ \/ ~posted /\ UNCHANGED commands
                \/ /\ posted
                   /\ \E h \in Known : \E p \in IsrProgram :
                        /\ Valid(h)
                        /\ Put([op |-> p.op, value |-> p.value, timer |-> h])
             /\ parked' = [t \in Procs |-> IF t \in wakes THEN "no" ELSE parked[t]]
             /\ owed' = (owed \/ \E t \in wakes : Outranks(t))
    BY DEF on_tick
  <1> DEFINE wakes == woken \cup (IF ~Ready(Daemon) /\ (deadline = 1 \/ (posted /\ DaemonWaits))
                                  THEN {Daemon} ELSE {})
  <1>12. /\ wakes \subseteq Procs
         /\ posted /\ DaemonWaits /\ ~Ready(Daemon) => Daemon \in wakes
    BY DEF Procs
  <1>13. /\ \/ ~posted /\ UNCHANGED commands
            \/ /\ posted
               /\ \E h \in Known : \E p \in IsrProgram :
                    Put([op |-> p.op, value |-> p.value, timer |-> h])
         /\ parked' = [t \in Procs |-> IF t \in wakes THEN "no" ELSE parked[t]]
         /\ owed' = (owed \/ \E t \in wakes : Outranks(t))
    BY <1>11
  <1> HIDE DEF wakes
  <1>14. /\ parked \in [Procs -> {"no", "sleep", "send", "receive"}] /\ owed \in BOOLEAN
         /\ commands \in Seq(Orders) /\ Len(commands) <= TIMER_QUEUE_LENGTH
         /\ TIMER_QUEUE_LENGTH \in Nat
    BY Types DEF TimerInv, Ownership, Sent, TimerAssumption
  <1>15. commands' \in Seq(Orders) /\ Len(commands') <= TIMER_QUEUE_LENGTH
    <2>1. CASE UNCHANGED commands BY <1>14, <2>1
    <2>2. ASSUME NEW h \in Known, NEW p \in IsrProgram,
                 Put([op |-> p.op, value |-> p.value, timer |-> h])
          PROVE  <1>15!:
      <3> DEFINE order == [op |-> p.op, value |-> p.value, timer |-> h]
      <3>1. p \in Posts /\ h \in Handles BY DEF TimerAssumption, Known
      <3>2. order \in Commands /\ (order.op = "change_period" => order.value # 0)
        BY <3>1 DEF Posts, Commands
      <3>3. order \in Orders BY <3>2 DEF Orders
      <3>4. commands' = Append(commands, order) /\ Len(commands) < TIMER_QUEUE_LENGTH
        BY <2>2 DEF Put
      <3> HIDE DEF order
      <3>5. commands' \in Seq(Orders) /\ Len(commands') = Len(commands) + 1
        BY <1>14, <3>3, <3>4, AppendProperties
      <3>6. Len(commands) \in Nat BY <1>14, LenProperties
      <3> QED BY <1>14, <3>4, <3>5, <3>6
    <2> QED BY <1>13, <2>1, <2>2
  <1>16. /\ parked' \in [Procs -> {"no", "sleep", "send", "receive"}]
         /\ \A u \in Procs : parked'[u] = IF u \in wakes THEN "no" ELSE parked[u]
         /\ owed' \in BOOLEAN /\ (owed => owed')
         /\ \A u \in wakes : Outranks(u) => owed'
    BY <1>13, <1>14
  <1>17. TypeOK'
    <2>1. RingOK' BY <1>2, <1>3, Types DEF RingOK, TimerInv
    <2>2. commands' \in Seq(Commands) BY <1>15, SeqMonotonic DEF Orders
    <2>3. \A s \in Active' : timers'[s].live BY <1>4, <1>7, Types DEF TimerInv, Active
    <2>4. OtherTypes'
      BY <1>1, <1>4, <1>9, <1>10, <1>15, <1>16, <2>2, <2>3, TypeParts
      DEF OtherTypes, TimerInv
    <2> QED BY <2>1, <2>4, TypeParts
  <1>18. Ownership'
    BY <1>1, <1>3, <1>5, <1>6, <1>15
    DEF Ownership, Sent, Waiting, Drained, Served, TimerInv
  <1>19. Strand'
    <2>1. \A u \in Procs : Ready(u)' => Ready(u) \/ (Outranks(u) => owed')
      BY <1>16 DEF Ready
    <2> QED BY <1>1, <1>14, <1>16, <2>1, StrandKept DEF TimerInv, Schedule
  <1>20. Off'
    <2> SUFFICES ASSUME ~Ready(Daemon)'
                 PROVE  /\ parked'[Daemon] = "receive" /\ commands' = <<>>
                        /\ \/ at = "yield"
                           \/ at = "drain" /\ (owed' \/ running # Daemon)
      BY <1>1 DEF Off
    <2>1. Daemon \notin wakes /\ parked'[Daemon] = parked[Daemon] /\ ~Ready(Daemon)
      BY <1>8, <1>16 DEF Ready
    <2>2. /\ parked[Daemon] = "receive" /\ commands = <<>>
          /\ at = "yield" \/ (at = "drain" /\ (owed \/ running # Daemon))
      BY <2>1 DEF TimerInv, Schedule, Off
    <2>3. ~posted BY <1>12, <2>1, <2>2 DEF DaemonWaits
    <2> QED BY <1>13, <1>16, <2>1, <2>2, <2>3
  <1>21. IsDue'
    <2> SUFFICES ASSUME at = "process"
                 PROVE  \E s \in Active' : timers'[s].left + late' <= 0
      BY <1>1 DEF IsDue
    <2>1. PICK s \in Active : timers[s].left + late <= 0 BY DEF IsDue, TimerInv, Schedule
    <2>2. s \in Slots /\ timers[s].active /\ timers[s].left \in Int
      BY Types DEF Active, TimerInv
    <2>3. ~OverdueBy(MaxLate) BY <1>1, <1>8
    <2>4. MaxLate \in Nat /\ MaxOverdue \in Nat /\ MaxOverdue >= MaxLate /\ late \in Int
      BY Types DEF MaxOverdue, TimerAssumption, TimerInv
    <2>5. timers[s].left > -MaxLate BY <2>2, <2>3, <2>4 DEF OverdueBy
    <2>6. Passed(timers[s].left) = timers[s].left - 1
      BY <2>2, <2>4, <2>5 DEF Passed
    <2>7. timers'[s].left = timers[s].left - 1 /\ late' = late + 1
      BY <1>1, <1>4, <2>2, <2>6
    <2> QED BY <1>7, <2>1, <2>2, <2>4, <2>7
  <1> QED BY <1>4, <1>7, <1>17, <1>18, <1>19, <1>20, <1>21 DEF TimerInv, Schedule

-----------------------------------------------------------------------------
(* The invariant holds, and with it the type invariant.                    *)

(* The first state.                                                        *)
LEMMA InitOK ==
  ASSUME TimerAssumption, RingAssumption, Init
  PROVE  TimerInv
  <1>1. /\ RingInit /\ timers = [s \in Slots |-> Unused(0)] /\ commands = <<>>
        /\ parked = [t \in Procs |-> "no"] /\ deadline = NoWait
        /\ running \in Procs /\ \A u \in Procs : Prio[u] <= Prio[running]
        /\ owed = FALSE
        /\ TIMER_CALLBACKS = [s \in Slots |-> NoHandle]
        /\ TIMER_NAMES = [s \in Slots |-> NoHandle]
        /\ creating = [c \in Clients |-> NoHandle]
        /\ at = "drain" /\ serving = NoHandle /\ callback = NoHandle
        /\ late = 0 /\ wait = 0
    BY DEF Init
  <1>2. /\ MaxLate \in Nat /\ MaxOverdue \in Nat /\ TIMER_QUEUE_LENGTH \in Nat
        /\ MaxGen \in [Slots -> Nat]
    BY DEF TimerAssumption, MaxOverdue
  <1>3. Unused(0) \in TimerRecords /\ ~Unused(0).active /\ ~Unused(0).live
        /\ Unused(0).period # 0 /\ Unused(0).left = 0 /\ Unused(0).gen = 0
    BY DEF Unused, TimerRecords
  <1>4. RingEmpty /\ RingOK
    <2>1. EXPIRY_RING \in Nat /\ Wrap \in Nat /\ Wrap > EXPIRY_RING BY DEF RingAssumption
    <2>2. InRing = 0
      <3>1. (0 + Wrap) - 0 = Wrap * 1 + 0 BY <2>1
      <3>2. ((0 + Wrap) - 0) % Wrap = 0 BY <2>1, <3>1, RemainderIs
      <3> QED BY <1>1, <3>2 DEF RingInit, InRing
    <2>3. EXPIRED \in [Cells -> Handles \cup {NoHandle}] BY <1>1 DEF RingInit
    <2>4. EXPIRY_HEAD \in 0 .. Wrap - 1 /\ EXPIRY_TAIL \in 0 .. Wrap - 1
      BY <1>1, <2>1 DEF RingInit
    <2>5. EXPIRIES_LOST \in BOOLEAN BY <1>1, Zenon DEF RingInit
    <2>6. RingOK BY <2>1, <2>2, <2>3, <2>4, <2>5 DEF RingOK
    <2> QED BY <1>1, <2>6 DEF RingInit, RingEmpty
  <1>5. \A s \in Slots : timers[s] = Unused(0) BY <1>1
  <1>6. Active = {} BY <1>3, <1>5 DEF Active
  <1>7. TypeOK
    <2>1. <<>> \in Seq(Commands) /\ Len(<<>>) = 0 BY EmptySeq
    <2>2. timers \in [Slots -> TimerRecords] BY <1>1, <1>3
    <2>3. parked \in [Procs -> {"no", "sleep", "send", "receive"}] /\ at \in Places
      BY <1>1 DEF Places
    <2>4. /\ TIMER_CALLBACKS \in [Slots -> Handles \cup {NoHandle}]
          /\ TIMER_NAMES \in [Slots -> Handles \cup {NoHandle}]
          /\ creating \in [Clients -> Handles \cup {NoHandle}]
      BY <1>1
    <2>5. owed \in BOOLEAN BY <1>1, Zenon
    <2>6. late \in 0 .. MaxLate /\ wait \in Nat BY <1>1, <1>2
    <2>7. OtherTypes
      BY <1>1, <1>2, <1>6, <2>1, <2>2, <2>3, <2>4, <2>5, <2>6 DEF OtherTypes
    <2> QED BY <1>4, <2>7, TypeParts
  <1>8. Periods /\ Numbered BY <1>2, <1>3, <1>5 DEF Periods, Numbered
  <1>9. Ownership
    <2>1. \A h \in Handles : ~Valid(h) BY <1>3, <1>5, HandleParts DEF Valid
    <2>2. Making /\ Sent /\ Drained /\ Served
      BY <1>1, EmptySeq DEF Making, Sent, Drained, Served
    <2>3. Stored BY <2>1 DEF Stored, Known
    <2>4. Waiting BY <1>4, EmptyOfAny DEF Waiting
    <2> QED BY <2>2, <2>3, <2>4 DEF Ownership
  <1>10. Schedule
    <2>1. \A t \in Procs : Ready(t) BY <1>1 DEF Ready
    <2>2. Strand
      <3>1. NoTask \notin Procs /\ \A t \in Procs : Prio[t] \in Nat BY DEF TimerAssumption
      <3> QED BY <1>1, <3>1 DEF Strand, Outranks
    <2>3. Off /\ IsDue BY <1>1, <2>1 DEF Off, IsDue, Procs
    <2> QED BY <2>2, <2>3 DEF Schedule
  <1> QED BY <1>7, <1>8, <1>9, <1>10 DEF TimerInv

(* A step in which nothing happens.                                        *)
LEMMA StutterStep ==
  ASSUME TimerAssumption, RingAssumption, TimerInv, UNCHANGED vars
  PROVE  TimerInv'
  <1>1. /\ UNCHANGED <<ringVars, timers, commands, parked, deadline, running, owed>>
        /\ UNCHANGED <<TIMER_CALLBACKS, TIMER_NAMES, creating>>
        /\ UNCHANGED <<at, serving, callback, late, wait>>
    BY DEF vars, kernelVars, daemonVars, tableVars
  <1>2. /\ RingOK' /\ (RingEmpty' <=> RingEmpty) /\ Active' = Active
        /\ Periods' /\ Numbered' /\ Making' /\ Stored' /\ Waiting'
        /\ Known' = Known /\ Orders' = Orders /\ Standing' = Standing
    BY <1>1, Quiet
  <1>3. OtherTypes' BY <1>1, <1>2, TypeParts DEF OtherTypes, TimerInv
  <1>4. TypeOK' BY <1>2, <1>3, TypeParts
  <1>5. Ownership' BY <1>1, <1>2 DEF Ownership, Sent, Drained, Served, TimerInv
  <1>6. Schedule'
    BY <1>1, <1>2 DEF Schedule, IsDue, Off, Strand, Ready, Outranks, TimerInv
  <1> QED BY <1>2, <1>4, <1>5, <1>6 DEF TimerInv

(* The invariant of the timer daemon: what every handle, command, expiry   *)
(* and stored callback is about, and where the daemon may be while it      *)
(* waits.  It holds in every state that can be reached, for every set of   *)
(* timers and tasks.                                                       *)
THEOREM TimerInvariant == Spec => []TimerInv
  <1>1. TimerAssumption /\ RingAssumption BY TimerAssumption, RingAssumption
  <1>2. Init => TimerInv BY <1>1, InitOK
  <1>3. TimerInv /\ [Next]_vars => TimerInv'
    <2> SUFFICES ASSUME TimerInv, [Next]_vars PROVE TimerInv'
      OBVIOUS
    <2>1. ASSUME NEW c \in Clients, Client(c) PROVE TimerInv'
      BY <1>1, <2>1, CreateStep, RememberStep, CommandStep, DelayStep DEF Client
    <2>2. CASE timer_daemon
      BY <1>1, <2>2, DrainStep, CallbackStep, SampleStep, ProcessStep, WaitStep,
         TakeStep, YieldStep DEF timer_daemon
    <2>3. CASE pick_next BY <1>1, <2>3, SwitchStep
    <2>4. CASE on_tick BY <1>1, <2>4, TickStep
    <2>5. CASE UNCHANGED vars BY <1>1, <2>5, StutterStep
    <2> QED BY <2>1, <2>2, <2>3, <2>4, <2>5 DEF Next
  <1> QED BY <1>2, <1>3, PTL DEF Spec

(* Every variable keeps to its range, and no dead timer is active.         *)
THEOREM TimerTypes == Spec => []TypeOK
  <1>1. TimerInv => TypeOK BY DEF TimerInv
  <1> QED BY <1>1, TimerInvariant, PTL

(* A callback the daemon is about to run is the one stored for the very    *)
(* timer whose handle it gets, and that timer still exists.                *)
THEOREM OwnCallback == Spec => []CallbackOwnsItsHandle
  <1>1. TimerInv => CallbackOwnsItsHandle
    BY DEF TimerInv, Ownership, Served, Standing, CallbackOwnsItsHandle
  <1> QED BY <1>1, TimerInvariant, PTL

(* When a task below the daemon has the CPU, no command is left unobeyed:  *)
(* the daemon is then off the CPU, and not for want of priority, so it     *)
(* waits, and it waits on an empty queue only.                             *)
THEOREM ActAtOnce == Spec => []CommandsActAtOnce
  <1>1. TimerInv => CommandsActAtOnce
    <2> SUFFICES ASSUME TimerInv, NEW c \in Clients, CanRun(c), Prio[c] < Prio[Daemon]
                 PROVE  commands = <<>>
      BY DEF CommandsActAtOnce
    <2>1. Daemon \in Procs BY DEF Procs
    <2>2. Outranks(Daemon) /\ ~owed BY DEF Outranks, CanRun
    <2>3. ~Ready(Daemon) BY <2>1, <2>2 DEF TimerInv, Schedule, Strand
    <2> QED BY <2>3 DEF TimerInv, Schedule, Off
  <1> QED BY <1>1, TimerInvariant, PTL

-----------------------------------------------------------------------------
(* The ring's promise to the C.                                            *)

(* Expiries are recorded by a whole number of periods, at least one.       *)
Recording == \E h \in Handles : \E n \in Nat \ {0} : note_timer_expiry(h, n)

(* What an expiry does to the ring.                                        *)
LEMMA ExpireRecords ==
  ASSUME NEW s \in Slots, HandleOf(s) \in Handles,
         NEW r \in TimerRecords, r.period # 0, NEW l \in Int, l <= 0, Expire(s, r, l)
  PROVE  Recording
  <1>1. Missed(r, l) \in Nat \ {0} BY MissedSome
  <1>2. note_timer_expiry(HandleOf(s), Missed(r, l)) BY DEF Expire
  <1> QED BY <1>1, <1>2 DEF Recording

(* What starting a timer does to the ring.                                 *)
LEMMA BeginRecords ==
  ASSUME TimerAssumption, TypeOK,
         NEW s \in Slots, HandleOf(s) \in Handles, NEW p \in Nat, p # 0, Begin(s, p)
  PROVE  UNCHANGED ringVars \/ Recording
  <1>1. PICK age \in 0 .. MaxLate :
          LET timer == [timers[s] EXCEPT !.active = TRUE, !.period = p, !.left = p - age]
          IN  IF timer.left > 0
                THEN timers' = [timers EXCEPT ![s] = timer] /\ UNCHANGED ringVars
                ELSE Expire(s, timer, timer.left)
    BY DEF Begin
  <1> DEFINE l == p - age
             r == [timers[s] EXCEPT !.active = TRUE, !.period = p, !.left = l]
  <1>2. l \in Int BY DEF TimerAssumption
  <1>3. timers[s] \in TimerRecords /\ TRUE \in BOOLEAN BY Types
  <1> HIDE DEF l
  <1>4. r \in TimerRecords BY <1>2, <1>3, TimerChanged, Zenon
  <1>5. r.period = p /\ r.left = l BY <1>3 DEF TimerRecords
  <1> HIDE DEF r
  <1>6. UNCHANGED ringVars \/ (~(r.left > 0) /\ Expire(s, r, r.left))
    BY <1>1 DEF r, l
  <1>7. ASSUME ~(r.left > 0), Expire(s, r, r.left) PROVE Recording
    <2>1. Expire(s, r, l) /\ l <= 0 BY <1>2, <1>5, <1>7
    <2> QED BY <1>2, <1>4, <1>5, <2>1, ExpireRecords
  <1> QED BY <1>6, <1>7

(* What a command does to the ring.                                        *)
LEMMA ObeyRecords ==
  ASSUME TimerAssumption, TypeOK, Periods, NEW c \in Orders, Obey(c)
  PROVE  UNCHANGED ringVars \/ Recording
  <1> DEFINE h == c.timer
             s == h.slot
  <1>1. /\ h \in Handles /\ s \in Slots /\ h = [slot |-> s, gen |-> h.gen]
        /\ c.value \in Nat /\ (c.op = "change_period" => c.value # 0)
    BY HandleParts DEF Orders, Commands
  <1>2. Valid(h) => HandleOf(s) \in Handles BY <1>1 DEF Valid, HandleOf
  <1>3. timers[s].period \in Nat /\ timers[s].period # 0 BY <1>1, Types DEF Periods
  <1>4. CASE Valid(h) /\ Begin(s, timers[s].period)
    <2> DEFINE p == timers[s].period
    <2>1. p # 0 /\ p \in Nat /\ Begin(s, p) BY <1>3, <1>4
    <2> HIDE DEF p, s
    <2> QED BY <1>1, <1>2, <1>4, <2>1, BeginRecords
  <1>5. CASE Valid(h) /\ c.op = "change_period" /\ Begin(s, c.value)
    BY <1>1, <1>2, <1>5, BeginRecords
  <1> QED BY <1>4, <1>5 DEF Obey

(* Every step of the daemon, the tasks and the tick records some expiries  *)
(* in an empty ring, takes the oldest, finds none, or leaves the ring and  *)
(* the handle served alone.                                                *)
LEMMA RingSteps ==
  ASSUME TimerAssumption, RingAssumption, TimerInv, [Next]_vars
  PROVE  \/ UNCHANGED <<ringVars, serving>>
         \/ Recording /\ RingEmpty /\ serving' = serving
         \/ TakeOldest /\ serving' = Oldest
         \/ UNCHANGED ringVars /\ serving' = NoHandle
  <1> DEFINE Goal == \/ UNCHANGED <<ringVars, serving>>
                     \/ Recording /\ RingEmpty /\ serving' = serving
                     \/ TakeOldest /\ serving' = Oldest
                     \/ UNCHANGED ringVars /\ serving' = NoHandle
  <1>1. ASSUME NEW c \in Clients, Client(c) PROVE Goal
    BY <1>1 DEF Client, xTimerCreate, Remember, Command, vTaskDelay, daemonVars
  <1>2. CASE drain_timer_expiries BY <1>2 DEF drain_timer_expiries
  <1>3. CASE RunCallback \/ SampleTime \/ ComputeWait \/ yield_now
    BY <1>3 DEF RunCallback, SampleTime, ComputeWait, yield_now
  <1>4. CASE process_expired_timer
    <2>1. at = "process" /\ serving' = serving BY <1>4 DEF process_expired_timer
    <2>2. PICK s \in Soonest : Expire(s, timers[s], timers[s].left + late)
      BY <1>4 DEF process_expired_timer
    <2>3. /\ s \in Slots /\ timers[s] \in TimerRecords /\ timers[s].period # 0
          /\ timers[s].left \in Int
      BY Types DEF Soonest, Active, TimerInv, Periods
    <2>4. HandleOf(s) \in Handles
      BY <2>1, <2>2, ProcessTouches DEF TimerInv, Schedule
    <2>5. timers[s].left + late \in Int /\ timers[s].left + late <= 0
      <3>1. PICK u \in Active : timers[u].left + late <= 0
        BY <2>1 DEF TimerInv, Schedule, IsDue
      <3>2. timers[u].left \in Int /\ late \in Int /\ timers[s].left <= timers[u].left
        BY Types DEF Soonest, Active, TimerInv, TimerAssumption
      <3> QED BY <2>3, <3>1, <3>2
    <2>6. Recording BY <2>2, <2>3, <2>4, <2>5, ExpireRecords
    <2> QED BY <2>1, <2>6 DEF TimerInv, Ownership, Drained
  <1>5. CASE process_one_timer_command
    <2>1. at = "command" /\ serving' = serving BY <1>5 DEF process_one_timer_command
    <2>2. \/ UNCHANGED ringVars
          \/ commands # <<>> /\ Obey(Head(commands))
      BY <1>5 DEF process_one_timer_command
    <2>3. commands # <<>> => Head(commands) \in Orders
      BY HeadTailProperties DEF TimerInv, Ownership, Sent
    <2>4. UNCHANGED ringVars \/ Recording BY <2>2, <2>3, ObeyRecords DEF TimerInv
    <2> QED BY <2>1, <2>4 DEF TimerInv, Ownership, Drained
  <1>6. CASE pick_next \/ on_tick \/ UNCHANGED vars
    BY <1>6 DEF pick_next, on_tick, vars, daemonVars
  <1> QED BY <1>1, <1>2, <1>3, <1>4, <1>5, <1>6 DEF Next, timer_daemon

(* An expiry is dropped only while the ring was empty before: one timer    *)
(* alone expired more often than the ring has cells.                       *)
THEOREM BurstLoss == Spec => OnlyABurstIsLost
  <1>1. TimerInv /\ [Next]_vars => [EXPIRIES_LOST' # EXPIRIES_LOST => RingEmpty]_vars
    <2> SUFFICES ASSUME TimerInv, [Next]_vars, EXPIRIES_LOST' # EXPIRIES_LOST
                 PROVE  RingEmpty
      OBVIOUS
    <2>1. ~UNCHANGED ringVars BY DEF ringVars
    <2>2. ~TakeOldest BY DEF TakeOldest
    <2>3. \/ UNCHANGED <<ringVars, serving>>
          \/ Recording /\ RingEmpty /\ serving' = serving
          \/ TakeOldest /\ serving' = Oldest
          \/ UNCHANGED ringVars /\ serving' = NoHandle
      BY RingSteps, TimerAssumption, RingAssumption
    <2> QED BY <2>1, <2>2, <2>3
  <1> QED BY <1>1, TimerInvariant, PTL DEF Spec, OnlyABurstIsLost

(* A recording of any length is one of the abstract queue's, which knows   *)
(* none longer than it takes to overfill it.                               *)
LEMMA RecordMaps ==
  ASSUME RingAssumption, RingOK, NEW h \in Handles, NEW n \in Nat \ {0},
         note_timer_expiry(h, n), serving' = serving
  PROVE  Fifo!Next
  <1> DEFINE m == IF n <= EXPIRY_RING + 1 THEN n ELSE EXPIRY_RING + 1
             room == EXPIRY_RING - Len(InOrder)
             kept == IF m <= room THEN m ELSE room
  <1>1. /\ InOrder' = InOrder \o [i \in 1 .. Kept(n) |-> h]
        /\ EXPIRIES_LOST' = (EXPIRIES_LOST \/ Kept(n) < n)
    BY RecordEffect
  <1>2. EXPIRY_RING \in Nat /\ Len(InOrder) = InRing /\ InRing \in 0 .. EXPIRY_RING
    BY InOrderIs DEF RingAssumption
  <1>3. m \in 1 .. EXPIRY_RING + 1 BY <1>2
  <1>4. kept = Kept(n) /\ (kept < m <=> Kept(n) < n) BY <1>2 DEF Kept, Room
  <1> HIDE DEF m
  <1>5. InOrder' = InOrder \o Fifo!Times(h, kept) BY <1>1, <1>4 DEF Fifo!Times
  <1>6. EXPIRIES_LOST' = (EXPIRIES_LOST \/ kept < m) BY <1>1, <1>4
  <1>7. Fifo!Record(h, m) BY <1>5, <1>6 DEF Fifo!Record
  <1> QED BY <1>3, <1>7 DEF Fifo!Next

(* The ring is a bounded queue of expiries: it keeps their order, hands    *)
(* each to the C once, and drops only what comes while it is full.         *)
THEOREM RingIsFifo == Spec => ImplementsFifo
  <1>1. Init => Fifo!Init
    <2> SUFFICES ASSUME Init PROVE Fifo!Init OBVIOUS
    <2>1. TimerInv BY InitOK, TimerAssumption, RingAssumption
    <2>2. RingEmpty /\ serving = NoHandle /\ EXPIRIES_LOST = FALSE
      BY DEF Init, RingInit, RingEmpty
    <2>3. InOrder = <<>> BY <2>1, <2>2, EmptyOfAny, Types, RingAssumption DEF TimerInv
    <2> QED BY <2>2, <2>3 DEF Fifo!Init
  <1>2. TimerInv /\ [Next]_vars => [Fifo!Next]_Fifo!vars
    <2> SUFFICES ASSUME TimerInv, [Next]_vars PROVE [Fifo!Next]_Fifo!vars
      OBVIOUS
    <2>1. RingOK /\ RingAssumption /\ TimerAssumption
      BY Types, RingAssumption, TimerAssumption DEF TimerInv
    <2>2. CASE UNCHANGED ringVars /\ serving' \in {serving, NoHandle}
      <3>1. InOrder' = InOrder /\ EXPIRIES_LOST' = EXPIRIES_LOST
        BY <2>2 DEF ringVars, InOrder, InRing
      <3>2. CASE serving' = serving BY <3>1, <3>2 DEF Fifo!vars
      <3>3. CASE serving' = NoHandle BY <3>1, <3>3 DEF Fifo!Next, Fifo!Done
      <3> QED BY <2>2, <3>2, <3>3
    <2>3. CASE Recording /\ serving' = serving
      BY <2>1, <2>3, RecordMaps DEF Recording
    <2>4. CASE TakeOldest /\ serving' = Oldest
      <3>1. InOrder # <<>> /\ Head(InOrder) = Oldest /\ InOrder' = Tail(InOrder)
        BY <2>1, <2>4, TakeEffect
      <3>2. EXPIRIES_LOST' = EXPIRIES_LOST BY <2>4 DEF TakeOldest
      <3> QED BY <2>4, <3>1, <3>2 DEF Fifo!Next, Fifo!Deliver
    <2> QED BY <2>1, <2>2, <2>3, <2>4, RingSteps
  <1> QED BY <1>1, <1>2, TimerInvariant, PTL DEF Spec, ImplementsFifo, Fifo!Spec
=============================================================================
