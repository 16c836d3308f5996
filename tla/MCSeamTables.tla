---------------------------- MODULE MCSeamTables ----------------------------
(***************************************************************************)
(* Small instances of SeamTables: a byte has two values, an item at most   *)
(* three bytes, which hold a handle.                                       *)
(***************************************************************************)
EXTENDS SeamTables, TLC

CONSTANTS t1, t2

(* Numbers as the kernel's Handle::to_raw gives them: the slot below the   *)
(* generation, which is never zero in a handle of a live slot.             *)
RawFromOne == [h \in Handles |-> h.slot + 2 * (h.gen - 1) + 1]

OfTwo == [n \in 0 .. 4 |-> 2 ^ n]

Either == Permutations({t1, t2})
=============================================================================
