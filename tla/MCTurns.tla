------------------------------ MODULE MCTurns ------------------------------
(* Two idle tasks and two tasks of the C above them, of different priority. *)
EXTENDS Turns

CONSTANTS i0, i1, lo, hi

MCTasks == {i0, i1, lo, hi}
MCIdle == {i0, i1}
MCPrio == [t \in MCTasks |-> CASE t = hi -> 2 [] t = lo -> 1 [] OTHER -> 0]
=============================================================================
