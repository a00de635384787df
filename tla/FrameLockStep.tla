--------------------------- MODULE FrameLockStep ---------------------------
(* What a distributed frame lock promises: the nodes that share a display  *)
(* wall walk through "drew frame n", "released frame n", "drew frame       *)
(* n + 1", ... side by side, nobody ever a full step ahead of anybody.     *)
(* Position 2n is "frame n drawn, not shown"; 2n + 1 is "frame n released  *)
(* to the screen"; 0 is a node that has not started.                       *)
EXTENDS Naturals

CONSTANT Node       \* the nodes that are kept in step

VARIABLE pos        \* pos[n]: how far node n has come

Init == pos = [n \in Node |-> 0]

\* A node takes its next step only when no other node lags behind it.
Advance(n) ==
    /\ \A m \in Node : pos[n] <= pos[m]
    /\ pos' = [pos EXCEPT ![n] = @ + 1]

Next == \E n \in Node : Advance(n)

Spec == Init /\ [][Next]_pos
=============================================================================
