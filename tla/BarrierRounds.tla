---------------------------- MODULE BarrierRounds ----------------------------
(* What a reusable barrier promises: its threads pass it in rounds, and     *)
(* nobody's n-th call returns before everybody has made the n-th call.      *)
EXTENDS Naturals

CONSTANT Party      \* the threads that share the barrier

VARIABLES
    inside,         \* the threads that are in a call
    passed          \* passed[t]: the calls of t that have returned

Init ==
    /\ inside = {}
    /\ passed = [t \in Party |-> 0]

\* u has made the call that t is in.
HasJoined(t, u) ==
    passed[u] > passed[t] \/ (passed[u] = passed[t] /\ u \in inside)

Call(t) ==
    /\ t \notin inside
    /\ inside' = inside \cup {t}
    /\ UNCHANGED passed

Return(t) ==
    /\ t \in inside
    /\ \A u \in Party : HasJoined(t, u)
    /\ inside' = inside \ {t}
    /\ passed' = [passed EXCEPT ![t] = @ + 1]

Next == \E t \in Party : Call(t) \/ Return(t)

Spec == Init /\ [][Next]_<<inside, passed>>
=============================================================================
