------------------------------ MODULE MCVeAudio ------------------------------
(* Instances of VeAudio for TLC.                                            *)
EXTENDS VeAudio, TLC

CONSTANTS p1, p2

\* All channels in one slave process.
OneProcess == [c \in Chid |-> p1]

\* Channel 0 in the first process, the others in the second.
TwoProcesses == [c \in Chid |-> IF c = 0 THEN p1 ELSE p2]

MinusOneOrZero == {-1, 0}

ThreadSymmetry == Permutations(Thread)
=============================================================================
