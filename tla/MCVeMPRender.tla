---------------------------- MODULE MCVeMPRender ----------------------------
(* Instances of VeMPRender for TLC.                                         *)
EXTENDS VeMPRender, TLC

CONSTANTS s1, s2, s3

\* The renderer is the first user of the MP layer: MP ids are row numbers.
IdsAreRows == [s \in Slave |-> s]

\* The synchronous slaves are alike.
SyncSymmetry == Permutations(Sync)
=============================================================================
