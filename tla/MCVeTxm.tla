------------------------------ MODULE MCVeTxm ------------------------------
(* An instance of VeTxm for TLC.                                            *)
EXTENDS VeTxm, TLC

CONSTANTS c1, c2, flag, broken

Textures == {<<flag, TRUE>>, <<broken, FALSE>>}

ContextSymmetry == Permutations({c1, c2})
=============================================================================
