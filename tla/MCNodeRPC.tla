----------------------------- MODULE MCNodeRPC ------------------------------
(* Small instances of NodeRPC for TLC.                                     *)
EXTENDS NodeRPC, TLC

ThreadSymmetry == Permutations(Threads)
=============================================================================
