------------------------------ MODULE MCOutput ------------------------------
(***************************************************************************)
(* Instances of Output for TLC.                                            *)
(***************************************************************************)
EXTENDS Output, TLC

CONSTANTS t1, t2, f1, f2

Symmetric == Permutations(Threads) \cup Permutations(Flushers)
=============================================================================
