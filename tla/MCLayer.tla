-------------------------------- MODULE MCLayer --------------------------------
(***************************************************************************)
(* Instances of Layer for TLC.                                             *)
(***************************************************************************)
EXTENDS Layer, TLC

Symmetric == Permutations(Threads) \cup Permutations(Spans)
================================================================================
