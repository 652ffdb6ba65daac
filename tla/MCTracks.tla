------------------------------- MODULE MCTracks -------------------------------
(***************************************************************************)
(* Instances of Tracks for TLC.                                            *)
(***************************************************************************)
EXTENDS Tracks, TLC

Symmetric == Permutations(Threads) \cup Permutations(Spans) \cup Permutations(Names)
===============================================================================
