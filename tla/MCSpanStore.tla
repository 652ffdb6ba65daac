------------------------------ MODULE MCSpanStore ------------------------------
(***************************************************************************)
(* Instances of SpanStore for TLC.                                         *)
(***************************************************************************)
EXTENDS SpanStore

CONSTANTS s1, s2, s3, f1, f2, f3

\* s1 and s2 share a shard of the fast tier, all of them one of the overflow map.
MCShardOf == [s \in Spans |-> IF s = s3 THEN 2 ELSE 1]
MCOverShardOf == [s \in Spans |-> 1]

\* Frames of threads of their own, and f3 as a callback from f1's user code.
Apart == [f \in Frames |-> None]
Inside == [f \in Frames |-> IF f = f3 THEN f1 ELSE None]
================================================================================
