-------------------------------- MODULE SpanMap --------------------------------
(***************************************************************************)
(* What SpanStore promises its callers: one map from span ids to state.    *)
(* Every operation takes effect in one step between its call and its       *)
(* return, and nobody reads or changes a span that another caller holds a  *)
(* reference to write, or changes one that somebody holds at all.          *)
(***************************************************************************)
EXTENDS Naturals

CONSTANTS Callers, Spans, None

VARIABLES
  stored,  \* the spans in the map
  value,   \* the state of each stored span: how often it was written
  asked,   \* the operation and span of each caller
  held,    \* whether the caller holds a reference to that span
  answer   \* the value each caller was last given, or None

vars == <<stored, value, asked, held, answer>>

Ops == {"insert", "get", "get_mut", "record", "take"}
Nothing == [op |-> "none", span |-> None]

Init ==
  /\ stored = {}
  /\ value = [s \in Spans |-> 0]
  /\ asked = [c \in Callers |-> Nothing]
  /\ held = [c \in Callers |-> FALSE]
  /\ answer = [c \in Callers |-> None]

Holders(s) == {c \in Callers : held[c] /\ asked[c].span = s}
Returned(c) == asked' = [asked EXCEPT ![c] = Nothing]

Ask(c, op, s) ==
  /\ asked[c] = Nothing
  /\ asked' = [asked EXCEPT ![c] = [op |-> op, span |-> s]]
  /\ UNCHANGED <<stored, value, held, answer>>

Insert(c) ==
  /\ asked[c].op = "insert" /\ asked[c].span \notin stored
  /\ stored' = stored \cup {asked[c].span}
  /\ value' = [value EXCEPT ![asked[c].span] = 0]
  /\ Returned(c)
  /\ UNCHANGED <<held, answer>>

\* A span is missing only from a map that does not have it.
Miss(c) ==
  /\ asked[c].op \in Ops \ {"insert"} /\ asked[c].span \notin stored
  /\ answer' = [answer EXCEPT ![c] = None]
  /\ Returned(c)
  /\ UNCHANGED <<stored, value, held>>

Find(c) ==
  /\ asked[c].op \in {"get", "get_mut", "record"} /\ ~held[c]
  /\ asked[c].span \in stored
  /\ \A h \in Holders(asked[c].span) : asked[c].op = "get" /\ asked[h].op = "get"
  /\ held' = [held EXCEPT ![c] = TRUE]
  /\ answer' = [answer EXCEPT ![c] = value[asked[c].span]]
  /\ UNCHANGED <<stored, value, asked>>

Write(c) ==
  /\ held[c] /\ asked[c].op # "get"
  /\ value' = [value EXCEPT ![asked[c].span] = @ + 1]
  /\ UNCHANGED <<stored, asked, held, answer>>

Drop(c) ==
  /\ held[c]
  /\ held' = [held EXCEPT ![c] = FALSE]
  /\ Returned(c)
  /\ UNCHANGED <<stored, value, answer>>

Take(c) ==
  /\ asked[c].op = "take"
  /\ asked[c].span \in stored /\ Holders(asked[c].span) = {}
  /\ stored' = stored \ {asked[c].span}
  /\ value' = [value EXCEPT ![asked[c].span] = 0]
  /\ answer' = [answer EXCEPT ![c] = value[asked[c].span]]
  /\ Returned(c)
  /\ UNCHANGED held

Next ==
  \E c \in Callers :
    \/ \E op \in Ops, s \in Spans : Ask(c, op, s)
    \/ Insert(c) \/ Miss(c) \/ Find(c) \/ Write(c) \/ Drop(c) \/ Take(c)

Spec == Init /\ [][Next]_vars
================================================================================
