------------------------ MODULE MCSubagentScheduler ------------------------
(* Instances of SubagentScheduler: a workspace ws with two files f and g. *)
EXTENDS SubagentScheduler, TLC

CONSTANTS ws, f, g, c1, c2, c3

MCPath == {ws, f, g}

MCBelow == [p \in MCPath |-> IF p = ws THEN MCPath ELSE {p}]

Whole == [whole |-> TRUE, root |-> ws, paths |-> {}]

OnPath(p) == [whole |-> FALSE, root |-> ws, paths |-> {p}]

MCClaims == {Whole, OnPath(f), OnPath(g)}
=============================================================================
