----------------------------- MODULE MCTurnGate -----------------------------
(* Instances of TurnGate: three inputs, two calls of Cancel or Close.       *)
EXTENDS TurnGate, TLC

CONSTANTS t1, t2, t3, k1, k2

\* A controller of a terminal or a desktop, and one of a bot or of ACP.
MCEntrySets == {{"guarded", "orPark"}, {"guarded", "sync"}}

MCMixedEntries == {{"orPark", "sync"}}
=============================================================================
