----------------------------- MODULE MCPrompts ------------------------------
(* Instances of Prompts: two turns and two requests.                        *)
EXTENDS Prompts, TLC

CONSTANTS t1, t2, k1, k2, r1, r2, r3

\* Two calls of one turn, or the first of a turn and of the next, in one scope.
MCPairTurnOf == (r1 :> t1 @@ r2 :> t1)
MCNextTurnOf == (r1 :> t1 @@ r3 :> t2)
MCScopeOf == [r \in Requests |-> "s"]

\* The kinds of r1 and r2, or of all requests.
MCPairKinds == {(r1 :> a[1] @@ r2 :> a[2]) : a \in {<<"ask", "ask">>, <<"tool", "ask">>}}
MCAllPairs == {(r1 :> a[1] @@ r2 :> a[2]) : a \in
  {<<"ask", "fresh">>, <<"plan", "tool">>, <<"memory", "human">>}}
MCTools == {[r \in Requests |-> "tool"]}

MCEntrySets == {{"guarded"}, {"sync"}}
MCGuarded == {{"guarded"}}
=============================================================================
