----------------------------- MODULE WriterLock -----------------------------
(***************************************************************************)
(* An exclusive lock.  It is what internal/workspacelease promises: at any  *)
(* time at most one Delivery session holds the workspace, and it gives the  *)
(* workspace back before another session gets it.  It is also what the lock *)
(* file of a transcript is for (internal/agent/session_lease.go).           *)
(***************************************************************************)
CONSTANTS Owners, None

VARIABLE holder

Init == holder = None

Grab(o) == holder = None /\ holder' = o

Drop == holder # None /\ holder' = None

Next == (\E o \in Owners : Grab(o)) \/ Drop

SafetySpec == Init /\ [][Next]_holder

Spec == SafetySpec /\ WF_holder(Drop)
=============================================================================
