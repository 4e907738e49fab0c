-------------------------- MODULE MCBackgroundJobs --------------------------
(* Instances of BackgroundJobs: one job of one session, and a second session. *)
EXTENDS BackgroundJobs

CONSTANTS j1, s1, s2

OneJob == {j1}
TwoSessions == {s1, s2}
OneSession == {s1}

\* Every job is of the first session; the second one is the other session.
MCSessionOf == [j \in Jobs |-> s1]
=============================================================================
