-------------------------- MODULE MCWorkspaceLease --------------------------
(* Instances of WorkspaceLease: owner o1 has two runs that share its lease,  *)
(* o2 is another session of the same process, o3 one of a second process.    *)
EXTENDS WorkspaceLease, TLC

CONSTANTS p1, p2, o1, o2, o3, r1, r2, r3, r4, c1, c2, c3, c4, j1

MCProcessOf == [o \in Owners |-> IF o = o3 THEN p2 ELSE p1]

MCOwnerOf == [r \in Runs |-> IF r = r4 THEN o3 ELSE IF r = r3 THEN o2 ELSE o1]

MCRunOf == [x \in Calls \cup Jobs |->
              IF x = c4 THEN r4 ELSE IF x = c3 THEN r3 ELSE IF x = c2 THEN r2 ELSE r1]
=============================================================================
