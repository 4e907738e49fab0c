--------------------------- MODULE MCSessionLease ---------------------------
(* Instances of SessionLease: two calls of one process, two of a second.    *)
EXTENDS SessionLease, TLC

CONSTANTS p1, p2, a1, a2, b1, b2, i1, i2, i3

MCProcessOf == [a \in Ops |-> IF a \in {a1, a2} THEN p1 ELSE p2]

\* Lock files, and the calls of one process, are told apart by identity only.
Symmetry ==
  Permutations(Inodes) \union Permutations(Ops \intersect {a1, a2})
                       \union Permutations(Ops \intersect {b1, b2})
=============================================================================
