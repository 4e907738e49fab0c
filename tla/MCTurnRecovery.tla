--------------------------- MODULE MCTurnRecovery ---------------------------
(* TurnRecovery for TLC. *)
EXTENDS TurnRecovery, TLC

CONSTANTS a, b   \* two texts

\* Nothing in the specification tells one text from another.
TextSymmetry == Permutations(Texts)
=============================================================================
