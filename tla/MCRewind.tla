------------------------------ MODULE MCRewind ------------------------------
(* Rewind for TLC: a few prompts, a short log, files that exist or not.     *)
EXTENDS Rewind
CONSTANTS f1, f2, old, new
OneFile == {f1}
TwoContents == {Absent, old}
AllRewrites == {"compact", "from", "upto"}
OnlyCompaction == {"compact"}
NoFaults == {}
AllFaults == {"torn", "unwritten", "restored", "removed"}
=============================================================================
