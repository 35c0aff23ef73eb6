--------------------------- MODULE MCProvMonitor ---------------------------
(* Instances of ProvMonitor for TLC: three processes, one of which is the  *)
(* root, and up to MaxExecs registrations.                                 *)
EXTENDS ProvMonitor, TLC

\* The processes the root and its children spawn are interchangeable.
Spawned == Permutations(Pids \ {Root})
=============================================================================
