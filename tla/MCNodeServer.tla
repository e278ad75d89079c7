---------------------------- MODULE MCNodeServer ----------------------------
(* Small instances of NodeServer for TLC.                                  *)
EXTENDS NodeServer, TLC

Symmetry == Permutations(Rpcs) \cup Permutations(Paths)
=============================================================================
