----------------------------- MODULE MCStartup -----------------------------
(* Instances of Startup for TLC.                                           *)
EXTENDS Startup, TLC

CONSTANTS l1, l2, p1, p2, p3

Symmetry == Permutations(Pids) \cup Permutations(Launchers)

=============================================================================
