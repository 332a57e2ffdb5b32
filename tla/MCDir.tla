------------------------------- MODULE MCDir --------------------------------
(* Instances of the directory tree: two processes, two names.              *)
EXTENDS Dir, TLC

CONSTANTS p1, p2, n1, n2

MCSymmetry == Permutations(Procs) \cup Permutations(Names)

(* Behaviours are followed up to the first call that acts on what another  *)
(* has changed, and up to a crash that leaves the disk unsound.            *)
UpToClash == Steady
=============================================================================
