---------------------------- MODULE MCFileTable ----------------------------
(* Instances of the file table: two processes, two files.                  *)
EXTENDS FileTable, TLC

CONSTANTS p1, p2, f, g, b1, b2

MCSymmetry == Permutations(Blocks) \cup Permutations(Files)

(* Behaviours are followed up to the first lost slot, or inode used from   *)
(* outside its heap; after it the counts are off, and can grow without     *)
(* bound.                                                                  *)
UpToLoss == ~stale
=============================================================================
