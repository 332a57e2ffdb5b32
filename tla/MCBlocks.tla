------------------------------ MODULE MCBlocks ------------------------------
(* Instances of the blocks of a partition: two files are written, others   *)
(* fill the directory past its direct blocks.                              *)
EXTENDS Blocks, TLC

CONSTANTS f1, f2, o1, o2

MCSymmetry == Permutations(Files) \cup Permutations(Others)
=============================================================================
