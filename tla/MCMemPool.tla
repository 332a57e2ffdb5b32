----------------------------- MODULE MCMemPool -----------------------------
(* Instances of the memory pools: the kernel, init and one child.          *)
EXTENDS MemPool, TLC

CONSTANTS p1, p2

(* Behaviours are followed up to the first list that is lost, and to what  *)
(* the next call makes of it; the page raced for is of no interest after.  *)
UpToStray == ~stray /\ ~raced
=============================================================================
