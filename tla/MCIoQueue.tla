----------------------------- MODULE MCIoQueue -----------------------------
(* Instances of the ring buffer: the keyboard queue and a pipe. *)
EXTENDS IoQueue

CONSTANTS r1, r2, w1, w2, a, b
=============================================================================
