------------------------------- MODULE MCProc -------------------------------
(* Instance of the process table: init, the shell and two more processes.  *)
EXTENDS Proc

CONSTANTS init, sh, c, d

MCProcs == {init, sh, c, d}
=============================================================================
