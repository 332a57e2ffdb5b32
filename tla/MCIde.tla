------------------------------- MODULE MCIde -------------------------------
(* Instance of the disk driver: two threads, requests of up to three       *)
(* sectors, two sectors to a command.                                      *)
EXTENDS Ide

CONSTANTS t1, t2
=============================================================================
