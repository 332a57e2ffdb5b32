------------------------------- MODULE MCSync -------------------------------
(* Instance of the lock: main and init compete for it; one tick to a turn. *)
EXTENDS Sync

CONSTANTS idle, main, init

MCThreads == {idle, main, init}
MCPriority == [t \in MCThreads |-> 1]
=============================================================================
