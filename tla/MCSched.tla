------------------------------ MODULE MCSched ------------------------------
(* Instance of the scheduler with sleeping threads: idle, main, init and   *)
(* one more process; one tick to a turn.                                   *)
EXTENDS Sleep

CONSTANTS idle, main, init, p

MCThreads4 == {idle, main, init, p}
MCPriority4 == [t \in MCThreads4 |-> 1]
=============================================================================
