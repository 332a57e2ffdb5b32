------------------------------- MODULE Mutex -------------------------------
(***************************************************************************)
(* What struct lock of thread/sync.h promises its clients: one owner at a  *)
(* time, which may take the lock again and must give it back as often.     *)
(***************************************************************************)
EXTENDS Naturals

CONSTANTS Threads,
          NoThread      \* not a thread: nobody owns the lock

VARIABLES owner, depth

mutexVars == <<owner, depth>>

MutexInit == owner = NoThread /\ depth = 0

Take(t) ==
    /\ owner = NoThread
    /\ owner' = t
    /\ depth' = 1

TakeAgain(t) ==
    /\ owner = t
    /\ depth' = depth + 1
    /\ UNCHANGED owner

Give(t) ==
    /\ owner = t
    /\ \/ depth > 1 /\ depth' = depth - 1 /\ UNCHANGED owner
       \/ depth = 1 /\ depth' = 0 /\ owner' = NoThread

MutexNext == \E t \in Threads : Take(t) \/ TakeAgain(t) \/ Give(t)

MutexSpec == MutexInit /\ [][MutexNext]_mutexVars
=============================================================================
