-------------------------------- MODULE Fifo --------------------------------
(* What a byte queue promises: bytes come out once, in the order they went *)
(* in, and there are never more than Capacity of them inside.              *)
EXTENDS Naturals, Sequences

CONSTANTS Users,        \* the threads that read
          Bytes,
          NoByte,       \* nothing read yet
          Capacity

VARIABLES queue,        \* the bytes inside, oldest first
          last          \* last[t]: the byte t read last

fifoVars == <<queue, last>>

FifoInit == queue = <<>> /\ last = [t \in Users |-> NoByte]

Put(b) ==
    /\ Len(queue) < Capacity
    /\ queue' = Append(queue, b)
    /\ UNCHANGED last

Get(t) ==
    /\ queue # <<>>
    /\ queue' = Tail(queue)
    /\ last' = [last EXCEPT ![t] = Head(queue)]

FifoNext == (\E b \in Bytes : Put(b)) \/ (\E t \in Users : Get(t))

FifoSpec == FifoInit /\ [][FifoNext]_fifoVars
=============================================================================
