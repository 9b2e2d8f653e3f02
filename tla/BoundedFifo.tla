----------------------------- MODULE BoundedFifo -----------------------------
(***************************************************************************)
(* What rtl/bus/async_fifo.sv promises to the two sides that use it: a     *)
(* queue of at most Capacity words that neither loses, repeats, invents    *)
(* nor reorders a word, except that a reset may empty it.                  *)
(***************************************************************************)
EXTENDS Naturals, Sequences

CONSTANTS Capacity, Data

VARIABLE queue

Init == queue = <<>>

Put(d) == Len(queue) < Capacity /\ queue' = Append(queue, d)

Get == queue # <<>> /\ queue' = Tail(queue)

(* Both clocks have an edge at the same time.                              *)
PutGet(d) == /\ queue # <<>>
             /\ Len(queue) < Capacity
             /\ queue' = Append(Tail(queue), d)

Flush == queue' = <<>>

Next == Get \/ Flush \/ \E d \in Data : Put(d) \/ PutGet(d)

Spec == Init /\ [][Next]_queue
=============================================================================
