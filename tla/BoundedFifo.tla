----------------------------- MODULE BoundedFifo ----------------------------
(***************************************************************************)
(* What the kernel's event queue promises: first in, first out, and an     *)
(* event is refused only when Capacity events are waiting.                 *)
(***************************************************************************)
EXTENDS Naturals, Sequences

CONSTANTS Events, Capacity

VARIABLES fifo,  \* the events that wait, oldest first
          polled \* the result of the last poll: one event, or none

Init == fifo = <<>> /\ polled = <<>>

Push(e) ==
    /\ Len(fifo) < Capacity
    /\ fifo' = Append(fifo, e)
    /\ UNCHANGED polled

\* A push onto a full queue is lost.
Drop == Len(fifo) = Capacity /\ UNCHANGED <<fifo, polled>>

Poll ==
    \/ fifo # <<>> /\ fifo' = Tail(fifo) /\ polled' = <<Head(fifo)>>
    \/ fifo = <<>> /\ polled' = <<>> /\ UNCHANGED fifo

\* Polls until nothing waits.
Drain == fifo' = <<>> /\ polled' = <<>>

Next == (\E e \in Events : Push(e)) \/ Drop \/ Poll \/ Drain

Spec == Init /\ [][Next]_<<fifo, polled>>
=============================================================================
