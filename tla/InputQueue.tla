----------------------------- MODULE InputQueue -----------------------------
(***************************************************************************)
(* The ring of keyboard events between the drivers and whoever polls: the  *)
(* shell or the Lua program that runs.                                     *)
(***************************************************************************)
EXTENDS Naturals, Sequences

CONSTANTS Events,  \* the input events
          NoEvent, \* the zeroed InputEvent, INPUT_EVENT_NONE
          Size     \* INPUT_QUEUE_SIZE

ASSUME QueueConstants ==
    /\ NoEvent \notin Events
    /\ Size \in Nat /\ Size > 1

VARIABLES queue, \* the slots
          head,  \* the oldest event
          tail,  \* the next free slot
          polled \* the result of the last input_poll: one event, or none

ring == <<queue, head, tail>>
vars == <<queue, head, tail, polled>>

Slots == 0..(Size - 1)

NextIndex(i) == (i + 1) % Size

IsEmpty == head = tail

IsFull == NextIndex(tail) = head

Init ==
    /\ queue = [i \in Slots |-> NoEvent]
    /\ head = 0
    /\ tail = 0
    /\ polled = <<>>

\* input_push_raw: the newest event is the one that is lost.
Push(e) ==
    /\ IF IsFull THEN UNCHANGED ring
       ELSE /\ queue' = [queue EXCEPT ![tail] = e]
            /\ tail' = NextIndex(tail)
            /\ UNCHANGED head
    /\ UNCHANGED polled

\* Mutant: the index moves before the slot is read.
PollAfterMove ==
    /\ IF IsEmpty THEN polled' = <<>> /\ UNCHANGED head
       ELSE /\ head' = NextIndex(head)
            /\ polled' = <<queue[NextIndex(head)]>>
    /\ UNCHANGED <<queue, tail>>

\* input_poll
Poll ==
    /\ IF IsEmpty THEN polled' = <<>> /\ UNCHANGED head
       ELSE /\ head' = NextIndex(head)
            /\ polled' = <<queue[head]>>
    /\ UNCHANGED <<queue, tail>>

\* lua_input_poll_latest: input_poll until it says that nothing waits.
Drain == head' = tail /\ polled' = <<>> /\ UNCHANGED <<queue, tail>>

Next == (\E e \in Events : Push(e)) \/ Poll \/ Drain

Spec == Init /\ [][Next]_vars

-----------------------------------------------------------------------------
\* The indices stay inside the array (input_next_index).
TypeOK ==
    /\ queue \in [Slots -> Events \union {NoEvent}]
    /\ head \in Slots
    /\ tail \in Slots
    /\ polled \in {<<>>} \union {<<e>> : e \in Events}

Waiting == IF head <= tail THEN tail - head ELSE Size - head + tail

Fifo == INSTANCE BoundedFifo WITH
            Capacity <- Size - 1,
            fifo <- [i \in 1..Waiting |-> queue[(head + i - 1) % Size]]

\* The ring is a first-in first-out queue of Size - 1 events, through every
\* wrap of its indices.
ImplementsFifo == Fifo!Spec
=============================================================================
