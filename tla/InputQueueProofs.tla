--------------------------- MODULE InputQueueProofs ---------------------------
(***************************************************************************)
(* For every size of the ring and every set of events: its indices and     *)
(* results keep their types, it implements the bounded queue, and the      *)
(* readers that share it through the frames of the Lua programs get its    *)
(* events in order, none twice. And for every key typed on a serial line,  *)
(* however long the typing: what is decoded is what was typed.             *)
(***************************************************************************)
EXTENDS InputQueue, InputFrames, SerialKeyboard, Integers, FiniteSetTheorems, SequenceTheorems,
        TLAPS

\* The slot i places after the head, and the events that wait, as the
\* refinement mapping of InputQueue reads them.
SlotAt(i) == (head + i - 1) % Size
Contents == [i \in 1..Waiting |-> queue[SlotAt(i)]]

\* The inductive invariant: between head and tail lie events, never the
\* zeroed slots of a ring that has not been round yet.
QueueInv ==
    /\ TypeOK
    /\ \A i \in 1..Waiting : queue[SlotAt(i)] \in Events

-----------------------------------------------------------------------------
(* Index arithmetic. *)

LEMMA Wrap ==
    ASSUME NEW n \in Nat, n < Size + Size
    PROVE  n % Size = IF n < Size THEN n ELSE n - Size
<1>1. Size \in Nat \ {0}
  BY QueueConstants
<1>2. CASE n < Size
  BY <1>1, <1>2
<1>3. CASE n >= Size
  BY <1>1, <1>3
<1> QED
  BY <1>1, <1>2, <1>3

LEMMA NextIndexIs ==
    ASSUME NEW i \in Slots
    PROVE  /\ NextIndex(i) \in Slots
           /\ NextIndex(i) = IF i = Size - 1 THEN 0 ELSE i + 1
<1>1. i + 1 \in Nat /\ i + 1 < Size + Size
  BY QueueConstants DEF Slots
<1>2. NextIndex(i) = IF i + 1 < Size THEN i + 1 ELSE i + 1 - Size
  BY <1>1, Wrap, QueueConstants DEF NextIndex, Slots
<1> QED
  BY <1>2, QueueConstants DEF Slots

LEMMA SlotAtIs ==
    ASSUME TypeOK, NEW i \in 1..Size
    PROVE  /\ SlotAt(i) \in Slots
           /\ SlotAt(i) = IF head + i - 1 < Size THEN head + i - 1
                          ELSE head + i - 1 - Size
<1>1. head \in Nat /\ head < Size /\ Size \in Nat /\ i \in Nat /\ 0 < i /\ i <= Size
  BY QueueConstants DEF TypeOK, Slots
<1>2. head + i - 1 \in Nat /\ head + i - 1 < Size + Size
  BY <1>1
<1>3. SlotAt(i) = IF head + i - 1 < Size THEN head + i - 1
                  ELSE head + i - 1 - Size
  BY <1>1, <1>2, Wrap DEF SlotAt
<1> QED
  BY <1>1, <1>3 DEF Slots

LEMMA WaitingIs ==
    ASSUME TypeOK
    PROVE  /\ Waiting \in 0..(Size - 1)
           /\ IsEmpty <=> Waiting = 0
           /\ IsFull <=> Waiting = Size - 1
<1>1. head \in Slots /\ tail \in Slots
  BY DEF TypeOK
<1>2. Waiting \in 0..(Size - 1) /\ (IsEmpty <=> Waiting = 0)
  BY <1>1, QueueConstants DEF Waiting, IsEmpty, Slots
<1>3. IsFull <=> Waiting = Size - 1
  BY <1>1, NextIndexIs, QueueConstants DEF Waiting, IsFull, Slots
<1> QED
  BY <1>2, <1>3

-----------------------------------------------------------------------------
(* What each operation does to the events that wait. *)

LEMMA PushContents ==
    ASSUME TypeOK, NEW e \in Events, Push(e), ~IsFull
    PROVE  Waiting' = Waiting + 1 /\ Contents' = Append(Contents, e)
<1>1. /\ queue' = [queue EXCEPT ![tail] = e]
      /\ tail' = NextIndex(tail) /\ head' = head
  BY DEF Push, ring
<1>2. head \in Slots /\ tail \in Slots /\ Size \in Nat /\ Size > 1
  BY QueueConstants DEF TypeOK
<1>3. Waiting \in 0..(Size - 1) /\ Waiting # Size - 1
  BY WaitingIs
<1>4. Waiting' = Waiting + 1
  BY <1>1, <1>2, <1>3, NextIndexIs DEF Waiting, Slots
<1>5. \A i \in 1..Size : SlotAt(i)' = SlotAt(i)
  BY <1>1 DEF SlotAt
<1>6. SlotAt(Waiting + 1) = tail
  BY <1>2, <1>3, SlotAtIs DEF Waiting, Slots
<1>7. \A i \in 1..Waiting : SlotAt(i) \in Slots /\ SlotAt(i) # tail
  BY <1>2, <1>3, SlotAtIs DEF Waiting, Slots
<1>8. DOMAIN queue = Slots
  BY DEF TypeOK
<1>9. \A i \in 1..Waiting : queue'[SlotAt(i)] = queue[SlotAt(i)]
  BY <1>1, <1>7, <1>8
<1>10. queue'[tail] = e
  BY <1>1, <1>2, <1>8
<1>11. Contents' = [i \in 1..(Waiting + 1) |-> queue'[SlotAt(i)]]
  BY <1>2, <1>3, <1>4, <1>5 DEF Contents
<1>12. Append(Contents, e) =
         [i \in 1..(Waiting + 1) |-> IF i = Waiting + 1 THEN e
                                     ELSE queue[SlotAt(i)]]
  <2>1. Len(Contents) = Waiting
    BY <1>3 DEF Contents
  <2> QED
    BY <2>1, <1>3 DEF Contents
<1>13. \A i \in 1..(Waiting + 1) :
         queue'[SlotAt(i)] = IF i = Waiting + 1 THEN e ELSE queue[SlotAt(i)]
  BY <1>3, <1>6, <1>9, <1>10
<1> QED
  BY <1>4, <1>11, <1>12, <1>13

LEMMA PollContents ==
    ASSUME TypeOK, Poll, ~IsEmpty
    PROVE  /\ Waiting' = Waiting - 1
           /\ Waiting > 0
           /\ Contents' = Tail(Contents)
           /\ queue[head] = Head(Contents)
           /\ queue[head] = queue[SlotAt(1)]
           /\ \A i \in 1..(Waiting - 1) : (queue[SlotAt(i)])' = queue[SlotAt(i + 1)]
<1>1. head' = NextIndex(head) /\ queue' = queue /\ tail' = tail
  BY DEF Poll
<1>2. head \in Slots /\ tail \in Slots /\ Size \in Nat /\ Size > 1
  BY QueueConstants DEF TypeOK
<1>3. Waiting \in 1..(Size - 1)
  BY WaitingIs
<1>4. Waiting' = Waiting - 1
  BY <1>1, <1>2, <1>3, NextIndexIs DEF Waiting, IsEmpty, Slots
<1>6. SlotAt(1) = head
  BY <1>2, SlotAtIs DEF Slots
<1>7. \A i \in 1..(Waiting - 1) : SlotAt(i)' = SlotAt(i + 1)
  <2> SUFFICES ASSUME NEW i \in 1..(Waiting - 1)
               PROVE  SlotAt(i)' = SlotAt(i + 1)
    OBVIOUS
  <2>1. i + 1 \in 1..Size
    BY <1>2, <1>3
  <2>2. SlotAt(i + 1) = IF head + i < Size THEN head + i ELSE head + i - Size
    BY <1>2, <2>1, SlotAtIs DEF Slots
  <2>3. head' \in Slots /\ head' = IF head = Size - 1 THEN 0 ELSE head + 1
    BY <1>1, <1>2, NextIndexIs
  <2>4. head' + i - 1 \in Nat /\ head' + i - 1 < Size + Size
    BY <1>2, <1>3, <2>3 DEF Slots
  <2>5. SlotAt(i)' = IF head' + i - 1 < Size THEN head' + i - 1
                     ELSE head' + i - 1 - Size
    BY <1>2, <1>3, <2>3, <2>4, Wrap DEF SlotAt, Slots
  <2> QED
    BY <1>2, <1>3, <2>2, <2>3, <2>5 DEF Slots
<1>8. \A i \in 1..(Waiting - 1) : (queue[SlotAt(i)])' = queue[SlotAt(i + 1)]
  BY <1>1, <1>7
<1>9. Contents' = [i \in 1..(Waiting - 1) |-> queue[SlotAt(i + 1)]]
  BY <1>3, <1>4, <1>8 DEF Contents
<1>10. Len(Contents) = Waiting
  BY <1>3 DEF Contents
<1>11. Tail(Contents) = [i \in 1..(Waiting - 1) |-> queue[SlotAt(i + 1)]]
  BY <1>3, <1>10 DEF Contents
<1>12. queue[head] = Head(Contents)
  BY <1>3, <1>6 DEF Contents
<1> QED
  BY <1>3, <1>4, <1>6, <1>8, <1>9, <1>11, <1>12

-----------------------------------------------------------------------------
LEMMA InitInv == Init => QueueInv
<1> SUFFICES ASSUME Init PROVE QueueInv
  OBVIOUS
<1>1. 0 \in Slots
  BY QueueConstants DEF Slots
<1>2. TypeOK
  BY <1>1 DEF Init, TypeOK
<1>3. Waiting = 0
  BY <1>2, WaitingIs DEF Init, IsEmpty
<1> QED
  BY <1>2, <1>3 DEF QueueInv

LEMMA StepInv == QueueInv /\ [Next]_vars => QueueInv'
<1> SUFFICES ASSUME QueueInv, [Next]_vars PROVE QueueInv'
  OBVIOUS
<1> USE DEF QueueInv
<1>1. ASSUME NEW e \in Events, Push(e) PROVE QueueInv'
  <2>1. CASE IsFull
    <3>1. UNCHANGED vars
      BY <1>1, <2>1 DEF Push, ring, vars
    <3> QED
      BY <3>1 DEF vars, TypeOK, Waiting, SlotAt
  <2>2. CASE ~IsFull
    <3>1. TypeOK'
      BY <1>1, <2>2, NextIndexIs DEF Push, ring, TypeOK
    <3>2. Waiting' = Waiting + 1 /\ Contents' = Append(Contents, e)
      BY <1>1, <2>2, PushContents
    <3>3. Waiting \in Nat
      BY WaitingIs
    <3>4. Contents \in Seq(Events) /\ Len(Contents) = Waiting
      BY <3>3 DEF Contents
    <3>5. Contents' \in Seq(Events) /\ Len(Contents') = Waiting + 1
      BY <3>2, <3>4
    <3>6. \A i \in 1..(Waiting + 1) : Contents'[i] \in Events
      BY <3>5, <3>3
    <3>7. \A i \in 1..Waiting' : (queue[SlotAt(i)])' = Contents'[i]
      BY <3>2, <3>3 DEF Contents
    <3> QED
      BY <3>1, <3>2, <3>6, <3>7
  <2> QED
    BY <2>1, <2>2
<1>2. CASE Poll
  <2>1. CASE IsEmpty
    <3>1. TypeOK' /\ UNCHANGED <<queue, head, tail>>
      BY <1>2, <2>1 DEF Poll, TypeOK
    <3> QED
      BY <3>1 DEF Waiting, SlotAt
  <2>2. CASE ~IsEmpty
    <3>1. Waiting \in Nat
      BY WaitingIs
    <3>2. /\ Waiting' = Waiting - 1 /\ Waiting > 0
          /\ queue[head] = queue[SlotAt(1)]
          /\ \A i \in 1..(Waiting - 1) : (queue[SlotAt(i)])' = queue[SlotAt(i + 1)]
      BY <1>2, <2>2, PollContents
    <3>3. queue[head] \in Events
      BY <3>1, <3>2
    <3>4. TypeOK'
      BY <1>2, <2>2, <3>3, NextIndexIs DEF Poll, TypeOK
    <3>5. \A i \in 1..(Waiting - 1) : queue[SlotAt(i + 1)] \in Events
      BY <3>1
    <3> QED
      BY <3>1, <3>2, <3>4, <3>5
  <2> QED
    BY <2>1, <2>2
<1>3. CASE Drain
  <2>1. TypeOK'
    BY <1>3 DEF Drain, TypeOK
  <2>2. Waiting' = 0
    BY <1>3, QueueConstants DEF Drain, Waiting, TypeOK, Slots
  <2> QED
    BY <2>1, <2>2
<1>4. CASE UNCHANGED vars
  BY <1>4 DEF vars, TypeOK, Waiting, SlotAt
<1> QED
  BY <1>1, <1>2, <1>3, <1>4 DEF Next

LEMMA Invariance == Spec => []QueueInv
BY InitInv, StepInv, PTL DEF Spec

\* The indices stay in the array, the slots hold events or zeroes, and a poll
\* returns an event or nothing, never a zeroed slot (input_poll).
THEOREM TypeCorrect == Spec => []TypeOK
<1>1. QueueInv => TypeOK
  BY DEF QueueInv
<1> QED
  BY <1>1, Invariance, PTL

-----------------------------------------------------------------------------
(* The simulation of the bounded queue. *)

LEMMA InitSimulated == Init => Fifo!Init
<1> SUFFICES ASSUME Init PROVE Fifo!Init
  OBVIOUS
<1>1. TypeOK
  BY InitInv DEF QueueInv
<1>2. Waiting = 0
  BY <1>1, WaitingIs DEF Init, IsEmpty
<1>3. Contents = <<>>
  BY <1>2 DEF Contents
<1>4. polled = <<>>
  BY DEF Init
<1> QED
  BY <1>3, <1>4 DEF Fifo!Init, Contents, SlotAt

LEMMA StepSimulated ==
    QueueInv /\ [Next]_vars => [Fifo!Next]_<<Contents, polled>>
<1> SUFFICES ASSUME QueueInv, [Next]_vars
             PROVE  [Fifo!Next]_<<Contents, polled>>
  OBVIOUS
<1>1. TypeOK /\ Waiting \in 0..(Size - 1) /\ Size \in Nat
  BY WaitingIs, QueueConstants DEF QueueInv
<1>2. Len(Contents) = Waiting
  BY <1>1 DEF Contents
<1>3. ASSUME NEW e \in Events, Push(e) PROVE [Fifo!Next]_<<Contents, polled>>
  <2>1. CASE IsFull
    <3>1. UNCHANGED vars
      BY <1>3, <2>1 DEF Push, ring, vars
    <3> QED
      BY <3>1 DEF vars, Contents, Waiting, SlotAt
  <2>2. CASE ~IsFull
    <3>1. Contents' = Append(Contents, e) /\ polled' = polled
      BY <1>1, <1>3, <2>2, PushContents DEF Push
    <3>2. Len(Contents) < Size - 1
      BY <1>1, <1>2, <2>2, WaitingIs
    <3>3. Fifo!Push(e)
      BY <3>1, <3>2 DEF Fifo!Push, Contents, SlotAt
    <3> QED
      BY <3>3 DEF Fifo!Next
  <2> QED
    BY <2>1, <2>2
<1>4. CASE Poll
  <2>1. CASE IsEmpty
    <3>1. polled' = <<>> /\ UNCHANGED <<queue, head, tail>>
      BY <1>4, <2>1 DEF Poll
    <3>2. Contents' = Contents
      BY <3>1 DEF Contents, Waiting, SlotAt
    <3>3. Contents = <<>>
      BY <1>1, <2>1, WaitingIs DEF Contents
    <3>4. Fifo!Poll
      BY <3>1, <3>2, <3>3 DEF Fifo!Poll, Contents, SlotAt
    <3> QED
      BY <3>4 DEF Fifo!Next
  <2>2. CASE ~IsEmpty
    <3>1. /\ Contents' = Tail(Contents) /\ Waiting > 0
          /\ queue[head] = Head(Contents)
      BY <1>1, <1>4, <2>2, PollContents
    <3>2. polled' = <<Head(Contents)>>
      BY <1>4, <2>2, <3>1 DEF Poll
    <3>3. Contents # <<>>
      BY <1>1, <1>2, <3>1
    <3>4. Fifo!Poll
      BY <3>1, <3>2, <3>3 DEF Fifo!Poll, Contents, SlotAt
    <3> QED
      BY <3>4 DEF Fifo!Next
  <2> QED
    BY <2>1, <2>2
<1>5. CASE Drain
  <2>1. Waiting' = 0
    BY <1>1, <1>5 DEF Drain, Waiting, TypeOK, Slots
  <2>2. Contents' = <<>>
    BY <2>1 DEF Contents
  <2>3. Fifo!Drain
    BY <1>5, <2>2 DEF Drain, Fifo!Drain, Contents, SlotAt
  <2> QED
    BY <2>3 DEF Fifo!Next
<1>6. CASE UNCHANGED vars
  BY <1>6 DEF vars, Contents, Waiting, SlotAt
<1> QED
  BY <1>3, <1>4, <1>5, <1>6 DEF Next

\* The ring of kernel/input/input.c is a first-in first-out queue of Size - 1
\* events that loses only the newest event, and only when it is full.
THEOREM RingIsFifo == Spec => ImplementsFifo
<1>1. Fifo!Spec <=> Fifo!Init /\ [][Fifo!Next]_<<Contents, polled>>
  BY DEF Fifo!Spec, Contents, SlotAt
<1> QED
  BY <1>1, InitSimulated, StepSimulated, Invariance, PTL
     DEF Spec, ImplementsFifo

-----------------------------------------------------------------------------
(* The frames of the Lua programs, on the ring. *)

\* The number of the last key.
Newest == Len(pressed)

\* Nothing that waits, and nothing that the frame holds, is older than what a
\* reader has; what waits is in the order of its keys.
Ordered ==
    /\ pressed \in Seq(Keys)
    /\ last \in Nat /\ last <= Newest
    /\ \A i \in 1..Waiting : Contents[i] \in Nat /\ Contents[i] <= Newest
    /\ \A i \in 1..Waiting : last < Contents[i]
    /\ \A i, j \in 1..Waiting : i < j => Contents[i] < Contents[j]
    /\ programs > 0 /\ hasEvent =>
          /\ frameEvent \in Nat /\ frameEvent <= Newest
          /\ last < frameEvent
          /\ \A i \in 1..Waiting : frameEvent < Contents[i]

\* A frame that has not begun has taken nothing, and one in which no program
\* was opened gives each program at most one event.
Locked ==
    /\ taken \in Seq(SUBSET Nat)
    /\ checked \in BOOLEAN /\ hasEvent \in BOOLEAN /\ opened \in BOOLEAN
    /\ ~opened => /\ \A i \in 1..programs : Cardinality(taken[i]) <= 1
                  /\ ~checked => \A i \in 1..programs : taken[i] = {}

\* The inductive invariant, over that of the ring.
FramesInv == QueueInv /\ Ordered /\ Locked

\* The events that wait, as both modules read them.
LEMMA PendingIsContents == Pending = Contents /\ Pending' = Contents'
BY DEF Pending, Contents, SlotAt

\* Every action of a reader or a driver does to the ring one of the things
\* InputQueue allows.
LEMMA RingStep == [FramesNext]_allVars => [Next]_vars
<1> SUFFICES ASSUME [FramesNext]_allVars PROVE [Next]_vars
  OBVIOUS
<1>1. ASSUME NEW k \in Keys, PressKey(k) PROVE Next
  BY <1>1 DEF PressKey, Next
<1>2. CASE ShellPoll
  BY <1>2 DEF ShellPoll, Next
<1>3. CASE StartProgram \/ EndProgram \/ Present
  BY <1>3 DEF StartProgram, EndProgram, Present, vars, ring
<1>4. CASE BeginFrame
  BY <1>4 DEF BeginFrame, vars, ring, Next
<1>5. CASE PollLatest
  BY <1>5 DEF PollLatest, Next
<1>6. CASE UNCHANGED allVars
  BY <1>6 DEF allVars, vars
<1> QED BY <1>1, <1>2, <1>3, <1>4, <1>5, <1>6 DEF FramesNext, Consume, PressedCall

\* The ring's head is the oldest event that waits.
LEMMA OldestWaits ==
    ASSUME QueueInv
    PROVE  /\ Waiting \in Nat
           /\ IsEmpty <=> Waiting = 0
           /\ ~IsEmpty => queue[head] = Contents[1] /\ 1 \in 1..Waiting
           /\ \A i \in 1..Waiting : Contents[i] \in Nat
<1>1. TypeOK /\ Waiting \in 0..(Size - 1) /\ (IsEmpty <=> Waiting = 0)
  BY WaitingIs DEF QueueInv
<1>2. 1 \in 1..Size /\ Size \in Nat /\ head \in Nat /\ head < Size
  BY <1>1, QueueConstants DEF TypeOK, Slots
<1>3. SlotAt(1) = head
  BY <1>1, <1>2, SlotAtIs
<1>4. \A i \in 1..Waiting : Contents[i] \in Nat
  BY FrameConstants DEF QueueInv, Contents
<1> QED BY <1>1, <1>3, <1>4, QueueConstants DEF Contents

\* A poll takes the oldest event and moves the others up.
LEMMA PollMoves ==
    ASSUME QueueInv, Poll
    PROVE  IF IsEmpty
           THEN Waiting' = Waiting /\ Contents' = Contents
           ELSE /\ Waiting' = Waiting - 1
                /\ \A i \in 1..Waiting' : i + 1 \in 1..Waiting /\ Contents'[i] = Contents[i + 1]
<1>1. TypeOK /\ Waiting \in Nat
  BY OldestWaits DEF QueueInv
<1>2. CASE IsEmpty
  BY <1>2 DEF Poll, Waiting, Contents, SlotAt
<1>3. CASE ~IsEmpty
  <2>1. Waiting' = Waiting - 1 /\ Waiting > 0 /\ \A i \in 1..(Waiting - 1) : (queue[SlotAt(i)])' = queue[SlotAt(i + 1)]
    BY <1>1, <1>3, PollContents
  <2>2. Contents' = [i \in 1..Waiting' |-> (queue[SlotAt(i)])']
    BY DEF Contents
  <2> QED BY <1>1, <1>3, <2>1, <2>2 DEF Contents
<1> QED BY <1>2, <1>3

\* After a drain nothing waits.
LEMMA DrainMoves ==
    ASSUME QueueInv, Drain
    PROVE  Waiting' = 0
BY QueueConstants DEF QueueInv, Drain, Waiting, TypeOK, Slots

\* What a call sees when it begins the frame, or finds it begun.
LEMMA Seen ==
    ASSUME FramesInv, programs > 0
    PROVE  SeesEvent => /\ SeenEvent \in Nat /\ SeenEvent <= Newest /\ last < SeenEvent
                        /\ \A i \in 1..Waiting : SeenEvent <= Contents[i]
<1> USE DEF FramesInv
<1>1. CASE checked
  BY <1>1, OldestWaits DEF SeesEvent, SeenEvent, Ordered
<1>2. CASE ~checked
  <2> SUFFICES ASSUME ~IsEmpty
               PROVE  /\ SeenEvent \in Nat /\ SeenEvent <= Newest /\ last < SeenEvent
                      /\ \A i \in 1..Waiting : SeenEvent <= Contents[i]
    BY <1>2 DEF SeesEvent
  <2>1. SeenEvent = Contents[1] /\ 1 \in 1..Waiting /\ Waiting \in Nat
    BY <1>2, OldestWaits DEF SeenEvent
  <2>2. \A i \in 1..Waiting : i = 1 \/ 1 < i
    BY <2>1
  <2> QED BY <2>1, <2>2, OldestWaits DEF Ordered
<1> QED BY <1>1, <1>2 DEF Locked

\* Beginning the frame leaves only newer events to wait.
LEMMA BeginFrameMoves ==
    ASSUME FramesInv, programs > 0, BeginFrame
    PROVE  /\ Waiting' \in Nat
           /\ \A i \in 1..Waiting' : \E j \in 1..Waiting : Contents'[i] = Contents[j]
           /\ \A i, j \in 1..Waiting' : i < j => Contents'[i] < Contents'[j]
           /\ SeesEvent => \A i \in 1..Waiting' : SeenEvent < Contents'[i]
           /\ \A i \in 1..Waiting : \/ \E j \in 1..Waiting' : Contents'[j] = Contents[i]
                                    \/ SeesEvent /\ SeenEvent = Contents[i]
<1> USE DEF FramesInv
<1>1. CASE checked
  <2>1. Waiting' = Waiting /\ Contents' = Contents
    BY <1>1 DEF BeginFrame, ring, Waiting, Contents, SlotAt
  <2> QED BY <1>1, <2>1, OldestWaits DEF Ordered, SeesEvent, SeenEvent
<1>2. CASE ~checked /\ IsEmpty
  <2>1. Waiting' = Waiting /\ Contents' = Contents
    BY <1>2, PollMoves DEF BeginFrame
  <2> QED BY <1>2, <2>1, OldestWaits DEF Ordered, SeesEvent
<1>3. CASE ~checked /\ ~IsEmpty
  <2>1. /\ Waiting' = Waiting - 1
        /\ \A i \in 1..Waiting' : i + 1 \in 1..Waiting /\ Contents'[i] = Contents[i + 1]
    BY <1>3, PollMoves DEF BeginFrame
  <2>2. Waiting \in Nat /\ 1 \in 1..Waiting /\ SeenEvent = Contents[1] /\ SeesEvent
    BY <1>3, OldestWaits DEF SeenEvent, SeesEvent
  <2>3. ASSUME NEW i \in 1..Waiting', NEW j \in 1..Waiting', i < j
        PROVE  Contents'[i] < Contents'[j]
    <3>1. i + 1 \in 1..Waiting /\ j + 1 \in 1..Waiting /\ i + 1 < j + 1
      BY <2>1, <2>2, <2>3
    <3> QED BY <2>1, <3>1 DEF Ordered
  <2>4. ASSUME NEW i \in 1..Waiting'
        PROVE  SeenEvent < Contents'[i]
    <3>1. i + 1 \in 1..Waiting /\ 1 < i + 1
      BY <2>1, <2>2
    <3> QED BY <2>1, <2>2, <3>1 DEF Ordered
  <2>5. ASSUME NEW i \in 1..Waiting, i # 1
        PROVE  \E j \in 1..Waiting' : Contents'[j] = Contents[i]
    <3>1. i - 1 \in 1..Waiting' /\ (i - 1) + 1 = i
      BY <2>1, <2>2, <2>5
    <3>2. Contents'[i - 1] = Contents[(i - 1) + 1]
      BY <2>1, <3>1
    <3> QED BY <3>1, <3>2
  <2> QED BY <2>1, <2>2, <2>3, <2>4, <2>5
<1> QED BY <1>1, <1>2, <1>3 DEF Locked

-----------------------------------------------------------------------------
\* The queue at the start of the system.
LEMMA FramesInitInv == FramesInit => FramesInv
<1> SUFFICES ASSUME FramesInit PROVE FramesInv
  OBVIOUS
<1>1. QueueInv
  BY InitInv DEF FramesInit
<1>2. Waiting = 0
  BY OldestWaits, <1>1 DEF FramesInit, Init, IsEmpty
<1>3. /\ pressed = <<>> /\ taken = <<>> /\ last = 0
      /\ checked = FALSE /\ hasEvent = FALSE /\ opened = FALSE
  BY DEF FramesInit
<1>4. pressed \in Seq(Keys) /\ Newest = 0 /\ programs = 0 /\ taken \in Seq(SUBSET Nat)
  BY <1>3 DEF Newest, programs
<1>5. Ordered
  BY <1>2, <1>3, <1>4 DEF Ordered
<1>6. Locked
  <2>1. \A i \in 1..programs : FALSE
    BY <1>4
  <2>2. checked \in BOOLEAN /\ hasEvent \in BOOLEAN /\ opened \in BOOLEAN
    BY <1>3
  <2> QED BY <1>4, <2>1, <2>2 DEF Locked
<1> QED BY <1>1, <1>5, <1>6 DEF FramesInv

\* A new key is the newest, and is lost when the ring is full.
LEMMA PressOrdered ==
    ASSUME FramesInv, NEW k \in Keys, PressKey(k)
    PROVE  Ordered'
<1> USE DEF FramesInv
<1> DEFINE e == Newest + 1
<1>1. e \in Events /\ Push(e) /\ pressed' = Append(pressed, k) /\ UNCHANGED <<frame, last, taken, opened>>
  BY DEF PressKey, Newest
<1>2. Newest \in Nat /\ pressed' \in Seq(Keys) /\ Newest' = e
  BY <1>1 DEF Ordered, Newest
<1>3. CASE IsFull
  <2>1. Waiting' = Waiting /\ Contents' = Contents
    BY <1>1, <1>3 DEF Push, ring, Waiting, Contents, SlotAt
  <2> QED BY <1>1, <1>2, <2>1, OldestWaits DEF Ordered, frame, programs
<1>4. CASE ~IsFull
  <2>1. Waiting' = Waiting + 1 /\ Contents' = Append(Contents, e)
    BY <1>1, <1>4, PushContents DEF QueueInv
  <2>2. Waiting \in Nat /\ Contents \in Seq(Nat) /\ Len(Contents) = Waiting
    BY OldestWaits DEF Contents
  <2> HIDE DEF e
  <2>3. \A i \in 1..Waiting' : \/ i \in 1..Waiting /\ Contents'[i] = Contents[i]
                               \/ i = Waiting + 1 /\ Contents'[i] = e
    BY <1>1, <2>1, <2>2, FrameConstants
  <2>4. e \in Nat /\ e = Newest + 1 /\ \A i \in 1..Waiting : Contents[i] < e
    BY <1>2 DEF Ordered, e
  <2>5. last' = last /\ frameEvent' = frameEvent /\ hasEvent' = hasEvent /\ programs' = programs
    BY <1>1 DEF frame, programs
  <2>6. last < e
    BY <1>2, <2>4 DEF Ordered
  <2>7. \A i \in 1..Waiting' : Contents'[i] \in Nat /\ Contents'[i] <= Newest' /\ last' < Contents'[i]
    BY <1>2, <2>3, <2>4, <2>5, <2>6 DEF Ordered
  <2>8. ASSUME NEW i \in 1..Waiting', NEW j \in 1..Waiting', i < j
        PROVE  Contents'[i] < Contents'[j]
    <3>1. i \in 1..Waiting /\ Contents'[i] = Contents[i]
      BY <2>1, <2>2, <2>3, <2>8
    <3> QED BY <2>3, <2>4, <2>8, <3>1 DEF Ordered
  <2>9. ASSUME programs > 0, hasEvent
        PROVE  /\ frameEvent \in Nat /\ frameEvent <= Newest' /\ last < frameEvent
               /\ \A i \in 1..Waiting' : frameEvent < Contents'[i]
    BY <1>2, <2>3, <2>4, <2>9 DEF Ordered
  <2> QED BY <1>2, <2>4, <2>5, <2>6, <2>7, <2>8, <2>9 DEF Ordered
<1> QED BY <1>3, <1>4

\* Consuming the event of the frame, or refusing it.
LEMMA CallOrdered ==
    ASSUME FramesInv, programs > 0, BeginFrame,
           pressed' = pressed, programs' = programs,
           \/ hasEvent' = FALSE /\ last' = (IF SeesEvent THEN SeenEvent ELSE last)
           \/ hasEvent' = FALSE /\ last' = last
           \/ SeesEvent /\ hasEvent' = TRUE /\ last' = last
    PROVE  Ordered'
<1> USE DEF FramesInv
<1>1. Waiting \in Nat /\ Newest \in Nat /\ Newest' = Newest /\ frameEvent' = SeenEvent
  BY OldestWaits DEF Newest, Ordered, BeginFrame
<1>2. SeesEvent => /\ SeenEvent \in Nat /\ SeenEvent <= Newest /\ last < SeenEvent
  BY Seen
<1>3. /\ Waiting' \in Nat
      /\ \A i \in 1..Waiting' : \E j \in 1..Waiting : Contents'[i] = Contents[j]
      /\ \A i, j \in 1..Waiting' : i < j => Contents'[i] < Contents'[j]
      /\ SeesEvent => \A i \in 1..Waiting' : SeenEvent < Contents'[i]
  BY BeginFrameMoves
<1>4. \A i \in 1..Waiting' : Contents'[i] \in Nat /\ Contents'[i] <= Newest /\ last < Contents'[i]
  BY <1>3 DEF Ordered
<1>5. last' \in Nat /\ last' <= Newest /\ \A i \in 1..Waiting' : last' < Contents'[i]
  BY <1>2, <1>3, <1>4 DEF Ordered
<1>6. hasEvent' => /\ frameEvent' \in Nat /\ frameEvent' <= Newest /\ last' < frameEvent'
                   /\ \A i \in 1..Waiting' : frameEvent' < Contents'[i]
  BY <1>1, <1>2, <1>3
<1> QED BY <1>1, <1>3, <1>4, <1>5, <1>6 DEF Ordered

\* Taking the latest event and dropping the ones before it.
LEMMA DrainOrdered ==
    ASSUME FramesInv, PollLatest
    PROVE  Ordered'
<1> USE DEF FramesInv
<1>1. Waiting' = 0 /\ hasEvent' = FALSE /\ pressed' = pressed
  BY DrainMoves DEF PollLatest
<1>2. Waiting \in Nat /\ (~IsEmpty => Waiting \in 1..Waiting /\ Pending[Waiting] = Contents[Waiting])
  BY OldestWaits, PendingIsContents
<1>3. last' \in Nat /\ last' <= Newest
  <2>1. CASE ~IsEmpty
    BY <1>2, <2>1 DEF PollLatest, Ordered
  <2>2. CASE IsEmpty
    BY <2>2, Seen DEF PollLatest, Ordered
  <2> QED BY <2>1, <2>2
<1> QED BY <1>1, <1>3 DEF Ordered, Newest

\* The shell polls when no program runs.
LEMMA ShellOrdered ==
    ASSUME FramesInv, ShellPoll
    PROVE  Ordered'
<1> USE DEF FramesInv
<1>1. /\ Waiting' = Waiting - 1
      /\ \A i \in 1..Waiting' : i + 1 \in 1..Waiting /\ Contents'[i] = Contents[i + 1]
  BY PollMoves DEF ShellPoll
<1>2. /\ Waiting \in Nat /\ 1 \in 1..Waiting /\ last' = Contents[1]
      /\ programs' = 0 /\ Newest' = Newest /\ pressed' = pressed
  BY OldestWaits DEF ShellPoll, programs, Newest
<1>3. \A i \in 1..Waiting' : /\ Contents'[i] \in Nat /\ Contents'[i] <= Newest
                             /\ last' < Contents'[i]
  <2> SUFFICES ASSUME NEW i \in 1..Waiting'
               PROVE  Contents'[i] \in Nat /\ Contents'[i] <= Newest /\ last' < Contents'[i]
    OBVIOUS
  <2>1. i + 1 \in 1..Waiting /\ 1 < i + 1 /\ Contents'[i] = Contents[i + 1]
    BY <1>1, <1>2
  <2> QED BY <1>2, <2>1 DEF Ordered
<1>4. ASSUME NEW i \in 1..Waiting', NEW j \in 1..Waiting', i < j
      PROVE  Contents'[i] < Contents'[j]
  <2>1. i + 1 \in 1..Waiting /\ j + 1 \in 1..Waiting /\ i + 1 < j + 1
    BY <1>1, <1>2, <1>4
  <2> QED BY <1>1, <2>1 DEF Ordered
<1> QED BY <1>2, <1>3, <1>4 DEF Ordered

\* Steps that take no event.
LEMMA RestOrdered ==
    ASSUME FramesInv, UNCHANGED <<queue, head, tail, pressed, last>>,
           \/ hasEvent' = FALSE
           \/ frameEvent' = frameEvent /\ hasEvent' = hasEvent /\ (programs' > 0 => programs > 0)
    PROVE  Ordered'
<1>1. Waiting' = Waiting /\ Contents' = Contents /\ Newest' = Newest
  BY DEF Waiting, Contents, SlotAt, Newest
<1> QED BY <1>1 DEF FramesInv, Ordered

-----------------------------------------------------------------------------
\* What a program has taken once the frame's event is its.
LEMMA TakingLocked ==
    ASSUME FramesInv, programs > 0, ~checked
    PROVE  /\ Taking \in Seq(SUBSET Nat) /\ Len(Taking) = programs
           /\ ~opened => \A i \in 1..programs : Cardinality(Taking[i]) <= 1
<1> USE DEF FramesInv
<1>1. taken \in Seq(SUBSET Nat) /\ programs \in Nat /\ programs \in 1..programs
  BY DEF Locked, programs
<1>2. CASE IsEmpty
  BY <1>1, <1>2 DEF Taking, Locked, programs
<1>3. CASE ~IsEmpty
  <2> DEFINE e == queue[head]
  <2>1. e \in Nat
    BY <1>3, OldestWaits
  <2> HIDE DEF e
  <2>2. Taking = [taken EXCEPT ![programs] = @ \union {e}]
    BY <1>3 DEF Taking, e
  <2>3. /\ Taking \in Seq(SUBSET Nat) /\ Len(Taking) = programs
        /\ Taking[programs] = taken[programs] \union {e}
        /\ \A i \in 1..programs : i # programs => Taking[i] = taken[i]
    BY <1>1, <2>1, <2>2 DEF programs
  <2>4. Cardinality({}) = 0 /\ Cardinality({e}) = 1
    BY FS_EmptySet, FS_Singleton
  <2>5. ASSUME ~opened, NEW i \in 1..programs
        PROVE  Cardinality(Taking[i]) <= 1
    <3>1. taken[i] = {} /\ taken[programs] = {}
      BY <1>1, <2>5 DEF Locked
    <3>2. Taking[i] = {} \/ Taking[i] = {e}
      BY <1>1, <2>3, <3>1
    <3> QED BY <2>4, <3>2
  <2> QED BY <2>3, <2>5
<1> QED BY <1>2, <1>3

\* A call begins the frame, or finds it begun.
LEMMA BeginFrameLocked ==
    ASSUME FramesInv, programs > 0, checked' = TRUE, hasEvent' \in BOOLEAN,
           taken' = (IF checked THEN taken ELSE Taking), opened' = opened
    PROVE  Locked' /\ programs' = programs
<1>1. CASE checked
  BY <1>1 DEF FramesInv, Locked, programs
<1>2. CASE ~checked
  BY <1>2, TakingLocked DEF FramesInv, Locked, programs
<1> QED BY <1>1, <1>2 DEF FramesInv, Locked

\* Every step keeps the invariant.
LEMMA FramesStepInv == FramesInv /\ [FramesNext]_allVars => FramesInv'
<1> SUFFICES ASSUME FramesInv, [FramesNext]_allVars PROVE FramesInv'
  OBVIOUS
<1>q. QueueInv'
  BY RingStep, StepInv DEF FramesInv
<1>c. programs \in Nat /\ programs' = Len(taken') /\ hasEvent \in BOOLEAN
  BY DEF FramesInv, Locked, programs
<1>1. ASSUME NEW k \in Keys, PressKey(k) PROVE FramesInv'
  <2>1. Locked'
    BY <1>1 DEF PressKey, frame, FramesInv, Locked, programs
  <2> QED BY <1>q, <1>1, <2>1, PressOrdered DEF FramesInv
<1>2. CASE ShellPoll
  <2>1. Locked'
    BY <1>2 DEF ShellPoll, frame, FramesInv, Locked, programs
  <2> QED BY <1>q, <1>2, <2>1, ShellOrdered DEF FramesInv
<1>3. CASE StartProgram
  <2>1. Locked'
    <3>1. taken' \in Seq(SUBSET Nat) /\ Len(taken') = programs + 1
      BY <1>3 DEF StartProgram, FramesInv, Locked, programs
    <3>2. programs = 0 => taken' = <<{}>>
      BY <1>3 DEF StartProgram, FramesInv, Locked, programs
    <3>3. Cardinality({}) = 0
      BY FS_EmptySet
    <3>0. IF programs > 0 THEN opened' = TRUE ELSE opened' = FALSE
      <4>1. opened' = (programs > 0)
        BY <1>3 DEF StartProgram
      <4>2. CASE programs > 0
        <5>1. (programs > 0) = TRUE
          BY <4>2, <1>c
        <5> QED BY <4>1, <4>2, <5>1, Zenon
      <4>3. CASE ~(programs > 0)
        <5>1. (programs > 0) = FALSE
          BY <4>3, <1>c
        <5> QED BY <4>1, <4>3, <5>1, Zenon
      <4> QED BY <4>2, <4>3
    <3>4. ~opened' => programs = 0
      BY <1>c, <3>0
    <3>5. ~opened' => \A i \in 1..programs' : taken'[i] = {}
      <4>1. programs = 0 => programs' = 1 /\ taken'[1] = {}
        BY <3>1, <3>2, <1>c
      <4> QED BY <3>4, <4>1
    <3>6. checked' \in BOOLEAN /\ hasEvent' \in BOOLEAN /\ opened' \in BOOLEAN
      BY <1>3, <3>0 DEF StartProgram
    <3>7. ~opened' => \A i \in 1..programs' : Cardinality(taken'[i]) <= 1
      BY <3>3, <3>5
    <3>8. checked' = FALSE /\ Len(taken') = programs'
      BY <1>3, <1>c DEF StartProgram
    <3> QED BY <1>c, <3>1, <3>5, <3>6, <3>7, <3>8 DEF Locked
  <2>2. Ordered'
    BY <1>3, RestOrdered DEF StartProgram, ring
  <2> QED BY <1>q, <2>1, <2>2 DEF FramesInv
<1>4. CASE EndProgram
  <2>1. /\ taken' \in Seq(SUBSET Nat) /\ programs' = programs - 1
        /\ \A i \in 1..programs' : taken'[i] = taken[i] /\ i \in 1..programs
    <3>1. taken \in Seq(SUBSET Nat) /\ programs > 0 /\ taken' = SubSeq(taken, 1, programs - 1)
      BY <1>4 DEF EndProgram, Front, FramesInv, Locked, programs
    <3>2. \A i \in 1..(programs - 1) : taken[i] \in SUBSET Nat
      BY <1>c, <3>1 DEF programs
    <3>3. /\ taken' \in Seq(SUBSET Nat) /\ Len(taken') = programs - 1
          /\ \A i \in 1..(programs - 1) : taken'[i] = taken[i]
      BY <1>c, <3>1, <3>2, SubSeqProperties
    <3> QED BY <1>c, <3>1, <3>3
  <2>2. Locked'
    BY <1>4, <2>1 DEF EndProgram, frame, FramesInv, Locked
  <2>3. Ordered'
    BY <1>4, <2>1, <1>c, RestOrdered DEF EndProgram, ring, frame
  <2> QED BY <1>q, <2>2, <2>3 DEF FramesInv
<1>5. CASE Consume
  <2>1. /\ taken' = IF checked THEN taken ELSE Taking
        /\ checked' = TRUE /\ hasEvent' = FALSE /\ opened' = opened /\ pressed' = pressed
        /\ last' = IF SeesEvent THEN SeenEvent ELSE last
        /\ programs > 0 /\ BeginFrame
    BY <1>5 DEF Consume, BeginFrame
  <2>2. Locked' /\ programs' = programs
    BY <2>1, BeginFrameLocked
  <2>3. Ordered'
    BY <2>1, <2>2, CallOrdered
  <2> QED BY <1>q, <2>2, <2>3 DEF FramesInv
<1>6. ASSUME NEW k \in Keys, PressedCall(k) PROVE FramesInv'
  <2> DEFINE hit == SeesEvent /\ pressed[SeenEvent] = k
  <2>1. /\ taken' = IF checked THEN taken ELSE Taking
        /\ checked' = TRUE /\ opened' = opened /\ pressed' = pressed
        /\ hasEvent' = (SeesEvent /\ ~hit)
        /\ last' = IF hit THEN SeenEvent ELSE last
        /\ programs > 0 /\ BeginFrame
    BY <1>6 DEF PressedCall, BeginFrame
  <2>2. SeesEvent \in BOOLEAN /\ hit \in BOOLEAN /\ hasEvent' \in BOOLEAN
    BY <1>c, <2>1 DEF SeesEvent, IsEmpty
  <2>3. \/ hasEvent' = FALSE /\ last' = (IF SeesEvent THEN SeenEvent ELSE last)
        \/ hasEvent' = FALSE /\ last' = last
        \/ SeesEvent /\ hasEvent' = TRUE /\ last' = last
    BY <2>1, <2>2
  <2>4. Locked' /\ programs' = programs
    BY <2>1, <2>2, BeginFrameLocked
  <2>5. Ordered'
    BY <2>1, <2>3, <2>4, CallOrdered
  <2> QED BY <1>q, <2>4, <2>5 DEF FramesInv
<1>7. CASE PollLatest
  <2>1. Locked'
    BY <1>7, BeginFrameLocked DEF PollLatest
  <2> QED BY <1>q, <1>7, <2>1, DrainOrdered DEF FramesInv
<1>8. CASE Present
  <2>1. Locked'
    <3>1. taken' \in Seq(SUBSET Nat) /\ programs' = programs
      BY <1>8, <1>c DEF Present, programs
    <3>2. Cardinality({}) = 0
      BY FS_EmptySet
    <3>3. \A i \in 1..programs' : taken'[i] = {}
      BY <1>8, <1>c, <3>1 DEF Present
    <3>4. checked' \in BOOLEAN /\ hasEvent' \in BOOLEAN /\ opened' \in BOOLEAN
      BY <1>8 DEF Present
    <3>5. \A i \in 1..programs' : Cardinality(taken'[i]) <= 1
      BY <3>2, <3>3
    <3> QED BY <3>1, <3>3, <3>4, <3>5 DEF Locked
  <2>2. Ordered'
    BY <1>8, RestOrdered DEF Present, ring
  <2> QED BY <1>q, <2>1, <2>2 DEF FramesInv
<1>9. CASE UNCHANGED allVars
  <2>1. Locked'
    BY <1>9 DEF allVars, FramesInv, Locked, programs
  <2>2. Ordered'
    BY <1>9, <1>c, RestOrdered DEF allVars, programs
  <2> QED BY <1>q, <2>1, <2>2 DEF FramesInv
<1> QED BY <1>1, <1>2, <1>3, <1>4, <1>5, <1>6, <1>7, <1>8, <1>9 DEF FramesNext

\* The invariant holds in every order of keys, frames and calls.
LEMMA FramesInvariance == FramesSpec => []FramesInv
BY FramesInitInv, FramesStepInv, PTL DEF FramesSpec

\* Readers get every event at most once and in the order of the keys, and
\* within a frame a program gets the same one event from every call
\* (lua_input.c: lua_input_begin_frame and the calls on it; input.c).
THEOREM FramesCorrect == FramesSpec => []FramesTrue
<1>1. FramesInv => FramesTrue
  <2> SUFFICES ASSUME FramesInv PROVE FramesTrue
    OBVIOUS
  <2>1. DeliveredInOrder
    BY PendingIsContents DEF FramesInv, Ordered, DeliveredInOrder
  <2>2. FrameLocked
    BY DEF FramesInv, Locked, FrameLocked
  <2> QED BY <2>1, <2>2 DEF FramesTrue
<1> QED BY <1>1, FramesInvariance, PTL

-----------------------------------------------------------------------------
\* What becomes of an event that waits in one step: it waits on, or it is the
\* frame's, or a reader has it or a newer one.
Delivered(e) ==
    \/ \E j \in 1..Waiting' : Contents'[j] = e
    \/ hasEvent' /\ frameEvent' = e
    \/ last' >= e

\* A call in a frame loses no event that waits.
LEMMA CallDelivers ==
    ASSUME FramesInv, programs > 0, BeginFrame,
           SeesEvent => hasEvent' \/ last' = SeenEvent,
           NEW i \in 1..Waiting
    PROVE  Delivered(Contents[i])
<1>1. frameEvent' = SeenEvent /\ Contents[i] \in Nat
  BY OldestWaits DEF BeginFrame, FramesInv
<1>2. \/ \E j \in 1..Waiting' : Contents'[j] = Contents[i]
      \/ SeesEvent /\ SeenEvent = Contents[i]
  BY BeginFrameMoves
<1> QED BY <1>1, <1>2 DEF Delivered

\* Nor does any other step.
LEMMA StepDelivers ==
    ASSUME FramesInv, [FramesNext]_allVars, NEW i \in 1..Waiting
    PROVE  Delivered(Contents[i])
<1> USE DEF FramesInv
<1>c. Contents[i] \in Nat /\ Waiting \in Nat
  BY OldestWaits
<1>1. CASE UNCHANGED <<queue, head, tail>>
  <2>1. Waiting' = Waiting /\ Contents' = Contents
    BY <1>1 DEF Waiting, Contents, SlotAt
  <2> QED BY <2>1 DEF Delivered
<1>2. ASSUME NEW k \in Keys, PressKey(k) PROVE Delivered(Contents[i])
  <2> DEFINE e == Newest + 1
  <2>1. e \in Events /\ Push(e)
    BY <1>2 DEF PressKey, Newest
  <2>2. CASE IsFull
    <3>1. UNCHANGED <<queue, head, tail>>
      BY <2>1, <2>2 DEF Push, ring
    <3> QED BY <1>1, <3>1
  <2>3. CASE ~IsFull
    <3>1. Waiting' = Waiting + 1 /\ Contents' = Append(Contents, e)
      BY <2>1, <2>3, PushContents DEF QueueInv
    <3>2. Contents \in Seq(Nat) /\ Len(Contents) = Waiting
      BY OldestWaits DEF Contents
    <3> HIDE DEF e
    <3>3. i \in 1..Waiting' /\ Contents'[i] = Contents[i]
      BY <1>c, <3>1, <3>2
    <3> QED BY <3>3 DEF Delivered
  <2> QED BY <2>2, <2>3
<1>3. CASE ShellPoll
  <2>1. /\ Waiting' = Waiting - 1
        /\ \A j \in 1..Waiting' : j + 1 \in 1..Waiting /\ Contents'[j] = Contents[j + 1]
    BY <1>3, PollMoves DEF ShellPoll
  <2>2. last' = Contents[1]
    BY <1>3, OldestWaits DEF ShellPoll
  <2>3. CASE i = 1
    BY <1>c, <2>2, <2>3 DEF Delivered
  <2>4. CASE i # 1
    <3>1. i - 1 \in 1..Waiting' /\ (i - 1) + 1 = i
      BY <1>c, <2>1, <2>4
    <3>2. Contents'[i - 1] = Contents[(i - 1) + 1]
      BY <2>1, <3>1
    <3> QED BY <3>1, <3>2 DEF Delivered
  <2> QED BY <2>3, <2>4
<1>4. CASE Consume
  BY <1>4, CallDelivers DEF Consume
<1>5. ASSUME NEW k \in Keys, PressedCall(k) PROVE Delivered(Contents[i])
  <2> DEFINE hit == SeesEvent /\ pressed[SeenEvent] = k
  <2>1. programs > 0 /\ BeginFrame /\ hasEvent' = (SeesEvent /\ ~hit)
        /\ last' = IF hit THEN SeenEvent ELSE last
    BY <1>5 DEF PressedCall
  <2>2. SeesEvent => hasEvent' \/ last' = SeenEvent
    BY <2>1
  <2> QED BY <2>1, <2>2, CallDelivers
<1>6. CASE PollLatest
  <2>1. ~IsEmpty
    BY <1>c, OldestWaits
  <2>2. last' = Contents[Waiting]
    BY <1>6, <2>1, PendingIsContents DEF PollLatest
  <2>3. Contents[i] <= Contents[Waiting] /\ Contents[Waiting] \in Nat
    <3>1. Waiting \in 1..Waiting /\ (i = Waiting \/ i < Waiting)
      BY <1>c
    <3> QED BY <1>c, <3>1 DEF Ordered
  <2> QED BY <1>c, <2>2, <2>3 DEF Delivered
<1> QED BY <1>1, <1>2, <1>3, <1>4, <1>5, <1>6
        DEF FramesNext, StartProgram, EndProgram, Present, ring, allVars

\* What the user types ahead is not dropped: an event leaves the ring only to
\* a reader, to the frame of the program that runs, or before a newer one that
\* a reader took; neither gfx.present nor the start or the end of a program
\* loses it (lua_input.c, shell.c).
THEOREM TypeAheadSurvives == FramesSpec => TypeAheadKept
<1> DEFINE Kept ==
       \A i \in 1..Waiting :
          LET e == Pending[i] IN
          \/ \E j \in 1..Waiting' : Pending'[j] = e
          \/ hasEvent' /\ frameEvent' = e
          \/ last' >= e
<1>1. FramesInv /\ [FramesNext]_allVars => Kept
  BY StepDelivers, PendingIsContents DEF Delivered
<1>2. FramesInv /\ [FramesNext]_allVars => [Kept]_allVars
  BY <1>1
<1> QED BY <1>2, FramesInvariance, PTL DEF FramesSpec, TypeAheadKept
-----------------------------------------------------------------------------
(***************************************************************************)
(* The serial line: which key each byte belongs to, and how far the        *)
(* decoder is with the key whose bytes it reads.                           *)
(***************************************************************************)

\* What a serial line can tell apart: no Ctrl+Delete, whose modifier it loses,
\* no "[", which after a lone Escape reads as the start of a sequence, and one
\* of the three Enters of terminals.
PlainTyping ==
    /\ SerialKeys \intersect {"ctrl-delete", "[", "ESC", "CR", "LF"} = {}
    /\ Enters \subseteq {<<"CR">>, <<"LF">>, <<"CR", "LF">>}
    /\ PerUpdate \in Nat \ {0}

\* What the bytes and the events are.
Symbols ==
    SerialKeys \union {"ESC", "CR", "LF", "[", "A", "D", "1", "3", "5", "semicolon", "~"}
               \union {"enter", "up", "delete", "left", "escape"}
Parsers ==
    [escape : {"none", "got_esc", "csi"}, number : Int, skipLf : BOOLEAN, pushed : Seq(Symbols)]
\* A terminal whose Enter is a line feed sends no CR for the parser to remember.
SoundParser(s) == s \in Parsers /\ (s.skipLf => terminal # <<"LF">>)
SerialTypes ==
    /\ typed \in Seq(SerialKeys) /\ uart \in Seq(Symbols) /\ wire \in Seq(Symbols)
    /\ terminal \in Enters /\ SoundParser(Parser)

\* The bytes not read yet.
Unread == uart \o wire

\* Where the keys after key d are among the bytes: those of key i come after
\* place ends[i - 1], up to ends[i].
Chain(ends, bytes, d) ==
    /\ ends \in [d..Len(typed) -> Nat] /\ ends[Len(typed)] = Len(bytes)
    /\ \A i, j \in d..Len(typed) : i <= j => ends[i] + (j - i) <= ends[j]
    /\ \A i \in (d + 1)..Len(typed) :
          /\ ends[i] = ends[i - 1] + Len(KeyBytes(typed[i]))
          /\ \A j \in 1..Len(KeyBytes(typed[i])) :
                bytes[ends[i - 1] + j] = KeyBytes(typed[i])[j]
\* Of key d the bytes in rest are left, and then come those of the keys after it.
Stream(bytes, d, rest) ==
    \E ends \in [d..Len(typed) -> Nat] :
        /\ Chain(ends, bytes, d)
        /\ ends[d] = Len(rest) /\ \A j \in 1..Len(rest) : bytes[j] = rest[j]

\* The events in p tell of the first m keys: as they were, or of at least as many.
Told(p, m) ==
    /\ m <= Len(p)
    /\ ~pauses => Len(p) = m /\ \A i \in 1..m : p[i] = EventOf(typed[i])

\* After the Escape, and after the bracket.
AfterEscape == {<<"escape", <<>> >>, <<"up", <<"[", "A">> >>, <<"delete", <<"[", "3", "~">> >>,
                <<"ctrl-left", <<"[", "1", "semicolon", "5", "D">> >>}
AfterBracket == {<<"up", <<"A">> >>, <<"delete", <<"3", "~">> >>, <<"delete", <<"~">> >>,
                 <<"ctrl-left", <<"1", "semicolon", "5", "D">> >>, <<"ctrl-left", <<"semicolon", "5", "D">> >>,
                 <<"ctrl-left", <<"5", "D">> >>, <<"ctrl-left", <<"D">> >>}

\* How far parser s is with key d, of which the bytes in rest are left.
Decodes(s, d, rest) ==
    \/ /\ s.escape = "none" /\ Told(s.pushed, d)
       /\ pauses => \A j \in 1..Len(rest) : rest[j] \notin {"ESC", "CR"}
       /\ ~pauses => rest = <<>> \/ (rest = <<"LF">> /\ s.skipLf)
    \/ /\ s.escape = "got_esc" /\ d # 0 /\ Told(s.pushed, d - 1)
       /\ <<typed[d], rest>> \in AfterEscape
    \/ /\ s.escape = "csi" /\ d # 0 /\ Told(s.pushed, d - 1)
       /\ <<typed[d], rest>> \in AfterBracket
       /\ rest = <<"3", "~">> => s.number = 0
       /\ rest = <<"~">> => s.number = 3

SerialInvariant ==
    /\ SerialTypes
    /\ \E d \in 0..Len(typed) : \E rest \in Seq(Symbols) :
          Stream(Unread, d, rest) /\ Decodes(Parser, d, rest)

\* The bytes of a key.
LEMMA KeyBytesAre ==
    ASSUME NEW k \in SerialKeys, terminal \in Enters, PlainTyping
    PROVE  /\ KeyBytes(k) \in Seq(Symbols) /\ Len(KeyBytes(k)) >= 1
           /\ Len(KeyBytes(k)) \in Nat
<1>1. "CR" \in Symbols /\ "LF" \in Symbols /\ "ESC" \in Symbols /\ "[" \in Symbols /\ "A" \in Symbols
      /\ "3" \in Symbols /\ "~" \in Symbols /\ "1" \in Symbols /\ "semicolon" \in Symbols
      /\ "5" \in Symbols /\ "D" \in Symbols /\ k \in Symbols
  BY DEF Symbols
<1>2. terminal \in {<<"CR">>, <<"LF">>, <<"CR", "LF">>}
  BY DEF PlainTyping
<1>3. k # "ctrl-delete"
  BY DEF PlainTyping
<1> HIDE DEF Symbols
<1>4. terminal \in Seq(Symbols) /\ Len(terminal) >= 1 /\ Len(terminal) \in Nat
  <2>1. CASE terminal = <<"CR">>
    BY <1>1, <2>1
  <2>2. CASE terminal = <<"LF">>
    BY <1>1, <2>2
  <2>3. CASE terminal = <<"CR", "LF">>
    BY <1>1, <2>3
  <2>4. QED
    BY <1>2, <2>1, <2>2, <2>3
<1>5. CASE k = "enter"
  <2>1. KeyBytes(k) = terminal
    BY <1>5 DEF KeyBytes
  <2>2. QED
    BY <1>4, <2>1
<1>6. CASE k = "up"
  <2>1. KeyBytes(k) = <<"ESC", "[", "A">>
    BY <1>6 DEF KeyBytes
  <2>2. QED
    BY <1>1, <2>1
<1>7. CASE k = "delete"
  <2>1. KeyBytes(k) = <<"ESC", "[", "3", "~">>
    BY <1>7 DEF KeyBytes
  <2>2. QED
    BY <1>1, <2>1
<1>8. CASE k = "ctrl-left"
  <2>1. KeyBytes(k) = <<"ESC", "[", "1", "semicolon", "5", "D">>
    BY <1>8 DEF KeyBytes
  <2>2. QED
    BY <1>1, <2>1
<1>9. CASE k = "escape"
  <2>1. KeyBytes(k) = <<"ESC">>
    BY <1>9 DEF KeyBytes
  <2>2. QED
    BY <1>1, <2>1
<1>10. CASE k \notin {"enter", "up", "delete", "ctrl-left", "escape"}
  <2>1. KeyBytes(k) = <<k>>
    BY <1>3, <1>10 DEF KeyBytes
  <2>2. QED
    BY <1>1, <2>1
<1>11. QED
  BY <1>5, <1>6, <1>7, <1>8, <1>9, <1>10

\* One byte less before the keys.
LEMMA ChainNext ==
    ASSUME SerialTypes, PlainTyping, NEW bytes \in Seq(Symbols), Len(bytes) # 0,
           NEW d \in 0..Len(typed), NEW ends \in [d..Len(typed) -> Nat], Chain(ends, bytes, d),
           NEW c \in d..Len(typed), ends[c] >= 1
    PROVE  /\ [i \in c..Len(typed) |-> ends[i] - 1] \in [c..Len(typed) -> Nat]
           /\ Chain([i \in c..Len(typed) |-> ends[i] - 1], Tail(bytes), c)
<1> DEFINE n == Len(typed)
           b == Len(bytes)
           L(i) == Len(KeyBytes(typed[i]))
           f == [i \in c..n |-> ends[i] - 1]
<1>1. /\ n \in Nat /\ b \in Nat /\ d \in Nat /\ c \in Nat /\ d <= c /\ c <= n
      /\ \A i \in 1..n : L(i) \in Nat
  BY KeyBytesAre DEF SerialTypes
<1>2. Len(Tail(bytes)) = b - 1 /\ \A j \in 1..(b - 1) : Tail(bytes)[j] = bytes[j + 1]
  <2>1. bytes # <<>>
    OBVIOUS
  <2>2. QED
    BY <2>1
<1>3. /\ ends[n] = b
      /\ \A i, j \in d..n : i <= j => ends[i] + (j - i) <= ends[j]
      /\ \A i \in (d + 1)..n :
            /\ ends[i] = ends[i - 1] + L(i)
            /\ \A j \in 1..L(i) : bytes[ends[i - 1] + j] = KeyBytes(typed[i])[j]
  BY DEF Chain
<1> HIDE DEF n, b, L
<1>4. \A i \in c..n : i \in d..n /\ i \in Nat /\ ends[i] \in Nat
  <2>1. \A i \in d..n : ends[i] \in Nat
    BY DEF n
  <2>2. QED
    BY <1>1, <2>1
<1>5. \A i \in c..n : ends[i] >= 1 /\ ends[i] <= b
  <2>1. SUFFICES ASSUME NEW i \in c..n PROVE ends[i] >= 1 /\ ends[i] <= b
    OBVIOUS
  <2>2. c \in d..n /\ i \in d..n /\ n \in d..n /\ c <= i /\ i <= n /\ c \in c..n /\ n \in c..n
    BY <1>1
  <2>3. ends[c] + (i - c) <= ends[i] /\ ends[i] + (n - i) <= ends[n]
    BY <1>3, <2>2
  <2>4. ends[c] \in Nat /\ ends[i] \in Nat /\ i \in Nat
    BY <1>4, <2>2
  <2>5. ends[i] >= ends[c]
    BY <1>1, <2>2, <2>3, <2>4
  <2>6. ends[i] <= b
    BY <1>1, <1>3, <2>2, <2>3, <2>4
  <2>7. QED
    BY <2>4, <2>5, <2>6
<1>6. f \in [c..n -> Nat] /\ \A i \in c..n : f[i] = ends[i] - 1
  <2>1. \A i \in c..n : ends[i] - 1 \in Nat
    BY <1>4, <1>5
  <2>2. QED
    BY <2>1
<1> HIDE DEF f
<1>7. f[n] = b - 1
  BY <1>1, <1>3, <1>6
<1>8. ASSUME NEW i \in c..n, NEW j \in c..n, i <= j
      PROVE  f[i] + (j - i) <= f[j]
  <2>1. ends[i] + (j - i) <= ends[j]
    BY <1>3, <1>4, <1>8
  <2>2. QED
    BY <1>4, <1>6, <2>1
<1>9. ASSUME NEW i \in (c + 1)..n
      PROVE  /\ f[i] = f[i - 1] + L(i)
             /\ \A j \in 1..L(i) : Tail(bytes)[f[i - 1] + j] = KeyBytes(typed[i])[j]
  <2>1. i - 1 \in c..n /\ i \in c..n /\ i \in (d + 1)..n /\ i \in 1..n
    BY <1>1
  <2>2. /\ ends[i] = ends[i - 1] + L(i) /\ f[i] = ends[i] - 1 /\ f[i - 1] = ends[i - 1] - 1
        /\ ends[i] \in Nat /\ ends[i - 1] \in Nat /\ L(i) \in Nat
        /\ ends[i - 1] >= 1 /\ ends[i] <= b
    BY <1>1, <1>3, <1>4, <1>5, <1>6, <2>1
  <2>3. f[i] = f[i - 1] + L(i)
    BY <2>2
  <2>4. ASSUME NEW j \in 1..L(i)
        PROVE  Tail(bytes)[f[i - 1] + j] = KeyBytes(typed[i])[j]
    <3>1. f[i - 1] + j \in 1..(b - 1) /\ (f[i - 1] + j) + 1 = ends[i - 1] + j
      <4> DEFINE x == ends[i - 1]
                 y == ends[i]
                 l == L(i)
      <4>1. x \in Nat /\ y \in Nat /\ l \in Nat /\ j \in 1..l /\ y = x + l /\ x >= 1 /\ y <= b
        BY <2>2
      <4> HIDE DEF x, y, l
      <4>2. (x - 1) + j \in 1..(b - 1) /\ ((x - 1) + j) + 1 = x + j
        BY <1>1, <4>1
      <4>3. QED
        BY <2>2, <4>2 DEF x
    <3>2. bytes[ends[i - 1] + j] = KeyBytes(typed[i])[j]
      BY <1>3, <2>1
    <3>3. Tail(bytes)[f[i - 1] + j] = bytes[(f[i - 1] + j) + 1]
      BY <1>2, <3>1
    <3>4. QED
      BY <3>1, <3>2, <3>3
  <2>5. QED
    BY <2>3, <2>4
<1>10. Chain(f, Tail(bytes), c)
  BY <1>2, <1>6, <1>7, <1>8, <1>9 DEF Chain, n, L
<1>11. QED
  BY <1>6, <1>10 DEF f, n

\* One byte less: of the key that is read, or of the next one.
LEMMA StreamNext ==
    ASSUME SerialTypes, PlainTyping, NEW bytes \in Seq(Symbols), Len(bytes) # 0,
           NEW d \in 0..Len(typed), NEW rest \in Seq(Symbols), Stream(bytes, d, rest)
    PROVE  \/ /\ Len(rest) # 0 /\ Head(bytes) = rest[1]
              /\ Stream(Tail(bytes), d, Tail(rest))
           \/ /\ Len(rest) = 0 /\ d < Len(typed)
              /\ Head(bytes) = KeyBytes(typed[d + 1])[1]
              /\ Stream(Tail(bytes), d + 1, Tail(KeyBytes(typed[d + 1])))
<1>1. PICK ends \in [d..Len(typed) -> Nat] :
        /\ Chain(ends, bytes, d)
        /\ ends[d] = Len(rest) /\ \A j \in 1..Len(rest) : bytes[j] = rest[j]
  BY DEF Stream
<1>2. /\ Len(typed) \in Nat /\ Len(bytes) \in Nat /\ Len(rest) \in Nat /\ d \in Nat
      /\ d \in d..Len(typed) /\ ends[d] \in Nat
  <2>1. typed \in Seq(SerialKeys)
    BY DEF SerialTypes
  <2>2. Len(typed) \in Nat /\ Len(bytes) \in Nat /\ Len(rest) \in Nat /\ d \in Nat
    BY <2>1
  <2>3. d \in d..Len(typed)
    BY <2>2
  <2>4. QED
    BY <2>2, <2>3
<1>3. /\ Head(bytes) = bytes[1] /\ Len(Tail(bytes)) = Len(bytes) - 1
      /\ \A j \in 1..(Len(bytes) - 1) : Tail(bytes)[j] = bytes[j + 1]
  <2>1. bytes # <<>>
    OBVIOUS
  <2>2. QED
    BY <2>1
<1>4. /\ ends[Len(typed)] = Len(bytes)
      /\ \A i, j \in d..Len(typed) : i <= j => ends[i] + (j - i) <= ends[j]
      /\ \A i \in (d + 1)..Len(typed) :
            /\ ends[i] = ends[i - 1] + Len(KeyBytes(typed[i]))
            /\ \A j \in 1..Len(KeyBytes(typed[i])) :
                  bytes[ends[i - 1] + j] = KeyBytes(typed[i])[j]
  BY <1>1 DEF Chain
<1>5. CASE Len(rest) # 0
  <2> DEFINE f == [i \in d..Len(typed) |-> ends[i] - 1]
  <2>1. f \in [d..Len(typed) -> Nat] /\ Chain(f, Tail(bytes), d)
    <3>1. ends[d] >= 1
      BY <1>1, <1>2, <1>5
    <3>2. QED
      BY <1>1, <1>2, <3>1, ChainNext
  <2>2. f[d] = Len(rest) - 1
    BY <1>1, <1>2
  <2> HIDE DEF f
  <2>3. /\ Len(Tail(rest)) = Len(rest) - 1
        /\ \A j \in 1..(Len(rest) - 1) : Tail(rest)[j] = rest[j + 1]
    <3>1. rest # <<>>
      BY <1>5
    <3>2. QED
      BY <3>1
  <2>4. Len(rest) <= Len(bytes)
    <3>1. Len(typed) \in d..Len(typed)
      BY <1>2
    <3>2. ends[d] + (Len(typed) - d) <= ends[Len(typed)]
      BY <1>2, <1>4, <3>1
    <3>3. QED
      BY <1>1, <1>2, <1>4, <3>2
  <2>5. \A j \in 1..(Len(rest) - 1) : Tail(bytes)[j] = Tail(rest)[j]
    <3>1. \A j \in 1..(Len(rest) - 1) : j + 1 \in 1..Len(rest) /\ j \in 1..(Len(bytes) - 1)
      BY <1>2, <2>4
    <3>2. QED
      BY <1>1, <1>3, <2>3, <3>1
  <2>6. Stream(Tail(bytes), d, Tail(rest))
    BY <2>1, <2>2, <2>3, <2>5 DEF Stream
  <2>7. Head(bytes) = rest[1]
    BY <1>1, <1>2, <1>3, <1>5
  <2>8. QED
    BY <1>5, <2>6, <2>7
<1>6. CASE Len(rest) = 0
  <2>1. d < Len(typed)
    <3>1. d # Len(typed)
      BY <1>1, <1>4, <1>6
    <3>2. QED
      BY <1>2, <3>1
  <2> DEFINE k == typed[d + 1]
             l == Len(KeyBytes(k))
  <2>2. d + 1 \in (d + 1)..Len(typed) /\ d + 1 \in d..Len(typed) /\ (d + 1) - 1 = d
    BY <1>2, <2>1
  <2>3. k \in SerialKeys
    BY <1>2, <2>1 DEF SerialTypes
  <2>4. KeyBytes(k) \in Seq(Symbols) /\ l >= 1 /\ l \in Nat
    BY <2>3, KeyBytesAre DEF SerialTypes
  <2>5. ends[d + 1] = l /\ \A j \in 1..l : bytes[j] = KeyBytes(k)[j]
    <3>1. ends[d + 1] = ends[d] + l /\ \A j \in 1..l : bytes[ends[d] + j] = KeyBytes(k)[j]
      BY <1>4, <2>2
    <3>2. ends[d] = 0
      BY <1>1, <1>6
    <3> HIDE DEF l, k
    <3>3. \A j \in 1..l : ends[d] + j = j
      BY <2>4, <3>2
    <3>4. QED
      BY <2>4, <3>1, <3>2, <3>3
  <2> DEFINE f == [i \in (d + 1)..Len(typed) |-> ends[i] - 1]
  <2>6. f \in [(d + 1)..Len(typed) -> Nat] /\ Chain(f, Tail(bytes), d + 1)
    <3>1. ends[d + 1] >= 1
      BY <2>4, <2>5
    <3>2. QED
      BY <1>1, <2>2, <3>1, ChainNext
  <2>7. f[d + 1] = l - 1
    BY <2>2, <2>5
  <2> HIDE DEF f
  <2>8. /\ Len(Tail(KeyBytes(k))) = l - 1
        /\ \A j \in 1..(l - 1) : Tail(KeyBytes(k))[j] = KeyBytes(k)[j + 1]
    <3>1. KeyBytes(k) # <<>>
      BY <2>4
    <3>2. QED
      BY <2>4, <3>1
  <2> HIDE DEF k
  <2>9. l <= Len(bytes)
    <3>1. Len(typed) \in d..Len(typed) /\ d + 1 <= Len(typed)
      BY <1>2, <2>1
    <3>2. ends[d + 1] + (Len(typed) - (d + 1)) <= ends[Len(typed)]
      BY <1>4, <2>2, <3>1
    <3> HIDE DEF l
    <3>3. QED
      BY <1>2, <1>4, <2>4, <2>5, <3>1, <3>2
  <2> HIDE DEF l
  <2>10. \A j \in 1..(l - 1) : Tail(bytes)[j] = Tail(KeyBytes(k))[j]
    <3>1. \A j \in 1..(l - 1) : j + 1 \in 1..l /\ j \in 1..(Len(bytes) - 1)
      BY <1>2, <2>4, <2>9
    <3>2. QED
      BY <1>3, <2>5, <2>8, <3>1
  <2>11. Stream(Tail(bytes), d + 1, Tail(KeyBytes(k)))
    BY <2>6, <2>7, <2>8, <2>10 DEF Stream
  <2>12. Head(bytes) = KeyBytes(k)[1]
    BY <1>3, <2>4, <2>5
  <2>13. QED
    BY <1>6, <2>1, <2>11, <2>12 DEF k
<1>7. QED
  BY <1>5, <1>6
\* One event more tells of one key more.
LEMMA ToldMore ==
    ASSUME typed \in Seq(SerialKeys), NEW p \in Seq(Symbols), NEW e \in Symbols,
           NEW m \in 1..Len(typed), Told(p, m - 1), ~pauses => e = EventOf(typed[m])
    PROVE  Told(Append(p, e), m)
<1>1. /\ Len(p) \in Nat /\ m \in Nat /\ Len(Append(p, e)) = Len(p) + 1
      /\ \A i \in 1..Len(p) : Append(p, e)[i] = p[i]
      /\ Append(p, e)[Len(p) + 1] = e
  OBVIOUS
<1>2. m - 1 <= Len(p) /\ (~pauses => Len(p) = m - 1 /\ \A i \in 1..(m - 1) : p[i] = EventOf(typed[i]))
  BY DEF Told
<1>3. m <= Len(Append(p, e))
  BY <1>1, <1>2
<1>4. ASSUME ~pauses
      PROVE  Len(Append(p, e)) = m /\ \A i \in 1..m : Append(p, e)[i] = EventOf(typed[i])
  <2>1. Len(p) = m - 1 /\ Len(Append(p, e)) = m
    BY <1>1, <1>2, <1>4
  <2>2. ASSUME NEW i \in 1..m PROVE Append(p, e)[i] = EventOf(typed[i])
    <3>1. CASE i = m
      <4>1. Append(p, e)[m] = e
        BY <1>1, <2>1
      <4>2. QED
        BY <1>4, <3>1, <4>1
    <3>2. CASE i # m
      <4>1. i \in 1..(m - 1) /\ i \in 1..Len(p)
        BY <1>1, <2>1, <3>2
      <4>2. QED
        BY <1>1, <1>2, <1>4, <4>1
    <3>3. QED
      BY <3>1, <3>2
  <2>3. QED
    BY <2>1, <2>2
<1>5. QED
  BY <1>3, <1>4 DEF Told

\* A pausing line may tell of more.
LEMMA ToldStill ==
    ASSUME NEW p \in Seq(Symbols), NEW e \in Symbols, NEW m \in Nat, Told(p, m), pauses
    PROVE  Told(Append(p, e), m)
<1>1. Len(p) \in Nat /\ Len(Append(p, e)) = Len(p) + 1 /\ m <= Len(p)
  BY DEF Told
<1>2. m <= Len(Append(p, e))
  BY <1>1
<1>3. QED
  BY <1>2 DEF Told

\* What the parser does with a byte outside a sequence.
LEMMA PlainDoes ==
    ASSUME NEW s, SoundParser(s), NEW byte \in Symbols, byte = "CR" => terminal # <<"LF">>
    PROVE  /\ SoundParser(Plain(s, byte))
           /\ byte = "ESC" => /\ Plain(s, byte).escape = "got_esc"
                              /\ Plain(s, byte).pushed = s.pushed
           /\ byte # "ESC" => Plain(s, byte).escape = s.escape
           /\ byte = "CR" => /\ Plain(s, byte).pushed = Append(s.pushed, "enter")
                             /\ Plain(s, byte).skipLf = TRUE
           /\ byte = "LF" => /\ s.skipLf => Plain(s, byte).pushed = s.pushed
                             /\ ~s.skipLf => Plain(s, byte).pushed = Append(s.pushed, "enter")
           /\ byte \notin {"ESC", "CR", "LF"} => Plain(s, byte).pushed = Append(s.pushed, byte)
<1>1. PICK e \in {"none", "got_esc", "csi"}, n \in Int, b \in BOOLEAN, p \in Seq(Symbols) :
        s = [escape |-> e, number |-> n, skipLf |-> b, pushed |-> p]
  BY DEF SoundParser, Parsers
<1>2. s.escape = e /\ s.number = n /\ s.skipLf = b /\ s.pushed = p /\ (b => terminal # <<"LF">>)
  BY <1>1 DEF SoundParser
<1>3. "enter" \in Symbols
  BY DEF Symbols
<1>4. Append(p, "enter") \in Seq(Symbols) /\ Append(p, byte) \in Seq(Symbols)
  BY <1>3, AppendProperties
<1> HIDE DEF Symbols
<1>5. CASE byte = "ESC"
  <2>1. Plain(s, byte) = [escape |-> "got_esc", number |-> n, skipLf |-> b, pushed |-> p]
    BY <1>1, <1>5 DEF Plain
  <2>2. QED
    BY <1>2, <1>5, <2>1 DEF SoundParser, Parsers
<1>6. CASE byte = "CR"
  <2>1. Plain(s, byte) = [escape |-> e, number |-> n, skipLf |-> TRUE, pushed |-> Append(p, "enter")]
    BY <1>1, <1>6 DEF Plain, PushEvent
  <2> DEFINE q == Append(p, "enter")
  <2>2. q \in Seq(Symbols)
    BY <1>4
  <2>3. Plain(s, byte) = [escape |-> e, number |-> n, skipLf |-> TRUE, pushed |-> q]
    BY <2>1
  <2>4. Append(s.pushed, "enter") = q
    BY <1>2
  <2> HIDE DEF q
  <2>5. SoundParser(Plain(s, byte))
    <3>1. terminal # <<"LF">>
      BY <1>6
    <3>2. Plain(s, byte) \in Parsers
      BY <2>2, <2>3 DEF Parsers
    <3>3. QED
      BY <3>1, <3>2 DEF SoundParser
  <2>6. /\ Plain(s, byte).escape = e /\ Plain(s, byte).skipLf = TRUE
        /\ Plain(s, byte).pushed = q
    BY <2>3
  <2>7. QED
    BY <1>2, <1>6, <2>4, <2>5, <2>6
<1>7. CASE byte = "LF"
  <2>1. CASE b
    <3>1. Plain(s, byte) = [escape |-> e, number |-> n, skipLf |-> FALSE, pushed |-> p]
      BY <1>1, <1>7, <2>1 DEF Plain
    <3>2. Plain(s, byte) \in Parsers
      BY <3>1 DEF Parsers
    <3>3. /\ Plain(s, byte).escape = e /\ Plain(s, byte).skipLf = FALSE
          /\ Plain(s, byte).pushed = p
      BY <3>1
    <3>4. SoundParser(Plain(s, byte))
      BY <3>2, <3>3 DEF SoundParser
    <3>5. QED
      BY <1>2, <1>7, <2>1, <3>3, <3>4
  <2>2. CASE ~b
    <3> DEFINE q == Append(p, "enter")
    <3>1. q \in Seq(Symbols)
      BY <1>4
    <3>2. Plain(s, byte) = [escape |-> e, number |-> n, skipLf |-> b, pushed |-> q]
      BY <1>1, <1>7, <2>2 DEF Plain, PushEvent
    <3>3. Append(s.pushed, "enter") = q
      BY <1>2
    <3> HIDE DEF q
    <3>4. QED
      BY <1>2, <1>7, <2>2, <3>1, <3>2, <3>3 DEF SoundParser, Parsers
  <2>3. QED
    BY <2>1, <2>2
<1>8. CASE byte \notin {"ESC", "CR", "LF"}
  <2> DEFINE q == Append(p, byte)
  <2>1. q \in Seq(Symbols)
    BY <1>4
  <2>2. Plain(s, byte) = [escape |-> e, number |-> n, skipLf |-> FALSE, pushed |-> q]
    BY <1>1, <1>8 DEF Plain, PushEvent
  <2>3. Append(s.pushed, byte) = q
    BY <1>2
  <2> HIDE DEF q
  <2>4. QED
    BY <1>2, <1>8, <2>1, <2>2, <2>3 DEF SoundParser, Parsers
<1>9. QED
  BY <1>5, <1>6, <1>7, <1>8

\* A reset parser.
LEMMA ResetIs ==
    ASSUME NEW e, NEW n, NEW b, NEW p
    PROVE  ResetEscape([escape |-> e, number |-> n, skipLf |-> b, pushed |-> p])
             = [escape |-> "none", number |-> 0, skipLf |-> b, pushed |-> p]
<1> DEFINE r == [escape |-> e, number |-> n, skipLf |-> b, pushed |-> p]
           t == [r EXCEPT !.escape = "none"]
<1>1. t = [escape |-> "none", number |-> n, skipLf |-> b, pushed |-> p]
  OBVIOUS
<1> HIDE DEF t
<1>2. [t EXCEPT !.number = 0] = [escape |-> "none", number |-> 0, skipLf |-> b, pushed |-> p]
  BY <1>1
<1>3. ResetEscape(r) = [t EXCEPT !.number = 0]
  BY DEF ResetEscape, t
<1>4. QED
  BY <1>2, <1>3

\* Escape without a sequence.
LEMMA LoneEscape ==
    ASSUME NEW s, SoundParser(s)
    PROVE  /\ SoundParser(ResetEscape(PushEvent(s, "escape")))
           /\ ResetEscape(PushEvent(s, "escape")).escape = "none"
           /\ ResetEscape(PushEvent(s, "escape")).pushed = Append(s.pushed, "escape")
           /\ Append(s.pushed, "escape") \in Seq(Symbols) /\ s.pushed \in Seq(Symbols)
<1>1. PICK e \in {"none", "got_esc", "csi"}, n \in Int, b \in BOOLEAN, p \in Seq(Symbols) :
        s = [escape |-> e, number |-> n, skipLf |-> b, pushed |-> p]
  BY DEF SoundParser, Parsers
<1>2. s.skipLf = b /\ s.pushed = p /\ (b => terminal # <<"LF">>)
  BY <1>1 DEF SoundParser
<1>3. "escape" \in Symbols
  BY DEF Symbols
<1> DEFINE q == Append(p, "escape")
<1>4. q \in Seq(Symbols)
  BY <1>3, AppendProperties
<1>5. ResetEscape(PushEvent(s, "escape"))
        = [escape |-> "none", number |-> 0, skipLf |-> b, pushed |-> q]
  <2>1. PushEvent(s, "escape") = [escape |-> e, number |-> n, skipLf |-> b, pushed |-> q]
    BY <1>1 DEF PushEvent
  <2> HIDE DEF q
  <2>2. ResetEscape([escape |-> e, number |-> n, skipLf |-> b, pushed |-> q])
          = [escape |-> "none", number |-> 0, skipLf |-> b, pushed |-> q]
    BY ResetIs
  <2>3. QED
    BY <2>1, <2>2
<1>6. Append(s.pushed, "escape") = q
  BY <1>2
<1> HIDE DEF q, Symbols
<1>7. QED
  BY <1>2, <1>4, <1>5, <1>6 DEF SoundParser, Parsers

\* The first byte of a key, with no sequence under way.
LEMMA KeyBegins ==
    ASSUME SerialTypes, PlainTyping, NEW s, SoundParser(s), s.escape = "none",
           NEW m \in 1..Len(typed), Told(s.pushed, m - 1)
    PROVE  /\ KeyBytes(typed[m])[1] # "["
           /\ SoundParser(Plain(s, KeyBytes(typed[m])[1]))
           /\ Decodes(Plain(s, KeyBytes(typed[m])[1]), m, Tail(KeyBytes(typed[m])))
<1> DEFINE k == typed[m]
           first == KeyBytes(k)[1]
           rest == Tail(KeyBytes(k))
           t == Plain(s, first)
<1>1. /\ typed \in Seq(SerialKeys) /\ k \in SerialKeys /\ m \in Nat /\ m # 0
      /\ s.pushed \in Seq(Symbols)
  BY DEF SerialTypes, SoundParser, Parsers
<1>2. k \notin {"ctrl-delete", "[", "ESC", "CR", "LF"}
      /\ terminal \in {<<"CR">>, <<"LF">>, <<"CR", "LF">>}
  BY <1>1 DEF PlainTyping, SerialTypes
<1>3. /\ k \in Symbols /\ "CR" \in Symbols /\ "LF" \in Symbols /\ "ESC" \in Symbols
      /\ "enter" \in Symbols
  BY <1>1 DEF Symbols
<1>4. k # "ctrl-left" => EventOf(k) = k
  BY <1>2 DEF EventOf
<1> HIDE DEF Symbols
<1>5. CASE k = "enter"
  <2>1. KeyBytes(k) = terminal
    BY <1>5 DEF KeyBytes
  <2>2. "enter" = EventOf(typed[m])
    BY <1>4, <1>5
  <2>3. Told(Append(s.pushed, "enter"), m)
    BY <1>1, <1>3, <2>2, ToldMore
  <2>4. CASE terminal = <<"CR">>
    <3>1. first = "CR" /\ rest = <<>> /\ terminal # <<"LF">>
      BY <2>1, <2>4
    <3> HIDE DEF first, rest, k
    <3>2. SoundParser(t) /\ t.escape = "none" /\ t.pushed = Append(s.pushed, "enter")
      BY <1>3, <3>1, PlainDoes
    <3> HIDE DEF t
    <3>3. Decodes(t, m, <<>>)
      BY <2>3, <3>2 DEF Decodes
    <3>4. QED
      BY <3>1, <3>2, <3>3 DEF t, first, rest, k
  <2>5. CASE terminal = <<"LF">>
    <3>1. first = "LF" /\ rest = <<>>
      BY <2>1, <2>5
    <3>2. ~s.skipLf /\ first # "CR"
      BY <2>5, <3>1 DEF SoundParser
    <3> HIDE DEF first, rest, k
    <3>3. SoundParser(t) /\ t.escape = "none" /\ t.pushed = Append(s.pushed, "enter")
      <4>1. first \in Symbols /\ (first = "CR" => terminal # <<"LF">>) /\ first # "ESC"
        BY <1>3, <3>1, <3>2
      <4>2. /\ SoundParser(t) /\ (first # "ESC" => t.escape = s.escape)
            /\ first = "LF" => (~s.skipLf => t.pushed = Append(s.pushed, "enter"))
        BY <4>1, PlainDoes
      <4>3. QED
        BY <3>1, <3>2, <4>1, <4>2
    <3> HIDE DEF t
    <3>4. Decodes(t, m, <<>>)
      BY <2>3, <3>3 DEF Decodes
    <3>5. QED
      BY <3>1, <3>3, <3>4 DEF t, first, rest, k
  <2>6. CASE terminal = <<"CR", "LF">>
    <3>1. first = "CR" /\ rest = <<"LF">> /\ terminal # <<"LF">>
      BY <2>1, <2>6
    <3> HIDE DEF first, rest, k
    <3>2. /\ SoundParser(t) /\ t.escape = "none" /\ t.pushed = Append(s.pushed, "enter")
          /\ t.skipLf = TRUE
      BY <1>3, <3>1, PlainDoes
    <3> HIDE DEF t
    <3>3. Decodes(t, m, <<"LF">>)
      BY <2>3, <3>2 DEF Decodes
    <3>4. QED
      BY <3>1, <3>2, <3>3 DEF t, first, rest, k
  <2>7. QED
    BY <1>2, <2>4, <2>5, <2>6
<1>6. CASE k \in {"up", "delete", "ctrl-left", "escape"}
  <2>1. first = "ESC" /\ <<k, rest>> \in AfterEscape
    <3>1. CASE k = "up"
      <4>1. KeyBytes(k) = <<"ESC", "[", "A">>
        BY <3>1 DEF KeyBytes
      <4>2. first = "ESC" /\ rest = <<"[", "A">>
        BY <4>1
      <4>3. QED
        BY <3>1, <4>2, Zenon DEF AfterEscape
    <3>2. CASE k = "delete"
      <4>1. KeyBytes(k) = <<"ESC", "[", "3", "~">>
        BY <3>2 DEF KeyBytes
      <4>2. first = "ESC" /\ rest = <<"[", "3", "~">>
        BY <4>1
      <4>3. QED
        BY <3>2, <4>2, Zenon DEF AfterEscape
    <3>3. CASE k = "ctrl-left"
      <4>1. KeyBytes(k) = <<"ESC", "[", "1", "semicolon", "5", "D">>
        BY <3>3 DEF KeyBytes
      <4>2. first = "ESC" /\ rest = <<"[", "1", "semicolon", "5", "D">>
        BY <4>1
      <4>3. QED
        BY <3>3, <4>2, Zenon DEF AfterEscape
    <3>4. CASE k = "escape"
      <4>1. KeyBytes(k) = <<"ESC">>
        BY <3>4 DEF KeyBytes
      <4>2. first = "ESC" /\ rest = <<>>
        BY <4>1
      <4>3. QED
        BY <3>4, <4>2, Zenon DEF AfterEscape
    <3>5. QED
      BY <1>6, <3>1, <3>2, <3>3, <3>4
  <2> HIDE DEF first, rest
  <2>2. SoundParser(t) /\ t.escape = "got_esc" /\ t.pushed = s.pushed
    BY <1>3, <2>1, PlainDoes
  <2>3. first # "["
    BY <2>1
  <2> HIDE DEF t
  <2>4. Decodes(t, m, rest)
    <3>1. <<typed[m], rest>> \in AfterEscape
      BY <2>1
    <3> HIDE DEF AfterEscape, k
    <3>2. QED
      BY <1>1, <2>2, <3>1 DEF Decodes
  <2>5. QED
    BY <2>2, <2>3, <2>4 DEF t, first, rest
<1>7. CASE k \notin {"enter", "up", "delete", "ctrl-left", "escape"}
  <2>1. KeyBytes(k) = <<k>>
    BY <1>2, <1>7 DEF KeyBytes
  <2>2. first = k /\ rest = <<>>
    BY <2>1
  <2>3. k \notin {"[", "ESC", "CR", "LF"} /\ k = EventOf(typed[m])
    BY <1>2, <1>4, <1>7
  <2>4. Told(Append(s.pushed, k), m)
    BY <1>1, <1>3, <2>3, ToldMore
  <2> HIDE DEF first, rest, k
  <2>5. SoundParser(t) /\ t.escape = "none" /\ t.pushed = Append(s.pushed, k)
    BY <1>3, <2>2, <2>3, PlainDoes
  <2> HIDE DEF t
  <2>6. Decodes(t, m, <<>>)
    BY <2>4, <2>5 DEF Decodes
  <2>7. QED
    BY <2>2, <2>3, <2>5, <2>6 DEF t, first, rest, k
<1>8. QED
  BY <1>5, <1>6, <1>7

\* The digits, and which of the bytes of a sequence are some.
LEMMA DigitsAre ==
    /\ DOMAIN Digits = 1..10 /\ Len(Digits) = 10
    /\ \A i \in 1..10 : Digits[i] \in {"0", "1", "2", "3", "4", "5", "6", "7", "8", "9"}
    /\ Digits[4] = "3" /\ \A i \in 1..10 : Digits[i] = "3" => i = 4
    /\ Digits[2] = "1" /\ Digits[6] = "5"
<1>1. DOMAIN Digits = 1..10 /\ Len(Digits) = 10
  BY DEF Digits
<1>2. \A i \in 1..10 : Digits[i] \in {"0", "1", "2", "3", "4", "5", "6", "7", "8", "9"}
  BY DEF Digits
<1>3. Digits[4] = "3" /\ Digits[2] = "1" /\ Digits[6] = "5"
  BY DEF Digits
<1>4. \A i \in 1..10 : Digits[i] = "3" => i = 4
  BY DEF Digits
<1>5. QED
  BY <1>1, <1>2, <1>3, <1>4

\* What they are worth.
LEMMA DigitBytes ==
    /\ IsDigit("3") /\ ValueOf("3") = 3 /\ IsDigit("1") /\ IsDigit("5")
    /\ ~IsDigit("A") /\ ~IsDigit("D") /\ ~IsDigit("semicolon") /\ ~IsDigit("~")
    /\ ValueOf("1") \in Int /\ ValueOf("5") \in Int /\ ValueOf("3") \in Int
<1>1. \A x : IsDigit(x) <=> \E i \in 1..10 : Digits[i] = x
  BY DigitsAre DEF IsDigit, Contains
<1>2. IsDigit("3") /\ IsDigit("1") /\ IsDigit("5")
  BY <1>1, DigitsAre
<1>3. ~IsDigit("A") /\ ~IsDigit("D") /\ ~IsDigit("semicolon") /\ ~IsDigit("~")
  BY <1>1, DigitsAre
<1>4. \A x : IsDigit(x) => \E i \in DOMAIN Digits : Digits[i] = x
  BY <1>1, DigitsAre
<1> DEFINE place(x) == CHOOSE i \in DOMAIN Digits : Digits[i] = x
<1>5. ASSUME NEW x, IsDigit(x) PROVE place(x) \in 1..10 /\ Digits[place(x)] = x
  BY <1>4, <1>5, DigitsAre
<1>6. \A x : ValueOf(x) = place(x) - 1
  BY DEF ValueOf
<1> HIDE DEF place
<1>7. place("3") = 4
  BY <1>2, <1>5, DigitsAre
<1>8. ValueOf("3") = 3
  BY <1>6, <1>7
<1>9. ValueOf("1") \in Int /\ ValueOf("5") \in Int
  BY <1>2, <1>5, <1>6
<1>10. ValueOf("3") \in Int
  BY <1>8
<1>11. QED
  BY <1>2, <1>3, <1>8, <1>9, <1>10

\* A digit more.
LEMMA DigitMore ==
    ASSUME NEW n \in Int, NEW w \in Int
    PROVE  n * 10 + w \in Int /\ (w = 3 /\ n = 0 => n * 10 + w = 3) /\ (~(n < 999) => n # 0)
OBVIOUS

\* A parser and one event more.
LEMMA PushIs ==
    ASSUME NEW c, NEW n, NEW b, NEW p, NEW e
    PROVE  PushEvent([escape |-> c, number |-> n, skipLf |-> b, pushed |-> p], e)
             = [escape |-> c, number |-> n, skipLf |-> b, pushed |-> Append(p, e)]
BY DEF PushEvent

\* The fields of a parser.
LEMMA FieldsAre ==
    ASSUME NEW c \in {"none", "got_esc", "csi"}, NEW n \in Int, NEW b \in BOOLEAN,
           NEW p \in Seq(Symbols), b => terminal # <<"LF">>
    PROVE  LET s == [escape |-> c, number |-> n, skipLf |-> b, pushed |-> p]
           IN  /\ s.escape = c /\ s.number = n /\ s.skipLf = b /\ s.pushed = p
               /\ SoundParser(s)
<1> DEFINE s == [escape |-> c, number |-> n, skipLf |-> b, pushed |-> p]
<1> HIDE DEF Symbols
<1>1. s \in Parsers
  BY DEF Parsers
<1>2. s.escape = c /\ s.number = n /\ s.skipLf = b /\ s.pushed = p
  OBVIOUS
<1> HIDE DEF s
<1>3. SoundParser(s)
  BY <1>1, <1>2, Zenon DEF SoundParser
<1>4. QED
  BY <1>2, <1>3, Zenon DEF s

\* Inside a sequence, where the "~" of Delete finds the number 3.
InCsi(s, byte) == s.escape = "csi" /\ (byte = "~" => s.number = 3)

\* What the parser does with a byte of a sequence.
LEMMA CsiDoes ==
    ASSUME NEW s, SoundParser(s),
           NEW byte \in {"A", "D", "1", "3", "5", "semicolon", "~"}, InCsi(s, byte)
    PROVE  /\ SoundParser(ProcessByte(s, byte))
           /\ byte \in {"1", "3", "5", "semicolon"} =>
                 /\ ProcessByte(s, byte).escape = "csi"
                 /\ ProcessByte(s, byte).pushed = s.pushed
           /\ byte = "3" /\ s.number = 0 => ProcessByte(s, byte).number = 3
           /\ byte \in {"A", "D", "~"} =>
                 /\ ProcessByte(s, byte).escape = "none"
                 /\ ProcessByte(s, byte).pushed
                      = Append(s.pushed, IF byte = "A" THEN "up" ELSE IF byte = "D" THEN "left"
                                         ELSE "delete")
<1>1. PICK n \in Int, b \in BOOLEAN, p \in Seq(Symbols) :
        s = [escape |-> "csi", number |-> n, skipLf |-> b, pushed |-> p]
  BY DEF SoundParser, Parsers, InCsi
<1>2. s.number = n /\ s.skipLf = b /\ s.pushed = p /\ (b => terminal # <<"LF">>)
  BY <1>1 DEF SoundParser
<1>3. CASE byte \in {"1", "3", "5"}
  <2>1. IsDigit(byte) /\ ValueOf(byte) \in Int /\ (byte = "3" => ValueOf(byte) = 3)
    <3>1. CASE byte = "1"
      BY <3>1, DigitBytes
    <3>2. CASE byte = "3"
      BY <3>2, DigitBytes
    <3>3. CASE byte = "5"
      BY <3>3, DigitBytes
    <3>4. QED
      BY <1>3, <3>1, <3>2, <3>3
  <2>2. ProcessByte(s, byte)
          = IF s.number < 999 THEN [s EXCEPT !.number = @ * 10 + ValueOf(byte)] ELSE s
    BY <2>1 DEF ProcessByte, InCsi
  <2>3. CASE n < 999
    <3> DEFINE v == n * 10 + ValueOf(byte)
    <3>1. v \in Int /\ (byte = "3" /\ n = 0 => v = 3)
      <4> DEFINE w == ValueOf(byte)
      <4>1. w \in Int /\ (byte = "3" => w = 3)
        BY <2>1
      <4> HIDE DEF w
      <4>2. n * 10 + w \in Int /\ (w = 3 /\ n = 0 => n * 10 + w = 3)
        BY <4>1, DigitMore
      <4>3. QED
        BY <4>1, <4>2 DEF w
    <3>2. ProcessByte(s, byte) = [escape |-> "csi", number |-> v, skipLf |-> b, pushed |-> p]
      BY <1>1, <2>2, <2>3
    <3> HIDE DEF v
    <3>3. "csi" \in {"none", "got_esc", "csi"}
      OBVIOUS
    <3>4. /\ ProcessByte(s, byte).escape = "csi" /\ ProcessByte(s, byte).pushed = p
          /\ ProcessByte(s, byte).number = v /\ SoundParser(ProcessByte(s, byte))
      <4> DEFINE r == [escape |-> "csi", number |-> v, skipLf |-> b, pushed |-> p]
      <4>1. r.escape = "csi" /\ r.pushed = p /\ r.number = v /\ SoundParser(r)
        BY <1>2, <3>1, <3>3, FieldsAre, Zenon
      <4>2. ProcessByte(s, byte) = r
        BY <3>2
      <4> HIDE DEF r
      <4>3. QED
        BY <4>1, <4>2, Zenon
    <3>5. QED
      BY <1>2, <1>3, <3>1, <3>4
  <2>4. CASE ~(n < 999)
    <3>1. s.number # 0 /\ ~(s.number < 999)
      BY <1>2, <2>4, DigitMore, Zenon
    <3>2. ProcessByte(s, byte) = s
      BY <2>2, <3>1, Zenon
    <3>3. QED
      BY <1>3, <3>1, <3>2 DEF InCsi
  <2>5. QED
    BY <2>3, <2>4
<1>4. CASE byte = "semicolon"
  <2>1. ProcessByte(s, byte) = s
    BY <1>4, DigitBytes DEF ProcessByte, InCsi
  <2>2. QED
    BY <1>4, <2>1 DEF InCsi
<1>5. CASE byte \in {"A", "D", "~"}
  <2> DEFINE e == IF byte = "A" THEN "up" ELSE IF byte = "D" THEN "left" ELSE "delete"
             q == Append(p, e)
  <2>1. ProcessByte(s, byte) = FinishCsi(s, byte)
    <3>1. ~IsDigit(byte) /\ byte \notin {"semicolon", "?", ">"}
      BY <1>5, DigitBytes
    <3>2. QED
      BY <3>1 DEF ProcessByte, InCsi
  <2>2. FinishCsi(s, byte) = ResetEscape(PushEvent(s, e))
    <3>1. DOMAIN CsiFinals = {"A", "B", "C", "D", "H", "F"} /\ CsiFinals["A"] = "up"
          /\ CsiFinals["D"] = "left"
      BY DEF CsiFinals
    <3>2. 3 \in DOMAIN CsiNumbers /\ CsiNumbers[3] = "delete"
      <4>1. CsiNumbers[3] = "delete"
        BY DEF CsiNumbers
      <4>2. DOMAIN CsiNumbers = 1..8
        BY DEF CsiNumbers
      <4>3. 3 \in DOMAIN CsiNumbers
        BY <4>2
      <4>4. QED
        BY <4>1, <4>3
    <3>3. CASE byte = "A"
      BY <3>1, <3>3 DEF FinishCsi
    <3>4. CASE byte = "D"
      BY <3>1, <3>4 DEF FinishCsi
    <3>5. CASE byte = "~"
      <4>1. s.number = 3
        BY <3>5 DEF InCsi
      <4>2. s.number \in DOMAIN CsiNumbers /\ CsiNumbers[s.number] = "delete"
        BY <3>2, <4>1, Zenon
      <4>3. byte \notin DOMAIN CsiFinals
        BY <3>1, <3>5
      <4>4. FinishCsi(s, byte) = ResetEscape(PushEvent(s, CsiNumbers[s.number]))
        BY <3>5, <4>2, <4>3, Zenon DEF FinishCsi
      <4>5. e = "delete"
        BY <3>5
      <4>6. QED
        BY <4>2, <4>4, <4>5, Zenon
    <3>6. QED
      BY <1>5, <3>3, <3>4, <3>5
  <2>3. e \in Symbols
    BY DEF Symbols
  <2>4. q \in Seq(Symbols)
    BY <2>3, AppendProperties
  <2> HIDE DEF e
  <2>5. PushEvent(s, e) = [escape |-> "csi", number |-> n, skipLf |-> b, pushed |-> q]
    <3>1. PushEvent([escape |-> "csi", number |-> n, skipLf |-> b, pushed |-> p], e)
            = [escape |-> "csi", number |-> n, skipLf |-> b, pushed |-> Append(p, e)]
      BY PushIs
    <3>2. QED
      BY <1>1, <3>1, Zenon DEF q
  <2>6. q = Append(s.pushed, e)
    BY <1>2
  <2> HIDE DEF q
  <2>7. ResetEscape(PushEvent(s, e)) = [escape |-> "none", number |-> 0, skipLf |-> b, pushed |-> q]
    <3>1. ResetEscape([escape |-> "csi", number |-> n, skipLf |-> b, pushed |-> q])
            = [escape |-> "none", number |-> 0, skipLf |-> b, pushed |-> q]
      BY ResetIs
    <3>2. QED
      BY <2>5, <3>1, Zenon
  <2>8. ProcessByte(s, byte) = [escape |-> "none", number |-> 0, skipLf |-> b, pushed |-> q]
    BY <2>1, <2>2, <2>7, Zenon
  <2>9. "none" \in {"none", "got_esc", "csi"} /\ 0 \in Int
    OBVIOUS
  <2>10. /\ ProcessByte(s, byte).escape = "none" /\ ProcessByte(s, byte).pushed = q
         /\ SoundParser(ProcessByte(s, byte))
    <3> DEFINE r == [escape |-> "none", number |-> 0, skipLf |-> b, pushed |-> q]
    <3>1. r.escape = "none" /\ r.pushed = q /\ SoundParser(r)
      BY <1>2, <2>4, <2>9, FieldsAre, Zenon
    <3>2. ProcessByte(s, byte) = r
      BY <2>8
    <3> HIDE DEF r
    <3>3. QED
      BY <3>1, <3>2, Zenon
  <2>11. QED
    BY <1>5, <2>6, <2>10 DEF e
<1>6. QED
  BY <1>3, <1>4, <1>5

\* A parser after the bracket.
LEMMA BracketIs ==
    ASSUME NEW c, NEW n, NEW b, NEW p, NEW s,
           s = [escape |-> c, number |-> n, skipLf |-> b, pushed |-> p]
    PROVE  [s EXCEPT !.escape = "csi", !.number = 0]
             = [escape |-> "csi", number |-> 0, skipLf |-> b, pushed |-> p]
<1> DEFINE t == [s EXCEPT !.escape = "csi"]
<1>1. t = [escape |-> "csi", number |-> n, skipLf |-> b, pushed |-> p]
  OBVIOUS
<1> HIDE DEF t
<1>2. [t EXCEPT !.number = 0] = [escape |-> "csi", number |-> 0, skipLf |-> b, pushed |-> p]
  BY <1>1
<1>3. QED
  BY <1>2, Zenon DEF t

\* The byte of a key under way.
LEMMA RestByte ==
    ASSUME SerialTypes, PlainTyping, NEW s, SoundParser(s), NEW d \in 0..Len(typed),
           NEW rest \in Seq(Symbols), Len(rest) # 0, Decodes(s, d, rest)
    PROVE  /\ SoundParser(ProcessByte(s, rest[1]))
           /\ Decodes(ProcessByte(s, rest[1]), d, Tail(rest))
<1> DEFINE byte == rest[1]
           t == ProcessByte(s, byte)
<1>1. /\ typed \in Seq(SerialKeys) /\ d \in Nat /\ s.pushed \in Seq(Symbols)
      /\ s.escape \in {"none", "got_esc", "csi"} /\ byte \in Symbols
  BY DEF SerialTypes, SoundParser, Parsers
<1>2. CASE s.escape = "none"
  <2>1. /\ Told(s.pushed, d)
        /\ pauses => \A j \in 1..Len(rest) : rest[j] \notin {"ESC", "CR"}
        /\ ~pauses => rest = <<>> \/ (rest = <<"LF">> /\ s.skipLf)
    BY <1>2 DEF Decodes
  <2>2. t = Plain(s, byte)
    BY <1>2 DEF ProcessByte
  <2>3. CASE pauses
    <3>1. byte \notin {"ESC", "CR"} /\ \A j \in 1..Len(Tail(rest)) : Tail(rest)[j] \notin {"ESC", "CR"}
      <4>1. \A j \in 1..Len(rest) : rest[j] \notin {"ESC", "CR"}
        BY <2>1, <2>3
      <4>2. /\ Len(Tail(rest)) = Len(rest) - 1 /\ Len(rest) \in Nat
            /\ \A j \in 1..(Len(rest) - 1) : Tail(rest)[j] = rest[j + 1]
        <5>1. rest # <<>>
          OBVIOUS
        <5>2. QED
          BY <5>1
      <4>3. 1 \in 1..Len(rest) /\ \A j \in 1..(Len(rest) - 1) : j + 1 \in 1..Len(rest)
        BY <4>2
      <4>4. QED
        BY <4>1, <4>2, <4>3
    <3> HIDE DEF byte
    <3>2. SoundParser(t) /\ t.escape = "none"
      BY <1>1, <1>2, <2>2, <3>1, PlainDoes
    <3>3. Told(t.pushed, d)
      <4>0. /\ byte = "LF" => /\ s.skipLf => t.pushed = s.pushed
                              /\ ~s.skipLf => t.pushed = Append(s.pushed, "enter")
            /\ byte \notin {"ESC", "CR", "LF"} => t.pushed = Append(s.pushed, byte)
        <5>1. byte = "CR" => terminal # <<"LF">>
          BY <3>1
        <5>2. /\ byte = "LF" => /\ s.skipLf => Plain(s, byte).pushed = s.pushed
                                /\ ~s.skipLf => Plain(s, byte).pushed = Append(s.pushed, "enter")
              /\ byte \notin {"ESC", "CR", "LF"} => Plain(s, byte).pushed = Append(s.pushed, byte)
          BY <1>1, <5>1, PlainDoes, Zenon
        <5>3. QED
          BY <2>2, <5>2, Zenon
      <4>1. CASE byte = "LF" /\ s.skipLf
        <5>1. t.pushed = s.pushed
          BY <4>0, <4>1, Zenon
        <5>2. QED
          BY <2>1, <5>1
      <4>2. CASE byte = "LF" /\ ~s.skipLf
        <5>1. t.pushed = Append(s.pushed, "enter")
          BY <4>0, <4>2, Zenon
        <5>2. "enter" \in Symbols
          BY DEF Symbols
        <5>3. QED
          BY <1>1, <2>1, <2>3, <5>1, <5>2, ToldStill
      <4>3. CASE byte # "LF"
        <5>1. t.pushed = Append(s.pushed, byte)
          BY <3>1, <4>0, <4>3
        <5>2. QED
          BY <1>1, <2>1, <2>3, <5>1, ToldStill
      <4>4. QED
        BY <4>1, <4>2, <4>3
    <3> HIDE DEF t
    <3>4. Decodes(t, d, Tail(rest))
      BY <2>3, <3>1, <3>2, <3>3 DEF Decodes
    <3>5. QED
      BY <3>2, <3>4 DEF t, byte
  <2>4. CASE ~pauses
    <3>1. rest = <<"LF">> /\ s.skipLf
      BY <2>1, <2>4
    <3>2. byte = "LF" /\ Tail(rest) = <<>>
      BY <3>1
    <3> HIDE DEF byte
    <3>3. byte # "CR" /\ byte # "ESC"
      BY <3>2
    <3>4. SoundParser(t) /\ t.escape = "none"
      BY <1>1, <1>2, <2>2, <3>3, PlainDoes
    <3>5. t.pushed = s.pushed
      <4>1. byte = "LF" /\ s.skipLf
        BY <3>1, <3>2
      <4>2. byte = "LF" => (s.skipLf => Plain(s, byte).pushed = s.pushed)
        BY <1>1, <3>3, PlainDoes, Zenon
      <4>3. QED
        BY <2>2, <4>1, <4>2, Zenon
    <3> HIDE DEF t
    <3>6. Told(t.pushed, d)
      BY <2>1, <3>5
    <3>7. Decodes(t, d, <<>>)
      BY <3>4, <3>6 DEF Decodes
    <3>8. QED
      BY <3>2, <3>4, <3>7 DEF t, byte
  <2>5. QED
    BY <2>3, <2>4
<1>3. CASE s.escape = "got_esc"
  <2>1. d # 0 /\ Told(s.pushed, d - 1) /\ <<typed[d], rest>> \in AfterEscape
    BY <1>3 DEF Decodes
  <2>2. byte = "[" /\ <<typed[d], Tail(rest)>> \in AfterBracket
    <3> DEFINE k == typed[d]
    <3>1. \/ k = "up" /\ rest = <<"[", "A">>
          \/ k = "delete" /\ rest = <<"[", "3", "~">>
          \/ k = "ctrl-left" /\ rest = <<"[", "1", "semicolon", "5", "D">>
      BY <2>1 DEF AfterEscape
    <3> HIDE DEF k
    <3>2. CASE k = "up" /\ rest = <<"[", "A">>
      <4>1. byte = "[" /\ Tail(rest) = <<"A">>
        BY <3>2
      <4>2. QED
        BY <3>2, <4>1, Zenon DEF AfterBracket, k
    <3>3. CASE k = "delete" /\ rest = <<"[", "3", "~">>
      <4>1. byte = "[" /\ Tail(rest) = <<"3", "~">>
        BY <3>3
      <4>2. QED
        BY <3>3, <4>1, Zenon DEF AfterBracket, k
    <3>4. CASE k = "ctrl-left" /\ rest = <<"[", "1", "semicolon", "5", "D">>
      <4>1. byte = "[" /\ Tail(rest) = <<"1", "semicolon", "5", "D">>
        BY <3>4
      <4>2. QED
        BY <3>4, <4>1, Zenon DEF AfterBracket, k
    <3>5. QED
      BY <3>1, <3>2, <3>3, <3>4
  <2>3. PICK n \in Int, b \in BOOLEAN, p \in Seq(Symbols) :
          s = [escape |-> "got_esc", number |-> n, skipLf |-> b, pushed |-> p]
    BY <1>3 DEF SoundParser, Parsers
  <2>4. s.pushed = p /\ s.skipLf = b /\ (b => terminal # <<"LF">>)
    BY <2>3 DEF SoundParser
  <2>5. t = [escape |-> "csi", number |-> 0, skipLf |-> b, pushed |-> p]
    <3>1. t = [s EXCEPT !.escape = "csi", !.number = 0]
      BY <1>3, <2>2, Zenon DEF ProcessByte
    <3> HIDE DEF t
    <3>2. QED
      BY <2>3, <3>1, BracketIs, Zenon
  <2>6. /\ t.escape = "csi" /\ t.number = 0 /\ t.pushed = s.pushed /\ SoundParser(t)
    <3> DEFINE r == [escape |-> "csi", number |-> 0, skipLf |-> b, pushed |-> p]
    <3>1. "csi" \in {"none", "got_esc", "csi"} /\ 0 \in Int
      OBVIOUS
    <3>2. r.escape = "csi" /\ r.number = 0 /\ r.pushed = p /\ SoundParser(r)
      BY <2>4, <3>1, FieldsAre, Zenon
    <3>3. t = r
      BY <2>5
    <3> HIDE DEF r, t
    <3>4. QED
      BY <2>4, <3>2, <3>3, Zenon
  <2>7. Tail(rest) # <<"~">>
    <3>1. Tail(rest) \in {<<"A">>, <<"3", "~">>, <<"1", "semicolon", "5", "D">>}
      <4>1. CASE rest = <<"[", "A">>
        BY <4>1
      <4>2. CASE rest = <<"[", "3", "~">>
        BY <4>2
      <4>3. CASE rest = <<"[", "1", "semicolon", "5", "D">>
        BY <4>3
      <4>4. QED
        BY <2>1, <4>1, <4>2, <4>3 DEF AfterEscape
    <3>2. QED
      BY <3>1
  <2> HIDE DEF t
  <2>8. Decodes(t, d, Tail(rest))
    <3> HIDE DEF AfterBracket
    <3> QED
      BY <2>1, <2>2, <2>6, <2>7 DEF Decodes
  <2>9. QED
    BY <2>6, <2>8 DEF t, byte
<1>4. CASE s.escape = "csi"
  <2>1. /\ d # 0 /\ Told(s.pushed, d - 1) /\ <<typed[d], rest>> \in AfterBracket
        /\ rest = <<"3", "~">> => s.number = 0
        /\ rest = <<"~">> => s.number = 3
    BY <1>4 DEF Decodes
  <2> DEFINE k == typed[d]
             after == Tail(rest)
  <2>2. d \in 1..Len(typed)
    BY <1>1, <2>1
  <2>3. \/ k = "up" /\ rest = <<"A">>
        \/ k = "delete" /\ rest = <<"3", "~">>
        \/ k = "delete" /\ rest = <<"~">>
        \/ k = "ctrl-left" /\ rest = <<"1", "semicolon", "5", "D">>
        \/ k = "ctrl-left" /\ rest = <<"semicolon", "5", "D">>
        \/ k = "ctrl-left" /\ rest = <<"5", "D">>
        \/ k = "ctrl-left" /\ rest = <<"D">>
    BY <2>1, Zenon DEF AfterBracket
  <2> HIDE DEF k, byte, t, after
  <2>4. ASSUME \/ k = "up" /\ rest = <<"A">>
               \/ k = "ctrl-left" /\ rest = <<"D">>
               \/ k = "delete" /\ rest = <<"~">>
        PROVE  SoundParser(t) /\ Decodes(t, d, after)
    <3> DEFINE e == IF byte = "A" THEN "up" ELSE IF byte = "D" THEN "left" ELSE "delete"
    <3>1. byte \in {"A", "D", "~"} /\ after = <<>> /\ e = EventOf(k) /\ (byte = "~" => rest = <<"~">>)
      <4>1. CASE k = "up" /\ rest = <<"A">>
        BY <4>1 DEF byte, EventOf, after
      <4>2. CASE k = "ctrl-left" /\ rest = <<"D">>
        BY <4>2 DEF byte, EventOf, after
      <4>3. CASE k = "delete" /\ rest = <<"~">>
        BY <4>3 DEF byte, EventOf, after
      <4>4. QED
        BY <2>4, <4>1, <4>2, <4>3
    <3>2. InCsi(s, byte) /\ byte \in {"A", "D", "1", "3", "5", "semicolon", "~"}
      BY <1>4, <2>1, <3>1 DEF InCsi
    <3>3. SoundParser(t) /\ t.escape = "none" /\ t.pushed = Append(s.pushed, e)
      BY <3>1, <3>2, CsiDoes DEF t
    <3>4. e \in Symbols
      BY DEF Symbols
    <3> HIDE DEF e
    <3>5. Told(Append(s.pushed, e), d)
      BY <1>1, <2>1, <2>2, <3>1, <3>4, ToldMore DEF k
    <3>6. Decodes(t, d, <<>>)
      BY <3>3, <3>5 DEF Decodes
    <3>7. QED
      BY <3>1, <3>3, <3>6
  <2>5. ASSUME <<k, after>> \in AfterBracket, byte \in {"1", "3", "5", "semicolon"},
               after # <<"3", "~">>, after = <<"~">> => byte = "3" /\ rest = <<"3", "~">>
        PROVE  SoundParser(t) /\ Decodes(t, d, after)
    <3>1. InCsi(s, byte) /\ byte \in {"A", "D", "1", "3", "5", "semicolon", "~"}
      BY <1>4, <2>5 DEF InCsi
    <3>2. /\ SoundParser(t) /\ t.escape = "csi" /\ t.pushed = s.pushed
          /\ byte = "3" /\ s.number = 0 => t.number = 3
      BY <2>5, <3>1, CsiDoes DEF t
    <3>3. after = <<"~">> => t.number = 3
      BY <2>1, <2>5, <3>2
    <3>4. <<typed[d], after>> \in AfterBracket
      BY <2>5 DEF k
    <3> HIDE DEF AfterBracket
    <3>5. Decodes(t, d, after)
      BY <2>1, <2>5, <3>2, <3>3, <3>4 DEF Decodes
    <3>6. QED
      BY <3>2, <3>5
  <2>6. ASSUME k = "delete" /\ rest = <<"3", "~">>
        PROVE  SoundParser(t) /\ Decodes(t, d, after)
    <3>1. byte = "3" /\ after = <<"~">>
      BY <2>6 DEF byte, after
    <3>2. <<k, <<"~">> >> \in AfterBracket
      BY <2>6, Zenon DEF AfterBracket
    <3>3. <<"~">> # <<"3", "~">>
      OBVIOUS
    <3>4. /\ <<k, after>> \in AfterBracket /\ after # <<"3", "~">>
          /\ after = <<"~">> => byte = "3" /\ rest = <<"3", "~">>
      BY <2>6, <3>1, <3>2, <3>3, Zenon
    <3>5. byte \in {"1", "3", "5", "semicolon"}
      BY <3>1
    <3>6. QED
      BY <2>5, <3>4, <3>5
  <2>7. ASSUME k = "ctrl-left" /\ rest = <<"1", "semicolon", "5", "D">>
        PROVE  SoundParser(t) /\ Decodes(t, d, after)
    <3>1. byte = "1" /\ after = <<"semicolon", "5", "D">>
      BY <2>7 DEF byte, after
    <3>2. <<k, <<"semicolon", "5", "D">> >> \in AfterBracket
      BY <2>7, Zenon DEF AfterBracket
    <3>3. <<"semicolon", "5", "D">> # <<"3", "~">> /\ <<"semicolon", "5", "D">> # <<"~">>
      OBVIOUS
    <3>4. /\ <<k, after>> \in AfterBracket /\ after # <<"3", "~">>
          /\ after = <<"~">> => byte = "3" /\ rest = <<"3", "~">>
      BY <2>7, <3>1, <3>2, <3>3, Zenon
    <3>5. byte \in {"1", "3", "5", "semicolon"}
      BY <3>1
    <3>6. QED
      BY <2>5, <3>4, <3>5
  <2>8. ASSUME k = "ctrl-left" /\ rest = <<"semicolon", "5", "D">>
        PROVE  SoundParser(t) /\ Decodes(t, d, after)
    <3>1. byte = "semicolon" /\ after = <<"5", "D">>
      BY <2>8 DEF byte, after
    <3>2. <<k, <<"5", "D">> >> \in AfterBracket
      BY <2>8, Zenon DEF AfterBracket
    <3>3. <<"5", "D">> # <<"3", "~">> /\ <<"5", "D">> # <<"~">>
      OBVIOUS
    <3>4. /\ <<k, after>> \in AfterBracket /\ after # <<"3", "~">>
          /\ after = <<"~">> => byte = "3" /\ rest = <<"3", "~">>
      BY <2>8, <3>1, <3>2, <3>3, Zenon
    <3>5. byte \in {"1", "3", "5", "semicolon"}
      BY <3>1
    <3>6. QED
      BY <2>5, <3>4, <3>5
  <2>9. ASSUME k = "ctrl-left" /\ rest = <<"5", "D">>
        PROVE  SoundParser(t) /\ Decodes(t, d, after)
    <3>1. byte = "5" /\ after = <<"D">>
      BY <2>9 DEF byte, after
    <3>2. <<k, <<"D">> >> \in AfterBracket
      BY <2>9, Zenon DEF AfterBracket
    <3>3. <<"D">> # <<"3", "~">> /\ <<"D">> # <<"~">>
      OBVIOUS
    <3>4. /\ <<k, after>> \in AfterBracket /\ after # <<"3", "~">>
          /\ after = <<"~">> => byte = "3" /\ rest = <<"3", "~">>
      BY <2>9, <3>1, <3>2, <3>3, Zenon
    <3>5. byte \in {"1", "3", "5", "semicolon"}
      BY <3>1
    <3>6. QED
      BY <2>5, <3>4, <3>5
  <2>10. SoundParser(t) /\ Decodes(t, d, after)
    BY <2>3, <2>4, <2>6, <2>7, <2>8, <2>9, Zenon
  <2>11. QED
    BY <2>10 DEF t, after, byte
<1>5. QED
  BY <1>1, <1>2, <1>3, <1>4

\* The first byte of the next key.
LEMMA NextKeyByte ==
    ASSUME SerialTypes, PlainTyping, NEW s, SoundParser(s), NEW d \in 0..Len(typed), d < Len(typed),
           Decodes(s, d, <<>>)
    PROVE  /\ SoundParser(ProcessByte(s, KeyBytes(typed[d + 1])[1]))
           /\ Decodes(ProcessByte(s, KeyBytes(typed[d + 1])[1]), d + 1, Tail(KeyBytes(typed[d + 1])))
<1> DEFINE m == d + 1
           first == KeyBytes(typed[m])[1]
<1>1. typed \in Seq(SerialKeys) /\ d \in Nat /\ m \in 1..Len(typed) /\ m - 1 = d
  BY DEF SerialTypes
<1>2. s.escape \in {"none", "got_esc", "csi"}
  BY DEF SoundParser, Parsers
<1> HIDE DEF m, first
<1>3. CASE s.escape = "none"
  <2>1. Told(s.pushed, d)
    BY <1>3 DEF Decodes
  <2>2. ProcessByte(s, first) = Plain(s, first)
    BY <1>3, Zenon DEF ProcessByte
  <2>3. QED
    BY <1>1, <1>3, <2>1, <2>2, KeyBegins DEF m, first
<1>4. CASE s.escape = "got_esc"
  <2> DEFINE r == ResetEscape(PushEvent(s, "escape"))
  <2>1. d # 0 /\ Told(s.pushed, d - 1) /\ <<typed[d], <<>> >> \in AfterEscape
    BY <1>4 DEF Decodes
  <2>2. typed[d] = "escape"
    BY <2>1 DEF AfterEscape
  <2>3. d \in 1..Len(typed) /\ "escape" = EventOf(typed[d]) /\ "escape" \in Symbols
    BY <1>1, <2>1, <2>2 DEF EventOf, Symbols
  <2>4. /\ SoundParser(r) /\ r.escape = "none" /\ r.pushed = Append(s.pushed, "escape")
        /\ s.pushed \in Seq(Symbols)
    BY LoneEscape
  <2>5. Told(r.pushed, d)
    BY <1>1, <2>1, <2>3, <2>4, ToldMore
  <2> HIDE DEF r
  <2>6. /\ first # "[" /\ SoundParser(Plain(r, first))
        /\ Decodes(Plain(r, first), m, Tail(KeyBytes(typed[m])))
    BY <1>1, <2>4, <2>5, KeyBegins DEF first
  <2>7. ProcessByte(s, first) = Plain(r, first)
    BY <1>4, <2>6, Zenon DEF ProcessByte, r
  <2>8. QED
    BY <2>6, <2>7 DEF m, first
<1>5. CASE s.escape = "csi"
  <2>1. <<typed[d], <<>> >> \in AfterBracket
    BY <1>5 DEF Decodes
  <2>2. FALSE
    BY <2>1 DEF AfterBracket
  <2>3. QED
    BY <2>2
<1>6. QED
  BY <1>2, <1>3, <1>4, <1>5

\* The same keys on the same terminal are the same stream.
LEMMA StreamKept ==
    ASSUME NEW bytes, NEW d, NEW rest, Stream(bytes, d, rest), Unread' = bytes,
           terminal' = terminal, typed' = typed
    PROVE  Stream(Unread, d, rest)'
<1>1. \A k : (KeyBytes(k))' = KeyBytes(k)
  BY DEF KeyBytes
<1>2. PICK ends \in [d..Len(typed) -> Nat] :
        /\ Chain(ends, bytes, d)
        /\ ends[d] = Len(rest) /\ \A j \in 1..Len(rest) : bytes[j] = rest[j]
  BY DEF Stream
<1>3. Chain(ends, Unread, d)'
  <2>1. \A i \in (d + 1)..Len(typed) :
          /\ ends[i] = ends[i - 1] + Len((KeyBytes(typed[i]))')
          /\ \A j \in 1..Len((KeyBytes(typed[i]))') :
                bytes[ends[i - 1] + j] = (KeyBytes(typed[i]))'[j]
    BY <1>1, <1>2 DEF Chain
  <2>2. QED
    BY <1>2, <2>1 DEF Chain
<1>4. QED
  BY <1>2, <1>3 DEF Stream

\* A parser whose variables become s has become s.
LEMMA ParserMoves ==
    ASSUME NEW s, SoundParser(s), ParserBecomes(s), terminal' = terminal
    PROVE  Parser' = s /\ SoundParser(Parser)'
<1>1. PICK c \in {"none", "got_esc", "csi"}, n \in Int, b \in BOOLEAN, p \in Seq(Symbols) :
        s = [escape |-> c, number |-> n, skipLf |-> b, pushed |-> p]
  BY DEF SoundParser, Parsers
<1>2. s.escape = c /\ s.number = n /\ s.skipLf = b /\ s.pushed = p
  BY <1>1
<1>3. Parser' = s
  BY <1>1, <1>2 DEF Parser, ParserBecomes
<1>4. SoundParser(s)'
  BY DEF SoundParser
<1>5. QED
  BY <1>3, <1>4 DEF SoundParser

\* How far it is with a key stays as it is.
LEMMA DecodesKept ==
    ASSUME NEW d, NEW rest, NEW s, Decodes(s, d, rest), Parser' = s,
           typed' = typed, pauses' = pauses
    PROVE  Decodes(Parser, d, rest)'
<1>1. Decodes(s, d, rest)'
  BY DEF Decodes, Told
<1>2. QED
  BY <1>1 DEF Decodes, Told

\* The bytes left when one is taken from the FIFO.
LEMMA UnreadIs ==
    ASSUME SerialTypes
    PROVE  /\ Unread \in Seq(Symbols) /\ Len(Unread) = Len(uart) + Len(wire)
           /\ uart # <<>> => /\ Len(Unread) # 0 /\ Head(Unread) = Head(uart)
                             /\ Tail(Unread) = Tail(uart) \o wire
           /\ wire # <<>> => Append(uart, Head(wire)) \o Tail(wire) = Unread
<1>1. uart \in Seq(Symbols) /\ wire \in Seq(Symbols)
  BY DEF SerialTypes
<1>2. Unread \in Seq(Symbols) /\ Len(Unread) = Len(uart) + Len(wire)
  BY <1>1 DEF Unread
<1>3. ASSUME uart # <<>>
      PROVE  Len(Unread) # 0 /\ Head(Unread) = Head(uart) /\ Tail(Unread) = Tail(uart) \o wire
  <2>1. Len(uart) \in Nat \ {0} /\ Len(wire) \in Nat
    BY <1>1, <1>3
  <2>2. Len(Unread) # 0
    BY <1>2, <2>1
  <2>3. Unread # <<>>
    BY <2>2
  <2>4. Head(Unread) = Unread[1] /\ Head(uart) = uart[1]
    BY <1>1, <1>2
  <2>5. \A i \in 1..Len(Unread) :
          Unread[i] = IF i <= Len(uart) THEN uart[i] ELSE wire[i - Len(uart)]
    BY <1>1 DEF Unread
  <2>6. Head(Unread) = Head(uart)
    BY <1>2, <2>1, <2>4, <2>5
  <2>7. /\ Tail(uart) \in Seq(Symbols) /\ Len(Tail(uart)) = Len(uart) - 1
        /\ \A i \in 1..(Len(uart) - 1) : Tail(uart)[i] = uart[i + 1]
    BY <1>1, <1>3
  <2>8. /\ Tail(Unread) \in Seq(Symbols) /\ Len(Tail(Unread)) = Len(Unread) - 1
        /\ \A i \in 1..(Len(Unread) - 1) : Tail(Unread)[i] = Unread[i + 1]
    BY <1>2, <2>3
  <2> DEFINE w == Tail(uart) \o wire
  <2>9. /\ w \in Seq(Symbols) /\ Len(w) = Len(uart) - 1 + Len(wire)
        /\ \A i \in 1..Len(w) :
              w[i] = IF i <= Len(uart) - 1 THEN Tail(uart)[i] ELSE wire[i - (Len(uart) - 1)]
    BY <1>1, <2>7
  <2> HIDE DEF w
  <2>10. Len(w) = Len(Tail(Unread))
    BY <1>2, <2>1, <2>8, <2>9
  <2>11. ASSUME NEW i \in 1..Len(w) PROVE w[i] = Tail(Unread)[i]
    <3>1. i \in Nat /\ i >= 1 /\ i <= Len(Unread) - 1 /\ i + 1 \in 1..Len(Unread)
      BY <1>2, <2>1, <2>9
    <3>2. Tail(Unread)[i] = IF i + 1 <= Len(uart) THEN uart[i + 1] ELSE wire[(i + 1) - Len(uart)]
      BY <1>2, <2>1, <2>5, <2>8, <3>1
    <3>3. CASE i <= Len(uart) - 1
      <4>1. i \in 1..(Len(uart) - 1) /\ i + 1 <= Len(uart)
        BY <2>1, <3>1, <3>3
      <4>2. QED
        BY <2>7, <2>9, <3>2, <3>3, <4>1
    <3>4. CASE ~(i <= Len(uart) - 1)
      <4>1. ~(i + 1 <= Len(uart)) /\ i - (Len(uart) - 1) = (i + 1) - Len(uart)
        BY <2>1, <3>1, <3>4
      <4>2. QED
        BY <2>9, <3>2, <3>4, <4>1
    <3>5. QED
      BY <3>3, <3>4
  <2>12. w = Tail(Unread)
    BY <2>8, <2>9, <2>10, <2>11, SeqEqual
  <2>13. QED
    BY <2>2, <2>6, <2>12 DEF w
<1>4. ASSUME wire # <<>>
      PROVE  Append(uart, Head(wire)) \o Tail(wire) = Unread
  <2> DEFINE v == Append(uart, Head(wire)) \o Tail(wire)
  <2>1. Len(wire) \in Nat \ {0} /\ Len(uart) \in Nat /\ Head(wire) = wire[1] /\ Head(wire) \in Symbols
    BY <1>1, <1>4
  <2>2. /\ Tail(wire) \in Seq(Symbols) /\ Len(Tail(wire)) = Len(wire) - 1
        /\ \A i \in 1..(Len(wire) - 1) : Tail(wire)[i] = wire[i + 1]
    BY <1>1, <1>4
  <2>3. /\ Append(uart, Head(wire)) \in Seq(Symbols)
        /\ Len(Append(uart, Head(wire))) = Len(uart) + 1
        /\ \A i \in 1..Len(uart) : Append(uart, Head(wire))[i] = uart[i]
        /\ Append(uart, Head(wire))[Len(uart) + 1] = Head(wire)
    BY <1>1, <2>1
  <2>4. /\ v \in Seq(Symbols) /\ Len(v) = Len(uart) + 1 + (Len(wire) - 1)
        /\ \A i \in 1..Len(v) : v[i] = IF i <= Len(uart) + 1 THEN Append(uart, Head(wire))[i]
                                       ELSE Tail(wire)[i - (Len(uart) + 1)]
    BY <2>1, <2>2, <2>3
  <2> HIDE DEF v
  <2>5. \A i \in 1..Len(Unread) :
          Unread[i] = IF i <= Len(uart) THEN uart[i] ELSE wire[i - Len(uart)]
    BY <1>1 DEF Unread
  <2>6. Len(v) = Len(Unread)
    BY <1>2, <2>1, <2>4
  <2>7. ASSUME NEW i \in 1..Len(v) PROVE v[i] = Unread[i]
    <3>1. i \in Nat /\ i >= 1 /\ i <= Len(uart) + Len(wire)
      BY <1>2, <2>1, <2>4
    <3>2. Unread[i] = IF i <= Len(uart) THEN uart[i] ELSE wire[i - Len(uart)]
      BY <2>5, <2>6
    <3>3. CASE i <= Len(uart)
      BY <2>1, <2>3, <2>4, <3>1, <3>2, <3>3
    <3>4. CASE i = Len(uart) + 1
      <4>1. ~(i <= Len(uart)) /\ i - Len(uart) = 1
        BY <2>1, <3>4
      <4>2. QED
        BY <2>1, <2>3, <2>4, <3>2, <3>4, <4>1
    <3>5. CASE i > Len(uart) + 1
      <4>1. /\ ~(i <= Len(uart)) /\ ~(i <= Len(uart) + 1)
            /\ i - (Len(uart) + 1) \in 1..(Len(wire) - 1)
            /\ (i - (Len(uart) + 1)) + 1 = i - Len(uart)
        BY <2>1, <3>1, <3>5
      <4>2. QED
        BY <2>2, <2>4, <3>2, <4>1
    <3>6. QED
      BY <2>1, <3>1, <3>3, <3>4, <3>5
  <2>8. QED
    BY <1>2, <2>4, <2>6, <2>7, SeqEqual DEF v
<1>5. QED
  BY <1>2, <1>3, <1>4

\* A byte read keeps the invariant.
LEMMA ReadByteKeeps ==
    ASSUME SerialInvariant, PlainTyping, ReadByte
    PROVE  SerialInvariant'
<1>1. PICK d \in 0..Len(typed), rest \in Seq(Symbols) :
        Stream(Unread, d, rest) /\ Decodes(Parser, d, rest)
  BY DEF SerialInvariant
<1>2. SerialTypes /\ SoundParser(Parser)
  BY DEF SerialInvariant, SerialTypes
<1>3. /\ uart # <<>> /\ ParserBecomes(ProcessByte(Parser, Head(uart))) /\ uart' = Tail(uart)
      /\ wire' = wire /\ typed' = typed /\ terminal' = terminal /\ pauses' = pauses
  BY DEF ReadByte
<1>4. /\ Unread \in Seq(Symbols) /\ Len(Unread) # 0 /\ Head(Unread) = Head(uart)
      /\ Tail(Unread) = Tail(uart) \o wire
  BY <1>2, <1>3, UnreadIs
<1>5. Unread' = Tail(Unread)
  BY <1>3, <1>4 DEF Unread
<1>6. typed \in Seq(SerialKeys) /\ Len(typed) \in Nat /\ uart \in Seq(Symbols) /\ wire \in Seq(Symbols)
      /\ terminal \in Enters
  BY <1>2 DEF SerialTypes
<1> DEFINE s == ProcessByte(Parser, Head(uart))
<1>7. PICK e \in 0..Len(typed), left \in Seq(Symbols) :
        SoundParser(s) /\ Decodes(s, e, left) /\ Stream(Tail(Unread), e, left)
  <2>1. CASE Len(rest) # 0 /\ Head(Unread) = rest[1] /\ Stream(Tail(Unread), d, Tail(rest))
    <3>1. SoundParser(s) /\ Decodes(s, d, Tail(rest))
      <4>1. Head(uart) = rest[1]
        BY <1>4, <2>1
      <4> HIDE DEF s
      <4>2. SoundParser(ProcessByte(Parser, rest[1])) /\ Decodes(ProcessByte(Parser, rest[1]), d, Tail(rest))
        BY <1>1, <1>2, <2>1, RestByte
      <4>3. QED
        BY <4>1, <4>2 DEF s
    <3>2. Tail(rest) \in Seq(Symbols)
      <4>1. rest # <<>>
        BY <2>1
      <4>2. QED
        BY <4>1
    <3>3. QED
      BY <2>1, <3>1, <3>2
  <2>2. CASE /\ Len(rest) = 0 /\ d < Len(typed)
             /\ Head(Unread) = KeyBytes(typed[d + 1])[1]
             /\ Stream(Tail(Unread), d + 1, Tail(KeyBytes(typed[d + 1])))
    <3>1. rest = <<>>
      BY <2>2
    <3> DEFINE k == typed[d + 1]
    <3>2. SoundParser(s) /\ Decodes(s, d + 1, Tail(KeyBytes(k)))
      <4>1. Head(uart) = KeyBytes(k)[1]
        BY <1>4, <2>2
      <4> HIDE DEF s
      <4>2. /\ SoundParser(ProcessByte(Parser, KeyBytes(k)[1]))
            /\ Decodes(ProcessByte(Parser, KeyBytes(k)[1]), d + 1, Tail(KeyBytes(k)))
        BY <1>1, <1>2, <2>2, <3>1, NextKeyByte
      <4>3. QED
        BY <4>1, <4>2 DEF s
    <3>3. d + 1 \in 0..Len(typed) /\ k \in SerialKeys
      BY <1>6, <2>2
    <3> HIDE DEF k
    <3>4. KeyBytes(k) \in Seq(Symbols) /\ KeyBytes(k) # <<>>
      <4>1. KeyBytes(k) \in Seq(Symbols) /\ Len(KeyBytes(k)) >= 1
        BY <1>6, <3>3, KeyBytesAre
      <4>2. QED
        BY <4>1
    <3>5. Tail(KeyBytes(k)) \in Seq(Symbols)
      BY <3>4
    <3>6. Stream(Tail(Unread), d + 1, Tail(KeyBytes(k)))
      BY <2>2 DEF k
    <3> HIDE DEF s
    <3>7. QED
      BY <3>2, <3>3, <3>5, <3>6
  <2>3. QED
    BY <1>1, <1>2, <1>4, <2>1, <2>2, StreamNext
<1> HIDE DEF s
<1>8. Parser' = s /\ SoundParser(Parser)'
  BY <1>3, <1>7, ParserMoves DEF s
<1>9. Decodes(Parser, e, left)'
  BY <1>3, <1>7, <1>8, DecodesKept
<1>10. Stream(Tail(Unread), e, left)
  BY <1>7
<1>11. Stream(Unread, e, left)'
  BY <1>3, <1>5, <1>10, StreamKept
<1>12. SerialTypes'
  <2>1. Tail(uart) \in Seq(Symbols)
    BY <1>3, <1>6
  <2>2. QED
    BY <1>3, <1>6, <1>8, <2>1 DEF SerialTypes
<1>13. e \in (0..Len(typed))'
  BY <1>3
<1>14. QED
  BY <1>9, <1>11, <1>12, <1>13 DEF SerialInvariant

\* A key more is at the end of the stream.
LEMMA StreamMore ==
    ASSUME SerialTypes, PlainTyping, NEW bytes \in Seq(Symbols), NEW d \in 0..Len(typed), NEW rest,
           Stream(bytes, d, rest), NEW k \in SerialKeys, Unread' = bytes \o KeyBytes(k),
           typed' = Append(typed, k), terminal' = terminal
    PROVE  Stream(Unread, d, rest)'
<1> DEFINE n == Len(typed)
           b == Len(bytes)
           l == Len(KeyBytes(k))
<1>1. PICK ends \in [d..n -> Nat] :
        /\ Chain(ends, bytes, d)
        /\ ends[d] = Len(rest) /\ \A j \in 1..Len(rest) : bytes[j] = rest[j]
  BY DEF Stream
<1>2. typed \in Seq(SerialKeys) /\ terminal \in Enters
  BY DEF SerialTypes
<1>3. KeyBytes(k) \in Seq(Symbols) /\ l >= 1 /\ l \in Nat
  BY <1>2, KeyBytesAre
<1>4. n \in Nat /\ b \in Nat /\ d \in Nat /\ d <= n
  BY <1>2
<1>5. /\ ends[n] = b
      /\ \A i, j \in d..n : i <= j => ends[i] + (j - i) <= ends[j]
      /\ \A i \in (d + 1)..n :
            /\ ends[i] = ends[i - 1] + Len(KeyBytes(typed[i]))
            /\ \A j \in 1..Len(KeyBytes(typed[i])) :
                  bytes[ends[i - 1] + j] = KeyBytes(typed[i])[j]
  BY <1>1 DEF Chain
<1>6. /\ Len(typed') = n + 1 /\ typed'[n + 1] = k /\ \A i \in 1..n : typed'[i] = typed[i]
  BY <1>2
<1>7. /\ Unread' \in Seq(Symbols) /\ Len(Unread') = b + l
      /\ \A j \in 1..b : Unread'[j] = bytes[j]
      /\ \A j \in 1..l : Unread'[b + j] = KeyBytes(k)[j]
  <2>1. (bytes \o KeyBytes(k)) \in Seq(Symbols) /\ Len(bytes \o KeyBytes(k)) = b + l
    BY <1>3
  <2>2. \A j \in 1..(b + l) :
          (bytes \o KeyBytes(k))[j] = IF j <= b THEN bytes[j] ELSE KeyBytes(k)[j - b]
    BY <1>3
  <2>3. \A j \in 1..b : j \in 1..(b + l) /\ j <= b
    BY <1>3, <1>4
  <2>4. \A j \in 1..l : b + j \in 1..(b + l) /\ ~(b + j <= b) /\ (b + j) - b = j
    BY <1>3, <1>4
  <2>5. QED
    BY <2>1, <2>2, <2>3, <2>4
<1> DEFINE f == [i \in d..(n + 1) |-> IF i <= n THEN ends[i] ELSE b + l]
<1> HIDE DEF n, b, l
<1>8. \A i \in d..n : ends[i] \in Nat
  BY <1>1
<1>9. f \in [d..(n + 1) -> Nat] /\ f[n + 1] = b + l /\ \A i \in d..n : f[i] = ends[i]
  <2>1. \A i \in d..(n + 1) : (IF i <= n THEN ends[i] ELSE b + l) \in Nat
    <3>1. ASSUME NEW i \in d..(n + 1) PROVE (IF i <= n THEN ends[i] ELSE b + l) \in Nat
      <4>1. CASE i <= n
        <5>1. i \in d..n
          BY <1>4, <4>1
        <5>2. QED
          BY <1>8, <4>1, <5>1
      <4>2. CASE ~(i <= n)
        BY <1>3, <1>4, <4>2
      <4>3. QED
        BY <4>1, <4>2
    <3>2. QED
      BY <3>1
  <2>2. f \in [d..(n + 1) -> Nat]
    BY <2>1
  <2>3. n + 1 \in d..(n + 1) /\ ~(n + 1 <= n) /\ \A i \in d..n : i \in d..(n + 1) /\ i <= n
    BY <1>4
  <2>4. QED
    BY <2>2, <2>3
<1> HIDE DEF f
<1>10. n \in d..n /\ \A i \in d..n : ends[i] + (n - i) <= b
  <2>1. n \in d..n /\ \A i \in d..n : i <= n
    BY <1>4
  <2>2. QED
    BY <1>5, <2>1
<1>11. \A i, j \in d..(n + 1) : i <= j => f[i] + (j - i) <= f[j]
  <2>1. SUFFICES ASSUME NEW i \in d..(n + 1), NEW j \in d..(n + 1), i <= j
                 PROVE  f[i] + (j - i) <= f[j]
    OBVIOUS
  <2>2. CASE j <= n
    <3>1. i \in d..n /\ j \in d..n
      BY <1>4, <2>1, <2>2
    <3>2. QED
      BY <1>5, <1>9, <2>1, <3>1
  <2>3. CASE j = n + 1 /\ i <= n
    <3>1. i \in d..n
      BY <1>4, <2>3
    <3>2. /\ f[i] = ends[i] /\ ends[i] \in Nat /\ ends[i] + (n - i) <= b /\ f[j] = b + l
      BY <1>8, <1>9, <1>10, <2>3, <3>1
    <3> DEFINE x == ends[i]
               y == f[j]
    <3>3. x \in Nat /\ x + (n - i) <= b /\ y = b + l /\ i \in Nat /\ i <= n
      BY <1>4, <2>3, <3>1, <3>2
    <3> HIDE DEF x, y
    <3>4. x + ((n + 1) - i) <= y
      BY <1>3, <1>4, <3>3
    <3>5. QED
      BY <2>3, <3>2, <3>4 DEF x, y
  <2>4. CASE i = n + 1 /\ j = n + 1
    <3>1. f[i] = b + l /\ f[j] = b + l
      BY <1>9, <2>4
    <3>2. (b + l) + ((n + 1) - (n + 1)) <= b + l
      BY <1>3, <1>4
    <3>3. QED
      BY <2>4, <3>1, <3>2
  <2>5. QED
    BY <1>4, <2>1, <2>2, <2>3, <2>4
<1>12. \A i \in 1..(n + 1) : (KeyBytes(typed[i]))' = KeyBytes(typed'[i])
  BY DEF KeyBytes
<1>13. ASSUME NEW i \in (d + 1)..(n + 1)
       PROVE  /\ f[i] = f[i - 1] + Len((KeyBytes(typed[i]))')
              /\ \A j \in 1..Len((KeyBytes(typed[i]))') :
                    Unread'[f[i - 1] + j] = (KeyBytes(typed[i]))'[j]
  <2>1. CASE i = n + 1
    <3>1. /\ i \in 1..(n + 1) /\ i - 1 = n /\ n \in d..n
      BY <1>4, <2>1
    <3>2. (KeyBytes(typed[i]))' = KeyBytes(k)
      BY <1>6, <1>12, <2>1, <3>1 DEF n
    <3>3. f[i] = b + l /\ f[i - 1] = b
      BY <1>5, <1>9, <2>1, <3>1
    <3>4. \A j \in 1..l : Unread'[b + j] = KeyBytes(k)[j]
      BY <1>7
    <3>5. QED
      BY <3>2, <3>3, <3>4 DEF l
  <2>2. CASE i # n + 1
    <3>1. /\ i \in 1..(n + 1) /\ i \in 1..n /\ i - 1 \in d..n /\ i \in d..n /\ i \in (d + 1)..n
      BY <1>4, <2>2
    <3>2. (KeyBytes(typed[i]))' = KeyBytes(typed[i])
      <4>1. typed'[i] = typed[i]
        BY <1>6, <3>1
      <4>2. QED
        BY <1>12, <3>1, <4>1
    <3> DEFINE m == Len(KeyBytes(typed[i]))
    <3>3. /\ ends[i] = ends[i - 1] + m /\ f[i] = ends[i] /\ f[i - 1] = ends[i - 1]
          /\ \A j \in 1..m : bytes[ends[i - 1] + j] = KeyBytes(typed[i])[j]
      BY <1>5, <1>9, <3>1
    <3>4. m \in Nat
      <4>1. typed[i] \in SerialKeys
        BY <1>2, <3>1 DEF n
      <4>2. QED
        BY <1>2, <4>1, KeyBytesAre
    <3> HIDE DEF m
    <3>5. \A j \in 1..m : ends[i - 1] + j \in 1..b
      <4>1. ends[i] + (n - i) <= b /\ ends[i] \in Nat /\ ends[i - 1] \in Nat /\ i \in Nat /\ i <= n
        BY <1>4, <1>8, <1>10, <3>1
      <4> DEFINE x == ends[i - 1]
                 y == ends[i]
      <4>2. x \in Nat /\ y \in Nat /\ y = x + m /\ y + (n - i) <= b
        BY <3>3, <4>1
      <4> HIDE DEF x, y
      <4>3. \A j \in 1..m : x + j \in 1..b
        BY <1>4, <3>4, <4>1, <4>2
      <4>4. QED
        BY <4>3 DEF x
    <3>6. \A j \in 1..m : Unread'[f[i - 1] + j] = KeyBytes(typed[i])[j]
      BY <1>7, <3>3, <3>5
    <3>7. QED
      BY <3>2, <3>3, <3>6 DEF m
  <2>3. QED
    BY <2>1, <2>2
<1>14. Len(rest) <= b
  <2>1. d \in d..n
    BY <1>4
  <2>2. ends[d] + (n - d) <= b /\ ends[d] \in Nat
    BY <1>8, <1>10, <2>1
  <2>3. QED
    BY <1>1, <1>4, <2>2
<1>15. f[d] = Len(rest) /\ \A j \in 1..Len(rest) : Unread'[j] = rest[j]
  <2>1. d \in d..n /\ ends[d] \in Nat
    BY <1>4, <1>8
  <2>2. f[d] = Len(rest)
    BY <1>1, <1>9, <2>1
  <2>3. \A j \in 1..Len(rest) : j \in 1..b
    BY <1>1, <1>4, <1>14, <2>1
  <2>4. QED
    BY <1>1, <1>7, <2>2, <2>3
<1>16. PICK g : g = f
  OBVIOUS
<1>17. Chain(g, Unread, d)'
  <2>1. g \in [d..Len(typed') -> Nat] /\ g[Len(typed')] = Len(Unread')
    BY <1>6, <1>7, <1>9, <1>16
  <2>2. \A i, j \in d..Len(typed') : i <= j => g[i] + (j - i) <= g[j]
    BY <1>6, <1>11, <1>16
  <2>3. \A i \in (d + 1)..Len(typed') :
          /\ g[i] = g[i - 1] + Len((KeyBytes(typed[i]))')
          /\ \A j \in 1..Len((KeyBytes(typed[i]))') :
                Unread'[g[i - 1] + j] = (KeyBytes(typed[i]))'[j]
    BY <1>6, <1>13, <1>16
  <2>4. QED
    BY <2>1, <2>2, <2>3 DEF Chain
<1>18. g \in [d..Len(typed') -> Nat] /\ g[d] = Len(rest)
  BY <1>6, <1>9, <1>15, <1>16
<1>19. QED
  BY <1>15, <1>17, <1>18 DEF Stream

\* A key typed keeps the invariant.
LEMMA TypeKeeps ==
    ASSUME SerialInvariant, PlainTyping, NEW k \in SerialKeys, Type(k)
    PROVE  SerialInvariant'
<1>1. PICK d \in 0..Len(typed), rest \in Seq(Symbols) :
        Stream(Unread, d, rest) /\ Decodes(Parser, d, rest)
  BY DEF SerialInvariant
<1>2. SerialTypes
  BY DEF SerialInvariant
<1>3. /\ typed' = Append(typed, k) /\ wire' = wire \o KeyBytes(k) /\ uart' = uart
      /\ terminal' = terminal /\ pauses' = pauses /\ escape' = escape /\ number' = number
      /\ skipLf' = skipLf /\ pushed' = pushed
  BY DEF Type, parser
<1>4. /\ typed \in Seq(SerialKeys) /\ uart \in Seq(Symbols) /\ wire \in Seq(Symbols)
      /\ terminal \in Enters /\ SoundParser(Parser)
  BY <1>2 DEF SerialTypes
<1>5. KeyBytes(k) \in Seq(Symbols)
  BY <1>4, KeyBytesAre
<1>6. Parser' = Parser
  BY <1>3 DEF Parser
<1>7. Unread' = Unread \o KeyBytes(k)
  BY <1>3, <1>4, <1>5, ConcatAssociative DEF Unread
<1>8. Unread \in Seq(Symbols)
  BY <1>2, UnreadIs
<1>9. Stream(Unread, d, rest)'
  BY <1>1, <1>2, <1>3, <1>7, <1>8, StreamMore
<1>10. /\ Len(typed) \in Nat /\ Len(typed') = Len(typed) + 1 /\ d \in 0..Len(typed')
       /\ \A i \in 1..Len(typed) : typed'[i] = typed[i]
  BY <1>3, <1>4
<1>11. Decodes(Parser, d, rest)'
  <2>1. \A m \in 0..d : \A p : Told(p, m) => (Told(p, m))'
    <3>1. SUFFICES ASSUME NEW m \in 0..d, NEW p, Told(p, m) PROVE (Told(p, m))'
      OBVIOUS
    <3>2. \A i \in 1..m : typed'[i] = typed[i]
      BY <1>10
    <3>3. QED
      BY <1>3, <3>1, <3>2 DEF Told
  <2>2. d # 0 => d - 1 \in 0..d /\ typed'[d] = typed[d]
    BY <1>10
  <2>3. d \in 0..d
    BY <1>10
  <2>4. PICK s : s = Parser
    OBVIOUS
  <2>5. Decodes(s, d, rest)
    BY <1>1, <2>4
  <2>6. Decodes(s, d, rest)'
    <3>1. CASE /\ s.escape = "none" /\ Told(s.pushed, d)
               /\ pauses => \A j \in 1..Len(rest) : rest[j] \notin {"ESC", "CR"}
               /\ ~pauses => rest = <<>> \/ (rest = <<"LF">> /\ s.skipLf)
      <4>1. (Told(s.pushed, d))'
        BY <2>1, <2>3, <3>1
      <4>2. QED
        BY <1>3, <3>1, <4>1 DEF Decodes
    <3>2. CASE /\ s.escape = "got_esc" /\ d # 0 /\ Told(s.pushed, d - 1)
               /\ <<typed[d], rest>> \in AfterEscape
      <4>1. (Told(s.pushed, d - 1))'
        BY <2>1, <2>2, <3>2
      <4>2. QED
        BY <2>2, <3>2, <4>1 DEF Decodes
    <3>3. CASE /\ s.escape = "csi" /\ d # 0 /\ Told(s.pushed, d - 1)
               /\ <<typed[d], rest>> \in AfterBracket
               /\ rest = <<"3", "~">> => s.number = 0
               /\ rest = <<"~">> => s.number = 3
      <4>1. (Told(s.pushed, d - 1))'
        BY <2>1, <2>2, <3>3
      <4>2. QED
        BY <2>2, <3>3, <4>1 DEF Decodes
    <3>4. QED
      BY <2>5, <3>1, <3>2, <3>3 DEF Decodes
  <2>7. QED
    BY <1>6, <2>4, <2>6 DEF Decodes, Told
<1>12. SerialTypes'
  <2>1. Append(typed, k) \in Seq(SerialKeys) /\ wire \o KeyBytes(k) \in Seq(Symbols)
    BY <1>4, <1>5
  <2>2. SoundParser(Parser)'
    BY <1>3, <1>4, <1>6 DEF SoundParser
  <2>3. QED
    BY <1>3, <1>4, <2>1, <2>2 DEF SerialTypes
<1>13. QED
  BY <1>9, <1>10, <1>11, <1>12 DEF SerialInvariant

\* Steps after which the same bytes are left of the same keys, and the parser
\* is as it was, keep the invariant.
LEMMA SameBytesKeep ==
    ASSUME SerialInvariant, Unread' = Unread, UNCHANGED <<terminal, pauses, typed, parser, pushed>>,
           uart' \in Seq(Symbols), wire' \in Seq(Symbols)
    PROVE  SerialInvariant'
<1>1. PICK d \in 0..Len(typed), rest \in Seq(Symbols) :
        Stream(Unread, d, rest) /\ Decodes(Parser, d, rest)
  BY DEF SerialInvariant
<1>2. /\ terminal' = terminal /\ pauses' = pauses /\ typed' = typed /\ Parser' = Parser
  BY DEF parser, Parser
<1>3. SerialTypes /\ typed \in Seq(SerialKeys) /\ terminal \in Enters /\ SoundParser(Parser)
  BY DEF SerialInvariant, SerialTypes
<1>4. Stream(Unread, d, rest)'
  BY <1>1, <1>2, StreamKept
<1>5. Decodes(Parser, d, rest)'
  BY <1>1, <1>2, DecodesKept
<1>6. SerialTypes'
  <2>1. SoundParser(Parser)'
    BY <1>2, <1>3 DEF SoundParser
  <2>2. QED
    BY <1>2, <1>3, <2>1 DEF SerialTypes
<1>7. QED
  BY <1>2, <1>4, <1>5, <1>6 DEF SerialInvariant

\* A byte that arrives is still one to be read.
LEMMA ArriveKeeps ==
    ASSUME SerialInvariant, Arrive
    PROVE  SerialInvariant'
<1>1. SerialTypes /\ uart \in Seq(Symbols) /\ wire \in Seq(Symbols)
  BY DEF SerialInvariant, SerialTypes
<1>2. wire # <<>> /\ uart' = Append(uart, Head(wire)) /\ wire' = Tail(wire)
  BY DEF Arrive
<1>3. Append(uart, Head(wire)) \o Tail(wire) = Unread
  BY <1>1, <1>2, UnreadIs
<1>4. Unread' = Unread
  BY <1>2, <1>3 DEF Unread
<1>5. uart' \in Seq(Symbols) /\ wire' \in Seq(Symbols)
  BY <1>1, <1>2
<1>6. UNCHANGED <<terminal, pauses, typed, parser, pushed>>
  BY DEF Arrive
<1>7. QED
  BY <1>4, <1>5, <1>6, SameBytesKeep

\* The end of an update keeps the invariant: the Escape it delivers was alone,
\* or the line pauses inside keys.
LEMMA EndUpdateKeeps ==
    ASSUME SerialInvariant, PlainTyping, EndUpdate
    PROVE  SerialInvariant'
<1>1. PICK d \in 0..Len(typed), rest \in Seq(Symbols) :
        Stream(Unread, d, rest) /\ Decodes(Parser, d, rest)
  BY DEF SerialInvariant
<1>2. /\ SerialTypes /\ typed \in Seq(SerialKeys) /\ uart \in Seq(Symbols) /\ wire \in Seq(Symbols)
      /\ terminal \in Enters /\ SoundParser(Parser)
  BY DEF SerialInvariant, SerialTypes
<1>3. /\ uart' = uart /\ wire' = wire /\ typed' = typed /\ terminal' = terminal /\ pauses' = pauses
      /\ uart = <<>> \/ count = PerUpdate
      /\ pauses \/ count # 0 \/ wire = <<>>
  BY DEF EndUpdate, line
<1>4. Unread' = Unread
  BY <1>3 DEF Unread
<1>5. CASE ~(count = 0 /\ escape = "got_esc")
  <2>1. UNCHANGED <<terminal, pauses, typed, parser, pushed>>
    BY <1>5 DEF EndUpdate, line
  <2>2. uart' \in Seq(Symbols) /\ wire' \in Seq(Symbols)
    BY <1>2, <1>3
  <2>3. QED
    BY <1>4, <2>1, <2>2, SameBytesKeep
<1>6. CASE count = 0 /\ escape = "got_esc"
  <2> DEFINE r == ResetEscape(PushEvent(Parser, "escape"))
  <2>1. ParserBecomes(r)
    BY <1>6 DEF EndUpdate
  <2>2. /\ SoundParser(r) /\ r.escape = "none" /\ r.pushed = Append(Parser.pushed, "escape")
        /\ Parser.pushed \in Seq(Symbols) /\ Append(Parser.pushed, "escape") \in Seq(Symbols)
    BY <1>2, LoneEscape
  <2> HIDE DEF r
  <2>3. Parser' = r /\ SoundParser(Parser)'
    BY <1>3, <2>1, <2>2, ParserMoves
  <2>4. d # 0 /\ Told(Parser.pushed, d - 1) /\ <<typed[d], rest>> \in AfterEscape
    <3>1. Parser.escape = "got_esc"
      BY <1>6 DEF Parser
    <3>2. QED
      BY <1>1, <3>1 DEF Decodes
  <2>5. Len(typed) \in Nat /\ d \in 1..Len(typed) /\ d \in Nat
    BY <1>2, <2>4
  <2>6. Decodes(r, d, rest)
    <3>1. CASE pauses
      <4>1. d <= Len(r.pushed)
        <5>1. d - 1 <= Len(Parser.pushed)
          BY <2>4 DEF Told
        <5>2. Len(r.pushed) = Len(Parser.pushed) + 1 /\ Len(Parser.pushed) \in Nat
          BY <2>2
        <5>3. QED
          BY <2>5, <5>1, <5>2
      <4>2. Told(r.pushed, d)
        BY <3>1, <4>1 DEF Told
      <4>3. \A j \in 1..Len(rest) : rest[j] \notin {"ESC", "CR"}
        <5>1. CASE rest = <<>>
          BY <5>1
        <5>2. CASE rest = <<"[", "A">>
          BY <5>2
        <5>3. CASE rest = <<"[", "3", "~">>
          BY <5>3
        <5>4. CASE rest = <<"[", "1", "semicolon", "5", "D">>
          BY <5>4
        <5>5. QED
          BY <2>4, <5>1, <5>2, <5>3, <5>4 DEF AfterEscape
      <4>4. QED
        BY <2>2, <3>1, <4>2, <4>3 DEF Decodes
    <3>2. CASE ~pauses
      <4>1. uart = <<>> /\ wire = <<>>
        BY <1>3, <1>6, <3>2 DEF PlainTyping
      <4>2. Len(Unread) = 0
        BY <1>2, <4>1, UnreadIs
      <4>3. rest = <<>>
        <5>1. PICK ends \in [d..Len(typed) -> Nat] :
                Chain(ends, Unread, d) /\ ends[d] = Len(rest)
          BY <1>1 DEF Stream
        <5>2. d \in d..Len(typed) /\ Len(typed) \in d..Len(typed) /\ d <= Len(typed)
          BY <2>5
        <5>3. ends[d] + (Len(typed) - d) <= ends[Len(typed)] /\ ends[Len(typed)] = 0
          BY <4>2, <5>1, <5>2 DEF Chain
        <5>4. ends[d] \in Nat
          BY <5>2
        <5>5. Len(rest) = 0
          BY <2>5, <5>1, <5>2, <5>3, <5>4
        <5>6. QED
          BY <5>5
      <4>4. typed[d] = "escape"
        BY <2>4, <4>3 DEF AfterEscape
      <4>5. "escape" = EventOf(typed[d]) /\ "escape" \in Symbols
        BY <4>4 DEF EventOf, Symbols
      <4>6. Told(r.pushed, d)
        BY <1>2, <2>2, <2>4, <2>5, <4>5, ToldMore
      <4>7. QED
        BY <2>2, <3>2, <4>3, <4>6 DEF Decodes
    <3>3. QED
      BY <3>1, <3>2
  <2>7. Decodes(Parser, d, rest)'
    BY <1>3, <2>3, <2>6, DecodesKept
  <2>8. Stream(Unread, d, rest)'
    BY <1>1, <1>3, <1>4, StreamKept
  <2>9. SerialTypes'
    BY <1>2, <1>3, <2>3 DEF SerialTypes
  <2>10. QED
    BY <1>3, <2>7, <2>8, <2>9 DEF SerialInvariant
<1>7. QED
  BY <1>5, <1>6

\* It holds when the line is opened.
LEMMA SerialStarts ==
    ASSUME SerialInit, PlainTyping
    PROVE  SerialInvariant
<1>1. /\ terminal \in Enters /\ typed = <<>> /\ wire = <<>> /\ uart = <<>>
      /\ escape = "none" /\ number = 0 /\ skipLf = FALSE /\ pushed = <<>>
  BY DEF SerialInit, SerialBegins
<1>2. <<>> \in Seq(Symbols) /\ <<>> \in Seq(SerialKeys)
  BY EmptySeq
<1>3. Parser = [escape |-> "none", number |-> 0, skipLf |-> FALSE, pushed |-> <<>>]
  BY <1>1 DEF Parser
<1>4. SoundParser(Parser) /\ Parser.escape = "none" /\ Parser.pushed = <<>>
  <2>1. "none" \in {"none", "got_esc", "csi"} /\ 0 \in Int /\ FALSE \in BOOLEAN
        /\ (FALSE => terminal # <<"LF">>)
    OBVIOUS
  <2> DEFINE r == [escape |-> "none", number |-> 0, skipLf |-> FALSE, pushed |-> <<>>]
  <2>2. r.escape = "none" /\ r.pushed = <<>> /\ SoundParser(r)
    BY <1>2, <2>1, FieldsAre, Zenon
  <2>3. Parser = r
    BY <1>3
  <2> HIDE DEF r
  <2>4. QED
    BY <2>2, <2>3, Zenon
<1>5. SerialTypes
  BY <1>1, <1>2, <1>4 DEF SerialTypes
<1>6. Unread = <<>>
  BY <1>1 DEF Unread
<1>7. Stream(Unread, 0, <<>>)
  <2> DEFINE f == [i \in 0..0 |-> 0]
  <2>1. Len(typed) = 0 /\ Len(Unread) = 0
    BY <1>1, <1>6
  <2>2. f \in [0..Len(typed) -> Nat] /\ f[0] = 0
    BY <2>1
  <2>3. \A i, j \in 0..Len(typed) : i = 0 /\ j = 0
    BY <2>1
  <2>4. \A i \in (0 + 1)..Len(typed) : FALSE
    BY <2>1
  <2> HIDE DEF f
  <2>5. Chain(f, Unread, 0)
    BY <2>1, <2>2, <2>3, <2>4 DEF Chain
  <2>6. QED
    BY <2>2, <2>5 DEF Stream
<1>8. Decodes(Parser, 0, <<>>)
  <2>1. Told(<<>>, 0)
    BY DEF Told
  <2>2. QED
    BY <1>4, <2>1 DEF Decodes
<1>9. 0 \in 0..Len(typed)
  BY <1>1
<1>10. QED
  BY <1>2, <1>5, <1>7, <1>8, <1>9 DEF SerialInvariant

\* The invariant says that what was typed is what is decoded.
LEMMA SerialImplied ==
    ASSUME SerialInvariant, PlainTyping
    PROVE  SerialTrue
<1>1. PICK d \in 0..Len(typed), rest \in Seq(Symbols) :
        Stream(Unread, d, rest) /\ Decodes(Parser, d, rest)
  BY DEF SerialInvariant
<1>2. SerialTypes /\ typed \in Seq(SerialKeys) /\ SoundParser(Parser)
  BY DEF SerialInvariant, SerialTypes
<1>3. pushed \in Seq(Symbols) /\ Parser.pushed = pushed /\ Parser.escape = escape
  BY <1>2 DEF SoundParser, Parsers, Parser
<1> DEFINE n == Len(typed)
           p == Len(pushed)
<1>4. n \in Nat /\ p \in Nat /\ d \in Nat /\ d <= n
  BY <1>2, <1>3
<1>5. PICK m \in 0..n : Told(pushed, m)
  <2>1. CASE Told(pushed, d)
    BY <2>1
  <2>2. CASE d # 0 /\ Told(pushed, d - 1)
    <3>1. d - 1 \in 0..n
      BY <1>4, <2>2
    <3>2. QED
      BY <2>2, <3>1
  <2>3. QED
    BY <1>1, <1>3, <2>1, <2>2 DEF Decodes
<1>6. ASSUME Quiet
      PROVE  Told(pushed, n)
  <2>1. Len(Unread) = 0 /\ escape = "none"
    <3>1. Len(uart) = 0 /\ Len(wire) = 0
      BY <1>6 DEF Quiet
    <3>2. QED
      BY <1>2, <1>6, <3>1, UnreadIs DEF Quiet
  <2>2. Told(pushed, d)
    BY <1>1, <1>3, <2>1 DEF Decodes
  <2>3. d = n
    <3>1. PICK ends \in [d..n -> Nat] : Chain(ends, Unread, d)
      BY <1>1 DEF Stream
    <3>2. d \in d..n /\ n \in d..n
      BY <1>4
    <3>3. ends[d] + (n - d) <= ends[n] /\ ends[n] = 0 /\ ends[d] \in Nat
      BY <1>4, <2>1, <3>1, <3>2 DEF Chain
    <3>4. QED
      BY <1>4, <3>3
  <2>4. QED
    BY <2>2, <2>3
<1>11. ByHand = {} /\ Certain = n
  <2>1. \A i \in 1..(n - 1) : typed[i + 1] # "["
    BY <1>2, <1>4 DEF PlainTyping
  <2>2. ByHand = {}
    BY <2>1 DEF ByHand
  <2>3. QED
    BY <2>2 DEF Certain
<1>7. NoKeySwallowed
  <2>1. Quiet => n <= p
    BY <1>6 DEF Told
  <2>2. QED
    BY <1>4, <1>11, <2>1 DEF NoKeySwallowed
<1>8. /\ Len(Expected) = n /\ \A i \in 1..n : Expected[i] = EventOf(typed[i])
      /\ DOMAIN Expected = 1..n /\ Expected = [i \in 1..n |-> EventOf(typed[i])]
  BY <1>4 DEF Expected
<1>9. ASSUME ~pauses
      PROVE  IsPrefix(pushed, Expected) /\ (Quiet => pushed = Expected)
  <2>1. p = m /\ \A i \in 1..m : pushed[i] = EventOf(typed[i])
    BY <1>5, <1>9 DEF Told
  <2>2. IsPrefix(pushed, Expected)
    <3>1. p <= Len(Expected)
      BY <1>4, <1>5, <1>8, <2>1
    <3>2. SubSeq(pushed, 1, p) = [i \in 1..p |-> pushed[i]]
      BY <1>3
    <3>3. SubSeq(Expected, 1, p) = [i \in 1..p |-> Expected[i]]
      <4>1. Expected \in Seq({EventOf(typed[i]) : i \in 1..n})
        BY <1>4 DEF Expected
      <4>2. QED
        BY <1>4, <1>8, <3>1, <4>1
    <3>4. \A i \in 1..p : pushed[i] = Expected[i]
      <4>1. \A i \in 1..p : i \in 1..m /\ i \in 1..n
        BY <1>4, <1>5, <2>1
      <4>2. QED
        BY <1>8, <2>1, <4>1
    <3>5. QED
      BY <3>1, <3>2, <3>3, <3>4 DEF IsPrefix
  <2>3. Quiet => pushed = Expected
    <3>1. SUFFICES ASSUME Quiet PROVE pushed = Expected
      OBVIOUS
    <3>2. p = n /\ \A i \in 1..n : pushed[i] = EventOf(typed[i])
      BY <1>6, <1>9, <3>1 DEF Told
    <3>3. pushed = [i \in 1..p |-> pushed[i]]
      BY <1>3
    <3>4. QED
      BY <1>8, <3>2, <3>3
  <2>4. QED
    BY <2>2, <2>3
<1>10. QED
  BY <1>7, <1>9, <1>11 DEF SerialTrue, DecodesWhatWasTyped

\* Every state of the serial keyboard satisfies the invariant.
LEMMA SerialInvariantHolds == ASSUME PlainTyping PROVE SerialSpec => []SerialInvariant
<1>1. ASSUME SerialInvariant, [SerialNext]_serialVars PROVE SerialInvariant'
  <2>1. ASSUME NEW k \in SerialKeys, Type(k) PROVE SerialInvariant'
    BY <1>1, <2>1, TypeKeeps
  <2>2. CASE Arrive
    BY <1>1, <2>2, ArriveKeeps
  <2>3. CASE ReadByte
    BY <1>1, <2>3, ReadByteKeeps
  <2>4. CASE EndUpdate
    BY <1>1, <2>4, EndUpdateKeeps
  <2>5. CASE UNCHANGED serialVars
    <3>1. Unread' = Unread /\ UNCHANGED <<terminal, pauses, typed, parser, pushed>>
          /\ uart' = uart /\ wire' = wire
      BY <2>5 DEF serialVars, Unread, parser
    <3>2. uart \in Seq(Symbols) /\ wire \in Seq(Symbols)
      BY <1>1 DEF SerialInvariant, SerialTypes
    <3>3. QED
      BY <1>1, <3>1, <3>2, SameBytesKeep
  <2>6. QED
    BY <1>1, <2>1, <2>2, <2>3, <2>4, <2>5 DEF SerialNext
<1>2. SerialInit => SerialInvariant
  BY SerialStarts
<1>3. QED
  BY <1>1, <1>2, PTL DEF SerialSpec

\* What is typed on a serial terminal is what is decoded, whole and in order as
\* long as the line does not pause inside a key, however long it is, however
\* small the FIFO and however few bytes an update reads; and no key is ever
\* swallowed: of the keys of PlainTyping, which lack "[" (uart_input_update,
\* serial_process_byte).
THEOREM SerialIsTrue == ASSUME PlainTyping PROVE SerialSpec => []SerialTrue
<1>1. ASSUME PlainTyping PROVE SerialInvariant => SerialTrue
  BY <1>1, SerialImplied
<1>2. QED
  BY <1>1, SerialInvariantHolds, PTL
===============================================================================
