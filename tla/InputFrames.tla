----------------------------- MODULE InputFrames ----------------------------
(***************************************************************************)
(* The readers of the event ring: the shell, which drains it, and the Lua  *)
(* input library, which takes one event per frame and keeps it in statics  *)
(* that all nested programs share.                                         *)
(***************************************************************************)
EXTENDS InputQueue, FiniteSets, SequencesExt

CONSTANTS Keys,       \* the keys pressed
          MaxPrograms \* bound on nested programs

ASSUME FrameConstants ==
    /\ MaxPrograms \in Nat
    /\ Events \subseteq Nat \ {0}
    /\ NoEvent = 0

VARIABLES pressed,    \* history: the keys in the order they were pressed;
                      \* an event of the ring is a position in it
          checked,    \* lua_input_frame_checked
          hasEvent,   \* lua_input_frame_has_event
          frameEvent, \* lua_input_frame_event
          last,       \* history: the newest event handed to a reader
          taken,      \* the programs that run, one inside the other; for each
                      \* (history) the events it took since the last present
          opened      \* history: a nested program started since then

frame   == <<checked, hasEvent, frameEvent>>
allVars == <<queue, head, tail, polled, pressed, checked, hasEvent,
             frameEvent, last, taken, opened>>

programs == Len(taken)

Pending == [i \in 1..Waiting |-> queue[(head + i - 1) % Size]]

-----------------------------------------------------------------------------
FramesInit ==
    /\ Init
    /\ pressed = <<>>
    /\ checked = FALSE /\ hasEvent = FALSE /\ frameEvent = NoEvent
    /\ last = 0 /\ taken = <<>> /\ opened = FALSE

\* A driver pushes the event of a key.
PressKey(k) ==
    /\ Len(pressed) + 1 \in Events
    /\ Push(Len(pressed) + 1)
    /\ pressed' = Append(pressed, k)
    /\ UNCHANGED <<frame, last, taken, opened>>

\* One turn of shell_update's loop.
ShellPoll ==
    /\ programs = 0
    /\ ~IsEmpty
    /\ Poll
    /\ last' = queue[head]
    /\ UNCHANGED <<pressed, frame, taken, opened>>

\* Mutant: a program starts with an empty ring.
StartProgramFlushes ==
    /\ programs < MaxPrograms
    /\ taken' = Append(taken, {})
    /\ head' = tail
    /\ checked' = FALSE /\ hasEvent' = FALSE
    /\ opened' = (programs > 0)
    /\ UNCHANGED <<queue, tail, polled, pressed, frameEvent, last>>

\* A command starts a Lua program: luaopen_input resets the frame, the one
\* of the program that started it too.
StartProgram ==
    /\ programs < MaxPrograms
    /\ taken' = Append(taken, {})
    /\ checked' = FALSE /\ hasEvent' = FALSE
    /\ opened' = (programs > 0)
    /\ UNCHANGED <<ring, polled, pressed, frameEvent, last>>

EndProgram ==
    /\ programs > 0
    /\ taken' = Front(taken)
    /\ UNCHANGED <<ring, polled, pressed, frame, last, opened>>

-----------------------------------------------------------------------------
(* The calls of a program.  Each begins the frame if that is needed        *)
(* (lua_input_begin_frame_if_needed); its input_update is PressKey.        *)

SeesEvent == IF checked THEN hasEvent ELSE ~IsEmpty
SeenEvent == IF checked \/ IsEmpty THEN frameEvent ELSE queue[head]

Taking == IF IsEmpty THEN taken
          ELSE [taken EXCEPT ![programs] = @ \union {queue[head]}]

\* Mutant: the frame is not marked as begun.
BeginFrameUnmarked ==
    /\ IF checked THEN UNCHANGED <<ring, polled, taken>>
       ELSE /\ Poll
            /\ taken' = Taking
    /\ checked' = checked
    /\ frameEvent' = SeenEvent

BeginFrame ==
    /\ IF checked THEN UNCHANGED <<ring, polled, taken>>
       ELSE /\ Poll
            /\ taken' = Taking
    /\ checked' = TRUE
    /\ frameEvent' = SeenEvent

\* input.poll returns the event of the frame and input.any_pressed says that
\* there is one; both consume it.
Consume ==
    /\ programs > 0
    /\ BeginFrame
    /\ hasEvent' = FALSE
    /\ last' = IF SeesEvent THEN SeenEvent ELSE last
    /\ UNCHANGED <<pressed, opened>>

\* input.pressed consumes the event only if it is the key asked for.
PressedCall(k) ==
    LET hit == SeesEvent /\ pressed[SeenEvent] = k IN
    /\ programs > 0
    /\ BeginFrame
    /\ hasEvent' = (SeesEvent /\ ~hit)
    /\ last' = IF hit THEN SeenEvent ELSE last
    /\ UNCHANGED <<pressed, opened>>

\* input.poll_latest drains the ring too and returns the newest event.
PollLatest ==
    /\ programs > 0
    /\ checked' = TRUE /\ frameEvent' = SeenEvent /\ hasEvent' = FALSE
    /\ Drain
    /\ taken' = IF checked THEN taken ELSE Taking
    /\ last' = IF ~IsEmpty THEN Pending[Waiting]
               ELSE IF SeesEvent THEN SeenEvent ELSE last
    /\ UNCHANGED <<pressed, opened>>

\* gfx.present: an event that no call consumed is lost.
Present ==
    /\ programs > 0
    /\ checked' = FALSE /\ hasEvent' = FALSE
    /\ taken' = [i \in 1..programs |-> {}] /\ opened' = FALSE
    /\ UNCHANGED <<ring, polled, pressed, frameEvent, last>>

FramesNext ==
    \/ \E k \in Keys : PressKey(k)
    \/ ShellPoll
    \/ StartProgram
    \/ EndProgram
    \/ Consume
    \/ \E k \in Keys : PressedCall(k)
    \/ PollLatest
    \/ Present

FramesSpec == FramesInit /\ [][FramesNext]_allVars

-----------------------------------------------------------------------------
\* Events reach their readers, shell or programs, in the order the keys were
\* pressed and at most once: whatever still waits is newer than all that was
\* handed out (input_poll, lua_input_poll_latest).
DeliveredInOrder ==
    /\ \A i \in 1..Waiting : last < Pending[i]
    /\ \A i, j \in 1..Waiting : i < j => Pending[i] < Pending[j]
    /\ programs > 0 /\ hasEvent =>
          /\ last < frameEvent
          /\ \A i \in 1..Waiting : frameEvent < Pending[i]

\* Within one program, no matter how its calls are mixed, a frame takes one
\* event at most from the ring (lua_input_begin_frame_if_needed).
FrameLocked ==
    ~opened => \A i \in 1..programs : Cardinality(taken[i]) <= 1

\* An event leaves the ring only to a reader or to the frame of the program
\* that runs: neither gfx.present nor the start or the end of a program
\* drops what was typed ahead.
TypeAheadKept ==
    [][ \A i \in 1..Waiting :
          LET e == Pending[i] IN
          \/ \E j \in 1..Waiting' : Pending'[j] = e
          \/ hasEvent' /\ frameEvent' = e
          \/ last' >= e ]_allVars

\* README.md:99, "Input is frame-locked: one event is consumed per
\* gfx.present() call".
OneEventPerPresent ==
    \A i \in 1..programs : Cardinality(taken[i]) <= 1

\* Events come in order, one per frame of the program that reads them.
FramesTrue == DeliveredInOrder /\ FrameLocked
=============================================================================
