---------------------------- MODULE MCKeyboards -----------------------------
(***************************************************************************)
(* Typing, from the serial line to the programs that read the event ring.  *)
(* The line's decoder only pushes, so each behaviour follows either the    *)
(* bytes of a line or the ring and its readers.                            *)
(***************************************************************************)
EXTENDS InputFrames, SerialKeyboard

VARIABLE serial \* this behaviour is about the serial line

keyboardsVars == <<allVars, serialVars, serial>>

KeyboardsInit ==
    /\ FramesInit /\ serial \in BOOLEAN
    /\ IF serial THEN SerialInit ELSE SerialBegins(<<"LF">>, TRUE)

KeyboardsNext ==
    /\ UNCHANGED serial
    /\ \/ serial /\ SerialNext /\ UNCHANGED allVars
       \/ ~serial /\ FramesNext /\ UNCHANGED serialVars

KeyboardsSpec == KeyboardsInit /\ [][KeyboardsNext]_keyboardsVars /\ SerialFairness

-----------------------------------------------------------------------------
(***************************************************************************)
(* A ring of four slots, so that three events fill it and five wrap it.    *)
(* On the line every kind of key and of Enter, in updates of two bytes.    *)
(***************************************************************************)

CONSTANT MaxEvents

MCEvents == 1..MaxEvents
MCEnters == {<<"CR">>, <<"LF">>, <<"CR", "LF">>}
=============================================================================
