--------------------------- MODULE SerialKeyboard ---------------------------
(***************************************************************************)
(* The host terminal behind "-serial stdio": the bytes of its keys cross   *)
(* the UART and a state machine turns them back into input events.         *)
(***************************************************************************)
EXTENDS Naturals, Sequences, SequencesExt

CONSTANTS SerialKeys,       \* the keys that are typed
          Enters,     \* what terminals send for Enter
          MaxKeys,    \* bound on the keys typed
          UartDepth,  \* the receive FIFO of the UART
          PerUpdate,  \* SERIAL_INPUT_BYTES_PER_UPDATE
          LineModes   \* may the line pause between two bytes of a key?

VARIABLES terminal, \* what this terminal sends for Enter
          pauses,   \* this line may pause between two bytes of a key
          typed,    \* history: the keys typed
          wire,     \* bytes on their way
          uart,     \* bytes in the receive FIFO
          escape,   \* serial_escape_state
          number,   \* serial_csi_number
          skipLf,   \* serial_skip_lf
          count,    \* bytes read by the update in progress
          pushed    \* the events pushed

parser == <<escape, number, skipLf>>
line   == <<terminal, pauses, typed, wire, uart>>
serialVars   == <<terminal, pauses, typed, wire, uart, escape, number, skipLf, count, pushed>>

(* The terminal: the bytes of each key.  *)
KeyBytes(k) ==
    CASE k = "enter"       -> terminal
      [] k = "up"          -> <<"ESC", "[", "A">>
      [] k = "delete"      -> <<"ESC", "[", "3", "~">>
      [] k = "ctrl-left"   -> <<"ESC", "[", "1", "semicolon", "5", "D">>
      [] k = "ctrl-delete" -> <<"ESC", "[", "3", "semicolon", "5", "~">>
      [] k = "escape"      -> <<"ESC">>
      [] OTHER             -> <<k>>

\* The event a key stands for: serial input carries no modifiers.
EventOf(k) ==
    CASE k = "ctrl-left" -> "left" [] k = "ctrl-delete" -> "delete" [] OTHER -> k

-----------------------------------------------------------------------------
(* The parser, on a state of its own variables and the events pushed. *)

Parser == [escape |-> escape, number |-> number, skipLf |-> skipLf,
          pushed |-> pushed]
ParserBecomes(s) ==
    /\ escape' = s.escape /\ number' = s.number
    /\ skipLf' = s.skipLf /\ pushed' = s.pushed

PushEvent(s, e) == [s EXCEPT !.pushed = Append(@, e)]
ResetEscape(s) == [s EXCEPT !.escape = "none", !.number = 0]

\* serial_finish_csi: unknown sequences are dropped.
CsiFinals == [A |-> "up", B |-> "down", C |-> "right", D |-> "left",
              H |-> "home", F |-> "end"]
CsiNumbers == <<"home", "insert", "delete", "end", "page_up", "page_down",
                "home", "end">>

FinishCsi(s, byte) ==
    ResetEscape(
      IF byte \in DOMAIN CsiFinals THEN PushEvent(s, CsiFinals[byte])
      ELSE IF byte = "~" /\ s.number \in DOMAIN CsiNumbers
      THEN PushEvent(s, CsiNumbers[s.number])
      ELSE s)

Digits == <<"0", "1", "2", "3", "4", "5", "6", "7", "8", "9">>
IsDigit(byte) == Contains(Digits, byte)
ValueOf(byte) == (CHOOSE i \in DOMAIN Digits : Digits[i] = byte) - 1

\* Mutant: the line feed of a CR LF pair is not skipped.
PlainTwoEnters(s, byte) ==
    CASE byte = "ESC" -> [s EXCEPT !.escape = "got_esc"]
      [] byte \in {"CR", "LF"} -> PushEvent(s, "enter")
      [] OTHER -> PushEvent([s EXCEPT !.skipLf = FALSE], byte)

\* serial_process_byte outside an escape sequence.
Plain(s, byte) ==
    CASE byte = "ESC" -> [s EXCEPT !.escape = "got_esc"]
      [] byte = "CR" -> PushEvent([s EXCEPT !.skipLf = TRUE], "enter")
      [] byte = "LF" -> IF s.skipLf THEN [s EXCEPT !.skipLf = FALSE]
                        ELSE PushEvent(s, "enter")
      [] OTHER -> PushEvent([s EXCEPT !.skipLf = FALSE], byte)

\* serial_process_byte
ProcessByte(s, byte) ==
    CASE s.escape = "got_esc" ->
           IF byte = "[" THEN [s EXCEPT !.escape = "csi", !.number = 0]
           ELSE Plain(ResetEscape(PushEvent(s, "escape")), byte)
      [] s.escape = "csi" ->
           IF IsDigit(byte)
           THEN IF s.number < 999 THEN [s EXCEPT !.number = @ * 10 + ValueOf(byte)] ELSE s
           ELSE IF byte \in {"semicolon", "?", ">"} THEN s
           ELSE FinishCsi(s, byte)
      [] OTHER -> Plain(s, byte)

-----------------------------------------------------------------------------
SerialBegins(enter, mode) ==
    /\ terminal = enter /\ pauses = mode
    /\ typed = <<>> /\ wire = <<>> /\ uart = <<>>
    /\ escape = "none" /\ number = 0 /\ skipLf = FALSE
    /\ count = 0 /\ pushed = <<>>

SerialInit == \E enter \in Enters, mode \in LineModes : SerialBegins(enter, mode)

Type(k) ==
    /\ Len(typed) < MaxKeys
    /\ typed' = Append(typed, k)
    /\ wire' = wire \o KeyBytes(k)
    /\ UNCHANGED <<terminal, pauses, uart, parser, count, pushed>>

\* The line holds bytes back while the FIFO is full.
Arrive ==
    /\ wire # <<>> /\ Len(uart) < UartDepth
    /\ uart' = Append(uart, Head(wire))
    /\ wire' = Tail(wire)
    /\ UNCHANGED <<terminal, pauses, typed, parser, count, pushed>>

\* One turn of the loop of uart_input_update.
ReadByte ==
    /\ count < PerUpdate /\ uart # <<>>
    /\ ParserBecomes(ProcessByte(Parser, Head(uart)))
    /\ uart' = Tail(uart)
    /\ count' = count + 1
    /\ UNCHANGED <<terminal, pauses, typed, wire>>

\* Mutant: an update never delivers a lone Escape.
EndUpdateKeepsEscape ==
    /\ uart = <<>> \/ count = PerUpdate
    /\ pauses \/ count # 0 \/ wire = <<>>
    /\ count' = 0
    /\ UNCHANGED <<line, parser, pushed>>

\* The end of uart_input_update: an update that found nothing to read
\* delivers a lone Escape.
EndUpdate ==
    /\ uart = <<>> \/ count = PerUpdate
    /\ pauses \/ count # 0 \/ wire = <<>>
    /\ IF count = 0 /\ escape = "got_esc"
       THEN ParserBecomes(ResetEscape(PushEvent(Parser, "escape")))
       ELSE UNCHANGED <<parser, pushed>>
    /\ count' = 0
    /\ UNCHANGED line

SerialNext == (\E k \in SerialKeys : Type(k)) \/ Arrive \/ ReadByte \/ EndUpdate

\* The kernel's loop and the hook of a running Lua program call input_update
\* again and again, and the line delivers what was typed.
SerialFairness == WF_serialVars(Arrive) /\ WF_serialVars(ReadByte) /\ WF_serialVars(EndUpdate)

SerialSpec == SerialInit /\ [][SerialNext]_serialVars /\ SerialFairness

-----------------------------------------------------------------------------
Expected == [i \in 1..Len(typed) |-> EventOf(typed[i])]
Quiet == wire = <<>> /\ uart = <<>> /\ escape = "none"

\* Where an Escape and then a "[" are typed, the two bytes that begin an escape
\* sequence, and how many keys were typed before the first such place.
ByHand == {i \in 1..(Len(typed) - 1) : typed[i] = "escape" /\ typed[i + 1] = "["}
Certain ==
    IF ByHand = {} THEN Len(typed)
    ELSE (CHOOSE i \in ByHand : \A j \in ByHand : i <= j) - 1

\* On a line that does not pause inside a key, the events pushed are those of
\* the keys typed, in order and each once, however the bytes are cut into
\* updates, up to an Escape and "[" typed one after the other, which the
\* program takes for the start of a sequence (serial_process_byte).
DecodesWhatWasTyped ==
    ~pauses =>
      IF ByHand = {} THEN IsPrefix(pushed, Expected) /\ (Quiet => pushed = Expected)
      ELSE \A i \in 1..Certain : i <= Len(pushed) => pushed[i] = Expected[i]

\* Even when the line pauses inside a key, no key before an Escape and "[" is
\* swallowed: at the worst its bytes arrive as keys of their own.
NoKeySwallowed == Quiet => Len(pushed) >= Certain

\* Every key is delivered in the end, but for an Escape that "[" follows and
\* the keys after it.  A lone Escape does not wait for the next byte: an
\* update that reads nothing delivers it (uart_input_update).  After "ESC ["
\* no update does, so that those two keys wait for ever and swallow the next
\* one (SERIAL_ESCAPE_CSI in serial_process_byte).
EveryKeyArrives ==
    \A n \in 1..MaxKeys : Len(typed) >= n ~> Len(pushed) >= n \/ Certain < n

\* What was typed is what is decoded, whole if the line pauses between keys.
SerialTrue == DecodesWhatWasTyped /\ NoKeySwallowed
=============================================================================
