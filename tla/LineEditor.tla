------------------------------ MODULE LineEditor -----------------------------
(***************************************************************************)
(* The shell's line (kernel/console/shell.c): an edited line, its cursor,  *)
(* the place of its prompt, and the console it keeps in step with them,    *)
(* between commands and programs that print, clear and take the screen.    *)
(*                                                                         *)
(* The text console (kernel/console/console.c) is a set of operations on a *)
(* record c:                                                               *)
(*   x, y     the cell that is written next                                *)
(*   cells    the glyphs that lie over each other in every cell            *)
(*   bars     the cells whose lower edge shows the cursor                  *)
(*   drawn    console_cursor_drawn and its place: at most one cell         *)
(*   visible, depth, saved   the cursor's visibility, console_suspend_depth*)
(*            and suspended_cursor_visible                                 *)
(* gfx_draw_char paints no background, so a glyph is added to its cell.    *)
(* The cursor is enabled throughout, as shell_init leaves it.              *)
(***************************************************************************)
EXTENDS Integers, Sequences, FiniteSets, SequencesExt

CONSTANTS Columns, Rows,
          Glyphs,      \* the visible characters
          Space, LF, CR

ASSUME ConsoleConstants ==
    /\ Columns \in Nat \ {0} /\ Rows \in Nat \ {0, 1}
    /\ Cardinality({Space, LF, CR}) = 3 /\ Glyphs \intersect {Space, LF, CR} = {}

Chars == Glyphs \union {Space, LF, CR}
BlankRow == [column \in 0..(Columns - 1) |-> {}]
BlankCells == [row \in 0..(Rows - 1) |-> BlankRow]
Places == (0..(Columns - 1)) \X (0..(Rows - 1))

Suspended(c) == c.depth > 0

\* console_erase_drawn_cursor
Erase(c) == [c EXCEPT !.bars = @ \ c.drawn, !.drawn = {}]

\* console_draw_current_cursor
Draw(c) ==
    IF ~c.visible THEN c
    ELSE [c EXCEPT !.bars = @ \union {<<c.x, c.y>>},
                     !.drawn = {<<c.x, c.y>>}]

\* gfx_clear: the pixels only.
ClearPixels(c) == [c EXCEPT !.cells = BlankCells, !.bars = {}]

\* console_newline: past the last row the screen is cleared, not scrolled.
Newline(c) ==
    IF c.y + 1 < Rows THEN [c EXCEPT !.x = 0, !.y = @ + 1]
    ELSE [ClearPixels(c) EXCEPT !.x = 0, !.y = 0, !.drawn = {}]

Advance(c) ==
    IF c.x + 1 < Columns THEN [c EXCEPT !.x = @ + 1] ELSE Newline(c)

AddGlyph(c, char) ==
    IF char = Space THEN c
    ELSE [c EXCEPT !.cells[c.y][c.x] = @ \union {char}]

\* console_putc
Putc(c, char) ==
    IF Suspended(c) THEN c
    ELSE LET clean == Erase(c)
         IN  Draw(CASE char = LF -> Newline(clean)
                    [] char = CR -> [clean EXCEPT !.x = 0]
                    [] OTHER -> Advance(AddGlyph(clean, char)))

\* console_backspace
Backspace(c) ==
    IF Suspended(c) THEN c
    ELSE LET clean == Erase(c)
         IN  Draw(IF c.x = 0 THEN clean
                  ELSE [clean EXCEPT !.x = @ - 1,
                                     !.cells[c.y][c.x - 1] = {},
                                     !.bars = @ \ {<<c.x - 1, c.y>>}])

Clamp(n, size) == IF n < 0 THEN 0 ELSE IF n >= size THEN size - 1 ELSE n

\* console_set_cursor_pos
SetCursor(c, x, y) ==
    IF Suspended(c) THEN c
    ELSE Draw([Erase(c) EXCEPT !.x = Clamp(x, Columns), !.y = Clamp(y, Rows)])

\* console_clear_line_from_cursor
ClearLine(c) ==
    IF Suspended(c) THEN c
    ELSE LET right == c.x..(Columns - 1)
         IN  Draw([Erase(c) EXCEPT
                     !.cells[c.y] = [column \in DOMAIN @ |->
                                         IF column \in right THEN {} ELSE @[column]],
                     !.bars = @ \ (right \X {c.y})])

\* console_cursor_show, console_cursor_hide
Show(c) ==
    IF Suspended(c) THEN c ELSE Draw([Erase(c) EXCEPT !.visible = TRUE])
Hide(c) ==
    IF Suspended(c) THEN c ELSE [Erase(c) EXCEPT !.visible = FALSE]

\* console_cursor_update when its ticks have run out.
Blink(c) ==
    IF Suspended(c) THEN c
    ELSE IF c.visible THEN [Erase(c) EXCEPT !.visible = FALSE]
    ELSE Draw([c EXCEPT !.visible = TRUE])

\* console_suspend: only the first of nested calls touches the screen.
Suspend(c) ==
    IF Suspended(c) THEN [c EXCEPT !.depth = @ + 1]
    ELSE [ClearPixels(Erase(c)) EXCEPT
            !.saved = c.visible, !.visible = FALSE, !.drawn = {},
            !.depth = 1, !.x = 0, !.y = 0]

\* Mutant: the screen the program drew is left as it is.
ResumeKeepsPixels(c) ==
    IF c.depth # 1 THEN [c EXCEPT !.depth = IF @ > 0 THEN @ - 1 ELSE 0]
    ELSE Draw([c EXCEPT !.depth = 0, !.x = 0, !.y = 0, !.drawn = {},
                          !.visible = c.saved, !.saved = FALSE])

\* console_resume: only the last one does, on a cleared screen.
Resume(c) ==
    IF c.depth # 1 THEN [c EXCEPT !.depth = IF @ > 0 THEN @ - 1 ELSE 0]
    ELSE Draw([ClearPixels(c) EXCEPT
                 !.depth = 0, !.x = 0, !.y = 0, !.drawn = {},
                 !.visible = c.saved, !.saved = FALSE])

-----------------------------------------------------------------------------
(* The line. *)

CONSTANTS BufferSize,  \* SHELL_BUFFER_SIZE
          Gt,          \* the prompt's glyph
          TypedChars,  \* the characters the user types
          PrintedChars,\* the characters commands print
          MaxPrinted,  \* bound on the characters a command prints
          MaxDepth     \* bound on nested Lua programs

ASSUME LineConstants ==
    /\ BufferSize \in Nat \ {0} /\ MaxPrinted \in Nat /\ MaxDepth \in Nat
    /\ Gt \in Glyphs
    /\ TypedChars \subseteq Glyphs \union {Space}
    /\ PrintedChars \subseteq Chars

VARIABLES con,          \* the console
          line,         \* line_buffer up to line_length
          cursor,       \* line_cursor
          prompt,       \* prompt_x and prompt_y
          mode,         \* boot script, begin of an update, its events, command
          printed,      \* characters the command has printed
          overprinted   \* history: a carriage return in the row of the cursor

editorVars == <<con, line, cursor, prompt, mode, printed, overprinted>>

Write(c, text) ==
    LET written[n \in 0..Len(text)] ==
          IF n = 0 THEN c ELSE Putc(written[n - 1], text[n])
    IN  written[Len(text)]
PromptText == <<Gt, Space>>

\* shell_prompt
ShowPrompt(c) ==
    LET shown == Write(c, PromptText)
    IN  /\ con' = Show(shown)
        /\ prompt' = [x |-> shown.x, y |-> shown.y]

\* Text that is printed behind a newline lies over nothing.
StaysOverprinted == overprinted' = (overprinted /\ con'.y = con.y)

-----------------------------------------------------------------------------
\* console_init and shell_init; then kernel_main runs the boot script.
EditorInit ==
    LET cleared == [x |-> 0, y |-> 0, cells |-> BlankCells, bars |-> {},
                    drawn |-> {}, visible |-> FALSE, depth |-> 0, saved |-> FALSE]
        shown == Write(cleared, PromptText)
    IN  /\ con = Show(shown)
        /\ prompt = [x |-> shown.x, y |-> shown.y]
        /\ line = <<>> /\ cursor = 0
        /\ mode = "boot" /\ printed = 0 /\ overprinted = FALSE

\* What runs on the console between two updates: commands print, programs
\* take the screen, draw on it and give it back.
Running == mode \in {"boot", "command"}

PrintChar(char) ==
    /\ Running /\ printed < MaxPrinted
    /\ con' = Putc(con, char)
    /\ printed' = printed + 1
    /\ overprinted' = (con'.y = con.y /\ (overprinted \/ (char = CR /\ con.x > 0)))
    /\ UNCHANGED <<line, cursor, prompt, mode>>

StartLua ==
    /\ Running /\ con.depth < MaxDepth
    /\ con' = Suspend(con)
    /\ UNCHANGED <<line, cursor, prompt, mode, printed, overprinted>>

DrawGraphics ==
    /\ Running /\ Suspended(con)
    /\ con' = [con EXCEPT !.cells = [row \in DOMAIN @ |->
                                       [column \in DOMAIN BlankRow |-> Glyphs]],
                          !.bars = Places]
    /\ UNCHANGED <<line, cursor, prompt, mode, printed, overprinted>>

EndLua ==
    /\ Running /\ Suspended(con)
    /\ con' = Resume(con)
    /\ overprinted' = (overprinted /\ Suspended(con'))
    /\ UNCHANGED <<line, cursor, prompt, mode, printed>>

\* The boot script ends without a prompt of its own.
EndBoot ==
    /\ mode = "boot" /\ ~Suspended(con)
    /\ mode' = "update" /\ printed' = 0
    /\ UNCHANGED <<con, line, cursor, prompt, overprinted>>

-----------------------------------------------------------------------------
InSync == con.x = prompt.x + cursor /\ con.y = prompt.y

\* shell_restore_prompt_if_needed, the beginning of shell_update.
BeginUpdate ==
    /\ mode = "update"
    /\ mode' = "events"
    /\ \/ InSync /\ UNCHANGED <<con, line, cursor, prompt, overprinted>>
       \/ /\ ~InSync
          /\ line' = <<>> /\ cursor' = 0
          /\ ShowPrompt(Hide(con))
          /\ StaysOverprinted
    /\ UNCHANGED printed

\* The events are read, the cursor may blink.
EndUpdate ==
    /\ mode = "events"
    /\ mode' = "update"
    /\ con' \in {con, Blink(con)}
    /\ UNCHANGED <<line, cursor, prompt, printed, overprinted>>

Redrawn(text, at) ==
    LET start == ClearLine(SetCursor(Hide(con), prompt.x, prompt.y))
    IN  Show(SetCursor(Write(start, text), prompt.x + at, prompt.y))

\* shell_can_insert_char
CanInsert ==
    Len(line) < BufferSize - 1 /\ prompt.x + Len(line) < Columns - 1

EditDone ==
    /\ mode = "events"
    /\ UNCHANGED <<mode, prompt, printed, overprinted>>

\* shell_insert_char
Insert(char) ==
    /\ CanInsert
    /\ line' = SubSeq(line, 1, cursor) \o <<char>> \o SubSeq(line, cursor + 1, Len(line))
    /\ cursor' = cursor + 1
    /\ con' = IF cursor = Len(line) THEN Show(Putc(Hide(con), char))
              ELSE Redrawn(line', cursor')
    /\ EditDone

\* shell_backspace
EraseBefore ==
    /\ cursor > 0
    /\ line' = RemoveAt(line, cursor)
    /\ cursor' = cursor - 1
    /\ con' = IF cursor = Len(line) THEN Show(Backspace(Hide(con)))
              ELSE Redrawn(line', cursor')
    /\ EditDone

\* shell_delete
EraseUnder ==
    /\ cursor < Len(line)
    /\ line' = RemoveAt(line, cursor + 1)
    /\ con' = Redrawn(line', cursor)
    /\ UNCHANGED cursor
    /\ EditDone

\* shell_move_left, _right, _home, _end
MoveTo(at) ==
    /\ at \in {cursor - 1, cursor + 1, 0, Len(line)} \intersect (0..Len(line))
    /\ cursor' = at
    /\ con' = Show(SetCursor(Hide(con), prompt.x + at, prompt.y))
    /\ UNCHANGED line
    /\ EditDone

\* shell_enter up to the call of the command
Enter ==
    /\ mode = "events"
    /\ con' = Putc(SetCursor(Hide(con), prompt.x + Len(line), prompt.y), LF)
    /\ mode' = "command"
    /\ StaysOverprinted
    /\ UNCHANGED <<line, cursor, prompt, printed>>

\* and from its return: an empty line at a new prompt
EndCommand ==
    /\ mode = "command" /\ ~Suspended(con)
    /\ line' = <<>> /\ cursor' = 0
    /\ ShowPrompt(con)
    /\ mode' = "events" /\ printed' = 0
    /\ StaysOverprinted

EditorNext ==
    \/ \E char \in PrintedChars : PrintChar(char)
    \/ StartLua \/ DrawGraphics \/ EndLua \/ EndBoot
    \/ BeginUpdate \/ EndUpdate
    \/ \E char \in TypedChars : Insert(char)
    \/ EraseBefore \/ EraseUnder
    \/ \E at \in 0..(BufferSize - 1) : MoveTo(at)
    \/ Enter \/ EndCommand

EditorSpec == EditorInit /\ [][EditorNext]_editorVars

-----------------------------------------------------------------------------
\* The line fits its buffer, its row and the console (line_buffer is indexed
\* without a check once shell_can_insert_char has agreed).
LineFits ==
    /\ Len(line) < BufferSize /\ cursor \in 0..Len(line)
    /\ prompt.x + Len(line) < Columns

Editing == mode = "events"

\* While a line is edited, and from one update to the next, the console writes
\* where the shell thinks it does, whatever commands and programs did to the
\* screen before; so the line that is being typed is never thrown away by
\* shell_restore_prompt_if_needed.
CursorInSync ==
    Editing \/ (mode = "update" /\ line # <<>>) => InSync

\* From the prompt on, its row shows the line and nothing else: no character of
\* an earlier state of the line or of a command's output is left over.  The one
\* exception is output that ends behind a carriage return.
ScreenShowsLine ==
    Editing /\ ~overprinted =>
        \A column \in prompt.x..(Columns - 1) :
            con.cells[prompt.y][column] =
                IF column - prompt.x < Len(line)
                THEN {line[column - prompt.x + 1]} \ {Space} ELSE {}

\* There is one cursor: no cell shows the bar but the one that the console
\* knows to have drawn, and that is the cell it writes next.
NoGhostCursor ==
    ~Suspended(con) =>
        /\ con.bars = con.drawn
        /\ con.drawn = IF con.visible THEN {<<con.x, con.y>>} ELSE {}

\* The shell, the console and the screen agree on the line and its cursor,
\* whatever was on the screen before.
EditorTrue == LineFits /\ CursorInSync /\ ScreenShowsLine /\ NoGhostCursor
=============================================================================
