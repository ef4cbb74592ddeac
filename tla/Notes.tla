------------------------------- MODULE Notes --------------------------------
(***************************************************************************)
(* The document of the Notes application (notes_document.lua and the text  *)
(* functions of notes_util.lua): lines, cursor, selection, undo stack and  *)
(* scrolled window.  A document is a record; every operation of the code   *)
(* is an operator from documents to documents.                             *)
(*                                                                         *)
(* A text is a sequence of characters; "lf", "cr" and "tab" stand for      *)
(* those characters.  A document's lines are such sequences.               *)
(***************************************************************************)
EXTENDS Integers, Sequences, SequencesExt

CONSTANTS MaxUndo, TabWidth,    \* MAX_UNDO and TAB_WIDTH of notes_config.lua
          Rows, Columns         \* the window

ASSUME DocumentConstants == {MaxUndo, TabWidth, Rows, Columns} \subseteq Nat \ {0}

NewDocument(lines) ==
    [lines |-> lines, x |-> 1, y |-> 1, scrollX |-> 1, scrollY |-> 1,
     sel |-> <<>>, undo |-> <<>>, dirty |-> FALSE]

-----------------------------------------------------------------------------
(* Texts and lines. *)
\* The text with "\r\n" and then "\r" replaced, cut at every "\n".
SplitLines(text) ==
    LET plain == [i \in DOMAIN text |-> IF text[i] = "cr" THEN "lf" ELSE text[i]]
        ends == {i \in DOMAIN text : plain[i] = "lf" /\ ~(text[i] = "cr" /\ i < Len(text)
                                                             /\ text[i + 1] = "lf")}
        skipped(i) == text[i] = "cr" /\ i \notin ends
        kept == SelectSeq([i \in DOMAIN text |-> <<i, plain[i]>>], LAMBDA c : ~skipped(c[1]))
        cut(lines, c) == IF c[2] = "lf" THEN Append(lines, <<>>)
                         ELSE [lines EXCEPT ![Len(lines)] = Append(@, c[2])]
    IN FoldLeft(cut, << <<>> >>, kept)
JoinLines(lines) ==
    FoldLeft(LAMBDA text, line : text \o <<"lf">> \o line, Head(lines), Tail(lines))

Clamp(v, low, high) == IF v < low THEN low ELSE IF v > high THEN high ELSE v
LineLength(d, y) == Len(d.lines[y])
ClampCursor(d) ==
    LET y == Clamp(d.y, 1, Len(d.lines))
    IN [d EXCEPT !.y = y, !.x = Clamp(d.x, 1, LineLength(d, y) + 1)]
Front1(line, n) == SubSeq(line, 1, n)        \* line:sub(1, n)
From(line, n) == SubSeq(line, n, Len(line))  \* line:sub(n)

-----------------------------------------------------------------------------
(* The selection: from its anchor to the cursor. *)
Cursor(d) == <<d.y, d.x>>
NotAfter(p, q) == p[1] < q[1] \/ (p[1] = q[1] /\ p[2] <= q[2])
HasSelection(d) == d.sel # <<>> /\ d.sel # Cursor(d)
SelectionRange(d) ==
    IF NotAfter(d.sel, Cursor(d)) THEN [first |-> d.sel, last |-> Cursor(d)]
    ELSE [first |-> Cursor(d), last |-> d.sel]
ClearSelection(d) == [d EXCEPT !.sel = <<>>]
BeginSelection(d, extend) ==
    IF ~extend THEN ClearSelection(d)
    ELSE IF d.sel = <<>> THEN [d EXCEPT !.sel = Cursor(d)] ELSE d
FinishSelection(d) == IF d.sel = Cursor(d) THEN ClearSelection(d) ELSE d

SelectedText(d) ==
    LET r == SelectionRange(d)
        from == r.first  to == r.last
        middle == SubSeq(d.lines, from[1] + 1, to[1] - 1)
    IN IF from[1] = to[1] THEN SubSeq(d.lines[from[1]], from[2], to[2] - 1)
       ELSE JoinLines(<<From(d.lines[from[1]], from[2])>> \o middle
                      \o <<Front1(d.lines[to[1]], to[2] - 1)>>)

DeleteSelectionRaw(d) ==
    LET r == SelectionRange(d)
        from == r.first  to == r.last
        joined == Front1(d.lines[from[1]], from[2] - 1) \o From(d.lines[to[1]], to[2])
        lines == SubSeq(d.lines, 1, from[1] - 1) \o <<joined>> \o From(d.lines, to[1] + 1)
    IN ClampCursor([d EXCEPT !.lines = lines, !.y = from[1], !.x = from[2], !.sel = <<>>])

-----------------------------------------------------------------------------
(* Editing. *)
PushUndo(d) ==
    LET all == Append(d.undo, [lines |-> d.lines, x |-> d.x, y |-> d.y,
                               scrollX |-> d.scrollX, scrollY |-> d.scrollY])
    IN [d EXCEPT !.undo = IF Len(all) > MaxUndo THEN Tail(all) ELSE all]
Restored(d, snapshot) ==
    ClampCursor([d EXCEPT !.undo = SubSeq(@, 1, Len(@) - 1), !.lines = snapshot.lines,
                          !.x = snapshot.x, !.y = snapshot.y, !.scrollX = snapshot.scrollX,
                          !.scrollY = snapshot.scrollY, !.sel = <<>>])
\* Mutant: a document stays unmarked when a change that was saved is undone.
UndoUnmarked(d) == Restored(d, d.undo[Len(d.undo)])
Undo(d) == [Restored(d, d.undo[Len(d.undo)]) EXCEPT !.dirty = TRUE]

DeleteSelection(d) == [DeleteSelectionRaw(PushUndo(d)) EXCEPT !.dirty = TRUE]
WithoutSelection(d) == IF HasSelection(d) THEN DeleteSelectionRaw(d) ELSE d

PutText(d, text) ==
    LET parts == SplitLines(text)
        n == Len(parts)
        line == d.lines[d.y]
        before == Front1(line, d.x - 1)  after == From(line, d.x)
        new == IF n = 1 THEN <<before \o parts[1] \o after>>
               ELSE <<before \o parts[1]>> \o SubSeq(parts, 2, n - 1) \o <<parts[n] \o after>>
    IN ClampCursor([d EXCEPT
          !.lines = SubSeq(d.lines, 1, d.y - 1) \o new \o From(d.lines, d.y + 1),
          !.y = @ + n - 1,
          !.x = IF n = 1 THEN @ + Len(parts[1]) ELSE Len(parts[n]) + 1,
          !.sel = <<>>, !.dirty = TRUE])
\* Mutant: the state to undo to is taken after the selection is gone.
InsertTextTooLate(d, text) == PutText(PushUndo(WithoutSelection(d)), text)
InsertText(d, text) == PutText(WithoutSelection(PushUndo(d)), text)

InsertNewLine(d0) ==
    LET d == WithoutSelection(PushUndo(d0))
        line == d.lines[d.y]
        new == <<Front1(line, d.x - 1), From(line, d.x)>>
    IN [d EXCEPT !.lines = SubSeq(d.lines, 1, d.y - 1) \o new \o From(d.lines, d.y + 1),
                 !.y = @ + 1, !.x = 1, !.sel = <<>>, !.dirty = TRUE]

\* Two lines made one, and the cursor put between them.
JoinNext(d, y, x) ==
    [d EXCEPT !.lines = SubSeq(d.lines, 1, y - 1) \o <<d.lines[y] \o d.lines[y + 1]>>
                        \o From(d.lines, y + 2),
              !.y = y, !.x = x, !.dirty = TRUE]
CutCharacter(d, n, x) ==
    [d EXCEPT !.lines[d.y] = Front1(@, n - 1) \o From(@, n + 1), !.x = x, !.dirty = TRUE]

Backspace(d) ==
    CASE HasSelection(d) -> DeleteSelection(d)
      [] ~HasSelection(d) /\ Cursor(d) = <<1, 1>> -> d
      [] ~HasSelection(d) /\ d.x > 1 -> ClampCursor(CutCharacter(PushUndo(d), d.x - 1, d.x - 1))
      [] OTHER -> ClampCursor(JoinNext(PushUndo(d), d.y - 1, LineLength(d, d.y - 1) + 1))
DeleteForward(d) ==
    CASE HasSelection(d) -> DeleteSelection(d)
      [] ~HasSelection(d) /\ d.x > LineLength(d, d.y) /\ d.y >= Len(d.lines) -> d
      [] ~HasSelection(d) /\ d.x <= LineLength(d, d.y) ->
            ClampCursor(CutCharacter(PushUndo(d), d.x, d.x))
      [] OTHER -> ClampCursor(JoinNext(PushUndo(d), d.y, d.x))

-----------------------------------------------------------------------------
(* Moving. *)
Least(a, b) == IF a < b THEN a ELSE b
Vertical(d, dy) ==
    LET y == Clamp(d.y + dy, 1, Len(d.lines))
    IN [d EXCEPT !.y = y, !.x = Least(d.x, LineLength(d, y) + 1)]
Horizontal(d, dx) ==
    LET x == d.x + dx  end == LineLength(d, d.y) + 1 IN
    CASE x < 1 /\ d.y > 1 -> [d EXCEPT !.y = @ - 1, !.x = LineLength(d, d.y - 1) + 1]
      [] x < 1 /\ d.y = 1 -> d
      [] x > end /\ d.y < Len(d.lines) -> [d EXCEPT !.y = @ + 1, !.x = 1]
      [] x > end /\ d.y = Len(d.lines) -> [d EXCEPT !.x = end]
      [] OTHER -> [d EXCEPT !.x = x]
MoveCursor(d, dx, dy, extend) ==
    LET begun == BeginSelection(d, extend)
    IN FinishSelection(ClampCursor(IF dy # 0 THEN Vertical(begun, dy) ELSE Horizontal(begun, dx)))
PageMove(d, amount, extend) == FinishSelection(Vertical(BeginSelection(d, extend), amount))
HomeKey(d, extend) == FinishSelection([BeginSelection(d, extend) EXCEPT !.x = 1])
EndKey(d, extend) ==
    FinishSelection([BeginSelection(d, extend) EXCEPT !.x = LineLength(d, d.y) + 1])
SelectAll(d) ==
    LET y == Len(d.lines) IN [d EXCEPT !.sel = <<1, 1>>, !.y = y, !.x = LineLength(d, y) + 1]

-----------------------------------------------------------------------------
(* The window: columns on the screen, where a tab takes TabWidth of them.  *)
CharWidth(c) == IF c = "tab" THEN TabWidth ELSE 1
VisualColumn(line, index) ==
    FoldLeft(LAMBDA v, c : v + CharWidth(c), 1, Front1(line, Clamp(index, 1, Len(line) + 1) - 1))
EnsureVisible(d) ==
    LET column == VisualColumn(d.lines[d.y], d.x)
        top == CASE d.y < d.scrollY -> d.y
                 [] d.y > d.scrollY + Rows - 1 -> d.y - Rows + 1
                 [] OTHER -> d.scrollY
        left == CASE column < d.scrollX -> column
                  [] column > d.scrollX + Columns - 1 -> column - Columns + 1
                  [] OTHER -> d.scrollX
    IN [d EXCEPT !.scrollY = Clamp(top, 1, top), !.scrollX = Clamp(left, 1, left)]
\* The characters of the columns [start, start + width): the loop ends once
\* it is past them.
VisibleText(line, start, width) ==
    LET step(r, c) ==
          LET units == [u \in 1 .. CharWidth(c) |-> r.visual + u - 1]
              shown == SelectSeq(units, LAMBDA v : v >= start /\ v < start + width)
          IN IF r.visual >= start + width THEN r
             ELSE [visual |-> r.visual + CharWidth(c),
                   out |-> r.out \o [i \in DOMAIN shown |-> IF c = "tab" THEN " " ELSE c]]
    IN FoldLeft(step, [visual |-> 1, out |-> <<>>], line).out

-----------------------------------------------------------------------------
(***************************************************************************)
(* The Notes application (notes_actions.lua, main.lua) with the dialogs it *)
(* is built from (ui/canvas.lua, message_box.lua, input_box.lua).  One     *)
(* action is one turn of the main loop: a key, its handler with every call *)
(* that it makes, and the drawing that scrolls the window.  The calls of   *)
(* the file system, the clipboard and the Explorer may fail or be          *)
(* cancelled; the Explorer leaves the disk alone.                          *)
(***************************************************************************)

CONSTANTS PathNamed,            \* what may be typed for a name -> its path, or NoPath
          NotesStarts,          \* the disk and the clipboard to start with, and bounds on
                                \* the edits, the file operations and the characters
          TypedCharacters

ASSUME NotesConstants ==
    \A start \in NotesStarts : {start.edits, start.calls, start.length} \subseteq Nat

VARIABLES document,
          editor,    \* phase, file_path, the boxes of the canvas, and what happened
          disk, clipboard,
          past       \* the texts before every change since the document was loaded
notesVars == <<document, editor, disk, clipboard, past>>

NoPath == "none"
Absent == [kind |-> "absent", text |-> <<>>]
Folder == [kind |-> "folder", text |-> <<>>]
File(text) == [kind |-> "file", text |-> text]

-----------------------------------------------------------------------------
(* Boxes.  The topmost of the canvas takes every key. *)
Message(exit) == [kind |-> "message", buttons |-> <<"OK">>, selected |-> 1, exit |-> exit]
Confirm(buttons) ==
    [kind |-> "confirm", buttons |-> buttons, selected |-> Len(buttons), exit |-> FALSE]
ExitBox == Confirm(<<"Save", "Discard", "Cancel">>)
OpenBox == Confirm(<<"Open", "Cancel">>)
NameBox(then) == [kind |-> "name", value |-> "untitled", then |-> then]

TopBox == editor.boxes[Len(editor.boxes)]
BoxesBelow == SubSeq(editor.boxes, 1, Len(editor.boxes) - 1)
Show(e, box) == [e EXCEPT !.boxes = Append(@, box)]
Closed(e) == [e EXCEPT !.phase = "closed"]
Removed == [editor EXCEPT !.boxes = BoxesBelow]

-----------------------------------------------------------------------------
(* Files. *)
Keep == UNCHANGED <<document, disk, clipboard, past>>
Draw(d) == document' = EnsureVisible(d)

\* load_editor_file.  A read that fails part of the way gives no text.
LoadInto(e, path, lines, asked, troubled) ==
    /\ Draw(NewDocument(lines))
    /\ past' = <<>>
    /\ editor' = [e EXCEPT !.path = path, !.trouble = troubled, !.made = 0,
                           !.lost = @ \/ (document.dirty /\ ~asked)]
    /\ UNCHANGED <<disk, clipboard>>
LoadEditorFile(e, path, exit, asked) ==
    \/ editor' = Show(e, Message(exit)) /\ Keep
    \/ disk[path].kind = "file" /\ LoadInto(e, path, SplitLines(disk[path].text), asked, FALSE)
    \/ disk[path].kind = "file" /\ LoadInto(e, path, << <<>> >>, asked, TRUE)
    \/ disk[path].kind = "absent" /\ LoadInto(e, path, << <<>> >>, asked, FALSE)

\* save_document: the file is emptied when it is opened.
Written(e, text, troubled) ==
    /\ disk' = [disk EXCEPT ![e.path] = File(text)]
    /\ editor' = Show([e EXCEPT !.trouble = TRUE], Message(FALSE))
    /\ UNCHANGED <<document, clipboard, past>>
SaveDocument(e, exit) ==
    LET text == JoinLines(document.lines)
        moved == e.path # editor.path
    IN \/ /\ editor' = Show([e EXCEPT !.trouble = @ \/ moved], Message(FALSE))
          /\ Keep
       \/ /\ e.path # NoPath /\ disk[e.path].kind # "folder"
          /\ \E n \in 0 .. Len(text) : Written(e, SubSeq(text, 1, n), TRUE)
       \/ /\ e.path # NoPath /\ disk[e.path].kind # "folder"
          /\ disk' = [disk EXCEPT ![e.path] = File(text)]
          /\ document' = [document EXCEPT !.dirty = FALSE]
          /\ editor' = IF exit THEN Closed([e EXCEPT !.trouble = FALSE])
                       ELSE [e EXCEPT !.trouble = FALSE]
          /\ UNCHANGED <<clipboard, past>>

\* choose_in_explorer: a failure, a cancelled choice, or any path.
ChooseInExplorer(failed, cancelled) == editor' \in {failed, cancelled} /\ Keep
OpenFromExplorer(e, asked) ==
    \/ ChooseInExplorer(Show(e, Message(FALSE)), e)
    \/ \E path \in DOMAIN disk : LoadEditorFile(e, path, FALSE, asked)
SaveAsFromExplorer(e) ==
    \/ ChooseInExplorer(Show(e, Message(FALSE)), e)
    \/ editor' = Show(e, NameBox("save")) /\ Keep

-----------------------------------------------------------------------------
(* actions.start: with no argument, with a folder, or with a file. *)
InCall == editor.calls > 0
Called == [editor EXCEPT !.calls = @ - 1]
Started == [editor EXCEPT !.phase = "open"]
Starting == editor.phase = "starting"
StartWithNothing ==
    /\ Starting
    /\ \/ ChooseInExplorer(Show(Started, Message(TRUE)), Closed(Started))
       \/ \E path \in DOMAIN disk :
            \/ disk[path].kind = "folder" /\ editor' = Show(Started, NameBox("start")) /\ Keep
            \/ disk[path].kind # "folder" /\ LoadEditorFile(Started, path, TRUE, FALSE)
StartWithPath ==
    /\ Starting
    /\ \E path \in DOMAIN disk :
         \/ /\ disk[path].kind = "folder"
            /\ \/ ChooseInExplorer(Show(Started, Message(TRUE)), Closed(Started))
               \/ \E file \in DOMAIN disk : LoadEditorFile(Started, file, TRUE, FALSE)
         \/ disk[path].kind # "folder" /\ editor' = Show(Started, Message(TRUE)) /\ Keep
         \/ disk[path].kind # "folder" /\ LoadEditorFile(Started, path, TRUE, FALSE)

-----------------------------------------------------------------------------
(* Keys while no box is open. *)
Ready == editor.phase = "open" /\ editor.boxes = <<>>
Edited(d) ==
    /\ Draw(d)
    /\ past' = IF d.lines = document.lines THEN past ELSE Append(past, document.lines)
    /\ editor' = [editor EXCEPT !.edits = @ - 1, !.made = @ + 1]
    /\ UNCHANGED <<disk, clipboard>>
Editing == Ready /\ editor.edits > 0
Room(n) == Len(JoinLines(document.lines)) + n <= editor.length
TypeCharacter == Editing /\ Room(1) /\ \E c \in TypedCharacters : Edited(InsertText(document, <<c>>))
EnterKey == Editing /\ Room(1) /\ Edited(InsertNewLine(document))
BackspaceKey == Editing /\ Edited(Backspace(document))
DeleteKey == Editing /\ Edited(DeleteForward(document))

Moved(d) == Draw(d) /\ UNCHANGED <<editor, disk, clipboard, past>>
ArrowKey == Ready /\ \E extend \in BOOLEAN, step \in {<<-1, 0>>, <<1, 0>>, <<0, -1>>, <<0, 1>>} :
                        Moved(MoveCursor(document, step[1], step[2], extend))
PageKey == Ready /\ \E extend \in BOOLEAN, amount \in {-Rows, Rows} :
                       Moved(PageMove(document, amount, extend))
HomeOrEndKey == Ready /\ \E extend \in BOOLEAN : \/ Moved(HomeKey(document, extend))
                                                \/ Moved(EndKey(document, extend))
SelectAllKey == Ready /\ Moved(SelectAll(document))

Complain == editor' = Show(editor, Message(FALSE)) /\ Keep
CopyKey ==
    /\ Ready
    /\ \/ Complain
       \/ /\ HasSelection(document)
          /\ clipboard' = <<SelectedText(document)>>
          /\ UNCHANGED <<document, editor, disk, past>>
CutKey ==
    /\ Editing /\ HasSelection(document)
    /\ clipboard' = <<SelectedText(document)>>
    /\ Draw(DeleteSelection(document))
    /\ past' = Append(past, document.lines)
    /\ editor' = [editor EXCEPT !.edits = @ - 1, !.made = @ + 1]
    /\ UNCHANGED disk
PasteKey ==
    \/ Ready /\ clipboard = <<>> /\ Complain
    \/ /\ Editing /\ clipboard # <<>> /\ Room(Len(JoinLines(SplitLines(clipboard[1]))))
       /\ Edited(InsertText(document, clipboard[1]))
UndoKey ==
    /\ Ready
    /\ IF document.undo = <<>> THEN Complain
       ELSE LET d == Undo(document) IN
            /\ Draw(d)
            /\ past' = IF d.lines = document.lines THEN past ELSE SubSeq(past, 1, Len(past) - 1)
            /\ UNCHANGED <<editor, disk, clipboard>>

OpenKey ==
    /\ Ready /\ InCall
    /\ IF document.dirty THEN editor' = Show(editor, OpenBox) /\ Keep
       ELSE OpenFromExplorer(Called, FALSE)
SaveKey == Ready /\ InCall /\ SaveDocument(Called, FALSE)
SaveAsKey == Ready /\ InCall /\ SaveAsFromExplorer(Called)
ExitKey ==
    /\ Ready /\ Keep
    /\ editor' = IF document.dirty THEN Show(editor, ExitBox) ELSE Closed(editor)

-----------------------------------------------------------------------------
(* Keys for the topmost box. *)
Boxed == editor.phase = "open" /\ editor.boxes # <<>>
Choosing == Boxed /\ TopBox.kind # "name"
Naming == Boxed /\ TopBox.kind = "name"

\* move_selection goes round; no button here is disabled.
MoveSelection ==
    /\ Choosing /\ Keep
    /\ \E direction \in {-1, 1} :
         LET n == Len(TopBox.buttons)
             index == TopBox.selected + direction
             next == IF index < 1 THEN n ELSE IF index > n THEN 1 ELSE index
         IN editor' = [editor EXCEPT !.boxes[Len(editor.boxes)].selected = next]
Press(button) ==
    CASE button = "OK" -> editor' = (IF TopBox.exit THEN Closed(Removed) ELSE Removed) /\ Keep
      [] button = "Cancel" -> editor' = Removed /\ Keep
      [] button = "Discard" -> editor' = [Closed(Removed) EXCEPT !.discarded = TRUE] /\ Keep
      [] button = "Save" -> SaveDocument(Removed, TRUE)
      [] button = "Open" -> OpenFromExplorer(Removed, TRUE)
PressEnter == Choosing /\ Press(TopBox.buttons[TopBox.selected])
\* Escape or tab: no button is marked, so the last one is the one to cancel.
PressEscape == Choosing /\ Press(TopBox.buttons[Len(TopBox.buttons)])

TypeName ==
    /\ Naming /\ Keep
    /\ \E value \in DOMAIN PathNamed \ {TopBox.value} :
         /\ PathNamed[value] \in {NoPath} \union DOMAIN disk
         /\ editor' = [editor EXCEPT !.boxes[Len(editor.boxes)].value = value]
AcceptName ==
    /\ Naming
    /\ LET path == PathNamed[TopBox.value] IN
       \/ path = NoPath /\ Complain
       \/ /\ path # NoPath /\ TopBox.then = "save"
          /\ SaveDocument([Removed EXCEPT !.path = path], FALSE)
       \/ path # NoPath /\ TopBox.then = "start" /\ LoadEditorFile(Removed, path, FALSE, FALSE)
CancelName ==
    /\ Naming /\ Keep
    /\ editor' = IF TopBox.then = "start" THEN Closed(Removed) ELSE Removed

-----------------------------------------------------------------------------
NotesStart(start) ==
    /\ document = NewDocument(<< <<>> >>)
    /\ editor = [phase |-> "starting", path |-> NoPath, boxes |-> <<>>, trouble |-> FALSE,
                 discarded |-> FALSE, lost |-> FALSE, made |-> 0,
                 edits |-> start.edits, calls |-> start.calls, length |-> start.length]
    /\ disk = start.disk
    /\ clipboard = start.clip
    /\ past = <<>>
NotesInit == \E start \in NotesStarts : NotesStart(start)
NotesRest == NotesStart([disk |-> <<>>, clip |-> <<>>, edits |-> 0, calls |-> 0, length |-> 0])
NotesNext ==
    \/ StartWithNothing \/ StartWithPath
    \/ TypeCharacter \/ EnterKey \/ BackspaceKey \/ DeleteKey
    \/ ArrowKey \/ PageKey \/ HomeOrEndKey \/ SelectAllKey
    \/ CopyKey \/ CutKey \/ PasteKey \/ UndoKey
    \/ OpenKey \/ SaveKey \/ SaveAsKey \/ ExitKey
    \/ MoveSelection \/ PressEnter \/ PressEscape
    \/ TypeName \/ AcceptName \/ CancelName

-----------------------------------------------------------------------------
(* After any sequence of moves, edits and undos the cursor and the         *)
(* selection are places of the document and the cursor is in the window;   *)
(* each row shows its line from the window's first column on; and what is  *)
(* selected can be cut and pasted back (notes_document.lua).               *)
Place(p) == p[1] \in DOMAIN document.lines /\ p[2] \in 1 .. Len(document.lines[p[1]]) + 1
Expanded(line) == FoldLeft(LAMBDA out, c : out \o [u \in 1 .. CharWidth(c) |->
                                                     IF c = "tab" THEN " " ELSE c], <<>>, line)
DocumentTrue ==
    /\ Place(Cursor(document))
    /\ document.sel # <<>> => Place(document.sel)
    /\ document.y - document.scrollY \in 0 .. Rows - 1
    /\ VisualColumn(document.lines[document.y], document.x) - document.scrollX \in 0 .. Columns - 1
    /\ \A n \in DOMAIN document.lines :
         VisibleText(document.lines[n], document.scrollX, Columns)
           = SubSeq(Expanded(document.lines[n]), document.scrollX,
                    Least(document.scrollX + Columns - 1, Len(Expanded(document.lines[n]))))
    /\ HasSelection(document) =>
         InsertText(DeleteSelection(document), SelectedText(document)).lines = document.lines

(* Undo goes back through the texts that there were, one change at a time  *)
(* and none left out; to the first one, if there were no more than the     *)
(* stack holds (push_undo and undo of notes_document.lua).                 *)
Changes(texts) ==
    FoldLeft(LAMBDA out, t : IF t = out[Len(out)] THEN out ELSE Append(out, t),
             <<texts[1]>>, Tail(texts))
UndoTrue ==
    LET undone == Changes(Append([i \in DOMAIN document.undo |-> document.undo[i].lines],
                                 document.lines))
        was == Append(past, document.lines)
    IN /\ undone = SubSeq(was, Len(was) - Len(undone) + 1, Len(was))
       /\ editor.made <= MaxUndo => undone = was

(* A document that is not marked as changed is what its file holds, unless *)
(* a save or a read failed since; and a change is dropped only by the user *)
(* who was asked (notes_actions.lua).                                      *)
OnDisk ==
    LET file == disk[editor.path] IN
    IF file.kind = "file" THEN SplitLines(file.text) = document.lines
    ELSE document.lines = << <<>> >>
NotesKept ==
    /\ ~document.dirty /\ ~editor.trouble /\ editor.path # NoPath => OnDisk
    /\ editor.phase = "closed" /\ document.dirty => editor.discarded
    /\ ~editor.lost

(* Moves, edits and undos keep the document and its past.                  *)
EditingTrue == DocumentTrue /\ UndoTrue
=============================================================================
