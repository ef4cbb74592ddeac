----------------------------- MODULE MCLibrary ------------------------------
(***************************************************************************)
(* What programs stand on: the kernel's heap and shared buffer, the C      *)
(* library's numbers and dates, the patterns of Lua's string library, and  *)
(* one program on top of them, the text editor.  None of them changes      *)
(* another's state, so each behaviour follows one while the others rest.   *)
(***************************************************************************)
EXTENDS Heap, SharedBuffer, Numbers, Calendar, LuaPattern, Notes

VARIABLE used \* the part that this behaviour is about

libraryVars == <<heapVars, bufferVars, numberVars, calendarVars, patternVars, notesVars, used>>

LibraryInit ==
    /\ used \in {"heap", "buffer", "numbers", "calendar", "patterns", "notes"}
    /\ HeapInit /\ BufferInit
    /\ IF used = "numbers" THEN NumbersInit ELSE NumbersRest
    /\ IF used = "calendar" THEN CalendarInit ELSE CalendarRests
    /\ IF used = "patterns" THEN PatternInit ELSE PatternRest
    /\ IF used = "notes" THEN NotesInit ELSE NotesRest

LibraryNext ==
    /\ UNCHANGED used
    /\ \/ used = "heap" /\ HeapNext
          /\ UNCHANGED <<bufferVars, numberVars, calendarVars, patternVars, notesVars>>
       \/ used = "buffer" /\ BufferNext
          /\ UNCHANGED <<heapVars, numberVars, calendarVars, patternVars, notesVars>>
       \/ used = "numbers" /\ NumbersNext
          /\ UNCHANGED <<heapVars, bufferVars, calendarVars, patternVars, notesVars>>
       \/ used = "calendar" /\ NextDay
          /\ UNCHANGED <<heapVars, bufferVars, numberVars, patternVars, notesVars>>
       \/ used = "patterns" /\ PatternNext
          /\ UNCHANGED <<heapVars, bufferVars, numberVars, calendarVars, notesVars>>
       \/ used = "notes" /\ NotesNext
          /\ UNCHANGED <<heapVars, bufferVars, numberVars, calendarVars, patternVars>>

LibrarySpec == LibraryInit /\ [][LibraryNext]_libraryVars

(* Through a walk time is counted, broken down, put together and printed   *)
(* by the calendar (time.c).                                               *)
CalendarTrue == used = "calendar" => DatesTrue /\ TextsTrue

-----------------------------------------------------------------------------
(***************************************************************************)
(* The bounds.  Heap: an arena of six minimal blocks, two of them beyond   *)
(* the reach of a search; requests of 0, of sizes that are rounded, of two *)
(* whose product overflows.  Buffer: full before every key has an entry.   *)
(* Numbers: a 7-bit long, a 6-bit int, texts of up to five characters,     *)
(* every flag, every length.  Calendar: years around the epoch, leap       *)
(* centuries and eras, from 2 BC on.  Patterns: two items of every kind,   *)
(* captures nested two deep, subjects of up to three letters.  Notes: a    *)
(* file with a carriage return and a tab, a directory, three edits and two *)
(* undos, two rows of three columns.                                       *)
(***************************************************************************)

MCRequests == {0, 1, 3, 8, SizeMax}
MCKeys == {"k1", "k2", "k3"}

MCNumberTexts ==
    UNION {[1..n -> {" ", "-", "0", "x", "1", "7", "g"}] : n \in 0..5}
    \union {<<" ", "+", "0", "X", "A">>, <<"z">>, <<"Z", "1">>, <<"0", "X", "G">>, <<"-", "y", "z">>, <<"0", "x", "1", "1", "1">>}
Formats(flags, widths, precisions, star, lengths, specifiers) ==
    [flags : SUBSET flags, width : widths, precision : precisions, star : star,
     length : lengths, specifier : specifiers]
NoLength == <<>>
MCDirectives ==
    Formats({"-", "+", " ", "#", "0"}, {0, 1, 4}, {-1, 0, 2}, {FALSE}, {NoLength, <<"h", "h">>, <<"l">>},
            {"d", "u", "o", "x"})
    \union Formats({"-", "#", "0"}, {0, 4}, {-1, 2}, {FALSE},
                   {NoLength, <<"h">>, <<"l", "l">>, <<"z">>, <<"t">>, <<"j">>, <<"L">>}, {"d", "i", "u", "X"})
    \union Formats({"-", "0"}, {-3, 0, 3}, {-2, -1, 0, 1}, {TRUE}, {NoLength, <<"h", "h">>}, {"d", "x"})
    \union Formats({"-", "0"}, {0, 1, 4}, {-1, 0, 2}, {FALSE}, {NoLength}, {"c", "s"})
MCFormatValues ==
    [s \in {"d", "i", "u", "o", "x", "X", "c", "s"} |->
        CASE s = "c" -> {"a"}
          [] s = "s" -> {<<>>, <<"a", "b", "c">>}
          [] OTHER -> {0, 5, -3, 20}]

MCWalks == {<<-2, 1>>, <<99, 100>>, <<399, 401>>, <<1899, 2001>>, <<2099, 2100>>}

-----------------------------------------------------------------------------
(* Patterns. *)
AllLetters == {"%", "(", ")", "-", ".", "1", "A", "[", "]", "^", "a", "b"}
Subjects == UNION {[1..n -> {"a", "b"}] : n \in 0..3}
            \union {<<"a", "1", "-">>, <<"]", "a", "%">>, <<"A", "a", "1">>}
FewSubjects == {<<>>, <<"a">>, <<"a", "b">>, <<"a", "a", "b">>, <<"b", "a", "a">>, <<"]", "1", "%">>}

LetterItems == {Class(<<"a">>, {"a"}, s) : s \in {"none", "*", "+", "-", "?"}}
           \union {Class(<<".">>, AllLetters, s) : s \in {"none", "-", "*"}}
Sets ==
    {Class(<<"[", "a", "-", "b", "]">>, {"a", "b"}, "none"),
     Class(<<"[", "^", "a", "]">>, AllLetters \ {"a"}, "+"),
     Class(<<"[", "]", "1", "-", "]">>, {"]", "1", "-"}, "none"),
     Class(<<"%", "a">>, {"a", "b", "A"}, "none"),
     Class(<<"%", "%">>, {"%"}, "none"),
     Class(<<"[", "%", "A", "%", "]", "]">>, AllLetters \ {"a", "b", "A"}, "*")}
Marks == {OpenItem, CloseItem, PositionItem, BalanceItem, BackItem,
          FrontierItem(<<"[", "a", "]">>, {"a"}), EndItem}
Broken == {Malformed(<<"%">>), Malformed(<<"[", "a">>), Malformed(<<"%", "f", "a">>),
           Malformed(<<"%", "b", "a">>), Malformed(<<"%", "0">>), Malformed(<<"%", "2">>)}
EndIsLast(items) == \A i \in DOMAIN items : items[i].kind = "end" => i = Len(items)
Pairs == {p \in {<<x, y>> : x \in LetterItems \union Sets \union Marks,
                            y \in LetterItems \union Sets \union Marks \union Broken} : EndIsLast(p)}
Captures ==
    {<<OpenItem, x, CloseItem, y>> : x \in LetterItems, y \in LetterItems \union {BackItem, EndItem}}
    \union {<<x, PositionItem, y>> : x, y \in LetterItems}
    \union {<<OpenItem, Class(<<"a">>, {"a"}, "-"), OpenItem, Class(<<"a">>, {"a"}, "?"),
              CloseItem, CloseItem, BackItem>>}

Ask(call, items, src) ==
    [call |-> call, items |-> items, src |-> src, anchor |-> FALSE, init |-> 1, plain |-> FALSE]
Escaped(parts, text) == [kind |-> "text", parts |-> parts, text |-> text]
Replacements ==
    {Escaped(<<"%0", "%%", "%1">>, <<"%", "0", "%", "%", "%", "1">>),
     Escaped(<<"1", "%2">>, <<"1", "%", "2">>), Escaped(<<"%a">>, <<"%", "a">>),
     [kind |-> "table", values |-> (<<Text(<<"a">>)>> :> TextValue(<<"1", "1">>))],
     [kind |-> "function",
      values |-> (<<Text(<<"a">>)>> :> TextValue(<<>>)) @@ (<<Text(<<"b">>)>> :> OtherValue)]}
TooMuch ==
    {<<PositionItem, PositionItem, PositionItem>>,
     <<OpenItem, Class(<<"a">>, {"a"}, "?"), CloseItem, OpenItem, Class(<<"a">>, {"a"}, "*"),
       CloseItem, Class(<<".">>, AllLetters, "-")>>}
MCSearches ==
    {Ask(call, p, s) : call \in {"find", "match"}, p \in Pairs, s \in FewSubjects}
    \union {Ask(call, p, s) : call \in {"match", "gmatch"}, p \in Captures, s \in Subjects}
    \union {Ask(call, p, s) : call \in {"find", "gmatch"}, p \in TooMuch, s \in FewSubjects}
    \union {[Ask("gmatch", <<x>>, s) EXCEPT !.init = i] :
               x \in LetterItems, s \in FewSubjects, i \in {-1, 2, 5}}
    \union {[Ask("find", <<x>>, s) EXCEPT !.anchor = a, !.init = i, !.plain = b] :
               x \in LetterItems, s \in FewSubjects, a, b \in BOOLEAN, i \in {-2, 0, 2, 5}}
    \union {Ask("gmatch", <<x>>, s) : x \in LetterItems \union Sets \union Marks, s \in Subjects}
    \union {[Ask("gsub", p, s) EXCEPT !.anchor = a] @@ [repl |-> r, count |-> c] :
               p \in {<<x>> : x \in LetterItems}
                     \union {<<OpenItem, x, CloseItem, Class(<<"b">>, {"b"}, "?")>> : x \in LetterItems},
               s \in Subjects, a \in BOOLEAN, c \in {1, 4}, r \in Replacements}

-----------------------------------------------------------------------------
(* Notes. *)
MCPathNamed == [untitled |-> "b", other |-> "a", bad |-> "none"]
MCFiles == [disk |-> [a |-> File(<<"cr", "tab">>), b |-> Absent, c |-> Folder], clip |-> <<>>,
            edits |-> 1, calls |-> 2, length |-> 2]
MCEdits == [disk |-> [b |-> Absent], clip |-> << <<"cr", "lf", "tab">> >>,
            edits |-> 3, calls |-> 0, length |-> 2]
MCNotesStarts == {MCFiles, MCEdits}
=============================================================================
