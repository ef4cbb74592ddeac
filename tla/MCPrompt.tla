------------------------------ MODULE MCPrompt ------------------------------
(***************************************************************************)
(* The prompt: the programs and scripts that a command nests, the line in  *)
(* which it is typed and its place on the screen, and what its text means  *)
(* to the shell.  The nesting depends on no text and the screen on no      *)
(* program's result, so each behaviour follows one while the others rest.  *)
(***************************************************************************)
EXTENDS ProgramSession, LineEditor, ShellCommands

VARIABLE followed \* the part that this behaviour is about

promptVars == <<sessionVars, editorVars, shellVars, followed>>

PromptInit ==
    /\ followed \in {"session", "editor", "shell"}
    /\ SessionInit /\ EditorInit
    /\ IF followed = "shell" THEN ShellInit ELSE ShellRest

PromptNext ==
    /\ UNCHANGED followed
    /\ \/ followed = "session" /\ SessionNext /\ UNCHANGED <<editorVars, shellVars>>
       \/ followed = "editor" /\ EditorNext /\ UNCHANGED <<sessionVars, shellVars>>
       \/ followed = "shell" /\ ShellNext /\ UNCHANGED <<sessionVars, editorVars>>

PromptSpec == PromptInit /\ [][PromptNext]_promptVars

-----------------------------------------------------------------------------
(***************************************************************************)
(* The bounds.  Session: two or three directories, four frames             *)
(* on the C stack, scripts two deep.  Editor: two rows of six cells, two   *)
(* letters to type, commands that print five characters, Lua programs two  *)
(* deep.  Shell: a volume with directories two deep, a package, programs   *)
(* and associations, paths of 15 and lines of 13 characters, four          *)
(* arguments, and three lines: cd and path add or remove, then any one.    *)
(***************************************************************************)

MCLowerOf == [c \in {"A", "B"} |-> IF c = "A" THEN "a" ELSE "b"]

MCTree ==
    [directories |-> {RootPath \o d : d \in
         {<<"a">>, <<"b">>, <<"a", "/", "b">>, <<"b", "/", "note">>, <<"b", "/", "terminal">>}},
     files |-> {RootPath \o f : f \in
         {<<"x", ".", "lua">>, <<"b", "/", "x", ".", "lua">>, <<"f", ".", "y">>,
          <<"a", "/", "b", "/", "y", ".", "lua">>, <<"a", "/", "f", ".", "txt">>,
          <<"b", "/", "note", "/", "manifest">>, <<"b", "/", "note", "/", "main", ".", "lua">>,
          <<"b", "/", "terminal", "/", "manifest">>,
          <<"b", "/", "terminal", "/", "main", ".", "lua">>}},
     aliases |-> (<<"txt">> :> <<"note">>) @@ (<<"y">> :> <<"y">>)]
MCTrees == {MCTree}
MCRemovable == {RootPath \o <<"a", "/", "b">>}
MCStartList == << <<"#", "a">>, <<"/", "b", " ">>, <<>>, <<"0", ":", "/", "b">> >>
MCStartPlaces == << RootPath \o <<"b">>, RootPath \o <<"b">> >>

Strings(letters, lengths) == UNION {[1..n -> letters] : n \in lengths}
PathLetters == {"a", "/", ".", "B"}
ShortPaths == Strings(PathLetters, 1..3)
Paths ==
    ShortPaths \union {RootPath \o w : w \in Strings(PathLetters, 0..2)}
    \union {<<"a", "/", "b", "/", ".", ".", "/", "a">>, <<"0", ":">>, <<>>, <<"a", "\\", "b">>,
            <<"a", "/", "b", "/", ".", ".", "/", ".", ".", "/", "b">>}
Cd(path) == <<"cd", " ">> \o path
AddPath(path) == <<"path", " ", "add", " ">> \o path
RemovePath(path) == <<"path", " ", "remove", " ">> \o path
OpenLine(rest) == <<"open", " ">> \o rest
MCScriptLines == {OpenLine(<<"terminal">>), OpenLine(<<"terminal", " ", "1">>), OpenLine(<<"note">>)}

FirstLines ==
    {Cd(<<"a">>), Cd(<<"a", "/", "B">>), AddPath(<<"A">>), AddPath(<<"a", "/", "B">>),
     AddPath(<<"b">>), AddPath(<<"a", "/", "b">>), RemovePath(<<"b">>), <<>>}
LastLines ==
    Strings({"x", " ", "\""}, 0..4)
    \union {Cd(p) : p \in Paths} \union {AddPath(p) : p \in ShortPaths \union {<<>>}}
    \union {RemovePath(p) : p \in {<<"a">>, <<"A">>, <<"b">>, <<"B">>, <<"/", "a", "/", "b">>, <<"b", "b">>}}
    \union MCScriptLines
    \union {OpenLine(t) : t \in {<<"\"", "\"">>, <<"f", ".", "txt">>, <<"a", "/", "f", ".", "txt">>,
                                 <<"f", ".", "y", " ", "1">>, <<"note", " ", "a">>,
                                 <<"note">>, <<"a">>, <<"b", "/", "note">>}}
    \union {<<"path", " ", "add">>, <<"path", " ", "x">>}
    \union {<<"x">>, <<"y">>, <<"x", ".", "lua", " ", "1">>, <<"lua">>, <<"path">>, <<"cd">>,
            <<"lua", " ", "y", ".", "lua">>, <<"lua", " ", "a", "/", "b", "/", "y", ".", "lua">>,
            <<"x", " ", "1", " ", "2", " ", "3", " ", "4">>,
            <<"x", " ", "a", "a", "a", " ", "b", "b", "b", " ", "b", "b", "b", " ", "1">>,
            <<"x", " ", "\"">> \o [i \in 1..14 |-> "a"],
            Cd([i \in 1..9 |-> "a"] \o <<"/", ".", ".", "/", "a">>)}
MCLines == <<FirstLines, FirstLines, LastLines>>
=============================================================================
