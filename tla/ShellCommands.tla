--------------------------- MODULE ShellCommands ----------------------------
(***************************************************************************)
(* The texts of the shell: paths and how they are made absolute            *)
(* (kernel/console/shell_path.c), the arguments of a line                  *)
(* (shell_commands.c), and the names of extensions and programs            *)
(* (shell_alias.c, lua/lua_shell.c).  A text is a sequence of symbols: a   *)
(* symbol is a character, or a whole name where nothing looks inside it.   *)
(* Every buffer has a size, counted in symbols with its end mark; a text   *)
(* that does not fit is Refused or silently cut, as the code has it.       *)
(***************************************************************************)
EXTENDS Naturals, Sequences, FiniteSets, SequencesExt

CONSTANTS PathMax,        \* SHELL_PATH_MAX
          LineMax,        \* SHELL_LINE_MAX
          MaxArgs,        \* SHELL_MAX_ARGS
          MaxPathEntries, \* SHELL_PATH_MAX_ENTRIES
          LowerOf         \* the symbols with capitals, and what they are without

ASSUME ShellSizes ==
    /\ {PathMax, LineMax, MaxArgs, MaxPathEntries} \subseteq Nat \ {0}
    /\ PathMax > 4

Refused == <<"refused">>
Separators == {"/", "\\"}
Blanks == {" ", "\t"}
Digits == {"0", "1"}

Cut(text, size) == IF Len(text) < size THEN text ELSE SubSeq(text, 1, size - 1)
AppendText(text, more, size) ==
    IF text = Refused \/ Len(text) + Len(more) >= size THEN Refused ELSE text \o more
LowerText(text) ==
    [i \in DOMAIN text |-> IF text[i] \in DOMAIN LowerOf THEN LowerOf[text[i]] ELSE text[i]]
LastOf(text, set) == SelectLastInSeq(text, LAMBDA c : c \in set) \* its place, or 0
StartsWith(text, set) == text # <<>> /\ text[1] \in set
Prefixed(text, beginning) == IsPrefix(beginning, text)
\* What a sequence has at some of its places.
Subsequence(seq, places) ==
    [n \in 1 .. Cardinality(places) |->
        seq[CHOOSE i \in places : Cardinality({j \in places : j <= i}) = n]]

-----------------------------------------------------------------------------
(* Paths. *)
IsVolumePath(text) == Len(text) >= 2 /\ text[1] \in Digits /\ text[2] = ":"
HasPathSyntax(name) == \E i \in DOMAIN name : name[i] \in Separators \union {":"}

\* What stands between the separators of a text.
Components(text) ==
    LET Read(parts, c) ==
            IF c \in Separators THEN Append(parts, <<>>)
            ELSE [parts EXCEPT ![Len(parts)] = Append(@, c)]
    IN SelectSeq(FoldLeft(Read, <<<<>>>>, text), LAMBDA part : part # <<>>)

\* The separator before a name; none after that of the root.
Slashed(text) == IF Len(text) > 3 THEN AppendText(text, <<"/">>, PathMax) ELSE text
\* Mutant: the place to cut at is taken after the slash.
EnterKeepsSlash(output, part) ==
    CASE output.text = Refused \/ part = <<".">> -> output
      [] part = <<".", ".">> ->
            IF output.restore = <<>> THEN output
            ELSE [text |-> SubSeq(output.text, 1, Last(output.restore)),
                  restore |-> Front(output.restore)]
      [] OTHER ->
            IF Len(output.restore) >= PathMax \div 2 THEN [output EXCEPT !.text = Refused]
            ELSE [text |-> AppendText(Slashed(output.text), part, PathMax),
                  restore |-> Append(output.restore, Len(Slashed(output.text)))]
\* One component: the output so far, and where to cut it for each `..'.
EnterComponent(output, part) ==
    CASE output.text = Refused \/ part = <<".">> -> output
      [] part = <<".", ".">> ->
            IF output.restore = <<>> THEN output
            ELSE [text |-> SubSeq(output.text, 1, Last(output.restore)),
                  restore |-> Front(output.restore)]
      [] OTHER ->
            IF Len(output.restore) >= PathMax \div 2 THEN [output EXCEPT !.text = Refused]
            ELSE [text |-> AppendText(Slashed(output.text), part, PathMax),
                  restore |-> Append(output.restore, Len(output.text))]
NormalizeAbsolute(text) ==
    IF ~IsVolumePath(text) THEN Refused
    ELSE FoldLeft(EnterComponent, [text |-> <<text[1], ":", "/">>, restore |-> <<>>],
                  Components(SubSeq(text, 3, Len(text)))).text

Join(directory, name) ==
    AppendText(IF Last(directory) = "/" THEN directory
               ELSE AppendText(directory, <<"/">>, PathMax), name, PathMax)
\* An absolute path that is too long is cut, every other one is refused; and
\* what is Refused is no path of a volume.
ResolvePath(cwd, text) ==
    NormalizeAbsolute(CASE text = <<>> -> Cut(cwd, PathMax)
                        [] IsVolumePath(text) -> Cut(text, PathMax)
                        [] StartsWith(text, Separators) -> AppendText(<<"0", ":">>, text, PathMax)
                        [] OTHER -> Join(cwd, text))

\* The directory of a program, from its resolved path.
DirectoryOfPath(path) ==
    LET slash == LastOf(path, Separators)
    IN CASE slash < 3 -> Refused
         [] slash = 3 -> SubSeq(path, 1, 3)
         [] OTHER -> SubSeq(path, 1, slash - 1)

-----------------------------------------------------------------------------
(* The lines of PATH.txt: read with their end or not at all, trimmed, and  *)
(* relative to the root however they begin.                                *)
TrimLine(text) ==
    LET kept == {i \in DOMAIN text : text[i] \notin Blanks}
    IN IF kept = {} THEN <<>> ELSE SubSeq(text, Min(kept), Max(kept))
EntryToAbsolute(entry) ==
    LET rest == CASE Len(entry) > 1 /\ entry[1] = "." /\ entry[2] \in Separators ->
                        SubSeq(entry, 3, Len(entry))
                  [] StartsWith(entry, Separators) -> Tail(entry)
                  [] OTHER -> entry
    IN IF entry = Refused THEN Refused
       ELSE NormalizeAbsolute(IF IsVolumePath(entry) THEN Cut(entry, PathMax)
                              ELSE AppendText(<<"0", ":", "/">>, rest, PathMax))
AbsoluteToEntry(path) ==
    IF ~IsVolumePath(path) THEN Refused
    ELSE IF Len(path) > 2 /\ path[3] = "/"
         THEN AppendText(<<".", "/">>, SubSeq(path, 4, Len(path)), PathMax)
         ELSE Cut(path, PathMax)
ReadLine(line) == IF Len(line) + 1 < PathMax THEN TrimLine(line) ELSE Refused
Absolutes(entries) == [i \in DOMAIN entries |-> EntryToAbsolute(entries[i])]
Loaded(list) == IF Len(list) > MaxPathEntries \/ Contains(list, Refused) THEN Refused ELSE list
\* Neither blank lines nor comments are entries, or are written back.
RawEntries(lines) ==
    SelectSeq([i \in DOMAIN lines |-> ReadLine(lines[i])],
              LAMBDA e : e # <<>> /\ ~Prefixed(e, <<"#">>))
LoadList(lines) == Loaded(Absolutes(RawEntries(lines)))

IsDirectChild(parent, child) ==
    LET start == IF Last(parent) = "/" THEN Len(parent) ELSE Len(parent) + 1
        name == SubSeq(child, start + 1, Len(child))
    IN /\ Prefixed(LowerText(child), LowerText(parent))
       /\ Len(child) > start
       /\ Last(parent) = "/" \/ child[start] = "/"
       /\ name \notin {<<".">>, <<".", ".">>}
       /\ \A i \in DOMAIN name : name[i] \notin Separators

-----------------------------------------------------------------------------
(* Extensions and program names. *)
PathExtension(path) ==
    LET slash == LastOf(path, Separators)
        dot == LastOf(path, {"."})
    IN IF dot <= slash + 1 \/ dot = Len(path) THEN <<>>
       ELSE LowerText(SubSeq(path, dot + 1, Len(path)))
EndsWithLua(text) == Len(text) >= 2 /\ LowerText(SubSeq(text, Len(text) - 1, Len(text))) = <<".", "lua">>
ProgramFilename(command) ==
    IF HasPathSyntax(command) \/ \E i \in DOMAIN command : command[i] \in Blanks THEN Refused
    ELSE IF Len(command) >= PathMax THEN Refused
    ELSE IF EndsWithLua(command) THEN command ELSE AppendText(command, <<".", "lua">>, PathMax)

-----------------------------------------------------------------------------
(* The arguments of a line.  The parser stops where its buffer or the      *)
(* array of arguments is full; `used' counts what is in the buffer.        *)
ReadCharacter(p, c) ==
    LET begins == ~p.started /\ (p.quoted \/ c \notin Blanks)
        starting == begins \/ (c = "\"" /\ ~p.started)
        full == p.used + 1 >= LineMax
    IN CASE p.stopped \/ (starting /\ Len(p.argv) >= MaxArgs) -> [p EXCEPT !.stopped = TRUE]
         [] c = "\"" -> [p EXCEPT !.quoted = ~@, !.started = TRUE,
                                  !.argv = IF p.started THEN @ ELSE Append(@, <<>>)]
         [] ~p.quoted /\ c \in Blanks ->
               IF ~p.started THEN p
               ELSE IF full THEN [p EXCEPT !.stopped = TRUE]
               ELSE [p EXCEPT !.started = FALSE, !.used = @ + 1]
         [] OTHER ->
               LET argv == IF p.started THEN p.argv ELSE Append(p.argv, <<>>)
               IN IF full THEN [p EXCEPT !.stopped = TRUE, !.argv = argv]
                  ELSE [p EXCEPT !.started = TRUE, !.used = @ + 1,
                                 !.argv = [argv EXCEPT ![Len(argv)] = Append(@, c)]]
ParseLine(line) ==
    FoldLeft(ReadCharacter,
             [argv |-> <<>>, quoted |-> FALSE, started |-> FALSE, used |-> 0, stopped |-> FALSE],
             line).argv

-----------------------------------------------------------------------------
(***************************************************************************)
(* What a line typed at the prompt does: shell_commands_execute, the       *)
(* commands cd, path, lua and open (bin/shell), the search for programs    *)
(* along PATH.txt, the application a file is opened with, and the          *)
(* directory, arguments and module path its Lua program gets.              *)
(***************************************************************************)

CONSTANTS Trees,     \* volumes: their directories, files, and file associations
          Removable, \* directories that come and go between two lines
          StartList, \* the lines of PATH.txt at first
          StartPlaces, \* history: the directories they stand for
          TypedLines, \* what may be typed: a set for the first line, for the second, ...
          ScriptLines \* what of it a script may hold as well

VARIABLE shell \* everything below

shellVars == <<shell>>

RootPath == <<"0", ":", "/">>
Nothing == [kind |-> "nothing", what |-> <<>>, args |-> <<>>, directory |-> <<>>, modules |-> <<>>]
Outcome(kind) == [Nothing EXCEPT !.kind = kind]

\* f_stat does not know the root, f_opendir does; names have no case.
DirectoryExists(path) == LowerText(path) \in shell.tree.directories
FileExists(path) == LowerText(path) \in shell.tree.files
PathExists(path) == DirectoryExists(path) \/ FileExists(path)
Opens(path) == path = RootPath \/ DirectoryExists(path)

-----------------------------------------------------------------------------
(* The search along the list: what is in the current directory comes       *)
(* first, and a name with a separator in it is searched nowhere else.      *)
Searched(list) == SelectSeq(list, DirectoryExists)
JoinedTo(directories, name) ==
    SelectSeq([i \in DOMAIN directories |-> Join(directories[i], name)], LAMBDA c : c # Refused)
\* Mutant: the current directory is searched last.
CandidatesPathFirst(here, list, name) ==
    IF HasPathSyntax(name) \/ Refused \in {here, list} THEN <<here>>
    ELSE Append(JoinedTo(Searched(list), name), here)
Candidates(here, list, name) ==
    IF HasPathSyntax(name) \/ here = Refused THEN <<here>>
    ELSE <<here>> \o (IF list = Refused THEN <<Refused>> ELSE JoinedTo(Searched(list), name))
\* shell_find_path and shell_find_command_file: the first that is there, <<>>
\* if none is, Refused if the search cannot go on.
FirstIn(candidates, there) ==
    LET stop == SelectInSeq(candidates, LAMBDA c : c = Refused \/ c \in there)
    IN IF stop = 0 THEN <<>> ELSE candidates[stop]
FirstPath(candidates) == FirstIn(candidates, {c \in ToSet(candidates) : PathExists(c)})
FirstFile(candidates) == FirstIn(candidates, {c \in ToSet(candidates) : FileExists(c)})
Named(name) == Candidates(ResolvePath(shell.cwd, name), LoadList(shell.list), name)
FindPath(name) == IF name = <<>> THEN Refused ELSE FirstPath(Named(name))
FindCommandFile(name) == FirstFile(Named(name))

\* shell_visit_path_directories: each directory once, whatever its case.
Visited(list) ==
    IF list = Refused THEN <<>>
    ELSE Subsequence(list, {i \in DOMAIN list :
             /\ DirectoryExists(list[i])
             /\ \A j \in 1 .. i - 1 : LowerText(list[j]) # LowerText(list[i])})
VisitDirectories == Visited(LoadList(shell.list))

\* lua_run_file_args up to the start of the program.
RunProgram(resolved, directory, args) ==
    IF resolved = Refused \/ directory = Refused \/ ~FileExists(resolved) THEN Outcome("error")
    ELSE [kind |-> "run", what |-> resolved, args |-> args, directory |-> directory,
          modules |-> <<directory>> \o VisitDirectories]
RunResolved(resolved, args) == RunProgram(resolved, DirectoryOfPath(resolved), args)
RunFile(path, args) == RunResolved(ResolvePath(shell.cwd, path), args)

\* package_runner_open: the directory of a package is a child of one on the
\* list and has a manifest; Lua's runner wants a main.lua.
ChildOfListed(list, path) ==
    \E i \in DOMAIN list : DirectoryExists(list[i]) /\ IsDirectChild(list[i], path)
IsPackage(path, list) ==
    /\ path # Refused /\ list # Refused
    /\ ChildOfListed(list, path)
    /\ DirectoryExists(path) /\ FileExists(Join(path, <<"manifest">>))
RunMain(package, main, args) ==
    IF IsPackage(package, LoadList(shell.list)) /\ main # Refused /\ FileExists(main)
    THEN RunFile(main, args) ELSE Outcome("error")
RunOpened(package, args) == RunMain(package, Join(package, <<"main", ".", "lua">>), args)
RunPackage(path, args) == RunOpened(ResolvePath(shell.cwd, path), args)

-----------------------------------------------------------------------------
(* The lines. *)
ShellInit ==
    \E tree \in Trees :
       shell = [tree |-> tree, cwd |-> RootPath, list |-> StartList, places |-> StartPlaces,
                stage |-> "prompt", argv |-> <<>>, typed |-> 0, line |-> <<>>,
                scripted |-> FALSE, from |-> RootPath, outcome |-> Nothing]
ShellRest ==
    shell = [tree |-> CHOOSE t \in Trees : TRUE, cwd |-> RootPath, list |-> StartList,
             places |-> StartPlaces, stage |-> "prompt", argv |-> <<>>, typed |-> Len(TypedLines),
             line |-> <<>>, scripted |-> FALSE, from |-> RootPath, outcome |-> Nothing]

\* Between two lines a directory may go with all that is in it, or come back
\* empty.
Outside(set, d) == {p \in set : p # d /\ ~Prefixed(p, Append(d, "/"))}
TreeChanges ==
    /\ shell.stage = "prompt" /\ shell.typed < Len(TypedLines)
    /\ \E d \in Removable :
         shell' = [shell EXCEPT !.tree.directories =
                                   IF d \in @ THEN Outside(@, d) ELSE @ \union {d},
                                !.tree.files = Outside(@, d), !.outcome = Nothing]

\* The line is typed, or is one of a script (shell_script_is_active).
TypeLine ==
    /\ shell.stage = "prompt" /\ shell.typed < Len(TypedLines)
    /\ \E line \in TypedLines[shell.typed + 1], scripted \in BOOLEAN :
         /\ scripted => line \in ScriptLines
         /\ shell' = [shell EXCEPT !.stage = "execute", !.argv = ParseLine(line), !.typed = @ + 1,
                                   !.line = line, !.scripted = scripted, !.from = shell.cwd,
                                   !.outcome = Nothing]

HasCommand == shell.argv # <<>> /\ shell.argv[1] # <<>>
Executing(command) == shell.stage = "execute" /\ HasCommand /\ shell.argv[1] = command
Ends(outcome) == [shell EXCEPT !.stage = "prompt", !.outcome = outcome]
From(n) == SubSeq(shell.argv, n, Len(shell.argv))
Builtin == {<<"cd">>, <<"path">>, <<"lua">>, <<"open">>}

EmptyLine ==
    /\ shell.stage = "execute" /\ ~HasCommand
    /\ shell' = Ends(Nothing)

Entered(path) ==
    IF path = Refused \/ ~Opens(path) THEN Ends(Outcome("error"))
    ELSE [Ends(Outcome("done")) EXCEPT !.cwd = path]
CdCommand ==
    /\ Executing(<<"cd">>)
    /\ shell' = IF Len(shell.argv) < 2 THEN Entered(ResolvePath(shell.cwd, RootPath))
                ELSE IF shell.argv[2] = <<>> THEN Ends(Outcome("error"))
                ELSE Entered(ResolvePath(shell.cwd, shell.argv[2]))

\* The command path; PathList has the steps of its file and what can fail in
\* them.  What does not fit or is not there leaves the file alone.
PathGiven(verb) ==
    /\ Executing(<<"path">>) /\ Len(shell.argv) = 3
    /\ shell.argv[2] = <<verb>> /\ shell.argv[3] # <<>>
Written(entries, places) ==
    [Ends(Outcome("done")) EXCEPT !.list = entries, !.places = places]

ListPath ==
    /\ Executing(<<"path">>) /\ Len(shell.argv) = 1
    /\ shell' = Ends(Outcome(IF LoadList(shell.list) = Refused THEN "error" ELSE "done"))

Added(list, path, entry) ==
    CASE Refused \in {list, path} \/ ~DirectoryExists(path) -> Ends(Outcome("error"))
      [] Contains(list, path) -> Ends(Outcome("done"))
      [] Len(list) >= MaxPathEntries \/ entry = Refused -> Ends(Outcome("error"))
      [] OTHER -> Written(Append(RawEntries(shell.list), entry), Append(shell.places, path))
AddDirectory(path) == Added(LoadList(shell.list), path, AbsoluteToEntry(path))
AddToPath ==
    /\ PathGiven("add")
    /\ shell' = AddDirectory(ResolvePath(shell.cwd, shell.argv[3]))

\* Every entry that stands for this directory goes; it need not exist.
Removed(list, path) ==
    IF Refused \in {list, path} \/ ~Contains(list, path) THEN Ends(Outcome("error"))
    ELSE Written(Subsequence(RawEntries(shell.list), {i \in DOMAIN list : list[i] # path}),
                 SelectSeq(shell.places, LAMBDA place : place # path))
RemoveFromPath ==
    /\ PathGiven("remove")
    /\ shell' = Removed(LoadList(shell.list), ResolvePath(shell.cwd, shell.argv[3]))

PathUsage ==
    /\ Executing(<<"path">>) /\ Len(shell.argv) > 1
    /\ ~PathGiven("add") /\ ~PathGiven("remove")
    /\ shell' = Ends(Outcome("error"))

Script(path) == IF path = Refused THEN Outcome("error") ELSE RunFile(path, From(3))
RunScript ==
    /\ Executing(<<"lua">>)
    /\ shell' = Ends(IF Len(shell.argv) < 2 \/ ~EndsWithLua(shell.argv[2]) THEN Outcome("error")
                     ELSE Script(ResolvePath(shell.cwd, shell.argv[2])))

\* open: a package is run, a file is given to the application of its
\* extension.  A terminal that a script opens starts in the script's directory;
\* the two arguments that say so take the places of `open' and the name.
PackageArguments ==
    (IF shell.scripted /\ shell.argv[2] = <<"terminal">> THEN << <<"--cwd">>, shell.cwd >>
     ELSE <<>>) \o From(3)
Opened(path, extension) ==
    IF path \in {<<>>, Refused} THEN Ends(Outcome("error"))
    ELSE IF DirectoryExists(path) THEN Ends(RunPackage(path, PackageArguments))
    ELSE IF extension \notin DOMAIN shell.tree.aliases THEN Ends(Outcome("error"))
    ELSE [shell EXCEPT !.stage = "associated",
                       !.argv = <<shell.tree.aliases[extension], path>> \o From(3)]
OpenFound(path) == Opened(path, PathExtension(path))
Open ==
    /\ Executing(<<"open">>)
    /\ shell' = IF Len(shell.argv) < 2 THEN Ends(Outcome("error"))
                ELSE OpenFound(FindPath(shell.argv[2]))

\* The application is a package, or else a command.
Associated(application) ==
    CASE application = Refused -> Ends(Outcome("error"))
      [] application # <<>> /\ DirectoryExists(application) ->
            Ends(RunPackage(application, From(2)))
      [] OTHER -> [shell EXCEPT !.stage = "execute"]
OpenAssociated ==
    /\ shell.stage = "associated"
    /\ shell' = Associated(FindPath(shell.argv[1]))

\* What is no command of the shell may be the name of a Lua program.
Program(path) == IF path \in {<<>>, Refused} THEN Outcome("unknown") ELSE RunFile(path, From(2))
Fallback ==
    /\ shell.stage = "execute" /\ HasCommand /\ shell.argv[1] \notin Builtin
    /\ shell' = Ends(IF ProgramFilename(shell.argv[1]) = Refused THEN Outcome("unknown")
                     ELSE Program(FindCommandFile(ProgramFilename(shell.argv[1]))))

ShellNext ==
    \/ TypeLine \/ TreeChanges \/ EmptyLine \/ CdCommand
    \/ ListPath \/ AddToPath \/ RemoveFromPath \/ PathUsage
    \/ RunScript \/ Open \/ OpenAssociated \/ Fallback

-----------------------------------------------------------------------------
(* What a text means: the place it leads to from a directory, and the      *)
(* arguments it holds, said by counting instead of reading along.          *)
Way(cwd, text) ==
    IF IsVolumePath(text) THEN Components(SubSeq(text, 3, Len(text)))
    ELSE IF StartsWith(text, Separators) THEN Components(text)
    ELSE Components(SubSeq(cwd, 3, Len(cwd))) \o Components(text)
Up == <<".", ".">>
Counted(way, from, to, parts) == Cardinality({i \in from .. to : way[i] \in parts})
Names(way) == {way[i] : i \in DOMAIN way} \ {Up, <<".">>}
Kept(way, i) ==
    /\ way[i] \in Names(way)
    /\ \A j \in i + 1 .. Len(way) :
         Counted(way, i + 1, j, {Up}) <= Counted(way, i + 1, j, Names(way))
PlaceOf(volume, names) ==
    volume \o (IF names = <<>> THEN <<"/">>
               ELSE FlattenSeq([n \in DOMAIN names |-> <<"/">> \o names[n]]))
KeptOf(way) == Subsequence(way, {i \in DOMAIN way : Kept(way, i)})
Place(cwd, text) ==
    PlaceOf(SubSeq(IF IsVolumePath(text) THEN text ELSE RootPath, 1, 2), KeptOf(Way(cwd, text)))
FitsPath(cwd, text) == Len(cwd) + 1 + Len(text) < PathMax

Quoted(line, i) == Cardinality({j \in 1 .. i - 1 : line[j] = "\""}) % 2 = 1
Divides(line, i) == line[i] \in Blanks /\ ~Quoted(line, i)
ArgumentStarts(line) == {i \in DOMAIN line : ~Divides(line, i) /\ (i > 1 => Divides(line, i - 1))}
ArgumentAt(line, i) ==
    LET after == {j \in i .. Len(line) : Divides(line, j)} \union {Len(line) + 1}
    IN SelectSeq(SubSeq(line, i, Min(after) - 1), LAMBDA c : c # "\"")
Arguments(line) ==
    Subsequence([i \in DOMAIN line |-> ArgumentAt(line, i)], ArgumentStarts(line))

Whole(line) == Len(line) < LineMax /\ Len(Arguments(line)) <= MaxArgs

(* A line is split where its blanks outside quotes are; when it is too     *)
(* long, or has too many arguments, only the end is missing and only the   *)
(* last argument is cut (shell_parse_line).                                *)
LinesSplit ==
    shell.stage = "execute" /\ shell.line # <<>> /\ shell.argv = ParseLine(shell.line) =>
        LET meant == Arguments(shell.line)  given == shell.argv IN
        /\ Len(given) <= MaxArgs /\ Len(given) <= Len(meant)
        /\ \A i \in 1 .. Len(given) - 1 : given[i] = meant[i]
        /\ given # <<>> => Prefixed(meant[Len(given)], Last(given))
        /\ Whole(shell.line) => given = meant

\* The first of the places a name may stand for.
PlacesAt(here, directories, name) ==
    <<here>> \o (IF HasPathSyntax(name) THEN <<>>
                 ELSE [i \in DOMAIN directories |-> Place(directories[i], name)])
PlacesOf(name) ==
    PlacesAt(Place(shell.from, name),
             SelectSeq(shell.places, LAMBDA d : LowerText(d) \in shell.tree.directories), name)
FirstAt(places, set) ==
    LET there == SelectInSeq(places, LAMBDA p : LowerText(p) \in set)
    IN IF there = 0 THEN <<>> ELSE places[there]
FirstOf(name, set) == FirstAt(PlacesOf(name), set)

(* The shell's directory is always a place of its own, not a way to it,    *)
(* and `cd' goes where the way leads if that is a directory                *)
(* (shell_resolve_path, shell_set_current_directory).                      *)
DirectoryTrue ==
    LET argv == Arguments(shell.line)  goal == Place(shell.from, argv[2]) IN
    /\ shell.cwd = Place(RootPath, shell.cwd)
    /\ /\ shell.stage = "prompt" /\ shell.outcome # Nothing /\ Whole(shell.line)
       /\ Len(argv) > 1 /\ argv[1] = <<"cd">> /\ argv[2] # <<>> /\ FitsPath(shell.from, argv[2])
       => IF Opens(goal) THEN shell.cwd = goal ELSE shell.cwd = shell.from

(* What PATH.txt is read as are the directories that were added to it and  *)
(* not removed, in that order, whatever was rewritten                      *)
(* (shell_path_absolute_to_entry, shell_path_entry_to_absolute).           *)
PathReadBack == LoadList(shell.list) = shell.places

(* A command runs the first program of its name, a file is opened by its   *)
(* application, and the file it is given can still be found from the       *)
(* directory the program runs in (shell_find_path, bin_open_main).         *)
RightProgramRuns ==
    LET argv == Arguments(shell.line)
        ran == shell.outcome
        program == FirstOf(ProgramFilename(argv[1]), shell.tree.files)
        opened == FirstOf(argv[2], shell.tree.files \union shell.tree.directories)
    IN shell.stage = "prompt" /\ ran.kind = "run" /\ Whole(shell.line) =>
         /\ argv[1] \notin Builtin =>
              LowerText(ran.what) = LowerText(program) /\ ran.args = Tail(argv)
         /\ argv[1] = <<"lua">> => ran.what = Place(shell.from, argv[2])
         /\ argv[1] = <<"open">> /\ LowerText(opened) \in shell.tree.files =>
              /\ ran.args # <<>>
              /\ LowerText(Place(ran.directory, ran.args[1])) = LowerText(opened)
              /\ Tail(ran.args) = SubSeq(argv, 3, Len(argv))
         /\ argv[1] = <<"open">> /\ LowerText(opened) \notin shell.tree.files =>
              /\ LowerText(ran.directory) = LowerText(opened)
              /\ ran.args = (IF shell.scripted /\ argv[2] = <<"terminal">>
                             THEN << <<"--cwd">>, shell.from >> ELSE <<>>)
                            \o SubSeq(argv, 3, Len(argv))

(* A program that is there is found, and its modules are looked for next   *)
(* to it and then once in every directory of the list that exists          *)
(* (shell_find_command_file, lua_program_set_module_path).                 *)
ModulesOnce ==
    LET ran == shell.outcome IN
    shell.stage = "prompt" =>
      /\ ran.kind = "unknown" /\ Whole(shell.line) =>
           LET filename == ProgramFilename(Arguments(shell.line)[1])
           IN filename # Refused => FirstOf(filename, shell.tree.files) = <<>>
      /\ ran.kind = "run" =>
           LET searched == [i \in 1 .. Len(ran.modules) - 1 |-> LowerText(ran.modules[i + 1])]
               there == {LowerText(shell.places[i]) : i \in DOMAIN shell.places}
                        \cap shell.tree.directories
           IN /\ Head(ran.modules) = ran.directory
              /\ Len(searched) = Cardinality(there)
              /\ {searched[i] : i \in DOMAIN searched} = there

(* A place has one name, whichever way it is entered and stored.           *)
PlacesTrue == DirectoryTrue /\ PathReadBack

(* A line runs what it names with the arguments it holds.                  *)
CommandsTrue == LinesSplit /\ RightProgramRuns /\ ModulesOnce
=============================================================================
