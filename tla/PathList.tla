------------------------------- MODULE PathList ------------------------------
(***************************************************************************)
(* PATH.txt, the directories that are searched for commands                *)
(* (kernel/console/shell_path.c): loaded as a whole, changed in memory and *)
(* written back over the old file.  A file that is missing is a read that  *)
(* fails.                                                                  *)
(***************************************************************************)
EXTENDS Naturals, Sequences, FiniteSets, SequencesExt

CONSTANTS Directories, \* what an entry resolves to
          Missing,     \* those of them that are no directories any more
          Beginnings,  \* what the line of an entry resolves to when it is cut off
          Note,        \* a comment or a blank line
          MaxEntries,  \* SHELL_PATH_MAX_ENTRIES
          PathFaults   \* the file-system calls that may fail

ASSUME PathConstants ==
    /\ MaxEntries \in Nat
    /\ Missing \subseteq Directories
    /\ Beginnings \in [Directories -> SUBSET Directories]
    /\ Note \notin Directories
    /\ PathFaults \subseteq {"read", "open", "write", "close"}

VARIABLES path,      \* the lines of SHELL_PATH_FILE
          list,      \* the entries in memory
          stage,     \* where the update is
          change,    \* the update in progress, or the last one
          put,       \* entries written so far
          status,    \* the status of the last update
          original   \* history: path when the last update began

pathVars == <<path, list, stage, change, put, status, original>>

Changes == [kind : {"add", "remove"}, dir : Directories]
NoChange == [kind |-> "none"]

\* What shell_path_load_list makes of the lines.
Dropping(lines, out) ==
    LET kept[n \in 0..Len(lines)] ==
            IF n = 0 THEN <<>>
            ELSE IF lines[n] = out THEN kept[n - 1]
            ELSE Append(kept[n - 1], lines[n])
    IN  kept[Len(lines)]
Entries(lines) == Dropping(lines, Note)
Loads(lines) == Len(Entries(lines)) <= MaxEntries

-----------------------------------------------------------------------------
PathInit ==
    /\ path \in UNION {[1..n -> Directories \union {Note}] : n \in 0..(MaxEntries + 1)}
    /\ list = <<>> /\ stage = "idle" /\ change = NoChange /\ put = 0
    /\ status = "none" /\ original = path

Reply(s) == stage' = "idle" /\ status' = s /\ UNCHANGED <<list, put>>

\* shell_path_add_directory or shell_path_remove_directory is called.
StartChange(c) ==
    /\ stage = "idle"
    /\ stage' = "load" /\ change' = c /\ status' = "none" /\ original' = path
    /\ list' = <<>> /\ put' = 0
    /\ UNCHANGED path

\* shell_path_load_list: more entries than fit are an error.
Load ==
    /\ stage = "load"
    /\ \/ ("read" \in PathFaults \/ ~Loads(path)) /\ Reply("io_error")
       \/ Loads(path) /\ list' = Entries(path) /\ stage' = change.kind
          /\ UNCHANGED <<put, status>>
    /\ UNCHANGED <<path, change, original>>

\* Mutant: the limit is tested with > instead of >=.
AddOneMore ==
    /\ stage = "add"
    /\ \/ change.dir \in Missing /\ Reply("not_directory")
       \/ change.dir \notin Missing /\ Contains(list, change.dir) /\ Reply("already_present")
       \/ /\ change.dir \notin Missing /\ ~Contains(list, change.dir)
          /\ \/ Len(list) > MaxEntries /\ Reply("too_many_entries")
             \/ /\ Len(list) <= MaxEntries
                /\ list' = Append(list, change.dir) /\ stage' = "open"
                /\ UNCHANGED <<put, status>>
    /\ UNCHANGED <<path, change, original>>

\* The list with the directory at its end.
AddEntry ==
    /\ stage = "add"
    /\ \/ change.dir \in Missing /\ Reply("not_directory")
       \/ change.dir \notin Missing /\ Contains(list, change.dir) /\ Reply("already_present")
       \/ /\ change.dir \notin Missing /\ ~Contains(list, change.dir)
          /\ \/ Len(list) >= MaxEntries /\ Reply("too_many_entries")
             \/ /\ Len(list) < MaxEntries
                /\ list' = Append(list, change.dir) /\ stage' = "open"
                /\ UNCHANGED <<put, status>>
    /\ UNCHANGED <<path, change, original>>

\* The list without the directory, however often it is there.
RemoveEntry ==
    /\ stage = "remove"
    /\ \/ ~Contains(list, change.dir) /\ Reply("not_found")
       \/ /\ Contains(list, change.dir)
          /\ list' = Dropping(list, change.dir)
          /\ stage' = "open"
          /\ UNCHANGED <<put, status>>
    /\ UNCHANGED <<path, change, original>>

\* shell_path_write_list opens the file and thereby empties it.
OpenForWrite ==
    /\ stage = "open"
    /\ \/ /\ path' = <<>> /\ stage' = "write"
          /\ UNCHANGED <<list, put, status>>
       \/ "open" \in PathFaults /\ Reply("io_error") /\ UNCHANGED path
    /\ UNCHANGED <<change, original>>

\* What a rewrite that stops can leave: some of the lines written so far, and of
\* the one after them a beginning, which names a directory of its own.  (A line
\* that lacks its newline only is read as the whole one.)
CutOff(lines) ==
    {SubSeq(lines, 1, n) : n \in 0..Len(lines)}
      \union UNION {{Append(SubSeq(lines, 1, n - 1), cut) : cut \in Beginnings[lines[n]]} :
                       n \in 1..Len(lines)}

\* The lines whose writing has begun.
Begun == SubSeq(list, 1, IF put < Len(list) THEN put + 1 ELSE put)

WriteEntry ==
    /\ stage = "write" /\ put < Len(list)
    /\ \/ /\ path' = Append(path, list[put + 1]) /\ put' = put + 1
          /\ UNCHANGED <<stage, list, status>>
       \/ "write" \in PathFaults /\ Reply("io_error") /\ path' \in CutOff(Begun)
    /\ UNCHANGED <<change, original>>

CloseList ==
    /\ stage = "write" /\ put = Len(list)
    /\ \/ Reply("ok") /\ UNCHANGED path
       \/ "close" \in PathFaults /\ Reply("io_error") /\ path' \in CutOff(Begun)
    /\ UNCHANGED <<change, original>>

\* Power loss: of the open file any part may be on the disk.
PathCrash ==
    /\ stage # "idle"
    /\ Reply("crash")
    /\ path' \in IF stage = "write" THEN CutOff(Begun) ELSE {path}
    /\ UNCHANGED <<change, original>>

PathNext ==
    \/ \E c \in Changes : StartChange(c)
    \/ Load \/ AddEntry \/ RemoveEntry
    \/ OpenForWrite \/ WriteEntry \/ CloseList
    \/ PathCrash

PathSpec == PathInit /\ [][PathNext]_pathVars

-----------------------------------------------------------------------------
\* What the change should make of the entries the file had.
Changed ==
    IF change = NoChange THEN Entries(original)
    ELSE IF change.kind = "remove" THEN Dropping(Entries(original), change.dir)
    ELSE Append(Entries(original), change.dir)

\* The lines of p are the first ones of l, but for the last, which may be cut.
BeginsAs(p, l) ==
    /\ Len(p) <= Len(l)
    /\ \A i \in 1..Len(p) :
          p[i] = l[i] \/ (i = Len(p) /\ p[i] \in Beginnings[l[i]])

\* Success means that the file holds the changed list, and an answer that
\* refuses the change that it holds the old one, comments included.  An error
\* or a crash during the rewrite loses entries, but only from the end, and at
\* most one line is cut, the last: nothing else is invented, duplicated or put
\* in another order (shell_path_write_list).
PathStatusTrue ==
    /\ status = "ok" => path = Changed
    /\ status \in {"already_present", "not_found", "not_directory",
                   "too_many_entries"} => path = original
    /\ \/ path = original
       \/ IsPrefix(path, Changed)
       \/ status \in {"io_error", "crash"} /\ BeginsAs(path, Changed)

\* A list that loads goes on loading: no update, finished, failed or cut off,
\* leaves more entries than shell_path_load_list accepts.  One without
\* duplicates gets none, but for a last line that an error or a crash cut off.
PathStaysUsable ==
    /\ Loads(original) => Loads(path)
    /\ IsInjective(Entries(original)) =>
          \A i, j \in 1..Len(Entries(path)) :
              i < j /\ Entries(path)[i] = Entries(path)[j] =>
                  j = Len(path) /\ status \in {"io_error", "crash"}

\* PATH.txt is what the status says, and never a list that does not load.
PathListTrue == PathStatusTrue /\ PathStaysUsable
=============================================================================
