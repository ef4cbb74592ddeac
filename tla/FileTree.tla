------------------------------ MODULE FileTree ------------------------------
(***************************************************************************)
(* Copying, moving and deleting on a FAT volume (kernel/fs/neon_fs.c, the  *)
(* commands of bin/shell and lua/fs/lua_fs.c).  FatFs ignores case, so a   *)
(* file has one canonical path, a sequence of names, but many spellings;   *)
(* the code compares spellings, and a call says with "alike" whether its   *)
(* two paths would compare as the canonical ones do.  One action is one    *)
(* file-system call, except that the copy of one file is a single action;  *)
(* any call in TreeFaults may fail.                                        *)
(***************************************************************************)
EXTENDS Naturals, Sequences, FiniteSets, SequencesExt

CONSTANTS Names,
          MaxRecursion,  \* FS_MAX_RECURSION
          MaxPath,       \* names that fit in NEON_FS_PATH_MAX
          MaxNames,      \* bound: new calls begin below this many entries
          TreeFaults     \* the file-system calls that may fail

ASSUME TreeConstants ==
    /\ MaxRecursion \in Nat /\ MaxPath \in Nat /\ MaxNames \in Nat
    /\ TreeFaults \subseteq {"stat", "mkdir", "opendir", "readdir", "closedir",
                             "open", "read", "write", "close", "unlink", "rename"}

VARIABLES tree,    \* what every path holds: "dir", or the content of a file
          stack,   \* the calls of copy_path_internal and delete_tree_internal
          task,    \* the operation in progress, or the last one
          reply,   \* its answer: "none", "ok" or "error"
          earlier, \* history: tree when it began
          unclean  \* history: a call that cleans up has failed

treeVars == <<tree, stack, task, reply, earlier, unclean>>

Root == <<>>
PathsTo(n) == UNION {[1..k -> Names] : k \in 1..n}
Parent(p) == Front(p)
\* paths_equal and path_is_child_of: q is p, or in the tree at p.
Under(p, q) == IsPrefix(p, q)
\* join_path: a name can be appended to a path that is not yet as long as it gets.
Extends(p) == Len(p) < MaxPath

Exists(p) == p \in DOMAIN tree
IsDirectory(p) == p = Root \/ (Exists(p) /\ tree[p] = "dir")
IsFile(p) == Exists(p) /\ tree[p] # "dir"
Children(p) == {n \in Names : Exists(Append(p, n))}
CanHold(p) == p # Root /\ IsDirectory(Parent(p))

Put(p, content) ==
    [q \in DOMAIN tree \union {p} |-> IF q = p THEN content ELSE tree[q]]
Without(gone) == [p \in DOMAIN tree \ gone |-> tree[p]]
SubTree(t, p) == {[at |-> SubSeq(q, Len(p) + 1, Len(q)), is |-> t[q]] :
                      q \in {r \in DOMAIN t : Under(p, r)}}

-----------------------------------------------------------------------------
CopyFrame(src, dst, depth) ==
    [does |-> "copy", src |-> src, dst |-> dst, depth |-> depth,
     at |-> "enter", todo |-> {}, result |-> "ok"]
DeleteFrame(path, depth) ==
    [does |-> "delete", src |-> path, dst |-> path, depth |-> depth,
     at |-> "enter", todo |-> {}, result |-> "ok"]

Top == Last(stack)
At(does, label) == stack # <<>> /\ Top.does = does /\ Top.at = label
\* This call cleans up after a failed copy: its result is not looked at.
CleaningUp == \E i \in DOMAIN stack : stack[i].at = "cleaned"

Become(frame) == stack' = [stack EXCEPT ![Len(stack)] = frame] /\ UNCHANGED reply
Goto(label) == Become([Top EXCEPT !.at = label])
CallThen(label, frame) ==
    /\ stack' = Append([stack EXCEPT ![Len(stack)].at = label], frame)
    /\ UNCHANGED reply

\* A loop over a directory ends at the first error; the clean-up's is ignored.
Return(result) ==
    IF Len(stack) = 1 THEN stack' = <<>> /\ reply' = result
    ELSE LET up == stack[Len(stack) - 1] IN
         /\ stack' = [Front(stack) EXCEPT ![Len(stack) - 1] =
                        IF result = "ok" \/ up.at = "cleaned" THEN up
                        ELSE [up EXCEPT !.at = "close", !.result = "error"]]
         /\ UNCHANGED reply

ReturnError ==
    /\ Return("error")
    /\ unclean' = (unclean \/ CleaningUp)
Fault(call) == call \in TreeFaults

-----------------------------------------------------------------------------
\* copy_file: the destination is emptied by the open and written block by block.
CopyFile(src, dst) ==
    \/ /\ \/ \E call \in {"stat", "open"} : Fault(call)
          \/ ~CanHold(dst) \/ IsDirectory(dst)
       /\ ReturnError /\ UNCHANGED tree
    \/ /\ CanHold(dst) /\ ~IsDirectory(dst)
       /\ \/ tree' = Put(dst, tree[src]) /\ Return("ok") /\ UNCHANGED unclean
          \/ /\ \E call \in {"read", "write", "close"} : Fault(call)
             /\ tree' = Put(dst, "part") /\ ReturnError

\* copy_path_internal up to the new directory.
EnterCopy ==
    /\ At("copy", "enter")
    /\ \/ /\ Top.depth > MaxRecursion \/ ~Exists(Top.src) \/ Fault("stat")
          /\ ReturnError /\ UNCHANGED tree
       \/ /\ Top.depth <= MaxRecursion /\ IsFile(Top.src)
          /\ CopyFile(Top.src, Top.dst)
       \/ /\ Top.depth <= MaxRecursion /\ Exists(Top.src) /\ IsDirectory(Top.src)
          /\ \/ /\ Fault("mkdir") \/ ~CanHold(Top.dst) \/ Exists(Top.dst)
                /\ ReturnError /\ UNCHANGED tree
             \/ /\ CanHold(Top.dst) /\ ~Exists(Top.dst)
                /\ tree' = Put(Top.dst, "dir")
                /\ Goto("open") /\ UNCHANGED unclean

\* open_directory(source); if that fails the empty destination is deleted.
OpenCopy ==
    /\ At("copy", "open")
    /\ \/ /\ Become([Top EXCEPT !.at = "loop", !.todo = Children(Top.src)])
          /\ UNCHANGED <<tree, unclean>>
       \/ /\ Fault("opendir")
          /\ \/ /\ tree' = Without({Top.dst}) /\ Return("error")
                /\ UNCHANGED unclean
             \/ /\ Fault("unlink") /\ Return("error")
                /\ unclean' = TRUE /\ UNCHANGED tree

\* The directory is read one entry at a time, and each is copied.
ReadCopy ==
    /\ At("copy", "loop")
    /\ \/ Top.todo = {} /\ Goto("close")
       \/ /\ Fault("readdir")
          /\ Become([Top EXCEPT !.at = "close", !.result = "error"])
       \/ \E n \in Top.todo :
             IF Extends(Top.src) /\ Extends(Top.dst)
             THEN stack' = Append([stack EXCEPT ![Len(stack)].todo = @ \ {n}],
                            CopyFrame(Append(Top.src, n), Append(Top.dst, n),
                                      Top.depth + 1))
                  /\ UNCHANGED reply
             ELSE Become([Top EXCEPT !.at = "close", !.result = "error"])
    /\ UNCHANGED <<tree, unclean>>

\* Mutant: the half-made copy stays.
CloseCopyUnclean ==
    /\ At("copy", "close")
    /\ \/ Top.result = "ok" /\ Return("ok")
       \/ (Top.result = "error" \/ Fault("closedir")) /\ Return("error")
    /\ UNCHANGED <<tree, unclean>>

\* A directory that could not be copied whole is deleted again.
CloseCopy ==
    /\ At("copy", "close")
    /\ \/ Top.result = "ok" /\ Return("ok")
       \/ /\ Top.result = "error" \/ Fault("closedir")
          /\ CallThen("cleaned", DeleteFrame(Top.dst, 0))
    /\ UNCHANGED <<tree, unclean>>

Cleaned ==
    /\ At("copy", "cleaned")
    /\ Return("error")
    /\ UNCHANGED <<tree, unclean>>

-----------------------------------------------------------------------------
\* f_unlink: a file or an empty directory.
Unlink(p) ==
    \/ /\ Exists(p) /\ (IsDirectory(p) => Children(p) = {})
       /\ tree' = Without({p}) /\ Return("ok") /\ UNCHANGED unclean
    \/ /\ \/ Fault("unlink") \/ ~Exists(p)
          \/ IsDirectory(p) /\ Children(p) # {}
       /\ ReturnError /\ UNCHANGED tree

EnterDelete ==
    /\ At("delete", "enter")
    /\ \/ /\ \/ Top.depth > MaxRecursion \/ ~Exists(Top.src) \/ Fault("stat")
             \/ Exists(Top.src) /\ IsDirectory(Top.src) /\ Fault("opendir")
          /\ ReturnError /\ UNCHANGED tree
       \/ Top.depth <= MaxRecursion /\ IsFile(Top.src) /\ Unlink(Top.src)
       \/ /\ Top.depth <= MaxRecursion /\ Exists(Top.src) /\ IsDirectory(Top.src)
          /\ Become([Top EXCEPT !.at = "loop", !.todo = Children(Top.src)])
          /\ UNCHANGED <<tree, unclean>>

ReadDelete ==
    /\ At("delete", "loop")
    /\ \/ Top.todo = {} /\ Goto("close")
       \/ /\ Fault("readdir")
          /\ Become([Top EXCEPT !.at = "close", !.result = "error"])
       \/ \E n \in Top.todo :
             IF Extends(Top.src)
             THEN stack' = Append([stack EXCEPT ![Len(stack)].todo = @ \ {n}],
                            DeleteFrame(Append(Top.src, n), Top.depth + 1))
                  /\ UNCHANGED reply
             ELSE Become([Top EXCEPT !.at = "close", !.result = "error"])
    /\ UNCHANGED <<tree, unclean>>

CloseDelete ==
    /\ At("delete", "close")
    /\ \/ (Top.result = "error" \/ Fault("closedir")) /\ ReturnError /\ UNCHANGED tree
       \/ Top.result = "ok" /\ Unlink(Top.src)

-----------------------------------------------------------------------------
NoTask == [op |-> "none"]

Begin(t) ==
    /\ task = NoTask /\ Cardinality(DOMAIN tree) < MaxNames
    /\ task' = t /\ earlier' = tree /\ unclean' = FALSE

\* The caller has its answer and calls again, or does not.
Forget ==
    /\ stack = <<>>
    /\ task' = NoTask /\ reply' = "none" /\ earlier' = tree /\ unclean' = FALSE
    /\ UNCHANGED <<tree, stack>>

Answer(result) == stack' = <<>> /\ reply' = result
Refused == Answer("error") /\ UNCHANGED tree
Done(t) == Answer("ok") /\ tree' = t

\* copy_path when the f_stat of the destination fails, which reads as "not
\* there", although it is: f_mkdir refuses a directory, but f_open empties a
\* file (FA_CREATE_ALWAYS), the source itself included if it is spelled
\* otherwise, of which the first clusters at most can then be copied.
CopyOver(src, dst, alike) ==
    /\ Fault("stat") /\ Exists(dst) /\ ~(alike /\ Under(src, dst))
    /\ Begin([op |-> "overwrite", src |-> src, dst |-> dst, alike |-> alike])
    /\ \/ Refused
       \/ /\ IsFile(src) /\ IsFile(dst)
          /\ \/ Done(Put(dst, tree[src]))
             \/ /\ src = dst \/ \E call \in {"read", "write", "close"} : Fault(call)
                /\ tree' = Put(dst, "part") /\ Answer("error")

\* copy_path.
Copy(src, dst, alike) ==
    \/ /\ Begin([op |-> "copy", src |-> src, dst |-> dst, alike |-> alike])
       /\ IF (alike /\ Under(src, dst)) \/ Exists(dst) THEN Refused
          ELSE /\ stack' = <<CopyFrame(src, dst, 0)>> /\ reply' = "none"
               /\ UNCHANGED tree
    \/ CopyOver(src, dst, alike)

\* delete_tree; lua_fs_delete refuses the root, and f_stat fails on it.
Delete(p) ==
    /\ Begin([op |-> "delete", src |-> p, dst |-> p])
    /\ IF p = Root THEN Refused
       ELSE /\ stack' = <<DeleteFrame(p, 0)>> /\ reply' = "none"
            /\ UNCHANGED tree

\* f_rename, in one step (README, section 6): a target that exists is refused,
\* unless it is the source itself; a directory that moves below itself can no
\* longer be reached.
Renamed(src, dst) ==
    LET moved == {p \in DOMAIN tree : Under(src, p)}
        To(p) == dst \o SubSeq(p, Len(src) + 1, Len(p))
        paths == (DOMAIN tree \ moved) \union {To(p) : p \in moved}
    IN  IF src = dst THEN tree
        ELSE IF Under(src, dst) THEN Without(moved)
        ELSE [p \in paths |->
                IF Under(dst, p) THEN tree[src \o SubSeq(p, Len(dst) + 1, Len(p))]
                ELSE tree[p]]

Rename(src, dst) ==
    \/ /\ Exists(src) /\ CanHold(dst) /\ (Exists(dst) => src = dst)
       /\ Done(Renamed(src, dst))
    \/ /\ Fault("rename") \/ ~Exists(src) \/ ~CanHold(dst)
          \/ (Exists(dst) /\ src # dst)
       /\ Refused

\* fs.move looks at the spellings; the mv command passes them on.
MoveMakesNoSense(src, dst, alike) ==
    src = Root \/ dst = Root \/ (alike /\ Under(src, dst))

Move(src, dst, alike) ==
    /\ Begin([op |-> "move", src |-> src, dst |-> dst, alike |-> alike])
    /\ IF MoveMakesNoSense(src, dst, alike) THEN Refused ELSE Rename(src, dst)

MvCommand(src, dst) ==
    /\ Begin([op |-> "mv", src |-> src, dst |-> dst])
    /\ Rename(src, dst)

RmCommand(p) ==
    /\ Begin([op |-> "rm", src |-> p, dst |-> p])
    /\ \/ Exists(p) /\ (IsDirectory(p) => Children(p) = {}) /\ Done(Without({p}))
       \/ Refused /\ (Fault("unlink") \/ ~Exists(p) \/ Children(p) # {})

MakeDirectory(p) ==
    /\ Begin([op |-> "mkdir", src |-> p, dst |-> p])
    /\ \/ CanHold(p) /\ ~Exists(p) /\ Done(Put(p, "dir"))
       \/ Refused /\ (Fault("mkdir") \/ ~CanHold(p) \/ Exists(p))

\* ensure_file, with create_file: a file that is there is left as it is.
EnsureFile(p) ==
    /\ Begin([op |-> "file", src |-> p, dst |-> p])
    /\ \/ IsFile(p) /\ Done(tree)
       \/ /\ CanHold(p) /\ ~Exists(p)
          /\ \/ Done(Put(p, "new"))
             \/ Fault("close") /\ tree' = Put(p, "new") /\ Answer("error")
       \/ /\ \E call \in {"stat", "open"} : Fault(call)
             \/ ~CanHold(p) \/ IsDirectory(p)
          /\ Refused

EnsureDirectory(p) ==
    /\ Begin([op |-> "directory", src |-> p, dst |-> p])
    /\ \/ IsDirectory(p) /\ Done(tree)
       \/ CanHold(p) /\ ~Exists(p) /\ Done(Put(p, "dir"))
       \/ /\ \E call \in {"stat", "mkdir"} : Fault(call)
             \/ ~CanHold(p) \/ IsFile(p)
          /\ Refused

\* write_file and append_file: an error after the open leaves a part.
WriteFile(p) ==
    /\ Begin([op |-> "write", src |-> p, dst |-> p])
    /\ \/ /\ CanHold(p) /\ ~IsDirectory(p)
          /\ \/ Done(Put(p, "new"))
             \/ /\ \E call \in {"write", "close"} : Fault(call)
                /\ tree' = Put(p, "part") /\ Answer("error")
       \/ Refused /\ (Fault("open") \/ ~CanHold(p) \/ IsDirectory(p))

\* ensure_directory_tree: every directory on the way, up to the first error.
EnsureTree(p) ==
    LET on == {SubSeq(p, 1, k) : k \in 1..Len(p)}
        file == {q \in on : IsFile(q)}
        upto(n) == [q \in {r \in on : Len(r) <= n} \union DOMAIN tree |->
                        IF Exists(q) THEN tree[q] ELSE "dir"]
    IN  /\ Begin([op |-> "mktree", src |-> p, dst |-> p])
        /\ \/ file = {} /\ Done(upto(Len(p)))
           \/ /\ file # {} /\ Answer("error")
              /\ UNCHANGED tree
           \/ \E n \in 0..(Len(p) - 1) :
                 /\ \E call \in {"stat", "mkdir"} : Fault(call)
                 /\ \A q \in file : Len(q) > n
                 /\ tree' = upto(n) /\ Answer("error")

-----------------------------------------------------------------------------
\* Volumes with directories one deep in the root, whose files hold "old".
Volumes ==
    {t \in UNION {[d -> {"dir", "old"}] : d \in SUBSET PathsTo(2)} :
        \A p \in DOMAIN t : Len(p) > 1 =>
            Parent(p) \in DOMAIN t /\ t[Parent(p)] = "dir"}

TreeInit ==
    /\ tree \in {t \in Volumes : Cardinality(DOMAIN t) < MaxNames}
    /\ stack = <<>> /\ task = NoTask /\ reply = "none"
    /\ earlier = tree /\ unclean = FALSE

Working ==
    EnterCopy \/ OpenCopy \/ ReadCopy \/ CloseCopy \/ Cleaned
    \/ EnterDelete \/ ReadDelete \/ CloseDelete

TreeNext ==
    \/ \E src, dst \in {Root} \union PathsTo(2), alike \in BOOLEAN :
          Copy(src, dst, alike) \/ Move(src, dst, alike)
    \/ \E src, dst \in PathsTo(2) : MvCommand(src, dst)
    \/ \E p \in PathsTo(2) :
          \/ RmCommand(p) \/ MakeDirectory(p) \/ WriteFile(p)
          \/ EnsureFile(p) \/ EnsureDirectory(p) \/ EnsureTree(p)
    \/ \E p \in {Root} \union PathsTo(2) : Delete(p)
    \/ Working /\ UNCHANGED <<task, earlier>>
    \/ Forget

TreeSpec == TreeInit /\ [][TreeNext]_treeVars

-----------------------------------------------------------------------------
\* Whatever fails, at every moment: a copy changes nothing that was there and
\* adds only below its destination, unless it does not see the file there (a
\* f_stat that fails) and overwrites that one only; a deletion, a new directory
\* and a write touch only what is at or below their path, and what should be
\* there already is left as it was (neon_fs.c).
OthersKept ==
    /\ task.op = "copy" =>
         /\ \A p \in DOMAIN earlier : Exists(p) /\ tree[p] = earlier[p]
         /\ \A p \in DOMAIN tree \ DOMAIN earlier : Under(task.dst, p)
    /\ task.op = "overwrite" =>
         \A p \in DOMAIN tree \union DOMAIN earlier : p # task.dst =>
             Exists(p) /\ p \in DOMAIN earlier /\ tree[p] = earlier[p]
    /\ task.op \in {"delete", "rm", "mkdir", "write", "file", "directory"} =>
         \A p \in DOMAIN tree \union DOMAIN earlier : ~Under(task.src, p) =>
             Exists(p) /\ p \in DOMAIN earlier /\ tree[p] = earlier[p]
    /\ task.op \in {"delete", "rm"} =>
         \A p \in DOMAIN tree : p \in DOMAIN earlier /\ tree[p] = earlier[p]
    /\ task.op \in {"file", "directory", "mktree"} =>
         \A p \in DOMAIN earlier : Exists(p) /\ tree[p] = earlier[p]

\* A copy that succeeds is exact; a directory that fails to be copied leaves
\* nothing, if no call of the clean-up fails, and a file at most a part of
\* itself; a deletion that succeeds leaves nothing (copy_path, delete_tree).
TreeReplyTrue ==
    /\ task.op \in {"copy", "overwrite"} /\ reply = "ok" =>
         SubTree(tree, task.dst) = SubTree(earlier, task.src)
    /\ task.op \in {"copy", "overwrite"} /\ reply = "error" /\ ~unclean =>
         \/ tree = earlier
         \/ /\ earlier[task.src] # "dir"
            /\ SubTree(tree, task.dst) = {[at |-> Root, is |-> "part"]}
    /\ task.op = "delete" /\ reply = "ok" => SubTree(tree, task.src) = {}
    /\ task.op = "file" /\ reply = "ok" => IsFile(task.src)
    /\ task.op \in {"directory", "mktree"} /\ reply = "ok" => IsDirectory(task.src)

\* "fs.move destination must not be inside the source directory"
\* (lua_fs.c:574): a move that succeeds loses nothing.
MoveLosesNothing ==
    task.op = "move" /\ reply = "ok" =>
        SubTree(tree, task.dst) = SubTree(earlier, task.src)

\* A call on a tree does what its status says, and nothing elsewhere.
TreesTrue == OthersKept /\ TreeReplyTrue
=============================================================================
