------------------------- MODULE PackageTransaction -------------------------
(***************************************************************************)
(* Installing and uninstalling packages (kernel/packages).  For each name  *)
(* three directories matter: the destination 0:/.packages/<name>, and in   *)
(* the transaction directory the staging and the backup copies.  One       *)
(* action is one file-system call with the test that guards it; the power  *)
(* may fail between any two, and every call in Faults may fail.  f_rename  *)
(* is no single step either: TornRename.                                   *)
(***************************************************************************)
CONSTANTS Names,    \* package names that pass package_name_is_valid
          Archives, \* archives; as a tree, what zip_unpack makes of one
          Nested,   \* the archives whose only top-level entry is a directory
          Faults,   \* the file-system calls that may fail
          Absent, File, Damaged, \* the trees that are not a whole package
          NoCall

Places == {"dest", "staging", "backup"}
Trees  == {Absent, File, Damaged} \cup Archives

FaultNames == {"prepare", "stat", "rename", "delete", "unpack", "readdir"}

ASSUME PackageConstants ==
    /\ Nested \subseteq Archives
    /\ Faults \subseteq FaultNames
    /\ Absent \notin Archives /\ File \notin Archives /\ Damaged \notin Archives
    /\ Absent # File /\ Absent # Damaged /\ File # Damaged

VARIABLES fs,       \* [Names -> [Places -> Trees]], what is on the disk
          pc,       \* where the operation in progress is
          op,       \* the operation in progress, or NoCall
          replaced, \* replaced_existing
          deleting, \* a delete_tree has removed some entries and not all
          code,     \* the status the operation is about to return
          reply     \* the status the last operation returned

vars == <<fs, pc, op, replaced, deleting, code, reply>>

Calls == [kind : {"install"}, name : Names, arch : Archives]
           \cup [kind : {"remove"}, name : Names]

ASSUME NoCallIsNoCall == NoCall \notin Calls

CommonLabels  == {"prepare", "recover", "drop_backup", "drop_staging",
                  "check", "return"}
InstallLabels == {"unpack", "unpacking", "merging", "set_aside", "commit",
                  "rollback", "abort", "clean_staging", "clean_backup"}
LabelsOf(kind) ==
    CommonLabels \cup IF kind = "install" THEN InstallLabels ELSE {"delete"}

Successes == {"OK", "OK_CLEANUP_PENDING"}
Statuses  == Successes \cup {"ERR_ARCHIVE", "ERR_FILESYSTEM",
               "ERR_TRANSACTION", "ERR_NOT_DIRECTORY", "ERR_NOT_INSTALLED"}

At(p) == fs[op.name][p]
Put(p, tree) == fs' = [fs EXCEPT ![op.name][p] = tree]

\* path_exists and directory_exists: a failing f_stat reads as "no".
PathExists(tree) ==
    IF tree = Absent THEN {FALSE}
    ELSE IF "stat" \in Faults THEN BOOLEAN ELSE {TRUE}

DirectoryExists(tree) ==
    IF tree = File THEN {FALSE} ELSE PathExists(tree)

Goto(label) ==
    /\ pc' = label
    /\ UNCHANGED <<fs, replaced, deleting, code>>

Fail(label, status) ==
    /\ pc' = label
    /\ code' = status
    /\ UNCHANGED <<fs, replaced, deleting>>

\* f_rename refuses a missing source and an existing target, and then does
\* nothing, or all, or stops half way: TornRename.
CanRename(from, to) == At(from) # Absent /\ At(to) = Absent
RenameFails(from, to) == "rename" \in Faults \/ ~CanRename(from, to)

Move(from, to, left) ==
    /\ CanRename(from, to)
    /\ fs' = [fs EXCEPT ![op.name] =
                [@ EXCEPT ![to] = fs[op.name][from], ![from] = left]]

-----------------------------------------------------------------------------
Init ==
    /\ fs \in [Names -> [Places -> Trees]]
    /\ \A n \in Names : /\ fs[n]["dest"] # Damaged
                        /\ fs[n]["staging"] = Absent
                        /\ fs[n]["backup"] = Absent
    /\ pc = "idle"
    /\ op = NoCall
    /\ replaced = FALSE
    /\ deleting = FALSE
    /\ code = "OK"
    /\ reply = "none"

\* package_install_archive or package_remove is called.
Call(c) ==
    /\ pc = "idle"
    /\ op' = c
    /\ pc' = "prepare"
    /\ reply' = "none"
    /\ UNCHANGED <<fs, replaced, deleting, code>>

\* file_exists(archive), then package_prepare.  The two directories it makes
\* hold the trees of every name; that they exist is not part of the state.
Prepare ==
    /\ pc = "prepare"
    /\ \/ Goto("recover")
       \/ op.kind = "install" /\ Fail("return", "ERR_ARCHIVE")
       \/ "prepare" \in Faults /\ Fail("return", "ERR_FILESYSTEM")
    /\ UNCHANGED <<op, reply>>

\* Mutant: a failed rename of the backup does not end the recovery.
RecoverBackupGoesOn ==
    /\ pc = "recover"
    /\ \E hasBackup \in PathExists(At("backup")), hasDest \in PathExists(At("dest")) :
          IF hasBackup /\ ~hasDest
          THEN \/ /\ Move("backup", "dest", Absent)
                  /\ pc' = "drop_backup"
                  /\ UNCHANGED <<replaced, deleting, code>>
               \/ RenameFails("backup", "dest") /\ Goto("drop_backup")
          ELSE Goto("drop_backup")
    /\ UNCHANGED <<op, reply>>

\* package_recover_transaction, the rename of a backup left by a crash.
RecoverBackup ==
    /\ pc = "recover"
    /\ \E hasBackup \in PathExists(At("backup")), hasDest \in PathExists(At("dest")) :
          IF hasBackup /\ ~hasDest
          THEN \/ /\ Move("backup", "dest", Absent)
                  /\ pc' = "drop_backup"
                  /\ UNCHANGED <<replaced, deleting, code>>
               \/ /\ RenameFails("backup", "dest")
                  /\ Fail("return", "ERR_TRANSACTION")
          ELSE Goto("drop_backup")
    /\ UNCHANGED <<op, reply>>

\* delete_tree: the first entries go, then the last one, or it stops midway.
DeleteTree(p, next, failed, status) ==
    \/ /\ ~deleting
       /\ Put(p, Damaged)
       /\ deleting' = TRUE
       /\ UNCHANGED <<pc, replaced, code>>
    \/ /\ deleting
       /\ Put(p, Absent)
       /\ deleting' = FALSE
       /\ pc' = next
       /\ UNCHANGED <<replaced, code>>
    \/ /\ "delete" \in Faults
       /\ deleting' = FALSE
       /\ pc' = failed
       /\ code' = status
       /\ UNCHANGED <<fs, replaced>>

\* package_remove_if_present: nothing to delete, or delete_tree.
RemoveIfPresent(p, next, failed, status) ==
    \/ ~deleting /\ FALSE \in PathExists(At(p)) /\ Goto(next)
    \/ (deleting \/ TRUE \in PathExists(At(p)))
          /\ DeleteTree(p, next, failed, status)

RecoverDropBackup ==
    /\ pc = "drop_backup"
    /\ RemoveIfPresent("backup", "drop_staging", "return", "ERR_TRANSACTION")
    /\ UNCHANGED <<op, reply>>

\* Mutant: a staging tree that cannot be removed does not end the recovery.
RecoverDropStagingGoesOn ==
    /\ pc = "drop_staging"
    /\ RemoveIfPresent("staging", "check", "check", code)
    /\ UNCHANGED <<op, reply>>

RecoverDropStaging ==
    /\ pc = "drop_staging"
    /\ RemoveIfPresent("staging", "check", "return", "ERR_TRANSACTION")
    /\ UNCHANGED <<op, reply>>

\* Mutant: package_remove does not test for a directory.
CheckExistenceOnly ==
    /\ pc = "check"
    /\ \E exists \in PathExists(At("dest")), isDir \in DirectoryExists(At("dest")) :
          \/ op.kind = "install" /\ exists /\ ~isDir /\ Fail("return", "ERR_NOT_DIRECTORY")
          \/ op.kind = "install" /\ (exists => isDir) /\ Goto("unpack")
          \/ op.kind = "remove" /\ ~exists /\ Fail("return", "ERR_NOT_INSTALLED")
          \/ op.kind = "remove" /\ exists /\ Goto("delete")
    /\ UNCHANGED <<op, reply>>

\* The tests on the destination once a transaction is recovered.
Check ==
    /\ pc = "check"
    /\ \E exists \in PathExists(At("dest")), isDir \in DirectoryExists(At("dest")) :
          \/ exists /\ ~isDir /\ Fail("return", "ERR_NOT_DIRECTORY")
          \/ op.kind = "install" /\ (exists => isDir) /\ Goto("unpack")
          \/ op.kind = "remove" /\ ~exists /\ Fail("return", "ERR_NOT_INSTALLED")
          \/ op.kind = "remove" /\ exists /\ isDir /\ Goto("delete")
    /\ UNCHANGED <<op, reply>>

\* zip_unpack: the archive does not open, or entries start to appear.
Unpack ==
    /\ pc = "unpack"
    /\ \/ "unpack" \in Faults /\ Fail("abort", "ERR_ARCHIVE")
       \/ /\ Put("staging", Damaged)
          /\ pc' = IF At("staging") = Absent THEN "unpacking" ELSE "merging"
          /\ UNCHANGED <<replaced, deleting, code>>
    /\ UNCHANGED <<op, reply>>

\* The last entry is written, or one fails; over a staging tree that was not
\* removed the result is a mixture.  Then package_select_unpacked_root.
UnpackEnd ==
    /\ pc \in {"unpacking", "merging"}
    /\ \/ /\ Put("staging", IF pc = "unpacking" THEN op.arch ELSE Damaged)
          /\ \/ pc' = "set_aside" /\ code' = code
             \/ "readdir" \in Faults /\ pc' = "abort" /\ code' = "ERR_FILESYSTEM"
          /\ UNCHANGED <<replaced, deleting>>
       \/ "unpack" \in Faults /\ Fail("abort", "ERR_ARCHIVE")
    /\ UNCHANGED <<op, reply>>

\* An existing destination becomes the backup.
SetAside ==
    /\ pc = "set_aside"
    /\ \E isDir \in DirectoryExists(At("dest")) :
          \/ ~isDir /\ Goto("commit")
          \/ /\ isDir
             /\ Move("dest", "backup", Absent)
             /\ pc' = "commit"
             /\ replaced' = TRUE
             /\ UNCHANGED <<deleting, code>>
          \/ isDir /\ RenameFails("dest", "backup") /\ Fail("abort", "ERR_FILESYSTEM")
    /\ UNCHANGED <<op, reply>>

\* The unpacked root is the staging tree, or its only directory: then the
\* rename leaves an empty staging directory behind.
RootIsNested == IF At("staging") = op.arch THEN {op.arch \in Nested} ELSE BOOLEAN

\* Mutant: the result of the rename that installs is ignored.
CommitUnchecked ==
    /\ pc = "commit"
    /\ \/ \E nested \in RootIsNested :
             /\ Move("staging", "dest", IF nested THEN Damaged ELSE Absent)
             /\ pc' = IF nested THEN "clean_staging" ELSE "clean_backup"
             /\ UNCHANGED <<replaced, deleting, code>>
       \/ RenameFails("staging", "dest") /\ Goto("clean_staging")
    /\ UNCHANGED <<op, reply>>

\* The rename that installs the package.
Commit ==
    /\ pc = "commit"
    /\ \/ \E nested \in RootIsNested :
             /\ Move("staging", "dest", IF nested THEN Damaged ELSE Absent)
             /\ pc' = IF nested THEN "clean_staging" ELSE "clean_backup"
             /\ UNCHANGED <<replaced, deleting, code>>
       \/ /\ RenameFails("staging", "dest")
          /\ Fail(IF replaced THEN "rollback" ELSE "abort", "ERR_FILESYSTEM")
    /\ UNCHANGED <<op, reply>>

\* The backup goes back; whether it did is ignored.
Rollback ==
    /\ pc = "rollback"
    /\ \/ /\ Move("backup", "dest", Absent)
          /\ pc' = "abort"
          /\ UNCHANGED <<replaced, deleting, code>>
       \/ RenameFails("backup", "dest") /\ Goto("abort")
    /\ UNCHANGED <<op, reply>>

\* Every failure after zip_unpack drops the staging tree, successfully or not.
Abort ==
    /\ pc = "abort"
    /\ RemoveIfPresent("staging", "return", "return", code)
    /\ UNCHANGED <<op, reply>>

\* Mutant: cleanup_pending is not set when the staging tree stays.
CleanStagingSilently ==
    /\ pc = "clean_staging"
    /\ RemoveIfPresent("staging", "clean_backup", "clean_backup", "OK")
    /\ UNCHANGED <<op, reply>>

CleanStaging ==
    /\ pc = "clean_staging"
    /\ RemoveIfPresent("staging", "clean_backup", "clean_backup",
                       "OK_CLEANUP_PENDING")
    /\ UNCHANGED <<op, reply>>

CleanBackup ==
    /\ pc = "clean_backup"
    /\ IF replaced
       THEN RemoveIfPresent("backup", "return", "return", "OK_CLEANUP_PENDING")
       ELSE Goto("return")
    /\ UNCHANGED <<op, reply>>

\* package_remove deletes the destination where it is.
DeleteDestination ==
    /\ pc = "delete"
    /\ DeleteTree("dest", "return", "return", "ERR_FILESYSTEM")
    /\ UNCHANGED <<op, reply>>

Discard(label) ==
    /\ pc' = label
    /\ op' = NoCall
    /\ replaced' = FALSE
    /\ deleting' = FALSE
    /\ code' = "OK"

Return ==
    /\ pc = "return"
    /\ reply' = code
    /\ Discard("idle")
    /\ UNCHANGED fs

\* Power loss or reset: the disk keeps what the calls so far made of it.
Crash ==
    /\ pc \notin {"idle", "torn"}
    /\ reply' = "none"
    /\ Discard("idle")
    /\ UNCHANGED fs

\* f_rename stops, by an error or for want of power, in what its code calls
\* the critical section: the new entry is written, the old one is not removed,
\* and both lead to one chain of clusters.  Whichever of them a later call
\* deletes, the other loses its clusters: the model ends here.
TornRename ==
    /\ \/ /\ pc = "recover" /\ CanRename("backup", "dest")
          /\ Put("dest", At("backup"))
       \/ /\ pc = "set_aside" /\ CanRename("dest", "backup")
          /\ TRUE \in DirectoryExists(At("dest"))
          /\ Put("backup", At("dest"))
       \/ /\ pc = "commit" /\ CanRename("staging", "dest")
          /\ Put("dest", At("staging"))
       \/ /\ pc = "rollback" /\ CanRename("backup", "dest")
          /\ Put("dest", At("backup"))
    /\ reply' = "none"
    /\ Discard("torn")

Torn == pc = "torn" /\ UNCHANGED vars

Step ==
    \/ Prepare \/ RecoverBackup \/ RecoverDropBackup \/ RecoverDropStaging
    \/ Check \/ Unpack \/ UnpackEnd \/ SetAside \/ Commit \/ Rollback
    \/ Abort \/ CleanStaging \/ CleanBackup \/ DeleteDestination \/ Return

Next ==
    \/ \E c \in Calls : Call(c)
    \/ Step
    \/ Crash
    \/ TornRename
    \/ Torn

Spec == Init /\ [][Next]_vars

-----------------------------------------------------------------------------
\* The disk, the position in the code and the statuses have their types; an
\* operation is only ever at a point of its own code.
TypeOK ==
    /\ fs \in [Names -> [Places -> Trees]]
    /\ IF pc \in {"idle", "torn"} THEN op = NoCall
                       ELSE op \in Calls /\ pc \in LabelsOf(op.kind)
    /\ replaced \in BOOLEAN
    /\ deleting \in BOOLEAN
    /\ code \in Statuses
    /\ reply \in Statuses \cup {"none"}

\* A backup is erased, entry by entry, only while the destination exists:
\* the recovery of a later call (package_recover_transaction) must never find
\* the remains of a backup and nothing else.  Both deletions of a backup, the
\* recovery's and the cleanup's, are concerned.
NeverErasesLastCopy ==
    deleting /\ pc \in {"drop_backup", "clean_backup"} => At("dest") # Absent

\* PACKAGE_OK says everything the operation had to do is done: the archive's
\* tree is the destination (or the destination is gone) and nothing is left in
\* the transaction directory; after PACKAGE_OK_CLEANUP_PENDING only the
\* leftovers may remain.
OkMeansDone ==
    pc = "return" /\ code \in Successes =>
        /\ At("dest") = IF op.kind = "install" THEN op.arch ELSE Absent
        /\ code = "OK" => At("staging") = Absent /\ At("backup") = Absent

\* What a delete_tree has begun is still there.
Doomed ==
    deleting =>
        \/ pc \in {"drop_backup", "clean_backup"} /\ At("backup") # Absent
        \/ pc \in {"drop_staging", "clean_staging", "abort"} /\ At("staging") # Absent
        \/ pc = "delete" /\ At("dest") # Absent

\* What the recovery has established when the operation proper starts.
Recovered ==
    /\ pc = "drop_backup" => At("dest") # Absent \/ At("backup") = Absent
    /\ pc \in {"drop_staging", "check", "unpack", "unpacking", "set_aside", "delete"}
          => At("backup") = Absent
    /\ pc \in {"check", "unpack", "delete"} => At("staging") = Absent

\* The destination and the staging tree up to the rename that commits.
Staged ==
    /\ pc # "merging"
    /\ pc \in {"unpack", "unpacking", "set_aside"} => At("dest") # File
    /\ pc \in {"set_aside", "commit"} => At("staging") = op.arch
    /\ pc = "commit" => At("dest") = Absent
    /\ pc = "commit" /\ ~replaced => At("backup") = Absent
    /\ pc = "delete" => At("dest") \notin {Absent, File}

\* From that rename on.
Committed ==
    pc \in {"clean_staging", "clean_backup"} =>
        /\ At("dest") = op.arch
        /\ ~replaced => At("backup") = Absent
        /\ pc = "clean_backup" /\ code = "OK" => At("staging") = Absent

\* Which flag and which status belong to which part of the code.
Bookkeeping ==
    /\ replaced => pc \in {"commit", "rollback", "abort", "clean_staging",
                          "clean_backup", "return"}
    /\ pc \in {"rollback", "abort"} => code \notin Successes
    /\ pc \in {"clean_staging", "clean_backup"} => code \in Successes
    /\ pc \notin {"rollback", "abort", "clean_staging", "clean_backup",
                 "return"} => code = "OK"

BackupIsDirectory == \A n \in Names : fs[n]["backup"] # File

\* The inductive invariant behind the properties above, and behind the
\* refinement: what each point of the two operations may rely on, given that
\* f_stat does not fail.
Phases ==
    /\ Doomed
    /\ Recovered
    /\ Staged
    /\ Committed
    /\ Bookkeeping
    /\ BackupIsDirectory
    /\ OkMeansDone

\* A plain file that happens to have a package's name survives every install
\* and every uninstall of that name, even when f_stat fails under the checks.
FileSurvives ==
    [][\A n \in Names : fs[n]["dest"] = File => fs'[n]["dest"] = File]_vars

\* What the next recovery makes of a name: the refinement mapping.
Effective(n) ==
    IF fs[n]["dest"] = Absent THEN fs[n]["backup"] ELSE fs[n]["dest"]

TookEffect ==
    \/ pc \in {"clean_staging", "clean_backup"}
    \/ pc = "return" /\ code \in Successes

StoreReply ==
    IF reply \in Successes THEN "ok" ELSE IF reply = "none" THEN "none" ELSE "error"

Store == INSTANCE PackageStore
           WITH content <- [n \in Names |-> Effective(n)],
                call <- op, done <- TookEffect, torn <- (pc = "torn"), reply <- StoreReply

\* Through crashes at any point, and failures of any call but f_stat, an
\* install switches a package from its old tree to its new one in one step or
\* leaves it alone, and the status tells which.  A rename that stops half way
\* leaves the old tree or the new one, whole, but ends the promise.
ImplementsStore == Store!StoreSpec
=============================================================================
