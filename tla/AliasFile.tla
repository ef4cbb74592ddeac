------------------------------ MODULE AliasFile ------------------------------
(***************************************************************************)
(* The table of the "open with" command (kernel/console/shell_alias.c): a  *)
(* text file that is rewritten line by line into a temporary file, which   *)
(* then takes its name.  One action is one file-system call; the power may *)
(* fail between any two, and every call in AliasFaults may fail.           *)
(***************************************************************************)
EXTENDS Naturals, Sequences, SequencesExt

CONSTANTS Extensions, Applications,
          Remark,      \* a line that is no mapping: a comment, a blank
          MaxLines,    \* bound on the lines the file starts with
          Absent,      \* there is no such file
          AliasFaults  \* the file-system calls that may fail

ASSUME AliasConstants ==
    /\ MaxLines \in Nat
    /\ Remark \notin [ext : Extensions, app : Applications]
    /\ Absent \notin Applications
    /\ Absent \notin Seq([ext : Extensions, app : Applications] \union {Remark})
    /\ AliasFaults \subseteq {"open", "read", "write", "close", "delete", "rename"}

VARIABLES alias,      \* SHELL_ALIAS_FILE: its lines, or Absent
          temporary,  \* SHELL_ALIAS_TEMP_FILE
          step,       \* where shell_alias_update_file is
          edit,       \* the update in progress, or the last one
          copied,     \* lines of the source read so far
          written,    \* mapping_written
          found,
          answer,     \* the status of the last update
          before,     \* history: the table when the last update began
          loss        \* history: how the last update deleted the only copy, or "no"

aliasVars == <<alias, temporary, step, edit, copied, written, found, answer,
               before, loss>>

Mapping(ext, app) == [ext |-> ext, app |-> app]
Lines == [ext : Extensions, app : Applications] \union {Remark}
Tables == UNION {[1..n -> Lines] : n \in 0..MaxLines}
Matches(line, ext) == line # Remark /\ line.ext = ext

Edits == [kind : {"add"}, ext : Extensions, app : Applications]
           \union [kind : {"remove"}, ext : Extensions]
NoEdit == [kind |-> "none"]

\* shell_alias_lookup_application: the first mapping of the extension.
Lookup(table, ext) ==
    LET hits == IF table = Absent THEN {}
                ELSE {i \in DOMAIN table : Matches(table[i], ext)}
    IN  IF hits = {} THEN Absent
        ELSE table[CHOOSE i \in hits : \A j \in hits : i <= j].app

-----------------------------------------------------------------------------
AliasInit ==
    /\ alias \in Tables \union {Absent}
    /\ temporary = Absent
    /\ step = "idle" /\ edit = NoEdit
    /\ copied = 0 /\ written = FALSE /\ found = FALSE
    /\ answer = "none" /\ before = alias /\ loss = "no"

files == <<alias, temporary>>
flags == <<copied, written, found>>

Becomes(label) == step' = label /\ UNCHANGED <<edit, answer, before, loss>>

Answers(status) ==
    /\ step' = "idle"
    /\ answer' = status
    /\ UNCHANGED <<edit, before, loss>>

\* The table was deleted and the file that is to take its name still holds it.
OnlyCopy == alias = Absent /\ before # Absent /\ loss = "no"
Current == IF OnlyCopy THEN temporary ELSE alias

\* shell_alias_add or shell_alias_remove with a valid extension.
StartEdit(e) ==
    /\ step = "idle"
    /\ step' = "open" /\ edit' = e
    /\ copied' = 0 /\ written' = FALSE /\ found' = FALSE
    /\ answer' = "none" /\ before' = Current /\ loss' = "no"
    /\ UNCHANGED files

\* The table is looked for and opened.
OpenSource ==
    /\ step = "open"
    /\ \/ "open" \in AliasFaults /\ Answers("io_error")
       \/ alias = Absent /\ edit.kind = "remove" /\ Answers("file_not_found")
       \/ ~(alias = Absent /\ edit.kind = "remove") /\ Becomes("drop")
    /\ UNCHANGED <<files, flags>>

\* A temporary file that an earlier update left is deleted, whatever it holds; a
\* delete that fails may have taken the name out of the directory.
DropTemporary ==
    /\ step = "drop"
    /\ \/ temporary' = Absent /\ step' = "create" /\ UNCHANGED answer
       \/ /\ "delete" \in AliasFaults /\ temporary' \in {temporary, Absent}
          /\ step' = "idle" /\ answer' = "io_error"
    /\ loss' = IF OnlyCopy /\ temporary' = Absent THEN "forsaken" ELSE loss
    /\ UNCHANGED <<alias, flags, edit, before>>

CreateTemporary ==
    /\ step = "create"
    /\ \/ temporary' = <<>> /\ Becomes("copy")
       \/ /\ "open" \in AliasFaults /\ temporary' \in {temporary, <<>>}
          /\ Answers("io_error")
    /\ UNCHANGED <<alias, flags>>

Source == IF alias = Absent THEN <<>> ELSE alias

\* One turn of the copying loop: the first mapping of the extension is
\* replaced, or dropped as the other ones are; every other line is kept.
CopyLine ==
    /\ step = "copy" /\ copied < Len(Source)
    /\ LET line == Source[copied + 1]
           hit == Matches(line, edit.ext)
       IN  /\ found' = (found \/ hit)
           /\ written' = (written \/ (hit /\ edit.kind = "add"))
           /\ temporary' =
                IF ~hit THEN Append(temporary, line)
                ELSE IF edit.kind = "add" /\ ~written
                THEN Append(temporary, Mapping(edit.ext, edit.app))
                ELSE temporary
    /\ copied' = copied + 1
    /\ Becomes("copy")
    /\ UNCHANGED alias

\* The end of the table: a mapping that is new goes there.
FinishCopy ==
    /\ step = "copy" /\ copied = Len(Source)
    /\ temporary' = IF edit.kind = "add" /\ ~written
                    THEN Append(temporary, Mapping(edit.ext, edit.app))
                    ELSE temporary
    /\ Becomes("close")
    /\ UNCHANGED <<alias, flags>>

\* Mutant: what fails while copying is found out only by the final close.
CopyFailsUnnoticed ==
    /\ step = "copy" /\ {"read", "write"} \intersect AliasFaults # {}
    /\ Becomes("close")
    /\ UNCHANGED <<files, flags>>

\* A line cannot be read or written.
CopyFails ==
    /\ step = "copy" /\ {"read", "write"} \intersect AliasFaults # {}
    /\ Becomes("failed")
    /\ UNCHANGED <<files, flags>>

CloseBoth ==
    /\ step = "close"
    /\ \/ Becomes(IF alias = Absent THEN "rename" ELSE "delete")
       \/ "close" \in AliasFaults /\ Becomes("failed")
    /\ UNCHANGED <<files, flags>>

DeleteTable ==
    /\ step = "delete"
    /\ \/ alias' = Absent /\ Becomes("rename")
       \/ "delete" \in AliasFaults /\ alias' \in {alias, Absent} /\ Becomes("failed")
    /\ UNCHANGED <<temporary, flags>>

\* The temporary file takes the name of the table.
RenameTemporary ==
    /\ step = "rename"
    /\ \/ /\ alias' = temporary /\ temporary' = Absent
          /\ Answers(IF edit.kind = "remove"
                     THEN IF found THEN "ok" ELSE "mapping_not_found"
                     ELSE IF found THEN "updated" ELSE "ok")
       \/ "rename" \in AliasFaults /\ Becomes("failed") /\ UNCHANGED files
    /\ UNCHANGED flags

\* f_rename stops after the new entry is on the disk and before the old one is
\* taken out: both names have the same clusters, and the model ends there.
TearAlias ==
    /\ step = "rename"
    /\ alias' = temporary
    /\ Becomes("torn")
    /\ UNCHANGED <<temporary, flags>>
AliasTorn == step = "torn" /\ UNCHANGED aliasVars

\* On every error the temporary file is deleted, whether that works or not.
DropFailed ==
    /\ step = "failed"
    /\ \/ temporary' = Absent
       \/ "delete" \in AliasFaults /\ UNCHANGED temporary
    /\ step' = "idle" /\ answer' = "io_error"
    /\ loss' = IF OnlyCopy /\ temporary' = Absent THEN "failure" ELSE loss
    /\ UNCHANGED <<alias, flags, edit, before>>

\* Power loss: of a file that is still open, any part may be on the disk.
AliasCrash ==
    /\ step \notin {"idle", "torn"}
    /\ step' = "idle" /\ answer' = "crash"
    /\ temporary' \in
         IF step \in {"copy", "close"}
         THEN {SubSeq(temporary, 1, n) : n \in 0..Len(temporary)} \union {Absent}
         ELSE {temporary}
    /\ UNCHANGED <<alias, flags, edit, before, loss>>

AliasNext ==
    \/ \E e \in Edits : StartEdit(e)
    \/ OpenSource \/ DropTemporary \/ CreateTemporary
    \/ CopyLine \/ FinishCopy \/ CopyFails
    \/ CloseBoth \/ DeleteTable \/ RenameTemporary \/ DropFailed
    \/ TearAlias \/ AliasTorn \/ AliasCrash

AliasSpec == AliasInit /\ [][AliasNext]_aliasVars

-----------------------------------------------------------------------------
\* The lines of a table from the one after "first" to the n-th that map another
\* extension, or none.
Others(table, ext, first) ==
    LET others[n \in 0..Len(table)] ==
            IF n <= first THEN <<>>
            ELSE IF Matches(table[n], ext) THEN others[n - 1]
            ELSE Append(others[n - 1], table[n])
    IN  others

\* What the update should make of a table: every line that maps another
\* extension, or none, stays in its place; the first mapping of this one is
\* replaced by the new one, which goes to the end if there is none.
Updated(table, e) ==
    LET old == IF table = Absent THEN <<>> ELSE table
        hits == {i \in DOMAIN old : Matches(old[i], e.ext)}
        first == IF hits = {} THEN Len(old) + 1
                 ELSE CHOOSE i \in hits : \A j \in hits : i <= j
    IN  SubSeq(old, 1, first - 1)
          \o (IF e.kind = "add" THEN <<Mapping(e.ext, e.app)>> ELSE <<>>)
          \o Others(old, e.ext, first)[Len(old)]

\* What the update worked on: nothing, if it began by deleting the only copy.
Basis == IF loss = "forsaken" THEN Absent ELSE before
Target == IF edit = NoEdit THEN before ELSE Updated(Basis, edit)

\* Through crashes and failures the table is the old one or the new one, never
\* a part of either; while there is no table, the whole of it is in the
\* temporary file.  There are two ways to lose both: a delete or a rename that
\* fails once the old table is gone, after which the new one is deleted too
\* ("failure"), and an update that finds no table after a crash between the
\* two, and begins by deleting the temporary file ("forsaken"): it then goes on
\* from an empty table.  A rename that is torn leaves the new table under both
\* names (shell_alias_update_file).
TableRecoverable ==
    /\ loss = "no" => Current \in {before, Target}
    /\ loss = "failure" => alias = Absent /\ answer = "io_error"
    /\ loss = "forsaken" => alias \in {Absent, Target}

\* The status tells what became of the table: an error changed nothing, unless
\* the update failed once it had deleted the old table or the only copy of it.
StatusTellsTable ==
    /\ answer \in {"ok", "updated", "mapping_not_found"} =>
          /\ alias = Target
          /\ edit.kind = "add" => Lookup(alias, edit.ext) = edit.app
          /\ edit.kind = "remove" => Lookup(alias, edit.ext) = Absent
          /\ \A ext \in Extensions \ {edit.ext} :
                Lookup(alias, ext) = Lookup(Basis, ext)
    /\ answer = "updated" => Lookup(Basis, edit.ext) # Absent
    /\ answer = "file_not_found" => Current = before /\ loss = "no"
    /\ answer = "io_error" =>
          \/ Current = before
          \/ alias = Absent /\ (loss # "no" \/ Current = Target)

\* The aliases are what the last update that said so made of them, but for the
\* two ways to lose them above.
AliasTrue == TableRecoverable /\ StatusTellsTable
=============================================================================
