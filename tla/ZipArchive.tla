----------------------------- MODULE ZipArchive -----------------------------
(***************************************************************************)
(* ZIP archives (kernel/zip/zip.c) and the archive object of the Lua       *)
(* library zip (lua/zip/lua_zip.c).  One archive file, of which a program  *)
(* holds at most one object at a time: FatFs has no locks, and an object   *)
(* that is collected late would write over a newer archive of its path.    *)
(* miniz is modelled by what it promises: an archive can be read once it   *)
(* is finalized, and an addition that fails adds nothing.                  *)
(***************************************************************************)
EXTENDS FileTree

CONSTANTS ArchiveName,  \* the archive file, in the root
          ZipEntries,   \* what is put into archives: [path, dir, data]
          MaxArchived,  \* bound on the entries of an archive
          ZipFaults     \* the file-system and miniz calls that may fail

ASSUME ZipConstants ==
    /\ ArchiveName \in Names /\ ".." \notin Names /\ MaxArchived \in Nat
    /\ \A entry \in ZipEntries :
          /\ entry.dir \in BOOLEAN /\ Len(entry.path) \in Nat
          /\ entry.path = [i \in 1..Len(entry.path) |-> entry.path[i]]
    /\ ZipFaults \subseteq {"open", "init", "write", "source", "finalize",
                            "sync", "close", "mkdir", "extract"}

VARIABLES inside,    \* the entries of the archive on the disk, when it is whole
          object,    \* the Lua object: "closed", "writer" or "reader"
          pending,   \* entries written by the object
          accepted,  \* history: those whose addition was answered with success
          unpacking, \* zip_unpack: [at, dest, next, list, start], or Idle
          answered   \* the last answer: "whole" for a writer closed with success

zipVars == <<tree, inside, object, pending, accepted, unpacking, answered>>

Archive == <<ArchiveName>>
Readable == Exists(Archive) /\ tree[Archive] = "archive"
\* zip_fatfs_read and _write: a transfer cut short is a call of miniz that fails.
Breaks(call) == call \in ZipFaults
Idle == [at |-> "idle"]
Free == object = "closed" /\ unpacking = Idle
\* lua_zip_check_writer and _reader: any other object raises an error.
Holds(kind) == object = kind
Replies(what) == answered' = what

\* zip_is_safe_archive_name: every segment is a name, none "." or "..".
IsSafeArchiveName(path) == path # <<>> /\ \A i \in DOMAIN path : path[i] \in Names
\* What FatFs makes of the segments; ".." stays at the root.
Follow(path) ==
    IF \A i \in DOMAIN path : path[i] # ".." THEN path
    ELSE FoldLeft(LAMBDA at, segment :
                     IF segment # ".." THEN Append(at, segment)
                     ELSE IF at = Root THEN at ELSE Parent(at), Root, path)

\* zip_make_directories: FR_EXIST is no error, whatever it is that exists.
DirectoriesFail(p) == \E k \in 1..(Len(p) - 1) : IsFile(SubSeq(p, 1, k))
WithDirectories(p) ==
    [q \in {SubSeq(p, 1, k) : k \in 1..Len(p)} \union DOMAIN tree |->
        IF Exists(q) THEN tree[q] ELSE "dir"]
\* A tree with a file in it.
WithFile(t, p, content) ==
    [q \in DOMAIN t \union {p} |-> IF q = p THEN content ELSE t[q]]

-----------------------------------------------------------------------------

\* zip.create: the old archive is gone as soon as the file is open.
Create ==
    /\ Free
    /\ \/ /\ ~IsDirectory(Archive)
          /\ tree' = Put(Archive, "part") /\ inside' = <<>>
          /\ \/ /\ object' = "writer"
                /\ pending' = <<>> /\ accepted' = <<>> /\ Replies("ok")
             \/ /\ Breaks("init") /\ Replies("error")
                /\ UNCHANGED <<object, pending, accepted>>
       \/ /\ Breaks("open") \/ IsDirectory(Archive)
          /\ Replies("error")
          /\ UNCHANGED <<tree, inside, object, pending, accepted>>
    /\ UNCHANGED unpacking

\* zip.open: an empty file, or one without a central directory, is refused.
Open ==
    /\ Free
    /\ \/ Readable /\ object' = "reader" /\ Replies("ok")
       \/ /\ Breaks("open") \/ ~Readable
          /\ Replies("error") /\ UNCHANGED object
    /\ UNCHANGED <<tree, inside, pending, accepted, unpacking>>

\* addFile, addString and addDirectory; only a source file that fails to be
\* closed is in the archive although its addition is answered with an error.
Add(entry) ==
    /\ Holds("writer") /\ Len(pending) < MaxArchived
    /\ \/ /\ IsSafeArchiveName(entry.path)
          /\ pending' = Append(pending, entry)
          /\ accepted' = Append(accepted, entry) /\ Replies("ok")
       \/ /\ ~IsSafeArchiveName(entry.path) \/ Breaks("source") \/ Breaks("write")
          /\ Replies("error") /\ UNCHANGED <<pending, accepted>>
       \/ /\ IsSafeArchiveName(entry.path) /\ ~entry.dir /\ Breaks("close")
          /\ pending' = Append(pending, entry) /\ Replies("error")
          /\ UNCHANGED accepted
    /\ UNCHANGED <<tree, inside, object, unpacking>>

\* zip_close: whatever fails, the file is closed and the object with it.
Close ==
    /\ object # "closed" /\ object' = "closed"
    /\ IF Holds("writer")
       THEN \/ /\ tree' = Put(Archive, "archive") /\ inside' = pending
               /\ Replies("whole") \/ (Breaks("sync") /\ Replies("error"))
            \/ /\ Breaks("finalize") \/ Breaks("sync")
               /\ Replies("error") /\ UNCHANGED <<tree, inside>>
       ELSE /\ Replies("ok") \/ (Breaks("close") /\ Replies("error"))
            /\ UNCHANGED <<tree, inside>>
    /\ UNCHANGED <<pending, accepted, unpacking>>

\* abort, and the collection of an object that was not closed.
Abort ==
    /\ object # "closed" /\ object' = "closed" /\ Replies("none")
    /\ UNCHANGED <<tree, inside, pending, accepted, unpacking>>

\* archive:entries, and zip.validate or zip.list of the file: nothing changes.
ReadEntries ==
    /\ Holds("reader")
    /\ Replies("ok") \/ (Breaks("extract") /\ Replies("error"))
    /\ UNCHANGED <<tree, inside, object, pending, accepted, unpacking>>
Validate ==
    /\ Free
    /\ \/ Readable /\ Replies("ok")
       \/ (~Readable \/ \E call \in {"open", "extract", "close"} : Breaks(call))
             /\ Replies("error")
    /\ UNCHANGED <<tree, inside, object, pending, accepted, unpacking>>

-----------------------------------------------------------------------------
\* zip_extract_index_to_path, which empties the target before it reads.
ExtractTo(entry, p) ==
    LET parents == IF entry.dir THEN p ELSE Parent(p)
        made == WithDirectories(parents)
        blocked == DirectoriesFail(p) \/ (~entry.dir /\ IsDirectory(p))
    IN  \/ /\ entry.dir /\ ~blocked
           /\ tree' = made /\ Replies("ok")
        \/ /\ ~entry.dir /\ ~blocked
           /\ \/ tree' = WithFile(made, p, entry.data) /\ Replies("ok")
              \/ Breaks("extract") /\ tree' = WithFile(made, p, "part") /\ Replies("error")
              \/ Breaks("open") /\ tree' = made /\ Replies("error")
        \/ /\ Breaks("mkdir") /\ ~DirectoriesFail(parents)
           /\ \E k \in 0..(Len(parents) - 1) :
                 tree' = WithDirectories(SubSeq(parents, 1, k))
           /\ Replies("error")
        \/ blocked /\ Replies("error") /\ UNCHANGED tree

\* archive:extract: the path is the caller's, and names ignore case.
Extract(p) ==
    /\ Holds("reader")
    /\ p # Archive
    /\ \E i \in DOMAIN inside : ExtractTo(inside[i], p)
    /\ UNCHANGED <<inside, object, pending, accepted, unpacking>>

BeginUnpack(dest) ==
    /\ Free
    /\ \/ /\ Readable
          /\ tree' = WithDirectories(dest)
          /\ unpacking' = [at |-> "entry", dest |-> dest, next |-> 1,
                           list |-> inside, start |-> tree]
          /\ Replies("none")
       \/ /\ Breaks("open") \/ Breaks("mkdir") \/ ~Readable
          /\ Replies("error") /\ UNCHANGED <<tree, unpacking>>
    /\ UNCHANGED <<inside, object, pending, accepted>>

UnpackedAt(entry) == Follow(unpacking.dest \o entry.path)

\* Mutant: the names of the entries are not checked.
UnpackAnyEntry ==
    /\ unpacking.at = "entry" /\ unpacking.next \in DOMAIN unpacking.list
    /\ LET entry == unpacking.list[unpacking.next]
       IN  ExtractTo(entry, UnpackedAt(entry))
    /\ unpacking' = [unpacking EXCEPT
                       !.at = IF answered' = "ok" THEN "entry" ELSE "failed",
                       !.next = @ + 1]
    /\ UNCHANGED <<inside, object, pending, accepted>>

\* One entry: its name is checked before anything is written.
UnpackEntry ==
    /\ unpacking.at = "entry" /\ unpacking.next \in DOMAIN unpacking.list
    /\ LET entry == unpacking.list[unpacking.next]
       IN  IF IsSafeArchiveName(entry.path) THEN ExtractTo(entry, UnpackedAt(entry))
           ELSE Replies("error") /\ UNCHANGED tree
    /\ unpacking' = [unpacking EXCEPT
                       !.at = IF answered' = "ok" THEN "entry" ELSE "failed",
                       !.next = @ + 1]
    /\ UNCHANGED <<inside, object, pending, accepted>>

FinishUnpack ==
    /\ unpacking.at = "entry" /\ unpacking.next \notin DOMAIN unpacking.list
    /\ \/ unpacking' = [unpacking EXCEPT !.at = "done"] /\ Replies("ok")
       \/ /\ Breaks("close") /\ Replies("error")
          /\ unpacking' = [unpacking EXCEPT !.at = "failed"]
    /\ UNCHANGED <<tree, inside, object, pending, accepted>>

\* The caller goes on with what is on the disk now.
LeaveUnpack ==
    /\ unpacking.at \in {"done", "failed"}
    /\ unpacking' = Idle /\ Replies("none")
    /\ UNCHANGED <<tree, inside, object, pending, accepted>>

-----------------------------------------------------------------------------
Lists == UNION {[1..n -> ZipEntries] : n \in 0..MaxArchived}

ZipInit ==
    /\ tree \in {t \in Volumes : Cardinality(DOMAIN t) <= 2 /\ Archive \notin DOMAIN t}
                \union {(Archive :> c) @@ t : c \in {"archive", "part"},
                          t \in {u \in Volumes : Cardinality(DOMAIN u) <= 2
                                    /\ \A p \in DOMAIN u : p[1] # ArchiveName}}
    /\ inside \in IF Readable THEN Lists ELSE {<<>>}
    /\ object = "closed" /\ pending = <<>> /\ accepted = <<>>
    /\ unpacking = Idle /\ answered = "none"

ZipNext ==
    \/ Create \/ Open \/ Close \/ Abort \/ ReadEntries \/ Validate
    \/ \E entry \in ZipEntries : Add(entry)
    \/ \E p \in PathsTo(2) : Extract(p)
    \/ \E dest \in {Root} \union PathsTo(1) : BeginUnpack(dest)
    \/ UnpackEntry \/ FinishUnpack \/ LeaveUnpack

ZipSpec == ZipInit /\ [][ZipNext]_zipVars

-----------------------------------------------------------------------------
\* A writer that is closed with success leaves an archive of what it wrote, every
\* entry whose addition succeeded among it, in order; a file that is being
\* written, or was abandoned, is no archive, and what it held before does not
\* show through (zip_create, zip_close, zip_abort).
ArchiveTrue ==
    /\ answered = "whole" =>
         /\ Readable /\ inside = pending
         /\ \E f \in [DOMAIN accepted -> DOMAIN inside] :
               /\ \A i \in DOMAIN accepted : accepted[i] = inside[f[i]]
               /\ \A i, j \in DOMAIN accepted : i < j => f[i] < f[j]
    /\ object = "writer" => ~Readable

\* An archive that is unpacked with success left every file as its last entry has
\* it; in any case nothing changes but at and below the destination (zip_unpack).
UnpackTrue ==
    /\ unpacking.at = "done" =>
         LET list == unpacking.list IN
         \A i \in DOMAIN list :
            (~list[i].dir /\ \A j \in (i + 1)..Len(list) :
                                list[j].dir \/ UnpackedAt(list[j]) # UnpackedAt(list[i]))
            => Exists(UnpackedAt(list[i])) /\ tree[UnpackedAt(list[i])] = list[i].data
    /\ unpacking # Idle =>
         \A p \in DOMAIN tree \union DOMAIN unpacking.start :
            ~Under(unpacking.dest, p) =>
               Exists(p) /\ p \in DOMAIN unpacking.start
                 /\ tree[p] = unpacking.start[p]

\* An archive that was closed holds what was put in, and unpacks to it.
ZipTrue == ArchiveTrue /\ UnpackTrue
=============================================================================
