----------------------------- MODULE MCStorage ------------------------------
(***************************************************************************)
(* What the system keeps on its disk: the kernel's own files under         *)
(* 0:/.system, the trees that programs copy, move and delete, the ZIP      *)
(* archives in them, and the files behind C streams.  A program has one    *)
(* thread, and these parts meet in the volume only, so each behaviour      *)
(* follows one of them while the others rest.                              *)
(***************************************************************************)
EXTENDS AliasFile, PathList, FirstBoot, ZipArchive, Stdio

VARIABLE focus  \* the part that this behaviour follows

systemVars == <<aliasVars, pathVars, bootVars>>
storageVars == <<focus, systemVars, treeVars, zipVars, stdioVars>>
unzippedVars == <<inside, object, pending, accepted, unpacking, answered>>
callVars == <<stack, task, reply, earlier, unclean>>

AliasRests ==
    /\ alias = Absent /\ temporary = Absent /\ step = "idle" /\ edit = NoEdit
    /\ copied = 0 /\ written = FALSE /\ found = FALSE
    /\ answer = "none" /\ before = Absent /\ loss = "no"

PathRests ==
    /\ path = <<>> /\ list = <<>> /\ stage = "idle" /\ change = NoChange
    /\ put = 0 /\ status = "none" /\ original = <<>>

BootRests ==
    /\ disk = [a \in Apps |-> "none"] /\ marker = "none"
    /\ boot = "stat" /\ nextApp = 1 /\ failed = FALSE

SystemRests == AliasRests /\ PathRests /\ BootRests
CallsRest ==
    stack = <<>> /\ task = NoTask /\ reply = "none" /\ earlier = tree /\ unclean = FALSE
ZipRests ==
    /\ inside = <<>> /\ object = "closed" /\ pending = <<>> /\ accepted = <<>>
    /\ unpacking = Idle /\ answered = "none"

FilesRest == tree = <<>> /\ CallsRest /\ ZipRests /\ StdioInit

StorageInit ==
    \/ focus = "alias" /\ AliasInit /\ PathRests /\ BootRests /\ FilesRest
    \/ focus = "path" /\ AliasRests /\ PathInit /\ BootRests /\ FilesRest
    \/ focus = "boot" /\ AliasRests /\ PathRests /\ BootInit /\ FilesRest
    \/ focus = "tree" /\ SystemRests /\ TreeInit /\ ZipRests /\ StdioInit
    \/ focus = "zip" /\ SystemRests /\ ZipInit /\ CallsRest /\ StdioInit
    \/ focus = "streams" /\ SystemRests /\ tree = <<>> /\ CallsRest /\ ZipRests /\ StdioInit

StorageNext ==
    /\ UNCHANGED focus
    /\ \/ /\ UNCHANGED <<treeVars, zipVars, stdioVars>>
          /\ \/ focus = "alias" /\ AliasNext /\ UNCHANGED <<pathVars, bootVars>>
             \/ focus = "path" /\ PathNext /\ UNCHANGED <<aliasVars, bootVars>>
             \/ focus = "boot" /\ BootNext /\ UNCHANGED <<aliasVars, pathVars>>
       \/ focus = "tree" /\ TreeNext /\ UNCHANGED <<systemVars, unzippedVars, stdioVars>>
       \/ focus = "zip" /\ ZipNext /\ UNCHANGED <<systemVars, callVars, stdioVars>>
       \/ focus = "streams" /\ StdioNext /\ UNCHANGED <<systemVars, treeVars, zipVars>>

StorageSpec == StorageInit /\ [][StorageNext]_storageVars

-----------------------------------------------------------------------------
(***************************************************************************)
(* The bounds: an alias table of up to three lines, a path of              *)
(* up to two entries, two built-in programs; trees over two names, two     *)
(* deep, and recursion two deep; archives of up to two of five entries;    *)
(* two streams on a file and a temporary file over two clusters.           *)
(***************************************************************************)

CONSTANTS a, b,                \* the names in the tree
          bin, binaries, gone  \* "gone" stands for what any other cut names

MCBeginnings == (bin :> {gone}) @@ (binaries :> {bin, gone}) @@ (gone :> {})

Entry(p, dir, data) == [path |-> p, dir |-> dir, data |-> data]
MCZipEntries ==
    {Entry(<<b>>, FALSE, "one"), Entry(<<b>>, TRUE, "two"),
     Entry(<<b, a>>, FALSE, "two"), Entry(<<a>>, FALSE, "two"),
     Entry(<<"..", b>>, FALSE, "two")}

Symmetry == Permutations(Values)
=============================================================================
