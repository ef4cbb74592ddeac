---------------------------- MODULE PackageStore ----------------------------
(***************************************************************************)
(* What the package manager promises its caller, with no directory, no     *)
(* staging and no backup in sight: each package name has one content, an   *)
(* install replaces that content in one step or not at all, only an        *)
(* uninstall may damage a package, and a reply of success means the call   *)
(* took effect while a reply of failure means an install did not.          *)
(* PackageTransaction implements it with renames that a crash may separate *)
(* and, since f_rename is not atomic, may tear: the content is whole then, *)
(* old or new, and from there on nothing is promised.                      *)
(***************************************************************************)
CONSTANTS Names,    \* package names
          Archives, \* archives; as a content, the tree unpacked from one
          Absent,   \* content: nothing is installed under the name
          File,     \* content: a plain file, not a package, has the name
          Damaged,  \* content: a tree some of whose entries are gone
          NoCall    \* no operation is in progress

VARIABLES content, \* [Names -> Contents]
          call,    \* the operation in progress, or NoCall
          done,    \* the operation in progress has taken effect
          torn,    \* a rename was torn: two names share one tree
          reply    \* what the last operation told its caller

storeVars == <<content, call, done, torn, reply>>

Contents == {Absent, File, Damaged} \cup Archives

Calls == [kind : {"install"}, name : Names, arch : Archives]
           \cup [kind : {"remove"}, name : Names]

StoreInit ==
    /\ content \in [Names -> Contents]
    /\ call = NoCall
    /\ done = FALSE
    /\ torn = FALSE
    /\ reply = "none"

Request(c) ==
    /\ ~torn
    /\ call = NoCall
    /\ call' = c
    /\ reply' = "none"
    /\ UNCHANGED <<content, done, torn>>

\* The whole of an install that the outside can see.
Switch ==
    /\ call # NoCall /\ call.kind = "install"
    /\ ~done
    /\ content[call.name] # File
    /\ content' = [content EXCEPT ![call.name] = call.arch]
    /\ done' = TRUE
    /\ UNCHANGED <<call, torn, reply>>

\* An uninstall deletes entry by entry.
Erode ==
    /\ call # NoCall /\ call.kind = "remove"
    /\ ~done
    /\ content[call.name] \notin {Absent, File}
    /\ content' = [content EXCEPT ![call.name] = Damaged]
    /\ UNCHANGED <<call, done, torn, reply>>

Erase ==
    /\ call # NoCall /\ call.kind = "remove"
    /\ ~done
    /\ content[call.name] \notin {Absent, File}
    /\ content' = [content EXCEPT ![call.name] = Absent]
    /\ done' = TRUE
    /\ UNCHANGED <<call, torn, reply>>

Reply ==
    /\ call # NoCall
    /\ reply' = IF done THEN "ok" ELSE "error"
    /\ call' = NoCall
    /\ done' = FALSE
    /\ UNCHANGED <<content, torn>>

\* Power loss: the caller never hears, the content stays what it was.
Restart ==
    /\ call # NoCall
    /\ call' = NoCall
    /\ done' = FALSE
    /\ reply' = "none"
    /\ UNCHANGED <<content, torn>>

\* Power or a call fails inside a rename.
Tear ==
    /\ call # NoCall
    /\ ~done
    /\ \/ UNCHANGED content
       \/ /\ call.kind = "install"
          /\ content[call.name] # File
          /\ content' = [content EXCEPT ![call.name] = call.arch]
    /\ call' = NoCall
    /\ torn' = TRUE
    /\ reply' = "none"
    /\ UNCHANGED done

Unpromised == torn /\ torn'

StoreNext ==
    \/ \E c \in Calls : Request(c)
    \/ Switch
    \/ Erode
    \/ Erase
    \/ Reply
    \/ Restart
    \/ Tear
    \/ Unpromised

StoreSpec == StoreInit /\ [][StoreNext]_storeVars
=============================================================================
