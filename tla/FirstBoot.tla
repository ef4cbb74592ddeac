------------------------------ MODULE FirstBoot ------------------------------
(***************************************************************************)
(* The built-in programs (kernel/program/builtin_apps_install.c): every    *)
(* boot looks for a marker, and without it writes each program and, last,  *)
(* the marker.  The power may fail at any point; the user changes and      *)
(* deletes programs once the shell runs.                                   *)
(***************************************************************************)
EXTENDS Naturals

CONSTANTS AppCount,    \* neon_builtin_apps_count
          BootFaults   \* the file-system calls that may fail

ASSUME BootConstants ==
    /\ AppCount \in Nat \ {0}
    /\ BootFaults \subseteq {"stat", "mkdir", "open", "write", "close"}

VARIABLES disk,     \* each program's file: "none", "part", "builtin" or "user"
          marker,   \* the marker's file: "none", "part" or "builtin"
          boot,     \* where builtin_apps_install_if_needed is; "shell" after it
          nextApp,  \* index
          failed    \* the installation of this boot reported an error

bootVars == <<disk, marker, boot, nextApp, failed>>

Apps == 1..AppCount
Phase(label) == boot' = label

-----------------------------------------------------------------------------
BootInit ==
    /\ disk \in [Apps -> {"none", "user"}]
    /\ marker = "none"
    /\ boot = "stat" /\ nextApp = 1 /\ failed = FALSE

Fails(call) ==
    /\ call \in BootFaults
    /\ boot' = "shell" /\ failed' = TRUE
    /\ UNCHANGED <<disk, marker, nextApp>>

\* Mutant: any answer but "it is there" starts the installation.
StatMarkerAnyError ==
    /\ boot = "stat"
    /\ IF marker # "none" /\ "stat" \notin BootFaults
       THEN Phase("shell") ELSE Phase("mkdir")
    /\ UNCHANGED <<disk, marker, nextApp, failed>>

\* Only a marker that is certainly missing starts the installation.
StatMarker ==
    /\ boot = "stat"
    /\ \/ /\ IF marker # "none" THEN Phase("shell") ELSE Phase("mkdir")
          /\ UNCHANGED <<disk, marker, nextApp, failed>>
       \/ Fails("stat")

MakeParents ==
    /\ boot = "mkdir"
    /\ \/ Phase("open") /\ UNCHANGED <<disk, marker, nextApp, failed>>
       \/ Fails("mkdir")

\* The file is opened with FA_CREATE_ALWAYS: what it held is gone.
OpenApp ==
    /\ boot = "open"
    /\ \/ /\ disk' = [disk EXCEPT ![nextApp] = "part"] /\ Phase("write")
          /\ UNCHANGED <<marker, nextApp, failed>>
       \/ Fails("open")

\* Mutant: the result of builtin_apps_write_file is not looked at.
WriteAppUnchecked ==
    /\ boot = "write"
    /\ \/ disk' = [disk EXCEPT ![nextApp] = "builtin"]
       \/ "write" \in BootFaults /\ UNCHANGED disk
    /\ nextApp' = nextApp + 1
    /\ Phase(IF nextApp = AppCount THEN "marker" ELSE "mkdir")
    /\ UNCHANGED <<marker, failed>>

\* The chunks are written and the file is closed; an error ends it all.
WriteApp ==
    /\ boot = "write"
    /\ \/ /\ disk' = [disk EXCEPT ![nextApp] = "builtin"]
          /\ nextApp' = nextApp + 1
          /\ Phase(IF nextApp = AppCount THEN "marker" ELSE "mkdir")
          /\ UNCHANGED <<marker, failed>>
       \/ Fails("write") \/ Fails("close")

\* The marker is a file as the others are: it is there as soon as it is open.
OpenMarker ==
    /\ boot = "marker"
    /\ \/ /\ marker' = "part" /\ Phase("sign")
          /\ UNCHANGED <<disk, nextApp, failed>>
       \/ Fails("open")

WriteMarker ==
    /\ boot = "sign"
    /\ \/ /\ marker' = "builtin" /\ Phase("shell")
          /\ UNCHANGED <<disk, nextApp, failed>>
       \/ Fails("write") \/ Fails("close")

\* The user edits or deletes a program.
ChangeApp(a) ==
    /\ boot = "shell"
    /\ \E content \in {"none", "user"} : disk' = [disk EXCEPT ![a] = content]
    /\ UNCHANGED <<marker, boot, nextApp, failed>>

\* Power loss or shutdown, and the next boot.  A directory entry that was made
\* by an open is on the disk or not; a file that was open may hold any part.
Reboot ==
    /\ boot' = "stat" /\ nextApp' = 1 /\ failed' = FALSE
    /\ \/ UNCHANGED <<disk, marker>>
       \/ /\ boot = "write" /\ disk' = [disk EXCEPT ![nextApp] = "none"]
          /\ UNCHANGED marker
       \/ boot = "sign" /\ marker' = "none" /\ UNCHANGED disk

BootNext ==
    \/ StatMarker \/ MakeParents \/ OpenApp \/ WriteApp
    \/ OpenMarker \/ WriteMarker
    \/ \E a \in Apps : ChangeApp(a)
    \/ Reboot

BootSpec == BootInit /\ [][BootNext]_bootVars

-----------------------------------------------------------------------------
\* A marker on the disk, even an empty one, means that no program is there in
\* part: an installation that was cut off or failed is begun again.  A boot that
\* reports no error leaves a marker.
MarkerMeansInstalled ==
    /\ marker # "none" => \A a \in Apps : disk[a] # "part"
    /\ boot \in {"marker", "sign"} => \A a \in Apps : disk[a] = "builtin"
    /\ boot = "shell" /\ ~failed => marker # "none"

\* Once the marker is there, no boot touches what the user made of a program,
\* whatever the calls answer (builtin_apps_install_if_needed).
UserFilesKept ==
    [][marker # "none" /\ boot # "shell" => disk' = disk]_bootVars
=============================================================================
