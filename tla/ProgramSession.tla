--------------------------- MODULE ProgramSession ---------------------------
(***************************************************************************)
(* Nested Lua programs, shell scripts, captured commands and package opens *)
(* on the one C stack of the kernel, and the globals each of them saves    *)
(* and restores: the shell's directory, the script depth, the console's    *)
(* suspend depth and output target, and the chain of program contexts that *)
(* exit() follows.  exit() is a longjmp into the Lua state of the newest   *)
(* context: frames above its own are gone without running their ends.      *)
(***************************************************************************)
EXTENDS Naturals, Sequences, FiniteSets, SequencesExt

CONSTANTS Dirs,           \* directories of the volume
          Root,           \* the one of them that is never removed
          MaxFrames,      \* bound on the C stack
          MaxScriptDepth, \* SHELL_SCRIPT_MAX_DEPTH
          FinalizerCalls  \* what __gc metamethods do while a state is closed

ASSUME SessionConstants ==
    /\ Root \in Dirs
    /\ MaxFrames \in Nat \ {0}
    /\ MaxScriptDepth \in Nat
    /\ FinalizerCalls \subseteq {"exit", "cd"}

VARIABLES stack,   \* the frames that save something, oldest first
          active,  \* active_program and its parents: positions in stack
          cwd,     \* shell_cwd
          dirs,    \* the directories that exist
          depth,   \* shell_script_depth
          suspend, \* console_suspend_depth
          target,  \* whose output callback is set: a position, or 0
          closing, \* an Alt+F4 is waiting to be taken
          halted,  \* exit() found no program
          home,    \* history: cwd when the prompt ran the command in progress
          asked,   \* history: the programs that ran when the waiting Alt+F4 was
                   \* pressed and still do: positions in stack
          late     \* history: a finalizer exited or changed the directory

files   == <<cwd, dirs, home>>
close   == <<closing, asked>>
sessionVars    == <<stack, active, cwd, dirs, depth, suspend, target, closing,
             halted, home, asked, late>>

\* The saved shell directory and output target; whether the call is inside a
\* pcall of the program itself; "running", "returned" or "ending".
Frame(kind) == [kind |-> kind, prev |-> cwd, outer |-> target,
                guarded |-> FALSE, phase |-> "running"]

Top == stack[Len(stack)]
TopIs(kind, phase) == stack # <<>> /\ Top.kind = kind /\ Top.phase = phase

\* Commands come from the prompt, a script, or a Lua program; a captured call
\* and a package runner start at most one.
TakesCommands == ~halted /\ (stack # <<>> => Top.phase = "running")
InProgram == ~halted /\ TopIs("program", "running")

Positions(kind) == {i \in 1..Len(stack) : stack[i].kind = kind}
RunningPrograms == {i \in Positions("program") : stack[i].phase # "ending"}

\* The newest of a set of positions; 0 is the console, or no program.
Newest(positions) ==
    CHOOSE i \in positions \cup {0} : \A j \in positions : j <= i

Push(frame) ==
    /\ Len(stack) < MaxFrames
    /\ stack' = Append(
         IF stack # <<>> /\ Top.kind \in {"capture", "open"}
         THEN [stack EXCEPT ![Len(stack)].phase = "returned"] ELSE stack,
         frame)
    /\ home' = IF stack = <<>> THEN cwd ELSE home

\* shell_set_current_directory: a directory that is gone is not entered.
Enterable(d, otherwise) == IF d \in dirs THEN d ELSE otherwise

-----------------------------------------------------------------------------
SessionInit ==
    /\ stack = <<>>
    /\ active = <<>>
    /\ cwd = Root
    /\ dirs = Dirs
    /\ depth = 0
    /\ suspend = 0
    /\ target = 0
    /\ closing = FALSE
    /\ halted = FALSE
    /\ home = Root
    /\ asked = {}
    /\ late = FALSE

\* The cd command.
ChangeDirectory(d) ==
    /\ TakesCommands
    /\ d \in dirs
    /\ cwd' = d
    /\ UNCHANGED <<stack, active, dirs, depth, suspend, target, close, halted, home, late>>

\* rm, fs.delete: nothing stops the deletion of a directory someone is in.
RemoveDirectory(d) ==
    /\ TakesCommands
    /\ d \in dirs \ {Root}
    /\ dirs' = dirs \ {d}
    /\ UNCHANGED <<stack, active, cwd, depth, suspend, target, close, halted, home, late>>

\* Mutant: an Alt+F4 from before the start is not discarded.
StartProgramWithPendingClose(d) ==
    /\ TakesCommands
    /\ d \in dirs
    /\ Push(Frame("program"))
    /\ cwd' = d
    /\ active' = Append(active, Len(stack) + 1)
    /\ suspend' = suspend + 1
    /\ UNCHANGED <<dirs, depth, target, close, halted, late>>

\* lua_run_file_args up to its lua_pcall, for a script in directory d.
StartProgram(d) ==
    /\ TakesCommands
    /\ d \in dirs
    /\ Push(Frame("program"))
    /\ cwd' = d
    /\ active' = Append(active, Len(stack) + 1)
    /\ closing' = FALSE
    /\ asked' = {}
    /\ suspend' = suspend + 1
    /\ UNCHANGED <<dirs, depth, target, halted, late>>

\* shell_run_script up to its first line.
StartScript(d) ==
    /\ TakesCommands
    /\ depth < MaxScriptDepth
    /\ d \in dirs
    /\ Push(Frame("script"))
    /\ cwd' = d
    /\ depth' = depth + 1
    /\ UNCHANGED <<active, dirs, suspend, target, close, halted, late>>

\* package_runner_open up to the registered runners.
StartOpen(d) ==
    /\ TakesCommands
    /\ d \in dirs
    /\ Push(Frame("open"))
    /\ cwd' = d
    /\ UNCHANGED <<active, dirs, depth, suspend, target, close, halted, late>>

\* lua_shell_call_with_capture up to its action.
StartCapture ==
    /\ InProgram
    /\ Push(Frame("capture"))
    /\ target' = Len(stack) + 1
    /\ UNCHANGED <<active, cwd, dirs, depth, suspend, close, halted, late>>

Pop == stack' = Front(stack)

\* Mutant: an early return of shell_run_script forgets the depth.
EndScriptKeepDepth ==
    /\ ~halted
    /\ TopIs("script", "running")
    /\ Pop
    /\ \/ depth' = depth - 1
       \/ depth' = depth
    /\ cwd' = Enterable(Top.prev, cwd)
    /\ UNCHANGED <<active, dirs, suspend, target, close, halted, home, late>>

\* The end of shell_run_script, on each of its ways out.
EndScript ==
    /\ ~halted
    /\ TopIs("script", "running")
    /\ Pop
    /\ depth' = depth - 1
    /\ cwd' = Enterable(Top.prev, cwd)
    /\ UNCHANGED <<active, dirs, suspend, target, close, halted, home, late>>

\* Mutant: the directory is restored only after a runner has started.
EndOpenIfStarted ==
    /\ ~halted
    /\ \E phase \in {"running", "returned"} :
          /\ TopIs("open", phase)
          /\ cwd' = IF phase = "returned" THEN Enterable(Top.prev, cwd) ELSE cwd
    /\ Pop
    /\ UNCHANGED <<active, dirs, depth, suspend, target, close, halted, home, late>>

\* The end of package_runner_open: a runner has run, or none would.
EndOpen ==
    /\ ~halted
    /\ TopIs("open", "running") \/ TopIs("open", "returned")
    /\ Pop
    /\ cwd' = Enterable(Top.prev, cwd)
    /\ UNCHANGED <<active, dirs, depth, suspend, target, close, halted, home, late>>

\* The end of lua_shell_call_with_capture.
EndCapture ==
    /\ ~halted
    /\ TopIs("capture", "running") \/ TopIs("capture", "returned")
    /\ Pop
    /\ target' = Top.outer
    /\ UNCHANGED <<active, cwd, dirs, depth, suspend, close, halted, home, late>>

\* The program calls pcall; its function returns or raises an error.
EnterPcall ==
    /\ InProgram /\ ~Top.guarded
    /\ stack' = [stack EXCEPT ![Len(stack)].guarded = TRUE]
    /\ UNCHANGED <<active, files, depth, suspend, target, close, halted, late>>

LeavePcall ==
    /\ InProgram /\ Top.guarded
    /\ stack' = [stack EXCEPT ![Len(stack)].guarded = FALSE]
    /\ UNCHANGED <<active, files, depth, suspend, target, close, halted, late>>

\* The main function returns, or raises an error nothing catches.
ReturnFromMain ==
    /\ InProgram /\ ~Top.guarded
    /\ stack' = [stack EXCEPT ![Len(stack)].phase = "returned"]
    /\ UNCHANGED <<active, files, depth, suspend, target, close, halted, late>>

\* program_exit: lua_error on the state of the newest context.  The nearest
\* pcall of that program, its own or the runner's, takes over.
ProgramExit ==
    /\ IF active = <<>>
       THEN halted' = TRUE /\ UNCHANGED stack
       ELSE LET f == Last(active)
            IN /\ stack' = [SubSeq(stack, 1, f) EXCEPT
                              ![f].guarded = FALSE,
                              ![f].phase = IF stack[f].guarded THEN "running"
                                                               ELSE "returned"]
               /\ UNCHANGED halted
    /\ UNCHANGED <<active, files, depth, suspend, target>>

\* os.exit.
Exit ==
    /\ InProgram
    /\ ProgramExit
    /\ UNCHANGED <<close, late>>

\* Any input_update, of the hook, of input.poll or of the shell, may see Alt+F4.
PressAltF4 ==
    /\ ~halted
    /\ closing' = TRUE
    /\ asked' = RunningPrograms
    /\ UNCHANGED <<stack, active, files, depth, suspend, target, halted, late>>

\* lua_program_close_hook.
CloseHook ==
    /\ InProgram /\ closing
    /\ closing' = FALSE
    /\ asked' = {}
    /\ ProgramExit
    /\ UNCHANGED late

\* lua_run_file_args between its lua_pcall and lua_close.
LeaveProgram ==
    /\ ~halted
    /\ TopIs("program", "returned")
    /\ stack' = [stack EXCEPT ![Len(stack)].phase = "ending"]
    /\ cwd' = Enterable(Top.prev, cwd)
    /\ suspend' = IF suspend > 0 THEN suspend - 1 ELSE 0
    /\ active' = IF active # <<>> /\ Last(active) = Len(stack) THEN Front(active) ELSE active
    /\ asked' = asked \ {Len(stack)}
    /\ UNCHANGED <<dirs, depth, target, closing, halted, home, late>>

\* __gc metamethods run by lua_close, when the context is already left.
FinalizerExit ==
    /\ "exit" \in FinalizerCalls
    /\ ~halted /\ TopIs("program", "ending")
    /\ ProgramExit
    /\ late' = TRUE
    /\ UNCHANGED close

FinalizerChangeDirectory(d) ==
    /\ "cd" \in FinalizerCalls
    /\ ~halted /\ TopIs("program", "ending")
    /\ d \in dirs
    /\ cwd' = d
    /\ late' = TRUE
    /\ UNCHANGED <<stack, active, dirs, depth, suspend, target, close, halted, home>>

\* lua_close is done and lua_run_file_args returns.
CloseProgram ==
    /\ ~halted
    /\ TopIs("program", "ending")
    /\ Pop
    /\ UNCHANGED <<active, files, depth, suspend, target, close, halted, late>>

SessionNext ==
    \/ \E d \in Dirs :
          \/ ChangeDirectory(d) \/ RemoveDirectory(d)
          \/ StartProgram(d) \/ StartScript(d) \/ StartOpen(d)
          \/ FinalizerChangeDirectory(d)
    \/ StartCapture
    \/ EndScript \/ EndOpen \/ EndCapture
    \/ EnterPcall \/ LeavePcall \/ ReturnFromMain \/ Exit
    \/ PressAltF4 \/ CloseHook
    \/ LeaveProgram \/ FinalizerExit \/ CloseProgram

SessionSpec == SessionInit /\ [][SessionNext]_sessionVars

-----------------------------------------------------------------------------
\* The console stays suspended as long as any program, and no longer, and
\* exit() finds the programs that are running, the newest first; whatever the
\* finalizers of a closing program do.
ProgramsTracked ==
    /\ suspend = Cardinality(RunningPrograms)
    /\ Len(active) = Cardinality(RunningPrograms)
    /\ \A k \in 1..Len(active) : active[k] \in RunningPrograms
    /\ \A k \in 1..(Len(active) - 1) : active[k] < active[k + 1]

\* The depth that limits nested scripts counts those on the stack: a leak would
\* in the end refuse every script (shell_run_script).
ScriptsCounted == depth = Cardinality(Positions("script"))

\* Console output goes to the innermost captured call in progress, if there is
\* one, and to the screen otherwise: never to the buffer of a call that is over
\* (README.md:111, exec_capture "redirects all console output into a string").
OutputOwned == target = Newest(Positions("capture"))

\* Through any nesting of programs, scripts and captured calls, and any exit
\* that is caught or not, the depth and the output target agree with what is
\* on the stack, as long as no finalizer has exited from a closing program.
ScriptsAndOutputTracked == ~late => ScriptsCounted /\ OutputOwned

\* exit() finds a program to end, except from a finalizer of the outermost one.
ExitFindsProgram == halted => late

\* What the kernel keeps in globals is what the C stack says.
GlobalsTracked == ProgramsTracked /\ ScriptsAndOutputTracked /\ ExitFindsProgram

\* Back at the prompt, the shell is in the directory the command was typed in,
\* unless that directory has been removed or a finalizer has interfered.
PromptDirectoryKept ==
    [][stack # <<>> /\ stack' = <<>> =>
           cwd' = home \/ home \notin dirs' \/ late']_sessionVars

\* Program p alone is ended: what runs above it is gone, what runs below it is
\* as it was, and p goes on at its own pcall or returns.
OnlyEnds(p) ==
    /\ Len(stack') = p /\ stack[p].kind = "program"
    /\ \A i \in 1..(p - 1) : stack'[i] = stack[i]
    /\ stack'[p].phase = IF stack[p].guarded THEN "running" ELSE "returned"

\* An Alt+F4 ends one program: the newest of those that ran when it was pressed
\* and that still run, with its parents left as they are; never a program that
\* was started later (lua_program_close_hook, program_exit).
CloseNotInherited ==
    [][closing /\ ~closing' /\ active' = active =>
           asked # {} /\ OnlyEnds(Newest(asked))]_sessionVars
=============================================================================
