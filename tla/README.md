# NeonOS in TLA+

NeonOS is a small bare-metal operating system for AArch64 (QEMU `virt` and
Raspberry Pi 3B): a kernel in C with its own libc, a FAT volume, a text console
with a shell, and Lua 5.5 programs that own the screen while they run. It has one
thread and no interrupts that matter here. What makes it hard is not threads but

- **power loss and failing file-system calls** between the steps of an update of
  persistent state (packages, aliases, the search path, the first-boot install);
- **nesting**: a program starts a script, which starts a captured command, which
  starts a program, each saving and restoring globals of the kernel, with
  `exit()` as a `longjmp` through any number of them;
- **devices and terminals** that answer late, twice or in pieces: the VirtIO
  block device, the UART and its escape sequences;
- **data structures kept by hand**: the heap's block list, rings, tables, the
  line editor's idea of where the console's cursor is.

The modules here follow the sources at `src/` definition by definition;
`PROJECT.json` maps each TLA+ definition to the lines it stands for.

- [1. The system](#1-the-system)
- [2. Modules and how they correspond to the code](#2-modules-and-how-they-correspond-to-the-code)
- [3. What the runs check](#3-what-the-runs-check)
- [4. What is proved](#4-what-is-proved)
- [5. Findings and observations](#5-findings-and-observations)
- [6. What is not modelled](#6-what-is-not-modelled)
- [7. Plan](#7-plan)

## 1. The system

`kernel_main` (`kernel/kernel.c`) initialises the board, the console and the file
system, installs the built-in programs, starts the shell, runs the boot script and
then loops for ever over `shell_update()`, which begins with `input_update()`. The
shell runs a command to completion inside `shell_update`; a Lua program runs inside
that, and a debug hook in its Lua state calls `input_update` while it computes.
Everything below is reached from this one loop, so interleaving means: a device,
the user or a power failure between two steps of the kernel, and nested calls of
the kernel on its own C stack.

| Component | State it keeps | Operations | Talks to |
|---|---|---|---|
| Package transactions (`kernel/packages/package_manager.c`) | directories `0:/.packages/<name>` and, per name, a staging and a backup directory | install, uninstall, recover | FatFs, ZIP |
| Program sessions (`kernel/program/program_runtime.c`, `lua/lua_runner.c`, `kernel/console/shell_script.c`, `lua/shell/lua_shell_api.c`, `kernel/packages/package_runner.c`) | chain of program contexts, shell directory, script depth, console suspension, output callback, Alt+F4 request | run program / script / captured command / package, exit, close | shell, console, input, Lua |
| Kernel heap (`kernel/libc/stdlib.c`) | block list over the arena | malloc, calloc, realloc, free | everything |
| Key event queue (`kernel/input/input.c`) | ring of events, two indices | push, poll, flush | drivers, shell, Lua input |
| Serial keyboard (`platforms/qemu/input/input.c`) | escape-sequence state, CSI number, skip-LF flag | `uart_input_update` | UART, event queue |
| VirtIO keyboard (same file) | lent buffers, two ring indices, modifiers | `virtio_keyboard_update` | event queue |
| Frame-locked Lua input (`lua/input/lua_input.c`) | the frame's event and its flags, shared by nested programs | poll, poll_latest, pressed, present | event queue, gfx |
| Line editor and console (`kernel/console/shell.c`, `console.c`) | line, cursor, prompt position; console position, cells, cursor bar, suspension | keys, putc, suspend, resume | event queue, gfx, sessions |
| Alias table (`kernel/console/shell_alias.c`) | `ALIAS.txt`, `ALIAS.tmp` | add, remove, lookup | FatFs |
| Search path and current directory (`kernel/console/shell_path.c`) | `PATH.txt`, the loaded list, `shell_cwd` | add, remove, load, normalise | FatFs |
| Built-in applications (`kernel/program/builtin_apps_install.c`) | the programs on disk, a marker file | first-boot install | FatFs |
| Shared buffer (`kernel/buffer/shared_buffer.c`) | table of keyed entries, clipboard | set, get, take, clear, clear_all | Lua, shell |
| VirtIO block driver (`platforms/qemu/fs/virtio_blk.c`, `block.c`) | one request header, status byte, descriptors, two ring indices | block_read, block_write | the device, FatFs |
| SD card (`platforms/raspi3b/fs`) | ready flag, card address, addressing mode | sd_init, block_read, block_write | the card, FatFs |
| USB keyboard (`platforms/raspi3b/input`) | the device found, data toggles, the last report | enumerate, poll | the bus, event queue |
| Command line (`kernel/console/shell_commands.c`, `shell_path.c`, `lua/lua_runner.c`, `bin/shell`) | none of its own beyond directory, path and aliases | parse, resolve, find, run, open | sessions, aliases, path |
| File tree (`kernel/fs/neon_fs.c`, `lua/fs/lua_fs.c`) | none of its own | copy, delete, move, make directories | FatFs |
| ZIP archives (`kernel/zip/zip.c`, `lua/zip/lua_zip.c`) | an open archive, its mode and entries | create, open, add, unpack, close, abort | FatFs, miniz |
| Volume (`third_party/fatfs/ff.c`) | allocation table, directory entries, open files | f_open … f_close | block drivers |
| stdio (`kernel/libc/stdio.c`) | slots: mode, eof, error, pushed-back character | fopen … fclose | FatFs, console |
| Pure libc (`format.c`, `strtol.c`, `time.c`, `string.c`, …) | none | — | — |
| Lua (`lua/src`) | heap with colours and gray lists, tables, threads and their frames, code | compile, execute, collect, match patterns | heap, libc |
| Notes (`resources/builtin/.packages/notes`) | document, selection, undo stack, dialogs | edit, undo, load, save | Lua io |

The properties that make each of them correct, in one line:

- *Packages*: an install is one atomic switch from the old tree to the new one, and no package is
  lost by a crash or a failing call, as long as no rename is cut off half way; the status never
  lies.
- *Sessions*: the kernel's globals always agree with what is on the C stack.
- *Heap*: the list tiles the arena; live allocations never overlap.
- *Queue, serial, frames*: keys arrive in order, each once, each in the end; a program gets one
  event per frame and takes nobody else's.
- *Line editor*: the screen shows the line, and there is one cursor.
- *Aliases, path, boot install*: after a crash the file holds the old state, the new one, or what
  the code can admit to, and the status says which.
- *Block drivers*: a call that says OK moved exactly the sectors it was asked for.
- *Keyboard drivers*: of every key press one can say what became of it, whatever is retried or
  comes late.
- *Command line*: a place has one name; a line runs the one thing it names.
- *Files, archives, streams*: a status says what happened, and nothing else changed.
- *Library*: numbers, dates and patterns mean what the C standard and Lua's manual say, but for
  the differences that section 5 names.
- *Lua*: code means the program; nothing in use is freed; errors are heard once.
- *Notes*: text that is not on the disk is marked so.

`PROJECT.json` lists under `hazards` every place where this could go wrong in a
way a unit test would hardly reach (the repository has no tests), each with the
properties aimed at it.

## 2. Modules and how they correspond to the code

One module per component. An `MC…` module composes the components of one layer and
gives their bounds, and `…Proofs` modules hold the theorems. Definitions named
"Mutant:" in their comment are plausible bugs of the definition that follows them;
nothing refers to them, and they serve to see that each property notices one.

**How the compositions work.** The kernel has one thread, and the components of a layer
share no state below the abstraction of these modules. A behaviour of a composition
therefore follows one component, named by a variable (`focus`, `followed`, `used`,
`driven`, `serial`), while the others rest in a state of their own. Where components do interact they
are one module or extend each other: `InputFrames` over `InputQueue`, `ZipArchive` over
`FileTree`, `Stdio` over its FAT volume, `LineEditor` over its console, compiler and interpreter
over `LuaMeaning`, scripts, captures, packages and programs in `ProgramSession`.

| Layer | Composes |
|---|---|
| `MCStorage` | `AliasFile`, `PathList`, `FirstBoot`, `FileTree`, `ZipArchive`, `Stdio` |
| `MCDevices` | `VirtioBlk`, `SdCard`, `VirtioKeyboard`, `UsbKeyboard` |
| `MCKeyboards` | `InputQueue`, `InputFrames`, `SerialKeyboard` |
| `MCPrompt` | `ProgramSession`, `LineEditor`, `ShellCommands` |
| `MCLibrary` | `Heap`, `SharedBuffer`, `Numbers`, `Calendar`, `LuaPattern`, `Notes` |
| `MCLuaRuntime` | `LuaCollector`, `LuaTable`, `LuaCalls`, `LuaParser`, `LuaCode`, `LuaVm`, `LuaMeaning` |

### Persistent state

**`PackageTransaction`** (with `PackageStore`, the promise). `fs[n]` gives, for each name, the
trees at its destination, staging and backup directories: `Absent`, a plain `File`, a `Damaged`
tree or one whole archive. `pc` is the place in `package_install_zip` or `package_uninstall`, and
there is one action per file-system call *with the test that guards it*. `Faults` names the calls
that may fail; `Crash` is power loss at any point, `Discard` what the kernel then forgets; a
recursive delete may stop anywhere and be cut off. `f_rename` writes the new entry before it
removes the old one, so power loss or an error between the two leaves both names on one chain of
clusters: `TornRename`, of any of the four renames. What a delete then takes from the other name
is beyond this model, so it ends there (`Torn`), as `PackageStore` does with `Tear`.
`PackageStore` knows only a content per name, a call in progress and a reply. The refinement
mapping is what recovery would make of the disk: the destination if it exists, else the backup.

**`AliasFile`**, **`PathList`**, **`FirstBoot`**: the files under `0:/.system` that the kernel
rewrites itself, one action per file-system call or per line copied, with failures and power loss
at each. A table is a sequence of lines: a mapping, or a remark that lookups skip. `loss` records
how an update deleted the only copy of the aliases, in which of two ways (section 5), and
`TearAlias` is the torn rename, where this model ends too. A line of `PATH.txt` whose write stops
half way, or that a crash cuts, is there all the same (`CutOff`): it names whatever directory
begins like the one that was to be written (`Beginnings`).

**`FileTree`**. `tree` maps canonical paths to what is there; `stack` is the recursion of
`copy_path_internal` or `delete_tree`, one frame per level; a task carries the two paths and
whether their spellings compare as the files do (`alike`), because the code compares text with
case and FatFs does not. A failing `f_stat` reads as "not there", and `FA_CREATE_ALWAYS` then
writes over a file that exists, the source included (`CopyOver`); `OthersKept` says that no other
file may change. `f_rename` into the own subtree, which FatFs permits, takes the subtree out of
reach. Programs also create files and directories with `ensure_file`, `ensure_directory` and
`ensure_directory_tree`, which leave what exists alone.

**`ZipArchive`**. An archive object (`closed`, `reader`, `writer`), the file's content and the
entries accepted so far, the validation of a file, and the unpacking, entry by entry, over
`FileTree`'s tree. An entry's path is a sequence of segments, one of which may be `..`: it is
refused when it is added and never followed when it is unpacked.

**`Stdio`**. First the FAT volume: the allocation table, the directory entries and the open files;
then the slots of `open_files` on top of it, with what the program has heard so far (`HeardTrue`)
and what it wrote (`ContentsKept`) as ghosts. A `f_unlink` may fail, and then may have freed some
of the chain; `Fclose` of a temporary file and `Freopen` meet such calls, and a failing `f_close`,
where the code does.

### Devices

**`VirtioBlk`**. The driver's single request header, descriptors and status byte;
the device fetches an index, then reads the *current* header and descriptors at the
transfer, writes the status and pushes the used index, each at its own time. A
request that is given up stays with the device.

**`SdCard`**. `sd_init` walks from command to command; the card has a state of its own
(idle, ready, identified, selected) and the address it published. A command or its answer
may get lost, a transfer may stop half way and leave the data line busy, and a later
call initialises again, over what the first attempt left behind.

**`VirtioKeyboard`**. The buffers lent to the device, both rings with their wrapping
indices, the modifiers, and the four tables that turn a code into a key or a character
(`Second` is the choice between the two characters of a key). `KeyboardTrue` replays the
device's history and compares.

**`UsbKeyboard`**. `stage` is the place in the enumeration; a `ControlRequest` is acted on by
*every* device that answers at the address, which is why a port that was given up matters. Then
the user presses, the keyboard reports, transfers are lost before or after the device took them
for sent, and the data toggles tell a repetition from a new report. Of every press `UsbTrue` says
what became of it: it was handled, or waits for a report (`due`), or no report could tell of it
(`untold`: the key went down and up, or up and down, between two of them), and a rollover may make
one come again (`again`). A transaction is one step: its repetition after a NAK and its splits are
not modelled.

### Keyboard, prompt, programs

**`InputQueue`** (with `BoundedFifo`, the promise) is the ring: `head`, `tail`, one
slot kept free, the newest event dropped when full. **`InputFrames`** extends it
with the statics of `lua_input.c`, the nested programs that share them, and the
shell that drains the ring.

**`SerialKeyboard`**. The terminal turns keys into bytes (`KeyBytes`), bytes cross a wire and a
receive FIFO, and `ReadByte`/`EndUpdate` are one turn of the loop and the end of
`uart_input_update`. `pauses` says whether this line may stall within a key: without it no parser
could tell Escape from the start of a sequence. Even so, Escape and then `[` typed by hand
(`ByHand`) is the start of a sequence for this parser, at any distance in time, and it takes the
next key for the rest; `SerialTrue` and `EveryKeyArrives` claim the keys before.

**`ProgramSession`**. `stack` holds one frame per C function that saves a global:
programs, scripts, captured commands, package opens; `active` is the chain of
program contexts, as positions in `stack`. `Exit` cuts the stack back to the newest
context or to the innermost `pcall` of its program, as the `lua_error`/`longjmp`
does, without the frames' ends. Leaving a program, running its finalizers
(`lua_close`) and returning are separate actions because finalizers may exit or
change the directory after the context is gone. `asked` names the programs that ran when Alt+F4 was
pressed: only the newest of them may end by it, and one started later never.

**`LineEditor`**. First the console, a set of operators on a record (position, cells, cursor
bars, suspension), then the shell's line, prompt and modes on top. A cell
holds the *set* of glyphs drawn into it and not erased, since `gfx_draw_char` paints
no background; that is how overlaid text becomes visible to `ScreenShowsLine`.

**`ShellCommands`**. First the texts: paths made absolute, lines cut into arguments, quoting,
extensions, each buffer with its length, so that a text is refused or silently cut as in the
code. Then the commands over a tree that other programs change: `cd`, `path add` and
`remove`, a name looked up among built-ins, files, the path and packages, `open` with an
association, and the module path given to the program that runs.

### Library and Notes

**`Heap`**. `heap` maps header addresses to size, next, prev and free flag; `owned` records what
clients hold. First fit, split, and merge are the list operations of `stdlib.c`, over real
addresses with a `SizeMax` where `size_t` wraps. `Free` takes any address: the code validates the
pointer against the list, and gives up after `SearchLimit` blocks (65536 in the code). `free` then
does nothing and `realloc` answers 0: `lost` are the blocks that were not found when they were
freed, `long` that the list was ever that long, and `HeapSound` says that nothing is lost
otherwise.

**`SharedBuffer`** (with `KeyValueStore`, the promise): the table of entries, first
match and first free slot, and the clipboard.

**`Numbers`** is `strtol`, `strtoul` and the integer directives of `neon_snprintf`, with a long of
`LongMax`, with all length modifiers; each is compared with what the C standard says of the whole
text at once (`NumbersTrue`). That reference has its own list of the digits (`DigitNames`), and
what the standard asks for and the library does not do is an exception with a name
(`NoOctalZero`). **`Calendar`** walks day by day with the rule of leap years, anchored to
Thursday, 1970-01-01, while the library is asked for the date of the day and for the day of dates
with fields out of range; a day of the month below 1 is the other exception (`DaysSkipped`).
**`LuaPattern`** is the backtracking matcher and the four searches, compared with a definition of
what a pattern means that tries every way and takes the preferred one; a plain `find` is compared
in what it finds or not, not in the place.

**`Notes`** has the document as a record with one operator per function of
`notes_document.lua`, and the dialogs of `notes_actions.lua` on top, with `disk` as other
programs see it.

### Lua

**`LuaCollector`**: colours, gray lists, the list of all objects and the sweep's place in it, then
the program beside it, which stores, clears and allocates between any two steps and whose every
assignment calls the barrier that `lapi.c` or `lvm.c` calls. Reachability (`Reach`) is computed
from the references, not from the colours. An allocation that fails makes a full collection at
once (`Emergency`), in whatever state the collector is and from finalizers while `lua_close` runs
them; for that the sweep's place follows the objects that move from list to list (`swept`,
`astray`). **`LuaTable`**: nodes with their `next` offsets, `lastfree`, dead keys, the array's
size and the hint of the border. **`LuaCalls`**: the threads with their `CallInfo` chains, and the
C stack with its `setjmp` points; Lua code does anything at any point, and the C code follows.

**`LuaParser`** and **`LuaCode`** turn a token list into instructions as `lparser.c` and `lcode.c`
do, register by register; **`LuaVm`** executes them one per step; **`LuaMeaning`** says what the
same syntax tree means without any of this. `machine` goes from text to code to an ended run, and
`CodeMeansProgram`, said of the step that ends a run, compares calls, results and globals of both.
The constant `Compiled` holds the code of every program, computed once; `CompiledByParser` is the
assumption that `LuaParser` gives that code. `CompilerSound` keeps the compiler's own assertions
(a conjunct `sane` collects them) and its verdict on what is legal.

### Abstractions that hold everywhere

Names, keys, paths and contents are model values or members of small sets; printing and messages
are left out. FatFs outside the volume of `Stdio` is modelled by what its callers see: `f_rename`
in `PackageTransaction` and `AliasFile` may stop between its two entries, where those models end;
in `FileTree` and `Stdio` it renames or fails; `f_unlink` of one entry removes it or not, except
in `Stdio`, where it may stop half way; in `PackageTransaction`, `AliasFile`, `PathList` and
`FirstBoot` a file that was closed is on the disk, one that was open may hold any prefix;
`f_mount` recovers nothing; nothing but the package manager writes below `0:/.packages` while it
runs (one thread).

## 3. What the runs check

| Run | Shows | Bounds and size |
|---|---|---|
| `package_txn` (`PackageTransaction`) | `NeverErasesLastCopy`, `OkMeansDone`, `Phases` (the inductive invariant), `FileSurvives`, refinement `ImplementsStore` | 2 names, a flat and a nested archive; any call but `f_stat` fails; crash anywhere, in a rename too. 74,015 states |
| `storage` (`MCStorage`) | `AliasTrue`, `PathListTrue`, `MarkerMeansInstalled`, `UserFilesKept`, `TreesTrue`, `ZipTrue`, `StreamsTrue` | tables of 3 lines, 2 path entries, 2 programs; trees of 2 names, 2 deep; archives of 2 entries out of 5; 2 streams over 2 clusters. 1.1 M states |
| `move_below_itself` | **violated**: `MoveLosesNothing` | the same |
| `overwrite_frees` | **violated**: `FreeSpaceTrue` | the same, no call fails |
| `devices` (`MCDevices`) | `BlkTrue`, `SdTrue`, `KeyboardTrue`, `UsbTrue` | 2 sectors, indices mod 4, 1 timeout; 3 card sectors, 2 faults; 2 buffers, 4 events of 8, one of a code no table has; hubs of 2 ports, 3 presses. 2.6 M states |
| `keyboards` (`MCKeyboards`) | `FramesTrue`, `SerialTrue`, `TypeAheadKept`, refinement `ImplementsFifo`, liveness `EveryKeyArrives` | ring of 4, 5 events, 2 nested programs; 3 keys of 7 kinds, 3 kinds of Enter, FIFO and update of 2 bytes. 456,008 states |
| `input_nested` | **violated**: `OneEventPerPresent` | 2 events |
| `serial_modifiers` | **violated**: `DecodesWhatWasTyped` with Ctrl+Delete | 1 key |
| `prompt` (`MCPrompt`) | `GlobalsTracked`, `EditorTrue`, `PlacesTrue`, `CommandsTrue`, `PromptDirectoryKept`, `CloseNotInherited` | 4 frames, scripts 2 deep; 2 rows of 6 cells, 5 printed characters; paths of 15, lines of 13 symbols, 3 lines typed or read from a script, 4 entries on the path. 1.8 M states |
| `session_finalizer_output` | **violated**: `OutputOwned` | 3 directories; finalizers that exit |
| `library` (`MCLibrary`) | `HeapSound`, refinement `ImplementsMap`, `NumbersTrue`, `CalendarTrue`, `PatternsTrue`, `EditingTrue`, `NotesKept` | arena of 36 bytes, searches of up to 4 blocks; 2 entries, 3 keys; texts of 5 characters, a 7-bit long; days around the epoch, leap centuries, eras; patterns of 2 items, at the limits of captures and recursion too; 3 edits, 2 undos. 1.25 M states |
| `lua_runtime` (`MCLuaRuntime`) | `GcSound`, `EntriesKept`, `TableSound`, `CallsSound`, `CodeMeansProgram`, `CompilerSound` | 1 to 4 objects in 8 casts, 1 or 2 collections; 7 keys, parts of 4; 1 coroutine, 4 frames, 2 errors; about 1,900 programs with 6 lists of arguments. 2.4 M states |

Names that end in `True` or `Sound` are conjunctions of the named parts of one component, each
with its own comment in its module: `GlobalsTracked` is `ProgramsTracked`,
`ScriptsAndOutputTracked` and `ExitFindsProgram`; `EditorTrue` is `LineFits`, `CursorInSync`,
`ScreenShowsLine` and `NoGhostCursor`; `StreamsTrue` is `ChainsSound`, `ContentsKept` and
`HeardTrue`; and so on.

**Why the bounds are enough.** In `package_txn` names never interact, so two are one more than
needed. A flat and a nested archive cover both ways of finding the root of the staging tree; two
archives suffice to tell "old" from "new". Four frames admit every pair of nested kinds plus
something around and inside; the depth limit 2 is reached and refused. The heap's arena is six
minimal blocks, two beyond the reach of a search: both neighbours of a freed block can be free, a
split can be refused for lack of room, and sizes at 0 and at the overflow are among the requests.
A ring of 4 fills, wraps and drops with 5 events. With 2 bytes per update and in the FIFO, every
boundary between two bytes of a key is also a boundary between updates. A table of three lines has
duplicates before and after another line. In `storage` the path begins with up to one line more
than the limit; a tree two deep has a directory in a directory, and recursion at its limit; two
clusters fill the volume, and a file of two has a chain. `Columns` 6 against `BufferSize` 5 lets
both the buffer and the row be what ends the line. Two sectors make a call that fails half way;
three card sectors tell a byte address from a sector's. With one timeout an abandoned request
overlaps with a later one; a second timeout only lets two old ones queue up, and takes more than
minutes to explore. Two buffers and a ring index modulo 4 let the keyboard's ring wrap with both
buffers out. A 7-bit long has a cutoff in every base with texts of five characters. In
`lua_runtime` each cast holds the kinds that meet in one rule of the collector (a thread with an
open upvalue; an ephemeron whose value leads to its key; an object that is resurrected into a weak
table), the table's keys fill parts of 1, 2 and 4 and collide, and the programs contain every pair
of operators whose code depends on the order of registers, every way out of every loop with a
variable to close, and every multiple assignment over two targets of six kinds.

**Deadlock** is checked in `package_txn`, `storage` and `keyboards` and in their violation runs.
It is not in `prompt` (`exit()` without a program halts the machine, and the shell gets three
lines), `library` (a walk of the calendar, a call, an editor end), `lua_runtime` (a closed state,
a finished call and an ended program stop) and `devices` (a board whose driver found nothing stops
for good).

**Fairness.** Only `SerialKeyboard` states any: weak fairness of `Arrive`, `ReadByte`
and `EndUpdate`. A byte on the wire arrives (the UART delivers); `input_update` is
called again and again by `shell_update` in the loop of `kernel_main`, and by
the debug hook of a running Lua program; each call reads what is there and ends.
`Type` is not fair: nobody has to type.

## 4. What is proved

The theorems hold for every value of the constants that satisfies the modules'
`ASSUME`s: any number of names, archives, sectors, programs and directories, any arena,
alignment or ring size, any set of failing calls. TLAPS checks them with Z3, Zenon and LS4.

| Module | Theorem | Statement |
|---|---|---|
| `PackageTransactionProofs` | `TypeCorrect` | `Spec => []TypeOK` (no run repeats it) |
| | `PhasesHold`, `LastCopyIsKept`, `SuccessIsDone` | `[]Phases`, `[]NeverErasesLastCopy`, `[]OkMeansDone`, if `f_stat` does not fail |
| | `FilesSurvive` | `Spec => FileSurvives`, whatever fails |
| | `TransactionIsAtomic` | `Spec => ImplementsStore`, if `f_stat` does not fail: a refinement of `PackageStore`, which promises nothing once a rename was torn |
| `InputQueueProofs` | `TypeCorrect`, `RingIsFifo` | `[]TypeOK`; `Spec => ImplementsFifo`: a refinement of `BoundedFifo` |
| | `FramesCorrect`, `TypeAheadSurvives` | `FramesSpec => []FramesTrue`, `FramesSpec => TypeAheadKept` |
| | `SerialInvariantHolds`, `SerialIsTrue` | `SerialSpec => []SerialTrue`, if `PlainTyping` |
| `SystemFilesProofs` | `MarkerVouches`, `UserFilesSurvive` | `[]MarkerMeansInstalled`, `UserFilesKept` |
| | `PathListInvariant`, `PathListIsTrue` | `PathSpec => []PathListTrue` |
| | `AliasInvariant`, `AliasIsTrue` | `AliasSpec => []AliasTrue` |
| | `StreamsInvariant`, `StreamsAreTrue` | `StdioSpec => []StreamsTrue` |
| `SessionProofs` | `SessionInvariant`, `GlobalsAreTracked` | `SessionSpec => []SessionInv`, `[]GlobalsTracked` |
| | `PromptIsKept`, `CloseIsNotInherited` | the action properties `PromptDirectoryKept`, `CloseNotInherited` |
| | `EditorInvariant`, `EditorIsTrue` | `EditorSpec => []EditorTrue` |
| `LibraryProofs` | `HeapIsSound`, `BufferIsMap` | `HeapSpec => []HeapSound`; `BufferSpec => ImplementsMap`: a refinement of `KeyValueStore` |
| `DeviceProofs` | `KeyboardInvariant`, `KeyboardIsTrue` | `KeyboardSpec => []KeyboardTrue` |
| | `UsbInvariant`, `UsbIsTrue` | `UsbSpec => []UsbTrue` |
| | `BlkInvariant`, `BlkIsTrue` | `BlkSpec => []BlkTrue`, if `MaxTimeouts + 1 < IndexModulus` |
| | `SdInvariant`, `SdIsTrue` | `SdSpec => []SdTrue` |
| `TreeProofs` | `TreeSteps`, `TreesAreTrue` | `TreeSpec => []TreesTrue` |
| | `ZipSteps`, `ArchivesAreTrue` | `ZipSpec => []ZipTrue` |

**Package transactions.** `NeverErasesLastCopy` and `OkMeansDone` are not inductive: whether
deleting a backup is safe depends on what the recovery, the staging and the commit left behind.
`Phases` is the strengthening. It says, for each value of `pc`, what the three directories hold:
after `recover` no backup is left without a destination (`Recovered`); while unpacking, the
staging tree is what this call made (`Staged`); after the commit the destination is the archive
(`Committed`); what a half-done delete may have damaged is never what the next step relies on
(`Doomed`); and a status is a success exactly where the operation took effect (`Bookkeeping`). One
lemma per file-system call shows that it preserves `Phases`; `PhasesNext` collects them. TLC
checks the same `Phases` in `package_txn`. The refinement maps a name to what the next recovery
would make of it (the destination, or else the backup): setting the old tree aside is then a
stutter, the rename that commits is `Switch`, the steps of an uninstall are `Erode` and `Erase`,
power loss is `Restart`. `f_rename` is no single step in the code: between `dir_register` and
`dir_remove` (`ff.c`, "critical section where an interruption can cause a cross-link") both names
lead to one chain of clusters. `TornRename` is that outcome, of each of the four renames; it is
`Tear` of the store, after which the store allows anything (`Unpromised`) and the model stops: the
theorem says what holds until then, and that nothing else ends the promise.

The assumption `"stat" \notin Faults` is the code's, not the proof's: `path_exists`
reads a failing `f_stat` as "not there". With it in `Faults` TLC finds runs that lose
the refinement. `FilesSurvive` does without it: `package_uninstall` deletes only after
`directory_exists`, which can be wrong about existence but not take a file for a
directory (`DeletesNoFile` is the small invariant behind it).

**Keyboard queue and frames.** `QueueInv` adds to the types that every slot between head and tail
holds an event; `PushContents` and `PollContents` say what a push and a poll make of the
*sequence* the refinement mapping reads, across the wrap of the indices (`Wrap`,
`SlotAtIs`, `WaitingIs`). The readers in the frames of the Lua programs use the ring only
through the operations of `InputQueue` (`RingStep`), so `QueueInv` is theirs too; `Ordered` adds
that reader, frame and ring hold the keys in order, `Locked` that a frame which has not begun has
taken nothing. `StepDelivers` follows one waiting event through every step.

**Serial keyboard.** Bytes carry no mark of the key they belong to, and the parser keeps two
numbers and two flags. `SerialInvariant` says that there is a key `d` such that the bytes not read
yet are the rest of `d` followed by the whole keys after it. `Stream` says so without recursion: a
function gives the place where each key ends (`Chain`). That rest and the parser's state belong
together (`Decodes`: before a key, after the Escape, after the bracket, with the number read so
far), and the events pushed are those of the first `d` or `d - 1` keys (`Told`); if the line
pauses inside a key, they are only at least as many, which is what `SerialTrue` then claims. There
is one lemma per way of reading a byte (`RestByte` inside a key, `NextKeyByte` from one to the
next) and per action (`TypeKeeps`, `ArriveKeeps`, `ReadByteKeeps`, `EndUpdateKeeps`).
`PlainTyping` is a hypothesis of the theorem and not of the module, because the runs break it: the
keys have no Ctrl+Delete, whose modifier the parser loses (a finding), and no `[`, which after a
lone Escape reads as the start of a sequence (the run `keyboards` has `[`, and its properties say
what still holds then); the terminal sends one of three Enters, and an update reads at least one
byte.

**Programs.** `GlobalsTracked` is about the globals of a moment; what makes it inductive is what
each C function on the stack saved: every capture saved the target of the capture before it
(`OutputSaved`), the chain of contexts is the running programs in order (`ContextsInOrder`),
nothing runs above a program that ends (`EndingOnTop`), the first program saved the prompt's
directory (`HomeSaved`). After a finalizer has called `exit()` the output target may be wrong for
good (finding 1) and the script depth too high; the invariant then claims of the depth only that
it is never too low, and of the output nothing, as `GlobalsTracked` does. `CloseNotInherited`
needs `CloseIsRecent`: while a request is pending, `asked` is exactly the set of the running
programs, because a start takes the request and every end of a program leaves the set by name; so
the newest context is the newest of those asked, and it ends with nothing of its parents changed.

**Line editor.** What the screen shows is true of a moment in which nobody prints; the invariant is
about all others. A console is `Calm` when it is not suspended, has one cursor, and has nothing
below the row it prints on. `FreeAhead` is what output, prompt and line rely on: from the position
on the row is empty, unless a carriage return has taken it back over what was printed
(`overprinted`, where the code claims nothing either). While the shell takes events it is in sync
and `RowShows` the line; when an update begins it is in sync, or has no line and finds the
row empty. One lemma per console operation carries `Calm` (`PutcFacts`, `ClearLineFacts`,
`SuspendFacts`, `ResumeFacts`), and `WriteInRow`, by induction over the text, says what a text that
fits puts into the cells; then one lemma per key.

**Heap.** `List` says of the block list that it tiles the arena, doubly linked, with aligned
sizes; `Holds` that the used blocks are the owned ones and those whose `free` found nothing
(`lost`). The limit of the searches is a parameter: `SearchReaches` and `FewerBlocks` say that a
list of no more than `SearchLimit + 1` blocks is searched to its end, so nothing is lost unless
the list was longer once (`long`). Split, merge, take and release each keep `List` and change the
flags of their own blocks only (`SplitKeeps`, `MergeKeeps`, `TakeKeeps`, `ReleaseKeeps`); the
actions of the four C functions follow.

**Shared buffers.** The table stands for the map of its used entries (`MapOf`); `Sound`, one entry
for a key, is what `shared_buffer_find` needs to find *the* entry, and the table has room as long
as it has fewer keys than entries (`KeysAreCounted`). The first free entry is the least
number of a set; that a set of naturals has one is proved by counting (`SetInduction`: an
injection into the set without 0 would be one into a smaller set), since the library's induction
theorems take an operator.

**VirtIO keyboard.** The indices wrap and the buffers are lent again, so the invariant is about
the counts behind them: `Rings(h)` says that of all events stored the first `h` are handled and
given back, that the others wait in the entries their numbers fall on, and that all indices are counts
modulo `RingModulus`. Whether an entry is overwritten is then a question of arithmetic
(`Same`, `Nested`, `UnhandledIs`): no more than `BufferCount` events wait. `Meaning(n)` says
that the driver knows what the first `n` events mean; counting them one by one
(`TypedNext`, `CapsNext`, `DownNext`) is what makes it inductive.

**USB keyboard.** `Enumerating` says, for each stage, who answers where: at most one device waits
at address 0, and besides it only the hub, at address 1. So a request to an address reaches one
device (`OnlyAnswers`), and what was set there is what the next stage finds. `FindChooses` is
about the search in the configuration: the endpoint belongs to the last interface before it.
`KeysInv` counts: `Accounted` says of every key that the presses handled, those no report told of
(`untold`) and the one that is due are the presses made and those that come again after too many
keys; what links it to the driver is that `previous` is what the last report named. If a port was
given up after its reset, the invariant says nothing of who answers. The assumptions on the
devices are those of the USB specification: boot keyboards are HID devices, and a hub has no HID
interface.

**Disks.** For VirtIO the invariant orders the four ring positions (`RingKept`), and as long as no
request of this call was given up it pins the one request that can be out and what it has moved
(`InOrder`). The assumption is real: indices have 16 bits, and after 65535 requests that the
device still holds, an old answer looks like a new one; the driver does not count them. For the
SD card `Walked` says what `sd_init` may rely on at each command; the rest is the progress of a
call, sector by sector.

**Aliases and `PATH.txt`.** Both updates copy a file line by line, so the invariants compare what
is written with the first `k` lines of the old file: `Copied` says that the temporary table is the
old one so far, with the first mapping of the extension replaced (`Progress`), and that every
other extension is looked up to the same application (`Agree`); `CopyEnds` turns that, at the last
line, into the table that was wanted (`Finished`). The history `loss` keeps apart the two ways in
which the code loses table and copy (section 5); without it the statement would be false. For
`PATH.txt`, `Fit` says that a list to be written loads and gains no entry twice, and `PrefixKeeps`
that a write that stops half way keeps both. A line that is cut names what `Beginnings` says of
it; of those names the proof assumes only that they are directories. `Others` and `Dropping`,
which leave lines out, are recursive functions: `Recursion` proves that they exist, `OthersFacts`
and `DroppingFacts` what they return. The library's induction theorems take an operator, so
`SetInduction` states induction for a *set* of naturals, and its proof is by counting.
`AliasConstants` assumes only that the values that stand for no table, no application and a remark
are not tables, applications and mappings.

**Streams and the FAT volume.** A chain is a link in every cluster of a table, and each operation
changes links and cells somewhere; what makes the proof possible is to name the chains. `Volume`
says that *there are* sequences of clusters, one for a file, such that each follows the links to
the end (`Chain`), holds in its cells what the file should hold (`Stores`), and shares no cluster
with another (`Laid`). `ChainNth` ties the sequences to the recursive function by which the model
walks a chain, and `ChainFromIs` shows, by counting, that a walk as long as the volume visits all
of it. Then there is one lemma for each thing that can happen to a volume (`VolumeEmptied`,
`VolumeShorter`, `VolumeRemoved`, `VolumeRenamed`, `VolumeWritten`), about views and not about
streams, so that the eleven actions share them. The view of a file is its entry, or what its
writer knows that the entry does not yet say: `OnFile` allows the entry of a file that is being
written to lag behind, in size, and in its first cluster if it was empty. `Reading` is `HeardTrue`
for a stream that has not written since its position was set, and nothing for the others. A
`f_unlink` that fails half way leaves clusters that belong to no file, which `Volume` allows.
Besides the types of the bounds, the proof assumes that the mark for "nothing pushed back" is not
a value (in the code it is a flag, `has_ungot`).

**File tree.** `copy_path` and `delete_tree` recurse, so the state is a stack of calls over a tree
that is half copied, and `TreesTrue` says something of its end only. `StackTrue` says what a call
and the one it waits for have to do with each other (`Calls`). The heart is `CopiedTrue`: as long
as no call has failed, a path below the destination either is `Pending`, because some call on the
stack has yet to come to it, and then nothing is there, or it `Matches` its origin in the tree as
it was before. When the last call returns nothing is pending, and the copy is exact (`ExactCopy`).
A file copied over one that a failing `f_stat` hides (`CopyOver`) changes that path alone, so its
case needs no stack. The names still to do lie apart from the calls above (`CallsApart`), so one
lemma each says what is pending after a call goes on, makes another, or returns (`PendingBecame`,
`PendingPushed`, `PendingPopped`). `CopyTrue` says that nothing was at the destination, so that
the clean-up of a failed copy removes only what the copy made. A directory copied into itself is
the exception: its source grows. `IntoItselfTrue` follows the chain of calls toward the
destination: each has the next name of that chain to do, or waits for it, and the last one finds
the directory it would make already there; so such a copy always fails. Nothing is assumed of
names, of the limits, or of which calls fail.

**Archives.** `Within` relates what was accepted to what was written by an increasing map, which
each addition extends (`WithinAppend`). `Placed(n)` says that each of the first `n` entries is
where it was to go, unless a later one among them went there too; an extraction adds directories
on its way and changes one file (`Extracted`), so `Placed` moves on by one (`PlacedMore`). That
nothing outside the destination changes rests on `SafePlace`: a name that passes
`zip_is_safe_archive_name` leads below the destination. It is proved for destinations of at most
one name, those the model's calls use: an archive unpacked deeper also makes the directories above
its destination. Assumed is that `..` is no name and that the path of an entry is a sequence.

**Only model-checked**: every property of the runs that the table does not name. Out of the
prover's reach, and so left to TLC: liveness (`EveryKeyArrives`), `ENABLED`, and anything in a
module that declares a `RECURSIVE` operator: `Calendar`, `Numbers`, `LuaPattern`, `LuaCollector`,
`LuaTable`, `LuaMeaning` and what extends it, since TLAPS has no SMT backend there.
The others (`ShellCommands`, `Notes`, `LuaCalls`) declare none and are open to proof.
## 5. Findings and observations

Five runs show that the program does not do what the repository says of it:

1. `session_finalizer_output` (**bug**, `lua/shell/lua_shell_api.c:104`). The output
   callback is restored when the captured action returns. An `os.exit` in a `__gc`
   metamethod of the captured program runs after that program's context was left; it
   unwinds into the parent, past the restore, and what is printed later goes into
   the buffer of a call that is over. `README.md:111` promises a redirection of that
   one command's output.
2. `serial_modifiers` (**bug**, `platforms/qemu/input/input.c:700`). The digits after `;`
   are appended to the key's number, so `ESC [ 3 ; 5 ~` (Ctrl+Delete) is key 35 and is
   dropped, although the comment above it says that modifiers are ignored.
3. `input_nested` (**code and README diverge**, `lua/input/lua_input.c:316`). A program that
   runs another one reads a second event before its next `gfx.present()`;
   `README.md:99` says one per `gfx.present()`.
4. `move_below_itself` (**bug**, `lua/fs/lua_fs.c:189`). `fs.move` refuses a destination inside
   the source by comparing text with case, on a volume without: moving `/a` to `/A/b` hangs the
   directory below itself, where no path reaches it.
5. `overwrite_frees` (**bug**, `third_party/fatfs/ff.c:4564`). The rewritten `f_open` clears the
   first cluster of a file that it opens with `FA_CREATE_ALWAYS` and never frees its chain.
   Every overwrite takes space that no file has and that `fs.getFreeSpace` never counts again.

Behaviour that the models had to admit and that a maintainer may want to know of;
no text in the repository says otherwise, so these are not findings:

*Persistent state.*
- A failing `f_stat` reads as "does not exist", in the package manager and in `neon_fs_copy_file`,
  which then writes over a file that exists, even over its own source.
- `f_rename` writes the new entry before it removes the old one. When it is cut off between the
  two, both names lead to one tree or file; the clean-up that follows (the next recovery deletes
  staging and backup, the next update deletes `ALIAS.tmp`) frees the clusters under the other
  name: the package or the aliases are lost.
- `f_unlink` removes the entry first: when it fails after that, the rest of the chain belongs to
  no file.
- When `f_rename` fails after `ALIAS.txt` was deleted, the error path deletes `ALIAS.tmp` too:
  every alias is lost. After a crash between the two, the aliases are in `ALIAS.tmp` only, and the
  next update deletes it before anyone looks.
- `PATH.txt` is rewritten in place: a crash or a short write loses entries from its end, and cuts
  the last one, which may then name another directory (`/bin` of `/binaries`); comments are
  dropped by any successful change. Entries are compared with case, on a file system without.
- A boot install that fails starts over at every boot, overwriting what the user changed in the
  meantime, until the marker is written.
- `f_open` does not look at the read-only attribute, and `f_close` does not write FSInfo. FatFs is
  built without locks: a ZIP writer that Lua collects late writes through the directory entry of a
  newer file.
- `zip_make_directories` takes `FR_EXIST` for success even when a file is in the way (the
  extraction then fails); `zip.list` leaks its archive when Lua runs out of memory.
- `ftell` and `fseek(SEEK_CUR)` ignore a pushed-back character; a `freopen` that fails keeps its
  slot of sixteen; `f_lseek` beyond the end exposes what the clusters held before.

*Devices.*
- A block request that begins while an abandoned one is still with the device can be answered by
  the old one's completion (`clean` excludes those calls from `OkMeansTransferred`).
- `sd_rca` survives a failed `sd_init`: after a failure past CMD3 every retry sends CMD55 with the
  old address. Nothing resets the controller after a failed data transfer.
- A hub port that is given up after its reset leaves a device at address 0 beside the next one
  (`abandoned`); the search stops at the first port that is enabled, keyboard or not; a rollover
  report makes the keys that are still held count again; a lost acknowledgement leaves the toggles
  apart, and the keyboard is disabled until the next boot.
- A USB keyboard is polled for its state: a key that goes up and down again between two polls is
  one long press, and one that goes down and up is none.
- On the serial line Escape and then `[`, typed by hand, waits for the rest of a sequence for
  ever, and takes the next key for it: only a lone Escape is given up at the end of an update.

*Prompt and programs.*
- An `os.exit` in a finalizer of the *outermost* program finds no context and halts
  the machine (`ExitFindsProgram` says that this is the only way).
- An absolute path that is too long is silently cut, and then names another file; a relative one is
  refused. A line's end beyond 255 characters, and arguments past the sixteenth, are dropped in silence.
- `path add /` is refused, because the root of the volume has no `f_stat`. An alias whose application
  is `open` recurses without limit. A directory shadows an application or package of its name.
- `input.pressed` takes the frame's event even when it answers no.
- `shared_buffer_clear_all` clears the clipboard as well.
- At the bottom of the screen the console clears instead of scrolling. `gfx_draw_char`
  paints no background, so output that ends in a carriage return shows through the
  prompt (`overprinted`), and erasing the cursor bar cuts the lowest row of a `g` off.

*Library and Notes.*
- Beyond 65536 blocks the heap's searches stop: `malloc` fails, `free` of a live pointer does
  nothing (the block is lost for good), and `realloc` of one answers 0.
- `%#.0o` of 0 prints nothing; an integer never has more than 128 characters before padding,
  whatever the precision; `mktime` takes a day of the month that is not positive for 1.
- A save of an unchanged document that fails leaves the file truncated and the text unmarked; a
  failed Save As leaves the new path; a read error gives an empty, unmarked document; Save As
  overwrites unasked. `NotesKept` sets those states aside with a ghost (`trouble`) that the next
  success clears. Alt+F4 ends the editor as any program, with what is not saved; the model of the
  editor has no such action, and so claims nothing of it.

*Lua.*
- If `lua_close` finds the collector in the sweep of the objects to be finalized, and the first
  finalizer runs for the one just before the sweep's place, the place moves on into the list of
  all objects and the rest of the first list stays black. An emergency collection in a later
  finalizer then does not mark what those objects refer to, and frees it although a finalizer may
  still reach it (`astray`; `GcSound` sets those runs aside). It takes a `malloc` that fails at
  that moment.

## 6. What is not modelled

- **Floating point**: `math.c`, `strtod.c`, `%f`, Lua's floats are out of TLC's reach.
- **Registers and pixels**: `arch/`, board start-up, framebuffers, fonts, clock dividers, delays.
- **miniz**, and of **FatFs** long names, the mount, time stamps and the sector cache. In
  `FileTree` and `Stdio` a rename happens or fails, with no torn one in between; what a clean-up
  takes from a tree that two names share is modelled nowhere.
- **Of Lua**: the scanner, nested functions with upvalues in the compiler, varargs, methods,
  bitwise operators, the length operator; the generational mode; message handlers, hooks, the
  C-stack limit; `string.format` and `string.pack`; binary chunks; the functions of the other
  libraries; where a plain `find` finds its text.
- **Of the drivers**: the discovery and queue layouts of the block device, the negotiation of the
  VirtIO keyboard, the repetition of a USB transaction after a NAK and its splits at a hub. The
  serial parser of the Raspberry Pi repeats the one of QEMU.
- **Bindings, wording and drawing**: the argument checks of the Lua libraries, shell commands that
  only print or call one operation, the games, the desktop, the explorer and the image viewer.
- In the modelled components: the closing of the editor by Alt+F4; `%p`, and precisions beyond the
  128 characters of the field; `package_list`, `package_get_info` and the statistics of the heap
  only read; the limit of 64 characters of an extension is left out.
- **Late finalizers against files**: an archive object that is collected after its path was
  written again needs `ZipArchive` over the volume of `Stdio` with the collector's time; the two
  are modelled apart. Power loss is modelled for the kernel's own files and packages, not for
  programs' copies, archives and streams.

## 7. Plan

The order was: what can lose a user's data first (packages, system files, block drivers), then
what everything runs on (sessions, heap, libc, Lua), then the keyboard from wire to program,
the screen and the command line. What is left, the most useful first:

1. **Proofs.** `PlacesTrue` and `CommandsTrue`, `CallsSound`, `NotesKept`
   with `EditingTrue`: their modules declare no `RECURSIVE` operator, but what they say is a
   fold over a sequence, which needs induction over data, or, for `CallsSound`, an invariant of
   the whole C stack.
2. **Manifests and the list of packages** (`package_read_manifest`, `package_list`): the list
   ends at the first package whose manifest is broken.
3. **`ZipArchive` over the volume of `Stdio`**, with objects that are collected late.
4. **Nested functions** in `LuaParser` and `LuaVm`, with the upvalues of `LuaCalls`.
