------------------------------- MODULE Stdio -------------------------------
(***************************************************************************)
(* The C streams under Lua's io library (kernel/libc/stdio.c): a slot of   *)
(* open_files and the FIL of the same index.  FatFs is built without       *)
(* locks, so this module assumes what it cannot check: a file has many     *)
(* readers or one writer, and is not removed while it is open.  As the C   *)
(* library asks, a program sets the position between reading and writing.  *)
(*                                                                         *)
(* The FAT volume below them (third_party/fatfs/ff.c, whose f_open and     *)
(* f_close this system rewrote) comes first: a cluster holds one value, so *)
(* sizes count clusters; the sector caches are left out.                   *)
(***************************************************************************)
EXTENDS Integers, Sequences, FiniteSets

CONSTANTS Files,     \* names in the root directory
          ClusterCount,
          Values,
          Slots      \* how many FIL objects there are: open_fil_storage

VARIABLES entries,  \* the directory: first cluster and size of each file
          fat,      \* the next cluster of each, End, or Unused
          cells,    \* what every cluster holds
          fil       \* the FIL objects

volumeVars == <<entries, fat, cells, fil>>

Streams == 1..Slots
Clusters == 1..ClusterCount
Unused == 0
End == ClusterCount + 1
NoCluster == 0
None == "none"
NoData == [first |-> NoCluster, size |-> 0]
NoEntry == [first |-> NoCluster, size |-> -1]
NoFil == [open |-> FALSE, name |-> None, first |-> NoCluster, size |-> 0, at |-> 0,
          reads |-> FALSE, writes |-> FALSE, modified |-> FALSE]

Present(name) == entries[name] # NoEntry
Holders(name) == {s \in Streams : fil[s].open /\ fil[s].name = name}
Writers(name) == {s \in Holders(name) : fil[s].writes}

\* The cluster at position n > 0 of the chain that begins at c (get_fat).
Nth(c, n) ==
    LET link[i \in 1..n] ==
          IF i = 1 THEN c
          ELSE IF link[i - 1] \in Clusters THEN fat[link[i - 1]] ELSE NoCluster
    IN  link[n]
ChainFrom(c) == {d \in Clusters : \E n \in 1..Cardinality(Clusters) : Nth(c, n) = d}
Content(f) ==
    [i \in 1..f.size |->
        IF Nth(f.first, i) \in Clusters THEN cells[Nth(f.first, i)] ELSE None]

-----------------------------------------------------------------------------

\* f_open: FA_CREATE_ALWAYS writes an empty entry, and leaves the chain of the
\* old file as it is.
AfterOpen(ents, name, m) ==
    IF m.truncate \/ ents[name] = NoEntry THEN [ents EXCEPT ![name] = NoData] ELSE ents
FilFor(name, m, entry) ==
    [open |-> TRUE, name |-> name, first |-> entry.first, size |-> entry.size,
     at |-> IF m.append THEN entry.size ELSE 0,
     reads |-> m.reads, writes |-> m.writes, modified |-> FALSE]

\* f_close: the entry is written if data were.
AfterClose(ents, f) ==
    IF f.modified THEN [ents EXCEPT ![f.name] = [first |-> f.first, size |-> f.size]]
    ELSE ents

\* remove_chain, when f_unlink has removed the entry: the first n clusters.
AfterRemove(first, n) ==
    [c \in Clusters |-> IF \E i \in 1..n : Nth(first, i) = c THEN Unused ELSE fat[c]]

\* create_chain: the cluster after c, or a free one.  The code looks for it from
\* the last one it took; which one it finds makes no difference here.
NextCluster(c) ==
    IF c # NoCluster /\ fat[c] # End THEN {fat[c]}
    ELSE {d \in Clusters : fat[d] = Unused /\ \A e \in 1..(d - 1) : fat[e] # Unused}
Linked(c, d) ==
    LET taken == IF fat[d] = Unused THEN [fat EXCEPT ![d] = End] ELSE fat
    IN  IF c = NoCluster THEN taken ELSE [taken EXCEPT ![c] = d]

\* f_write of one cluster at the position of f; a full volume has none for it.
Before(f) == IF f.at = 0 THEN NoCluster ELSE Nth(f.first, f.at)
Room(f) == IF f.at = 0 /\ f.first # NoCluster THEN {f.first} ELSE NextCluster(Before(f))
Write(s, f, c, v) ==
    /\ fat' = IF f.at = 0 /\ f.first # NoCluster THEN fat ELSE Linked(Before(f), c)
    /\ cells' = [cells EXCEPT ![c] = v]
    /\ fil' = [fil EXCEPT ![s] =
         [f EXCEPT !.at = @ + 1, !.modified = TRUE,
                   !.first = IF @ = NoCluster THEN c ELSE @,
                   !.size = IF f.at < @ THEN @ ELSE f.at + 1]]

VolumeInit ==
    /\ entries = [name \in Files |-> NoEntry]
    /\ fat = [c \in Clusters |-> Unused]
    /\ cells = [c \in Clusters |-> None]
    /\ fil = [s \in Streams |-> NoFil]

-----------------------------------------------------------------------------
\* The files as they are on the disk, or will be once their writer closes them.
View(name) ==
    IF Writers(name) = {} THEN entries[name]
    ELSE LET f == fil[CHOOSE s \in Writers(name) : TRUE]
         IN  [first |-> f.first, size |-> f.size]

\* Every file has a chain as long as its size, of its own: no cluster is in two
\* files, or free and in a file (create_chain, remove_chain, f_open, f_close).
ChainsSound ==
    \A m \in Files : Present(m) =>
        /\ \A i \in 1..View(m).size : Nth(View(m).first, i) \in Clusters
        /\ \A c \in ChainFrom(View(m).first) :
              /\ fat[c] # Unused
              /\ \A n \in Files \ {m} : Present(n) => c \notin ChainFrom(View(n).first)

\* "free bytes on volume" (README.md:138): what no file uses is free.
FreeSpaceTrue ==
    \A c \in Clusters : fat[c] # Unused =>
        \E m \in Files : Present(m) /\ c \in ChainFrom(View(m).first)

-----------------------------------------------------------------------------
(* The streams. *)

CONSTANTS Temporary,    \* the name tmpnam makes
          MaxSize,      \* bound on the size of a file
          StreamFaults  \* the calls that may fail

ASSUME StdioConstants ==
    /\ Slots \in Nat \ {0} /\ ClusterCount \in Nat \ {0}
    /\ Temporary \in Files /\ MaxSize \in Nat
    /\ StreamFaults \subseteq {"open", "read", "close", "unlink"} /\ None \notin Values

VARIABLES stream,    \* the slots: [used, append, eof, pushed, temporary]
          turn,      \* history: "read" or "write" since the position was set
          origin,    \* history: where the position was set
          heard,     \* history: what was read since, less what was pushed back
          expected   \* history: what each file should hold

stdioVars == <<volumeVars, stream, turn, origin, heard, expected>>
turnVars == <<turn, origin, heard>>

FreeSlot == [used |-> FALSE, append |-> FALSE, eof |-> FALSE, pushed |-> None,
             temporary |-> FALSE]
UsedSlot(append, temporary) ==
    [FreeSlot EXCEPT !.used = TRUE, !.append = append, !.temporary = temporary]
Gone == [there |-> FALSE, data |-> <<>>]
Holding(data) == [there |-> TRUE, data |-> data]

\* stdio_parse_mode: r, r+, w, w+, a and a+.
Modes ==
    {[reads |-> k = "r" \/ plus, writes |-> k # "r" \/ plus,
      truncate |-> k = "w", append |-> k = "a"] : k \in {"r", "w", "a"}, plus \in BOOLEAN}
Creates(m) == m.truncate \/ m.append
MayOpen(name, m) == IF m.writes THEN Holders(name) = {} ELSE Writers(name) = {}

\* stdio_alloc_file: the first slot that is not used.
AllocFile ==
    {s \in Streams : ~stream[s].used /\ \A t \in Streams : stream[t].used \/ s <= t}

SetPosition(s, position) ==
    /\ turn' = [turn EXCEPT ![s] = "any"]
    /\ origin' = [origin EXCEPT ![s] = position]
    /\ heard' = [heard EXCEPT ![s] = <<>>]
Turn(s, what) == turn[s] \in {"any", what} /\ turn' = [turn EXCEPT ![s] = what]

-----------------------------------------------------------------------------
\* stdio_open_into that succeeds; ents is the directory before it.
OpenInto(s, name, m, temporary, ents) ==
    /\ entries' = AfterOpen(ents, name, m)
    /\ fil' = [fil EXCEPT ![s] = FilFor(name, m, entries'[name])]
    /\ stream' = [stream EXCEPT ![s] = UsedSlot(m.append, temporary)]
    /\ expected' = IF m.truncate \/ ~Present(name)
                   THEN [expected EXCEPT ![name] = Holding(<<>>)] ELSE expected
    /\ SetPosition(s, fil'[s].at)
    /\ UNCHANGED <<fat, cells>>

\* fopen; one that fails frees its slot again.
Fopen(name, m) ==
    /\ name # Temporary /\ MayOpen(name, m) /\ (Present(name) \/ Creates(m))
    /\ \E s \in AllocFile : OpenInto(s, name, m, FALSE, entries)

Tmpfile ==
    LET m == [reads |-> TRUE, writes |-> TRUE, truncate |-> TRUE, append |-> FALSE] IN
    /\ MayOpen(Temporary, m)
    /\ \E s \in AllocFile : OpenInto(s, Temporary, m, TRUE, entries)

\* f_unlink: the entry, then its chain from the front.  One that fails has
\* removed nothing, or the entry and some of the chain.
UnlinkFile(name, ents) ==
    \/ \E n \in 0..ClusterCount :
          /\ n = ClusterCount \/ "unlink" \in StreamFaults
          /\ entries' = [ents EXCEPT ![name] = NoEntry]
          /\ fat' = AfterRemove(ents[name].first, n)
          /\ expected' = [expected EXCEPT ![name] = Gone]
    \/ "unlink" \in StreamFaults /\ entries' = ents /\ UNCHANGED <<fat, expected>>

\* fclose: the FIL, then the slot, then the temporary file, which stays if
\* f_unlink fails.
Fclose(s) ==
    /\ stream[s].used /\ fil[s].open
    /\ stream' = [stream EXCEPT ![s] = FreeSlot] /\ fil' = [fil EXCEPT ![s] = NoFil]
    /\ LET closed == AfterClose(entries, fil[s])
       IN  IF stream[s].temporary THEN UnlinkFile(fil[s].name, closed)
           ELSE entries' = closed /\ UNCHANGED <<fat, expected>>
    /\ SetPosition(s, 0) /\ UNCHANGED cells

\* fclose when f_close fails, or freopen has closed the FIL: the slot is free all
\* the same, and the entry of a file that was written is the old one or the new.
FcloseFails(s) ==
    /\ stream[s].used /\ (fil[s].open => "close" \in StreamFaults)
    /\ stream' = [stream EXCEPT ![s] = FreeSlot] /\ fil' = [fil EXCEPT ![s] = NoFil]
    /\ IF fil[s].open
       THEN /\ entries' \in {entries, AfterClose(entries, fil[s])}
            /\ expected' = [expected EXCEPT ![fil[s].name] =
                              Holding(Content(entries'[fil[s].name]))]
       ELSE UNCHANGED <<entries, expected>>
    /\ SetPosition(s, 0) /\ UNCHANGED <<fat, cells>>

\* freopen, as Lua uses it: the same file.  When f_close fails the stream is
\* as it was, its entry the old one or the new; when the f_open after it fails
\* the stream stays in its slot until it is closed.
Freopen(s, m) ==
    /\ stream[s].used /\ fil[s].open /\ Holders(fil[s].name) = {s}
    /\ LET closed == AfterClose(entries, fil[s]) IN
       \/ OpenInto(s, fil[s].name, m, FALSE, closed)
       \/ /\ "close" \in StreamFaults
          /\ entries' \in {entries, closed}
          /\ UNCHANGED <<fat, cells, fil, stream, turnVars, expected>>
       \/ /\ "open" \in StreamFaults
          /\ entries' = closed /\ fil' = [fil EXCEPT ![s] = NoFil]
          /\ stream' = [stream EXCEPT ![s] = UsedSlot(FALSE, FALSE)]
          /\ SetPosition(s, 0) /\ UNCHANGED <<fat, cells, expected>>

\* fread and fgetc: the pushed-back character, then the file; short means EOF.
Fread(s, n) ==
    LET f == fil[s]
        pushed == IF stream[s].pushed = None THEN <<>> ELSE <<stream[s].pushed>>
        wanted == n - Len(pushed)
        more == IF f.size - f.at < wanted THEN f.size - f.at ELSE wanted
    IN  /\ stream[s].used /\ f.open /\ f.reads /\ Turn(s, "read")
        /\ \/ /\ fil' = [fil EXCEPT ![s].at = @ + more]
              /\ heard' = [heard EXCEPT ![s] =
                             @ \o pushed \o SubSeq(Content(f), f.at + 1, f.at + more)]
              /\ stream' = [stream EXCEPT ![s].pushed = None,
                                          ![s].eof = @ \/ more < wanted]
           \/ /\ "read" \in StreamFaults /\ wanted > 0
              /\ heard' = [heard EXCEPT ![s] = @ \o pushed]
              /\ stream' = [stream EXCEPT ![s].pushed = None] /\ UNCHANGED fil
        /\ UNCHANGED <<entries, fat, cells, origin, expected>>

\* ungetc of the character read last: one is kept, a second one is refused.
Ungetc(s) ==
    /\ stream[s].used /\ heard[s] # <<>> /\ stream[s].pushed = None
    /\ stream' = [stream EXCEPT ![s].pushed = heard[s][Len(heard[s])], ![s].eof = FALSE]
    /\ heard' = [heard EXCEPT ![s] = SubSeq(@, 1, Len(@) - 1)]
    /\ UNCHANGED <<volumeVars, turn, origin, expected>>

\* Mutant: append mode only goes to the end when the file is opened.
FwriteHere(s, v) ==
    LET f == fil[s] IN
    /\ stream[s].used /\ f.open /\ f.writes /\ Turn(s, "write") /\ f.at < MaxSize
    /\ \E c \in Room(f) : Write(s, f, c, v)
    /\ expected' = [expected EXCEPT ![f.name].data =
         IF stream[s].append THEN Append(@, v)
         ELSE [i \in 1..fil'[s].size |-> IF i = f.at + 1 THEN v ELSE @[i]]]
    /\ origin' = [origin EXCEPT ![s] = 0] /\ UNCHANGED <<entries, stream, heard>>

\* fwrite: in append mode always at the end; a full volume writes nothing.
Fwrite(s, v) ==
    LET f == IF stream[s].append THEN [fil[s] EXCEPT !.at = fil[s].size] ELSE fil[s] IN
    /\ stream[s].used /\ f.open /\ f.writes /\ Turn(s, "write") /\ f.at < MaxSize
    /\ IF Room(f) = {} THEN fil' = [fil EXCEPT ![s] = f] /\ UNCHANGED <<fat, cells, expected>>
       ELSE /\ \E c \in Room(f) : Write(s, f, c, v)
            /\ expected' = [expected EXCEPT ![f.name].data =
                 [i \in 1..fil'[s].size |-> IF i = f.at + 1 THEN v ELSE @[i]]]
    /\ origin' = [origin EXCEPT ![s] = 0] /\ UNCHANGED <<entries, stream, heard>>

\* fseek, from the start or the end, or from the position if nothing is pushed
\* back: f_tell does not count the pushed-back character.
Fseek(s, to) ==
    /\ stream[s].used /\ fil[s].open /\ to <= fil[s].size
    /\ fil' = [fil EXCEPT ![s].at = to]
    /\ stream' = [stream EXCEPT ![s].eof = FALSE, ![s].pushed = None]
    /\ SetPosition(s, to)
    /\ UNCHANGED <<entries, fat, cells, expected>>

\* remove and rename.
RemoveFile(name) ==
    /\ Present(name) /\ Holders(name) = {} /\ UnlinkFile(name, entries)
    /\ UNCHANGED <<cells, fil, stream, turnVars>>
RenameFile(old, new) ==
    /\ Present(old) /\ ~Present(new) /\ Holders(old) = {}
    /\ entries' = [entries EXCEPT ![new] = entries[old], ![old] = NoEntry]
    /\ expected' = [expected EXCEPT ![new] = expected[old], ![old] = Gone]
    /\ UNCHANGED <<fat, cells, fil, stream, turnVars>>

-----------------------------------------------------------------------------
StdioInit ==
    /\ VolumeInit
    /\ stream = [s \in Streams |-> FreeSlot]
    /\ turn = [s \in Streams |-> "any"] /\ origin = [s \in Streams |-> 0]
    /\ heard = [s \in Streams |-> <<>>]
    /\ expected = [name \in Files |-> Gone]

StdioNext ==
    \/ \E name \in Files, m \in Modes : Fopen(name, m)
    \/ Tmpfile
    \/ \E s \in Streams :
          \/ Fclose(s) \/ FcloseFails(s) \/ Ungetc(s)
          \/ \E m \in Modes : Freopen(s, m)
          \/ \E n \in 1..2 : Fread(s, n)
          \/ \E v \in Values : Fwrite(s, v)
          \/ \E to \in 0..MaxSize : Fseek(s, to)
    \/ \E name \in Files : RemoveFile(name)
    \/ \E old, new \in Files : RenameFile(old, new)

StdioSpec == StdioInit /\ [][StdioNext]_stdioVars

-----------------------------------------------------------------------------
\* Every file holds what was written to it and nothing else, through all modes,
\* reopenings, full volumes and failing calls; a temporary file is gone once it
\* is closed and removed (stdio.c over f_write, f_lseek, f_close and f_unlink).
ContentsKept ==
    \A name \in Files :
        /\ expected[name].there = Present(name)
        /\ Present(name) => Content(View(name)) = expected[name].data

\* What a program reads is the file from where it set the position, in order,
\* pushed-back characters included; EOF is only said at the end (fread, ungetc).
HeardTrue ==
    \A s \in Streams : stream[s].used /\ fil[s].open /\ turn[s] = "read" =>
        LET here == origin[s] + Len(heard[s])
            back == IF stream[s].pushed = None THEN 0 ELSE 1
        IN  /\ fil[s].at = here + back
            /\ heard[s] = SubSeq(Content(fil[s]), origin[s] + 1, here)
            /\ stream[s].eof => here = fil[s].size

\* Streams write and read their files, on clusters that are theirs alone.
StreamsTrue == ChainsSound /\ ContentsKept /\ HeardTrue
=============================================================================
