------------------------------ MODULE LuaTable ------------------------------
(***************************************************************************)
(* One Lua table (lua/src/ltable.c): an array part, and a hash part that   *)
(* is a chained scatter table in an array of nodes.  A program sets and    *)
(* clears fields, asks for the length, traverses the table with next while *)
(* it updates and clears fields, and the collector marks dead keys.        *)
(* Allocations succeed; one that fails leaves the table as it was.         *)
(***************************************************************************)
EXTENDS Integers, Sequences, FiniteSets, SequencesExt, FiniteSetsExt

CONSTANTS TableKeys,    \* [kind |-> "int" or "str", n |-> the integer or the hash]
          TableValues,
          MaxInteger,   \* LUA_MAXINTEGER
          Seeds,        \* the seeds a state may have
          FirstSizes,   \* array and hash sizes of a new table, <<array, hash>>
          LimForLast    \* LIMFORLAST as a size: smaller hash parts are searched

ASSUME TableConstants ==
    /\ \A k \in TableKeys : k.kind \in {"int", "str"} /\ k.n \in 0..MaxInteger
    /\ MaxInteger \in Nat /\ Seeds \subseteq Nat /\ LimForLast \in Nat

VARIABLES table,    \* [array, hint, node, dummy, lastfree]
          contents, \* history: the value of every key
          walk,     \* a traversal: the key it is at, what it returned, how it ended
          walked    \* history: the keys present ever since it began

tableVars == <<table, contents, walk, walked>>

Empty == "nil"
IntKey(n) == [kind |-> "int", n |-> n]
NilKey == [kind |-> "nil", n |-> 0]
NoNext == -1
FreeNode == [key |-> NilKey, dead |-> FALSE, value |-> Empty, next |-> NoNext]
DummyNode == [FreeNode EXCEPT !.dead = TRUE]

SizeNode(t) == Cardinality(DOMAIN t.node)
ASize(t) == Len(t.array)
InArray(t, k) == k.kind = "int" /\ k.n \in DOMAIN t.array

\* mainpositionTV: strings have a hash to be taken by a power of two.
MainPosition(t, k) ==
    LET size == SizeNode(t) IN
    IF k.kind = "str" THEN k.n % size ELSE k.n % (IF size = 1 THEN 1 ELSE size - 1)

\* getgeneric, getintfromhash, luaH_Hgetshortstr: the node of a key, or NoNext.
EqualKey(k, n, deadOk) == n.key = k /\ (deadOk \/ ~n.dead)
RECURSIVE Along(_, _, _, _)
Along(t, k, i, deadOk) ==
    IF i = NoNext \/ EqualKey(k, t.node[i], deadOk) THEN i
    ELSE Along(t, k, t.node[i].next, deadOk)
NodeOf(t, k, deadOk) == Along(t, k, MainPosition(t, k), deadOk)

Get(t, k) ==
    IF InArray(t, k) THEN t.array[k.n]
    ELSE LET i == NodeOf(t, k, FALSE) IN IF i = NoNext THEN Empty ELSE t.node[i].value

-----------------------------------------------------------------------------
\* getfreepos: a node that was never used, from the end; a large hash part
\* remembers how far the search has come.
FreePos(t) ==
    LET limit == IF SizeNode(t) >= LimForLast THEN t.lastfree ELSE SizeNode(t)
        free == {i \in DOMAIN t.node : i < limit /\ t.node[i].key = NilKey /\ ~t.dummy}
    IN  IF free = {} THEN NoNext ELSE Max(free)

\* insertkey when the main position is taken and f is free: a node that is not
\* in its own main position moves to f, else the new key goes there.
PutCollided(t, mp, f, k, v) ==
    LET taken == [t EXCEPT !.lastfree = f]
        other == MainPosition(t, t.node[mp].key)
        new == [FreeNode EXCEPT !.key = k, !.value = v]
        before == CHOOSE i \in DOMAIN t.node : t.node[i].next = mp
    IN  IF other # mp
        THEN [taken EXCEPT !.node[f] = t.node[mp], !.node[mp] = new,
                           !.node[before].next = f]
        ELSE [taken EXCEPT !.node[f] = [new EXCEPT !.next = t.node[mp].next],
                           !.node[mp].next = f]

\* insertkey: the table with the key, or none if no node is free.
InsertKey(t, k, v) ==
    LET mp == MainPosition(t, k)
        f == FreePos(t)
    IN  IF t.node[mp].value = Empty /\ ~t.dummy
        THEN {[t EXCEPT !.node[mp] = [@ EXCEPT !.key = k, !.dead = FALSE, !.value = v]]}
        ELSE IF f = NoNext THEN {} ELSE {PutCollided(t, mp, f, k, v)}
Inserted(t, k, v) == CHOOSE u \in InsertKey(t, k, v) : TRUE

\* newcheckedkey
NewCheckedKey(t, k, v) ==
    IF InArray(t, k) THEN [t EXCEPT !.array[k.n] = v] ELSE Inserted(t, k, v)

-----------------------------------------------------------------------------
(* Rehash. *)

PowersOfTwo == {1, 2, 4, 8, 16, 32, 64}
\* luaO_ceillog2, as a size
RoundUp(n) == Min({p \in PowersOfTwo : n <= p})
ArrayXHash(na, nh) == na <= nh * 3

\* setnodevector
WithNodes(t, size) ==
    IF size = 0 THEN [t EXCEPT !.node = [i \in {0} |-> DummyNode], !.dummy = TRUE, !.lastfree = 0]
    ELSE [t EXCEPT !.node = [i \in 0..(RoundUp(size) - 1) |-> FreeNode], !.dummy = FALSE,
                   !.lastfree = RoundUp(size)]

\* luaH_resize: the vanishing slice of the array goes to the new hash part, then
\* the old hash part is inserted again.
Resize(t, asize, nhsize) ==
    LET oldSlice == [i \in 1..(IF ASize(t) > asize THEN ASize(t) - asize ELSE 0) |-> asize + i]
        Old(u, n) == IF t.array[n] = Empty THEN u ELSE Inserted(u, IntKey(n), t.array[n])
        new == FoldLeft(Old, WithNodes(t, nhsize), oldSlice)
        sized == [new EXCEPT !.array = [n \in 1..asize |-> IF n <= ASize(t) THEN t.array[n]
                                                           ELSE Empty],
                             !.hint = IF asize = 0 THEN 0 ELSE asize \div 2]
        Again(u, i) == IF t.node[i].value = Empty THEN u
                       ELSE NewCheckedKey(u, t.node[i].key, t.node[i].value)
    IN  FoldLeft(Again, sized, [i \in 1..SizeNode(t) |-> i - 1])

\* computesizes for a set of array indices
OptimalSize(indices) ==
    Max({0} \union {p \in PowersOfTwo :
            /\ ArrayXHash(p, Cardinality(indices))
            /\ \E n \in indices : p \div 2 < n /\ n <= p
            /\ ArrayXHash(p, Cardinality({n \in indices : n <= p}))})

\* rehash, for an extra key
Rehash(t, k) ==
    LET live == {i \in DOMAIN t.node : t.node[i].value # Empty}
        Index(key) == IF key.kind = "int" /\ key.n > 0 THEN {key.n} ELSE {}
        outside == Index(k) \union UNION {Index(t.node[i].key) : i \in live}
        inside == {n \in DOMAIN t.array : t.array[n] # Empty}
        all == outside \union inside
        asize == IF outside = {} THEN ASize(t) ELSE OptimalSize(all)
        counted == IF outside = {} THEN {} ELSE all
        total == 1 + Cardinality(live) + (IF outside = {} THEN 0 ELSE Cardinality(inside))
        hashed == total - Cardinality({n \in counted : n <= asize})
        deleted == live # DOMAIN t.node
    IN  Resize(t, asize, IF deleted THEN hashed + hashed \div 4 ELSE hashed)

\* luaH_newkey
NewKey(t, k, v) ==
    IF v = Empty THEN t
    ELSE IF InsertKey(t, k, v) # {} THEN Inserted(t, k, v)
    ELSE NewCheckedKey(Rehash(t, k), k, v)

\* luaH_set
Stored(t, k, v) ==
    LET i == NodeOf(t, k, FALSE) IN
    IF InArray(t, k) THEN [t EXCEPT !.array[k.n] = v]
    ELSE IF i # NoNext THEN [t EXCEPT !.node[i].value = v] ELSE NewKey(t, k, v)

-----------------------------------------------------------------------------
(* The length. *)

\* A binary search between an index that is present, or 0, and an absent one.
RECURSIVE BinSearch(_, _, _)
BinSearch(absent, i, j) ==
    IF j - i <= 1 THEN i
    ELSE LET m == (i + j) \div 2 IN
         IF m \in absent THEN BinSearch(absent, i, m) ELSE BinSearch(absent, m, j)

HashAbsent(t, n) == LET i == NodeOf(t, IntKey(n), FALSE) IN
    i = NoNext \/ t.node[i].value = Empty

\* hash_search: doubling from a present index to an absent one.
RECURSIVE Doubling(_, _, _, _)
Doubling(t, i, j, seed) ==
    LET absent == {n \in 1..MaxInteger : HashAbsent(t, n)} IN
    IF j \in absent THEN BinSearch(absent, i, j)
    ELSE IF j <= MaxInteger \div 2 - 1 THEN Doubling(t, j, j * 2 + (seed % 2), seed \div 2)
    ELSE IF MaxInteger \in absent THEN BinSearch(absent, j, MaxInteger)
    ELSE MaxInteger
HashSearch(t, seed) ==
    LET i == ASize(t) + 1
        width == IF ASize(t) = 0 THEN 1 ELSE RoundUp(ASize(t))
        incr == (seed % width) + 1
    IN  Doubling(t, i, IF incr <= MaxInteger - i THEN i + incr ELSE i + 1, seed \div width)

\* luaH_getn: the border and the hint that is kept.  Four places beside the old
\* hint are tried before the binary search.
MaxVicinity == 4
GetN(t, seed) ==
    LET asize == ASize(t)
        limit == IF t.hint = 0 THEN 1 ELSE t.hint
        absent == {n \in 1..asize : t.array[n] = Empty}
        below == {n \in 1..(limit - 1) \ absent : n >= limit - MaxVicinity}
        above == {n \in absent : limit < n /\ n <= limit + MaxVicinity}
        border == IF limit \in absent
                  THEN IF below # {} THEN Max(below) ELSE BinSearch(absent, 0, limit)
                  ELSE IF above # {} THEN Min(above) - 1
                  ELSE BinSearch(absent, limit, asize)
        inHash == IF t.dummy \/ HashAbsent(t, asize + 1) THEN asize ELSE HashSearch(t, seed)
    IN  IF asize = 0 THEN [n |-> inHash, hint |-> t.hint]
        ELSE IF limit \in absent \/ above # {} \/ asize \in absent
        THEN [n |-> border, hint |-> border]
        ELSE [n |-> inHash, hint |-> asize]

-----------------------------------------------------------------------------
(* Traversal. *)

\* Mutant: a dead key is not found again.
FindIndexLive(t, k) ==
    IF k = NilKey THEN 0
    ELSE IF InArray(t, k) THEN k.n
    ELSE LET i == NodeOf(t, k, FALSE) IN IF i = NoNext THEN NoNext ELSE i + 1 + ASize(t)

\* findindex: where the traversal goes on after a key; NoNext for an invalid one.
FindIndex(t, k) ==
    IF k = NilKey THEN 0
    ELSE IF InArray(t, k) THEN k.n
    ELSE LET i == NodeOf(t, k, TRUE) IN IF i = NoNext THEN NoNext ELSE i + 1 + ASize(t)

\* What is at an index of a traversal, the array first.
KeyAt(t, i) == IF i < ASize(t) THEN IntKey(i + 1) ELSE t.node[i - ASize(t)].key
ValueAt(t, i) == IF i < ASize(t) THEN t.array[i + 1] ELSE t.node[i - ASize(t)].value

Resting == [on |-> FALSE, at |-> NilKey, seen |-> <<>>, ended |-> "no"]

Walk ==
    /\ ~walk.on
    /\ walk' = [Resting EXCEPT !.on = TRUE]
    /\ walked' = {k \in TableKeys : contents[k] # Empty}
    /\ UNCHANGED <<table, contents>>

\* luaH_next
NextField ==
    /\ walk.on
    /\ LET from == FindIndex(table, walk.at)
           ahead == {i \in from..(ASize(table) + SizeNode(table) - 1) : ValueAt(table, i) # Empty}
           key == KeyAt(table, Min(ahead))
       IN  walk' = IF from = NoNext THEN [walk EXCEPT !.on = FALSE, !.ended = "invalid"]
                   ELSE IF ahead = {} THEN [walk EXCEPT !.on = FALSE, !.ended = "done"]
                   ELSE [walk EXCEPT !.at = key, !.seen = Append(@, key)]
    /\ UNCHANGED <<table, contents, walked>>

\* The traversal is over for the program.
Leave ==
    /\ ~walk.on /\ walk # Resting
    /\ walk' = Resting /\ walked' = {} /\ UNCHANGED <<table, contents>>

-----------------------------------------------------------------------------
\* During a traversal a program may only assign to fields that exist.
Set(k, v) ==
    /\ walk.ended = "no"
    /\ walk.on => contents[k] # Empty
    /\ contents[k] # v
    /\ table' = Stored(table, k, v)
    /\ contents' = [contents EXCEPT ![k] = v]
    /\ walked' = IF v = Empty THEN walked \ {k} ELSE walked
    /\ UNCHANGED walk

\* #t
Length(seed) ==
    /\ walk = Resting
    /\ table' = [table EXCEPT !.hint = GetN(table, seed).hint]
    /\ UNCHANGED <<contents, walk, walked>>

\* A collection that visits the table: keys without a value are dead (clearkey).
CollectKeys ==
    /\ walk.ended = "no"
    /\ table' = [table EXCEPT !.node = [i \in DOMAIN @ |->
         [@[i] EXCEPT !.dead = @ \/ (table.node[i].value = Empty
                                       /\ table.node[i].key.kind = "str")]]]
    /\ UNCHANGED <<contents, walk, walked>>

\* luaH_new and the sizes of a constructor
TableStarts(size) ==
    /\ table = [WithNodes([array |-> [n \in 1..size[1] |-> Empty], hint |-> size[1] \div 2,
                           node |-> <<>>, dummy |-> TRUE, lastfree |-> 0], size[2])
                EXCEPT !.array = [n \in 1..size[1] |-> Empty]]
    /\ contents = [k \in TableKeys |-> Empty]
    /\ walk = Resting /\ walked = {}
TableRests == TableStarts(<<0, 0>>)
TableInit == \E size \in FirstSizes : TableStarts(size)

TableNext ==
    \/ \E k \in TableKeys, v \in TableValues \union {Empty} : Set(k, v)
    \/ \E seed \in Seeds : Length(seed)
    \/ Walk \/ NextField \/ Leave \/ CollectKeys

TableSpec == TableInit /\ [][TableNext]_tableVars
-----------------------------------------------------------------------------
\* After any sequence of assignments, moves between the two parts and dead keys,
\* every key has the value it was given last, and #t is a border whatever the
\* seed: t[#t] is there, or #t is 0, and t[#t + 1] is not (ltable.c).
TableTrue ==
    /\ \A k \in TableKeys : Get(table, k) = contents[k]
    /\ \A seed \in Seeds :
         LET n == GetN(table, seed).n
             There(i) == Get(table, IntKey(i)) # Empty
         IN  (n = 0 \/ There(n)) /\ (n = MaxInteger \/ ~There(n + 1))

\* A traversal in which fields are updated and cleared, and their keys die,
\* returns every field that stays exactly once, and never fails (luaH_next).
TraversalTrue ==
    /\ IsInjective(walk.seen)
    /\ walk.ended # "invalid"
    /\ walk.ended = "done" => walked \subseteq ToSet(walk.seen)
=============================================================================
