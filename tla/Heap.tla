-------------------------------- MODULE Heap --------------------------------
(***************************************************************************)
(* malloc, free, realloc and calloc of the kernel's libc: a doubly linked  *)
(* list of blocks in one arena, first fit, split on allocation, merged     *)
(* with a free neighbour on free.  Addresses and sizes are bytes.          *)
(***************************************************************************)
EXTENDS Integers, FiniteSets

CONSTANTS Alignment,  \* HEAP_ALIGNMENT
          Header,     \* HEAP_HEADER_SIZE
          HeapStart,  \* __heap_start, aligned up
          HeapEnd,    \* __heap_end, aligned down
          SizeMax,    \* (size_t)-1
          SearchLimit,\* blocks a search passes before it gives up (65536)
          Requests    \* the sizes clients ask for

ASSUME HeapConstants ==
    /\ Alignment \in Nat \ {0}
    /\ {Header, HeapStart, HeapEnd, SizeMax} \subseteq Nat \ {0}
    /\ Header % Alignment = 0 /\ HeapStart % Alignment = 0
    /\ HeapEnd % Alignment = 0
    /\ HeapStart + Header + Alignment < HeapEnd
    /\ HeapEnd <= SizeMax
    /\ SearchLimit \in Nat
    /\ Requests \subseteq 0..SizeMax

VARIABLES heap,  \* the list: header address -> [size, next, prev, free]
          owned, \* history: live pointer -> bytes its owner asked for
          lost,  \* history: pointers given back whose block was not found
          long   \* history: the list had a block that no search reaches

heapVars == <<heap, owned, lost, long>>

Null == 0
MinSplit == Alignment

Payload(b) == b + Header
BlockEnd(h, b) == Payload(b) + h[b].size

\* heap_align_size; 0 says that the size cannot be rounded up.
AlignSize(n) ==
    LET up == n + (Alignment - 1) IN
    IF n > SizeMax - (Alignment - 1) THEN 0 ELSE up - (up % Alignment)

Wanted(n) == AlignSize(IF n = 0 THEN 1 ELSE n)

-----------------------------------------------------------------------------
(* The list operations. *)

\* Mutant: the block after the split keeps pointing back at the first half.
SplitLeavesPrev(h, b, wanted) ==
    LET left == h[b].size - wanted
        rest == Payload(b) + wanted
    IN  IF h[b].size < wanted \/ left < Header + MinSplit THEN h
        ELSE [a \in DOMAIN h \union {rest} |->
                 IF a = rest
                 THEN [size |-> left - Header, next |-> h[b].next,
                       prev |-> b, free |-> TRUE]
                 ELSE IF a = b THEN [h[b] EXCEPT !.size = wanted, !.next = rest]
                 ELSE h[a]]

\* heap_split_block: cut the block when a block of MinSplit fits in the rest.
Split(h, b, wanted) ==
    LET left == h[b].size - wanted
        rest == Payload(b) + wanted
    IN  IF h[b].size < wanted \/ left < Header + MinSplit THEN h
        ELSE [a \in DOMAIN h \union {rest} |->
                 IF a = rest
                 THEN [size |-> left - Header, next |-> h[b].next,
                       prev |-> b, free |-> TRUE]
                 ELSE IF a = b THEN [h[b] EXCEPT !.size = wanted, !.next = rest]
                 ELSE IF a = h[b].next THEN [h[a] EXCEPT !.prev = rest]
                 ELSE h[a]]

\* heap_merge_with_next: absorb the next block if it is free and adjacent.
MergeWithNext(h, b) ==
    LET n == h[b].next IN
    IF n = Null \/ ~h[n].free \/ BlockEnd(h, b) # n THEN h
    ELSE [a \in DOMAIN h \ {n} |->
             IF a = b THEN [h[b] EXCEPT !.size = @ + Header + h[n].size,
                                        !.next = h[n].next]
             ELSE IF a = h[n].next THEN [h[a] EXCEPT !.prev = b]
             ELSE h[a]]

\* The guard of both searches of the list (guard++ > 65536): the blocks
\* behind the first SearchLimit + 1 are not looked at.
Reached(h, b) == Cardinality({c \in DOMAIN h : c < b}) <= SearchLimit
Overlong(h) == Cardinality(DOMAIN h) > SearchLimit + 1

\* heap_find_free_block: the list is in address order, so the first block
\* that fits is the lowest one.
Fits(h, b, wanted) ==
    b \in DOMAIN h /\ Reached(h, b) /\ h[b].free /\ h[b].size >= wanted
FirstFit(h, b, wanted) ==
    /\ Fits(h, b, wanted)
    /\ \A c \in DOMAIN h : Fits(h, c, wanted) => b <= c

SetFree(h, b, isFree) == [h EXCEPT ![b].free = isFree]

\* malloc once a block is found, and free of a used block.
TakeBlock(h, b, wanted) == SetFree(Split(h, b, wanted), b, FALSE)

Release(h, b) ==
    LET merged == MergeWithNext(SetFree(h, b, TRUE), b)
        p == merged[b].prev
    IN  IF p # Null /\ merged[p].free THEN MergeWithNext(merged, p) ELSE merged

-----------------------------------------------------------------------------
\* heap_find_block_by_payload, and the block is used.
Located(h, p) ==
    /\ p - Header \in DOMAIN h /\ Reached(h, p - Header)
    /\ ~h[p - Header].free

Own(p, n) == [q \in DOMAIN owned \union {p} |-> IF q = p THEN n ELSE owned[q]]
Disown(p) == [q \in DOMAIN owned \ {p} |-> owned[q]]

HeapInit ==
    /\ heap = [b \in {HeapStart} |->
                  [size |-> HeapEnd - HeapStart - Header,
                   next |-> Null, prev |-> Null, free |-> TRUE]]
    /\ owned = [p \in {} |-> 0]
    /\ lost = {}
    /\ long = FALSE

\* malloc(n) that finds a block; a malloc that returns 0 changes nothing.
Malloc(n) ==
    /\ Wanted(n) # 0
    /\ \E b \in DOMAIN heap :
          /\ FirstFit(heap, b, Wanted(n))
          /\ heap' = TakeBlock(heap, b, Wanted(n))
          /\ owned' = Own(Payload(b), n)
    /\ long' = (long \/ Overlong(heap'))
    /\ UNCHANGED lost

\* calloc(count, size) that finds a block.
Calloc(count, size) ==
    /\ count # 0 => size <= SizeMax \div count
    /\ Malloc(count * size)

\* free(p), and realloc(p, 0): a pointer that heads no used block the search
\* reaches, stale, null or too far down the list, is ignored.  Its owner has
\* given it up all the same.
Free(p) ==
    /\ owned' = Disown(p)
    /\ \/ Located(heap, p) /\ heap' = Release(heap, p - Header) /\ lost' = lost \ {p}
       \/ ~Located(heap, p) /\ heap' = heap /\ lost' = lost \union ({p} \cap DOMAIN owned)
    /\ UNCHANGED long

\* realloc's test that the next block is free and makes up the difference.
CanGrow(h, b, wanted) ==
    LET n == h[b].next IN
    n # Null /\ h[n].free /\ h[b].size + Header + h[n].size >= wanted

\* realloc(p, n) that stays in place, with n # 0: the block is found, and it
\* is long enough and is cut, or it absorbs the free block after it and is
\* cut.  A realloc of a block that is not found answers 0 and changes nothing.
ReallocInPlace(p, n) ==
    LET b == p - Header
        wanted == AlignSize(n)
    IN  /\ p \in DOMAIN owned /\ Located(heap, p) /\ n # 0 /\ wanted # 0
        /\ \/ /\ heap[b].size >= wanted
              /\ heap' = Split(heap, b, wanted)
           \/ /\ heap[b].size < wanted
              /\ CanGrow(heap, b, wanted)
              /\ heap' = Split(MergeWithNext(heap, b), b, wanted)
        /\ owned' = Own(p, n)
        /\ long' = (long \/ Overlong(heap'))
        /\ UNCHANGED lost

\* realloc(p, n) that moves: malloc, copy, free.  The block that malloc cut
\* can put the old one out of the reach of free.
ReallocMove(p, n) ==
    LET b == p - Header
        wanted == AlignSize(n)
    IN  /\ p \in DOMAIN owned /\ Located(heap, p) /\ n # 0 /\ wanted # 0
        /\ heap[b].size < wanted
        /\ ~CanGrow(heap, b, wanted)
        /\ \E c \in DOMAIN heap :
              LET taken == TakeBlock(heap, c, wanted) IN
              /\ FirstFit(heap, c, wanted)
              /\ long' = (long \/ Overlong(taken))
              /\ \/ Reached(taken, b) /\ heap' = Release(taken, b) /\ lost' = lost
                 \/ ~Reached(taken, b) /\ heap' = taken /\ lost' = lost \union {p}
              /\ owned' = [q \in (DOMAIN owned \ {p}) \union {Payload(c)} |->
                              IF q = Payload(c) THEN n ELSE owned[q]]

HeapNext ==
    \/ \E n \in Requests : Malloc(n)
    \/ \E count, size \in Requests : Calloc(count, size)
    \/ \E p \in 0..HeapEnd : Free(p)
    \/ \E p \in DOMAIN owned, n \in Requests : ReallocInPlace(p, n)
    \/ \E p \in DOMAIN owned, n \in Requests : ReallocMove(p, n)

HeapSpec == HeapInit /\ [][HeapNext]_heapVars

-----------------------------------------------------------------------------
\* The list covers the arena block after block without gap or overlap, and
\* next and prev are inverse (heap_split_block, heap_merge_with_next).
Tiled ==
    /\ HeapStart \in DOMAIN heap
    /\ \A b \in DOMAIN heap :
          /\ b % Alignment = 0 /\ heap[b].size % Alignment = 0
          /\ heap[b].next = Null => BlockEnd(heap, b) = HeapEnd
          /\ heap[b].next # Null =>
                /\ heap[b].next = BlockEnd(heap, b)
                /\ heap[b].next \in DOMAIN heap
                /\ heap[heap[b].next].prev = b
          /\ (b = HeapStart) = (heap[b].prev = Null)
          /\ heap[b].prev # Null =>
                heap[b].prev \in DOMAIN heap /\ heap[heap[b].prev].next = b
          /\ \A c \in DOMAIN heap : b < c => BlockEnd(heap, b) <= c

\* The used blocks are those of the live pointers, each as long as its owner
\* asked, and those that a free did not find: none is handed out twice, and
\* none is lost as long as the searches reach the whole list.
OwnersHoldBlocks ==
    /\ {Payload(b) : b \in {c \in DOMAIN heap : ~heap[c].free}} = DOMAIN owned \union lost
    /\ DOMAIN owned \cap lost = {}
    /\ ~long => lost = {}
    /\ \A p \in DOMAIN owned : owned[p] <= heap[p - Header].size

\* What malloc, calloc and realloc promise their callers: an aligned range
\* of the size asked for, in the arena, that holds no byte of another live
\* range and no header of the list.
LiveDisjoint ==
    \A p \in DOMAIN owned :
        /\ p % Alignment = 0
        /\ p + owned[p] <= HeapEnd
        /\ \A q \in DOMAIN owned : p < q => p + owned[p] <= q - Header
        /\ \A b \in DOMAIN heap : p < b + Header => p + owned[p] <= b

\* After any sequence of calls the list tiles the arena, no allocation
\* overlaps another or a header, and the list holds exactly what the callers
\* own, unless it grew beyond the blocks that free looks at.
HeapSound == Tiled /\ OwnersHoldBlocks /\ LiveDisjoint
=============================================================================
