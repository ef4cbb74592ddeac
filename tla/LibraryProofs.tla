---------------------------- MODULE LibraryProofs -----------------------------
(***************************************************************************)
(* For every value of the constants: the kernel heap never gives two       *)
(* owners the same bytes and never loses the tiling of its arena, and the  *)
(* table of shared buffers implements a map.                               *)
(***************************************************************************)
EXTENDS Heap, SharedBuffer, Integers, FunctionTheorems, FiniteSetTheorems, TLAPS

\* What heap_align_size rounds to.
Aligned(x) == x % Alignment = 0

\* Division with remainder, for any positive divisor.
LEMMA Remainder ==
    ASSUME NEW m \in Nat \ {0}, NEW x \in Int
    PROVE  /\ x = m * (x \div m) + (x % m)
           /\ x % m \in 0..(m - 1) /\ x \div m \in Int
           /\ (m * x) % m = 0
OBVIOUS

\* A multiple is its quotient times the divisor.
LEMMA Quotient ==
    ASSUME NEW m \in Nat \ {0}, NEW x \in Int, x % m = 0
    PROVE  x \div m \in Int /\ x = m * (x \div m)
OBVIOUS

\* Multiples of the alignment are closed under sum and difference.
LEMMA AlignedSum ==
    ASSUME NEW x \in Int, NEW y \in Int, Aligned(x), Aligned(y)
    PROVE  Aligned(x + y) /\ Aligned(x - y)
<1> DEFINE k == x \div Alignment
           l == y \div Alignment
<1>1. k \in Int /\ l \in Int /\ x = Alignment * k /\ y = Alignment * l
  BY Quotient, HeapConstants DEF Aligned
<1>2. x + y = Alignment * (k + l) /\ x - y = Alignment * (k - l)
  <2> HIDE DEF k, l
  <2> QED BY <1>1, HeapConstants
<1>3. k + l \in Int /\ k - l \in Int
  <2> HIDE DEF k, l
  <2> QED BY <1>1
<1>4. (Alignment * (k + l)) % Alignment = 0 /\ (Alignment * (k - l)) % Alignment = 0
  <2> HIDE DEF k, l
  <2> QED BY <1>3, Remainder, HeapConstants
<1> HIDE DEF k, l
<1> QED BY <1>2, <1>4 DEF Aligned

\* heap_align_size gives a multiple that is not smaller, unless it overflows.
LEMMA AlignSizeAligned ==
    ASSUME NEW n \in Nat, AlignSize(n) # 0
    PROVE  AlignSize(n) \in Nat /\ AlignSize(n) >= n /\ Aligned(AlignSize(n))
<1> DEFINE up == n + (Alignment - 1)
<1>1. up \in Int /\ AlignSize(n) = up - (up % Alignment)
  BY HeapConstants DEF AlignSize
<1>2. /\ up = Alignment * (up \div Alignment) + (up % Alignment)
      /\ up % Alignment \in 0..(Alignment - 1) /\ up \div Alignment \in Int
  <2> HIDE DEF up
  <2> QED BY <1>1, Remainder, HeapConstants
<1>3. AlignSize(n) = Alignment * (up \div Alignment)
  <2> DEFINE q == up \div Alignment
             r == up % Alignment
             aq == Alignment * q
  <2>1. aq \in Int
    <3> HIDE DEF q
    <3> QED BY <1>2, HeapConstants DEF q
  <2> HIDE DEF aq, q, r, up
  <2>2. up = aq + r /\ r \in Int
    BY <1>2, HeapConstants DEF aq, q, r
  <2>3. AlignSize(n) = up - r
    BY <1>1 DEF r
  <2>4. AlignSize(n) = aq
    BY <1>1, <2>1, <2>2, <2>3
  <2> QED BY <2>4 DEF aq, q
<1>4. Aligned(AlignSize(n))
  <2> HIDE DEF up
  <2> QED BY <1>2, <1>3, Remainder, HeapConstants DEF Aligned
<1>5. AlignSize(n) \in Nat /\ AlignSize(n) >= n
  <2> DEFINE r == up % Alignment
  <2>1. r \in 0..(Alignment - 1) /\ AlignSize(n) = up - r
    BY <1>1, <1>2
  <2> HIDE DEF r
  <2> QED BY <2>1, HeapConstants
<1> QED BY <1>4, <1>5

\* heap_block_t.
Blocks == [size : Nat, next : Nat, prev : Nat, free : BOOLEAN]

\* What is true of one block: it lies in the arena, its size is a multiple, it
\* touches the next one or the end of the arena, it is linked both ways, and
\* no later block begins before its end.
TileAt(h, b) ==
    /\ HeapStart <= b /\ BlockEnd(h, b) <= HeapEnd
    /\ Aligned(b) /\ Aligned(h[b].size)
    /\ h[b].next = Null => BlockEnd(h, b) = HeapEnd
    /\ h[b].next # Null =>
          /\ h[b].next = BlockEnd(h, b)
          /\ h[b].next \in DOMAIN h
          /\ h[h[b].next].prev = b
    /\ b = HeapStart <=> h[b].prev = Null
    /\ h[b].prev # Null =>
          h[b].prev \in DOMAIN h /\ h[h[b].prev].next = b
    /\ \A c \in DOMAIN h : b < c => BlockEnd(h, b) <= c

\* The list of blocks tiles the arena from its first byte to its last.
List(h) ==
    /\ h \in [DOMAIN h -> Blocks]
    /\ DOMAIN h \subseteq Nat
    /\ HeapStart \in DOMAIN h
    /\ \A b \in DOMAIN h : TileAt(h, b)

\* The fields of a block and their types.
LEMMA BlockFields ==
    ASSUME NEW k \in Blocks
    PROVE  k.size \in Nat /\ k.next \in Nat /\ k.prev \in Nat /\ k.free \in BOOLEAN
BY DEF Blocks

\* What an assignment to the prev field of a block leaves of the others.
LEMMA SetPrev ==
    ASSUME NEW k \in Blocks, NEW v \in Nat,
           NEW x, x = [k EXCEPT !.prev = v]
    PROVE  /\ x \in Blocks
           /\ x.size = k.size /\ x.next = k.next /\ x.prev = v /\ x.free = k.free
BY DEF Blocks

\* Cutting a block in two keeps the tiling: the part that is left is a free
\* block, and no other block changes its size or its owner.
LEMMA SplitKeepsList ==
    ASSUME NEW h, List(h), NEW b \in DOMAIN h, NEW wanted \in Nat,
           wanted # 0, Aligned(wanted), h[b].size >= wanted + Header + MinSplit,
           NEW s, s = Split(h, b, wanted)
    PROVE  /\ List(s)
           /\ DOMAIN h \subseteq DOMAIN s
           /\ \A a \in DOMAIN h : s[a].free = h[a].free
           /\ \A a \in DOMAIN s \ DOMAIN h : s[a].free
           /\ \A a \in DOMAIN h : a # b => s[a].size = h[a].size
           /\ s[b].size = wanted
<1> DEFINE left == h[b].size - wanted - Header
           rest == b + Header + wanted
           n == h[b].next
<1>1. /\ \A a \in DOMAIN h : a \in Nat /\ h[a] \in Blocks
      /\ \A a \in DOMAIN h : /\ h[a].size \in Nat /\ h[a].next \in Nat
                             /\ h[a].prev \in Nat /\ h[a].free \in BOOLEAN
      /\ \A a \in DOMAIN h : TileAt(h, a)
      /\ Header \in Nat /\ Header # 0 /\ HeapStart \in Nat /\ HeapStart # 0
      /\ Alignment \in Nat /\ Alignment # 0 /\ HeapEnd \in Nat
      /\ Aligned(Header)
  BY HeapConstants, BlockFields DEF List, Aligned
<1>2. /\ rest \in Nat /\ left \in Nat /\ left # 0 /\ b < rest
      /\ rest + Header + left = BlockEnd(h, b) /\ rest < BlockEnd(h, b)
      /\ BlockEnd(h, b) = b + Header + h[b].size
  BY <1>1 DEF Payload, BlockEnd, MinSplit
<1>3. rest \notin DOMAIN h
  BY <1>1, <1>2 DEF TileAt, BlockEnd, Payload
<1>4. n \in Nat /\ n # b /\ n # rest /\ (n # Null => n \in DOMAIN h /\ n = BlockEnd(h, b))
  BY <1>1, <1>2, <1>3 DEF TileAt, Null
<1>5. b # 0 /\ rest # 0 /\ \A a \in DOMAIN h : a # Null
  BY <1>1, <1>2 DEF TileAt, Null
<1> HIDE DEF left, rest, n
<1>6. /\ DOMAIN s = DOMAIN h \union {rest}
      /\ s = [a \in DOMAIN h \union {rest} |-> s[a]]
      /\ s[rest] = [size |-> left, next |-> n, prev |-> b, free |-> TRUE]
      /\ s[b] = [h[b] EXCEPT !.size = wanted, !.next = rest]
      /\ n # Null => s[n] = [h[n] EXCEPT !.prev = rest]
      /\ \A a \in DOMAIN h : a # b /\ a # n => s[a] = h[a]
  <2>1. s = [a \in DOMAIN h \union {rest} |->
                 IF a = rest
                 THEN [size |-> left, next |-> n, prev |-> b, free |-> TRUE]
                 ELSE IF a = b THEN [h[b] EXCEPT !.size = wanted, !.next = rest]
                 ELSE IF a = n THEN [h[a] EXCEPT !.prev = rest]
                 ELSE h[a]]
    BY <1>1 DEF Split, left, rest, n, Payload, MinSplit
  <2> QED BY <2>1, <1>1, <1>2, <1>3, <1>4
<1>7. /\ s[rest].size = left /\ s[rest].next = n /\ s[rest].prev = b /\ s[rest].free
      /\ s[b].size = wanted /\ s[b].next = rest /\ s[b].prev = h[b].prev
      /\ s[b].free = h[b].free
      /\ s[b] \in Blocks /\ s[rest] \in Blocks
  <2>1. s[rest] \in Blocks
    <3>1. [size |-> left, next |-> n, prev |-> b, free |-> TRUE] \in Blocks
      BY <1>1, <1>2, <1>4 DEF Blocks
    <3> QED BY <3>1, <1>6
  <2>2. /\ s[b] \in Blocks /\ s[b].size = wanted /\ s[b].next = rest
        /\ s[b].prev = h[b].prev /\ s[b].free = h[b].free
    <3>1. h[b] \in Blocks /\ s[b] = [h[b] EXCEPT !.size = wanted, !.next = rest]
      BY <1>1, <1>6
    <3>2. rest \in Nat
      BY <1>2
    <3> QED BY <3>1, <3>2 DEF Blocks
  <2> QED BY <1>6, <2>1, <2>2
<1>8. n # Null => /\ s[n].size = h[n].size /\ s[n].next = h[n].next
                  /\ s[n].prev = rest /\ s[n].free = h[n].free /\ s[n] \in Blocks
  <2> SUFFICES ASSUME n # Null
               PROVE  /\ s[n].size = h[n].size /\ s[n].next = h[n].next
                      /\ s[n].prev = rest /\ s[n].free = h[n].free /\ s[n] \in Blocks
    OBVIOUS
  <2>1. n \in DOMAIN h /\ h[n] \in Blocks /\ s[n] = [h[n] EXCEPT !.prev = rest]
    BY <1>1, <1>4, <1>6
  <2> QED BY <1>2, <2>1, SetPrev
<1>9. Aligned(rest) /\ Aligned(left)
  <2>1. Aligned(b) /\ Aligned(h[b].size) /\ b \in Int /\ h[b].size \in Int /\ Header \in Int
    BY <1>1 DEF TileAt
  <2>2. Aligned(b + Header) /\ Aligned(h[b].size - wanted)
    <3>1. Aligned(Header) /\ Aligned(wanted) /\ wanted \in Int
      BY <1>1
    <3>2. Aligned(b + Header)
      BY ONLY <2>1, <3>1, AlignedSum
    <3>3. Aligned(h[b].size - wanted)
      BY ONLY <2>1, <3>1, AlignedSum
    <3> QED BY <3>2, <3>3
  <2>3. b + Header \in Int /\ h[b].size - wanted \in Int
    BY <2>1
  <2>4. Aligned((b + Header) + wanted)
    BY <2>2, <2>3, AlignedSum
  <2>5. Aligned((h[b].size - wanted) - Header)
    BY <1>1, <2>1, <2>2, <2>3, AlignedSum
  <2> QED BY <2>4, <2>5 DEF rest, left
<1>10. TileAt(s, rest)
  <2>1. BlockEnd(s, rest) = BlockEnd(h, b)
    BY <1>2, <1>7 DEF BlockEnd, Payload
  <2>2. h[b].next = n
    BY DEF n
  <2>3. TileAt(h, b)
    BY <1>1
  <2>4. s[s[rest].prev].next = rest
    BY <1>7
  <2>5. n # Null => s[n].prev = rest
    BY <1>8
  <2>6. \A c \in DOMAIN s : rest < c => BlockEnd(h, b) <= c
    BY <1>1, <1>2, <1>6, <2>3 DEF TileAt
  <2>7. HeapStart <= rest /\ rest # HeapStart
    BY <1>1, <1>2, <2>3 DEF TileAt
  <2> QED BY <1>5, <1>6, <1>7, <1>9, <2>1, <2>2, <2>3, <2>4, <2>5, <2>6, <2>7 DEF TileAt, Null
<1>11. TileAt(s, b)
  <2>1. BlockEnd(s, b) = rest /\ rest <= HeapEnd
    BY <1>1, <1>2, <1>7 DEF BlockEnd, Payload, TileAt, rest
  <2>2. TileAt(h, b)
    BY <1>1
  <2>3. h[b].prev # Null => h[b].prev # b /\ h[b].prev \in DOMAIN h
    BY <1>1, <1>4, <2>2 DEF TileAt, n
  <2>4. h[b].prev # Null => s[h[b].prev].next = b
    BY <1>1, <1>4, <1>6, <1>8, <2>2, <2>3 DEF TileAt
  <2>6. \A c \in DOMAIN s : b < c => rest <= c
    BY <1>1, <1>2, <1>6, <2>2 DEF TileAt
  <2> QED BY <1>5, <1>6, <1>7, <1>9, <2>1, <2>2, <2>3, <2>4, <2>6 DEF TileAt, Null
<1>12. ASSUME NEW a \in DOMAIN h, a # b
       PROVE  TileAt(s, a)
  <2>1. TileAt(h, a) /\ TileAt(h, b) /\ a \in Nat
    BY <1>1
  <2>2. /\ s[a].size = h[a].size /\ s[a].next = h[a].next /\ BlockEnd(s, a) = BlockEnd(h, a)
        /\ a # n => s[a].prev = h[a].prev
        /\ a = n => s[a].prev = rest /\ h[a].prev = b
    <3>1. CASE a = n
      BY <3>1, <1>5, <1>8, <2>1, <1>12 DEF BlockEnd, Payload, TileAt, n
    <3>2. CASE a # n
      BY <3>2, <1>6, <1>12 DEF BlockEnd, Payload
    <3> QED BY <3>1, <3>2
  <2>3. h[a].next # Null => h[a].next # n /\ h[a].next \in DOMAIN s /\ s[h[a].next].prev = a
    <3> SUFFICES ASSUME h[a].next # Null
                 PROVE  h[a].next # n /\ h[a].next \in DOMAIN s /\ s[h[a].next].prev = a
      OBVIOUS
    <3>1. h[a].next \in DOMAIN h /\ h[h[a].next].prev = a
      BY <2>1 DEF TileAt
    <3>2. h[a].next # n
      BY <2>1, <3>1, <1>12, <1>4 DEF TileAt, n
    <3> QED BY <3>1, <3>2, <1>6, <1>7
  <2>4. a # n /\ h[a].prev # Null => s[h[a].prev].next = a /\ h[a].prev \in DOMAIN s
    <3> SUFFICES ASSUME a # n, h[a].prev # Null
                 PROVE  s[h[a].prev].next = a /\ h[a].prev \in DOMAIN s
      OBVIOUS
    <3>1. h[a].prev \in DOMAIN h /\ h[h[a].prev].next = a
      BY <2>1 DEF TileAt
    <3>2. h[a].prev # b
      BY <3>1 DEF n
    <3> QED BY <3>1, <3>2, <1>4, <1>6, <1>8
  <2>5. a = n => s[s[a].prev].next = a /\ s[a].prev \in DOMAIN s /\ a # HeapStart
    BY <1>6, <1>7, <1>8, <2>1, <2>2, <1>5 DEF TileAt, Null
  <2>6. \A c \in DOMAIN s : a < c => BlockEnd(h, a) <= c
    <3>1. a < rest => BlockEnd(h, a) <= rest
      <4>1. a < rest => a < b
        BY <1>1, <1>2, <1>12, <2>1 DEF TileAt, BlockEnd, Payload
      <4> QED BY <4>1, <1>1, <1>2, <2>1 DEF TileAt, BlockEnd, Payload
    <3> QED BY <3>1, <1>6, <2>1 DEF TileAt
  <2> QED BY <1>5, <1>6, <2>1, <2>2, <2>3, <2>4, <2>5, <2>6 DEF TileAt, Null
<1>13. List(s)
  <2>1. ASSUME NEW a \in DOMAIN s PROVE s[a] \in Blocks
    <3>1. CASE a = rest \/ a = b
      BY <3>1, <1>7
    <3>2. CASE a # rest /\ a # b /\ a = n
      BY <3>2, <1>5, <1>6, <1>8
    <3>3. CASE a # rest /\ a # b /\ a # n
      BY <3>3, <1>1, <1>6
    <3> QED BY <3>1, <3>2, <3>3
  <2>2. s \in [DOMAIN s -> Blocks]
    BY <1>6, <2>1
  <2> QED BY <1>1, <1>2, <1>6, <1>10, <1>11, <1>12, <2>2 DEF List
<1>14. ASSUME NEW a \in DOMAIN h
       PROVE  s[a].free = h[a].free /\ (a # b => s[a].size = h[a].size)
  <2>1. CASE a = b
    BY <2>1, <1>7
  <2>2. CASE a # b /\ a = n
    BY <2>2, <1>5, <1>8
  <2>3. CASE a # b /\ a # n
    BY <2>3, <1>6
  <2> QED BY <2>1, <2>2, <2>3
<1> QED BY <1>13, <1>14, <1>6, <1>7

\* Absorbing the next block keeps the tiling: exactly that block is gone.
LEMMA MergeKeepsList ==
    ASSUME NEW h, List(h), NEW b \in DOMAIN h, h[b].next # Null, h[h[b].next].free,
           NEW m, m = MergeWithNext(h, b)
    PROVE  /\ List(m)
           /\ DOMAIN m = DOMAIN h \ {h[b].next}
           /\ \A a \in DOMAIN m : m[a].free = h[a].free
           /\ \A a \in DOMAIN m : a # b => m[a].size = h[a].size
           /\ m[b].size = h[b].size + Header + h[h[b].next].size
           /\ m[b].prev = h[b].prev
<1> DEFINE n == h[b].next
           nn == h[n].next
           grown == h[b].size + Header + h[n].size
<1>1. /\ \A a \in DOMAIN h : a \in Nat /\ h[a] \in Blocks
      /\ \A a \in DOMAIN h : /\ h[a].size \in Nat /\ h[a].next \in Nat
                             /\ h[a].prev \in Nat /\ h[a].free \in BOOLEAN
      /\ \A a \in DOMAIN h : TileAt(h, a)
      /\ Header \in Nat /\ Header # 0 /\ HeapStart \in Nat /\ HeapStart # 0
      /\ Alignment \in Nat /\ Alignment # 0 /\ HeapEnd \in Nat
      /\ Aligned(Header)
  BY HeapConstants, BlockFields DEF List, Aligned
<1>2. \A a \in DOMAIN h : a # Null
  BY <1>1 DEF TileAt, Null
<1>3. /\ n \in DOMAIN h /\ n = b + Header + h[b].size /\ h[n].prev = b /\ n # b
      /\ BlockEnd(h, b) = n /\ n # HeapStart
  BY <1>1, <1>2 DEF TileAt, BlockEnd, Payload
<1>4. nn # Null => nn \in DOMAIN h /\ nn = n + Header + h[n].size /\ h[nn].prev = n
  BY <1>1, <1>3 DEF TileAt, BlockEnd, Payload
<1>5. nn \in Nat /\ nn # n /\ nn # b
  BY <1>1, <1>2, <1>3, <1>4 DEF Null
<1>6. grown \in Nat /\ b + Header + grown = BlockEnd(h, n)
  BY <1>1, <1>3 DEF BlockEnd, Payload
<1>7. Aligned(grown)
  <2>1. Aligned(h[b].size) /\ Aligned(h[n].size)
    BY <1>1, <1>3 DEF TileAt
  <2>2. Aligned(h[b].size + Header) /\ h[b].size + Header \in Int
    BY <2>1, <1>1, AlignedSum
  <2>3. h[n].size \in Int /\ Aligned(h[n].size)
    BY <1>1, <1>3, <2>1
  <2>4. Aligned((h[b].size + Header) + h[n].size)
    BY <2>2, <2>3, AlignedSum
  <2> QED BY <2>4
<1> HIDE DEF n, nn, grown
<1>8. /\ DOMAIN m = DOMAIN h \ {n}
      /\ m = [a \in DOMAIN h \ {n} |-> m[a]]
      /\ m[b] = [h[b] EXCEPT !.size = grown, !.next = nn]
      /\ nn # Null => m[nn] = [h[nn] EXCEPT !.prev = b]
      /\ \A a \in DOMAIN h : a # b /\ a # n /\ a # nn => m[a] = h[a]
  <2>1. m = [a \in DOMAIN h \ {n} |->
             IF a = b THEN [h[b] EXCEPT !.size = @ + Header + h[n].size, !.next = nn]
             ELSE IF a = nn THEN [h[a] EXCEPT !.prev = b]
             ELSE h[a]]
    BY <1>3 DEF MergeWithNext, n, nn
  <2>2. m[b] = [h[b] EXCEPT !.size = h[b].size + Header + h[n].size, !.next = nn]
    BY <1>1, <1>3, <2>1 DEF Blocks
  <2> QED BY <2>1, <2>2, <1>3, <1>4, <1>5 DEF grown
<1>9. /\ m[b].size = grown /\ m[b].next = nn /\ m[b].prev = h[b].prev
      /\ m[b].free = h[b].free /\ m[b] \in Blocks
  <2>1. h[b] \in Blocks /\ m[b] = [h[b] EXCEPT !.size = grown, !.next = nn]
    BY <1>1, <1>8
  <2>2. grown \in Nat /\ nn \in Nat
    BY <1>5, <1>6
  <2> QED BY <2>1, <2>2 DEF Blocks
<1>10. nn # Null => /\ m[nn].size = h[nn].size /\ m[nn].next = h[nn].next
                    /\ m[nn].prev = b /\ m[nn].free = h[nn].free /\ m[nn] \in Blocks
  <2> SUFFICES ASSUME nn # Null
               PROVE  /\ m[nn].size = h[nn].size /\ m[nn].next = h[nn].next
                      /\ m[nn].prev = b /\ m[nn].free = h[nn].free /\ m[nn] \in Blocks
    OBVIOUS
  <2>1. h[nn] \in Blocks /\ m[nn] = [h[nn] EXCEPT !.prev = b] /\ b \in Nat
    BY <1>1, <1>4, <1>8
  <2> QED BY <2>1, SetPrev
<1>11. TileAt(m, b)
  <2>1. BlockEnd(m, b) = BlockEnd(h, n)
    BY <1>6, <1>9 DEF BlockEnd, Payload
  <2>2. TileAt(h, b) /\ TileAt(h, n)
    BY <1>1, <1>3
  <2>3. h[b].prev # Null => h[b].prev \in DOMAIN m /\ h[b].prev # b
    <3>1. h[b].prev # Null => h[b].prev \in DOMAIN h /\ h[h[b].prev].next = b
      BY <2>2 DEF TileAt
    <3>2. h[b].prev # Null => h[b].prev # n /\ h[b].prev # b
      BY <3>1, <1>3, <1>5 DEF n, nn
    <3> QED BY <3>1, <3>2, <1>8
  <2>4. h[b].prev # Null => m[h[b].prev].next = b
    <3>1. h[b].prev # Null => h[b].prev \in DOMAIN h /\ h[h[b].prev].next = b /\ h[b].prev # n
      BY <2>2, <2>3, <1>8 DEF TileAt
    <3> QED BY <3>1, <2>3, <1>8, <1>10
  <2>5. ASSUME NEW c \in DOMAIN m, b < c
        PROVE  BlockEnd(h, n) <= c
    <3>1. c \in DOMAIN h /\ c # n
      BY <1>8
    <3>2. n <= c
      BY <3>1, <2>5, <2>2, <1>3 DEF TileAt
    <3>3. n < c
      BY <1>1, <1>3, <3>1, <3>2
    <3> QED BY <3>1, <3>3, <2>2 DEF TileAt
  <2>6. nn # Null => nn = BlockEnd(h, n) /\ nn \in DOMAIN m /\ m[nn].prev = b
    BY <1>4, <1>5, <1>8, <1>10 DEF BlockEnd, Payload
  <2>7. nn = Null => BlockEnd(h, n) = HeapEnd
    BY <2>2 DEF TileAt, nn
  <2> QED BY <1>7, <1>8, <1>9, <2>1, <2>2, <2>3, <2>4, <2>5, <2>6, <2>7 DEF TileAt
<1>12. ASSUME NEW a \in DOMAIN h, a # b, a # n
       PROVE  TileAt(m, a)
  <2>1. TileAt(h, a) /\ TileAt(h, b) /\ TileAt(h, n) /\ a \in Nat
    BY <1>1, <1>3
  <2>2. /\ m[a].size = h[a].size /\ m[a].next = h[a].next /\ BlockEnd(m, a) = BlockEnd(h, a)
        /\ a # nn => m[a].prev = h[a].prev
        /\ a = nn => m[a].prev = b /\ h[a].prev = n
    <3>1. CASE a = nn
      BY <3>1, <1>2, <1>4, <1>10 DEF BlockEnd, Payload
    <3>2. CASE a # nn
      BY <3>2, <1>8, <1>12 DEF BlockEnd, Payload
    <3> QED BY <3>1, <3>2
  <2>3. h[a].next # Null => h[a].next \in DOMAIN m /\ m[h[a].next].prev = a
    <3> SUFFICES ASSUME h[a].next # Null
                 PROVE  h[a].next \in DOMAIN m /\ m[h[a].next].prev = a
      OBVIOUS
    <3>1. h[a].next \in DOMAIN h /\ h[h[a].next].prev = a
      BY <2>1 DEF TileAt
    <3>2. h[a].next # n /\ h[a].next # nn
      BY <3>1, <1>3, <1>4, <1>12
    <3> QED BY <3>1, <3>2, <1>8, <1>9
  <2>4. a # nn /\ h[a].prev # Null => m[h[a].prev].next = a /\ h[a].prev \in DOMAIN m
    <3> SUFFICES ASSUME a # nn, h[a].prev # Null
                 PROVE  m[h[a].prev].next = a /\ h[a].prev \in DOMAIN m
      OBVIOUS
    <3>1. h[a].prev \in DOMAIN h /\ h[h[a].prev].next = a
      BY <2>1 DEF TileAt
    <3>2. h[a].prev # b /\ h[a].prev # n
      BY <3>1, <1>12 DEF n, nn
    <3> QED BY <3>1, <3>2, <1>8, <1>10
  <2>5. a = nn => m[m[a].prev].next = a /\ m[a].prev \in DOMAIN m /\ a # HeapStart /\ m[a].prev # Null
    BY <1>2, <1>3, <1>8, <1>9, <2>1, <2>2 DEF TileAt
  <2>6. \A c \in DOMAIN m : a < c => BlockEnd(h, a) <= c
    BY <1>8, <2>1 DEF TileAt
  <2> QED BY <1>8, <2>1, <2>2, <2>3, <2>4, <2>5, <2>6 DEF TileAt
<1>13. ASSUME NEW a \in DOMAIN m
       PROVE  m[a] \in Blocks /\ m[a].free = h[a].free /\ (a # b => m[a].size = h[a].size)
  <2>1. CASE a = b
    BY <2>1, <1>9
  <2>2. CASE a # b /\ a = nn
    BY <2>2, <1>2, <1>8, <1>10
  <2>3. CASE a # b /\ a # nn
    BY <2>3, <1>1, <1>8
  <2> QED BY <2>1, <2>2, <2>3
<1>14. List(m)
  <2>1. m \in [DOMAIN m -> Blocks]
    BY <1>8, <1>13
  <2> QED BY <1>1, <1>3, <1>8, <1>11, <1>12, <2>1 DEF List
<1> QED BY <1>8, <1>9, <1>13, <1>14 DEF n, grown

\* The tiling does not depend on which blocks are free.
LEMMA MarkKeepsList ==
    ASSUME NEW h, List(h), NEW m, m \in [DOMAIN h -> Blocks],
           \A a \in DOMAIN h : /\ m[a].size = h[a].size
                               /\ m[a].next = h[a].next /\ m[a].prev = h[a].prev
    PROVE  List(m)
<1>1. ASSUME NEW a \in DOMAIN h
      PROVE  TileAt(m, a)
  <2>1. TileAt(h, a)
    BY DEF List
  <2>2. h[a].next # Null => h[a].next \in DOMAIN h
    BY <2>1 DEF TileAt
  <2>3. h[a].prev # Null => h[a].prev \in DOMAIN h
    BY <2>1 DEF TileAt
  <2> QED BY <2>1, <2>2, <2>3 DEF TileAt, BlockEnd, Payload
<1> QED BY <1>1 DEF List

\* Marking a block used.
LEMMA UseKeeps ==
    ASSUME NEW h, List(h), NEW b \in DOMAIN h
    PROVE  LET m == SetFree(h, b, FALSE) IN
           /\ List(m) /\ DOMAIN m = DOMAIN h /\ ~m[b].free
           /\ \A a \in DOMAIN h : m[a].size = h[a].size /\ (a # b => m[a].free = h[a].free)
<1> DEFINE m == SetFree(h, b, FALSE)
<1>1. /\ DOMAIN m = DOMAIN h /\ m = [a \in DOMAIN m |-> m[a]]
      /\ m[b] = [h[b] EXCEPT !.free = FALSE]
      /\ \A a \in DOMAIN h : a # b => m[a] = h[a]
  BY DEF SetFree, List
<1>2. h[b] \in Blocks /\ \A a \in DOMAIN h : h[a] \in Blocks
  BY DEF List
<1> HIDE DEF m
<1>3. /\ m[b] \in Blocks /\ m[b].size = h[b].size /\ m[b].next = h[b].next
      /\ m[b].prev = h[b].prev /\ ~m[b].free
  BY <1>1, <1>2 DEF Blocks
<1>4. m \in [DOMAIN h -> Blocks]
  BY <1>1, <1>2, <1>3
<1>5. \A a \in DOMAIN h : /\ m[a].size = h[a].size
                          /\ m[a].next = h[a].next /\ m[a].prev = h[a].prev
                          /\ a # b => m[a].free = h[a].free
  BY <1>1, <1>3
<1>6. List(m)
  BY <1>4, <1>5, MarkKeepsList
<1> QED BY <1>1, <1>3, <1>5, <1>6 DEF m

\* Marking a block free.
LEMMA FreeKeeps ==
    ASSUME NEW h, List(h), NEW b \in DOMAIN h
    PROVE  LET m == SetFree(h, b, TRUE) IN
           /\ List(m) /\ DOMAIN m = DOMAIN h /\ m[b].free
           /\ \A a \in DOMAIN h : m[a].size = h[a].size /\ (a # b => m[a].free = h[a].free)
<1> DEFINE m == SetFree(h, b, TRUE)
<1>1. /\ DOMAIN m = DOMAIN h /\ m = [a \in DOMAIN m |-> m[a]]
      /\ m[b] = [h[b] EXCEPT !.free = TRUE]
      /\ \A a \in DOMAIN h : a # b => m[a] = h[a]
  BY DEF SetFree, List
<1>2. h[b] \in Blocks /\ \A a \in DOMAIN h : h[a] \in Blocks
  BY DEF List
<1> HIDE DEF m
<1>3. /\ m[b] \in Blocks /\ m[b].size = h[b].size /\ m[b].next = h[b].next
      /\ m[b].prev = h[b].prev /\ m[b].free
  BY <1>1, <1>2 DEF Blocks
<1>4. m \in [DOMAIN h -> Blocks]
  BY <1>1, <1>2, <1>3
<1>5. \A a \in DOMAIN h : /\ m[a].size = h[a].size
                          /\ m[a].next = h[a].next /\ m[a].prev = h[a].prev
                          /\ a # b => m[a].free = h[a].free
  BY <1>1, <1>3
<1>6. List(m)
  BY <1>4, <1>5, MarkKeepsList
<1> QED BY <1>1, <1>3, <1>5, <1>6 DEF m

\* heap_split_block, whether it cuts or not.
LEMMA SplitKeeps ==
    ASSUME NEW h, List(h), NEW b \in DOMAIN h, NEW wanted \in Nat,
           wanted # 0, Aligned(wanted), h[b].size >= wanted,
           NEW s, s = Split(h, b, wanted)
    PROVE  /\ List(s)
           /\ DOMAIN h \subseteq DOMAIN s
           /\ \A a \in DOMAIN h : s[a].free = h[a].free
           /\ \A a \in DOMAIN s \ DOMAIN h : s[a].free
           /\ \A a \in DOMAIN h : a # b => s[a].size = h[a].size
           /\ s[b].size >= wanted
<1>1. h[b].size \in Nat /\ Header \in Nat /\ MinSplit \in Nat
  BY BlockFields, HeapConstants DEF List, MinSplit
<1>2. CASE h[b].size >= wanted + Header + MinSplit
  BY <1>1, <1>2, SplitKeepsList
<1>3. CASE ~(h[b].size >= wanted + Header + MinSplit)
  <2>1. s = h
    BY <1>1, <1>3 DEF Split
  <2> QED BY <2>1
<1> QED BY <1>2, <1>3

\* heap_merge_with_next, whether it absorbs the next block or not.
LEMMA MergeKeeps ==
    ASSUME NEW h, List(h), NEW b \in DOMAIN h, NEW m, m = MergeWithNext(h, b)
    PROVE  /\ List(m)
           /\ DOMAIN m \subseteq DOMAIN h /\ b \in DOMAIN m
           /\ \A a \in DOMAIN m : m[a].free = h[a].free
           /\ \A a \in DOMAIN h \ DOMAIN m : h[a].free
           /\ \A a \in DOMAIN m : a # b => m[a].size = h[a].size
           /\ m[b].size >= h[b].size /\ m[b].prev = h[b].prev
<1>1. h[b].size \in Nat /\ Header \in Nat /\ TileAt(h, b)
  BY BlockFields, HeapConstants DEF List
<1>2. CASE h[b].next # Null /\ h[h[b].next].free
  <2>1. /\ h[b].next \in DOMAIN h /\ h[b].next # b /\ h[h[b].next].size \in Nat
    <3>1. /\ h[b].next \in DOMAIN h /\ h[b].next = b + Header + h[b].size /\ b \in Nat
          /\ Header # 0
      BY <1>1, <1>2, HeapConstants DEF TileAt, BlockEnd, Payload, List
    <3>2. h[h[b].next] \in Blocks
      BY <3>1 DEF List
    <3> QED BY <1>1, <3>1, <3>2, BlockFields
  <2>2. /\ List(m)
        /\ DOMAIN m = DOMAIN h \ {h[b].next}
        /\ \A a \in DOMAIN m : m[a].free = h[a].free
        /\ \A a \in DOMAIN m : a # b => m[a].size = h[a].size
        /\ m[b].size = h[b].size + Header + h[h[b].next].size
        /\ m[b].prev = h[b].prev
    BY <1>2, MergeKeepsList
  <2> QED BY <1>1, <1>2, <2>1, <2>2
<1>3. CASE ~(h[b].next # Null /\ h[h[b].next].free)
  <2>1. m = h
    BY <1>3 DEF MergeWithNext
  <2> QED BY <2>1, <1>1
<1> QED BY <1>2, <1>3

\* malloc, once it has found a block.
LEMMA TakeKeeps ==
    ASSUME NEW h, List(h), NEW b \in DOMAIN h, NEW wanted \in Nat,
           wanted # 0, Aligned(wanted), h[b].size >= wanted,
           NEW t, t = TakeBlock(h, b, wanted)
    PROVE  /\ List(t)
           /\ DOMAIN h \subseteq DOMAIN t
           /\ ~t[b].free /\ t[b].size >= wanted
           /\ \A a \in DOMAIN h : a # b => t[a].free = h[a].free /\ t[a].size = h[a].size
           /\ \A a \in DOMAIN t \ DOMAIN h : t[a].free
<1> DEFINE s == Split(h, b, wanted)
<1>1. /\ List(s)
      /\ DOMAIN h \subseteq DOMAIN s
      /\ \A a \in DOMAIN h : s[a].free = h[a].free
      /\ \A a \in DOMAIN s \ DOMAIN h : s[a].free
      /\ \A a \in DOMAIN h : a # b => s[a].size = h[a].size
      /\ s[b].size >= wanted
  BY SplitKeeps
<1>2. b \in DOMAIN s
  BY <1>1
<1> DEFINE u == SetFree(s, b, FALSE)
<1>3. t = u
  BY DEF TakeBlock
<1> HIDE DEF s
<1>4. /\ List(u) /\ DOMAIN u = DOMAIN s
      /\ ~u[b].free
      /\ \A a \in DOMAIN s : /\ u[a].size = s[a].size
                             /\ a # b => u[a].free = s[a].free
  <2>1. List(s)
    BY <1>1
  <2> QED BY <1>2, <2>1, UseKeeps
<1> HIDE DEF u
<1> QED BY <1>1, <1>3, <1>4

\* free of a used block: only that block stops being used, and blocks that
\* disappear were free.
LEMMA ReleaseKeeps ==
    ASSUME NEW h, List(h), NEW b \in DOMAIN h, ~h[b].free, NEW r, r = Release(h, b)
    PROVE  /\ List(r)
           /\ DOMAIN r \subseteq DOMAIN h
           /\ b \in DOMAIN r => r[b].free
           /\ \A a \in DOMAIN r : a # b => r[a].free = h[a].free
           /\ \A a \in DOMAIN h \ DOMAIN r : a # b => h[a].free
           /\ \A a \in DOMAIN r : a # b /\ ~h[a].free => r[a].size = h[a].size
<1> DEFINE f == SetFree(h, b, TRUE)
           m == MergeWithNext(f, b)
           p == m[b].prev
<1>1. /\ List(f) /\ DOMAIN f = DOMAIN h
      /\ f[b].free
      /\ \A a \in DOMAIN h : /\ f[a].size = h[a].size
                             /\ a # b => f[a].free = h[a].free
  BY FreeKeeps
<1> HIDE DEF f
<1>2. /\ List(m)
      /\ DOMAIN m \subseteq DOMAIN f /\ b \in DOMAIN m
      /\ \A a \in DOMAIN m : m[a].free = f[a].free
      /\ \A a \in DOMAIN f \ DOMAIN m : f[a].free
      /\ \A a \in DOMAIN m : a # b => m[a].size = f[a].size
  BY <1>1, MergeKeeps
<1>3. r = IF p # Null /\ m[p].free THEN MergeWithNext(m, p) ELSE m
  BY DEF Release, f
<1> HIDE DEF m
<1>4. p # Null => p \in DOMAIN m
  BY <1>2 DEF List, TileAt
<1> HIDE DEF p
<1>5. CASE p # Null /\ m[p].free
  <2>1. p \in DOMAIN m /\ r = MergeWithNext(m, p)
    BY <1>3, <1>4, <1>5
  <2>2. /\ List(r)
        /\ DOMAIN r \subseteq DOMAIN m
        /\ \A a \in DOMAIN r : r[a].free = m[a].free
        /\ \A a \in DOMAIN m \ DOMAIN r : m[a].free
        /\ \A a \in DOMAIN r : a # p => r[a].size = m[a].size
    BY <1>2, <2>1, MergeKeeps
  <2> QED BY <1>1, <1>2, <1>5, <2>1, <2>2
<1>6. CASE ~(p # Null /\ m[p].free)
  <2>1. r = m
    BY <1>3, <1>6
  <2> QED BY <1>1, <1>2, <2>1
<1> QED BY <1>5, <1>6

\* A list of a tiled arena is finite, and in one that is not overlong the
\* search of free reaches every block.
LEMMA SearchReaches ==
    ASSUME NEW h, List(h)
    PROVE  /\ IsFiniteSet(DOMAIN h)
           /\ ~Overlong(h) => \A b \in DOMAIN h : Reached(h, b)
<1>1. /\ \A b \in DOMAIN h : b \in Nat /\ h[b].size \in Nat /\ TileAt(h, b)
      /\ Header \in Nat /\ HeapEnd \in Nat /\ SearchLimit \in Nat
  BY HeapConstants, BlockFields DEF List
<1>2. IsFiniteSet(DOMAIN h)
  <2>1. DOMAIN h \subseteq 0..HeapEnd
    BY <1>1 DEF TileAt, BlockEnd, Payload
  <2>2. IsFiniteSet(0..HeapEnd)
    BY <1>1, FS_Interval
  <2> QED BY <2>1, <2>2, FS_Subset
<1>3. ASSUME NEW b \in DOMAIN h, ~Overlong(h) PROVE Reached(h, b)
  <2> DEFINE before == {c \in DOMAIN h : c < b}
  <2>1. IsFiniteSet(before) /\ b \notin before /\ before \union {b} \subseteq DOMAIN h
    BY <1>1, <1>2, FS_Subset
  <2> HIDE DEF before
  <2>2. /\ Cardinality(before \union {b}) = Cardinality(before) + 1
        /\ Cardinality(before \union {b}) <= Cardinality(DOMAIN h)
        /\ Cardinality(before) \in Nat /\ Cardinality(DOMAIN h) \in Nat
    BY <1>2, <2>1, FS_AddElement, FS_Subset, FS_CardinalityType
  <2>3. Cardinality(DOMAIN h) <= SearchLimit + 1
    BY <1>1, <1>3, <2>2 DEF Overlong
  <2>4. Cardinality(before) <= SearchLimit
    BY <1>1, <2>2, <2>3
  <2> QED BY <2>4 DEF Reached, before
<1> QED BY <1>2, <1>3

\* A list with fewer blocks is not overlong if the longer one is not.
LEMMA FewerBlocks ==
    ASSUME NEW h, List(h), NEW m, DOMAIN m \subseteq DOMAIN h, ~Overlong(h)
    PROVE  ~Overlong(m)
<1>1. IsFiniteSet(DOMAIN h) /\ SearchLimit \in Nat
  BY SearchReaches, HeapConstants
<1>2. /\ Cardinality(DOMAIN m) <= Cardinality(DOMAIN h)
      /\ Cardinality(DOMAIN m) \in Nat /\ Cardinality(DOMAIN h) \in Nat
  BY <1>1, FS_Subset, FS_CardinalityType
<1> QED BY <1>1, <1>2 DEF Overlong

\* The blocks that are used are the blocks that a program holds, each as long
\* as the program asked for, and the blocks that were given back in vain.
Holds(h, o, l) ==
    /\ DOMAIN o \subseteq Nat /\ l \subseteq Nat
    /\ DOMAIN o \cap l = {}
    /\ \A p \in DOMAIN o \union l : p - Header \in DOMAIN h /\ ~h[p - Header].free
    /\ \A p \in DOMAIN o : o[p] \in Nat /\ o[p] <= h[p - Header].size
    /\ \A b \in DOMAIN h : ~h[b].free => Payload(b) \in DOMAIN o \union l

\* The searches reach the whole list unless it was too long once.
Searched == long \in BOOLEAN /\ (~long => lost = {} /\ ~Overlong(heap))

\* The inductive invariant: HeapSound says what a program relies on; the
\* tiling is what makes split and merge keep it.
HeapInv == List(heap) /\ Holds(heap, owned, lost) /\ Searched

\* The inductive invariant implies the property.
LEMMA HeapInvSound == ASSUME HeapInv PROVE HeapSound
<1>1. /\ \A b \in DOMAIN heap : b \in Nat /\ heap[b] \in Blocks /\ TileAt(heap, b)
      /\ \A b \in DOMAIN heap : heap[b].size \in Nat
      /\ Header \in Nat /\ Header # 0 /\ HeapEnd \in Nat
  BY HeapConstants, BlockFields DEF HeapInv, List
<1>2. Tiled
  BY <1>1 DEF HeapInv, List, TileAt, Tiled, Aligned
<1>3. OwnersHoldBlocks
  <2>1. ASSUME NEW p \in DOMAIN owned \union lost
        PROVE  p \in {Payload(b) : b \in {c \in DOMAIN heap : ~heap[c].free}}
    <3>1. p - Header \in DOMAIN heap /\ ~heap[p - Header].free /\ p \in Nat
      BY DEF HeapInv, Holds
    <3>2. p = Payload(p - Header)
      BY <1>1, <3>1 DEF Payload
    <3> QED BY <3>1, <3>2
  <2>2. \A b \in {c \in DOMAIN heap : ~heap[c].free} : Payload(b) \in DOMAIN owned \union lost
    BY DEF HeapInv, Holds
  <2>3. /\ DOMAIN owned \cap lost = {} /\ (~long => lost = {})
        /\ \A p \in DOMAIN owned : owned[p] <= heap[p - Header].size
    BY DEF HeapInv, Holds, Searched
  <2> QED BY <2>1, <2>2, <2>3 DEF OwnersHoldBlocks
<1>4. LiveDisjoint
  <2> SUFFICES ASSUME NEW p \in DOMAIN owned
               PROVE  /\ p % Alignment = 0
                      /\ p + owned[p] <= HeapEnd
                      /\ \A q \in DOMAIN owned : p < q => p + owned[p] <= q - Header
                      /\ \A b \in DOMAIN heap : p < b + Header => p + owned[p] <= b
    BY DEF LiveDisjoint
  <2> DEFINE a == p - Header
  <2>1. /\ a \in DOMAIN heap /\ a \in Nat /\ p = a + Header /\ p \in Nat
        /\ owned[p] \in Nat /\ owned[p] <= heap[a].size /\ TileAt(heap, a)
        /\ heap[a].size \in Nat
    BY <1>1 DEF HeapInv, Holds
  <2>2. BlockEnd(heap, a) = p + heap[a].size
    BY <2>1 DEF BlockEnd, Payload
  <2> HIDE DEF a
  <2>3. p % Alignment = 0
    <3>1. Aligned(a) /\ Aligned(Header) /\ a \in Int /\ Header \in Int
      BY <1>1, <2>1, HeapConstants DEF TileAt, Aligned
    <3> QED BY <2>1, <3>1, AlignedSum DEF Aligned
  <2>4. p + owned[p] <= HeapEnd
    BY <1>1, <2>1, <2>2 DEF TileAt
  <2>5. ASSUME NEW b \in DOMAIN heap, p < b + Header
        PROVE  p + owned[p] <= b
    <3>1. a < b /\ b \in Nat
      BY <1>1, <2>1, <2>5
    <3>2. BlockEnd(heap, a) <= b
      BY <2>1, <3>1 DEF TileAt
    <3> QED BY <2>1, <2>2, <3>1, <3>2
  <2>6. ASSUME NEW q \in DOMAIN owned, p < q
        PROVE  p + owned[p] <= q - Header
    <3>1. q - Header \in DOMAIN heap /\ q \in Nat
      BY DEF HeapInv, Holds
    <3>2. p < (q - Header) + Header
      BY <1>1, <2>6, <3>1
    <3> QED BY <2>5, <3>1, <3>2
  <2> QED BY <2>3, <2>4, <2>5, <2>6
<1> QED BY <1>2, <1>3, <1>4 DEF HeapSound

\* The size malloc looks for is a multiple and holds what was asked.
LEMMA WantedFits ==
    ASSUME NEW n \in Nat
    PROVE  /\ AlignSize(n) # 0 =>
                 AlignSize(n) \in Nat /\ Aligned(AlignSize(n)) /\ n <= AlignSize(n)
           /\ Wanted(n) # 0 =>
                 Wanted(n) \in Nat /\ Aligned(Wanted(n)) /\ n <= Wanted(n)
<1>1. \A k \in Nat : AlignSize(k) # 0 =>
         AlignSize(k) \in Nat /\ Aligned(AlignSize(k)) /\ k <= AlignSize(k)
  BY AlignSizeAligned
<1>2. CASE n = 0
  <2>1. Wanted(n) = AlignSize(1) /\ (AlignSize(1) \in Nat => n <= AlignSize(1))
    BY <1>2 DEF Wanted
  <2> QED BY <1>1, <2>1
<1>3. CASE n # 0
  BY <1>1, <1>3 DEF Wanted
<1> QED BY <1>2, <1>3

\* A malloc hands out a block that nobody holds, long enough.
LEMMA MallocHolds ==
    ASSUME HeapInv, NEW n \in Nat, Malloc(n)
    PROVE  HeapInv'
<1> DEFINE w == Wanted(n)
<1>1. w \in Nat /\ w # 0 /\ Aligned(w) /\ n <= w
  BY WantedFits DEF Malloc
<1>2. PICK b \in DOMAIN heap : /\ FirstFit(heap, b, w)
                               /\ heap' = TakeBlock(heap, b, w)
                               /\ owned' = Own(Payload(b), n)
  BY DEF Malloc
<1> HIDE DEF w
<1>3. heap[b].free /\ heap[b].size >= w
  BY <1>2 DEF FirstFit, Fits
<1>0. lost' = lost /\ long' = (long \/ Overlong(heap'))
  BY DEF Malloc
<1>4. /\ List(heap')
      /\ DOMAIN heap \subseteq DOMAIN heap'
      /\ ~heap'[b].free /\ heap'[b].size >= w
      /\ \A a \in DOMAIN heap :
            a # b => heap'[a].free = heap[a].free /\ heap'[a].size = heap[a].size
      /\ \A a \in DOMAIN heap' \ DOMAIN heap : heap'[a].free
  BY <1>1, <1>2, <1>3, TakeKeeps DEF HeapInv
<1>5. /\ \A a \in DOMAIN heap' : a \in Nat /\ heap'[a].size \in Nat
      /\ b \in Nat /\ Header \in Nat
  BY <1>4, BlockFields, HeapConstants DEF HeapInv, List
<1>6. /\ DOMAIN owned' = DOMAIN owned \union {b + Header}
      /\ owned'[b + Header] = n
      /\ \A p \in DOMAIN owned : p # b + Header => owned'[p] = owned[p]
  BY <1>2 DEF Own, Payload
<1>7. ASSUME NEW p \in DOMAIN owned'
      PROVE  /\ p \in Nat /\ p - Header \in DOMAIN heap' /\ p \notin lost'
             /\ ~heap'[p - Header].free
             /\ owned'[p] \in Nat /\ owned'[p] <= heap'[p - Header].size
  <2>1. CASE p = b + Header
    <3>1. p - Header = b /\ p \in Nat
      BY <1>5, <2>1
    <3>2. p \notin lost
      BY <1>3, <3>1 DEF HeapInv, Holds
    <3> QED BY <1>0, <1>1, <1>4, <1>5, <1>6, <2>1, <3>1, <3>2
  <2>2. CASE p # b + Header
    <3>1. /\ p \in DOMAIN owned /\ p \in Nat /\ p - Header \in DOMAIN heap /\ p \notin lost
          /\ ~heap[p - Header].free /\ owned[p] \in Nat /\ owned[p] <= heap[p - Header].size
      BY <1>6, <2>2 DEF HeapInv, Holds
    <3>2. p - Header # b
      BY <1>3, <3>1
    <3> QED BY <1>0, <1>4, <1>6, <2>2, <3>1, <3>2
  <2> QED BY <2>1, <2>2
<1>8. ASSUME NEW p \in lost'
      PROVE  p \in Nat /\ p - Header \in DOMAIN heap' /\ ~heap'[p - Header].free
  <2>1. p \in Nat /\ p - Header \in DOMAIN heap /\ ~heap[p - Header].free
    BY <1>0, <1>8 DEF HeapInv, Holds
  <2> QED BY <1>3, <1>4, <2>1
<1>9. ASSUME NEW a \in DOMAIN heap', ~heap'[a].free
      PROVE  Payload(a) \in DOMAIN owned' \union lost'
  <2>1. CASE a = b
    BY <1>6, <2>1 DEF Payload
  <2>2. CASE a # b
    BY <1>0, <1>4, <1>6, <1>9, <2>2 DEF HeapInv, Holds
  <2> QED BY <2>1, <2>2
<1>10. Holds(heap', owned', lost')
  BY <1>7, <1>8, <1>9 DEF Holds
<1>11. Searched'
  BY <1>0 DEF HeapInv, Searched, Overlong
<1> QED BY <1>4, <1>10, <1>11 DEF HeapInv

\* Giving a used block back takes it from whoever holds it and from nobody
\* else.
LEMMA ReleaseHolds ==
    ASSUME NEW h, List(h), NEW o, NEW l, Holds(h, o, l),
           NEW b \in DOMAIN h, ~h[b].free, NEW g, g = Release(h, b),
           NEW q, DOMAIN q = DOMAIN o \ {Payload(b)},
           \A x \in DOMAIN q : q[x] = o[x]
    PROVE  /\ List(g) /\ DOMAIN g \subseteq DOMAIN h
           /\ Holds(g, q, l \ {Payload(b)})
<1>1. /\ Header \in Nat /\ \A a \in DOMAIN h : a \in Nat
      /\ Payload(b) = b + Header
  BY HeapConstants DEF List, Payload
<1>2. /\ List(g)
      /\ DOMAIN g \subseteq DOMAIN h
      /\ b \in DOMAIN g => g[b].free
      /\ \A a \in DOMAIN g : a # b => g[a].free = h[a].free
      /\ \A a \in DOMAIN h \ DOMAIN g : a # b => h[a].free
      /\ \A a \in DOMAIN g : a # b /\ ~h[a].free => g[a].size = h[a].size
  BY ReleaseKeeps
<1>3. ASSUME NEW x \in (DOMAIN o \union l) \ {Payload(b)}
      PROVE  /\ x \in Nat /\ x - Header \in DOMAIN g /\ ~g[x - Header].free
             /\ g[x - Header].size = h[x - Header].size
  <2>1. x \in Nat /\ x - Header \in DOMAIN h /\ ~h[x - Header].free
    BY DEF Holds
  <2>2. x - Header # b
    BY <1>1, <2>1
  <2> QED BY <1>2, <2>1, <2>2
<1>4. ASSUME NEW a \in DOMAIN g, ~g[a].free
      PROVE  Payload(a) \in DOMAIN q \union (l \ {Payload(b)})
  <2>1. a \in DOMAIN h /\ a # b /\ ~h[a].free /\ a \in Nat
    BY <1>1, <1>2, <1>4
  <2>2. Payload(a) # Payload(b)
    BY <1>1, <2>1 DEF Payload
  <2> QED BY <2>1, <2>2 DEF Holds
<1>5. \A x \in DOMAIN q : /\ x \in DOMAIN o /\ x # Payload(b)
                         /\ q[x] \in Nat /\ q[x] <= h[x - Header].size
  BY DEF Holds
<1>6. DOMAIN q \cap (l \ {Payload(b)}) = {}
  BY DEF Holds
<1>7. \A x \in DOMAIN q : q[x] <= g[x - Header].size
  BY <1>3, <1>5
<1>8. Holds(g, q, l \ {Payload(b)})
  BY <1>3, <1>4, <1>5, <1>6, <1>7 DEF Holds
<1> QED BY <1>2, <1>8

\* A free takes exactly the block it names from its owner, or leaves it to
\* nobody when the search did not reach it.
LEMMA FreeHolds ==
    ASSUME HeapInv, NEW p \in Nat, Free(p)
    PROVE  HeapInv'
<1>1. /\ DOMAIN owned' = DOMAIN owned \ {p} /\ \A q \in DOMAIN owned' : owned'[q] = owned[q]
      /\ long' = long /\ long \in BOOLEAN
  BY DEF Free, Disown, HeapInv, Searched
<1>2. Header \in Nat /\ List(heap) /\ Holds(heap, owned, lost)
  BY HeapConstants DEF HeapInv
<1>3. CASE Located(heap, p)
  <2> DEFINE b == p - Header
  <2>1. /\ heap' = Release(heap, b) /\ lost' = lost \ {p}
        /\ b \in DOMAIN heap /\ ~heap[b].free
    BY <1>3 DEF Free, Located
  <2>2. p = Payload(b)
    BY <1>2 DEF Payload
  <2> HIDE DEF b
  <2>3. /\ List(heap') /\ DOMAIN heap' \subseteq DOMAIN heap
        /\ Holds(heap', owned', lost')
    BY <1>1, <1>2, <2>1, <2>2, ReleaseHolds
  <2>4. ~Overlong(heap) => ~Overlong(heap')
    BY <1>2, <2>3, FewerBlocks
  <2>5. Searched'
    BY <1>1, <2>1, <2>4 DEF HeapInv, Searched, Overlong
  <2> QED BY <2>3, <2>5 DEF HeapInv
<1>4. CASE ~Located(heap, p)
  <2>1. heap' = heap /\ lost' = lost \union ({p} \cap DOMAIN owned)
    BY <1>4 DEF Free
  <2>2. ~long => p \notin DOMAIN owned
    BY <1>2, <1>4, SearchReaches DEF HeapInv, Searched, Holds, Located
  <2>3. Searched'
    BY <1>1, <2>1, <2>2 DEF HeapInv, Searched, Overlong
  <2>4. Holds(heap', owned', lost')
    <3>1. DOMAIN owned' \union lost' = DOMAIN owned \union lost
      BY <1>1, <2>1
    <3>2. DOMAIN owned' \cap lost' = {} /\ DOMAIN owned' \subseteq DOMAIN owned
      BY <1>1, <1>2, <2>1 DEF Holds
    <3> QED BY <1>1, <1>2, <2>1, <3>1, <3>2 DEF Holds
  <2> QED BY <1>2, <2>1, <2>3, <2>4 DEF HeapInv
<1> QED BY <1>3, <1>4

\* A realloc in place leaves every other owner its block.
LEMMA ReallocInPlaceHolds ==
    ASSUME HeapInv, NEW p \in DOMAIN owned, NEW n \in Nat, ReallocInPlace(p, n)
    PROVE  HeapInv'
<1> DEFINE b == p - Header
           wanted == AlignSize(n)
<1>1. /\ wanted \in Nat /\ wanted # 0 /\ Aligned(wanted) /\ n <= wanted
  BY WantedFits DEF ReallocInPlace
<1>2. b \in DOMAIN heap /\ ~heap[b].free /\ p \in Nat
  BY DEF HeapInv, Holds
<1>3. /\ DOMAIN owned' = DOMAIN owned /\ owned'[p] = n
      /\ \A q \in DOMAIN owned : q # p => owned'[q] = owned[q]
  BY DEF ReallocInPlace, Own
<1>0. lost' = lost /\ long' = (long \/ Overlong(heap'))
  BY DEF ReallocInPlace
<1>4. \/ heap[b].size >= wanted /\ heap' = Split(heap, b, wanted)
      \/ CanGrow(heap, b, wanted) /\ heap' = Split(MergeWithNext(heap, b), b, wanted)
  BY DEF ReallocInPlace
<1> HIDE DEF b, wanted
<1>5. /\ List(heap') /\ b \in DOMAIN heap' /\ heap'[b].size >= wanted
      /\ \A a \in DOMAIN heap' \cap DOMAIN heap : heap'[a].free = heap[a].free
      /\ \A a \in DOMAIN heap' \ DOMAIN heap : heap'[a].free
      /\ \A a \in DOMAIN heap \ DOMAIN heap' : heap[a].free
      /\ \A a \in DOMAIN heap' \cap DOMAIN heap :
            a # b /\ ~heap[a].free => heap'[a].size = heap[a].size
  <2>1. CASE heap[b].size >= wanted /\ heap' = Split(heap, b, wanted)
    BY <1>1, <1>2, <2>1, SplitKeeps DEF HeapInv
  <2>2. CASE CanGrow(heap, b, wanted) /\ heap' = Split(MergeWithNext(heap, b), b, wanted)
    <3> DEFINE m == MergeWithNext(heap, b)
    <3>1. /\ List(m)
          /\ DOMAIN m = DOMAIN heap \ {heap[b].next} /\ b \in DOMAIN m
          /\ \A a \in DOMAIN m : m[a].free = heap[a].free
          /\ \A a \in DOMAIN m : a # b => m[a].size = heap[a].size
          /\ m[b].size = heap[b].size + Header + heap[heap[b].next].size
          /\ heap[heap[b].next].free
      <4>1. List(heap) /\ heap[b].next # Null /\ heap[heap[b].next].free
        BY <2>2 DEF CanGrow, HeapInv
      <4>2. b \in DOMAIN m
        BY <1>2, <4>1, MergeKeeps
      <4> HIDE DEF m
      <4>3. m = MergeWithNext(heap, b)
        BY DEF m
      <4> QED BY <1>2, <4>1, <4>2, <4>3, MergeKeepsList
    <3> HIDE DEF m
    <3>2. m[b].size >= wanted
      BY <2>2, <3>1 DEF CanGrow
    <3>3. heap' = Split(m, b, wanted)
      BY <2>2 DEF m
    <3>4. /\ List(heap')
          /\ DOMAIN m \subseteq DOMAIN heap'
          /\ \A a \in DOMAIN m : heap'[a].free = m[a].free
          /\ \A a \in DOMAIN heap' \ DOMAIN m : heap'[a].free
          /\ \A a \in DOMAIN m : a # b => heap'[a].size = m[a].size
          /\ heap'[b].size >= wanted
      BY <1>1, <3>1, <3>2, <3>3, SplitKeeps
    <3>5. \A a \in DOMAIN heap' \cap DOMAIN heap :
             a \in DOMAIN m \/ (heap'[a].free /\ heap[a].free)
      BY <3>1, <3>4
    <3>6. \A a \in DOMAIN heap' \cap DOMAIN heap : heap'[a].free = heap[a].free
      <4>1. \A a \in DOMAIN heap' : heap'[a].free \in BOOLEAN
        BY <3>4, BlockFields DEF List
      <4>2. \A a \in DOMAIN heap : heap[a].free \in BOOLEAN
        BY BlockFields DEF List, HeapInv
      <4> QED BY <3>1, <3>4, <3>5, <4>1, <4>2
    <3> QED BY <3>1, <3>4, <3>5, <3>6
  <2> QED BY <1>4, <2>1, <2>2
<1>6. \A a \in DOMAIN heap' : a \in Nat /\ heap'[a].size \in Nat
  BY <1>5, BlockFields DEF List
<1>7. Header \in Nat /\ \A a \in DOMAIN heap : a \in Nat
  BY HeapConstants DEF HeapInv, List
<1>8. ASSUME NEW q \in DOMAIN owned'
      PROVE  /\ q \in Nat /\ q - Header \in DOMAIN heap' /\ ~heap'[q - Header].free
             /\ owned'[q] \in Nat /\ owned'[q] <= heap'[q - Header].size
  <2>1. /\ q \in DOMAIN owned /\ q \in Nat /\ q - Header \in DOMAIN heap
        /\ ~heap[q - Header].free /\ owned[q] \in Nat /\ owned[q] <= heap[q - Header].size
    BY <1>3 DEF HeapInv, Holds
  <2>2. q - Header \in DOMAIN heap' /\ ~heap'[q - Header].free
    BY <1>5, <2>1
  <2>3. CASE q = p
    BY <1>1, <1>3, <1>5, <1>6, <2>1, <2>2, <2>3 DEF b
  <2>4. CASE q # p
    <3>1. q - Header # b
      BY <1>2, <1>7, <2>1, <2>4 DEF b
    <3>2. owned'[q] = owned[q] /\ heap'[q - Header].size = heap[q - Header].size
      BY <1>3, <1>5, <2>1, <2>2, <2>4, <3>1
    <3> QED BY <2>1, <2>2, <3>2
  <2> QED BY <2>3, <2>4
<1>9. ASSUME NEW a \in DOMAIN heap', ~heap'[a].free
      PROVE  Payload(a) \in DOMAIN owned' \union lost'
  BY <1>0, <1>3, <1>5, <1>9 DEF HeapInv, Holds
<1>10. ASSUME NEW q \in lost'
       PROVE  q \in Nat /\ q - Header \in DOMAIN heap' /\ ~heap'[q - Header].free
  BY <1>0, <1>5, <1>10 DEF HeapInv, Holds
<1>11. Holds(heap', owned', lost')
  <2>1. DOMAIN owned' \cap lost' = {}
    BY <1>0, <1>3 DEF HeapInv, Holds
  <2> QED BY <1>8, <1>9, <1>10, <2>1 DEF Holds
<1>12. Searched'
  BY <1>0 DEF HeapInv, Searched, Overlong
<1> QED BY <1>5, <1>11, <1>12 DEF HeapInv

\* Taking a block for a new owner leaves the others theirs.
LEMMA TakeHolds ==
    ASSUME NEW h, List(h), NEW o, NEW l, Holds(h, o, l),
           NEW b \in DOMAIN h, h[b].free, NEW w \in Nat, w # 0, Aligned(w), h[b].size >= w,
           NEW n \in Nat, n <= w, NEW t, t = TakeBlock(h, b, w),
           NEW q, DOMAIN q = DOMAIN o \union {Payload(b)}, q[Payload(b)] = n,
           \A x \in DOMAIN o : x # Payload(b) => q[x] = o[x]
    PROVE  /\ List(t) /\ Holds(t, q, l) /\ Payload(b) \notin DOMAIN o
           /\ \A a \in DOMAIN h : a \in DOMAIN t /\ (~h[a].free => ~t[a].free)
<1>1. /\ List(t)
      /\ DOMAIN h \subseteq DOMAIN t
      /\ ~t[b].free /\ t[b].size >= w
      /\ \A a \in DOMAIN h : a # b => t[a].free = h[a].free /\ t[a].size = h[a].size
      /\ \A a \in DOMAIN t \ DOMAIN h : t[a].free
  BY TakeKeeps
<1>2. /\ \A a \in DOMAIN t : a \in Nat /\ t[a].size \in Nat
      /\ b \in Nat /\ Header \in Nat /\ Payload(b) = b + Header
  BY <1>1, BlockFields, HeapConstants DEF List, Payload
<1>3. ASSUME NEW x \in DOMAIN o \union l
      PROVE  /\ x \in Nat /\ x # Payload(b) /\ x - Header \in DOMAIN t
             /\ ~t[x - Header].free /\ t[x - Header].size = h[x - Header].size
  <2>1. x \in Nat /\ x - Header \in DOMAIN h /\ ~h[x - Header].free
    BY DEF Holds
  <2>2. x - Header # b
    BY <2>1
  <2> QED BY <1>1, <1>2, <2>1, <2>2
<1>4. Payload(b) \in Nat /\ Payload(b) - Header = b
  BY <1>2
<1>5. ASSUME NEW a \in DOMAIN t, ~t[a].free PROVE Payload(a) \in DOMAIN q \union l
  <2>1. CASE a = b
    BY <2>1
  <2>2. CASE a # b
    BY <1>1, <1>5, <2>2 DEF Holds
  <2> QED BY <2>1, <2>2
<1>6. DOMAIN q \cap l = {}
  BY <1>3 DEF Holds
<1>7. ASSUME NEW x \in DOMAIN q PROVE q[x] \in Nat /\ q[x] <= t[x - Header].size
  <2>1. CASE x = Payload(b)
    BY <1>1, <1>2, <1>4, <2>1
  <2>2. CASE x # Payload(b)
    BY <1>3, <2>2 DEF Holds
  <2> QED BY <2>1, <2>2
<1>8. \A x \in DOMAIN q \union l : x \in Nat /\ x - Header \in DOMAIN t /\ ~t[x - Header].free
  BY <1>1, <1>3, <1>4
<1>9. Holds(t, q, l)
  BY <1>5, <1>6, <1>7, <1>8 DEF Holds
<1>10. \A a \in DOMAIN h : a \in DOMAIN t /\ (~h[a].free => ~t[a].free)
  BY <1>1
<1> QED BY <1>1, <1>3, <1>9, <1>10

\* A realloc that moves is an allocation and then a free, which may not find
\* the block it is to give back.
LEMMA ReallocMoveHolds ==
    ASSUME HeapInv, NEW p \in DOMAIN owned, NEW n \in Nat, ReallocMove(p, n)
    PROVE  HeapInv'
<1> DEFINE b == p - Header
           wanted == AlignSize(n)
<1>1. /\ wanted \in Nat /\ wanted # 0 /\ Aligned(wanted) /\ n <= wanted
  BY WantedFits DEF ReallocMove
<1>2. /\ b \in DOMAIN heap /\ ~heap[b].free /\ p \in Nat /\ b \in Nat
      /\ p = Payload(b) /\ Header \in Nat
      /\ List(heap) /\ Holds(heap, owned, lost)
  BY HeapConstants DEF HeapInv, Holds, List, Payload
<1>3. PICK c \in DOMAIN heap :
         /\ FirstFit(heap, c, wanted)
         /\ long' = (long \/ Overlong(TakeBlock(heap, c, wanted)))
         /\ \/ /\ Reached(TakeBlock(heap, c, wanted), b)
               /\ heap' = Release(TakeBlock(heap, c, wanted), b) /\ lost' = lost
            \/ /\ ~Reached(TakeBlock(heap, c, wanted), b)
               /\ heap' = TakeBlock(heap, c, wanted) /\ lost' = lost \union {p}
         /\ owned' = [q \in (DOMAIN owned \ {p}) \union {Payload(c)} |->
                         IF q = Payload(c) THEN n ELSE owned[q]]
  BY DEF ReallocMove
<1> HIDE DEF wanted, b
<1>4. heap[c].free /\ heap[c].size >= wanted /\ c # b /\ c \in Nat
  BY <1>2, <1>3 DEF FirstFit, Fits, List
<1> DEFINE t == TakeBlock(heap, c, wanted)
           o == [q \in DOMAIN owned \union {Payload(c)} |->
                    IF q = Payload(c) THEN n ELSE owned[q]]
<1>5. /\ List(t) /\ Holds(t, o, lost) /\ Payload(c) \notin DOMAIN owned
      /\ b \in DOMAIN t /\ ~t[b].free
  <2>1. /\ DOMAIN o = DOMAIN owned \union {Payload(c)} /\ o[Payload(c)] = n
        /\ \A x \in DOMAIN owned : x # Payload(c) => o[x] = owned[x]
    OBVIOUS
  <2> HIDE DEF o
  <2> QED BY <1>1, <1>2, <1>4, <2>1, TakeHolds
<1>6. /\ DOMAIN owned' = DOMAIN o \ {p} /\ p # Payload(c)
      /\ \A x \in DOMAIN owned' : owned'[x] = o[x]
      /\ p \in DOMAIN o
  BY <1>3, <1>5
<1>7. p \notin lost
  BY <1>2 DEF Holds
<1>8. long \in BOOLEAN /\ (~long => lost = {})
  BY DEF HeapInv, Searched
<1> HIDE DEF t, o
<1>9. CASE heap' = Release(t, b) /\ lost' = lost
  <2>1. lost \ {Payload(b)} = lost
    BY <1>2, <1>7
  <2>2. List(heap') /\ DOMAIN heap' \subseteq DOMAIN t /\ Holds(heap', owned', lost \ {Payload(b)})
    <3>1. /\ DOMAIN owned' = DOMAIN o \ {Payload(b)}
          /\ \A x \in DOMAIN owned' : owned'[x] = o[x]
      BY <1>2, <1>6
    <3>2. List(t) /\ Holds(t, o, lost) /\ b \in DOMAIN t /\ ~t[b].free /\ heap' = Release(t, b)
      BY <1>5, <1>9
    <3> QED BY ONLY <3>1, <3>2, ReleaseHolds
  <2>3. ~Overlong(t) => ~Overlong(heap')
    BY <1>5, <2>2, FewerBlocks
  <2>4. Searched'
    BY <1>3, <1>8, <1>9, <2>3 DEF Searched, Overlong, t
  <2> QED BY <1>9, <2>1, <2>2, <2>4 DEF HeapInv
<1>10. CASE ~Reached(t, b) /\ heap' = t /\ lost' = lost \union {p}
  <2>1. Overlong(t)
    BY <1>5, <1>10, SearchReaches
  <2>2. Searched'
    BY <1>3, <1>8, <1>10, <2>1 DEF Searched, t
  <2>3. Holds(heap', owned', lost')
    <3>1. DOMAIN owned' \union lost' = DOMAIN o \union lost
      BY <1>6, <1>10
    <3>2. DOMAIN owned' \cap lost' = {} /\ DOMAIN owned' \subseteq DOMAIN o
      BY <1>5, <1>6, <1>10 DEF Holds
    <3> QED BY <1>5, <1>6, <1>10, <3>1, <3>2 DEF Holds
  <2> QED BY <1>5, <1>10, <2>2, <2>3 DEF HeapInv
<1> QED BY <1>3, <1>9, <1>10 DEF t

\* heap_init makes one free block of the whole arena.
LEMMA HeapInitHolds == HeapInit => HeapInv
<1> SUFFICES ASSUME HeapInit PROVE HeapInv
  OBVIOUS
<1> DEFINE all == HeapEnd - HeapStart - Header
<1>1. /\ HeapStart \in Nat /\ HeapStart # 0 /\ Header \in Nat /\ HeapEnd \in Nat
      /\ all \in Nat /\ HeapStart + Header + all = HeapEnd /\ Alignment \in Nat \ {0}
  BY HeapConstants
<1>2. Aligned(HeapStart) /\ Aligned(all)
  <2>1. Aligned(HeapEnd) /\ Aligned(HeapStart) /\ Aligned(Header)
    BY HeapConstants DEF Aligned
  <2>2. Aligned(HeapEnd - HeapStart) /\ HeapEnd - HeapStart \in Int
    BY <1>1, <2>1, AlignedSum
  <2>3. Header \in Int
    BY <1>1
  <2> QED BY <2>1, <2>2, <2>3, AlignedSum
<1> HIDE DEF all
<1>3. /\ DOMAIN heap = {HeapStart}
      /\ heap[HeapStart] = [size |-> all, next |-> Null, prev |-> Null, free |-> TRUE]
      /\ heap = [b \in DOMAIN heap |-> heap[b]]
  BY DEF HeapInit, all
<1>4. heap[HeapStart] \in Blocks
  BY <1>1, <1>3 DEF Blocks, Null
<1>5. TileAt(heap, HeapStart)
  BY <1>1, <1>2, <1>3 DEF TileAt, BlockEnd, Payload, Null
<1>6. List(heap)
  BY <1>1, <1>3, <1>4, <1>5 DEF List
<1>7. DOMAIN owned = {} /\ lost = {} /\ long = FALSE
  BY DEF HeapInit
<1>8. Holds(heap, owned, lost)
  BY <1>3, <1>7 DEF Holds
<1>9. Searched
  <2>1. Cardinality(DOMAIN heap) = 1 /\ SearchLimit \in Nat
    BY <1>3, FS_Singleton, HeapConstants
  <2>2. ~Overlong(heap)
    BY <2>1 DEF Overlong
  <2> QED BY <1>7, <2>2 DEF Searched
<1> QED BY <1>6, <1>8, <1>9 DEF HeapInv

\* Every operation keeps the invariant.
LEMMA HeapStepHolds == HeapInv /\ [HeapNext]_heapVars => HeapInv'
<1> SUFFICES ASSUME HeapInv, [HeapNext]_heapVars PROVE HeapInv'
  OBVIOUS
<1>1. Requests \subseteq Nat /\ HeapEnd \in Nat
  BY HeapConstants
<1>2. ASSUME NEW n \in Requests, Malloc(n) PROVE HeapInv'
  BY <1>1, <1>2, MallocHolds
<1>3. ASSUME NEW count \in Requests, NEW size \in Requests, Calloc(count, size) PROVE HeapInv'
  <2>1. count * size \in Nat
    BY <1>1
  <2>2. Malloc(count * size)
    BY <1>3 DEF Calloc
  <2> HIDE DEF Malloc
  <2> QED BY <2>1, <2>2, MallocHolds
<1>4. ASSUME NEW p \in 0..HeapEnd, Free(p) PROVE HeapInv'
  BY <1>1, <1>4, FreeHolds
<1>5. ASSUME NEW p \in DOMAIN owned, NEW n \in Requests, ReallocInPlace(p, n) PROVE HeapInv'
  BY <1>1, <1>5, ReallocInPlaceHolds
<1>6. ASSUME NEW p \in DOMAIN owned, NEW n \in Requests, ReallocMove(p, n) PROVE HeapInv'
  BY <1>1, <1>6, ReallocMoveHolds
<1>7. CASE UNCHANGED heapVars
  BY <1>7 DEF heapVars, HeapInv, List, TileAt, BlockEnd, Holds, Searched, Overlong
<1> QED BY <1>2, <1>3, <1>4, <1>5, <1>6, <1>7 DEF HeapNext

\* In every sequence of malloc, calloc, realloc and free, for every arena,
\* alignment, header and limit of the search, the blocks tile the arena, linked
\* both ways, what a program holds is a used block of its own, as long as it
\* asked for, and no used block is without an owner unless the list once had
\* more blocks than a search passes (stdlib.c: heap_find_block_by_payload,
\* heap_split_block, heap_merge_with_next, malloc, realloc, free).
THEOREM HeapIsSound == HeapSpec => []HeapSound
<1>1. HeapInv => HeapSound
  BY HeapInvSound
<1> QED BY <1>1, HeapInitHolds, HeapStepHolds, PTL DEF HeapSpec

-----------------------------------------------------------------------------
(* The shared buffers. *)

\* The entries of a table e in use, their keys, the entry shared_buffer_find
\* finds, and the map the table stands for.
UsedIn(e) == {i \in Slots : e[i].used}
KeysIn(e) == {e[i].key : i \in UsedIn(e)}
FoundIn(e, k) ==
    LET hits == {i \in Slots : e[i].used /\ e[i].key = k} IN
    IF hits = {} THEN 0 ELSE CHOOSE i \in hits : \A j \in hits : i <= j

\* A key has at most one entry.
Sound(e) ==
    /\ e = [i \in Slots |-> e[i]]
    /\ \A i \in UsedIn(e) : e[i].key \in Keys
    /\ \A i, j \in UsedIn(e) : e[i].key = e[j].key => i = j
MapOf(e) == [k \in KeysIn(e) |-> e[FoundIn(e, k)].value]

\* A set of naturals that has 0, and n + 1 with n, has every natural.
LEMMA SetInduction ==
    ASSUME NEW S, 0 \in S, \A n \in Nat : n \in S => n + 1 \in S
    PROVE  Nat \subseteq S
<1> SUFFICES ASSUME NEW x \in Nat, x \notin S PROVE FALSE
  OBVIOUS
<1> DEFINE A == S \intersect (0..x)
           f == [n \in A |-> n + 1]
<1>1. IsFiniteSet(A)
  <2>1. IsFiniteSet(0..x)
    BY FS_Interval
  <2> QED BY <2>1, FS_Subset
<1>2. f \in Injection(A, A \ {0})
  BY DEF Injection, IsInjective
<1>3. Cardinality(A) <= Cardinality(A \ {0})
  <2>1. IsFiniteSet(A \ {0})
    BY <1>1, FS_Subset
  <2> HIDE DEF A, f
  <2> QED BY <1>2, <2>1, FS_Injection
<1>4. Cardinality(A \ {0}) = Cardinality(A) - 1
  <2>1. 0 \in A
    OBVIOUS
  <2> HIDE DEF A
  <2> QED BY <1>1, <2>1, FS_RemoveElement
<1> QED BY <1>1, <1>3, <1>4, FS_CardinalityType

\* A set of naturals that is not empty has a least element.
LEMMA Smallest ==
    ASSUME NEW A, A \subseteq Nat, A # {}
    PROVE  \E i \in A : \A j \in A : i <= j
<1> SUFFICES ASSUME \A i \in A : \E j \in A : ~(i <= j) PROVE FALSE
  OBVIOUS
<1> DEFINE S == {n \in Nat : \A j \in A : n < j}
<1>1. 0 \in S
  BY SMT
<1>2. \A n \in Nat : n \in S => n + 1 \in S
  <2> SUFFICES ASSUME NEW n \in Nat, \A j \in A : n < j PROVE \A j \in A : n + 1 < j
    OBVIOUS
  <2>1. n + 1 \notin A
    BY SMT
  <2> QED BY <2>1
<1>3. Nat \subseteq S
  <2> HIDE DEF S
  <2> QED BY <1>1, <1>2, SetInduction
<1>4. PICK a \in A : a \in Nat
  OBVIOUS
<1>5. a < a
  BY <1>3, <1>4
<1> QED BY <1>4, <1>5

\* The entry that is found for a key is the one that has it.
LEMMA FoundIs ==
    ASSUME NEW e, Sound(e), NEW i \in UsedIn(e)
    PROVE  FoundIn(e, e[i].key) = i
<1> DEFINE hits == {j \in Slots : e[j].used /\ e[j].key = e[i].key}
<1>1. hits = {i}
  BY DEF Sound, UsedIn
<1>2. i \in Nat
  BY BufferConstants DEF UsedIn, Slots
<1>3. (CHOOSE h \in {i} : \A j \in {i} : h <= j) = i
  BY <1>2
<1> QED BY <1>1, <1>3 DEF FoundIn

\* A key that no entry has is not found.
LEMMA FoundNone ==
    ASSUME NEW e, NEW k, k \notin KeysIn(e)
    PROVE  FoundIn(e, k) = 0
BY DEF FoundIn, KeysIn, UsedIn

\* The same of Find, which is 0 when no entry has the key.
LEMMA FindIs ==
    ASSUME Sound(entries), NEW k
    PROVE  /\ k \in KeysIn(entries) =>
                 /\ Find(k) \in UsedIn(entries) /\ Find(k) # 0
                 /\ entries[Find(k)].key = k
                 /\ entries[Find(k)].value = MapOf(entries)[k]
           /\ k \notin KeysIn(entries) => Find(k) = 0
<1>1. Find(k) = FoundIn(entries, k)
  BY DEF Find, FoundIn
<1>2. 0 \notin UsedIn(entries)
  BY BufferConstants DEF UsedIn, Slots
<1>3. ASSUME k \in KeysIn(entries)
      PROVE  /\ Find(k) \in UsedIn(entries) /\ Find(k) # 0 /\ entries[Find(k)].key = k
             /\ entries[Find(k)].value = MapOf(entries)[k]
  <2>1. PICK i \in UsedIn(entries) : entries[i].key = k
    BY <1>3 DEF KeysIn
  <2>2. FoundIn(entries, k) = i
    BY <2>1, FoundIs
  <2> QED BY <1>1, <1>2, <1>3, <2>1, <2>2 DEF MapOf
<1> QED BY <1>1, <1>3, FoundNone

\* FindFree is a free entry, and 0 only when there is none.
LEMMA FindFreeIs ==
           /\ FindFree # 0 => FindFree \in Slots /\ FindFree \notin UsedIn(entries)
           /\ FindFree = 0 => UsedIn(entries) = Slots
<1> DEFINE free == {i \in Slots : ~entries[i].used}
<1>1. free \subseteq Nat /\ 0 \notin free
  BY BufferConstants DEF Slots
<1>2. CASE free = {}
  BY <1>2 DEF FindFree, UsedIn
<1>3. CASE free # {}
  <2>1. \E i \in free : \A j \in free : i <= j
    BY <1>1, <1>3, Smallest
  <2>2. FindFree = CHOOSE i \in free : \A j \in free : i <= j
    BY <1>3 DEF FindFree
  <2> HIDE DEF free
  <2>3. FindFree \in free
    BY <2>1, <2>2
  <2> USE DEF free
  <2> QED BY <1>1, <2>3 DEF UsedIn
<1> QED BY <1>2, <1>3

\* The table has room exactly as long as it has fewer keys than entries.
LEMMA KeysAreCounted ==
    ASSUME NEW e, Sound(e)
    PROVE  Cardinality(KeysIn(e)) < MaxEntries <=> UsedIn(e) # Slots
<1> DEFINE keyOf == [i \in UsedIn(e) |-> e[i].key]
<1>1. IsFiniteSet(Slots) /\ Cardinality(Slots) = MaxEntries
  BY FS_Interval, BufferConstants DEF Slots
<1>2. IsFiniteSet(UsedIn(e)) /\ UsedIn(e) \subseteq Slots
  BY <1>1, FS_Subset DEF UsedIn
<1>3. keyOf \in Bijection(UsedIn(e), KeysIn(e))
  BY DEF Bijection, Injection, Surjection, IsInjective, Sound, KeysIn
<1>4. Cardinality(KeysIn(e)) = Cardinality(UsedIn(e))
  <2> HIDE DEF keyOf
  <2>1. ExistsBijection(UsedIn(e), KeysIn(e))
    BY <1>3 DEF ExistsBijection
  <2> QED BY <1>2, <2>1, FS_Bijection
<1>5. Cardinality(UsedIn(e)) <= MaxEntries
      /\ (Cardinality(UsedIn(e)) = MaxEntries => UsedIn(e) = Slots)
  BY <1>1, <1>2, FS_Subset
<1> QED BY <1>1, <1>2, <1>4, <1>5, FS_CardinalityType, BufferConstants

\* The map m with v at k; and: k is the key of entry i alone.
With(m, k, v) == [j \in DOMAIN m \union {k} |-> IF j = k THEN v ELSE m[j]]
Only(e, i, k) == \A j \in UsedIn(e) : e[j].key = k <=> j = i

\* Writing the entry of a key, or a free one, changes the map at that key.
LEMMA StoreMaps ==
    ASSUME NEW e, Sound(e), NEW i \in Slots, NEW x,
           x.used = TRUE, x.key \in Keys, Only(e, i, x.key)
    PROVE  /\ Sound([e EXCEPT ![i] = x])
           /\ MapOf([e EXCEPT ![i] = x]) = With(MapOf(e), x.key, x.value)
<1> DEFINE f == [e EXCEPT ![i] = x]
<1> DEFINE k == x.key
<1> DEFINE v == x.value
<1>0. k \in Keys /\ x.key = k /\ x.value = v /\ f = [e EXCEPT ![i] = x] /\ Only(e, i, k)
  OBVIOUS
<1> HIDE DEF f, k, v
<1>1. /\ f[i] = x
      /\ \A j \in Slots : j # i => f[j] = e[j]
      /\ f = [j \in Slots |-> f[j]]
  BY <1>0 DEF Sound
<1>2. UsedIn(f) = UsedIn(e) \union {i}
  BY <1>1 DEF UsedIn
<1>3. \A j \in UsedIn(f) : IF j = i THEN f[j].key = k /\ f[j].value = v
                           ELSE j \in UsedIn(e) /\ f[j] = e[j] /\ f[j].key # k
  BY <1>0, <1>1, <1>2 DEF UsedIn, Only
<1>4. Sound(f)
  <2>1. \A j \in UsedIn(f) : f[j].key \in Keys
    BY <1>0, <1>3 DEF Sound
  <2>2. \A j, l \in UsedIn(f) : f[j].key = f[l].key => j = l
    BY <1>3 DEF Sound
  <2> QED BY <1>1, <2>1, <2>2 DEF Sound
<1>5. KeysIn(f) = KeysIn(e) \union {k}
  <2>1. \A y \in KeysIn(f) : y \in KeysIn(e) \union {k}
    BY <1>3 DEF KeysIn
  <2>2. k \in KeysIn(f)
    BY <1>0, <1>1, <1>2 DEF KeysIn
  <2>3. ASSUME NEW j \in UsedIn(e) PROVE e[j].key \in KeysIn(f)
    <3>1. CASE j = i
      BY <1>0, <2>2, <3>1 DEF Only
    <3>2. CASE j # i
      <4>1. j \in UsedIn(f) /\ f[j] = e[j]
        BY <1>1, <1>2, <3>2 DEF UsedIn
      <4> QED BY <4>1 DEF KeysIn
    <3> QED BY <3>1, <3>2
  <2>4. \A y \in KeysIn(e) : y \in KeysIn(f)
    BY <2>3 DEF KeysIn
  <2> QED BY <2>1, <2>2, <2>4
<1>6. ASSUME NEW y \in KeysIn(f)
      PROVE  f[FoundIn(f, y)].value = IF y = k THEN v ELSE MapOf(e)[y]
  <2>1. PICK j \in UsedIn(f) : f[j].key = y
    BY DEF KeysIn
  <2>2. FoundIn(f, y) = j
    BY <1>4, <2>1, FoundIs
  <2>3. CASE j = i
    BY <1>3, <2>1, <2>2, <2>3
  <2>4. CASE j # i
    <3>1. j \in UsedIn(e) /\ f[j] = e[j] /\ e[j].key = y /\ y # k
      BY <1>3, <2>1, <2>4
    <3>2. FoundIn(e, y) = j /\ y \in KeysIn(e)
      BY <3>1, FoundIs DEF KeysIn
    <3> QED BY <2>2, <3>1, <3>2 DEF MapOf
  <2> QED BY <2>3, <2>4
<1>7. MapOf(f) = [j \in KeysIn(f) |-> IF j = k THEN v ELSE MapOf(e)[j]]
  <2>1. MapOf(f) = [j \in KeysIn(f) |-> f[FoundIn(f, j)].value]
    BY DEF MapOf
  <2> QED BY <1>6, <2>1
<1>8. DOMAIN MapOf(e) = KeysIn(e)
  BY DEF MapOf
<1>9. Sound(f) /\ MapOf(f) = With(MapOf(e), k, v)
  BY <1>4, <1>5, <1>7, <1>8 DEF With
<1> QED BY <1>9 DEF f, k, v

\* Clearing the entry of a key takes the key from the map.
LEMMA EraseMaps ==
    ASSUME NEW e, Sound(e), NEW i \in UsedIn(e), NEW f, f = [e EXCEPT ![i] = EmptyEntry]
    PROVE  /\ Sound(f)
           /\ MapOf(f) = [j \in KeysIn(e) \ {e[i].key} |-> MapOf(e)[j]]
<1>1. /\ ~f[i].used
      /\ \A j \in Slots : j # i => f[j] = e[j]
      /\ f = [j \in Slots |-> f[j]] /\ i \in Slots
  BY DEF Sound, EmptyEntry, UsedIn
<1>2. UsedIn(f) = UsedIn(e) \ {i}
  BY <1>1 DEF UsedIn
<1>3. \A j \in UsedIn(f) : j \in UsedIn(e) /\ f[j] = e[j] /\ e[j].key # e[i].key
  BY <1>1, <1>2 DEF UsedIn, Sound
<1>4. Sound(f)
  <2>1. \A j \in UsedIn(f) : f[j].key \in Keys
    BY <1>3 DEF Sound
  <2>2. \A j, l \in UsedIn(f) : f[j].key = f[l].key => j = l
    BY <1>3 DEF Sound
  <2> QED BY <1>1, <2>1, <2>2 DEF Sound
<1>5. KeysIn(f) = KeysIn(e) \ {e[i].key}
  <2>1. \A x \in KeysIn(f) : x \in KeysIn(e) \ {e[i].key}
    BY <1>3 DEF KeysIn
  <2>2. ASSUME NEW j \in UsedIn(e), e[j].key # e[i].key PROVE e[j].key \in KeysIn(f)
    <3>1. j \in UsedIn(f) /\ f[j] = e[j]
      BY <1>2, <1>3, <2>2
    <3> QED BY <3>1 DEF KeysIn
  <2>3. \A x \in KeysIn(e) \ {e[i].key} : x \in KeysIn(f)
    BY <2>2 DEF KeysIn
  <2> QED BY <2>1, <2>3
<1>6. ASSUME NEW x \in KeysIn(f)
      PROVE  f[FoundIn(f, x)].value = MapOf(e)[x]
  <2>1. PICK j \in UsedIn(f) : f[j].key = x
    BY DEF KeysIn
  <2>2. FoundIn(f, x) = j
    BY <1>4, <2>1, FoundIs
  <2>3. j \in UsedIn(e) /\ f[j] = e[j] /\ e[j].key = x
    BY <1>3, <2>1
  <2>4. FoundIn(e, x) = j /\ x \in KeysIn(e)
    BY <2>3, FoundIs DEF KeysIn
  <2> QED BY <2>2, <2>3, <2>4 DEF MapOf
<1> QED BY <1>4, <1>5, <1>6 DEF MapOf

\* The table that has no used entry is the empty map.
LEMMA EmptyMaps ==
    ASSUME NEW f, f = [i \in Slots |-> EmptyEntry]
    PROVE  /\ Sound(f) /\ KeysIn(f) = {}
           /\ MapOf(f) = [k \in {} |-> k]
<1>1. UsedIn(f) = {}
  BY DEF UsedIn, EmptyEntry
<1>2. Sound(f) /\ KeysIn(f) = {}
  BY <1>1 DEF Sound, KeysIn
<1> QED BY <1>2 DEF MapOf

\* The refinement mapping.
Held == [k \in {entries[i].key : i \in {j \in Slots : entries[j].used}} |->
             entries[Find(k)].value]

\* The refinement mapping is the map of the table, in both states.
LEMMA HeldIs == Held = MapOf(entries) /\ Held' = MapOf(entries')
BY DEF Held, MapOf, KeysIn, UsedIn, FoundIn, Find

\* The first table is an empty store.
LEMMA InitSimulated == BufferInit => Sound(entries) /\ KeyValue!Init
<1> SUFFICES ASSUME BufferInit PROVE Sound(entries) /\ KeyValue!Init
  OBVIOUS
<1>1. Sound(entries) /\ Held = [k \in {} |-> k]
  BY EmptyMaps, HeldIs DEF BufferInit
<1>2. reply = KeyValue!Reply("ok", <<>>)
  BY DEF BufferInit, Reply, KeyValue!Reply
<1> QED BY <1>1, <1>2 DEF KeyValue!Init, Held

\* Cardinality is the same in the abstract specification.
LEMMA CardinalityIs ==
    ASSUME NEW S
    PROVE  KeyValue!Cardinality(S) = Cardinality(S)
BY DEF KeyValue!Cardinality, Cardinality, KeyValue!IsFiniteSet, IsFiniteSet

\* What a Set of the abstract specification does.
LEMMA SetIs ==
    ASSUME NEW k, NEW v
    PROVE  KeyValue!Set(k, v) <=>
             IF k \in DOMAIN Held \/ Cardinality(DOMAIN Held) < MaxEntries
             THEN /\ Held' = [j \in DOMAIN Held \union {k} |-> IF j = k THEN v ELSE Held[j]]
                  /\ reply' = KeyValue!Reply("ok", <<>>)
             ELSE reply' = KeyValue!Reply("full", <<>>) /\ Held' = Held
BY CardinalityIs DEF KeyValue!Set, Held

\* shared_buffer_set is a Set of the store, or a refusal.
LEMMA SetSimulated ==
    ASSUME Sound(entries), NEW k \in AllKeys, NEW v \in AllValues, Set(k, v)
    PROVE  Sound(entries') /\ KeyValue!Next
<1>1. DOMAIN Held = KeysIn(entries)
  BY HeldIs DEF MapOf
<1>2. ASSUME NEW i \in Slots, Store(i, k, v), k \in Keys, v \in Values,
             Only(entries, i, k),
             k \in KeysIn(entries) \/ Cardinality(KeysIn(entries)) < MaxEntries
      PROVE  Sound(entries') /\ KeyValue!Next
  <2>1. /\ Sound(entries')
        /\ Held' = [j \in DOMAIN Held \union {k} |-> IF j = k THEN v ELSE Held[j]]
    <3> DEFINE x == [used |-> TRUE, key |-> k, value |-> v]
    <3>1. x.used = TRUE /\ x.key = k /\ x.value = v /\ entries' = [entries EXCEPT ![i] = x]
      BY <1>2 DEF Store
    <3> HIDE DEF x
    <3>2. Sound(entries') /\ MapOf(entries') = With(MapOf(entries), k, v)
      <4>1. k \in Keys /\ i \in Slots /\ Only(entries, i, k)
        BY <1>2
      <4> QED BY ONLY Sound(entries), <3>1, <4>1, StoreMaps
    <3>3. Held' = With(Held, k, v)
      BY <3>2, HeldIs
    <3> QED BY <3>2, <3>3 DEF With
  <2>2. reply' = KeyValue!Reply("ok", <<>>)
    BY <1>2 DEF Store, Reply, KeyValue!Reply
  <2>3. KeyValue!Set(k, v)
    BY <1>1, <1>2, <2>1, <2>2, SetIs
  <2> QED BY <1>2, <2>1, <2>3 DEF KeyValue!Next
<1>3. ASSUME NEW status \in {"invalid_key", "too_long"}, Refuse(status)
      PROVE  Sound(entries') /\ KeyValue!Next
  <2>1. reply' = KeyValue!Reply(status, <<>>)
    BY <1>3 DEF Refuse, Reply, KeyValue!Reply
  <2>2. Held' = Held /\ Sound(entries')
    BY <1>3, HeldIs DEF Refuse
  <2> QED BY <2>1, <2>2 DEF KeyValue!Next, KeyValue!Refuse, Held
<1>4. CASE k = BadKey \/ v = LongValue
  BY <1>3, <1>4 DEF Set
<1>5. CASE k # BadKey /\ v # LongValue
  <2>1. k \in Keys /\ v \in Values
    BY <1>5 DEF AllKeys, AllValues
  <2>2. CASE Find(k) # 0
    <3> DEFINE i == Find(k)
    <3>1. i \in UsedIn(entries) /\ entries[i].key = k /\ k \in KeysIn(entries)
      BY <2>2, FindIs
    <3>2. i \in Slots /\ Only(entries, i, k)
      BY <3>1 DEF Sound, UsedIn, Only
    <3>3. Store(i, k, v)
      BY <1>5, <2>2 DEF Set
    <3> HIDE DEF i
    <3> QED BY <1>2, <2>1, <3>1, <3>2, <3>3
  <2>3. CASE Find(k) = 0 /\ FindFree # 0
    <3> DEFINE i == FindFree
    <3>1. k \notin KeysIn(entries)
      BY <2>3, FindIs
    <3>2. i \in Slots /\ i \notin UsedIn(entries)
      BY <2>3, FindFreeIs
    <3>3. Only(entries, i, k)
      BY <3>1, <3>2 DEF KeysIn, Only
    <3>4. Cardinality(KeysIn(entries)) < MaxEntries
      BY <3>2, KeysAreCounted
    <3>5. Store(i, k, v)
      BY <1>5, <2>3 DEF Set
    <3> HIDE DEF i
    <3> QED BY <1>2, <2>1, <3>2, <3>3, <3>4, <3>5
  <2>4. CASE Find(k) = 0 /\ FindFree = 0
    <3>1. Refuse("full")
      BY <1>5, <2>4 DEF Set
    <3>2. k \notin DOMAIN Held /\ ~(Cardinality(DOMAIN Held) < MaxEntries)
      BY <1>1, <2>4, FindIs, FindFreeIs, KeysAreCounted
    <3>3. reply' = KeyValue!Reply("full", <<>>) /\ Held' = Held /\ Sound(entries')
      BY <3>1, HeldIs DEF Refuse, Reply, KeyValue!Reply
    <3>4. KeyValue!Set(k, v)
      BY <3>2, <3>3, SetIs
    <3> QED BY <2>1, <3>3, <3>4 DEF KeyValue!Next
  <2> QED BY <2>2, <2>3, <2>4
<1> QED BY <1>4, <1>5

\* shared_buffer_get, _take and _clear are those of the store.
LEMMA KeySimulated ==
    ASSUME Sound(entries), NEW k \in AllKeys, Get(k) \/ Take(k) \/ Clear(k)
    PROVE  Sound(entries') /\ KeyValue!Next
<1>1. DOMAIN Held = KeysIn(entries)
  BY HeldIs DEF MapOf
<1>2. CASE k = BadKey
  <2>1. Refuse("invalid_key")
    BY <1>2 DEF Get, Take, Clear
  <2>2. reply' = KeyValue!Reply("invalid_key", <<>>) /\ Held' = Held /\ Sound(entries')
    BY <2>1, HeldIs DEF Refuse, Reply, KeyValue!Reply
  <2> QED BY <2>2 DEF KeyValue!Next, KeyValue!Refuse, Held
<1>3. CASE k # BadKey /\ Find(k) = 0
  <2>1. Refuse("not_found") /\ k \in Keys
    BY <1>3 DEF Get, Take, Clear, AllKeys
  <2>2. reply' = KeyValue!Reply("not_found", <<>>) /\ Held' = Held /\ Sound(entries')
    BY <2>1, HeldIs DEF Refuse, Reply, KeyValue!Reply
  <2>3. k \notin DOMAIN Held
    BY <1>1, <1>3, FindIs
  <2>4. KeyValue!Get(k)
    BY <2>2, <2>3 DEF KeyValue!Get, Held
  <2> QED BY <2>1, <2>2, <2>4 DEF KeyValue!Next
<1>4. CASE k # BadKey /\ Find(k) # 0
  <2>1. k \in Keys /\ k \in DOMAIN Held
    BY <1>1, <1>4, FindIs DEF AllKeys
  <2>2. entries[Find(k)].value = Held[k] /\ Find(k) \in UsedIn(entries)
        /\ entries[Find(k)].key = k
    BY <1>1, <2>1, FindIs, HeldIs
  <2>3. CASE Get(k)
    <3>1. reply' = KeyValue!Reply("ok", <<Held[k]>>) /\ entries' = entries
      BY <1>4, <2>2, <2>3 DEF Get, Reply, KeyValue!Reply
    <3>2. Held' = Held /\ Sound(entries')
      BY <3>1, HeldIs
    <3>3. KeyValue!Get(k)
      BY <2>1, <3>1, <3>2 DEF KeyValue!Get, Held
    <3> QED BY <2>1, <3>2, <3>3 DEF KeyValue!Next
  <2>4. CASE Take(k) \/ Clear(k)
    <3>1. entries' = [entries EXCEPT ![Find(k)] = EmptyEntry]
      BY <1>4, <2>4 DEF Take, Clear
    <3>2. Sound(entries') /\ Held' = [j \in DOMAIN Held \ {k} |-> Held[j]]
      <4>1. /\ Sound(entries')
            /\ MapOf(entries') =
                 [j \in KeysIn(entries) \ {entries[Find(k)].key} |-> MapOf(entries)[j]]
        BY <2>2, <3>1, EraseMaps
      <4> QED BY <1>1, <2>2, <4>1, HeldIs
    <3>3. Held' = KeyValue!Without(k)
      BY <3>2 DEF KeyValue!Without, KeyValue!Restrict, Held
    <3>4. CASE Take(k)
      <4>1. reply' = KeyValue!Reply("ok", <<Held[k]>>)
        BY <1>4, <2>2, <3>4 DEF Take, Reply, KeyValue!Reply
      <4>2. KeyValue!Take(k)
        BY <2>1, <3>3, <4>1 DEF KeyValue!Take, Held
      <4> QED BY <2>1, <3>2, <4>2 DEF KeyValue!Next
    <3>5. CASE Clear(k)
      <4>1. reply' = KeyValue!Reply("ok", <<>>)
        BY <1>4, <3>5 DEF Clear, Reply, KeyValue!Reply
      <4>2. KeyValue!Clear(k)
        BY <2>1, <3>3, <4>1 DEF KeyValue!Clear, Held
      <4> QED BY <2>1, <3>2, <4>2 DEF KeyValue!Next
    <3> QED BY <2>4, <3>4, <3>5
  <2> QED BY <2>3, <2>4
<1> QED BY <1>2, <1>3, <1>4

\* Every step of the table is one of the store, or a stutter.
LEMMA StepSimulated ==
    Sound(entries) /\ [BufferNext]_bufferVars =>
        Sound(entries') /\ [KeyValue!Next]_<<Held, reply>>
<1> SUFFICES ASSUME Sound(entries), [BufferNext]_bufferVars
             PROVE  Sound(entries') /\ [KeyValue!Next]_<<Held, reply>>
  OBVIOUS
<1>1. CASE ClearAll
  <2>1. Sound(entries') /\ Held' = [k \in {} |-> k] /\ reply' = reply
    BY <1>1, EmptyMaps, HeldIs DEF ClearAll
  <2>2. Held' = KeyValue!Restrict(Held, {})
    BY <2>1 DEF KeyValue!Restrict
  <2>3. KeyValue!ClearAll
    BY <2>1, <2>2 DEF KeyValue!ClearAll, Held
  <2> QED BY <2>1, <2>3 DEF KeyValue!Next
<1>2. CASE \/ \E v \in AllValues : ClipboardSet(v)
           \/ ClipboardClear \/ UNCHANGED bufferVars
  <2>1. entries' = entries /\ reply' = reply
    BY <1>2 DEF ClipboardSet, ClipboardClear, bufferVars
  <2> QED BY <2>1, HeldIs
<1> QED BY <1>1, <1>2, SetSimulated, KeySimulated DEF BufferNext

\* The table of entries is a map of at most MaxEntries keys: for every number
\* of entries and every sequence of set, get, take and clear a key has the
\* last value set, and a new key is refused only when the table is full
\* (shared_buffer.c).
THEOREM BufferIsMap == BufferSpec => ImplementsMap
<1>1. BufferSpec => []Sound(entries)
  <2>1. BufferInit => Sound(entries)
    BY InitSimulated
  <2>2. Sound(entries) /\ [BufferNext]_bufferVars => Sound(entries)'
    BY StepSimulated
  <2> QED BY <2>1, <2>2, PTL DEF BufferSpec
<1>2. BufferSpec => KeyValue!Init
  BY InitSimulated DEF BufferSpec
<1>3. Sound(entries) /\ [BufferNext]_bufferVars => [KeyValue!Next]_<<Held, reply>>
  BY StepSimulated
<1> QED BY <1>1, <1>2, <1>3, PTL DEF BufferSpec, ImplementsMap, KeyValue!Spec, Held
===============================================================================
