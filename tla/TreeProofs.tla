----------------------------- MODULE TreeProofs -----------------------------
(***************************************************************************)
(* What is proved of operations on the file tree (FileTree) and of         *)
(* archives (ZipArchive), for any names, any limits and any faults: every  *)
(* call does to the tree what its status says and leaves the rest alone,   *)
(* and an archive that was closed with success unpacks to what was put in, *)
(* inside the destination.                                                 *)
(***************************************************************************)
EXTENDS ZipArchive, Integers, SequenceTheorems, FunctionTheorems, TLAPS

(***************************************************************************)
(* What holds of a tree, of the calls on the stack, and of the copy.       *)
(***************************************************************************)

\* What paths are made of, and what they hold.
Paths == Seq(Names)
Contents == {"dir", "old", "new", "part"}
Frames == [does : {"copy", "delete"}, src : Paths, dst : Paths,
           depth : Nat, at : {"enter", "open", "loop", "close", "cleaned"},
           todo : SUBSET Names, result : {"ok", "error"}]

\* Every directory on the way to a path is there.
IsTree(t) ==
    /\ t \in [DOMAIN t -> Contents]
    /\ DOMAIN t \subseteq Paths \ {Root}
    /\ \A q \in DOMAIN t : \A p \in Paths :
          Under(p, q) /\ p # q /\ p # Root => p \in DOMAIN t /\ t[p] = "dir"

TaskIsTyped ==
    \/ task = NoTask
    \/ /\ task.op \in {"copy", "delete", "move", "mv", "rm", "mkdir", "file",
                       "directory", "write", "mktree", "overwrite"}
       /\ task.src \in Paths /\ task.dst \in Paths

TreeTypes ==
    /\ IsTree(tree) /\ IsTree(earlier) /\ stack \in Seq(Frames) /\ TaskIsTyped
    /\ unclean \in BOOLEAN /\ reply \in {"none", "ok", "error"}

\* A path below d, taken to the same place below s.
Moved(p, d, s) == s \o SubSeq(p, Len(d) + 1, Len(p))
\* Where a path of the copy comes from.
Origin(p) == Moved(p, task.dst, task.src)

\* One call on the stack: where it may be, and below the task's paths.
FrameTrue(f) ==
    /\ Under(task.dst, f.dst)
    /\ f.does = "copy" => task.op = "copy" /\ f.src = Origin(f.dst)
    /\ f.does = "delete" => f.src = f.dst /\ f.at \in {"enter", "loop", "close"}
    /\ f.at \in {"enter", "open", "loop"} => f.result = "ok"

\* A call and the one it waits for.
Calls(f, g) ==
    \/ /\ f.does = "copy" /\ f.at = "loop" /\ g.does = "copy"
       /\ \E n \in Names : g.src = Append(f.src, n) /\ g.dst = Append(f.dst, n)
    \/ f.does = "copy" /\ f.at = "cleaned" /\ g.does = "delete" /\ g.dst = f.dst
    \/ /\ f.does = "delete" /\ f.at = "loop" /\ g.does = "delete"
       /\ \E n \in Names : g.dst = Append(f.dst, n)

StackTrue ==
    stack # <<>> =>
      /\ task.op \in {"copy", "delete"} /\ reply = "none"
      /\ stack[1].does = task.op /\ stack[1].src = task.src /\ stack[1].dst = task.dst
      /\ task.op = "delete" => task.src = task.dst
      /\ \A i \in 1..Len(stack) : FrameTrue(stack[i])
      /\ \A i \in 1..(Len(stack) - 1) : Calls(stack[i], stack[i + 1])
      /\ \A i \in 1..Len(stack) : stack[i].does = "delete" /\ task.op = "copy" =>
            \E j \in 1..(i - 1) : stack[j].at = "cleaned"

\* Nothing was at the destination, and so all that is there is the copy's.
Started == ~(Len(stack) = 1 /\ Top.at = "enter")
CopyTrue ==
    task.op = "copy" /\ stack # <<>> =>
      /\ ~Started => tree = earlier /\ ~Exists(task.dst)
      /\ Started => /\ task.src \in DOMAIN earlier
                    /\ \A p \in DOMAIN earlier : ~Under(task.dst, p)
      /\ Top.at = "open" =>
            Exists(Top.dst) /\ \A p \in DOMAIN tree : Under(Top.dst, p) => p = Top.dst
      /\ Top.at = "cleaned" => unclean \/ \A p \in DOMAIN tree : ~Under(Top.dst, p)

\* A path below the destination that no call has come to yet.
Pending(p) ==
    \E i \in 1..Len(stack) :
        \/ stack[i].at = "enter" /\ Under(stack[i].dst, p)
        \/ stack[i].at = "open" /\ Under(stack[i].dst, p) /\ p # stack[i].dst
        \/ /\ stack[i].at = "loop"
           /\ \E n \in stack[i].todo : Under(Append(stack[i].dst, n), p)
Matches(p) ==
    /\ Exists(p) <=> Origin(p) \in DOMAIN earlier
    /\ Exists(p) => tree[p] = earlier[Origin(p)]
\* No call has failed so far.
Well == \A i \in 1..Len(stack) :
            stack[i].does = "copy" /\ stack[i].result = "ok" /\ stack[i].at # "cleaned"

Apart(p, q) == ~Under(p, q) /\ ~Under(q, p)

\* What is not pending has been copied.
FilesCopied ==
    \A p \in Paths : Under(task.dst, p) =>
        IF Pending(p) THEN ~Exists(p) ELSE Matches(p)
CallsApart ==
    \A i, j \in 1..Len(stack) : i < j =>
        \A m \in stack[i].todo : Apart(Append(stack[i].dst, m), stack[j].dst)
CopiedTrue ==
    task.op = "copy" /\ stack # <<>> /\ Started /\ Well /\ ~Under(task.src, task.dst) =>
        FilesCopied /\ CallsApart

\* A copy into itself has a child that copies into itself, and so on.
Toward(f) == f.dst[Len(f.src) + 1]
IntoItself(f) == Under(f.src, f.dst)
IntoItselfTrue ==
    task.op = "copy" =>
      \A i \in 1..Len(stack) : stack[i].does = "copy" /\ IntoItself(stack[i]) =>
        /\ stack[i].at = "enter" /\ stack[i].src = stack[i].dst => ~Exists(stack[i].src)
        /\ stack[i].at \in {"open", "loop"} => stack[i].src # stack[i].dst
        /\ stack[i].at = "loop" =>
              \/ Toward(stack[i]) \in stack[i].todo
              \/ i < Len(stack) /\ stack[i + 1].src = Append(stack[i].src, Toward(stack[i]))
        /\ stack[i].at = "close" => stack[i].result = "error"

TreeInvariant ==
    /\ TreeTypes /\ StackTrue /\ CopyTrue /\ CopiedTrue /\ IntoItselfTrue /\ TreesTrue

-----------------------------------------------------------------------------
(***************************************************************************)
(* Paths.                                                                  *)
(***************************************************************************)

\* One path is below another when it begins with its names.
LEMMA UnderIs ==
    ASSUME NEW p \in Paths, NEW q \in Paths
    PROVE  /\ Under(p, q) <=> Len(p) <= Len(q) /\ \A i \in 1..Len(p) : p[i] = q[i]
           /\ Len(p) \in Nat /\ Len(q) \in Nat
<1>1. Len(p) \in Nat /\ Len(q) \in Nat
  BY DEF Paths
<1>2. SubSeq(p, 1, Len(p)) = p
  BY SubSeqFull DEF Paths
<1>3. ASSUME Len(p) <= Len(q)
      PROVE  SubSeq(p, 1, Len(p)) = SubSeq(q, 1, Len(p)) <=> \A i \in 1..Len(p) : p[i] = q[i]
  <2>1. \A i \in 1..Len(p) : q[i] \in Names /\ p[i] \in Names
    BY <1>1, <1>3 DEF Paths
  <2>2. /\ SubSeq(q, 1, Len(p)) \in Seq(Names) /\ Len(SubSeq(q, 1, Len(p))) = Len(p)
        /\ \A i \in 1..Len(p) : SubSeq(q, 1, Len(p))[i] = q[i]
    <3>1. 1 \in Int /\ Len(p) \in Int
      BY <1>1
    <3>2. \A i \in 1..Len(p) : q[i] \in Names
      BY <2>1
    <3> DEFINE r == SubSeq(q, 1, Len(p))
    <3>3. /\ r \in Seq(Names) /\ Len(r) = IF 1 <= Len(p) THEN Len(p) - 1 + 1 ELSE 0
          /\ \A i \in 1..(Len(p) - 1 + 1) : r[i] = q[1 + i - 1]
      BY <3>1, <3>2, SubSeqProperties
    <3> HIDE DEF r
    <3>4. QED
      BY <1>1, <3>3 DEF r
  <2>3. (\A i \in 1..Len(p) : p[i] = q[i]) => p = SubSeq(q, 1, Len(p))
    BY <2>2, SeqEqual DEF Paths
  <2>4. p = SubSeq(q, 1, Len(p)) => \A i \in 1..Len(p) : p[i] = q[i]
    <3> DEFINE r == SubSeq(q, 1, Len(p))
    <3>1. \A i \in 1..Len(p) : r[i] = q[i]
      BY <2>2
    <3> HIDE DEF r
    <3>2. p = r => \A i \in 1..Len(p) : p[i] = q[i]
      BY <3>1
    <3>3. QED
      BY <3>2 DEF r
  <2>5. QED
    BY ONLY <1>2, <2>3, <2>4
<1>4. QED
  BY <1>1, <1>3 DEF Under, IsPrefix

\* Being below is an order.
LEMMA UnderOrder ==
    /\ Root \in Paths
    /\ \A p \in Paths : Len(p) \in Nat /\ Under(p, p) /\ Under(Root, p)
    /\ \A p \in Paths, q \in Paths : Under(p, q) => Len(p) <= Len(q)
    /\ \A p \in Paths, q \in Paths : Under(p, q) /\ Len(q) <= Len(p) => p = q
    /\ \A p \in Paths, q \in Paths : Under(p, q) /\ Under(q, p) => p = q
    /\ \A p \in Paths, q \in Paths, r \in Paths : Under(p, q) /\ Under(q, r) => Under(p, r)
    /\ \A p \in Paths, q \in Paths, r \in Paths :
          Under(p, r) /\ Under(q, r) /\ Len(p) <= Len(q) => Under(p, q)
    /\ \A p \in Paths, q \in Paths, r \in Paths :
          Under(p, r) /\ Under(q, r) => Under(p, q) \/ Under(q, p)
<1>1. Root \in Paths /\ Len(Root) = 0
  BY DEF Paths, Root
<1>2. \A p \in Paths : Len(p) \in Nat /\ Under(p, p)
  BY UnderIs
<1>3. \A p \in Paths : Under(Root, p)
  BY <1>1, UnderIs
<1>4. \A p \in Paths, q \in Paths : Under(p, q) => Len(p) <= Len(q)
  BY UnderIs
<1>5. ASSUME NEW p \in Paths, NEW q \in Paths, Under(p, q), Len(q) <= Len(p)
      PROVE  p = q
  <2>1. Len(p) = Len(q) /\ \A i \in 1..Len(p) : p[i] = q[i]
    BY <1>5, UnderIs
  <2>2. QED
    BY <2>1, SeqEqual DEF Paths
<1>6. \A p \in Paths, q \in Paths : Under(p, q) /\ Under(q, p) => p = q
  BY <1>4, <1>5
<1>7. ASSUME NEW p \in Paths, NEW q \in Paths, NEW r \in Paths, Under(p, q), Under(q, r)
      PROVE  Under(p, r)
  <2>1. Len(p) <= Len(q) /\ \A i \in 1..Len(p) : p[i] = q[i]
    BY <1>7, UnderIs
  <2>2. Len(q) <= Len(r) /\ \A i \in 1..Len(q) : q[i] = r[i]
    BY <1>7, UnderIs
  <2>3. Len(p) \in Nat /\ Len(q) \in Nat /\ Len(r) \in Nat
    BY <1>2
  <2>4. Len(p) <= Len(r) /\ \A i \in 1..Len(p) : p[i] = r[i]
    BY <2>1, <2>2, <2>3
  <2>5. QED
    BY <2>4, UnderIs
<1>8. ASSUME NEW p \in Paths, NEW q \in Paths, NEW r \in Paths,
             Under(p, r), Under(q, r), Len(p) <= Len(q)
      PROVE  Under(p, q)
  <2>1. Len(p) <= Len(r) /\ \A i \in 1..Len(p) : p[i] = r[i]
    BY <1>8, UnderIs
  <2>2. Len(q) <= Len(r) /\ \A i \in 1..Len(q) : q[i] = r[i]
    BY <1>8, UnderIs
  <2>3. Len(p) \in Nat /\ Len(q) \in Nat /\ Len(r) \in Nat
    BY <1>2
  <2>4. \A i \in 1..Len(p) : p[i] = q[i]
    BY <1>8, <2>1, <2>2, <2>3
  <2>5. QED
    BY <1>8, <2>4, UnderIs
<1>9. \A p \in Paths, q \in Paths, r \in Paths :
          Under(p, r) /\ Under(q, r) => Under(p, q) \/ Under(q, p)
  BY <1>2, <1>8
<1>10. QED
  BY <1>1, <1>2, <1>3, <1>4, <1>5, <1>6, <1>7, <1>8, <1>9

\* The entries of a directory.
LEMMA ChildPaths ==
    ASSUME NEW p \in Paths, NEW n \in Names
    PROVE  /\ Append(p, n) \in Paths /\ Append(p, n) # Root /\ Append(p, n) # p
           /\ Len(Append(p, n)) = Len(p) + 1 /\ Append(p, n)[Len(p) + 1] = n
           /\ Under(p, Append(p, n)) /\ ~Under(Append(p, n), p)
           /\ \A q \in Paths : Under(Append(p, n), q) =>
                 Under(p, q) /\ p # q /\ q[Len(p) + 1] = n
<1> DEFINE c == Append(p, n)
<1>1. /\ c \in Paths /\ Len(c) = Len(p) + 1 /\ c[Len(p) + 1] = n /\ Len(p) \in Nat
      /\ \A i \in 1..Len(p) : c[i] = p[i]
  BY DEF Paths
<1> HIDE DEF c
<1>2. c # Root /\ c # p
  <2>1. Len(Root) = 0
    BY DEF Root
  <2>2. QED
    BY <1>1, <2>1
<1>3. Under(p, c)
  BY <1>1, UnderIs
<1>4. ~Under(c, p)
  BY <1>1, UnderIs
<1>5. ASSUME NEW q \in Paths, Under(c, q)
      PROVE  Under(p, q) /\ p # q /\ q[Len(p) + 1] = n
  <2>1. Len(c) <= Len(q) /\ \A i \in 1..Len(c) : c[i] = q[i]
    BY <1>1, <1>5, UnderIs
  <2>2. Under(p, q)
    BY <1>1, <1>3, <1>5, UnderOrder
  <2>3. p # q
    BY <1>1, <1>4, <1>5
  <2>4. QED
    BY <1>1, <2>1, <2>2, <2>3
<1>6. QED
  BY <1>1, <1>2, <1>3, <1>4, <1>5 DEF c

\* What is strictly below a path is below one of its entries.
LEMMA StepDown ==
    ASSUME NEW p \in Paths, NEW q \in Paths, Under(p, q), p # q
    PROVE  /\ q[Len(p) + 1] \in Names /\ Under(Append(p, q[Len(p) + 1]), q)
           /\ Len(p) < Len(q)
<1>1. Len(p) <= Len(q) /\ \A i \in 1..Len(p) : p[i] = q[i]
  BY UnderIs
<1>2. Len(p) \in Nat /\ Len(q) \in Nat /\ Len(p) # Len(q)
  BY UnderOrder
<1>3. Len(p) + 1 \in 1..Len(q)
  BY <1>1, <1>2
<1>4. q[Len(p) + 1] \in Names
  BY <1>3 DEF Paths
<1> DEFINE n == q[Len(p) + 1]
           c == Append(p, n)
<1> HIDE DEF n
<1>5. c \in Paths /\ Len(c) = Len(p) + 1 /\ c[Len(p) + 1] = n
  BY <1>4, ChildPaths DEF n
<1>6. \A i \in 1..Len(p) : c[i] = p[i]
  BY <1>4 DEF Paths, n
<1> HIDE DEF c
<1>7. \A i \in 1..Len(c) : c[i] = q[i]
  BY <1>1, <1>2, <1>5, <1>6 DEF n
<1>8. Under(c, q)
  BY <1>3, <1>2, <1>5, <1>7, UnderIs
<1>9. QED
  BY <1>3, <1>2, <1>4, <1>8 DEF c, n

\* The entries of one directory are apart.
LEMMA Siblings ==
    ASSUME NEW p \in Paths, NEW m \in Names, NEW n \in Names, m # n
    PROVE  Apart(Append(p, m), Append(p, n))
<1> DEFINE c == Append(p, m)
           d == Append(p, n)
<1>1. c \in Paths /\ d \in Paths /\ Len(c) = Len(d) /\ c[Len(p) + 1] = m /\ d[Len(p) + 1] = n
  BY ChildPaths
<1> HIDE DEF c, d
<1>2. c # d
  BY <1>1
<1>3. ~Under(c, d) /\ ~Under(d, c)
  BY <1>1, <1>2, UnderOrder
<1>4. QED
  BY <1>3 DEF Apart, c, d

\* Nothing is below two paths that are apart.
LEMMA ApartPaths ==
    /\ \A p \in Paths, q \in Paths, r \in Paths : Apart(p, q) /\ Under(p, r) => ~Under(q, r)
    /\ \A p \in Paths, q \in Paths, r \in Paths : Apart(p, q) /\ Under(q, r) => ~Under(p, r)
    /\ \A p \in Paths, q \in Paths, r \in Paths : Apart(p, q) /\ Under(q, r) => Apart(p, r)
BY UnderOrder DEF Apart

\* The directory that holds a path.
LEMMA ParentPath ==
    ASSUME NEW p \in Paths, p # Root
    PROVE  /\ Parent(p) \in Paths /\ Parent(p) # p /\ Under(Parent(p), p)
           /\ \A q \in Paths : Under(q, p) /\ q # p => Under(q, Parent(p))
<1> DEFINE f == Parent(p)
<1>1. Len(p) \in Nat /\ Len(p) > 0
  BY DEF Paths, Root
<1>2. f \in Paths /\ Len(f) = Len(p) - 1 /\ \A i \in 1..Len(f) : f[i] = p[i]
  <2> DEFINE l == Len(p) - 1
             r == SubSeq(p, 1, l)
  <2>1. 1 \in Int /\ l \in Nat /\ \A i \in 1..l : p[i] \in Names
    BY <1>1 DEF Paths
  <2> HIDE DEF l
  <2>2. /\ r \in Seq(Names) /\ Len(r) = IF 1 <= l THEN l - 1 + 1 ELSE 0
        /\ \A i \in 1..(l - 1 + 1) : r[i] = p[1 + i - 1]
    BY <2>1, SubSeqProperties
  <2> HIDE DEF r
  <2>3. r \in Seq(Names) /\ Len(r) = l /\ \A i \in 1..l : r[i] = p[i]
    BY <2>1, <2>2
  <2>4. f = r
    BY DEF Parent, Front, r, l
  <2>5. QED
    BY <2>3, <2>4 DEF Paths, l
<1> HIDE DEF f
<1>3. Under(f, p) /\ f # p
  BY <1>1, <1>2, UnderIs
<1>4. ASSUME NEW q \in Paths, Under(q, p), q # p
      PROVE  Under(q, f)
  <2>1. Len(q) < Len(p)
    BY <1>4, StepDown
  <2>2. Len(q) <= Len(f)
    BY <1>1, <1>2, <2>1, UnderOrder
  <2>3. QED
    BY <1>2, <1>3, <1>4, <2>2, UnderOrder
<1>5. QED
  BY <1>2, <1>3, <1>4 DEF f

\* The same, name by name.
IsMoved(w, p, d, s) ==
    /\ w \in Paths /\ Len(w) = Len(s) + Len(p) - Len(d)
    /\ \A i \in 1..Len(s) : w[i] = s[i]
    /\ \A i \in (Len(s) + 1)..(Len(s) + Len(p) - Len(d)) :
          w[i] = p[i - Len(s) + Len(d)]

\* A path that is moved, element by element.
LEMMA MovedIs ==
    ASSUME NEW d \in Paths, NEW s \in Paths, NEW p \in Paths, Under(d, p)
    PROVE  /\ IsMoved(Moved(p, d, s), p, d, s)
           /\ SubSeq(p, Len(d) + 1, Len(p)) \in Paths
           /\ Len(SubSeq(p, Len(d) + 1, Len(p))) = Len(p) - Len(d)
           /\ \A i \in 1..(Len(p) - Len(d)) :
                 SubSeq(p, Len(d) + 1, Len(p))[i] = p[i + Len(d)]
<1>1. Len(d) \in Nat /\ Len(s) \in Nat /\ Len(p) \in Nat /\ Len(d) <= Len(p)
  BY UnderOrder
<1> DEFINE r == SubSeq(p, Len(d) + 1, Len(p))
<1>2. r \in Seq(Names) /\ Len(r) = Len(p) - Len(d) /\ \A i \in 1..(Len(p) - Len(d)) : r[i] = p[i + Len(d)]
  <2> DEFINE m == Len(d) + 1
             n == Len(p)
  <2>1. m \in Int /\ n \in Int /\ \A i \in m..n : p[i] \in Names
    BY <1>1 DEF Paths
  <2> DEFINE t == SubSeq(p, m, n)
  <2> HIDE DEF m, n
  <2>2. /\ t \in Seq(Names) /\ Len(t) = IF m <= n THEN n - m + 1 ELSE 0
        /\ \A i \in 1..(n - m + 1) : t[i] = p[m + i - 1]
    BY <2>1, SubSeqProperties
  <2>3. r = t
    BY DEF m, n
  <2> HIDE DEF t, r
  <2>4. Len(t) = Len(p) - Len(d) /\ \A i \in 1..(Len(p) - Len(d)) : t[i] = p[i + Len(d)]
    BY <1>1, <2>2 DEF m, n
  <2>5. QED
    BY <2>2, <2>3, <2>4
<1> HIDE DEF r
<1>3. s \in Seq(Names)
  BY DEF Paths
<1> DEFINE w == s \o r
<1>4. /\ w \in Seq(Names) /\ Len(w) = Len(s) + Len(r)
      /\ \A i \in 1..(Len(s) + Len(r)) : w[i] = IF i <= Len(s) THEN s[i] ELSE r[i - Len(s)]
  BY <1>2, <1>3, ConcatProperties
<1>5. Moved(p, d, s) = w
  BY DEF Moved, r
<1> HIDE DEF w
<1>6. \A i \in (Len(s) + 1)..(Len(s) + Len(p) - Len(d)) : w[i] = p[i - Len(s) + Len(d)]
  <2> SUFFICES ASSUME NEW i \in (Len(s) + 1)..(Len(s) + Len(p) - Len(d))
               PROVE  w[i] = p[i - Len(s) + Len(d)]
    OBVIOUS
  <2>1. i - Len(s) \in 1..(Len(p) - Len(d)) /\ i \in 1..(Len(s) + Len(r)) /\ ~(i <= Len(s))
    BY <1>1, <1>2
  <2>2. QED
    BY <1>2, <1>4, <2>1
<1>7. w \in Paths /\ Len(w) = Len(s) + Len(p) - Len(d) /\ \A i \in 1..Len(s) : w[i] = s[i]
  <2>1. \A i \in 1..Len(s) : i \in 1..(Len(s) + Len(r)) /\ i <= Len(s)
    BY <1>1, <1>2
  <2>2. Len(w) = Len(s) + Len(p) - Len(d)
    BY <1>1, <1>2, <1>4
  <2>3. QED
    BY <1>4, <2>1, <2>2 DEF Paths
<1>8. IsMoved(w, p, d, s)
  BY ONLY <1>6, <1>7 DEF IsMoved
<1>9. IsMoved(Moved(p, d, s), p, d, s)
  BY <1>5, <1>8
<1>10. QED
  BY <1>2, <1>9 DEF Paths, r

\* A path that is moved is a path below the new place.
LEMMA MovedPath ==
    ASSUME NEW d \in Paths, NEW s \in Paths, NEW p \in Paths, Under(d, p)
    PROVE  /\ Moved(p, d, s) \in Paths /\ Under(s, Moved(p, d, s))
           /\ Moved(d, d, s) = s
           /\ Moved(Moved(p, d, s), s, d) = p
           /\ SubSeq(Moved(p, d, s), Len(s) + 1, Len(Moved(p, d, s))) =
                SubSeq(p, Len(d) + 1, Len(p))
           /\ Len(Moved(p, d, s)) = Len(s) + Len(p) - Len(d)
<1> DEFINE w == Moved(p, d, s)
<1>1. Len(d) \in Nat /\ Len(s) \in Nat /\ Len(p) \in Nat /\ Len(d) <= Len(p)
  BY UnderOrder
<1>2. /\ w \in Paths /\ Len(w) = Len(s) + Len(p) - Len(d)
      /\ \A i \in 1..Len(s) : w[i] = s[i]
      /\ \A i \in (Len(s) + 1)..Len(w) : w[i] = p[i - Len(s) + Len(d)]
  <2>1. IsMoved(w, p, d, s)
    BY MovedIs
  <2> HIDE DEF w
  <2>2. QED
    BY <2>1 DEF IsMoved
<1> HIDE DEF w
<1>3. Under(s, w)
  BY <1>1, <1>2, UnderIs
<1>4. Moved(d, d, s) = s
  <2>1. Under(d, d)
    BY UnderOrder
  <2> DEFINE v == Moved(d, d, s)
  <2>2. v \in Paths /\ Len(v) = Len(s) + Len(d) - Len(d) /\ \A i \in 1..Len(s) : v[i] = s[i]
    <3>1. IsMoved(v, d, d, s)
      BY <2>1, MovedIs
    <3> HIDE DEF v
    <3>2. QED
      BY <3>1 DEF IsMoved
  <2> HIDE DEF v
  <2>3. v = s
    BY <1>1, <2>2, SeqEqual DEF Paths
  <2>4. QED
    BY <2>3 DEF v
<1> DEFINE r == SubSeq(p, Len(d) + 1, Len(p))
           t == SubSeq(w, Len(s) + 1, Len(w))
<1>5. /\ r \in Paths /\ Len(r) = Len(p) - Len(d)
      /\ \A i \in 1..(Len(p) - Len(d)) : r[i] = p[i + Len(d)]
  BY MovedIs
<1>6. /\ t \in Paths /\ Len(t) = Len(w) - Len(s)
      /\ \A i \in 1..(Len(w) - Len(s)) : t[i] = w[i + Len(s)]
  BY <1>2, <1>3, MovedIs
<1> HIDE DEF r, t
<1>7. t = r
  <2>1. Len(t) = Len(r)
    BY <1>1, <1>2, <1>5, <1>6
  <2>2. ASSUME NEW i \in 1..Len(t)
        PROVE  t[i] = r[i]
    <3>1. i + Len(s) \in (Len(s) + 1)..Len(w) /\ i \in 1..(Len(w) - Len(s)) /\ i \in 1..(Len(p) - Len(d))
      BY <1>1, <1>2, <1>6
    <3>2. t[i] = w[i + Len(s)] /\ w[i + Len(s)] = p[(i + Len(s)) - Len(s) + Len(d)]
      BY <1>2, <1>6, <3>1
    <3>3. (i + Len(s)) - Len(s) + Len(d) = i + Len(d)
      BY <1>1
    <3>4. QED
      BY <1>5, <3>1, <3>2, <3>3
  <2>3. QED
    BY <1>5, <1>6, <2>1, <2>2, SeqEqual DEF Paths
<1> DEFINE x == Moved(w, s, d)
<1>8. /\ x \in Paths /\ Len(x) = Len(d) + Len(w) - Len(s)
      /\ \A i \in 1..Len(d) : x[i] = d[i]
      /\ \A i \in (Len(d) + 1)..(Len(d) + Len(w) - Len(s)) : x[i] = w[i - Len(d) + Len(s)]
  <2>1. IsMoved(x, w, s, d)
    BY <1>2, <1>3, MovedIs
  <2> HIDE DEF x
  <2>2. QED
    BY <2>1 DEF IsMoved
<1> HIDE DEF x
<1>9. x = p
  <2>1. Len(x) = Len(p)
    BY <1>1, <1>2, <1>8
  <2>2. ASSUME NEW i \in 1..Len(x)
        PROVE  x[i] = p[i]
    <3>1. CASE i <= Len(d)
      BY <1>1, <1>8, <3>1, UnderIs
    <3>2. CASE i > Len(d)
      <4>1. i \in (Len(d) + 1)..(Len(d) + Len(w) - Len(s)) /\ i - Len(d) + Len(s) \in (Len(s) + 1)..Len(w)
        BY <1>1, <1>2, <1>8, <3>2
      <4>2. x[i] = w[i - Len(d) + Len(s)] /\ w[i - Len(d) + Len(s)] = p[(i - Len(d) + Len(s)) - Len(s) + Len(d)]
        BY <1>2, <1>8, <4>1
      <4>3. (i - Len(d) + Len(s)) - Len(s) + Len(d) = i
        BY <1>1, <4>1
      <4>4. QED
        BY <4>2, <4>3
    <3>3. QED
      BY <1>1, <3>1, <3>2
  <2>3. QED
    BY <1>8, <2>1, <2>2, SeqEqual DEF Paths
<1>10. QED
  BY <1>2, <1>3, <1>4, <1>7, <1>9 DEF w, r, t, x

\* Moving keeps what is below what.
LEMMA MovedOrder ==
    ASSUME NEW d \in Paths, NEW s \in Paths, NEW p \in Paths, NEW q \in Paths,
           Under(d, p), Under(d, q)
    PROVE  /\ Under(p, q) <=> Under(Moved(p, d, s), Moved(q, d, s))
           /\ p = q <=> Moved(p, d, s) = Moved(q, d, s)
<1>1. ASSUME NEW a \in Paths, NEW b \in Paths, NEW x \in Paths, NEW y \in Paths,
             Under(a, x), Under(a, y), Under(x, y)
      PROVE  Under(Moved(x, a, b), Moved(y, a, b))
  <2>1. /\ Len(a) \in Nat /\ Len(b) \in Nat /\ Len(x) \in Nat /\ Len(y) \in Nat
        /\ Len(a) <= Len(x) /\ Len(x) <= Len(y)
    BY <1>1, UnderOrder
  <2> DEFINE v == Moved(x, a, b)
             w == Moved(y, a, b)
  <2>2. /\ v \in Paths /\ Len(v) = Len(b) + Len(x) - Len(a)
        /\ \A i \in 1..Len(b) : v[i] = b[i]
        /\ \A i \in (Len(b) + 1)..(Len(b) + Len(x) - Len(a)) : v[i] = x[i - Len(b) + Len(a)]
    <3>1. IsMoved(v, x, a, b)
      BY <1>1, MovedIs
    <3> HIDE DEF v
    <3>2. QED
      BY <3>1 DEF IsMoved
  <2>3. /\ w \in Paths /\ Len(w) = Len(b) + Len(y) - Len(a)
        /\ \A i \in 1..Len(b) : w[i] = b[i]
        /\ \A i \in (Len(b) + 1)..(Len(b) + Len(y) - Len(a)) : w[i] = y[i - Len(b) + Len(a)]
    <3>1. IsMoved(w, y, a, b)
      BY <1>1, MovedIs
    <3> HIDE DEF w
    <3>2. QED
      BY <3>1 DEF IsMoved
  <2>4. \A i \in 1..Len(x) : x[i] = y[i]
    BY <1>1, UnderIs
  <2> HIDE DEF v, w
  <2>5. ASSUME NEW i \in 1..Len(v)
        PROVE  v[i] = w[i]
    <3>1. CASE i <= Len(b)
      BY <2>1, <2>2, <2>3, <3>1
    <3>2. CASE i > Len(b)
      <4>1. /\ i \in (Len(b) + 1)..(Len(b) + Len(x) - Len(a))
            /\ i \in (Len(b) + 1)..(Len(b) + Len(y) - Len(a))
            /\ i - Len(b) + Len(a) \in 1..Len(x)
        BY <2>1, <2>2, <3>2
      <4>2. QED
        BY <2>2, <2>3, <2>4, <4>1
    <3>3. QED
      BY <2>1, <2>2, <3>1, <3>2
  <2>6. Len(v) <= Len(w)
    BY <2>1, <2>2, <2>3
  <2>7. Under(v, w)
    BY <2>2, <2>3, <2>5, <2>6, UnderIs
  <2>8. QED
    BY <2>7 DEF v, w
<1>2. Under(p, q) => Under(Moved(p, d, s), Moved(q, d, s))
  BY <1>1
<1> DEFINE v == Moved(p, d, s)
           w == Moved(q, d, s)
<1>3. v \in Paths /\ w \in Paths /\ Under(s, v) /\ Under(s, w) /\ Moved(v, s, d) = p /\ Moved(w, s, d) = q
  BY MovedPath
<1> HIDE DEF v, w
<1>4. Under(v, w) => Under(p, q)
  <2>1. Under(v, w) => Under(Moved(v, s, d), Moved(w, s, d))
    BY <1>1, <1>3
  <2>2. QED
    BY <1>3, <2>1
<1>5. v = w => p = q
  BY <1>3
<1>6. QED
  BY <1>2, <1>4, <1>5 DEF v, w

\* The entry of a moved path is the moved path of the entry.
LEMMA MovedChild ==
    ASSUME NEW d \in Paths, NEW s \in Paths, NEW p \in Paths, Under(d, p), NEW n \in Names
    PROVE  Moved(Append(p, n), d, s) = Append(Moved(p, d, s), n)
<1> DEFINE c == Append(p, n)
           w == Moved(p, d, s)
           v == Moved(c, d, s)
           x == Append(w, n)
<1>1. /\ Len(d) \in Nat /\ Len(s) \in Nat /\ Len(p) \in Nat /\ Len(d) <= Len(p)
  BY UnderOrder
<1>2. /\ c \in Paths /\ Len(c) = Len(p) + 1 /\ c[Len(p) + 1] = n
      /\ \A i \in 1..Len(p) : c[i] = p[i]
  BY ChildPaths DEF Paths
<1>3. Under(d, c)
  <2>1. Under(p, c)
    BY ChildPaths
  <2>2. QED
    BY <1>2, <2>1, UnderOrder
<1>4. /\ w \in Paths /\ Len(w) = Len(s) + Len(p) - Len(d)
      /\ \A i \in 1..Len(s) : w[i] = s[i]
      /\ \A i \in (Len(s) + 1)..(Len(s) + Len(p) - Len(d)) : w[i] = p[i - Len(s) + Len(d)]
  <2>1. IsMoved(w, p, d, s)
    BY MovedIs
  <2> HIDE DEF w
  <2>2. QED
    BY <2>1 DEF IsMoved
<1> HIDE DEF c, w
<1>5. /\ v \in Paths /\ Len(v) = Len(s) + Len(c) - Len(d)
      /\ \A i \in 1..Len(s) : v[i] = s[i]
      /\ \A i \in (Len(s) + 1)..(Len(s) + Len(c) - Len(d)) : v[i] = c[i - Len(s) + Len(d)]
  <2>1. IsMoved(v, c, d, s)
    BY <1>2, <1>3, MovedIs
  <2> HIDE DEF v
  <2>2. QED
    BY <2>1 DEF IsMoved
<1>6. /\ x \in Paths /\ Len(x) = Len(w) + 1 /\ x[Len(w) + 1] = n
      /\ \A i \in 1..Len(w) : x[i] = w[i]
  BY <1>4, ChildPaths DEF Paths
<1> HIDE DEF v, x
<1>7. Len(v) = Len(x)
  BY <1>1, <1>2, <1>4, <1>5, <1>6
<1>8. ASSUME NEW i \in 1..Len(v)
      PROVE  v[i] = x[i]
  <2>1. CASE i <= Len(s)
    BY <1>1, <1>4, <1>5, <1>6, <2>1
  <2>2. CASE i > Len(s) /\ i <= Len(w)
    <3>1. /\ i \in (Len(s) + 1)..(Len(s) + Len(p) - Len(d)) /\ i \in 1..Len(w)
          /\ i \in (Len(s) + 1)..(Len(s) + Len(c) - Len(d))
          /\ i - Len(s) + Len(d) \in 1..Len(p)
      BY <1>1, <1>2, <1>4, <2>2
    <3>2. QED
      BY <1>2, <1>4, <1>5, <1>6, <3>1
  <2>3. CASE i = Len(w) + 1
    <3>1. /\ i \in (Len(s) + 1)..(Len(s) + Len(c) - Len(d)) /\ i - Len(s) + Len(d) = Len(p) + 1
      BY <1>1, <1>2, <1>4, <2>3
    <3>2. QED
      BY <1>2, <1>5, <1>6, <2>3, <3>1
  <2>4. QED
    BY <1>1, <1>4, <1>6, <1>7, <2>1, <2>2, <2>3
<1>9. v = x
  BY <1>5, <1>6, <1>7, <1>8, SeqEqual DEF Paths
<1>10. QED
  BY <1>9 DEF c, w, v, x

-----------------------------------------------------------------------------
(***************************************************************************)
(* Trees.                                                                  *)
(***************************************************************************)

\* A tree in which an entry is made or replaced, and one in which some are left
\* out, path by path.
IsPut(u, t, p, content) ==
    /\ DOMAIN u = DOMAIN t \union {p} /\ u[p] = content
    /\ \A q \in DOMAIN t \ {p} : u[q] = t[q]
    /\ u = [q \in DOMAIN u |-> u[q]]
IsWithout(u, t, gone) ==
    /\ DOMAIN u = DOMAIN t \ gone /\ \A q \in DOMAIN u : u[q] = t[q]
    /\ u = [q \in DOMAIN u |-> u[q]]

\* What Put and Without make of the tree.
LEMMA PutIs ==
    ASSUME NEW p, NEW content
    PROVE  IsPut(Put(p, content), tree, p, content)
BY DEF IsPut, Put

LEMMA WithoutIs ==
    ASSUME NEW gone
    PROVE  IsWithout(Without(gone), tree, gone)
BY DEF IsWithout, Without

\* Trees with the same entries are the same.
LEMMA SameTree ==
    ASSUME NEW t, NEW u, IsTree(t), IsTree(u), DOMAIN t = DOMAIN u,
           \A p \in DOMAIN t : t[p] = u[p]
    PROVE  t = u
<1>1. t = [p \in DOMAIN t |-> t[p]] /\ u = [p \in DOMAIN u |-> u[p]]
  BY DEF IsTree
<1>2. QED
  BY <1>1

\* A path that exists is one, and what is above it is a directory.
LEMMA Above ==
    ASSUME NEW t, IsTree(t), NEW q \in DOMAIN t
    PROVE  /\ q \in Paths /\ q # Root /\ t[q] \in Contents
           /\ \A p \in Paths : Under(p, q) /\ p # q /\ p # Root =>
                 p \in DOMAIN t /\ t[p] = "dir"
BY DEF IsTree

\* Below a file there is nothing.
LEMMA BelowFile ==
    ASSUME NEW t, IsTree(t), NEW p \in DOMAIN t, t[p] # "dir"
    PROVE  \A q \in DOMAIN t : Under(p, q) => q = p
BY Above

\* Nor below what is not there.
LEMMA BelowNothing ==
    ASSUME NEW t, IsTree(t), NEW p \in Paths, p # Root, p \notin DOMAIN t
    PROVE  \A q \in DOMAIN t : ~Under(p, q)
<1> SUFFICES ASSUME NEW q \in DOMAIN t, Under(p, q)
             PROVE  FALSE
  OBVIOUS
<1>1. p # q
  OBVIOUS
<1>2. QED
  BY <1>1, Above

\* Nor below a directory with no entries.
LEMMA BelowEmpty ==
    ASSUME IsTree(tree), NEW p \in Paths, Children(p) = {}
    PROVE  \A q \in DOMAIN tree : Under(p, q) => q = p
<1> SUFFICES ASSUME NEW q \in DOMAIN tree, Under(p, q), q # p
             PROVE  FALSE
  OBVIOUS
<1>1. q \in Paths
  BY Above
<1> DEFINE n == q[Len(p) + 1]
<1>2. n \in Names /\ Under(Append(p, n), q)
  BY <1>1, StepDown
<1> HIDE DEF n
<1>3. Append(p, n) \in Paths /\ Append(p, n) # Root
  BY <1>2, ChildPaths
<1>4. Exists(Append(p, n))
  <2>1. CASE Append(p, n) = q
    BY <2>1 DEF Exists
  <2>2. CASE Append(p, n) # q
    BY <1>2, <1>3, <2>2, Above DEF Exists
  <2>3. QED
    BY <2>1, <2>2
<1>5. n \in Children(p)
  BY <1>2, <1>4 DEF Children
<1>6. QED
  BY <1>5

\* Where a new entry can be made, everything above is a directory.
LEMMA HoldPaths ==
    ASSUME IsTree(tree), NEW p \in Paths, CanHold(p)
    PROVE  /\ p # Root
           /\ \A q \in Paths : Under(q, p) /\ q # p /\ q # Root =>
                 Exists(q) /\ tree[q] = "dir"
<1>1. p # Root /\ IsDirectory(Parent(p))
  BY DEF CanHold
<1> DEFINE f == Parent(p)
<1>2. f \in Paths /\ \A q \in Paths : Under(q, p) /\ q # p => Under(q, f)
  BY <1>1, ParentPath
<1>3. f = Root \/ (f \in DOMAIN tree /\ tree[f] = "dir")
  BY <1>1 DEF IsDirectory, Exists
<1> HIDE DEF f
<1>4. SUFFICES ASSUME NEW q \in Paths, Under(q, p), q # p, q # Root
               PROVE  Exists(q) /\ tree[q] = "dir"
  BY <1>1
<1>5. Under(q, f)
  BY <1>2, <1>4
<1>6. f # Root
  <2>1. Under(Root, q) /\ Root \in Paths
    BY UnderOrder
  <2>2. f = Root => q = Root
    BY <1>5, <2>1, <1>2, UnderOrder
  <2>3. QED
    BY <1>4, <2>2
<1>7. CASE q = f
  BY <1>3, <1>6, <1>7 DEF Exists
<1>8. CASE q # f
  BY <1>3, <1>4, <1>5, <1>6, <1>8, Above DEF Exists
<1>9. QED
  BY <1>7, <1>8

\* A new entry, or a new content, leaves a tree.
LEMMA PutTree ==
    ASSUME IsTree(tree), NEW p \in Paths, CanHold(p), ~IsDirectory(p),
           NEW content \in Contents
    PROVE  IsTree(Put(p, content))
<1> DEFINE u == Put(p, content)
<1>1. IsPut(u, tree, p, content)
  BY PutIs
<1> HIDE DEF u
<1>2. /\ p # Root
      /\ \A q \in Paths : Under(q, p) /\ q # p /\ q # Root =>
            q \in DOMAIN tree /\ tree[q] = "dir"
  BY HoldPaths DEF Exists
<1>3. p \in DOMAIN tree => tree[p] # "dir"
  BY DEF IsDirectory, Exists
<1>4. \A q \in DOMAIN tree : q \in Paths /\ q # Root /\ tree[q] \in Contents
  BY Above
<1>5. u \in [DOMAIN u -> Contents]
  BY <1>1, <1>4 DEF IsPut
<1>6. DOMAIN u \subseteq Paths \ {Root}
  BY <1>1, <1>2, <1>4 DEF IsPut
<1>7. ASSUME NEW q \in DOMAIN u, NEW r \in Paths, Under(r, q), r # q, r # Root
      PROVE  r \in DOMAIN u /\ u[r] = "dir"
  <2>1. r \in DOMAIN tree /\ tree[r] = "dir"
    <3>1. CASE q = p
      BY <1>2, <1>7, <3>1
    <3>2. CASE q # p
      <4>1. q \in DOMAIN tree
        BY <1>1, <1>7, <3>2 DEF IsPut
      <4>2. QED
        BY <1>7, <4>1, Above
    <3>3. QED
      BY <3>1, <3>2
  <2>2. r # p
    BY <1>3, <2>1
  <2>3. QED
    BY <1>1, <2>1, <2>2 DEF IsPut
<1>8. IsTree(u)
  BY <1>5, <1>6, <1>7 DEF IsTree
<1>9. QED
  BY <1>8 DEF u

\* Leaving out an entry with nothing below it leaves a tree.
LEMMA WithoutTree ==
    ASSUME IsTree(tree), NEW p \in Paths,
           \A q \in DOMAIN tree : Under(p, q) => q = p
    PROVE  IsTree(Without({p})) /\ \A q \in DOMAIN Without({p}) : ~Under(p, q)
<1> DEFINE u == Without({p})
<1>1. IsWithout(u, tree, {p})
  BY WithoutIs
<1> HIDE DEF u
<1>2. \A q \in DOMAIN tree : q \in Paths /\ q # Root /\ tree[q] \in Contents
  BY Above
<1>3. u \in [DOMAIN u -> Contents] /\ DOMAIN u \subseteq Paths \ {Root}
  BY <1>1, <1>2 DEF IsWithout
<1>4. ASSUME NEW q \in DOMAIN u, NEW r \in Paths, Under(r, q), r # q, r # Root
      PROVE  r \in DOMAIN u /\ u[r] = "dir"
  <2>1. q \in DOMAIN tree /\ q # p
    BY <1>1 DEF IsWithout
  <2>2. r \in DOMAIN tree /\ tree[r] = "dir"
    BY <1>4, <2>1, Above
  <2>3. r # p
    BY <1>4, <2>1
  <2>4. QED
    BY <1>1, <2>2, <2>3 DEF IsWithout
<1>5. IsTree(u)
  BY <1>3, <1>4 DEF IsTree
<1>6. \A q \in DOMAIN u : ~Under(p, q)
  BY <1>1 DEF IsWithout
<1>7. QED
  BY <1>5, <1>6 DEF u

\* Leaving out a whole tree leaves a tree.
LEMMA WithoutAll ==
    ASSUME IsTree(tree), NEW p \in Paths, NEW gone,
           gone = {q \in DOMAIN tree : Under(p, q)}
    PROVE  IsTree(Without(gone))
<1> DEFINE u == Without(gone)
<1>1. IsWithout(u, tree, gone)
  BY WithoutIs
<1> HIDE DEF u
<1>2. \A q \in DOMAIN tree : q \in Paths /\ q # Root /\ tree[q] \in Contents
  BY Above
<1>3. u \in [DOMAIN u -> Contents] /\ DOMAIN u \subseteq Paths \ {Root}
  BY <1>1, <1>2 DEF IsWithout
<1>4. ASSUME NEW q \in DOMAIN u, NEW r \in Paths, Under(r, q), r # q, r # Root
      PROVE  r \in DOMAIN u /\ u[r] = "dir"
  <2>1. q \in DOMAIN tree /\ ~Under(p, q) /\ q \in Paths
    BY <1>1, <1>2 DEF IsWithout
  <2>2. r \in DOMAIN tree /\ tree[r] = "dir"
    BY <1>4, <2>1, Above
  <2>3. ~Under(p, r)
    BY <1>4, <2>1, UnderOrder
  <2>4. QED
    BY <1>1, <2>2, <2>3 DEF IsWithout
<1>5. IsTree(u)
  BY <1>3, <1>4 DEF IsTree
<1>6. QED
  BY <1>5 DEF u

\* f_rename leaves a tree.
LEMMA RenamedTree ==
    ASSUME IsTree(tree), NEW src \in Paths, NEW dst \in Paths, src # Root,
           Exists(src), CanHold(dst), Exists(dst) => src = dst
    PROVE  IsTree(Renamed(src, dst))
<1> DEFINE moved == {p \in DOMAIN tree : Under(src, p)}
<1>1. CASE src = dst
  BY <1>1 DEF Renamed
<1>2. CASE src # dst /\ Under(src, dst)
  <2>1. Renamed(src, dst) = Without(moved)
    BY <1>2 DEF Renamed
  <2>2. QED
    BY <2>1, WithoutAll
<1>3. CASE src # dst /\ ~Under(src, dst)
  <2> DEFINE paths == (DOMAIN tree \ moved) \union {Moved(p, src, dst) : p \in moved}
             u == [p \in paths |-> IF Under(dst, p) THEN tree[Moved(p, dst, src)] ELSE tree[p]]
  <2>1. Renamed(src, dst) = u
    BY <1>3 DEF Renamed, Moved
  <2>2. \A q \in DOMAIN tree : q \in Paths /\ q # Root /\ tree[q] \in Contents
    BY Above
  <2>3. /\ dst # Root
        /\ \A q \in Paths : Under(q, dst) /\ q # dst /\ q # Root =>
              q \in DOMAIN tree /\ tree[q] = "dir"
    BY HoldPaths DEF Exists
  <2>4. \A q \in DOMAIN tree : ~Under(dst, q)
    <3>1. dst \notin DOMAIN tree
      BY <1>3 DEF Exists
    <3>2. QED
      BY <2>3, <3>1, BelowNothing
  <2>5. DOMAIN u = paths
    OBVIOUS
  <2>6. ASSUME NEW p \in DOMAIN tree, ~Under(src, p)
        PROVE  p \in paths /\ u[p] = tree[p]
    <3>1. p \in paths /\ ~Under(dst, p)
      BY <2>4, <2>6
    <3>2. QED
      BY <3>1
  <2>7. ASSUME NEW q \in DOMAIN tree, Under(src, q)
        PROVE  /\ Moved(q, src, dst) \in paths /\ u[Moved(q, src, dst)] = tree[q]
    <3>1. Moved(q, src, dst) \in paths
      BY <2>7
    <3>2. Under(dst, Moved(q, src, dst)) /\ Moved(Moved(q, src, dst), dst, src) = q
      BY <2>2, <2>7, MovedPath
    <3>3. QED
      BY <3>1, <3>2
  <2>8. ASSUME NEW p \in paths
        PROVE  \/ p \in DOMAIN tree /\ ~Under(src, p)
               \/ \E q \in DOMAIN tree : Under(src, q) /\ p = Moved(q, src, dst)
    OBVIOUS
  <2> HIDE DEF u, paths, moved
  <2>9. ASSUME NEW p \in paths
        PROVE  p \in Paths /\ p # Root /\ u[p] \in Contents
    <3>1. CASE p \in DOMAIN tree /\ ~Under(src, p)
      BY <2>2, <2>6, <3>1
    <3>2. CASE \E q \in DOMAIN tree : Under(src, q) /\ p = Moved(q, src, dst)
      <4>1. PICK q \in DOMAIN tree : Under(src, q) /\ p = Moved(q, src, dst)
        BY <3>2
      <4>2. p \in Paths /\ Under(dst, p) /\ u[p] = tree[q]
        BY <2>2, <2>7, <4>1, MovedPath
      <4>3. p # Root
        BY <2>3, <4>2, UnderOrder
      <4>4. QED
        BY <2>2, <4>2, <4>3
    <3>3. QED
      BY <2>8, <3>1, <3>2
  <2>10. ASSUME NEW p \in paths, NEW r \in Paths, Under(r, p), r # p, r # Root
         PROVE  r \in paths /\ u[r] = "dir"
    <3>1. CASE p \in DOMAIN tree /\ ~Under(src, p)
      <4>1. r \in DOMAIN tree /\ tree[r] = "dir"
        BY <2>10, <3>1, Above
      <4>2. ~Under(src, r)
        BY <2>9, <2>10, <3>1, UnderOrder
      <4>3. QED
        BY <2>6, <4>1, <4>2
    <3>2. CASE \E q \in DOMAIN tree : Under(src, q) /\ p = Moved(q, src, dst)
      <4>1. PICK q \in DOMAIN tree : Under(src, q) /\ p = Moved(q, src, dst)
        BY <3>2
      <4>2. q \in Paths /\ p \in Paths /\ Under(dst, p) /\ Moved(p, dst, src) = q
        BY <2>2, <4>1, MovedPath
      <4>3. CASE Under(r, dst) /\ r # dst
        <5>1. r \in DOMAIN tree /\ tree[r] = "dir"
          BY <2>3, <2>10, <4>3
        <5>2. ~Under(src, r)
          BY <1>3, <4>3, UnderOrder
        <5>3. QED
          BY <2>6, <5>1, <5>2
      <4>4. CASE Under(dst, r)
        <5> DEFINE s == Moved(r, dst, src)
        <5>1. s \in Paths /\ Under(src, s) /\ Moved(s, src, dst) = r
          BY <4>4, MovedPath
        <5>2. Under(s, q) /\ s # q
          <6>1. (Under(r, p) <=> Under(s, Moved(p, dst, src))) /\ (r = p <=> s = Moved(p, dst, src))
            BY <4>2, <4>4, MovedOrder
          <6>2. QED
            BY <2>10, <4>2, <6>1
        <5> HIDE DEF s
        <5>3. s # Root
          BY <5>1, UnderOrder
        <5>4. s \in DOMAIN tree /\ tree[s] = "dir"
          BY <5>1, <5>2, <5>3, Above
        <5>5. QED
          BY <2>7, <5>1, <5>4
      <4>5. QED
        BY <2>10, <4>2, <4>3, <4>4, UnderOrder
    <3>3. QED
      BY <2>8, <3>1, <3>2
  <2>11. u \in [paths -> Contents]
    <3>1. u = [p \in paths |-> u[p]]
      BY DEF u
    <3>2. QED
      BY <2>9, <3>1
  <2>12. IsTree(u)
    <3>1. DOMAIN u \subseteq Paths \ {Root}
      BY <2>5, <2>9
    <3>2. QED
      BY <2>5, <2>10, <2>11, <3>1 DEF IsTree
  <2>13. QED
    BY <2>1, <2>12
<1>4. QED
  BY <1>1, <1>2, <1>3

\* The paths on the way to a path are those it begins with.
LEMMA OnTheWay ==
    ASSUME NEW p \in Paths
    PROVE  {SubSeq(p, 1, k) : k \in 1..Len(p)} = {q \in Paths : Under(q, p) /\ q # Root}
<1>1. Len(p) \in Nat
  BY UnderOrder
<1>2. ASSUME NEW k \in 1..Len(p)
      PROVE  /\ SubSeq(p, 1, k) \in Paths /\ Len(SubSeq(p, 1, k)) = k
             /\ \A i \in 1..k : SubSeq(p, 1, k)[i] = p[i]
  <2> DEFINE r == SubSeq(p, 1, k)
  <2>1. 1 \in Int /\ k \in Int /\ k >= 1 /\ \A i \in 1..k : p[i] \in Names
    BY <1>1 DEF Paths
  <2>2. /\ r \in Seq(Names) /\ Len(r) = IF 1 <= k THEN k - 1 + 1 ELSE 0
        /\ \A i \in 1..(k - 1 + 1) : r[i] = p[1 + i - 1]
    BY <2>1, SubSeqProperties
  <2> HIDE DEF r
  <2>3. r \in Seq(Names) /\ Len(r) = k /\ \A i \in 1..k : r[i] = p[i]
    BY <2>1, <2>2
  <2>4. QED
    BY <2>3 DEF r, Paths
<1>3. ASSUME NEW k \in 1..Len(p)
      PROVE  SubSeq(p, 1, k) \in Paths /\ Under(SubSeq(p, 1, k), p) /\ SubSeq(p, 1, k) # Root
  <2> DEFINE r == SubSeq(p, 1, k)
  <2>1. r \in Paths /\ Len(r) = k /\ \A i \in 1..k : r[i] = p[i]
    BY <1>2
  <2> HIDE DEF r
  <2>2. Under(r, p)
    BY <1>1, <2>1, UnderIs
  <2>3. r # Root
    BY <2>1 DEF Root
  <2>4. QED
    BY <2>1, <2>2, <2>3 DEF r
<1>4. ASSUME NEW q \in Paths, Under(q, p), q # Root
      PROVE  \E k \in 1..Len(p) : q = SubSeq(p, 1, k)
  <2>1. Len(q) \in 1..Len(p)
    <3>1. Len(q) \in Nat /\ Len(q) <= Len(p)
      BY <1>4, UnderOrder
    <3>2. Len(q) # 0
      BY <1>4 DEF Paths, Root
    <3>3. QED
      BY <1>1, <3>1, <3>2
  <2> DEFINE r == SubSeq(p, 1, Len(q))
  <2>2. r \in Paths /\ Len(r) = Len(q) /\ Under(r, p)
    BY <1>2, <1>3, <2>1
  <2> HIDE DEF r
  <2>3. r = q
    BY <1>4, <2>2, UnderOrder
  <2>4. QED
    BY <2>1, <2>3 DEF r
<1>5. QED
  BY <1>3, <1>4

\* Making the directories on the way, as far as no file is in it.
LEMMA WayTree ==
    ASSUME IsTree(tree), NEW p \in Paths, NEW way,
           way \subseteq {q \in Paths : Under(q, p) /\ q # Root},
           \A q \in way, r \in Paths : Under(r, q) /\ r # Root => r \in way,
           \A q \in way : Exists(q) => tree[q] = "dir",
           NEW u, u = [q \in way \union DOMAIN tree |-> IF Exists(q) THEN tree[q] ELSE "dir"]
    PROVE  IsTree(u)
<1>1. \A q \in DOMAIN tree : q \in Paths /\ q # Root /\ tree[q] \in Contents
  BY Above
<1>2. DOMAIN u = way \union DOMAIN tree
  OBVIOUS
<1>3. \A q \in DOMAIN tree : u[q] = tree[q]
  BY DEF Exists
<1>4. \A q \in way : u[q] = "dir"
  OBVIOUS
<1>5. u \in [DOMAIN u -> Contents]
  <2>1. \A q \in DOMAIN u : u[q] \in Contents
    BY <1>1, <1>2, <1>3, <1>4 DEF Contents
  <2>2. QED
    BY <2>1
<1>6. DOMAIN u \subseteq Paths \ {Root}
  BY <1>1, <1>2
<1>7. ASSUME NEW q \in DOMAIN u, NEW r \in Paths, Under(r, q), r # q, r # Root
      PROVE  r \in DOMAIN u /\ u[r] = "dir"
  <2>1. CASE q \in way
    <3>1. r \in way
      BY <1>7, <2>1
    <3>2. QED
      BY <1>2, <1>4, <3>1
  <2>2. CASE q \in DOMAIN tree
    <3>1. r \in DOMAIN tree /\ tree[r] = "dir"
      BY <1>7, <2>2, Above
    <3>2. QED
      BY <1>2, <1>3, <3>1
  <2>3. QED
    BY <1>2, <2>1, <2>2
<1>8. QED
  BY <1>5, <1>6, <1>7 DEF IsTree

-----------------------------------------------------------------------------
(***************************************************************************)
(* The stack of calls.                                                     *)
(***************************************************************************)

\* A call goes on, calls another, or returns.
Became(f) ==
    /\ stack' \in Seq(Frames) /\ Len(stack') = Len(stack) /\ reply' = reply
    /\ \A i \in 1..(Len(stack) - 1) : stack'[i] = stack[i]
    /\ stack'[Len(stack)] = f
Pushed(f, g) ==
    /\ stack' \in Seq(Frames) /\ Len(stack') = Len(stack) + 1 /\ reply' = reply
    /\ \A i \in 1..(Len(stack) - 1) : stack'[i] = stack[i]
    /\ stack'[Len(stack)] = f /\ stack'[Len(stack) + 1] = g
\* The call below the one that returns.
Resumed(f, up, result) ==
    /\ f \in Frames /\ f.does = up.does /\ f.src = up.src /\ f.dst = up.dst /\ f.todo = up.todo
    /\ result = "ok" \/ up.at = "cleaned" => f = up
    /\ result = "error" /\ up.at # "cleaned" => f.at = "close" /\ f.result = "error"
Popped(result) ==
    \/ Len(stack) = 1 /\ stack' = <<>> /\ reply' = result
    \/ /\ Len(stack) > 1 /\ stack' \in Seq(Frames) /\ Len(stack') = Len(stack) - 1
       /\ reply' = reply
       /\ \A i \in 1..(Len(stack) - 2) : stack'[i] = stack[i]
       /\ Resumed(stack'[Len(stack) - 1], stack[Len(stack) - 1], result)

\* The call on top of the stack.
LEMMA TopIs ==
    ASSUME stack \in Seq(Frames), stack # <<>>
    PROVE  /\ Len(stack) \in Nat /\ Len(stack) >= 1 /\ Top = stack[Len(stack)] /\ Top \in Frames
           /\ \A i \in 1..Len(stack) : stack[i] \in Frames
           /\ DOMAIN stack = 1..Len(stack)
BY DEF Top, Last

\* The stack after the call on top has gone on, has called, or has returned.
LEMMA BecomeIs ==
    ASSUME stack \in Seq(Frames), stack # <<>>, NEW f \in Frames, Become(f)
    PROVE  Became(f)
<1>1. Len(stack) \in 1..Len(stack) /\ Len(stack) \in Nat
  BY TopIs
<1>2. stack' = [stack EXCEPT ![Len(stack)] = f] /\ reply' = reply
  BY DEF Become
<1>3. /\ stack' \in Seq(Frames) /\ Len(stack') = Len(stack)
      /\ \A j \in 1..Len(stack) : stack'[j] = IF j = Len(stack) THEN f ELSE stack[j]
  BY <1>1, <1>2, ExceptSeq
<1>4. \A i \in 1..(Len(stack) - 1) : i \in 1..Len(stack) /\ i # Len(stack)
  BY <1>1
<1>5. stack'[Len(stack)] = f /\ \A i \in 1..(Len(stack) - 1) : stack'[i] = stack[i]
  BY <1>1, <1>3, <1>4
<1>6. QED
  BY <1>2, <1>3, <1>5 DEF Became

LEMMA PushIs ==
    ASSUME stack \in Seq(Frames), stack # <<>>, NEW f \in Frames, NEW g \in Frames,
           stack' = Append([stack EXCEPT ![Len(stack)] = f], g), UNCHANGED reply
    PROVE  Pushed(f, g)
<1>1. Len(stack) \in 1..Len(stack) /\ Len(stack) \in Nat
  BY TopIs
<1> DEFINE s == [stack EXCEPT ![Len(stack)] = f]
<1>2. /\ s \in Seq(Frames) /\ Len(s) = Len(stack)
      /\ \A j \in 1..Len(stack) : s[j] = IF j = Len(stack) THEN f ELSE stack[j]
  BY <1>1, ExceptSeq
<1>3. stack' = Append(s, g)
  OBVIOUS
<1> HIDE DEF s
<1>4. /\ stack' \in Seq(Frames) /\ Len(stack') = Len(s) + 1 /\ stack'[Len(s) + 1] = g
      /\ \A j \in 1..Len(s) : stack'[j] = s[j]
  BY <1>2, <1>3
<1>5. QED
  BY <1>1, <1>2, <1>4 DEF Pushed

LEMMA ReturnIs ==
    ASSUME stack \in Seq(Frames), stack # <<>>, NEW result \in {"ok", "error"}, Return(result)
    PROVE  Popped(result)
<1> DEFINE n == Len(stack)
<1>1. n \in Nat /\ n >= 1 /\ \A i \in 1..n : stack[i] \in Frames
  BY TopIs
<1>2. CASE n = 1
  BY <1>2 DEF Return, Popped
<1>3. CASE n > 1
  <2> DEFINE up == stack[n - 1]
             f == IF result = "ok" \/ up.at = "cleaned" THEN up
                  ELSE [up EXCEPT !.at = "close", !.result = "error"]
             s == Front(stack)
  <2>1. stack' = [s EXCEPT ![n - 1] = f] /\ reply' = reply
    BY <1>1, <1>3 DEF Return
  <2>2. up \in Frames /\ n - 1 \in 1..n
    BY <1>1, <1>3
  <2> HIDE DEF up
  <2>3. f \in Frames /\ Resumed(f, up, result)
    BY <2>2 DEF Frames, Resumed
  <2> HIDE DEF f
  <2>4. s \in Seq(Frames) /\ Len(s) = n - 1 /\ \A i \in 1..(n - 1) : s[i] = stack[i]
    <3> DEFINE m == n - 1
               r == SubSeq(stack, 1, m)
    <3>1. 1 \in Int /\ m \in Int /\ m >= 1 /\ \A i \in 1..m : stack[i] \in Frames
      BY <1>1, <1>3
    <3>2. s = r
      BY DEF Front
    <3> HIDE DEF m, s
    <3>3. /\ r \in Seq(Frames) /\ Len(r) = IF 1 <= m THEN m - 1 + 1 ELSE 0
          /\ \A i \in 1..(m - 1 + 1) : r[i] = stack[1 + i - 1]
      BY <3>1, SubSeqProperties
    <3> HIDE DEF r
    <3>4. r \in Seq(Frames) /\ Len(r) = m /\ \A i \in 1..m : r[i] = stack[i]
      BY <3>1, <3>3
    <3>5. QED
      BY <3>2, <3>4 DEF m
  <2> HIDE DEF s, n
  <2>5. n - 1 \in 1..Len(s)
    BY <1>1, <1>3, <2>4
  <2>6. /\ stack' \in Seq(Frames) /\ Len(stack') = Len(s)
        /\ \A j \in 1..Len(s) : stack'[j] = IF j = n - 1 THEN f ELSE s[j]
    BY <2>1, <2>3, <2>4, <2>5, ExceptSeq
  <2>7. stack'[n - 1] = f /\ \A i \in 1..(n - 2) : stack'[i] = stack[i]
    BY <1>1, <1>3, <2>4, <2>6
  <2>8. QED
    BY <1>3, <2>1, <2>3, <2>4, <2>6, <2>7 DEF Popped, n, up
<1> HIDE DEF n
<1>4. n = 1 \/ n > 1
  BY <1>1
<1>5. QED
  BY <1>2, <1>3, <1>4

\* Only some of the fields say whether a call waits for another.
LEMMA CallsSame ==
    ASSUME NEW f, NEW g, NEW h, Calls(f, g), h.does = g.does, h.src = g.src, h.dst = g.dst
    PROVE  Calls(f, h)
BY DEF Calls

\* The stack stays true when the call on top goes on.
LEMMA BecameStack ==
    ASSUME stack \in Seq(Frames), stack # <<>>, StackTrue, UNCHANGED task,
           NEW f, Became(f), FrameTrue(f),
           f.does = Top.does, f.src = Top.src, f.dst = Top.dst
    PROVE  StackTrue' /\ stack' # <<>>
<1> DEFINE n == Len(stack)
<1>1. n \in Nat /\ n >= 1 /\ Top = stack[n]
  BY TopIs
<1>2. /\ Len(stack') = n /\ reply' = reply /\ stack' \in Seq(Frames)
      /\ \A i \in 1..(n - 1) : stack'[i] = stack[i]
      /\ stack'[n] = f
  BY DEF Became
<1>3. /\ task.op \in {"copy", "delete"} /\ reply = "none"
      /\ stack[1].does = task.op /\ stack[1].src = task.src /\ stack[1].dst = task.dst
      /\ task.op = "delete" => task.src = task.dst
      /\ \A i \in 1..n : FrameTrue(stack[i])
      /\ \A i \in 1..(n - 1) : Calls(stack[i], stack[i + 1])
      /\ \A i \in 1..n : stack[i].does = "delete" /\ task.op = "copy" =>
            \E j \in 1..(i - 1) : stack[j].at = "cleaned"
  BY DEF StackTrue
<1> HIDE DEF n
<1>4. stack' # <<>>
  BY <1>1, <1>2
<1>5. \A i \in 1..n : /\ stack'[i].does = stack[i].does /\ stack'[i].src = stack[i].src
                     /\ stack'[i].dst = stack[i].dst
  BY <1>1, <1>2
<1>6. \A i \in 1..n : FrameTrue(stack'[i])
  BY <1>1, <1>2, <1>3
<1>7. ASSUME NEW i \in 1..(n - 1)
      PROVE  Calls(stack'[i], stack'[i + 1])
  <2>1. Calls(stack[i], stack[i + 1]) /\ stack'[i] = stack[i] /\ i + 1 \in 1..n
    BY <1>1, <1>2, <1>3
  <2>2. Calls(stack[i], stack'[i + 1])
    BY <1>5, <2>1, CallsSame
  <2>3. QED
    BY <2>1, <2>2
<1>8. ASSUME NEW i \in 1..n, stack'[i].does = "delete", task.op = "copy"
      PROVE  \E j \in 1..(i - 1) : stack'[j].at = "cleaned"
  <2>1. PICK j \in 1..(i - 1) : stack[j].at = "cleaned"
    BY <1>3, <1>5, <1>8
  <2>2. stack'[j] = stack[j]
    BY <1>1, <1>2
  <2>3. QED
    BY <2>1, <2>2
<1>9. \A i \in 1..n : FrameTrue(stack[i])'
  BY <1>6 DEF FrameTrue, Origin
<1>10. StackTrue'
  <2>1. /\ task'.op \in {"copy", "delete"} /\ reply' = "none"
        /\ stack'[1].does = task'.op /\ stack'[1].src = task'.src /\ stack'[1].dst = task'.dst
        /\ task'.op = "delete" => task'.src = task'.dst
    BY <1>1, <1>2, <1>3, <1>5
  <2>2. QED
    BY <1>2, <1>7, <1>8, <1>9, <2>1 DEF StackTrue
<1>11. QED
  BY <1>4, <1>10

\* And when it calls another.
LEMMA PushedStack ==
    ASSUME stack \in Seq(Frames), stack # <<>>, StackTrue, UNCHANGED task,
           NEW f, NEW g, Pushed(f, g), FrameTrue(f), FrameTrue(g), Calls(f, g),
           f.does = Top.does, f.src = Top.src, f.dst = Top.dst
    PROVE  StackTrue' /\ stack' # <<>>
<1> DEFINE n == Len(stack)
<1>1. n \in Nat /\ n >= 1 /\ Top = stack[n]
  BY TopIs
<1>2. /\ Len(stack') = n + 1 /\ reply' = reply /\ stack' \in Seq(Frames)
      /\ \A i \in 1..(n - 1) : stack'[i] = stack[i]
      /\ stack'[n] = f /\ stack'[n + 1] = g
  BY DEF Pushed
<1>3. /\ task.op \in {"copy", "delete"} /\ reply = "none"
      /\ stack[1].does = task.op /\ stack[1].src = task.src /\ stack[1].dst = task.dst
      /\ task.op = "delete" => task.src = task.dst
      /\ \A i \in 1..n : FrameTrue(stack[i])
      /\ \A i \in 1..(n - 1) : Calls(stack[i], stack[i + 1])
      /\ \A i \in 1..n : stack[i].does = "delete" /\ task.op = "copy" =>
            \E j \in 1..(i - 1) : stack[j].at = "cleaned"
  BY DEF StackTrue
<1> HIDE DEF n
<1>4. stack' # <<>>
  BY <1>1, <1>2
<1>5. \A i \in 1..n : /\ stack'[i].does = stack[i].does /\ stack'[i].src = stack[i].src
                     /\ stack'[i].dst = stack[i].dst
  BY <1>1, <1>2
<1>6. \A i \in 1..(n + 1) : FrameTrue(stack'[i])
  BY <1>1, <1>2, <1>3
<1>7. ASSUME NEW i \in 1..n
      PROVE  Calls(stack'[i], stack'[i + 1])
  <2>1. CASE i = n
    BY <1>2, <2>1
  <2>2. CASE i # n
    <3>1. Calls(stack[i], stack[i + 1]) /\ stack'[i] = stack[i] /\ i + 1 \in 1..n
      BY <1>1, <1>2, <1>3, <2>2
    <3>2. Calls(stack[i], stack'[i + 1])
      BY <1>5, <3>1, CallsSame
    <3>3. QED
      BY <3>1, <3>2
  <2>3. QED
    BY <2>1, <2>2
<1>8. ASSUME NEW i \in 1..(n + 1), stack'[i].does = "delete", task.op = "copy"
      PROVE  \E j \in 1..(i - 1) : stack'[j].at = "cleaned"
  <2>1. CASE i = n + 1 /\ f.at = "cleaned"
    BY <1>1, <1>2, <2>1
  <2>2. CASE i = n + 1 /\ f.at # "cleaned"
    <3>1. f.does = "delete"
      BY <1>2, <1>8, <2>2 DEF Calls
    <3>2. PICK j \in 1..(n - 1) : stack[j].at = "cleaned"
      BY <1>1, <1>3, <1>8, <3>1
    <3>3. QED
      BY <1>1, <1>2, <2>2, <3>2
  <2>3. CASE i # n + 1
    <3>1. i \in 1..n
      BY <1>1, <2>3
    <3>2. PICK j \in 1..(i - 1) : stack[j].at = "cleaned"
      BY <1>3, <1>5, <1>8, <3>1
    <3>3. stack'[j] = stack[j]
      BY <1>1, <1>2, <3>1
    <3>4. QED
      BY <3>2, <3>3
  <2>4. QED
    BY <2>1, <2>2, <2>3
<1>9. \A i \in 1..(n + 1) : FrameTrue(stack[i])'
  BY <1>6 DEF FrameTrue, Origin
<1>10. StackTrue'
  <2>1. /\ task'.op \in {"copy", "delete"} /\ reply' = "none"
        /\ stack'[1].does = task'.op /\ stack'[1].src = task'.src /\ stack'[1].dst = task'.dst
        /\ task'.op = "delete" => task'.src = task'.dst
    BY <1>1, <1>2, <1>3, <1>5
  <2>2. (n + 1) - 1 = n
    BY <1>1
  <2>3. QED
    BY <1>2, <1>7, <1>8, <1>9, <2>1, <2>2 DEF StackTrue
<1>11. QED
  BY <1>4, <1>10

\* And when it returns.
LEMMA PoppedStack ==
    ASSUME stack \in Seq(Frames), stack # <<>>, StackTrue, UNCHANGED task,
           NEW result \in {"ok", "error"}, Popped(result)
    PROVE  StackTrue'
<1> DEFINE n == Len(stack)
<1>1. n \in Nat /\ n >= 1 /\ Top = stack[n] /\ \A i \in 1..n : stack[i] \in Frames
  BY TopIs
<1>2. CASE stack' = <<>>
  BY <1>2 DEF StackTrue
<1>3. CASE stack' # <<>>
  <2>1. /\ n > 1 /\ Len(stack') = n - 1 /\ reply' = reply /\ stack' \in Seq(Frames)
        /\ \A i \in 1..(n - 2) : stack'[i] = stack[i]
        /\ Resumed(stack'[n - 1], stack[n - 1], result)
    BY <1>3 DEF Popped
  <2>2. /\ task.op \in {"copy", "delete"} /\ reply = "none"
        /\ stack[1].does = task.op /\ stack[1].src = task.src /\ stack[1].dst = task.dst
        /\ task.op = "delete" => task.src = task.dst
        /\ \A i \in 1..n : FrameTrue(stack[i])
        /\ \A i \in 1..(n - 1) : Calls(stack[i], stack[i + 1])
        /\ \A i \in 1..n : stack[i].does = "delete" /\ task.op = "copy" =>
              \E j \in 1..(i - 1) : stack[j].at = "cleaned"
    BY <1>1 DEF StackTrue
  <2> HIDE DEF n
  <2>3. n - 1 \in 1..n /\ \A i \in 1..(n - 1) : i \in 1..n /\ (i # n - 1 => i \in 1..(n - 2))
    BY <1>1, <2>1
  <2> DEFINE up == stack[n - 1]
             f == stack'[n - 1]
  <2>4. f.does = up.does /\ f.src = up.src /\ f.dst = up.dst /\ f \in Frames
    BY <2>1 DEF Resumed
  <2>5. \A i \in 1..(n - 1) : /\ stack'[i].does = stack[i].does /\ stack'[i].src = stack[i].src
                             /\ stack'[i].dst = stack[i].dst
    BY <2>1, <2>3, <2>4
  <2>6. \A i \in 1..(n - 1) : FrameTrue(stack'[i])
    <3>1. FrameTrue(up)
      BY <2>2, <2>3
    <3>2. f = up \/ (f.at = "close" /\ f.result = "error")
      BY <2>1 DEF Resumed
    <3> HIDE DEF f, up
    <3>3. FrameTrue(f)
      BY <2>4, <3>1, <3>2 DEF FrameTrue
    <3>4. FrameTrue(stack'[n - 1])
      BY <3>3 DEF f
    <3>5. QED
      BY <2>1, <2>2, <2>3, <3>4
  <2>7. ASSUME NEW i \in 1..((n - 1) - 1)
        PROVE  Calls(stack'[i], stack'[i + 1])
    <3>1. Calls(stack[i], stack[i + 1]) /\ stack'[i] = stack[i] /\ i + 1 \in 1..(n - 1)
      BY <1>1, <2>1, <2>2
    <3>2. Calls(stack[i], stack'[i + 1])
      BY <2>5, <3>1, CallsSame
    <3>3. QED
      BY <3>1, <3>2
  <2>8. ASSUME NEW i \in 1..(n - 1), stack'[i].does = "delete", task.op = "copy"
        PROVE  \E j \in 1..(i - 1) : stack'[j].at = "cleaned"
    <3>1. PICK j \in 1..(i - 1) : stack[j].at = "cleaned"
      BY <2>2, <2>3, <2>5, <2>8
    <3>2. stack'[j] = stack[j]
      BY <1>1, <2>1
    <3>3. QED
      BY <3>1, <3>2
  <2>9. \A i \in 1..(n - 1) : FrameTrue(stack[i])'
    BY <2>6 DEF FrameTrue, Origin
  <2>10. StackTrue'
    <3>1. /\ task'.op \in {"copy", "delete"} /\ reply' = "none"
          /\ stack'[1].does = task'.op /\ stack'[1].src = task'.src /\ stack'[1].dst = task'.dst
          /\ task'.op = "delete" => task'.src = task'.dst
      BY <1>1, <2>1, <2>2, <2>5
    <3>2. QED
      BY <2>1, <2>7, <2>8, <2>9, <3>1 DEF StackTrue
  <2>11. QED
    BY <2>10
<1>4. QED
  BY <1>2, <1>3

\* A call that waits is in its loop, or lets its destination be cleaned.
LEMMA Waiting ==
    ASSUME stack \in Seq(Frames), stack # <<>>, StackTrue
    PROVE  /\ \A i \in 1..(Len(stack) - 1) :
                /\ stack[i].at \in {"loop", "cleaned"} /\ i \in 1..Len(stack) /\ i + 1 \in 1..Len(stack)
                /\ stack[i].at = "loop" => stack[i + 1].does = stack[i].does
                /\ stack[i].at = "cleaned" => /\ stack[i].does = "copy"
                                              /\ stack[i + 1].does = "delete"
                                              /\ stack[i + 1].dst = stack[i].dst
                /\ stack[i + 1].does = "copy" => stack[i].does = "copy" /\ stack[i].at = "loop"
           /\ \A i \in 1..Len(stack) :
                /\ stack[i] \in Frames /\ FrameTrue(stack[i])
                /\ stack[i].does = "delete" => stack[i].at \in {"enter", "loop", "close"}
                /\ stack[i].at \in {"enter", "open", "loop"} => stack[i].result = "ok"
                /\ stack[i].does \in {"copy", "delete"}
<1>1. Len(stack) \in Nat /\ Len(stack) >= 1 /\ \A i \in 1..Len(stack) : stack[i] \in Frames
  BY TopIs
<1>2. /\ \A i \in 1..Len(stack) : FrameTrue(stack[i])
      /\ \A i \in 1..(Len(stack) - 1) : Calls(stack[i], stack[i + 1])
  BY DEF StackTrue
<1>3. \A i \in 1..(Len(stack) - 1) : i \in 1..Len(stack) /\ i + 1 \in 1..Len(stack)
  BY <1>1
<1>4. \A i \in 1..Len(stack) : stack[i].does \in {"copy", "delete"}
  BY <1>1 DEF Frames
<1>5. QED
  BY <1>1, <1>2, <1>3, <1>4 DEF Calls, FrameTrue

\* No answer is judged before there is one.
LEMMA NoReply ==
    ASSUME reply' = "none"
    PROVE  TreeReplyTrue'
BY DEF TreeReplyTrue

\* While there is no answer, nothing is promised of it.
LEMMA ReplyIsNone ==
    ASSUME StackTrue, stack # <<>>
    PROVE  reply = "none" /\ task.op \in {"copy", "delete"}
BY DEF StackTrue

\* A call that copies fails: the calls below fail with it.
LEMMA CopyFails ==
    ASSUME TreeInvariant, stack # <<>>, Top.does = "copy", Popped("error"),
           UNCHANGED <<task, earlier>>
    PROVE  CopyTrue' /\ CopiedTrue' /\ IntoItselfTrue'
<1> DEFINE n == Len(stack)
<1>1. stack \in Seq(Frames) /\ StackTrue /\ CopyTrue /\ IntoItselfTrue
  BY DEF TreeInvariant, TreeTypes
<1>2. n \in Nat /\ n >= 1 /\ Top = stack[n]
  BY <1>1, TopIs
<1>3. CASE stack' = <<>>
  BY <1>3 DEF CopyTrue, CopiedTrue, IntoItselfTrue
<1>4. CASE stack' # <<>>
  <2>1. /\ n > 1 /\ Len(stack') = n - 1 /\ stack' \in Seq(Frames)
        /\ \A i \in 1..(n - 2) : stack'[i] = stack[i]
        /\ Resumed(stack'[n - 1], stack[n - 1], "error")
    BY <1>4 DEF Popped
  <2>2. n - 1 \in 1..(n - 1) /\ (n - 1) + 1 = n
    BY <1>2, <2>1
  <2>3. /\ \A i \in 1..(n - 1) :
             /\ stack[i].at \in {"loop", "cleaned"}
             /\ stack[i + 1].does = "copy" => stack[i].does = "copy" /\ stack[i].at = "loop"
    BY <1>1, Waiting
  <2>4. stack[n - 1].does = "copy" /\ stack[n - 1].at = "loop"
    <3>1. stack[(n - 1) + 1].does = "copy"
      BY <1>2, <2>2
    <3>2. QED
      BY <2>2, <2>3, <3>1
  <2> DEFINE f == stack'[n - 1]
  <2>5. f.does = "copy" /\ f.at = "close" /\ f.result = "error" /\ f.src = stack[n - 1].src
    BY <2>1, <2>4 DEF Resumed
  <2> HIDE DEF n
  <2>6. Top' = f
    BY <2>1 DEF Top, Last
  <2>7. Started /\ Started'
    <3>1. Started
      BY <2>1 DEF Started, n
    <3>2. Started'
      BY <2>5, <2>6 DEF Started
    <3>3. QED
      BY <3>1, <3>2
  <2>8. CopyTrue'
    BY <1>1, <2>5, <2>6, <2>7 DEF CopyTrue
  <2>9. ~Well'
    BY <2>1, <2>2, <2>5 DEF Well
  <2>10. CopiedTrue'
    BY <2>9 DEF CopiedTrue
  <2>11. IntoItselfTrue'
    <3> SUFFICES ASSUME task.op = "copy", NEW i \in 1..(n - 1), stack'[i].does = "copy",
                        IntoItself(stack'[i])
                 PROVE  /\ stack'[i].at = "enter" /\ stack'[i].src = stack'[i].dst => ~Exists(stack[i].src)'
                        /\ stack'[i].at \in {"open", "loop"} => stack'[i].src # stack'[i].dst
                        /\ stack'[i].at = "loop" =>
                              \/ Toward(stack'[i]) \in stack'[i].todo
                              \/ i < n - 1 /\ stack'[i + 1].src = Append(stack'[i].src, Toward(stack'[i]))
                        /\ stack'[i].at = "close" => stack'[i].result = "error"
      BY <2>1 DEF IntoItselfTrue
    <3>1. CASE i = n - 1
      BY <2>5, <3>1
    <3>2. CASE i # n - 1
      <4>1. i \in 1..(n - 2) /\ i \in 1..n /\ i < n - 1 /\ i + 1 \in 1..(n - 1)
        BY <1>2, <3>2
      <4>2. stack'[i] = stack[i]
        BY <2>1, <4>1
      <4>3. stack'[i + 1].src = stack[i + 1].src
        <5>1. CASE i + 1 = n - 1
          BY <2>5, <5>1
        <5>2. CASE i + 1 # n - 1
          <6>1. i + 1 \in 1..(n - 2)
            BY <1>2, <4>1, <5>2
          <6>2. QED
            BY <2>1, <6>1
        <5>3. QED
          BY <5>1, <5>2
      <4>4. stack[i].at \in {"loop", "cleaned"}
        BY <2>3
      <4>5. /\ stack[i].at \in {"open", "loop"} => stack[i].src # stack[i].dst
            /\ stack[i].at = "loop" =>
                  \/ Toward(stack[i]) \in stack[i].todo
                  \/ stack[i + 1].src = Append(stack[i].src, Toward(stack[i]))
        BY <1>1, <4>1, <4>2 DEF IntoItselfTrue, n
      <4>6. QED
        BY <4>1, <4>2, <4>3, <4>4, <4>5
    <3>3. QED
      BY <3>1, <3>2
  <2>12. QED
    BY <2>8, <2>10, <2>11
<1>5. QED
  BY <1>3, <1>4

\* The calls below a deletion wait for it, or fail with it.
LEMMA DeleteGoesOn ==
    ASSUME TreeInvariant, stack # <<>>, Top.does = "delete",
           UNCHANGED <<task, earlier>>, StackTrue',
           \/ \E f : Became(f) /\ f.does = "delete"
           \/ \E f, g : Pushed(f, g) /\ f.does = "delete" /\ g.does = "delete"
           \/ Popped("ok") /\ \A p \in DOMAIN tree' : ~Under(Top.dst, p)
           \/ Popped("error") /\ (task.op = "copy" => unclean')
    PROVE  CopyTrue' /\ CopiedTrue' /\ IntoItselfTrue'
<1> DEFINE n == Len(stack)
           m == Len(stack')
<1>1. stack \in Seq(Frames) /\ StackTrue /\ CopyTrue /\ IntoItselfTrue
  BY DEF TreeInvariant, TreeTypes
<1>2. n \in Nat /\ n >= 1 /\ Top = stack[n]
  BY <1>1, TopIs
<1>3. CASE task.op # "copy" \/ stack' = <<>>
  BY <1>3 DEF CopyTrue, CopiedTrue, IntoItselfTrue
<1>4. CASE task.op = "copy" /\ stack' # <<>>
  <2>1. n > 1
    <3>1. n # 1
      BY <1>1, <1>2, <1>4 DEF StackTrue
    <3> HIDE DEF n
    <3>2. QED
      BY <1>2, <3>1
  <2>2. /\ stack' \in Seq(Frames) /\ m \in {n - 1, n, n + 1}
        /\ \A i \in 1..(n - 2) : stack'[i] = stack[i]
        /\ m # n - 1 => stack'[n - 1] = stack[n - 1] /\ stack'[m].does = "delete" /\ stack'[n].does = "delete"
        /\ m = n - 1 => \/ Resumed(stack'[n - 1], stack[n - 1], "error") /\ unclean'
                        \/ /\ Resumed(stack'[n - 1], stack[n - 1], "ok")
                           /\ \A p \in DOMAIN tree' : ~Under(Top.dst, p)
    <3>0. \A i \in 1..(n - 2) : i \in 1..(n - 1)
      BY <1>2
    <3>1. n - 1 \in 1..(n - 1)
      BY <1>2, <2>1
    <3>2. ASSUME NEW f, Became(f), f.does = "delete"
          PROVE  /\ stack' \in Seq(Frames) /\ m = n
                 /\ \A i \in 1..(n - 1) : stack'[i] = stack[i]
                 /\ stack'[n].does = "delete"
      BY <3>2 DEF Became
    <3>3. ASSUME NEW f, NEW g, Pushed(f, g), f.does = "delete", g.does = "delete"
          PROVE  /\ stack' \in Seq(Frames) /\ m = n + 1
                 /\ \A i \in 1..(n - 1) : stack'[i] = stack[i]
                 /\ stack'[n].does = "delete" /\ stack'[n + 1].does = "delete"
      BY <3>3 DEF Pushed
    <3>4. ASSUME NEW result \in {"ok", "error"}, Popped(result)
          PROVE  /\ stack' \in Seq(Frames) /\ m = n - 1
                 /\ \A i \in 1..(n - 2) : stack'[i] = stack[i]
                 /\ Resumed(stack'[n - 1], stack[n - 1], result)
      BY <1>4, <3>4 DEF Popped
    <3> HIDE DEF n, m
    <3>5. CASE \E f : Became(f) /\ f.does = "delete"
      <4>1. /\ stack' \in Seq(Frames) /\ m = n
            /\ \A i \in 1..(n - 1) : stack'[i] = stack[i]
            /\ stack'[n].does = "delete"
        BY <3>2, <3>5
      <4>2. m # n - 1
        BY <1>2, <4>1
      <4>3. QED
        BY <3>0, <3>1, <4>1, <4>2
    <3>6. CASE \E f, g : Pushed(f, g) /\ f.does = "delete" /\ g.does = "delete"
      <4>1. /\ stack' \in Seq(Frames) /\ m = n + 1
            /\ \A i \in 1..(n - 1) : stack'[i] = stack[i]
            /\ stack'[n].does = "delete" /\ stack'[n + 1].does = "delete"
        BY <3>3, <3>6
      <4>2. m # n - 1
        BY <1>2, <4>1
      <4>3. QED
        BY <3>0, <3>1, <4>1, <4>2
    <3>7. CASE Popped("ok") /\ \A p \in DOMAIN tree' : ~Under(Top.dst, p)
      BY <3>4, <3>7
    <3>8. CASE Popped("error") /\ (task.op = "copy" => unclean')
      BY <1>4, <3>4, <3>8
    <3>9. QED
      BY <3>5, <3>6, <3>7, <3>8
  <2>3. /\ \A i \in 1..(n - 1) :
             /\ stack[i].at \in {"loop", "cleaned"}
             /\ stack[i].at = "loop" => stack[i + 1].does = stack[i].does
             /\ stack[i].at = "cleaned" => stack[i].does = "copy" /\ stack[i + 1].dst = stack[i].dst
        /\ \A i \in 1..n : stack[i].does \in {"copy", "delete"}
    BY <1>1, Waiting
  <2>4. m \in Nat /\ m >= 1 /\ Top' = stack'[m]
    BY <1>4, <2>2 DEF Top, Last
  <2>5. \A i \in 1..m : stack'[i].does = "delete" => stack'[i].at \in {"enter", "loop", "close"}
    <3>1. \A i \in 1..m : FrameTrue(stack[i])'
      BY <1>4 DEF StackTrue
    <3>2. QED
      BY <3>1 DEF FrameTrue
  <2> HIDE DEF n, m
  <2>6. n - 1 \in 1..(n - 1) /\ n - 1 \in 1..n /\ (n - 1) + 1 = n /\ m \in 1..m
    BY <1>2, <2>1, <2>4
  <2>7. m = n - 1 /\ stack[n - 1].does = "copy" =>
           /\ stack[n - 1].at = "cleaned" /\ stack'[n - 1] = stack[n - 1]
           /\ stack[n - 1].dst = Top.dst
    <3>1. stack[n - 1].does = "copy" => stack[n - 1].at = "cleaned"
      <4>1. stack[(n - 1) + 1].does = "delete"
        BY <1>2, <2>6
      <4>2. QED
        BY <2>3, <2>6, <4>1
    <3>2. stack[n - 1].at = "cleaned" => stack[n - 1].dst = Top.dst
      BY <1>2, <2>3, <2>6
    <3>3. m = n - 1 /\ stack[n - 1].at = "cleaned" => stack'[n - 1] = stack[n - 1]
      BY <2>2 DEF Resumed
    <3>4. QED
      BY <3>1, <3>2, <3>3
  <2>8. stack'[m].does = "delete" \/ (m = n - 1 /\ stack[n - 1].does = "copy")
    <3>1. CASE m # n - 1
      BY <2>2, <3>1
    <3>2. CASE m = n - 1
      <4>1. stack'[n - 1].does = stack[n - 1].does
        BY <2>2, <3>2 DEF Resumed
      <4>2. QED
        BY <2>3, <2>6, <3>2, <4>1
    <3>3. QED
      BY <3>1, <3>2
  <2>9. Started
    <3>1. n # 1
      BY <1>2, <2>1
    <3>2. QED
      BY <3>1 DEF Started, n
  <2>10. stack'[m].at \notin {"enter", "open", "cleaned"} \/ stack'[m].does = "delete" \/ stack'[m].at = "cleaned"
    BY <2>7, <2>8
  <2>11. Started'
    <3>1. CASE m # 1
      BY <3>1 DEF Started, m
    <3>2. CASE m = 1
      <4>1. stack'[1].does = "copy"
        BY <1>4 DEF StackTrue
      <4>2. m = n - 1 /\ stack[n - 1].does = "copy"
        BY <2>8, <3>2, <4>1
      <4>3. stack'[m].at = "cleaned"
        BY <2>7, <4>2
      <4>4. QED
        BY <2>4, <4>3 DEF Started
    <3>3. QED
      BY <3>1, <3>2
  <2>12. CopyTrue'
    <3>1. Top'.at # "open"
      BY <2>4, <2>5, <2>6, <2>7, <2>8
    <3>2. Top'.at = "cleaned" => unclean' \/ \A p \in DOMAIN tree' : ~Under(Top'.dst, p)
      <4>1. CASE stack'[m].does = "delete"
        BY <2>4, <2>5, <2>6, <4>1
      <4>2. CASE m = n - 1 /\ stack[n - 1].does = "copy"
        <5>1. Top'.dst = Top.dst
          BY <2>4, <2>7, <4>2
        <5>2. QED
          BY <2>2, <4>2, <5>1
      <4>3. QED
        BY <2>8, <4>1, <4>2
    <3>3. task.src \in DOMAIN earlier /\ \A p \in DOMAIN earlier : ~Under(task.dst, p)
      BY <1>1, <1>4, <2>9 DEF CopyTrue
    <3>4. QED
      BY <2>11, <3>1, <3>2, <3>3 DEF CopyTrue
  <2>13. ~Well'
    BY <2>2, <2>6, <2>7, <2>8 DEF Well, m
  <2>14. CopiedTrue'
    BY <2>13 DEF CopiedTrue
  <2>15. IntoItselfTrue'
    <3> SUFFICES ASSUME NEW i \in 1..m, stack'[i].does = "copy", IntoItself(stack'[i])
                 PROVE  /\ stack'[i].at = "enter" /\ stack'[i].src = stack'[i].dst => ~Exists(stack[i].src)'
                        /\ stack'[i].at \in {"open", "loop"} => stack'[i].src # stack'[i].dst
                        /\ stack'[i].at = "loop" =>
                              \/ Toward(stack'[i]) \in stack'[i].todo
                              \/ i < m /\ stack'[i + 1].src = Append(stack'[i].src, Toward(stack'[i]))
                        /\ stack'[i].at = "close" => stack'[i].result = "error"
      BY DEF IntoItselfTrue, m
    <3>1. CASE i \in 1..(n - 2)
      <4>1. stack'[i] = stack[i] /\ i \in 1..n /\ i + 1 \in 1..(n - 1) /\ i < m /\ i \in 1..(n - 1)
        <5>1. i \in 1..n /\ i + 1 \in 1..(n - 1) /\ i \in 1..(n - 1)
          BY <1>2, <3>1
        <5>2. i < m
          BY <1>2, <2>2, <3>1
        <5>3. QED
          BY <2>2, <3>1, <5>1, <5>2
      <4>2. stack'[i + 1].src = stack[i + 1].src
        <5>1. CASE i + 1 = n - 1
          BY <2>2, <5>1 DEF Resumed
        <5>2. CASE i + 1 # n - 1
          <6>1. i + 1 \in 1..(n - 2)
            BY <1>2, <4>1, <5>2
          <6>2. QED
            BY <2>2, <6>1
        <5>3. QED
          BY <5>1, <5>2
      <4>3. stack[i].at \in {"loop", "cleaned"}
        BY <2>3, <4>1
      <4>4. /\ stack[i].at \in {"open", "loop"} => stack[i].src # stack[i].dst
            /\ stack[i].at = "loop" =>
                  \/ Toward(stack[i]) \in stack[i].todo
                  \/ stack[i + 1].src = Append(stack[i].src, Toward(stack[i]))
        BY <1>1, <1>4, <4>1 DEF IntoItselfTrue, n
      <4>5. QED
        BY <4>1, <4>2, <4>3, <4>4
    <3>2. CASE i \notin 1..(n - 2)
      <4>1. i = n - 1 \/ (m # n - 1 /\ (i = n \/ i = m))
        BY <1>2, <2>2, <2>4, <3>2
      <4>2. CASE m # n - 1 /\ (i = n \/ i = m)
        BY <2>2, <4>2
      <4>3. CASE i = n - 1
        <5>1. stack'[n - 1].does = stack[n - 1].does
          BY <2>2 DEF Resumed
        <5>2. stack[n - 1].does = "copy"
          BY <4>3, <5>1
        <5>3. stack[n - 1].at = "cleaned"
          <6>1. stack[(n - 1) + 1].does = "delete"
            BY <1>2, <2>6
          <6>2. QED
            BY <2>3, <2>6, <5>2, <6>1
        <5>4. stack'[n - 1].at = "cleaned"
          BY <2>2, <5>3 DEF Resumed
        <5>5. QED
          BY <4>3, <5>4
      <4>4. QED
        BY <4>1, <4>2, <4>3
    <3>3. QED
      BY <3>1, <3>2
  <2>16. QED
    BY <2>12, <2>14, <2>15
<1>5. QED
  BY <1>3, <1>4

\* The clause of IntoItselfTrue for one call.
Inward(i) ==
    /\ stack[i].at = "enter" /\ stack[i].src = stack[i].dst => ~Exists(stack[i].src)
    /\ stack[i].at \in {"open", "loop"} => stack[i].src # stack[i].dst
    /\ stack[i].at = "loop" =>
          \/ Toward(stack[i]) \in stack[i].todo
          \/ i < Len(stack) /\ stack[i + 1].src = Append(stack[i].src, Toward(stack[i]))
    /\ stack[i].at = "close" => stack[i].result = "error"

\* A call below the top stays as it is, whatever the top does.
LEMMA InwardStays ==
    ASSUME stack \in Seq(Frames), stack # <<>>, StackTrue, IntoItselfTrue, task.op = "copy",
           NEW i \in 1..(Len(stack) - 1), stack'[i] = stack[i], i < Len(stack'),
           stack'[i + 1].src = stack[i + 1].src,
           stack[i].does = "copy", IntoItself(stack[i])
    PROVE  Inward(i)'
<1>1. stack[i].at \in {"loop", "cleaned"} /\ i \in 1..Len(stack)
  BY Waiting
<1>2. Inward(i)
  BY <1>1 DEF IntoItselfTrue, Inward
<1>3. QED
  BY <1>1, <1>2 DEF Inward

\* A copy into itself stays one when the call on top goes on, or calls.
LEMMA InwardBecame ==
    ASSUME TreeInvariant, stack # <<>>, UNCHANGED task, NEW f, Became(f), f.src = Top.src,
           f.at # "enter",
           task.op = "copy" /\ f.does = "copy" /\ IntoItself(f) =>
              /\ f.at \in {"open", "loop"} => f.src # f.dst
              /\ f.at = "loop" => Toward(f) \in f.todo
              /\ f.at = "close" => f.result = "error"
    PROVE  IntoItselfTrue'
<1> DEFINE n == Len(stack)
<1>1. stack \in Seq(Frames) /\ StackTrue /\ IntoItselfTrue
  BY DEF TreeInvariant, TreeTypes
<1>2. n \in Nat /\ n >= 1 /\ Top = stack[n]
  BY <1>1, TopIs
<1>3. Len(stack') = n /\ (\A i \in 1..(n - 1) : stack'[i] = stack[i]) /\ stack'[n] = f
  BY DEF Became
<1>4. ASSUME task.op = "copy", NEW i \in 1..n, stack'[i].does = "copy", IntoItself(stack'[i])
      PROVE  Inward(i)'
  <2>1. CASE i = n
    BY <1>3, <1>4, <2>1 DEF Inward
  <2>2. CASE i # n
    <3>1. i \in 1..(n - 1) /\ i + 1 \in 1..n /\ i < n
      BY <1>2, <2>2
    <3>2. stack'[i] = stack[i]
      BY <1>3, <3>1
    <3>3. stack'[i + 1].src = stack[i + 1].src
      <4>1. CASE i + 1 = n
        BY <1>2, <1>3, <4>1
      <4>2. CASE i + 1 # n
        <5>1. i + 1 \in 1..(n - 1)
          BY <1>2, <3>1, <4>2
        <5>2. QED
          BY <1>3, <5>1
      <4>3. QED
        BY <4>1, <4>2
    <3>4. QED
      BY <1>1, <1>3, <1>4, <3>1, <3>2, <3>3, InwardStays
  <2>3. QED
    BY <2>1, <2>2
<1>5. QED
  BY <1>3, <1>4 DEF IntoItselfTrue, Inward

LEMMA InwardPushed ==
    ASSUME TreeInvariant, stack # <<>>, UNCHANGED task, NEW f, NEW g, Pushed(f, g), f.src = Top.src,
           f.at \in {"loop", "cleaned"},
           task.op = "copy" /\ f.does = "copy" /\ IntoItself(f) /\ f.at = "loop" =>
              /\ f.src # f.dst
              /\ Toward(f) \in f.todo \/ g.src = Append(f.src, Toward(f)),
           g.does = "copy" => g.at = "enter" /\ g.src # g.dst
    PROVE  IntoItselfTrue'
<1> DEFINE n == Len(stack)
<1>1. stack \in Seq(Frames) /\ StackTrue /\ IntoItselfTrue
  BY DEF TreeInvariant, TreeTypes
<1>2. n \in Nat /\ n >= 1 /\ Top = stack[n]
  BY <1>1, TopIs
<1>3. /\ Len(stack') = n + 1 /\ (\A i \in 1..(n - 1) : stack'[i] = stack[i])
      /\ stack'[n] = f /\ stack'[n + 1] = g
  BY DEF Pushed
<1>4. ASSUME task.op = "copy", NEW i \in 1..(n + 1), stack'[i].does = "copy", IntoItself(stack'[i])
      PROVE  Inward(i)'
  <2>1. CASE i = n
    <3>1. i < Len(stack')
      BY <1>2, <1>3, <2>1
    <3>2. QED
      BY <1>3, <1>4, <2>1, <3>1 DEF Inward
  <2>2. CASE i = n + 1
    BY <1>3, <1>4, <2>2 DEF Inward
  <2>3. CASE i # n /\ i # n + 1
    <3>1. i \in 1..(n - 1) /\ i + 1 \in 1..n /\ i < n + 1
      BY <1>2, <2>3
    <3>2. stack'[i] = stack[i]
      BY <1>3, <3>1
    <3>3. stack'[i + 1].src = stack[i + 1].src
      <4>1. CASE i + 1 = n
        BY <1>2, <1>3, <4>1
      <4>2. CASE i + 1 # n
        <5>1. i + 1 \in 1..(n - 1)
          BY <1>2, <3>1, <4>2
        <5>2. QED
          BY <1>3, <5>1
      <4>3. QED
        BY <4>1, <4>2
    <3>4. QED
      BY <1>1, <1>3, <1>4, <3>1, <3>2, <3>3, InwardStays
  <2>4. QED
    BY <2>1, <2>2, <2>3
<1>5. QED
  BY <1>3, <1>4 DEF IntoItselfTrue, Inward

\* Only a copy that is not into itself can succeed, and the one below it is
\* then still to meet its destination.
LEMMA InwardReturned ==
    ASSUME TreeInvariant, stack # <<>>, UNCHANGED task, Popped("ok"), Top.does = "copy",
           task.op = "copy", ~IntoItself(Top)
    PROVE  IntoItselfTrue'
<1> DEFINE n == Len(stack)
<1>1. stack \in Seq(Frames) /\ StackTrue /\ IntoItselfTrue
  BY DEF TreeInvariant, TreeTypes
<1>2. n \in Nat /\ n >= 1 /\ Top = stack[n] /\ \A i \in 1..n : stack[i] \in Frames
  BY <1>1, TopIs
<1>3. CASE stack' = <<>>
  BY <1>3 DEF IntoItselfTrue
<1>4. CASE stack' # <<>>
  <2>1. n > 1 /\ Len(stack') = n - 1 /\ \A i \in 1..(n - 1) : stack'[i] = stack[i]
    <3>1. /\ n > 1 /\ Len(stack') = n - 1 /\ (\A i \in 1..(n - 2) : stack'[i] = stack[i])
          /\ stack'[n - 1] = stack[n - 1]
      BY <1>4 DEF Popped, Resumed
    <3>2. \A i \in 1..(n - 1) : i = n - 1 \/ i \in 1..(n - 2)
      BY <1>2
    <3>3. QED
      BY <3>1, <3>2
  <2>2. ASSUME NEW i \in 1..(n - 1), stack'[i].does = "copy", IntoItself(stack'[i])
        PROVE  Inward(i)'
    <3>1. CASE i # n - 1
      <4>1. i + 1 \in 1..(n - 1) /\ i < n - 1
        BY <1>2, <3>1
      <4>2. QED
        BY <1>1, <2>1, <2>2, <4>1, InwardStays
    <3>2. CASE i = n - 1
      <4>1. i \in 1..n /\ i + 1 = n
        BY <1>2, <3>2
      <4>2. stack'[i] = stack[i]
        BY <2>1
      <4>3. stack[i].at \in {"loop", "cleaned"}
        BY <1>1, Waiting
      <4>4. Inward(i)
        BY <1>1, <2>2, <4>1, <4>2 DEF IntoItselfTrue, Inward
      <4>5. ASSUME stack[i].at = "loop", stack[n].src = Append(stack[i].src, Toward(stack[i]))
            PROVE  FALSE
        <5> DEFINE s == stack[i].src
                   d == stack[i].dst
        <5>1. s \in Paths /\ d \in Paths /\ Under(s, d) /\ s # d
          BY <1>2, <2>2, <4>1, <4>2, <4>4, <4>5 DEF Frames, IntoItself, Inward
        <5>2. Toward(stack[i]) \in Names /\ Under(Append(s, Toward(stack[i])), d)
          BY <5>1, StepDown DEF Toward
        <5>3. Calls(stack[i], stack[n])
          BY <1>1, <4>1 DEF StackTrue
        <5>4. PICK k \in Names : stack[n].dst = Append(d, k)
          BY <2>2, <4>2, <4>5, <5>3 DEF Calls
        <5>5. Under(d, stack[n].dst) /\ stack[n].dst \in Paths
          BY <5>1, <5>4, ChildPaths
        <5>6. Append(s, Toward(stack[i])) \in Paths
          BY <5>1, <5>2, ChildPaths
        <5>7. Under(Append(s, Toward(stack[i])), stack[n].dst)
          BY <5>1, <5>2, <5>5, <5>6, UnderOrder
        <5>8. IntoItself(Top)
          BY <1>2, <4>5, <5>7 DEF IntoItself
        <5>9. QED
          BY <5>8
      <4>6. stack[i].at = "loop" => Toward(stack[i]) \in stack[i].todo
        BY <4>1, <4>4, <4>5 DEF Inward
      <4>7. QED
        BY <4>2, <4>3, <4>4, <4>6 DEF Inward
    <3>3. QED
      BY <3>1, <3>2
  <2>3. QED
    BY <2>1, <2>2 DEF IntoItselfTrue, Inward
<1>5. QED
  BY <1>3, <1>4

-----------------------------------------------------------------------------
(***************************************************************************)
(* What a step changes.                                                    *)
(***************************************************************************)

\* Two trees agree outside a path.
SameOutside(t, u, d) ==
    \A p \in Paths : ~Under(d, p) =>
        (p \in DOMAIN t <=> p \in DOMAIN u) /\ (p \in DOMAIN t => u[p] = t[p])

\* A change at or below a path leaves the rest of the tree alone.
LEMMA PutOutside ==
    ASSUME NEW d \in Paths, NEW content
    PROVE  SameOutside(tree, Put(d, content), d)
<1>1. IsPut(Put(d, content), tree, d, content)
  BY PutIs
<1>2. Under(d, d)
  BY UnderOrder
<1>3. QED
  BY <1>1, <1>2 DEF SameOutside, IsPut

LEMMA WithoutOutside ==
    ASSUME NEW d \in Paths
    PROVE  SameOutside(tree, Without({d}), d)
<1>1. IsWithout(Without({d}), tree, {d})
  BY WithoutIs
<1>2. Under(d, d)
  BY UnderOrder
<1>3. QED
  BY <1>1, <1>2 DEF SameOutside, IsWithout

\* A step of a copy or a deletion below its path.
LEMMA WorkOthers ==
    ASSUME TreeInvariant, stack # <<>>, UNCHANGED <<task, earlier>>, IsTree(tree'),
           NEW d \in Paths, Under(task.dst, d), SameOutside(tree, tree', d),
           task.op = "copy" => \A p \in DOMAIN earlier : ~Under(task.dst, p),
           task.op = "delete" => \A p \in DOMAIN tree' : p \in DOMAIN tree /\ tree'[p] = tree[p]
    PROVE  OthersKept'
<1>1. StackTrue /\ OthersKept /\ IsTree(tree) /\ IsTree(earlier) /\ TaskIsTyped
  BY DEF TreeInvariant, TreeTypes, TreesTrue
<1>2. task.op \in {"copy", "delete"} /\ (task.op = "delete" => task.src = task.dst)
  BY <1>1 DEF StackTrue
<1>3. task.dst \in Paths
  BY <1>1, <1>2 DEF TaskIsTyped, NoTask
<1>4. \A p \in Paths : ~Under(task.dst, p) => ~Under(d, p)
  BY <1>3, UnderOrder
<1>5. \A p \in Paths : ~Under(task.dst, p) =>
         (p \in DOMAIN tree <=> p \in DOMAIN tree') /\ (p \in DOMAIN tree => tree'[p] = tree[p])
  BY <1>4 DEF SameOutside
<1>6. /\ \A p \in DOMAIN tree : p \in Paths
      /\ \A p \in DOMAIN tree' : p \in Paths
      /\ \A p \in DOMAIN earlier : p \in Paths
  BY <1>1 DEF IsTree
<1>7. CASE task.op = "copy"
  <2>1. \A p \in DOMAIN earlier : p \in DOMAIN tree /\ tree[p] = earlier[p]
    BY <1>1, <1>7 DEF OthersKept, Exists
  <2>2. \A p \in DOMAIN tree \ DOMAIN earlier : Under(task.dst, p)
    BY <1>1, <1>7 DEF OthersKept, Exists
  <2>3. \A p \in DOMAIN earlier : p \in DOMAIN tree' /\ tree'[p] = earlier[p]
    BY <1>5, <1>6, <1>7, <2>1
  <2>4. \A p \in DOMAIN tree' \ DOMAIN earlier : Under(task.dst, p)
    BY <1>5, <1>6, <2>2
  <2>5. QED
    BY <1>7, <2>3, <2>4 DEF OthersKept, Exists
<1>8. CASE task.op = "delete"
  <2>1. \A p \in DOMAIN tree : p \in DOMAIN earlier /\ tree[p] = earlier[p]
    BY <1>1, <1>8 DEF OthersKept, Exists
  <2>2. \A p \in DOMAIN tree \union DOMAIN earlier : ~Under(task.src, p) =>
           p \in DOMAIN tree /\ p \in DOMAIN earlier /\ tree[p] = earlier[p]
    BY <1>1, <1>8 DEF OthersKept, Exists
  <2>3. \A p \in DOMAIN tree' : p \in DOMAIN earlier /\ tree'[p] = earlier[p]
    BY <1>8, <2>1
  <2>4. \A p \in DOMAIN tree' \union DOMAIN earlier : ~Under(task.src, p) =>
           p \in DOMAIN tree' /\ p \in DOMAIN earlier /\ tree'[p] = earlier[p]
    BY <1>2, <1>5, <1>6, <1>8, <2>2, <2>3
  <2>5. QED
    BY <1>8, <2>3, <2>4 DEF OthersKept, Exists
<1>9. QED
  BY <1>2, <1>7, <1>8

LEMMA NothingChanged ==
    ASSUME OthersKept, UNCHANGED <<task, earlier, tree>>
    PROVE  OthersKept'
BY DEF OthersKept, Exists

-----------------------------------------------------------------------------
(***************************************************************************)
(* What a copy has still to do.                                            *)
(***************************************************************************)

\* What one call, and the calls below the top, have still to come to.
OfFrame(f, p) ==
    \/ f.at = "enter" /\ Under(f.dst, p)
    \/ f.at = "open" /\ Under(f.dst, p) /\ p # f.dst
    \/ f.at = "loop" /\ \E m \in f.todo : Under(Append(f.dst, m), p)
Waits(k, p) == \E i \in 1..k : OfFrame(stack[i], p)

\* What is pending: for the calls below, or for the one on top.
LEMMA PendingIs ==
    ASSUME stack \in Seq(Frames), stack # <<>>, NEW p
    PROVE  Pending(p) <=> Waits(Len(stack) - 1, p) \/ OfFrame(Top, p)
<1> DEFINE n == Len(stack)
<1>1. n \in Nat /\ n >= 1 /\ Top = stack[n]
  BY TopIs
<1>2. Pending(p) <=> \E i \in 1..n : OfFrame(stack[i], p)
  BY DEF Pending, OfFrame
<1> HIDE DEF n
<1>3. n \in 1..n /\ \A i \in 1..n : i = n \/ i \in 1..(n - 1)
  BY <1>1
<1>4. \A i \in 1..(n - 1) : i \in 1..n
  BY <1>1
<1>5. Waits(n - 1, p) <=> \E i \in 1..(n - 1) : OfFrame(stack[i], p)
  BY DEF Waits
<1>6. QED
  BY <1>1, <1>2, <1>3, <1>4, <1>5 DEF n

\* What is pending after the call on top has gone on, has called, or has returned.
LEMMA PendingBecame ==
    ASSUME stack \in Seq(Frames), stack # <<>>, NEW f, Became(f), NEW p
    PROVE  Pending(p)' <=> Waits(Len(stack) - 1, p) \/ OfFrame(f, p)
<1> DEFINE n == Len(stack)
<1>1. n \in Nat /\ n >= 1
  BY TopIs
<1>2. Len(stack') = n /\ (\A i \in 1..(n - 1) : stack'[i] = stack[i]) /\ stack'[n] = f
  BY DEF Became
<1>3. Pending(p)' <=> \E i \in 1..n : OfFrame(stack'[i], p)
  BY <1>2 DEF Pending, OfFrame
<1> HIDE DEF n
<1>4. n \in 1..n /\ \A i \in 1..n : i = n \/ i \in 1..(n - 1)
  BY <1>1
<1>5. \A i \in 1..(n - 1) : i \in 1..n
  BY <1>1
<1>6. Waits(n - 1, p) <=> \E i \in 1..(n - 1) : OfFrame(stack'[i], p)
  BY <1>2 DEF Waits
<1>7. QED
  BY <1>2, <1>3, <1>4, <1>5, <1>6 DEF n

LEMMA PendingPushed ==
    ASSUME stack \in Seq(Frames), stack # <<>>, NEW f, NEW g, Pushed(f, g), NEW p
    PROVE  Pending(p)' <=> Waits(Len(stack) - 1, p) \/ OfFrame(f, p) \/ OfFrame(g, p)
<1> DEFINE n == Len(stack)
<1>1. n \in Nat /\ n >= 1
  BY TopIs
<1>2. /\ Len(stack') = n + 1 /\ (\A i \in 1..(n - 1) : stack'[i] = stack[i])
      /\ stack'[n] = f /\ stack'[n + 1] = g
  BY DEF Pushed
<1>3. Pending(p)' <=> \E i \in 1..(n + 1) : OfFrame(stack'[i], p)
  BY <1>2 DEF Pending, OfFrame
<1> HIDE DEF n
<1>4. n \in 1..(n + 1) /\ n + 1 \in 1..(n + 1)
  BY <1>1
<1>5. \A i \in 1..(n + 1) : i = n \/ i = n + 1 \/ i \in 1..(n - 1)
  BY <1>1
<1>6. \A i \in 1..(n - 1) : i \in 1..(n + 1)
  BY <1>1
<1>7. Waits(n - 1, p) <=> \E i \in 1..(n - 1) : OfFrame(stack'[i], p)
  BY <1>2 DEF Waits
<1>8. QED
  BY <1>2, <1>3, <1>4, <1>5, <1>6, <1>7 DEF n

LEMMA PoppedSame ==
    ASSUME stack \in Seq(Frames), stack # <<>>, Popped("ok"), stack' # <<>>
    PROVE  /\ Len(stack) > 1 /\ Len(stack') = Len(stack) - 1 /\ stack' \in Seq(Frames)
           /\ reply' = reply
           /\ \A i \in 1..(Len(stack) - 1) : stack'[i] = stack[i]
<1> DEFINE n == Len(stack)
<1>1. n \in Nat /\ n >= 1
  BY TopIs
<1>2. /\ n > 1 /\ Len(stack') = n - 1 /\ (\A i \in 1..(n - 2) : stack'[i] = stack[i])
      /\ stack'[n - 1] = stack[n - 1] /\ stack' \in Seq(Frames) /\ reply' = reply
  BY DEF Popped, Resumed
<1>3. \A i \in 1..(n - 1) : i = n - 1 \/ i \in 1..(n - 2)
  BY <1>1
<1>4. QED
  BY <1>2, <1>3

LEMMA PendingPopped ==
    ASSUME stack \in Seq(Frames), stack # <<>>, Popped("ok"), stack' # <<>>, NEW p
    PROVE  Pending(p)' <=> Waits(Len(stack) - 1, p)
<1>1. Len(stack') = Len(stack) - 1 /\ \A i \in 1..(Len(stack) - 1) : stack'[i] = stack[i]
  BY PoppedSame
<1>2. Pending(p)' <=> \E i \in 1..(Len(stack) - 1) : OfFrame(stack'[i], p)
  BY <1>1 DEF Pending, OfFrame
<1>3. QED
  BY <1>1, <1>2 DEF Waits

\* What the calls below have to do is not below the destination of the top.
LEMMA WaitsApart ==
    ASSUME stack \in Seq(Frames), stack # <<>>, StackTrue, CallsApart, NEW p \in Paths,
           Waits(Len(stack) - 1, p)
    PROVE  ~Under(Top.dst, p)
<1> DEFINE n == Len(stack)
<1>1. n \in Nat /\ n >= 1 /\ Top = stack[n] /\ \A i \in 1..n : stack[i] \in Frames
  BY TopIs
<1>2. PICK i \in 1..(n - 1) : OfFrame(stack[i], p)
  BY DEF Waits
<1>3. stack[i].at \in {"loop", "cleaned"} /\ i \in 1..n /\ n \in 1..n /\ i < n
  BY <1>1, Waiting
<1>4. PICK m \in stack[i].todo : Under(Append(stack[i].dst, m), p)
  BY <1>2, <1>3 DEF OfFrame
<1>5. Apart(Append(stack[i].dst, m), Top.dst)
  BY <1>1, <1>3 DEF CallsApart
<1>6. stack[i] \in Frames /\ Top \in Frames
  BY <1>1, <1>3
<1>7. stack[i].dst \in Paths /\ m \in Names /\ Top.dst \in Paths
  BY <1>6 DEF Frames
<1>8. Append(stack[i].dst, m) \in Paths
  BY <1>7, ChildPaths
<1>9. QED
  BY <1>4, <1>5, <1>7, <1>8, ApartPaths

\* The calls stay apart when the call on top goes on, calls or returns.
LEMMA ApartBecame ==
    ASSUME stack \in Seq(Frames), stack # <<>>, CallsApart, NEW f, Became(f), f.dst = Top.dst
    PROVE  CallsApart'
<1> DEFINE n == Len(stack)
<1>1. n \in Nat /\ n >= 1 /\ Top = stack[n]
  BY TopIs
<1>2. Len(stack') = n /\ (\A i \in 1..(n - 1) : stack'[i] = stack[i]) /\ stack'[n] = f
  BY DEF Became
<1>3. ASSUME NEW i \in 1..n, NEW j \in 1..n, i < j, NEW m \in stack'[i].todo
      PROVE  Apart(Append(stack'[i].dst, m), stack'[j].dst)
  <2>1. i \in 1..(n - 1)
    BY <1>1, <1>3
  <2>2. stack'[i] = stack[i] /\ stack'[j].dst = stack[j].dst
    <3>1. j = n \/ j \in 1..(n - 1)
      BY <1>1
    <3>2. QED
      BY <1>1, <1>2, <2>1, <3>1
  <2>3. QED
    BY <1>3, <2>2 DEF CallsApart
<1>4. QED
  BY <1>2, <1>3 DEF CallsApart

LEMMA ApartPushed ==
    ASSUME stack \in Seq(Frames), stack # <<>>, CallsApart, NEW f, NEW g, Pushed(f, g),
           f.dst = Top.dst, NEW k \in Top.todo, g.dst = Append(Top.dst, k), f.todo = Top.todo \ {k}
    PROVE  CallsApart'
<1> DEFINE n == Len(stack)
<1>1. n \in Nat /\ n >= 1 /\ Top = stack[n] /\ \A i \in 1..n : stack[i] \in Frames
  BY TopIs
<1>2. /\ Len(stack') = n + 1 /\ (\A i \in 1..(n - 1) : stack'[i] = stack[i])
      /\ stack'[n] = f /\ stack'[n + 1] = g
  BY DEF Pushed
<1>3. Top.dst \in Paths /\ Top.todo \subseteq Names
  BY TopIs DEF Frames
<1>4. ASSUME NEW i \in 1..(n + 1), NEW j \in 1..(n + 1), i < j, NEW m \in stack'[i].todo
      PROVE  Apart(Append(stack'[i].dst, m), stack'[j].dst)
  <2>1. CASE i = n
    <3>1. j = n + 1
      BY <1>1, <1>4, <2>1
    <3>2. m \in Names /\ m # k /\ k \in Names
      BY <1>2, <1>3, <1>4, <2>1
    <3>3. Apart(Append(Top.dst, m), Append(Top.dst, k))
      BY <1>3, <3>2, Siblings
    <3>4. QED
      BY <1>2, <2>1, <3>1, <3>3
  <2>2. CASE i # n
    <3>1. i \in 1..(n - 1) /\ i \in 1..n /\ n \in 1..n /\ i < n
      BY <1>1, <1>4, <2>2
    <3>2. stack'[i] = stack[i]
      BY <1>2, <3>1
    <3>3. CASE j \in 1..n
      <4>1. stack'[j].dst = stack[j].dst
        <5>1. j = n \/ j \in 1..(n - 1)
          BY <1>1, <3>3
        <5>2. QED
          BY <1>1, <1>2, <5>1
      <4>2. QED
        BY <1>4, <3>1, <3>2, <3>3, <4>1 DEF CallsApart
    <3>4. CASE j = n + 1
      <4>1. Apart(Append(stack[i].dst, m), stack[n].dst)
        BY <1>4, <3>1, <3>2 DEF CallsApart
      <4>2. stack[i] \in Frames
        BY <1>1, <3>1
      <4>3. stack[i].dst \in Paths /\ m \in Names
        BY <1>4, <3>2, <4>2 DEF Frames
      <4>4. Append(stack[i].dst, m) \in Paths /\ g.dst \in Paths /\ Under(stack[n].dst, g.dst)
        <5>1. k \in Names /\ g.dst = Append(Top.dst, k)
          BY <1>3
        <5>2. g.dst \in Paths /\ Under(Top.dst, g.dst)
          BY <1>3, <5>1, ChildPaths
        <5>3. Append(stack[i].dst, m) \in Paths
          BY <4>3, ChildPaths
        <5>4. QED
          BY <1>1, <5>2, <5>3
      <4>5. Apart(Append(stack[i].dst, m), g.dst)
        BY <1>1, <1>3, <4>1, <4>4, ApartPaths
      <4>6. QED
        BY <1>2, <3>2, <3>4, <4>5
    <3>5. QED
      BY <1>1, <3>3, <3>4
  <2>3. QED
    BY <2>1, <2>2
<1>5. QED
  BY <1>2, <1>4 DEF CallsApart

LEMMA ApartPopped ==
    ASSUME stack \in Seq(Frames), stack # <<>>, CallsApart, Popped("ok"), stack' # <<>>
    PROVE  CallsApart'
<1> DEFINE n == Len(stack)
<1>1. n \in Nat
  BY TopIs
<1>2. Len(stack') = n - 1 /\ \A i \in 1..(n - 1) : stack'[i] = stack[i]
  BY PoppedSame
<1>3. \A i \in 1..(n - 1) : i \in 1..n
  BY <1>1
<1>4. QED
  BY <1>2, <1>3 DEF CallsApart

\* If no call has failed after a step of a copy, none had failed before.
LEMMA WellBefore ==
    ASSUME stack \in Seq(Frames), stack # <<>>, StackTrue, Top.does = "copy",
           Top.at \in {"enter", "open", "loop"} \/ (Top.at = "close" /\ Top.result = "ok"),
           \/ \E f : Became(f) /\ Well'
           \/ \E f, g : Pushed(f, g) /\ Well'
           \/ Popped("ok") /\ (stack' # <<>> => Well')
    PROVE  Well
<1> DEFINE n == Len(stack)
<1>1. n \in Nat /\ n >= 1 /\ Top = stack[n]
  BY TopIs
<1>2. Top.result = "ok" /\ Top.at # "cleaned"
  <2>1. n \in 1..n
    BY <1>1
  <2>2. Top.at \in {"enter", "open", "loop"} => Top.result = "ok"
    BY <1>1, <2>1, Waiting
  <2>3. QED
    BY <2>2
<1>3. n > 1 => /\ Well'
               /\ \A i \in 1..(n - 1) : i \in 1..Len(stack') /\ stack'[i] = stack[i]
  <2>1. CASE \E f : Became(f) /\ Well'
    BY <1>1, <2>1 DEF Became
  <2>2. CASE \E f, g : Pushed(f, g) /\ Well'
    BY <1>1, <2>2 DEF Pushed
  <2>3. CASE Popped("ok") /\ (stack' # <<>> => Well')
    <3>1. CASE n = 1
      BY <3>1
    <3>2. CASE n # 1
      <4>1. stack' # <<>>
        BY <1>1, <2>3, <3>2 DEF Popped
      <4>2. QED
        BY <2>3, <4>1, PoppedSame
    <3>3. QED
      BY <3>1, <3>2
  <2>4. QED
    BY <2>1, <2>2, <2>3
<1>4. \A i \in 1..n : i = n \/ (n > 1 /\ i \in 1..(n - 1))
  BY <1>1
<1> HIDE DEF n
<1>5. \A i \in 1..n : stack[i].does = "copy" /\ stack[i].result = "ok" /\ stack[i].at # "cleaned"
  BY <1>1, <1>2, <1>3, <1>4 DEF Well
<1>6. QED
  BY <1>5 DEF Well, n

-----------------------------------------------------------------------------
(***************************************************************************)
(* The steps of a copy.                                                    *)
(***************************************************************************)

\* The call on top, when it copies.
LEMMA TopCopies ==
    ASSUME TreeInvariant, stack # <<>>, Top.does = "copy"
    PROVE  /\ task.op = "copy" /\ stack \in Seq(Frames) /\ StackTrue /\ TaskIsTyped
           /\ task.src \in Paths /\ task.dst \in Paths
           /\ Top \in Frames /\ FrameTrue(Top)
           /\ Top.src \in Paths /\ Top.dst \in Paths /\ Top.todo \subseteq Names
           /\ Under(task.dst, Top.dst) /\ Top.src = Origin(Top.dst)
           /\ Under(task.src, Top.src)
           /\ IsTree(tree) /\ IsTree(earlier)
           /\ \A i \in 1..(Len(stack) - 1) : stack[i].does = "copy" => stack[i].at \in {"loop", "cleaned"}
<1>1. /\ StackTrue /\ stack \in Seq(Frames) /\ TaskIsTyped /\ IsTree(tree) /\ IsTree(earlier)
  BY DEF TreeInvariant, TreeTypes
<1>2. Top \in Frames /\ Top = stack[Len(stack)] /\ Len(stack) \in 1..Len(stack)
  BY <1>1, TopIs
<1>3. FrameTrue(Top)
  BY <1>1, <1>2 DEF StackTrue
<1>4. task.op = "copy" /\ Under(task.dst, Top.dst) /\ Top.src = Origin(Top.dst)
  BY <1>3 DEF FrameTrue
<1>5. task.src \in Paths /\ task.dst \in Paths
  BY <1>1, <1>4 DEF TaskIsTyped, NoTask
<1>6. Top.src \in Paths /\ Top.dst \in Paths /\ Top.todo \subseteq Names
  BY <1>2 DEF Frames
<1>7. Under(task.src, Top.src)
  <2>1. Under(task.src, Moved(Top.dst, task.dst, task.src))
    BY <1>4, <1>5, <1>6, MovedPath
  <2>2. QED
    BY <1>4, <2>1 DEF Origin
<1>8. \A i \in 1..(Len(stack) - 1) : stack[i].at \in {"loop", "cleaned"}
  BY <1>1, Waiting
<1>9. QED
  BY <1>1, <1>2, <1>3, <1>4, <1>5, <1>6, <1>7, <1>8

\* When the source is there and the destination can be made.
LEMMA Ground ==
    ASSUME TreeInvariant, At("copy", "enter"), Exists(Top.src), CanHold(Top.dst)
    PROVE  /\ task.src \in DOMAIN earlier
           /\ \A p \in DOMAIN earlier : ~Under(task.dst, p)
           /\ Well /\ ~Under(task.src, task.dst) => FilesCopied /\ CallsApart
<1>1. stack # <<>> /\ Top.does = "copy" /\ Top.at = "enter"
  BY DEF At
<1>2. /\ task.op = "copy" /\ stack \in Seq(Frames) /\ StackTrue /\ IsTree(tree) /\ IsTree(earlier)
      /\ task.dst \in Paths /\ Top.dst \in Paths
  BY <1>1, TopCopies
<1>3. CopyTrue /\ CopiedTrue
  BY DEF TreeInvariant
<1>4. CASE Started
  BY <1>1, <1>2, <1>3, <1>4 DEF CopyTrue, CopiedTrue
<1>5. CASE ~Started
  <2>1. Len(stack) = 1 /\ tree = earlier /\ ~Exists(task.dst)
    BY <1>1, <1>2, <1>3, <1>5 DEF CopyTrue, Started
  <2>2. Top = stack[1]
    BY <1>1, <1>2, <2>1, TopIs
  <2>3. Top.src = task.src /\ Top.dst = task.dst
    BY <1>1, <1>2, <2>2 DEF StackTrue
  <2>4. task.src \in DOMAIN earlier
    BY <2>1, <2>3 DEF Exists
  <2>5. \A p \in DOMAIN tree : ~Under(task.dst, p)
    BY <1>2, <2>1, <2>3, BelowNothing DEF CanHold, Exists
  <2>6. FilesCopied
    <3> SUFFICES ASSUME NEW p \in Paths, Under(task.dst, p)
                 PROVE  Pending(p) /\ ~Exists(p)
      BY DEF FilesCopied
    <3>1. OfFrame(Top, p)
      BY <1>1, <2>3 DEF OfFrame
    <3>2. QED
      BY <1>1, <1>2, <2>5, <3>1, PendingIs DEF Exists
  <2>7. CallsApart
    BY <2>1 DEF CallsApart
  <2>8. QED
    BY <2>1, <2>4, <2>5, <2>6, <2>7
<1>6. QED
  BY <1>4, <1>5

\* The source of a copy that is not into itself stays as it was.
LEMMA SourceStays ==
    ASSUME TreeInvariant, task.op = "copy", stack # <<>>, task.src \in DOMAIN earlier,
           \A p \in DOMAIN earlier : ~Under(task.dst, p), ~Under(task.src, task.dst)
    PROVE  \A q \in Paths : Under(task.src, q) =>
              (Exists(q) <=> q \in DOMAIN earlier) /\ (Exists(q) => tree[q] = earlier[q])
<1>1. OthersKept /\ TaskIsTyped
  BY DEF TreeInvariant, TreesTrue, TreeTypes
<1>2. task.src \in Paths /\ task.dst \in Paths
  BY <1>1 DEF TaskIsTyped, NoTask
<1>3. ~Under(task.dst, task.src)
  OBVIOUS
<1>4. ASSUME NEW q \in Paths, Under(task.src, q)
      PROVE  ~Under(task.dst, q)
  BY <1>2, <1>3, <1>4, UnderOrder
<1>5. /\ \A p \in DOMAIN earlier : Exists(p) /\ tree[p] = earlier[p]
      /\ \A p \in DOMAIN tree \ DOMAIN earlier : Under(task.dst, p)
  BY <1>1 DEF OthersKept
<1>6. QED
  BY <1>4, <1>5 DEF Exists

\* The new directory.
LEMMA EnterDirectory ==
    ASSUME TreeInvariant, UNCHANGED <<task, earlier, unclean>>,
           At("copy", "enter"), Exists(Top.src), IsDirectory(Top.src),
           CanHold(Top.dst), ~Exists(Top.dst), tree' = Put(Top.dst, "dir"), Goto("open")
    PROVE  TreeInvariant'
<1> DEFINE n == Len(stack)
           d == Top.dst
           f == [Top EXCEPT !.at = "open"]
<1>1. stack # <<>> /\ Top.does = "copy" /\ Top.at = "enter"
  BY DEF At
<1>2. /\ task.op = "copy" /\ stack \in Seq(Frames) /\ StackTrue /\ TaskIsTyped
      /\ task.src \in Paths /\ task.dst \in Paths
      /\ Top \in Frames /\ FrameTrue(Top)
      /\ Top.src \in Paths /\ d \in Paths /\ Top.todo \subseteq Names
      /\ Under(task.dst, d) /\ Top.src = Origin(d)
      /\ Under(task.src, Top.src) /\ IsTree(tree) /\ IsTree(earlier)
  BY <1>1, TopCopies
<1>3. /\ f \in Frames /\ f.does = Top.does /\ f.src = Top.src /\ f.dst = d
      /\ f.at = "open" /\ f.result = Top.result /\ f.todo = Top.todo
  BY <1>2 DEF Frames
<1>4. Became(f)
  BY <1>1, <1>2, <1>3, BecomeIs DEF Goto
<1>5. FrameTrue(f)
  BY <1>1, <1>2, <1>3 DEF FrameTrue
<1> HIDE DEF f
<1>6. StackTrue' /\ stack' # <<>>
  BY <1>1, <1>2, <1>3, <1>4, <1>5, BecameStack
<1>7. Top' = f
  <2>1. Len(stack') = n /\ stack'[n] = f /\ stack' \in Seq(Frames)
    BY <1>4 DEF Became
  <2>2. QED
    BY <2>1 DEF Top, Last
<1>8. IsTree(tree') /\ IsPut(tree', tree, d, "dir")
  <2>1. d # Root /\ ~IsDirectory(d)
    BY DEF CanHold, IsDirectory
  <2>2. IsTree(Put(d, "dir"))
    BY <1>2, <2>1, PutTree DEF Contents
  <2>3. QED
    BY <2>2, PutIs
<1>9. /\ task.src \in DOMAIN earlier
      /\ \A p \in DOMAIN earlier : ~Under(task.dst, p)
      /\ Well /\ ~Under(task.src, task.dst) => FilesCopied /\ CallsApart
  BY Ground
<1>10. TreeTypes'
  <2>1. stack' \in Seq(Frames) /\ reply' = reply
    BY <1>4 DEF Became
  <2>2. QED
    BY <1>8, <2>1 DEF TreeInvariant, TreeTypes, TaskIsTyped
<1>11. \A p \in DOMAIN tree : ~Under(d, p)
  <2>1. d # Root /\ d \notin DOMAIN tree
    BY DEF CanHold, Exists
  <2>2. QED
    BY <1>2, <2>1, BelowNothing
<1>12. CopyTrue'
  <2>1. Started'
    BY <1>3, <1>7 DEF Started
  <2>2. d \in DOMAIN tree' /\ \A p \in DOMAIN tree' : Under(d, p) => p = d
    BY <1>8, <1>11 DEF IsPut
  <2>3. QED
    BY <1>3, <1>7, <1>9, <2>1, <2>2 DEF CopyTrue, Exists
<1>13. CopiedTrue'
  <2> SUFFICES ASSUME Well', ~Under(task.src, task.dst)
               PROVE  FilesCopied' /\ CallsApart'
    BY DEF CopiedTrue
  <2>1. Well
    BY <1>1, <1>2, <1>4, WellBefore
  <2>2. FilesCopied /\ CallsApart
    BY <1>9, <2>1
  <2>3. CallsApart'
    BY <1>1, <1>2, <1>3, <1>4, <2>2, ApartBecame
  <2>4. ASSUME NEW p \in Paths, Under(task.dst, p)
        PROVE  IF Pending(p)' THEN p \notin DOMAIN tree' ELSE Matches(p)'
    <3>1. Pending(p) <=> Waits(n - 1, p) \/ Under(d, p)
      BY <1>1, <1>2, PendingIs DEF OfFrame
    <3>2. Pending(p)' <=> Waits(n - 1, p) \/ (Under(d, p) /\ p # d)
      <4>1. OfFrame(f, p) <=> Under(d, p) /\ p # d
        BY <1>3 DEF OfFrame
      <4>2. QED
        BY <1>1, <1>2, <1>4, <4>1, PendingBecame
    <3>3. IF Pending(p) THEN ~Exists(p) ELSE Matches(p)
      BY <2>2, <2>4 DEF FilesCopied
    <3>4. CASE p # d
      <4>1. Pending(p)' <=> Pending(p)
        BY <3>1, <3>2, <3>4
      <4>2. (p \in DOMAIN tree' <=> p \in DOMAIN tree) /\ (p \in DOMAIN tree => tree'[p] = tree[p])
        BY <1>8, <3>4 DEF IsPut
      <4>3. QED
        BY <3>3, <4>1, <4>2 DEF Matches, Origin, Exists
    <3>5. CASE p = d
      <4>1. ~Waits(n - 1, p)
        <5>1. Under(d, p)
          BY <1>2, <3>5, UnderOrder
        <5>2. QED
          BY <1>1, <1>2, <2>2, <5>1, WaitsApart
      <4>2. p \in DOMAIN tree' /\ tree'[p] = "dir"
        BY <1>8, <3>5 DEF IsPut
      <4>3. Top.src \in DOMAIN earlier /\ earlier[Top.src] = "dir"
        <5>1. Top.src # Root
          BY <1>2, Above DEF Exists
        <5>2. tree[Top.src] = "dir"
          BY <5>1 DEF IsDirectory
        <5>3. (Exists(Top.src) <=> Top.src \in DOMAIN earlier) /\ (Exists(Top.src) => tree[Top.src] = earlier[Top.src])
          BY <1>1, <1>2, <1>9, SourceStays
        <5>4. QED
          BY <5>2, <5>3
      <4>4. Matches(p)'
        BY <1>2, <3>5, <4>2, <4>3 DEF Matches, Origin, Exists
      <4>5. QED
        BY <3>2, <3>5, <4>1, <4>4
    <3>6. QED
      BY <3>4, <3>5
  <2>5. FilesCopied'
    BY <2>4 DEF FilesCopied, Exists
  <2>6. QED
    BY <2>3, <2>5
<1>14. IntoItselfTrue'
  <2>1. f.src # f.dst
    BY <1>3
  <2>2. QED
    BY <1>1, <1>3, <1>4, <2>1, InwardBecame
<1>15. OthersKept'
  <2>1. SameOutside(tree, tree', d)
    BY <1>2, PutOutside
  <2>2. QED
    BY <1>1, <1>2, <1>8, <1>9, <2>1, WorkOthers
<1>16. TreeReplyTrue'
  <2>1. reply' = "none"
    BY <1>1, <1>2, <1>4, ReplyIsNone DEF Became
  <2>2. QED
    BY <2>1, NoReply
<1>17. QED
  BY <1>6, <1>10, <1>12, <1>13, <1>14, <1>15, <1>16 DEF TreeInvariant, TreesTrue

\* Every path below s is the place of one below d.
LEMMA MovedBack ==
    ASSUME NEW d \in Paths, NEW s \in Paths, NEW r \in Paths, Under(s, r)
    PROVE  \E q \in Paths : /\ Under(d, q) /\ Moved(q, d, s) = r
                            /\ SubSeq(q, Len(d) + 1, Len(q)) = SubSeq(r, Len(s) + 1, Len(r))
<1>1. Moved(r, s, d) \in Paths /\ Under(d, Moved(r, s, d))
  BY MovedPath
<1>2. Moved(Moved(r, s, d), d, s) = r
  BY MovedPath
<1>3. SubSeq(Moved(r, s, d), Len(d) + 1, Len(Moved(r, s, d))) = SubSeq(r, Len(s) + 1, Len(r))
  BY MovedPath
<1>4. QED
  BY <1>1, <1>2, <1>3

\* Trees that match path by path are the same trees at different places.
LEMMA ExactCopy ==
    ASSUME NEW t, NEW e, IsTree(t), IsTree(e), NEW d \in Paths, NEW s \in Paths,
           \A p \in Paths : Under(d, p) =>
              /\ p \in DOMAIN t <=> Moved(p, d, s) \in DOMAIN e
              /\ p \in DOMAIN t => t[p] = e[Moved(p, d, s)]
    PROVE  SubTree(t, d) = SubTree(e, s)
<1>1. (\A q \in DOMAIN t : q \in Paths) /\ (\A q \in DOMAIN e : q \in Paths)
  BY DEF IsTree
<1>2. ASSUME NEW q \in DOMAIN t, Under(d, q)
      PROVE  \E r \in DOMAIN e : /\ Under(s, r) /\ e[r] = t[q]
                                 /\ SubSeq(r, Len(s) + 1, Len(r)) = SubSeq(q, Len(d) + 1, Len(q))
  <2>1. q \in Paths
    BY <1>1
  <2>2. Moved(q, d, s) \in DOMAIN e /\ e[Moved(q, d, s)] = t[q]
    BY <1>2, <2>1
  <2>3. /\ Under(s, Moved(q, d, s))
        /\ SubSeq(Moved(q, d, s), Len(s) + 1, Len(Moved(q, d, s))) = SubSeq(q, Len(d) + 1, Len(q))
    BY <1>2, <2>1, MovedPath
  <2>4. QED
    BY <2>2, <2>3
<1>3. ASSUME NEW r \in DOMAIN e, Under(s, r)
      PROVE  \E q \in DOMAIN t : /\ Under(d, q) /\ t[q] = e[r]
                                 /\ SubSeq(r, Len(s) + 1, Len(r)) = SubSeq(q, Len(d) + 1, Len(q))
  <2>1. r \in Paths
    BY <1>1
  <2>2. PICK q \in Paths : /\ Under(d, q) /\ Moved(q, d, s) = r
                           /\ SubSeq(q, Len(d) + 1, Len(q)) = SubSeq(r, Len(s) + 1, Len(r))
    BY <1>3, <2>1, MovedBack
  <2>3. q \in DOMAIN t /\ t[q] = e[r]
    BY <2>2
  <2>4. QED
    BY <2>2, <2>3
<1> DEFINE at(p, q) == SubSeq(q, Len(p) + 1, Len(q))
<1>4. SubTree(t, d) = {[at |-> at(d, q), is |-> t[q]] : q \in {r \in DOMAIN t : Under(d, r)}}
  BY DEF SubTree
<1>5. SubTree(e, s) = {[at |-> at(s, q), is |-> e[q]] : q \in {r \in DOMAIN e : Under(s, r)}}
  BY DEF SubTree
<1>6. \A q \in DOMAIN t : Under(d, q) =>
         \E r \in DOMAIN e : Under(s, r) /\ e[r] = t[q] /\ at(s, r) = at(d, q)
  BY <1>2
<1>7. \A r \in DOMAIN e : Under(s, r) =>
         \E q \in DOMAIN t : Under(d, q) /\ t[q] = e[r] /\ at(s, r) = at(d, q)
  BY <1>3
<1> HIDE DEF at
<1>8. ASSUME NEW x \in SubTree(t, d)
      PROVE  x \in SubTree(e, s)
  <2>1. PICK q \in DOMAIN t : Under(d, q) /\ x = [at |-> at(d, q), is |-> t[q]]
    BY <1>4, <1>8
  <2>2. PICK r \in DOMAIN e : Under(s, r) /\ e[r] = t[q] /\ at(s, r) = at(d, q)
    BY <1>6, <2>1
  <2>3. QED
    BY <1>5, <2>1, <2>2
<1>9. ASSUME NEW x \in SubTree(e, s)
      PROVE  x \in SubTree(t, d)
  <2>1. PICK r \in DOMAIN e : Under(s, r) /\ x = [at |-> at(s, r), is |-> e[r]]
    BY <1>5, <1>9
  <2>2. PICK q \in DOMAIN t : Under(d, q) /\ t[q] = e[r] /\ at(s, r) = at(d, q)
    BY <1>7, <2>1
  <2>3. QED
    BY <1>4, <2>1, <2>2
<1>10. QED
  BY <1>8, <1>9

\* What is not below the destination is as it was.
LEMMA AllBack ==
    ASSUME OthersKept', task'.op = "copy", IsTree(tree'), IsTree(earlier'),
           \A p \in DOMAIN tree' : ~Under(task'.dst, p)
    PROVE  tree' = earlier'
<1>1. /\ \A p \in DOMAIN earlier' : p \in DOMAIN tree' /\ tree'[p] = earlier'[p]
      /\ \A p \in DOMAIN tree' \ DOMAIN earlier' : Under(task'.dst, p)
  BY DEF OthersKept, Exists
<1>2. DOMAIN tree' = DOMAIN earlier'
  BY <1>1
<1>3. QED
  BY <1>1, <1>2, SameTree

\* A call that copies fails.
LEMMA FailedStep ==
    ASSUME TreeInvariant, stack # <<>>, Top.does = "copy", Popped("error"),
           UNCHANGED <<task, earlier>>, IsTree(tree'), OthersKept', unclean' \in BOOLEAN,
           stack' = <<>> /\ ~unclean' =>
              \/ tree' = earlier
              \/ /\ earlier[task.src] # "dir"
                 /\ SubTree(tree', task.dst) = {[at |-> Root, is |-> "part"]}
    PROVE  TreeInvariant'
<1>1. /\ stack \in Seq(Frames) /\ StackTrue /\ TaskIsTyped /\ IsTree(earlier)
      /\ reply \in {"none", "ok", "error"}
  BY DEF TreeInvariant, TreeTypes
<1>2. StackTrue'
  BY <1>1, PoppedStack
<1>3. CopyTrue' /\ CopiedTrue' /\ IntoItselfTrue'
  BY CopyFails
<1>4. stack' \in Seq(Frames) /\ reply' \in {"none", "ok", "error"}
  <2>1. CASE stack' = <<>> /\ reply' = "error"
    BY <2>1
  <2>2. CASE stack' \in Seq(Frames) /\ reply' = reply
    BY <1>1, <2>2
  <2>3. QED
    BY <2>1, <2>2 DEF Popped
<1>5. TreeTypes'
  BY <1>1, <1>4 DEF TreeTypes, TaskIsTyped
<1>6. TreeReplyTrue'
  <2>1. CASE stack' # <<>>
    <3>1. reply' = reply
      BY <2>1 DEF Popped
    <3>2. reply' = "none"
      BY <1>1, <3>1, ReplyIsNone
    <3>3. QED
      BY <3>2, NoReply
  <2>2. CASE stack' = <<>>
    <3>1. reply' = "error"
      BY <1>1, <2>2, TopIs DEF Popped
    <3>2. task.op = "copy"
      BY TopCopies
    <3>3. QED
      BY <2>2, <3>1, <3>2 DEF TreeReplyTrue
  <2>3. QED
    BY <2>1, <2>2
<1>7. QED
  BY <1>2, <1>3, <1>5, <1>6 DEF TreeInvariant, TreesTrue

\* The first call is the task's.
LEMMA FirstCall ==
    ASSUME TreeInvariant, stack # <<>>, Top.does = "copy", Len(stack) = 1
    PROVE  /\ Top.src = task.src /\ Top.dst = task.dst
           /\ Top.at = "enter" => tree = earlier /\ ~Exists(task.dst)
<1>1. stack \in Seq(Frames) /\ StackTrue /\ CopyTrue /\ task.op = "copy"
  BY TopCopies DEF TreeInvariant
<1>2. Top = stack[1]
  BY <1>1, TopIs
<1>3. QED
  BY <1>1, <1>2 DEF StackTrue, CopyTrue, Started

\* The last call returns to nothing.
LEMMA PoppedAll ==
    ASSUME stack \in Seq(Frames), stack # <<>>, NEW result \in {"ok", "error"},
           Popped(result), stack' = <<>>
    PROVE  Len(stack) = 1 /\ reply' = result
<1>1. Len(stack) \in Nat
  BY TopIs
<1>2. CASE Len(stack) > 1 /\ Len(stack') = Len(stack) - 1
  <2>1. Len(stack') = 0
    BY Len(<<>>) = 0
  <2> DEFINE n == Len(stack)
             m == Len(stack')
  <2>2. n \in Nat /\ n > 1 /\ m = n - 1 /\ m = 0
    BY <1>1, <1>2, <2>1
  <2> HIDE DEF n, m
  <2>3. FALSE
    BY <2>2
  <2>4. QED
    BY <2>3
<1>3. QED
  BY <1>2 DEF Popped

\* A copy that fails, after what it cleans up has gone.
LEMMA ErrorIs ==
    ASSUME TreeInvariant, stack # <<>>, ReturnError
    PROVE  Popped("error") /\ unclean' \in BOOLEAN /\ (CleaningUp => unclean')
<1>1. stack \in Seq(Frames) /\ unclean \in BOOLEAN
  BY DEF TreeInvariant, TreeTypes
<1>2. Popped("error")
  BY <1>1, ReturnIs DEF ReturnError
<1>3. unclean' = (unclean \/ CleaningUp)
  BY DEF ReturnError
<1>4. QED
  BY <1>1, <1>2, <1>3

\* Nothing was made before the call failed.
LEMMA EnterFails ==
    ASSUME TreeInvariant, UNCHANGED <<task, earlier, tree>>,
           At("copy", "enter"), ReturnError
    PROVE  TreeInvariant'
<1>1. stack # <<>> /\ Top.does = "copy" /\ Top.at = "enter"
  BY DEF At
<1>2. Popped("error") /\ unclean' \in BOOLEAN
  BY <1>1, ErrorIs
<1>3. IsTree(tree') /\ OthersKept' /\ stack \in Seq(Frames)
  BY NothingChanged DEF TreeInvariant, TreeTypes, TreesTrue
<1>4. stack' = <<>> => tree' = earlier
  BY <1>1, <1>2, <1>3, FirstCall, PoppedAll
<1>5. QED
  BY <1>1, <1>2, <1>3, <1>4, FailedStep

\* The file is copied in part.
LEMMA FileFails ==
    ASSUME TreeInvariant, UNCHANGED <<task, earlier>>,
           At("copy", "enter"), IsFile(Top.src), CanHold(Top.dst), ~IsDirectory(Top.dst),
           tree' = Put(Top.dst, "part"), ReturnError
    PROVE  TreeInvariant'
<1> DEFINE d == Top.dst
<1>1. stack # <<>> /\ Top.does = "copy" /\ Top.at = "enter" /\ Exists(Top.src)
  BY DEF At, IsFile
<1>2. Popped("error") /\ unclean' \in BOOLEAN
  BY <1>1, ErrorIs
<1>3. /\ task.op = "copy" /\ stack \in Seq(Frames) /\ d \in Paths /\ Under(task.dst, d)
      /\ IsTree(tree)
  BY <1>1, TopCopies
<1>4. IsTree(tree') /\ IsPut(tree', tree, d, "part")
  BY <1>3, PutTree, PutIs DEF Contents
<1>5. \A p \in DOMAIN earlier : ~Under(task.dst, p)
  BY <1>1, Ground
<1>6. OthersKept'
  <2>1. SameOutside(tree, tree', d)
    BY <1>3, PutOutside
  <2>2. QED
    BY <1>1, <1>3, <1>4, <1>5, <2>1, WorkOthers
<1>7. ASSUME stack' = <<>>
      PROVE  /\ earlier[task.src] # "dir"
             /\ SubTree(tree', task.dst) = {[at |-> Root, is |-> "part"]}
  <2>1. Len(stack) = 1
    BY <1>1, <1>2, <1>3, <1>7, PoppedAll
  <2>2. Top.src = task.src /\ d = task.dst /\ tree = earlier /\ ~Exists(task.dst)
    BY <1>1, <2>1, FirstCall
  <2>3. \A q \in DOMAIN tree : ~Under(d, q)
    BY <1>3, <2>2, BelowNothing DEF CanHold, Exists
  <2>4. {r \in DOMAIN tree' : Under(d, r)} = {d} /\ tree'[d] = "part"
    <3>1. Under(d, d)
      BY <1>3, UnderOrder
    <3>2. QED
      BY <1>4, <2>3, <3>1 DEF IsPut
  <2>5. SubSeq(d, Len(d) + 1, Len(d)) = <<>>
    <3>1. Len(d) \in Nat
      BY <1>3, UnderOrder
    <3>2. QED
      BY <3>1, SubSeqEmpty
  <2>6. SubTree(tree', d) = {[at |-> SubSeq(q, Len(d) + 1, Len(q)), is |-> tree'[q]] : q \in {d}}
    BY <2>4 DEF SubTree
  <2>7. SubTree(tree', d) = {[at |-> Root, is |-> "part"]}
    BY <2>4, <2>5, <2>6 DEF Root
  <2>8. QED
    BY <2>2, <2>7 DEF IsFile
<1>8. QED
  BY <1>1, <1>2, <1>4, <1>6, <1>7, FailedStep

\* The file is copied whole: what is below its place is what it should be.
LEMMA AfterFile ==
    ASSUME TreeInvariant, UNCHANGED <<task, earlier>>,
           At("copy", "enter"), IsFile(Top.src), CanHold(Top.dst), ~IsDirectory(Top.dst),
           tree' = Put(Top.dst, tree[Top.src]), Well, ~Under(task.src, task.dst)
    PROVE  /\ CallsApart
           /\ \A p \in Paths : Under(task.dst, p) =>
                 IF Waits(Len(stack) - 1, p) THEN p \notin DOMAIN tree' ELSE Matches(p)'
<1> DEFINE d == Top.dst
           n == Len(stack)
<1>1. stack # <<>> /\ Top.does = "copy" /\ Top.at = "enter" /\ Exists(Top.src)
  BY DEF At, IsFile
<1>2. /\ task.op = "copy" /\ stack \in Seq(Frames) /\ d \in Paths /\ Under(task.dst, d)
      /\ IsTree(tree) /\ IsTree(earlier) /\ StackTrue /\ task.dst \in Paths /\ task.src \in Paths
      /\ Top.src \in Paths /\ Under(task.src, Top.src) /\ Top.src = Origin(d)
  BY <1>1, TopCopies
<1>3. /\ task.src \in DOMAIN earlier
      /\ \A p \in DOMAIN earlier : ~Under(task.dst, p)
      /\ FilesCopied /\ CallsApart
  BY <1>1, Ground
<1>4. IsPut(tree', tree, d, tree[Top.src])
  BY PutIs
<1>5. /\ Top.src \in DOMAIN earlier /\ tree[Top.src] = earlier[Top.src]
  BY <1>1, <1>2, <1>3, SourceStays
<1>6. ASSUME NEW p \in Paths, Under(task.dst, p)
      PROVE  IF Waits(n - 1, p) THEN p \notin DOMAIN tree' ELSE Matches(p)'
  <2>1. Pending(p) <=> Waits(n - 1, p) \/ Under(d, p)
    BY <1>1, <1>2, PendingIs DEF OfFrame
  <2>2. IF Pending(p) THEN ~Exists(p) ELSE Matches(p)
    BY <1>3, <1>6 DEF FilesCopied
  <2>3. CASE ~Under(d, p)
    <3>1. p # d
      BY <1>2, <2>3, UnderOrder
    <3>2. (p \in DOMAIN tree' <=> p \in DOMAIN tree) /\ (p \in DOMAIN tree => tree'[p] = tree[p])
      BY <1>4, <3>1 DEF IsPut
    <3>3. QED
      BY <2>1, <2>2, <2>3, <3>2 DEF Matches, Origin, Exists
  <2>4. CASE Under(d, p)
    <3>1. ~Waits(n - 1, p)
      BY <1>1, <1>2, <1>3, <2>4, WaitsApart
    <3>2. CASE p = d
      <4>1. p \in DOMAIN tree' /\ tree'[p] = earlier[Top.src]
        BY <1>4, <1>5, <3>2 DEF IsPut
      <4>2. Matches(p)'
        BY <1>2, <1>5, <3>2, <4>1 DEF Matches, Origin, Exists
      <4>3. QED
        BY <3>1, <4>2
    <3>3. CASE p # d
      <4>1. p \notin DOMAIN tree'
        BY <1>4, <2>1, <2>2, <2>4, <3>3 DEF IsPut, Exists
      <4>2. Origin(p) \in Paths /\ Under(Top.src, Origin(p)) /\ Origin(p) # Top.src
        <5>1. Moved(p, task.dst, task.src) \in Paths
          BY <1>2, <1>6, MovedPath
        <5>2. /\ Under(d, p) <=> Under(Moved(d, task.dst, task.src), Moved(p, task.dst, task.src))
              /\ d = p <=> Moved(d, task.dst, task.src) = Moved(p, task.dst, task.src)
          BY <1>2, <1>6, MovedOrder
        <5>3. QED
          BY <1>2, <2>4, <3>3, <5>1, <5>2 DEF Origin
      <4>3. earlier[Top.src] # "dir"
        BY <1>5 DEF IsFile
      <4>4. Origin(p) \notin DOMAIN earlier
        BY <1>2, <1>5, <4>2, <4>3, BelowFile
      <4>5. Matches(p)'
        BY <4>1, <4>4 DEF Matches, Origin, Exists
      <4>6. QED
        BY <3>1, <4>5
    <3>4. QED
      BY <3>2, <3>3
  <2>5. QED
    BY <2>3, <2>4
<1>7. QED
  BY <1>3, <1>6

\* A copy that went well is on top again of the call that waited for it.
LEMMA LoopAgain ==
    ASSUME TreeInvariant, stack # <<>>, Top.does = "copy", Popped("ok"), stack' # <<>>
    PROVE  Top' = stack[Len(stack) - 1] /\ (Top').at = "loop"
<1> DEFINE n == Len(stack)
<1>1. stack \in Seq(Frames) /\ StackTrue
  BY TopCopies
<1>2. n \in Nat /\ Top = stack[n]
  BY <1>1, TopIs
<1>3. /\ n > 1 /\ Len(stack') = n - 1 /\ stack' \in Seq(Frames)
      /\ \A i \in 1..(n - 1) : stack'[i] = stack[i]
  BY <1>1, PoppedSame
<1>4. Top' = stack'[n - 1]
  BY <1>3 DEF Top, Last
<1>5. n - 1 \in 1..(n - 1) /\ (n - 1) + 1 = n
  BY <1>2, <1>3
<1>6. stack[n - 1].at = "loop"
  <2>1. stack[(n - 1) + 1].does = "copy" => stack[n - 1].at = "loop"
    BY <1>1, <1>5, Waiting
  <2>2. QED
    BY <1>2, <1>5, <2>1
<1>7. QED
  BY <1>3, <1>4, <1>5, <1>6

\* A call that copies returns, and what it had to copy is there.
LEMMA CopyReturns ==
    ASSUME TreeInvariant, stack # <<>>, Top.does = "copy", Popped("ok"),
           UNCHANGED <<task, earlier, unclean>>, IsTree(tree'), OthersKept',
           Top.at = "enter" \/ (Top.at = "close" /\ Top.result = "ok"),
           task.src \in DOMAIN earlier, \A p \in DOMAIN earlier : ~Under(task.dst, p),
           ~IntoItself(Top),
           Well /\ ~Under(task.src, task.dst) =>
              /\ CallsApart
              /\ \A p \in Paths : Under(task.dst, p) =>
                    IF Waits(Len(stack) - 1, p) THEN p \notin DOMAIN tree' ELSE Matches(p)'
    PROVE  TreeInvariant'
<1>1. /\ task.op = "copy" /\ stack \in Seq(Frames) /\ StackTrue /\ TaskIsTyped
      /\ task.src \in Paths /\ task.dst \in Paths /\ IsTree(earlier)
  BY TopCopies
<1>2. StackTrue'
  BY <1>1, PoppedStack
<1>3. TreeTypes'
  <2>1. /\ reply \in {"none", "ok", "error"} /\ unclean \in BOOLEAN
    BY DEF TreeInvariant, TreeTypes
  <2>2. stack' \in Seq(Frames) /\ reply' \in {"none", "ok", "error"}
    <3>1. CASE stack' = <<>> /\ reply' = "ok"
      BY <3>1
    <3>2. CASE stack' \in Seq(Frames) /\ reply' = reply
      BY <2>1, <3>2
    <3>3. QED
      BY <3>1, <3>2 DEF Popped
  <2>3. QED
    BY <1>1, <2>1, <2>2 DEF TreeTypes, TaskIsTyped
<1>4. IntoItselfTrue'
  BY <1>1, InwardReturned
<1>5. CopyTrue'
  <2> SUFFICES ASSUME stack' # <<>>
               PROVE  CopyTrue'
    BY DEF CopyTrue
  <2>1. (Top').at = "loop"
    BY LoopAgain
  <2>2. QED
    BY <2>1 DEF CopyTrue, Started
<1>6. (stack' # <<>> => Well') => Well
  BY <1>1, WellBefore
<1>7. CopiedTrue'
  <2> SUFFICES ASSUME stack' # <<>>, Well', ~Under(task.src, task.dst)
               PROVE  FilesCopied' /\ CallsApart'
    BY DEF CopiedTrue
  <2>1. /\ CallsApart
        /\ \A p \in Paths : Under(task.dst, p) =>
              IF Waits(Len(stack) - 1, p) THEN p \notin DOMAIN tree' ELSE Matches(p)'
    BY <1>6
  <2>2. CallsApart'
    BY <1>1, <2>1, ApartPopped
  <2>3. \A p \in Paths : Under(task.dst, p) =>
              IF Pending(p)' THEN p \notin DOMAIN tree' ELSE Matches(p)'
    BY <1>1, <2>1, PendingPopped
  <2>4. FilesCopied'
    BY <2>3 DEF FilesCopied, Exists
  <2>5. QED
    BY <2>2, <2>4
<1>8. TreeReplyTrue'
  <2>1. CASE stack' # <<>>
    <3>1. reply' = reply
      BY <2>1 DEF Popped
    <3>2. reply' = "none"
      BY <1>1, <3>1, ReplyIsNone
    <3>3. QED
      BY <3>2, NoReply
  <2>2. CASE stack' = <<>>
    <3>1. Len(stack) = 1 /\ reply' = "ok"
      BY <1>1, <2>2, PoppedAll
    <3>2. ~Under(task.src, task.dst)
      <4>1. Top.src = task.src /\ Top.dst = task.dst
        BY <3>1, FirstCall
      <4>2. QED
        BY <4>1 DEF IntoItself
    <3>3. \A p \in Paths : ~Waits(0, p)
      BY DEF Waits
    <3>4. Len(stack) - 1 = 0
      BY <3>1
    <3>5. \A p \in Paths : Under(task.dst, p) => Matches(p)'
      BY <1>6, <2>2, <3>2, <3>3, <3>4
    <3>6. \A p \in Paths : Under(task.dst, p) =>
              /\ p \in DOMAIN tree' <=> Moved(p, task.dst, task.src) \in DOMAIN earlier
              /\ p \in DOMAIN tree' => tree'[p] = earlier[Moved(p, task.dst, task.src)]
      BY <3>5 DEF Matches, Origin, Exists
    <3>7. SubTree(tree', task.dst) = SubTree(earlier, task.src)
      BY <1>1, <3>6, ExactCopy
    <3>8. QED
      BY <1>1, <3>1, <3>7 DEF TreeReplyTrue
  <2>3. QED
    BY <2>1, <2>2
<1>9. QED
  BY <1>2, <1>3, <1>4, <1>5, <1>7, <1>8 DEF TreeInvariant, TreesTrue

\* The file is copied.
LEMMA FileCopied ==
    ASSUME TreeInvariant, UNCHANGED <<task, earlier, unclean>>,
           At("copy", "enter"), IsFile(Top.src), CanHold(Top.dst), ~IsDirectory(Top.dst),
           tree' = Put(Top.dst, tree[Top.src]), Return("ok")
    PROVE  TreeInvariant'
<1> DEFINE d == Top.dst
<1>1. stack # <<>> /\ Top.does = "copy" /\ Top.at = "enter" /\ Exists(Top.src)
  BY DEF At, IsFile
<1>2. /\ task.op = "copy" /\ stack \in Seq(Frames) /\ d \in Paths /\ Under(task.dst, d)
      /\ IsTree(tree) /\ Top.src \in Paths
  BY <1>1, TopCopies
<1>3. Popped("ok")
  BY <1>1, <1>2, ReturnIs
<1>4. IsTree(tree')
  <2>1. tree[Top.src] \in Contents
    BY <1>1, <1>2, Above DEF Exists
  <2>2. QED
    BY <1>2, <2>1, PutTree
<1>5. /\ task.src \in DOMAIN earlier
      /\ \A p \in DOMAIN earlier : ~Under(task.dst, p)
  BY <1>1, Ground
<1>6. OthersKept'
  <2>1. SameOutside(tree, tree', d)
    BY <1>2, PutOutside
  <2>2. QED
    BY <1>1, <1>2, <1>4, <1>5, <2>1, WorkOthers
<1>7. ~IntoItself(Top)
  <2> SUFFICES ASSUME Under(Top.src, d)
               PROVE  FALSE
    BY DEF IntoItself
  <2>1. Top.src # Root
    BY <1>1, <1>2, Above DEF Exists
  <2>2. CASE Top.src = d
    <3>1. Len(stack) \in 1..Len(stack) /\ Top = stack[Len(stack)]
      BY <1>1, <1>2, TopIs
    <3>2. Top.does = "copy" /\ IntoItself(Top) /\ Top.at = "enter" /\ Top.src = Top.dst => ~Exists(Top.src)
      BY <1>2, <3>1 DEF TreeInvariant, IntoItselfTrue
    <3>3. QED
      BY <1>1, <2>2, <3>2 DEF IntoItself
  <2>3. CASE Top.src # d
    <3>1. tree[Top.src] = "dir"
      BY <1>2, <2>1, <2>3, HoldPaths
    <3>2. QED
      BY <3>1 DEF IsFile
  <2>4. QED
    BY <2>2, <2>3
<1>8. Well /\ ~Under(task.src, task.dst) =>
        /\ CallsApart
        /\ \A p \in Paths : Under(task.dst, p) =>
              IF Waits(Len(stack) - 1, p) THEN p \notin DOMAIN tree' ELSE Matches(p)'
  BY AfterFile
<1>9. QED
  BY <1>1, <1>3, <1>4, <1>5, <1>6, <1>7, <1>8, CopyReturns

\* The copy of a directory is whole.
LEMMA DirectoryCopied ==
    ASSUME TreeInvariant, UNCHANGED <<task, earlier, unclean, tree>>,
           At("copy", "close"), Top.result = "ok", Return("ok")
    PROVE  TreeInvariant'
<1>1. stack # <<>> /\ Top.does = "copy" /\ Top.at = "close"
  BY DEF At
<1>2. /\ task.op = "copy" /\ stack \in Seq(Frames) /\ IsTree(tree) /\ IsTree(earlier)
  BY <1>1, TopCopies
<1>3. Popped("ok")
  BY <1>1, <1>2, ReturnIs
<1>4. IsTree(tree') /\ OthersKept'
  BY <1>2, NothingChanged DEF TreeInvariant, TreesTrue
<1>5. Started
  BY <1>1 DEF Started
<1>6. /\ task.src \in DOMAIN earlier
      /\ \A p \in DOMAIN earlier : ~Under(task.dst, p)
  BY <1>1, <1>2, <1>5 DEF TreeInvariant, CopyTrue
<1>7. ~IntoItself(Top)
  <2>1. Len(stack) \in 1..Len(stack) /\ Top = stack[Len(stack)]
    BY <1>1, <1>2, TopIs
  <2>2. Top.does = "copy" /\ IntoItself(Top) /\ Top.at = "close" => Top.result = "error"
    BY <1>2, <2>1 DEF TreeInvariant, IntoItselfTrue
  <2>3. QED
    BY <1>1, <2>2
<1>8. ASSUME Well, ~Under(task.src, task.dst)
      PROVE  /\ CallsApart
             /\ \A p \in Paths : Under(task.dst, p) =>
                   IF Waits(Len(stack) - 1, p) THEN p \notin DOMAIN tree' ELSE Matches(p)'
  <2>1. FilesCopied /\ CallsApart
    BY <1>1, <1>2, <1>5, <1>8 DEF TreeInvariant, CopiedTrue
  <2>2. \A p \in Paths : Pending(p) <=> Waits(Len(stack) - 1, p)
    BY <1>1, <1>2, PendingIs DEF OfFrame
  <2>3. \A p \in Paths : Matches(p) => Matches(p)'
    BY DEF Matches, Origin, Exists
  <2>4. QED
    BY <2>1, <2>2, <2>3 DEF FilesCopied, Exists
<1>9. QED
  BY <1>1, <1>3, <1>4, <1>6, <1>7, <1>8, CopyReturns

\* A step of a copy that changes no file.
LEMMA CopyGoesOn ==
    ASSUME TreeInvariant, stack # <<>>, Top.does = "copy", Top.at \in {"open", "loop", "close"},
           UNCHANGED <<task, earlier, unclean, tree>>,
           stack' \in Seq(Frames), stack' # <<>>, reply' = reply, StackTrue',
           (Top').at \in {"enter", "loop", "close"}, Len(stack') # 1 \/ (Top').at # "enter",
           CopiedTrue', IntoItselfTrue'
    PROVE  TreeInvariant'
<1>1. /\ task.op = "copy" /\ StackTrue /\ TaskIsTyped /\ IsTree(tree) /\ IsTree(earlier)
  BY TopCopies
<1>2. TreeTypes'
  BY <1>1 DEF TreeInvariant, TreeTypes, TaskIsTyped
<1>3. Started /\ Started'
  BY DEF Started
<1>4. CopyTrue'
  BY <1>1, <1>3 DEF TreeInvariant, CopyTrue
<1>5. OthersKept'
  BY NothingChanged DEF TreeInvariant, TreesTrue
<1>6. TreeReplyTrue'
  <2>1. reply' = "none"
    BY <1>1, ReplyIsNone
  <2>2. QED
    BY <2>1, NoReply
<1>7. QED
  BY <1>2, <1>4, <1>5, <1>6 DEF TreeInvariant, TreesTrue

\* The new directory was empty and is deleted.
LEMMA OpenFails ==
    ASSUME TreeInvariant, UNCHANGED <<task, earlier, unclean>>,
           At("copy", "open"), tree' = Without({Top.dst}), Return("error")
    PROVE  TreeInvariant'
<1> DEFINE d == Top.dst
<1>1. stack # <<>> /\ Top.does = "copy" /\ Top.at = "open"
  BY DEF At
<1>2. /\ task.op = "copy" /\ stack \in Seq(Frames) /\ d \in Paths /\ Under(task.dst, d)
      /\ IsTree(tree) /\ IsTree(earlier)
  BY <1>1, TopCopies
<1>3. Popped("error") /\ unclean' \in BOOLEAN
  BY <1>1, <1>2, ReturnIs DEF TreeInvariant, TreeTypes
<1>4. Started
  BY <1>1 DEF Started
<1>5. /\ \A p \in DOMAIN earlier : ~Under(task.dst, p)
      /\ \A p \in DOMAIN tree : Under(d, p) => p = d
  BY <1>1, <1>2, <1>4 DEF TreeInvariant, CopyTrue
<1>6. IsTree(tree') /\ \A q \in DOMAIN tree' : ~Under(d, q)
  BY <1>2, <1>5, WithoutTree
<1>7. OthersKept'
  <2>1. SameOutside(tree, tree', d)
    BY <1>2, WithoutOutside
  <2>2. QED
    BY <1>1, <1>2, <1>5, <1>6, <2>1, WorkOthers
<1>8. stack' = <<>> => tree' = earlier
  <2> SUFFICES ASSUME stack' = <<>>
               PROVE  tree' = earlier'
    OBVIOUS
  <2>1. d = task.dst
    BY <1>1, <1>2, <1>3, PoppedAll, FirstCall
  <2>2. QED
    BY <1>2, <1>6, <1>7, <2>1, AllBack
<1>9. QED
  BY <1>1, <1>3, <1>6, <1>7, <1>8, FailedStep

\* The new directory could not be deleted.
LEMMA OpenLeaves ==
    ASSUME TreeInvariant, UNCHANGED <<task, earlier, tree>>,
           At("copy", "open"), Return("error"), unclean' = TRUE
    PROVE  TreeInvariant'
<1>1. stack # <<>> /\ Top.does = "copy"
  BY DEF At
<1>2. stack \in Seq(Frames) /\ IsTree(tree)
  BY <1>1, TopCopies
<1>3. Popped("error") /\ unclean' \in BOOLEAN
  BY <1>1, <1>2, ReturnIs
<1>4. OthersKept'
  BY NothingChanged DEF TreeInvariant, TreesTrue
<1>5. QED
  BY <1>1, <1>2, <1>3, <1>4, FailedStep

\* The clean-up is over.
LEMMA CopyCleaned ==
    ASSUME TreeInvariant, UNCHANGED <<task, earlier, unclean, tree>>,
           At("copy", "cleaned"), Return("error")
    PROVE  TreeInvariant'
<1>1. stack # <<>> /\ Top.does = "copy" /\ Top.at = "cleaned"
  BY DEF At
<1>2. /\ stack \in Seq(Frames) /\ IsTree(tree) /\ IsTree(earlier) /\ task.op = "copy"
      /\ unclean \in BOOLEAN
  BY <1>1, TopCopies DEF TreeInvariant, TreeTypes
<1>3. Popped("error")
  BY <1>1, <1>2, ReturnIs
<1>4. OthersKept'
  BY NothingChanged DEF TreeInvariant, TreesTrue
<1>5. stack' = <<>> /\ ~unclean' => tree' = earlier
  <2> SUFFICES ASSUME stack' = <<>>, ~unclean
               PROVE  tree' = earlier'
    OBVIOUS
  <2>1. Top.dst = task.dst
    BY <1>1, <1>2, <1>3, PoppedAll, FirstCall
  <2>2. \A p \in DOMAIN tree : ~Under(task.dst, p)
    BY <1>1, <1>2, <2>1 DEF TreeInvariant, CopyTrue
  <2>3. QED
    BY <1>2, <1>4, <2>2, AllBack
<1>6. QED
  BY <1>1, <1>2, <1>3, <1>4, <1>5, FailedStep

\* The clean-up begins.
LEMMA CleanUp ==
    ASSUME TreeInvariant, UNCHANGED <<task, earlier, unclean, tree>>,
           At("copy", "close"), CallThen("cleaned", DeleteFrame(Top.dst, 0))
    PROVE  TreeInvariant'
<1> DEFINE n == Len(stack)
           f == [Top EXCEPT !.at = "cleaned"]
           g == DeleteFrame(Top.dst, 0)
<1>1. stack # <<>> /\ Top.does = "copy" /\ Top.at = "close"
  BY DEF At
<1>2. /\ task.op = "copy" /\ stack \in Seq(Frames) /\ StackTrue
      /\ Top \in Frames /\ FrameTrue(Top) /\ Top.dst \in Paths
  BY <1>1, TopCopies
<1>3. n \in Nat /\ n >= 1 /\ Top = stack[n]
  BY <1>1, <1>2, TopIs
<1>4. /\ f \in Frames /\ f.does = "copy" /\ f.src = Top.src /\ f.dst = Top.dst
      /\ f.at = "cleaned"
  BY <1>1, <1>2 DEF Frames
<1>5. /\ g \in Frames /\ g.does = "delete" /\ g.src = Top.dst /\ g.dst = Top.dst
      /\ g.at = "enter" /\ g.result = "ok"
  BY <1>2 DEF Frames, DeleteFrame
<1>6. stack' = Append([stack EXCEPT ![n] = f], g) /\ UNCHANGED reply
  BY <1>3 DEF CallThen
<1> HIDE DEF f, g
<1>7. Pushed(f, g)
  BY <1>1, <1>2, <1>4, <1>5, <1>6, PushIs
<1>8. FrameTrue(f) /\ FrameTrue(g) /\ Calls(f, g)
  BY <1>1, <1>2, <1>4, <1>5 DEF FrameTrue, Calls
<1>9. StackTrue' /\ stack' # <<>>
  BY <1>1, <1>2, <1>4, <1>7, <1>8, PushedStack
<1>10. /\ stack' \in Seq(Frames) /\ reply' = reply /\ Len(stack') = n + 1
       /\ stack'[n] = f /\ stack'[n + 1] = g
  BY <1>7 DEF Pushed
<1>11. Top' = g
  BY <1>10 DEF Top, Last
<1>12. CopiedTrue'
  <2>1. n \in 1..Len(stack')
    BY <1>3, <1>10
  <2>2. ~Well'
    BY <1>4, <1>10, <2>1 DEF Well
  <2>3. QED
    BY <2>2 DEF CopiedTrue
<1>13. IntoItselfTrue'
  BY <1>1, <1>4, <1>5, <1>7, InwardPushed
<1>14. Len(stack') # 1
  BY <1>3, <1>10
<1>15. QED
  BY <1>1, <1>5, <1>9, <1>10, <1>11, <1>12, <1>13, <1>14, CopyGoesOn

\* The directory is read up to an error.
LEMMA ReadFails ==
    ASSUME TreeInvariant, UNCHANGED <<task, earlier, unclean, tree>>,
           At("copy", "loop"), Become([Top EXCEPT !.at = "close", !.result = "error"])
    PROVE  TreeInvariant'
<1> DEFINE n == Len(stack)
           f == [Top EXCEPT !.at = "close", !.result = "error"]
<1>1. stack # <<>> /\ Top.does = "copy" /\ Top.at = "loop"
  BY DEF At
<1>2. /\ stack \in Seq(Frames) /\ StackTrue /\ Top \in Frames /\ FrameTrue(Top)
  BY <1>1, TopCopies
<1>3. n \in Nat /\ n >= 1
  BY <1>1, <1>2, TopIs
<1>4. /\ f \in Frames /\ f.does = "copy" /\ f.src = Top.src /\ f.dst = Top.dst
      /\ f.at = "close" /\ f.result = "error"
  BY <1>1, <1>2 DEF Frames
<1>5. Became(f)
  BY <1>1, <1>2, <1>4, BecomeIs
<1> HIDE DEF f
<1>6. FrameTrue(f)
  BY <1>1, <1>2, <1>4 DEF FrameTrue
<1>7. StackTrue' /\ stack' # <<>>
  BY <1>1, <1>2, <1>4, <1>5, <1>6, BecameStack
<1>8. stack' \in Seq(Frames) /\ reply' = reply /\ Len(stack') = n /\ stack'[n] = f
  BY <1>5 DEF Became
<1>9. Top' = f
  BY <1>8 DEF Top, Last
<1>10. CopiedTrue'
  <2>1. n \in 1..Len(stack')
    BY <1>3, <1>8
  <2>2. ~Well'
    BY <1>4, <1>8, <2>1 DEF Well
  <2>3. QED
    BY <2>2 DEF CopiedTrue
<1>11. IntoItselfTrue'
  BY <1>1, <1>4, <1>5, InwardBecame
<1>12. QED
  BY <1>1, <1>4, <1>7, <1>8, <1>9, <1>10, <1>11, CopyGoesOn

\* What a step of a copy has to show when it changes no file.
LEMMA StillCopied ==
    ASSUME TreeInvariant, stack # <<>>, Top.does = "copy", Top.at \in {"open", "loop"},
           UNCHANGED <<task, earlier, tree>>,
           \/ \E f : Became(f)
           \/ \E f, g : Pushed(f, g),
           CallsApart => CallsApart',
           FilesCopied /\ ~Under(task.src, task.dst) =>
              \A p \in Paths : Under(task.dst, p) /\ ~(Pending(p)' <=> Pending(p)) =>
                  ~Pending(p)' /\ (~Exists(p) => Matches(p))
    PROVE  CopiedTrue'
<1>1. task.op = "copy" /\ stack \in Seq(Frames) /\ StackTrue
  BY TopCopies
<1> SUFFICES ASSUME Well', ~Under(task.src, task.dst)
             PROVE  FilesCopied' /\ CallsApart'
  BY DEF CopiedTrue
<1>2. Well
  BY <1>1, WellBefore
<1>3. Started
  BY DEF Started
<1>4. FilesCopied /\ CallsApart
  BY <1>1, <1>2, <1>3 DEF TreeInvariant, CopiedTrue
<1>5. ASSUME NEW p \in Paths, Under(task.dst, p)
      PROVE  IF Pending(p)' THEN ~Exists(p) ELSE Matches(p)
  <2>1. IF Pending(p) THEN ~Exists(p) ELSE Matches(p)
    BY <1>4, <1>5 DEF FilesCopied
  <2>2. (Pending(p)' <=> Pending(p)) \/ (~Pending(p)' /\ (~Exists(p) => Matches(p)))
    BY <1>4, <1>5
  <2>3. QED
    BY <2>1, <2>2
<1>6. \A p : (Exists(p) <=> Exists(p)') /\ (Matches(p) => Matches(p)')
  BY DEF Exists, Matches, Origin
<1>7. FilesCopied'
  BY <1>5, <1>6 DEF FilesCopied
<1>8. QED
  BY <1>4, <1>7

\* The source directory is opened: all that is in it is to be copied.
LEMMA OpenCopies ==
    ASSUME TreeInvariant, UNCHANGED <<task, earlier, unclean, tree>>,
           At("copy", "open"),
           Become([Top EXCEPT !.at = "loop", !.todo = Children(Top.src)])
    PROVE  TreeInvariant'
<1> DEFINE n == Len(stack)
           d == Top.dst
           s == Top.src
           f == [Top EXCEPT !.at = "loop", !.todo = Children(s)]
<1>1. stack # <<>> /\ Top.does = "copy" /\ Top.at = "open"
  BY DEF At
<1>2. /\ task.op = "copy" /\ stack \in Seq(Frames) /\ StackTrue
      /\ task.src \in Paths /\ task.dst \in Paths
      /\ Top \in Frames /\ FrameTrue(Top) /\ s \in Paths /\ d \in Paths
      /\ Under(task.dst, d) /\ s = Origin(d) /\ Under(task.src, s)
      /\ IsTree(tree) /\ IsTree(earlier)
  BY <1>1, TopCopies
<1>3. n \in Nat /\ n >= 1 /\ n \in 1..n /\ Top = stack[n]
  BY <1>1, <1>2, TopIs
<1>4. Children(s) \subseteq Names
  BY DEF Children
<1>5. /\ f \in Frames /\ f.does = "copy" /\ f.src = s /\ f.dst = d
      /\ f.at = "loop" /\ f.result = Top.result /\ f.todo = Children(s)
  BY <1>1, <1>2, <1>4 DEF Frames
<1>6. Became(f)
  BY <1>1, <1>2, <1>5, BecomeIs
<1> HIDE DEF f
<1>7. FrameTrue(f)
  BY <1>1, <1>2, <1>5 DEF FrameTrue
<1>8. StackTrue' /\ stack' # <<>>
  BY <1>1, <1>2, <1>5, <1>6, <1>7, BecameStack
<1>9. stack' \in Seq(Frames) /\ reply' = reply /\ Len(stack') = n /\ stack'[n] = f
  BY <1>6 DEF Became
<1>10. Top' = f
  BY <1>9 DEF Top, Last
<1>11. Started
  BY <1>1 DEF Started
<1>12. /\ task.src \in DOMAIN earlier
       /\ \A p \in DOMAIN earlier : ~Under(task.dst, p)
       /\ Exists(d)
  BY <1>1, <1>2, <1>11 DEF TreeInvariant, CopyTrue
<1>13. CopiedTrue'
  <2>1. CallsApart => CallsApart'
    BY <1>1, <1>2, <1>5, <1>6, ApartBecame
  <2>2. ASSUME ~Under(task.src, task.dst), NEW p \in Paths, Under(task.dst, p),
               ~(Pending(p)' <=> Pending(p))
        PROVE  ~Pending(p)' /\ (~Exists(p) => Matches(p))
    <3>1. Pending(p) <=> Waits(n - 1, p) \/ (Under(d, p) /\ p # d)
      BY <1>1, <1>2, PendingIs DEF OfFrame
    <3>2. Pending(p)' <=> Waits(n - 1, p) \/ \E m \in Children(s) : Under(Append(d, m), p)
      <4>1. OfFrame(f, p) <=> \E m \in Children(s) : Under(Append(d, m), p)
        BY <1>5 DEF OfFrame
      <4>2. QED
        BY <1>1, <1>2, <1>6, <4>1, PendingBecame
    <3>3. \A m \in Children(s) : Under(Append(d, m), p) => Under(d, p) /\ p # d
      BY <1>2, <1>4, ChildPaths
    <3>4. ~Waits(n - 1, p) /\ Under(d, p) /\ p # d /\ \A m \in Children(s) : ~Under(Append(d, m), p)
      BY <2>2, <3>1, <3>2, <3>3
    <3>5. PICK m \in Names : Under(Append(d, m), p)
      BY <1>2, <3>4, StepDown
    <3>6. m \notin Children(s) /\ Append(s, m) \notin DOMAIN tree
      BY <3>4, <3>5 DEF Children, Exists
    <3>7. /\ Append(d, m) \in Paths /\ Append(s, m) \in Paths /\ Append(s, m) # Root
          /\ Under(d, Append(d, m)) /\ Under(s, Append(s, m))
      BY <1>2, ChildPaths
    <3>8. Under(task.dst, Append(d, m)) /\ Under(task.src, Append(s, m))
      BY <1>2, <3>7, UnderOrder
    <3>9. Moved(Append(d, m), task.dst, task.src) = Append(s, m)
      BY <1>2, MovedChild DEF Origin
    <3>10. Under(Append(s, m), Origin(p))
      <4>1. Under(Moved(Append(d, m), task.dst, task.src), Moved(p, task.dst, task.src))
        BY <1>2, <2>2, <3>5, <3>7, <3>8, MovedOrder
      <4>2. QED
        BY <3>9, <4>1 DEF Origin
    <3>11. Append(s, m) \notin DOMAIN earlier
      BY <1>1, <1>2, <1>12, <2>2, <3>6, <3>7, <3>8, SourceStays DEF Exists
    <3>12. Origin(p) \notin DOMAIN earlier
      BY <1>2, <3>7, <3>10, <3>11, BelowNothing
    <3>13. ~Exists(p) => Matches(p)
      BY <3>12 DEF Matches
    <3>14. QED
      BY <3>2, <3>4, <3>13
  <2>3. QED
    BY <1>1, <1>6, <2>1, <2>2, StillCopied
<1>14. IntoItselfTrue'
  <2>1. ASSUME IntoItself(f)
        PROVE  f.src # f.dst /\ Toward(f) \in f.todo
    <3>1. IntoItself(stack[n]) /\ Under(s, d)
      BY <1>3, <1>5, <2>1 DEF IntoItself
    <3>2. s # d
      BY <1>1, <1>2, <1>3, <3>1 DEF TreeInvariant, IntoItselfTrue
    <3> DEFINE k == d[Len(s) + 1]
    <3>3. k \in Names /\ Under(Append(s, k), d)
      BY <1>2, <3>1, <3>2, StepDown
    <3> HIDE DEF k
    <3>4. Append(s, k) \in Paths /\ Append(s, k) # Root
      BY <1>2, <3>3, ChildPaths
    <3>5. Append(s, k) \in DOMAIN tree
      <4>1. d \in DOMAIN tree
        BY <1>12 DEF Exists
      <4>2. QED
        BY <1>2, <3>3, <3>4, <4>1, Above
    <3>6. k \in Children(s)
      BY <3>3, <3>5 DEF Children, Exists
    <3>7. Toward(f) = k
      BY <1>5 DEF Toward, k
    <3>8. QED
      BY <1>5, <3>2, <3>6, <3>7
  <2>2. QED
    BY <1>1, <1>5, <1>6, <2>1, InwardBecame
<1>15. QED
  BY <1>1, <1>5, <1>8, <1>9, <1>10, <1>13, <1>14, CopyGoesOn

\* The whole directory has been read.
LEMMA ReadEnds ==
    ASSUME TreeInvariant, UNCHANGED <<task, earlier, unclean, tree>>,
           At("copy", "loop"), Top.todo = {}, Goto("close")
    PROVE  TreeInvariant'
<1> DEFINE n == Len(stack)
           f == [Top EXCEPT !.at = "close"]
<1>1. stack # <<>> /\ Top.does = "copy" /\ Top.at = "loop"
  BY DEF At
<1>2. /\ stack \in Seq(Frames) /\ StackTrue /\ Top \in Frames /\ FrameTrue(Top) /\ task.op = "copy"
  BY <1>1, TopCopies
<1>3. n \in Nat /\ n >= 1 /\ n \in 1..n /\ Top = stack[n]
  BY <1>1, <1>2, TopIs
<1>4. /\ f \in Frames /\ f.does = "copy" /\ f.src = Top.src /\ f.dst = Top.dst
      /\ f.at = "close" /\ f.todo = {}
  BY <1>1, <1>2 DEF Frames
<1>5. Became(f)
  BY <1>1, <1>2, <1>4, BecomeIs DEF Goto
<1> HIDE DEF f
<1>6. FrameTrue(f)
  BY <1>1, <1>2, <1>4 DEF FrameTrue
<1>7. StackTrue' /\ stack' # <<>>
  BY <1>1, <1>2, <1>4, <1>5, <1>6, BecameStack
<1>8. stack' \in Seq(Frames) /\ reply' = reply /\ Len(stack') = n /\ stack'[n] = f
  BY <1>5 DEF Became
<1>9. Top' = f
  BY <1>8 DEF Top, Last
<1>10. CopiedTrue'
  <2>1. CallsApart => CallsApart'
    BY <1>1, <1>2, <1>4, <1>5, ApartBecame
  <2>2. ASSUME NEW p
        PROVE  Pending(p)' <=> Pending(p)
    <3>1. ~OfFrame(f, p) /\ ~OfFrame(Top, p)
      BY <1>1, <1>4 DEF OfFrame
    <3>2. QED
      BY <1>1, <1>2, <1>5, <3>1, PendingIs, PendingBecame
  <2>3. QED
    BY <1>1, <1>5, <2>1, <2>2, StillCopied
<1>11. IntoItselfTrue'
  <2>1. ~IntoItself(f)
    <3>1. IntoItself(f) => IntoItself(stack[n])
      BY <1>3, <1>4 DEF IntoItself
    <3>2. ~(n < Len(stack))
      BY <1>3
    <3>3. ~IntoItself(stack[n])
      BY <1>1, <1>2, <1>3, <3>2 DEF TreeInvariant, IntoItselfTrue
    <3>4. QED
      BY <3>1, <3>3
  <2>2. QED
    BY <1>1, <1>4, <1>5, <2>1, InwardBecame
<1>12. QED
  BY <1>1, <1>4, <1>7, <1>8, <1>9, <1>10, <1>11, CopyGoesOn

\* The next entry is copied.
LEMMA ReadGoesOn ==
    ASSUME TreeInvariant, UNCHANGED <<task, earlier, unclean, tree>>,
           At("copy", "loop"), NEW k \in Top.todo, UNCHANGED reply,
           stack' = Append([stack EXCEPT ![Len(stack)].todo = @ \ {k}],
                       CopyFrame(Append(Top.src, k), Append(Top.dst, k), Top.depth + 1))
    PROVE  TreeInvariant'
<1> DEFINE n == Len(stack)
           d == Top.dst
           s == Top.src
           f == [Top EXCEPT !.todo = @ \ {k}]
           g == CopyFrame(Append(s, k), Append(d, k), Top.depth + 1)
<1>1. stack # <<>> /\ Top.does = "copy" /\ Top.at = "loop"
  BY DEF At
<1>2. /\ task.op = "copy" /\ stack \in Seq(Frames) /\ StackTrue
      /\ task.src \in Paths /\ task.dst \in Paths
      /\ Top \in Frames /\ FrameTrue(Top) /\ s \in Paths /\ d \in Paths
      /\ Under(task.dst, d) /\ s = Origin(d) /\ Top.todo \subseteq Names
  BY <1>1, TopCopies
<1>3. n \in Nat /\ n >= 1 /\ n \in 1..n /\ Top = stack[n]
  BY <1>1, <1>2, TopIs
<1>4. /\ f \in Frames /\ f.does = "copy" /\ f.src = s /\ f.dst = d
      /\ f.at = "loop" /\ f.result = Top.result /\ f.todo = Top.todo \ {k}
  BY <1>1, <1>2 DEF Frames
<1>5. /\ k \in Names /\ Append(s, k) \in Paths /\ Append(d, k) \in Paths
      /\ Under(d, Append(d, k)) /\ Under(s, Append(s, k))
      /\ Len(Append(s, k)) = Len(s) + 1 /\ Len(Append(d, k)) = Len(d) + 1
  BY <1>2, ChildPaths
<1>6. /\ g \in Frames /\ g.does = "copy" /\ g.src = Append(s, k) /\ g.dst = Append(d, k)
      /\ g.at = "enter" /\ g.result = "ok" /\ g.todo = {}
  <2>1. Top.depth + 1 \in Nat
    BY <1>2 DEF Frames
  <2>2. QED
    BY <1>5, <2>1 DEF Frames, CopyFrame
<1>7. stack' = Append([stack EXCEPT ![n] = f], g) /\ UNCHANGED reply
  BY <1>3
<1> HIDE DEF f, g
<1>8. Pushed(f, g)
  BY <1>1, <1>2, <1>4, <1>6, <1>7, PushIs
<1>9. FrameTrue(f)
  BY <1>1, <1>2, <1>4 DEF FrameTrue
<1>10. FrameTrue(g)
  <2>1. Under(task.dst, Append(d, k))
    BY <1>2, <1>5, UnderOrder
  <2>2. Moved(Append(d, k), task.dst, task.src) = Append(s, k)
    <3>1. Moved(Append(d, k), task.dst, task.src) = Append(Moved(d, task.dst, task.src), k)
      BY <1>2, <1>5, MovedChild
    <3>2. QED
      BY <1>2, <3>1 DEF Origin
  <2>3. QED
    BY <1>2, <1>6, <2>1, <2>2 DEF FrameTrue, Origin
<1>11. Calls(f, g)
  BY <1>4, <1>5, <1>6 DEF Calls
<1>12. StackTrue' /\ stack' # <<>>
  BY <1>1, <1>2, <1>4, <1>8, <1>9, <1>10, <1>11, PushedStack
<1>13. /\ stack' \in Seq(Frames) /\ reply' = reply /\ Len(stack') = n + 1
       /\ stack'[n + 1] = g
  BY <1>8 DEF Pushed
<1>14. Top' = g
  BY <1>13 DEF Top, Last
<1>15. CopiedTrue'
  <2>1. CallsApart => CallsApart'
    BY <1>1, <1>2, <1>4, <1>6, <1>8, ApartPushed
  <2>2. ASSUME NEW p
        PROVE  Pending(p)' <=> Pending(p)
    <3>1. OfFrame(Top, p) <=> \E m \in Top.todo : Under(Append(d, m), p)
      BY <1>1 DEF OfFrame
    <3>2. OfFrame(f, p) <=> \E m \in Top.todo \ {k} : Under(Append(d, m), p)
      BY <1>4 DEF OfFrame
    <3>3. OfFrame(g, p) <=> Under(Append(d, k), p)
      BY <1>6 DEF OfFrame
    <3>4. OfFrame(Top, p) <=> OfFrame(f, p) \/ OfFrame(g, p)
      BY <3>1, <3>2, <3>3
    <3>5. Pending(p) <=> Waits(n - 1, p) \/ OfFrame(Top, p)
      BY <1>1, <1>2, PendingIs
    <3>6. Pending(p)' <=> Waits(n - 1, p) \/ OfFrame(f, p) \/ OfFrame(g, p)
      BY <1>1, <1>2, <1>8, PendingPushed
    <3>7. QED
      BY <3>4, <3>5, <3>6
  <2>3. QED
    BY <1>1, <1>8, <2>1, <2>2, StillCopied
<1>16. IntoItselfTrue'
  <2>1. s # d
    <3>1. s = d => IntoItself(stack[n])
      BY <1>2, <1>3, UnderOrder DEF IntoItself
    <3>2. QED
      BY <1>1, <1>2, <1>3, <3>1 DEF TreeInvariant, IntoItselfTrue
  <2>2. g.src # g.dst
    <3> SUFFICES ASSUME Append(s, k) = Append(d, k)
                 PROVE  FALSE
      BY <1>6
    <3>1. Len(s) \in Nat /\ Len(d) \in Nat
      BY <1>2, UnderOrder
    <3>2. Len(s) + 1 = Len(d) + 1
      BY <1>5
    <3>3. Len(s) <= Len(d)
      BY <3>1, <3>2
    <3>4. Under(s, d)
      BY <1>2, <1>5, <3>3, UnderOrder
    <3>5. Len(d) <= Len(s)
      BY <3>1, <3>2
    <3>6. QED
      BY <1>2, <2>1, <3>4, <3>5, UnderOrder
  <2>3. IntoItself(f) => Toward(f) \in f.todo \/ g.src = Append(f.src, Toward(f))
    <3>1. IntoItself(f) => IntoItself(stack[n])
      BY <1>3, <1>4 DEF IntoItself
    <3>2. Toward(f) = Toward(stack[n])
      BY <1>3, <1>4 DEF Toward
    <3>3. ~(n < Len(stack))
      BY <1>3
    <3>4. IntoItself(stack[n]) => Toward(stack[n]) \in Top.todo
      BY <1>1, <1>2, <1>3, <3>3 DEF TreeInvariant, IntoItselfTrue
    <3>5. QED
      BY <1>4, <1>6, <3>1, <3>2, <3>4
  <2>4. QED
    BY <1>1, <1>4, <1>6, <1>8, <2>1, <2>2, <2>3, InwardPushed
<1>17. Len(stack') # 1
  BY <1>3, <1>13
<1>18. QED
  BY <1>1, <1>6, <1>12, <1>13, <1>14, <1>15, <1>16, <1>17, CopyGoesOn

\* Every step of a copy keeps the invariant.
LEMMA CopySteps ==
    ASSUME TreeInvariant, UNCHANGED <<task, earlier>>,
           EnterCopy \/ OpenCopy \/ ReadCopy \/ CloseCopy \/ Cleaned
    PROVE  TreeInvariant'
<1>1. CASE EnterCopy
  <2>1. At("copy", "enter")
    BY <1>1 DEF EnterCopy
  <2>2. CASE ReturnError /\ UNCHANGED tree
    BY <2>1, <2>2, EnterFails
  <2>3. CASE IsFile(Top.src) /\ CopyFile(Top.src, Top.dst)
    <3>1. CASE ReturnError /\ UNCHANGED tree
      BY <2>1, <3>1, EnterFails
    <3>2. CASE /\ CanHold(Top.dst) /\ ~IsDirectory(Top.dst)
               /\ tree' = Put(Top.dst, tree[Top.src]) /\ Return("ok") /\ UNCHANGED unclean
      BY <2>1, <2>3, <3>2, FileCopied
    <3>3. CASE /\ CanHold(Top.dst) /\ ~IsDirectory(Top.dst)
               /\ tree' = Put(Top.dst, "part") /\ ReturnError
      BY <2>1, <2>3, <3>3, FileFails
    <3>4. QED
      BY <2>3, <3>1, <3>2, <3>3 DEF CopyFile
  <2>4. CASE /\ Exists(Top.src) /\ IsDirectory(Top.src) /\ CanHold(Top.dst) /\ ~Exists(Top.dst)
             /\ tree' = Put(Top.dst, "dir") /\ Goto("open") /\ UNCHANGED unclean
    BY <2>1, <2>4, EnterDirectory
  <2>5. QED
    BY <1>1, <2>2, <2>3, <2>4 DEF EnterCopy
<1>2. CASE OpenCopy
  <2>1. At("copy", "open")
    BY <1>2 DEF OpenCopy
  <2>2. CASE /\ Become([Top EXCEPT !.at = "loop", !.todo = Children(Top.src)])
             /\ UNCHANGED <<tree, unclean>>
    BY <2>1, <2>2, OpenCopies
  <2>3. CASE tree' = Without({Top.dst}) /\ Return("error") /\ UNCHANGED unclean
    BY <2>1, <2>3, OpenFails
  <2>4. CASE Return("error") /\ unclean' = TRUE /\ UNCHANGED tree
    BY <2>1, <2>4, OpenLeaves
  <2>5. QED
    BY <1>2, <2>2, <2>3, <2>4 DEF OpenCopy
<1>3. CASE ReadCopy
  <2>1. At("copy", "loop") /\ UNCHANGED <<tree, unclean>>
    BY <1>3 DEF ReadCopy
  <2>2. CASE Top.todo = {} /\ Goto("close")
    BY <2>1, <2>2, ReadEnds
  <2>3. CASE Become([Top EXCEPT !.at = "close", !.result = "error"])
    BY <2>1, <2>3, ReadFails
  <2>4. ASSUME NEW k \in Top.todo, UNCHANGED reply,
               stack' = Append([stack EXCEPT ![Len(stack)].todo = @ \ {k}],
                           CopyFrame(Append(Top.src, k), Append(Top.dst, k), Top.depth + 1))
        PROVE  TreeInvariant'
    BY <2>1, <2>4, ReadGoesOn
  <2>5. QED
    BY <1>3, <2>2, <2>3, <2>4 DEF ReadCopy
<1>4. CASE CloseCopy
  <2>1. At("copy", "close") /\ UNCHANGED <<tree, unclean>>
    BY <1>4 DEF CloseCopy
  <2>2. CASE Top.result = "ok" /\ Return("ok")
    BY <2>1, <2>2, DirectoryCopied
  <2>3. CASE CallThen("cleaned", DeleteFrame(Top.dst, 0))
    BY <2>1, <2>3, CleanUp
  <2>4. QED
    BY <1>4, <2>2, <2>3 DEF CloseCopy
<1>5. CASE Cleaned
  BY <1>5, CopyCleaned DEF Cleaned
<1>6. QED
  BY <1>1, <1>2, <1>3, <1>4, <1>5

-----------------------------------------------------------------------------
(***************************************************************************)
(* The steps of a deletion.                                                *)
(***************************************************************************)

\* The call on top, when it deletes.
LEMMA TopDeletes ==
    ASSUME TreeInvariant, stack # <<>>, Top.does = "delete"
    PROVE  /\ stack \in Seq(Frames) /\ StackTrue /\ TaskIsTyped
           /\ Top \in Frames /\ FrameTrue(Top) /\ Top.src = Top.dst
           /\ Top.src \in Paths /\ Top.todo \subseteq Names
           /\ Under(task.dst, Top.dst)
           /\ IsTree(tree) /\ IsTree(earlier)
           /\ task.op \in {"copy", "delete"} /\ reply = "none"
           /\ task.op = "copy" => CleaningUp /\ Len(stack) # 1
           /\ task.op = "copy" => \A p \in DOMAIN earlier : ~Under(task.dst, p)
<1>1. /\ StackTrue /\ stack \in Seq(Frames) /\ TaskIsTyped /\ IsTree(tree) /\ IsTree(earlier)
  BY DEF TreeInvariant, TreeTypes
<1>2. /\ Top \in Frames /\ Top = stack[Len(stack)] /\ Len(stack) \in 1..Len(stack)
      /\ Len(stack) \in Nat /\ DOMAIN stack = 1..Len(stack)
  BY <1>1, TopIs
<1>3. FrameTrue(Top) /\ task.op \in {"copy", "delete"} /\ reply = "none"
  BY <1>1, <1>2 DEF StackTrue
<1>4. Under(task.dst, Top.dst) /\ Top.src = Top.dst
  BY <1>3 DEF FrameTrue
<1>5. Top.src \in Paths /\ Top.todo \subseteq Names
  BY <1>2 DEF Frames
<1>6. task.op = "copy" => CleaningUp
  <2> SUFFICES ASSUME task.op = "copy"
               PROVE  CleaningUp
    OBVIOUS
  <2>1. PICK j \in 1..(Len(stack) - 1) : stack[j].at = "cleaned"
    BY <1>1, <1>2 DEF StackTrue
  <2>2. j \in DOMAIN stack
    BY <1>2, <2>1
  <2>3. QED
    BY <2>1, <2>2 DEF CleaningUp
<1>7. task.op = "copy" => Len(stack) # 1
  BY <1>1, <1>2 DEF StackTrue
<1>8. task.op = "copy" => \A p \in DOMAIN earlier : ~Under(task.dst, p)
  BY <1>7 DEF TreeInvariant, CopyTrue, Started
<1>9. QED
  BY <1>1, <1>2, <1>3, <1>4, <1>5, <1>6, <1>7, <1>8

\* The call on top goes on, calls, or returns.
LEMMA DeleteStep ==
    ASSUME TreeInvariant, stack # <<>>, Top.does = "delete",
           UNCHANGED <<task, earlier>>, StackTrue', IsTree(tree'), OthersKept',
           unclean' \in BOOLEAN,
           \/ \E f : Became(f) /\ f.does = "delete"
           \/ \E f, g : Pushed(f, g) /\ f.does = "delete" /\ g.does = "delete"
           \/ Popped("ok") /\ \A p \in DOMAIN tree' : ~Under(Top.dst, p)
           \/ Popped("error") /\ (task.op = "copy" => unclean')
    PROVE  TreeInvariant'
<1>1. CopyTrue' /\ CopiedTrue' /\ IntoItselfTrue'
  BY DeleteGoesOn
<1>2. /\ stack \in Seq(Frames) /\ StackTrue /\ TaskIsTyped /\ IsTree(earlier)
      /\ task.op \in {"copy", "delete"} /\ reply = "none"
      /\ task.op = "copy" => Len(stack) # 1
  BY TopDeletes
<1>3. \/ stack' \in Seq(Frames) /\ reply' = "none"
      \/ stack' = <<>> /\ Len(stack) = 1 /\ reply' = "error"
      \/ /\ stack' = <<>> /\ Len(stack) = 1 /\ reply' = "ok"
         /\ \A p \in DOMAIN tree' : ~Under(Top.dst, p)
  BY <1>2 DEF Became, Pushed, Popped
<1>4. TreeTypes'
  <2>1. stack' \in Seq(Frames) /\ reply' \in {"none", "ok", "error"}
    <3>1. <<>> \in Seq(Frames)
      OBVIOUS
    <3>2. QED
      BY <1>3, <3>1
  <2>2. QED
    BY <1>2, <2>1 DEF TreeTypes, TaskIsTyped
<1>5. TreeReplyTrue'
  <2>1. CASE reply' = "none"
    BY <2>1, NoReply
  <2>2. CASE Len(stack) = 1 /\ reply' = "error"
    BY <1>2, <2>2 DEF TreeReplyTrue
  <2>3. CASE Len(stack) = 1 /\ reply' = "ok" /\ \A p \in DOMAIN tree' : ~Under(Top.dst, p)
    <3>1. Top = stack[1]
      BY <1>2, <2>3, TopIs
    <3>2. task.op = "delete" /\ task.src = task.dst /\ Top.dst = task.dst
      BY <1>2, <2>3, <3>1 DEF StackTrue
    <3>3. SubTree(tree', task.src) = {}
      BY <2>3, <3>2 DEF SubTree
    <3>4. QED
      BY <2>3, <3>2, <3>3 DEF TreeReplyTrue
  <2>4. QED
    BY <1>3, <2>1, <2>2, <2>3
<1>6. QED
  BY <1>1, <1>4, <1>5 DEF TreeInvariant, TreesTrue

\* The call fails.
LEMMA DeleteFails ==
    ASSUME TreeInvariant, UNCHANGED <<task, earlier, tree>>,
           stack # <<>>, Top.does = "delete", ReturnError
    PROVE  TreeInvariant'
<1>1. /\ stack \in Seq(Frames) /\ StackTrue /\ IsTree(tree)
      /\ task.op = "copy" => CleaningUp
  BY TopDeletes
<1>2. Popped("error") /\ unclean' \in BOOLEAN /\ (CleaningUp => unclean')
  BY ErrorIs
<1>3. StackTrue'
  BY <1>1, <1>2, PoppedStack
<1>4. OthersKept'
  BY NothingChanged DEF TreeInvariant, TreesTrue
<1>5. QED
  BY <1>1, <1>2, <1>3, <1>4, DeleteStep

\* A file or an empty directory is deleted.
LEMMA Unlinked ==
    ASSUME TreeInvariant, UNCHANGED <<task, earlier, unclean>>,
           stack # <<>>, Top.does = "delete",
           Exists(Top.src), IsDirectory(Top.src) => Children(Top.src) = {},
           tree' = Without({Top.src}), Return("ok")
    PROVE  TreeInvariant'
<1> DEFINE d == Top.src
<1>1. /\ stack \in Seq(Frames) /\ StackTrue /\ IsTree(tree) /\ d \in Paths /\ Top.dst = d
      /\ Under(task.dst, d)
      /\ task.op = "copy" => \A p \in DOMAIN earlier : ~Under(task.dst, p)
  BY TopDeletes
<1>2. Popped("ok")
  BY <1>1, ReturnIs
<1>3. StackTrue'
  BY <1>1, <1>2, PoppedStack
<1>4. \A q \in DOMAIN tree : Under(d, q) => q = d
  <2>1. CASE IsDirectory(d)
    BY <1>1, <2>1, BelowEmpty
  <2>2. CASE ~IsDirectory(d)
    <3>1. d \in DOMAIN tree /\ tree[d] # "dir"
      BY <2>2 DEF IsDirectory, Exists
    <3>2. QED
      BY <1>1, <3>1, BelowFile
  <2>3. QED
    BY <2>1, <2>2
<1>5. IsTree(tree') /\ \A q \in DOMAIN tree' : ~Under(d, q)
  BY <1>1, <1>4, WithoutTree
<1>6. OthersKept'
  <2>1. SameOutside(tree, tree', d)
    BY <1>1, WithoutOutside
  <2>2. \A p \in DOMAIN tree' : p \in DOMAIN tree /\ tree'[p] = tree[p]
    <3>1. IsWithout(tree', tree, {d})
      BY WithoutIs
    <3>2. QED
      BY <3>1 DEF IsWithout
  <2>3. QED
    BY <1>1, <1>5, <2>1, <2>2, WorkOthers
<1>7. unclean' \in BOOLEAN
  BY DEF TreeInvariant, TreeTypes
<1>8. QED
  BY <1>1, <1>2, <1>3, <1>5, <1>6, <1>7, DeleteStep

\* A call deletes what it was made for.
LEMMA UnlinkStep ==
    ASSUME TreeInvariant, UNCHANGED <<task, earlier>>,
           stack # <<>>, Top.does = "delete", Unlink(Top.src)
    PROVE  TreeInvariant'
<1>1. CASE /\ Exists(Top.src) /\ (IsDirectory(Top.src) => Children(Top.src) = {})
           /\ tree' = Without({Top.src}) /\ Return("ok") /\ UNCHANGED unclean
  BY <1>1, Unlinked
<1>2. CASE ReturnError /\ UNCHANGED tree
  BY <1>2, DeleteFails
<1>3. QED
  BY <1>1, <1>2 DEF Unlink

\* The call goes on, and nothing changes.
LEMMA DeleteLooks ==
    ASSUME TreeInvariant, UNCHANGED <<task, earlier, unclean, tree>>,
           stack # <<>>, Top.does = "delete", NEW f \in Frames, Become(f),
           f.does = "delete", f.src = Top.src, f.dst = Top.dst,
           f.at = "close" \/ (f.at = "loop" /\ f.result = "ok")
    PROVE  TreeInvariant'
<1>1. /\ stack \in Seq(Frames) /\ StackTrue /\ IsTree(tree) /\ FrameTrue(Top)
  BY TopDeletes
<1>2. Became(f)
  BY <1>1, BecomeIs
<1>3. FrameTrue(f)
  BY <1>1 DEF FrameTrue
<1>4. StackTrue'
  BY <1>1, <1>2, <1>3, BecameStack
<1>5. OthersKept' /\ unclean' \in BOOLEAN
  BY NothingChanged DEF TreeInvariant, TreesTrue, TreeTypes
<1>6. QED
  BY <1>1, <1>2, <1>4, <1>5, DeleteStep

\* The next entry is deleted.
LEMMA DeleteCalls ==
    ASSUME TreeInvariant, UNCHANGED <<task, earlier, unclean, tree>>,
           At("delete", "loop"), NEW k \in Top.todo, UNCHANGED reply,
           stack' = Append([stack EXCEPT ![Len(stack)].todo = @ \ {k}],
                       DeleteFrame(Append(Top.src, k), Top.depth + 1))
    PROVE  TreeInvariant'
<1> DEFINE n == Len(stack)
           f == [Top EXCEPT !.todo = @ \ {k}]
           g == DeleteFrame(Append(Top.src, k), Top.depth + 1)
<1>1. stack # <<>> /\ Top.does = "delete" /\ Top.at = "loop"
  BY DEF At
<1>2. /\ stack \in Seq(Frames) /\ StackTrue /\ IsTree(tree) /\ FrameTrue(Top)
      /\ Top \in Frames /\ Top.src \in Paths /\ Top.dst = Top.src /\ Top.todo \subseteq Names
      /\ TaskIsTyped /\ task.op \in {"copy", "delete"} /\ Under(task.dst, Top.dst)
  BY <1>1, TopDeletes
<1>3. Top = stack[n]
  BY <1>1, <1>2, TopIs
<1>4. /\ f \in Frames /\ f.does = "delete" /\ f.src = Top.src /\ f.dst = Top.dst
      /\ f.at = "loop" /\ f.result = Top.result
  BY <1>1, <1>2 DEF Frames
<1>5. k \in Names /\ Append(Top.src, k) \in Paths /\ Under(Top.src, Append(Top.src, k))
  BY <1>2, ChildPaths
<1>6. /\ g \in Frames /\ g.does = "delete" /\ g.src = Append(Top.src, k)
      /\ g.dst = Append(Top.src, k) /\ g.at = "enter" /\ g.result = "ok"
  <2>1. Top.depth + 1 \in Nat
    BY <1>2 DEF Frames
  <2>2. QED
    BY <1>5, <2>1 DEF Frames, DeleteFrame
<1>7. stack' = Append([stack EXCEPT ![n] = f], g) /\ UNCHANGED reply
  BY <1>3
<1> HIDE DEF f, g
<1>8. Pushed(f, g)
  BY <1>1, <1>2, <1>4, <1>6, <1>7, PushIs
<1>9. FrameTrue(f)
  BY <1>1, <1>2, <1>4 DEF FrameTrue
<1>10. FrameTrue(g)
  <2>1. task.dst \in Paths
    BY <1>2 DEF TaskIsTyped, NoTask
  <2>2. Under(task.dst, Append(Top.src, k))
    BY <1>2, <1>5, <2>1, UnderOrder
  <2>3. QED
    BY <1>6, <2>2 DEF FrameTrue
<1>11. Calls(f, g)
  BY <1>2, <1>4, <1>5, <1>6 DEF Calls
<1>12. StackTrue'
  BY <1>1, <1>2, <1>4, <1>8, <1>9, <1>10, <1>11, PushedStack
<1>13. OthersKept' /\ unclean' \in BOOLEAN
  BY NothingChanged DEF TreeInvariant, TreesTrue, TreeTypes
<1>14. QED
  BY <1>1, <1>2, <1>4, <1>6, <1>8, <1>12, <1>13, DeleteStep

\* Every step of a deletion keeps the invariant.
LEMMA DeleteSteps ==
    ASSUME TreeInvariant, UNCHANGED <<task, earlier>>,
           EnterDelete \/ ReadDelete \/ CloseDelete
    PROVE  TreeInvariant'
<1>1. stack # <<>> /\ Top.does = "delete" /\ (ReadDelete => Top.at = "loop")
      /\ (EnterDelete => Top.at = "enter")
  BY DEF EnterDelete, ReadDelete, CloseDelete, At
<1>2. Top \in Frames /\ FrameTrue(Top)
  BY <1>1, TopDeletes
<1>3. ASSUME NEW todo \in SUBSET Names, Top.at \in {"enter", "loop"}, UNCHANGED <<tree, unclean>>,
             Become([Top EXCEPT !.at = "loop", !.todo = todo])
      PROVE  TreeInvariant'
  <2> DEFINE f == [Top EXCEPT !.at = "loop", !.todo = todo]
  <2>1. /\ f \in Frames /\ f.does = "delete" /\ f.src = Top.src /\ f.dst = Top.dst
        /\ f.at = "loop" /\ f.result = Top.result
    BY <1>1, <1>2 DEF Frames
  <2>2. Top.result = "ok"
    BY <1>2, <1>3 DEF FrameTrue
  <2> HIDE DEF f
  <2>3. Become(f)
    BY <1>3 DEF f
  <2>4. QED
    BY <1>1, <1>3, <2>1, <2>2, <2>3, DeleteLooks
<1>4. ASSUME UNCHANGED <<tree, unclean>>,
             Become([Top EXCEPT !.at = "close", !.result = "error"])
      PROVE  TreeInvariant'
  <2> DEFINE f == [Top EXCEPT !.at = "close", !.result = "error"]
  <2>1. /\ f \in Frames /\ f.does = "delete" /\ f.src = Top.src /\ f.dst = Top.dst
        /\ f.at = "close"
    BY <1>1, <1>2 DEF Frames
  <2> HIDE DEF f
  <2>2. Become(f)
    BY <1>4 DEF f
  <2>3. QED
    BY <1>1, <1>4, <2>1, <2>2, DeleteLooks
<1>5. ASSUME UNCHANGED <<tree, unclean>>, Goto("close")
      PROVE  TreeInvariant'
  <2> DEFINE f == [Top EXCEPT !.at = "close"]
  <2>1. /\ f \in Frames /\ f.does = "delete" /\ f.src = Top.src /\ f.dst = Top.dst
        /\ f.at = "close"
    BY <1>1, <1>2 DEF Frames
  <2> HIDE DEF f
  <2>2. Become(f)
    BY <1>5 DEF f, Goto
  <2>3. QED
    BY <1>1, <1>5, <2>1, <2>2, DeleteLooks
<1>6. CASE EnterDelete
  <2>1. CASE ReturnError /\ UNCHANGED tree
    BY <1>1, <2>1, DeleteFails
  <2>2. CASE Unlink(Top.src)
    BY <1>1, <2>2, UnlinkStep
  <2>3. CASE /\ Become([Top EXCEPT !.at = "loop", !.todo = Children(Top.src)])
             /\ UNCHANGED <<tree, unclean>>
    <3>1. Children(Top.src) \in SUBSET Names
      BY DEF Children
    <3>2. QED
      BY <1>1, <1>3, <1>6, <2>3, <3>1
  <2>4. QED
    BY <1>6, <2>1, <2>2, <2>3 DEF EnterDelete
<1>7. CASE ReadDelete
  <2>1. UNCHANGED <<tree, unclean>> /\ At("delete", "loop")
    BY <1>7 DEF ReadDelete
  <2>2. ASSUME NEW k \in Top.todo, UNCHANGED reply,
               stack' = Append([stack EXCEPT ![Len(stack)].todo = @ \ {k}],
                           DeleteFrame(Append(Top.src, k), Top.depth + 1))
        PROVE  TreeInvariant'
    BY <2>1, <2>2, DeleteCalls
  <2>3. QED
    BY <1>4, <1>5, <1>7, <2>1, <2>2 DEF ReadDelete
<1>8. CASE CloseDelete
  <2>1. CASE ReturnError /\ UNCHANGED tree
    BY <1>1, <2>1, DeleteFails
  <2>2. CASE Unlink(Top.src)
    BY <1>1, <2>2, UnlinkStep
  <2>3. QED
    BY <1>8, <2>1, <2>2 DEF CloseDelete
<1>9. QED
  BY <1>6, <1>7, <1>8

-----------------------------------------------------------------------------
(***************************************************************************)
(* The calls that begin.                                                   *)
(***************************************************************************)

\* A path a call can be made with.
LEMMA CallPaths ==
    \A p \in PathsTo(2) : p \in Paths /\ p # Root
<1>1. ASSUME NEW k \in 1..2, NEW p \in [1..k -> Names]
      PROVE  p \in Paths /\ p # Root
  <2>1. p \in Seq(Names) /\ Len(p) = k
    BY <1>1
  <2>2. k # 0
    OBVIOUS
  <2>3. Len(<<>>) = 0
    OBVIOUS
  <2>4. QED
    BY <2>1, <2>2, <2>3 DEF Paths, Root
<1>2. QED
  BY <1>1 DEF PathsTo

\* A call begins when none is in progress.
LEMMA Begun ==
    ASSUME TreeInvariant, NEW t, Begin(t)
    PROVE  /\ stack = <<>> /\ IsTree(tree)
           /\ task' = t /\ earlier' = tree /\ unclean' = FALSE
<1>1. task = NoTask /\ task' = t /\ earlier' = tree /\ unclean' = FALSE
  BY DEF Begin
<1>2. StackTrue /\ IsTree(tree)
  BY DEF TreeInvariant, TreeTypes
<1>3. task.op \notin {"copy", "delete"}
  BY <1>1 DEF NoTask
<1>4. QED
  BY <1>1, <1>2, <1>3 DEF StackTrue

\* No call is in progress afterwards.
LEMMA OneCall ==
    ASSUME stack' = <<>>, IsTree(tree'), IsTree(earlier'), TaskIsTyped', unclean' \in BOOLEAN,
           reply' \in {"none", "ok", "error"}, OthersKept', TreeReplyTrue'
    PROVE  TreeInvariant'
<1>1. stack' \in Seq(Frames) /\ Len(stack') = 0
  OBVIOUS
<1>2. TreeTypes'
  BY <1>1 DEF TreeTypes
<1>3. StackTrue' /\ CopyTrue' /\ CopiedTrue'
  BY DEF StackTrue, CopyTrue, CopiedTrue
<1>4. IntoItselfTrue'
  <2>1. \A i \in 1..Len(stack') : FALSE
    BY <1>1
  <2>2. QED
    BY <2>1 DEF IntoItselfTrue
<1>5. QED
  BY <1>2, <1>3, <1>4 DEF TreeInvariant, TreesTrue

\* What a call is made with.
IsTask(t) ==
    /\ t.op \in {"copy", "delete", "move", "mv", "rm", "mkdir", "file",
                 "directory", "write", "mktree", "overwrite"}
    /\ t.src \in Paths /\ t.dst \in Paths

\* The call is refused.
LEMMA RefusedCall ==
    ASSUME TreeInvariant, NEW t, IsTask(t), Begin(t), Refused
    PROVE  TreeInvariant'
<1>1. /\ IsTree(tree) /\ task' = t /\ earlier' = tree /\ unclean' = FALSE
      /\ stack' = <<>> /\ reply' = "error" /\ tree' = tree
  BY Begun DEF Refused, Answer
<1>2. TaskIsTyped'
  BY <1>1 DEF TaskIsTyped, IsTask
<1>3. OthersKept'
  BY <1>1 DEF OthersKept, Exists
<1>4. TreeReplyTrue'
  BY <1>1 DEF TreeReplyTrue
<1>5. QED
  BY <1>1, <1>2, <1>3, <1>4, OneCall

\* The call is over at once.
LEMMA DoneCall ==
    ASSUME TreeInvariant, NEW t, IsTask(t), Begin(t), t.op \notin {"copy", "delete"},
           stack' = <<>>, reply' \in {"ok", "error"}, IsTree(tree'),
           t.op # "overwrite",
           t.op \in {"rm", "mkdir", "write", "file", "directory"} =>
              SameOutside(tree, tree', t.src),
           t.op = "rm" => \A p \in DOMAIN tree' : p \in DOMAIN tree /\ tree'[p] = tree[p],
           t.op \in {"file", "directory", "mktree"} =>
              \A p \in DOMAIN tree : p \in DOMAIN tree' /\ tree'[p] = tree[p],
           t.op = "file" /\ reply' = "ok" =>
              t.src \in DOMAIN tree' /\ tree'[t.src] # "dir",
           t.op \in {"directory", "mktree"} /\ reply' = "ok" =>
              t.src = Root \/ (t.src \in DOMAIN tree' /\ tree'[t.src] = "dir")
    PROVE  TreeInvariant'
<1>1. IsTree(tree) /\ task' = t /\ earlier' = tree /\ unclean' = FALSE
  BY Begun
<1>2. TaskIsTyped'
  BY <1>1 DEF TaskIsTyped, IsTask
<1>3. OthersKept'
  <2>1. \A p \in DOMAIN tree \union DOMAIN tree' : p \in Paths
    BY <1>1 DEF IsTree
  <2>2. t.op \in {"delete", "rm", "mkdir", "write", "file", "directory"} =>
           \A p \in DOMAIN tree' \union DOMAIN tree : ~Under(t.src, p) =>
              p \in DOMAIN tree' /\ p \in DOMAIN tree /\ tree'[p] = tree[p]
    BY <2>1 DEF SameOutside
  <2>3. QED
    BY <1>1, <2>2 DEF OthersKept, Exists
<1>4. TreeReplyTrue'
  BY <1>1 DEF TreeReplyTrue, IsFile, IsDirectory, Exists
<1>5. QED
  BY <1>1, <1>2, <1>3, <1>4, OneCall

\* The tree at a file is that file.
LEMMA FileSubTree ==
    ASSUME NEW t, IsTree(t), NEW d \in DOMAIN t, t[d] # "dir"
    PROVE  SubTree(t, d) = {[at |-> Root, is |-> t[d]]}
<1>1. d \in Paths /\ Under(d, d) /\ Len(d) \in Nat
  BY Above, UnderOrder
<1>2. {r \in DOMAIN t : Under(d, r)} = {d}
  BY <1>1, BelowFile
<1>3. SubSeq(d, Len(d) + 1, Len(d)) = <<>>
  BY <1>1, SubSeqEmpty
<1>4. SubTree(t, d) = {[at |-> SubSeq(q, Len(d) + 1, Len(q)), is |-> t[q]] : q \in {d}}
  BY <1>2 DEF SubTree
<1>5. QED
  BY <1>3, <1>4 DEF Root

\* The file at the destination was not seen, and is overwritten.
LEMMA OverCall ==
    ASSUME TreeInvariant, NEW src \in Paths, NEW dst \in Paths, NEW alike,
           CopyOver(src, dst, alike)
    PROVE  TreeInvariant'
<1> DEFINE t == [op |-> "overwrite", src |-> src, dst |-> dst, alike |-> alike]
<1>1. Begin(t)
  BY DEF CopyOver
<1>2. IsTask(t) /\ t.op = "overwrite" /\ t.src = src /\ t.dst = dst
  BY DEF IsTask
<1> HIDE DEF t
<1>3. IsTree(tree) /\ task' = t /\ earlier' = tree /\ unclean' = FALSE
  BY <1>1, Begun
<1>4. CASE Refused
  BY <1>1, <1>2, <1>4, RefusedCall
<1>5. ASSUME IsFile(src), IsFile(dst), NEW content \in Contents \ {"dir"},
             tree' = Put(dst, content), stack' = <<>>,
             reply' \in {"ok", "error"}, reply' = "ok" => content = tree[src],
             reply' = "error" => content = "part"
      PROVE  TreeInvariant'
  <2>1. /\ src \in DOMAIN tree /\ tree[src] # "dir" /\ dst \in DOMAIN tree
        /\ tree[dst] # "dir" /\ dst # Root
    BY <1>3, <1>5, Above DEF IsFile, Exists
  <2>2. IsPut(tree', tree, dst, content)
    BY <1>5, PutIs
  <2>3. IsTree(tree')
    <3>1. CanHold(dst) /\ ~IsDirectory(dst)
      <4>1. Parent(dst) \in Paths /\ Under(Parent(dst), dst) /\ Parent(dst) # dst
        BY <2>1, ParentPath
      <4>2. Parent(dst) # Root => Parent(dst) \in DOMAIN tree /\ tree[Parent(dst)] = "dir"
        BY <1>3, <2>1, <4>1, Above
      <4>3. QED
        BY <2>1, <4>2 DEF CanHold, IsDirectory, Exists
    <3>2. QED
      BY <1>3, <1>5, <3>1, PutTree
  <2>4. /\ DOMAIN tree' = DOMAIN tree /\ tree'[dst] = content
        /\ \A p \in DOMAIN tree : p # dst => tree'[p] = tree[p]
    BY <2>1, <2>2 DEF IsPut
  <2>5. TaskIsTyped'
    BY <1>2, <1>3 DEF TaskIsTyped, IsTask
  <2>6. OthersKept'
    BY <1>2, <1>3, <2>4 DEF OthersKept, Exists
  <2>7. SubTree(tree', dst) = {[at |-> Root, is |-> content]}
    BY <1>5, <2>1, <2>3, <2>4, FileSubTree
  <2>8. SubTree(tree, src) = {[at |-> Root, is |-> tree[src]]}
    BY <1>3, <2>1, FileSubTree
  <2>9. TreeReplyTrue'
    BY <1>2, <1>3, <1>5, <2>1, <2>7, <2>8 DEF TreeReplyTrue
  <2>10. QED
    BY <1>3, <1>5, <2>3, <2>5, <2>6, <2>9, OneCall
<1>6. \/ Refused
      \/ /\ IsFile(src) /\ IsFile(dst)
         /\ Done(Put(dst, tree[src])) \/ (tree' = Put(dst, "part") /\ Answer("error"))
  BY DEF CopyOver
<1>7. CASE IsFile(src) /\ IsFile(dst) /\ Done(Put(dst, tree[src]))
  <2>1. tree[src] \in Contents \ {"dir"}
    BY <1>3, <1>7, Above DEF IsFile, Exists
  <2>2. QED
    BY <1>5, <1>7, <2>1 DEF Done, Answer
<1>8. CASE IsFile(src) /\ IsFile(dst) /\ tree' = Put(dst, "part") /\ Answer("error")
  <2>1. "part" \in Contents \ {"dir"}
    BY DEF Contents
  <2>2. QED
    BY <1>5, <1>8, <2>1 DEF Answer
<1>9. QED
  BY <1>4, <1>6, <1>7, <1>8

\* The first call of a copy or a deletion.
LEMMA CallBegins ==
    ASSUME TreeInvariant, NEW t, IsTask(t), Begin(t), UNCHANGED tree,
           NEW f \in Frames, stack' = <<f>>, reply' = "none",
           t.op \in {"copy", "delete"}, f.does = t.op, f.src = t.src, f.dst = t.dst,
           f.at = "enter", f.result = "ok",
           t.op = "delete" => t.src = t.dst,
           t.op = "copy" => ~Exists(t.dst)
    PROVE  TreeInvariant'
<1>1. IsTree(tree) /\ task' = t /\ earlier' = tree /\ unclean' = FALSE
  BY Begun
<1>2. stack' \in Seq(Frames) /\ stack' # <<>> /\ Len(stack') = 1 /\ stack'[1] = f
  OBVIOUS
<1>3. Top' = f
  BY <1>2 DEF Top, Last
<1>4. \A i \in 1..Len(stack') : i = 1 /\ stack'[i] = f
  BY <1>2
<1>5. TreeTypes'
  BY <1>1, <1>2 DEF TreeTypes, TaskIsTyped, IsTask
<1>6. FrameTrue(f)'
  <2>1. Under(t.dst, t.dst) /\ Moved(t.dst, t.dst, t.src) = t.src
    BY UnderOrder, MovedPath DEF IsTask
  <2>2. QED
    BY <1>1, <2>1 DEF FrameTrue, Origin
<1>7. StackTrue'
  <2>1. \A i \in 1..Len(stack') : FrameTrue(stack[i])'
    BY <1>4, <1>6
  <2>2. \A i \in 1..(Len(stack') - 1) : FALSE
    BY <1>2
  <2>3. \A i \in 1..Len(stack') : stack'[i].does = "delete" /\ t.op = "copy" => FALSE
    BY <1>4
  <2>4. QED
    BY <1>1, <1>2, <2>1, <2>2, <2>3 DEF StackTrue
<1>8. ~Started'
  BY <1>2, <1>3 DEF Started
<1>9. CopyTrue' /\ CopiedTrue'
  BY <1>1, <1>3, <1>8 DEF CopyTrue, CopiedTrue, Exists
<1>10. IntoItselfTrue'
  BY <1>1, <1>4 DEF IntoItselfTrue, Exists
<1>11. OthersKept'
  BY <1>1 DEF OthersKept, Exists
<1>12. TreeReplyTrue'
  BY NoReply
<1>13. QED
  BY <1>5, <1>7, <1>9, <1>10, <1>11, <1>12 DEF TreeInvariant, TreesTrue

\* The calls of the program: each begins, and some of them end at once.
LEMMA CopyCall ==
    ASSUME TreeInvariant, NEW src \in Paths, NEW dst \in Paths, NEW alike, Copy(src, dst, alike)
    PROVE  TreeInvariant'
<1> DEFINE t == [op |-> "copy", src |-> src, dst |-> dst, alike |-> alike]
           f == CopyFrame(src, dst, 0)
<1> SUFFICES ASSUME ~CopyOver(src, dst, alike)
             PROVE  TreeInvariant'
  BY OverCall
<1>1. Begin(t)
  BY DEF Copy
<1>2. IsTask(t) /\ t.op = "copy" /\ t.src = src /\ t.dst = dst
  BY DEF IsTask
<1>3. /\ f \in Frames /\ f.does = "copy" /\ f.src = src /\ f.dst = dst
      /\ f.at = "enter" /\ f.result = "ok"
  BY DEF CopyFrame, Frames
<1>4. \/ Refused
      \/ ~Exists(dst) /\ stack' = <<f>> /\ reply' = "none" /\ UNCHANGED tree
  BY DEF Copy
<1> HIDE DEF t, f
<1>5. QED
  BY <1>1, <1>2, <1>3, <1>4, RefusedCall, CallBegins

LEMMA DeleteCall ==
    ASSUME TreeInvariant, NEW p \in Paths, Delete(p)
    PROVE  TreeInvariant'
<1> DEFINE t == [op |-> "delete", src |-> p, dst |-> p]
           f == DeleteFrame(p, 0)
<1>1. Begin(t)
  BY DEF Delete
<1>2. IsTask(t) /\ t.op = "delete" /\ t.src = p /\ t.dst = p
  BY DEF IsTask
<1>3. /\ f \in Frames /\ f.does = "delete" /\ f.src = p /\ f.dst = p
      /\ f.at = "enter" /\ f.result = "ok"
  BY DEF DeleteFrame, Frames
<1>4. \/ Refused
      \/ stack' = <<f>> /\ reply' = "none" /\ UNCHANGED tree
  BY DEF Delete
<1> HIDE DEF t, f
<1>5. QED
  BY <1>1, <1>2, <1>3, <1>4, RefusedCall, CallBegins

\* f_rename, for fs.move and for mv.
LEMMA RenameCall ==
    ASSUME TreeInvariant, NEW t, IsTask(t), Begin(t), t.op \in {"move", "mv"}, Rename(t.src, t.dst)
    PROVE  TreeInvariant'
<1>1. IsTree(tree)
  BY Begun
<1>2. CASE Refused
  BY <1>2, RefusedCall
<1>3. CASE /\ Exists(t.src) /\ CanHold(t.dst) /\ (Exists(t.dst) => t.src = t.dst)
           /\ Done(Renamed(t.src, t.dst))
  <2>1. t.src # Root /\ t.src \in Paths /\ t.dst \in Paths
    BY <1>1, <1>3, Above DEF Exists, IsTask
  <2>2. IsTree(Renamed(t.src, t.dst))
    BY <1>1, <1>3, <2>1, RenamedTree
  <2>3. stack' = <<>> /\ reply' = "ok" /\ IsTree(tree')
    BY <1>3, <2>2 DEF Done, Answer
  <2>4. QED
    BY <2>3, DoneCall
<1>4. QED
  BY <1>2, <1>3 DEF Rename

LEMMA MoveCalls ==
    ASSUME TreeInvariant, NEW src \in Paths, NEW dst \in Paths, NEW alike,
           Move(src, dst, alike) \/ MvCommand(src, dst)
    PROVE  TreeInvariant'
<1> DEFINE t == [op |-> "move", src |-> src, dst |-> dst, alike |-> alike]
           u == [op |-> "mv", src |-> src, dst |-> dst]
<1>1. IsTask(t) /\ t.op = "move" /\ t.src = src /\ t.dst = dst
  BY DEF IsTask
<1>2. IsTask(u) /\ u.op = "mv" /\ u.src = src /\ u.dst = dst
  BY DEF IsTask
<1>3. \/ Begin(t) /\ (Refused \/ Rename(src, dst))
      \/ Begin(u) /\ Rename(src, dst)
  BY DEF Move, MvCommand
<1> HIDE DEF t, u
<1>4. QED
  BY <1>1, <1>2, <1>3, RefusedCall, RenameCall

\* A call that puts a file or a directory at its path.
LEMMA PutCall ==
    ASSUME TreeInvariant, NEW t, IsTask(t), Begin(t),
           t.op \in {"mkdir", "write", "file", "directory"},
           CanHold(t.src), ~IsDirectory(t.src), t.op # "write" => ~Exists(t.src),
           NEW content \in Contents, tree' = Put(t.src, content),
           stack' = <<>>, reply' \in {"ok", "error"},
           t.op = "file" => content # "dir", t.op = "directory" => content = "dir"
    PROVE  TreeInvariant'
<1>1. IsTree(tree) /\ t.src \in Paths
  BY Begun DEF IsTask
<1>2. IsTree(tree')
  BY <1>1, PutTree
<1>3. SameOutside(tree, tree', t.src)
  BY <1>1, PutOutside
<1>4. /\ DOMAIN tree' = DOMAIN tree \union {t.src} /\ tree'[t.src] = content
      /\ \A p \in DOMAIN tree \ {t.src} : tree'[p] = tree[p]
  <2>1. IsPut(tree', tree, t.src, content)
    BY PutIs
  <2>2. QED
    BY <2>1 DEF IsPut
<1>5. t.op # "write" => \A p \in DOMAIN tree : p \in DOMAIN tree' /\ tree'[p] = tree[p]
  BY <1>4 DEF Exists
<1>6. QED
  BY <1>2, <1>3, <1>4, <1>5, DoneCall

\* A call that finds what it was to make.
LEMMA ThereAlready ==
    ASSUME TreeInvariant, NEW t, IsTask(t), Begin(t), Done(tree),
           \/ t.op = "file" /\ IsFile(t.src)
           \/ t.op = "directory" /\ IsDirectory(t.src)
    PROVE  TreeInvariant'
<1>1. IsTree(tree) /\ stack' = <<>> /\ reply' = "ok" /\ tree' = tree
  BY Begun DEF Done, Answer
<1>2. SameOutside(tree, tree', t.src)
  BY <1>1 DEF SameOutside
<1>3. \/ t.op = "file" /\ t.src \in DOMAIN tree /\ tree[t.src] # "dir"
      \/ t.op = "directory" /\ (t.src = Root \/ (t.src \in DOMAIN tree /\ tree[t.src] = "dir"))
  BY DEF IsFile, IsDirectory, Exists
<1>4. QED
  BY <1>1, <1>2, <1>3, DoneCall

\* What a call that does its work in one step has to show: rm of a file or of an
\* empty directory.
LEMMA RmCall ==
    ASSUME TreeInvariant, NEW p \in Paths, p # Root, RmCommand(p)
    PROVE  TreeInvariant'
<1> DEFINE t == [op |-> "rm", src |-> p, dst |-> p]
<1>1. IsTask(t) /\ t.op = "rm" /\ t.src = p
  BY DEF IsTask
<1>2. /\ Begin(t)
      /\ \/ Refused
         \/ Exists(p) /\ (IsDirectory(p) => Children(p) = {}) /\ Done(Without({p}))
  BY DEF RmCommand
<1> HIDE DEF t
<1>3. CASE Exists(p) /\ (IsDirectory(p) => Children(p) = {}) /\ Done(Without({p}))
  <2>1. IsTree(tree)
    BY <1>2, Begun
  <2>2. \A q \in DOMAIN tree : Under(p, q) => q = p
    <3>1. CASE IsDirectory(p)
      BY <1>3, <2>1, <3>1, BelowEmpty
    <3>2. CASE ~IsDirectory(p)
      <4>1. p \in DOMAIN tree /\ tree[p] # "dir"
        BY <1>3, <3>2 DEF IsDirectory, Exists
      <4>2. QED
        BY <2>1, <4>1, BelowFile
    <3>3. QED
      BY <3>1, <3>2
  <2>3. stack' = <<>> /\ reply' = "ok" /\ tree' = Without({p})
    BY <1>3 DEF Done, Answer
  <2>4. IsTree(tree')
    BY <2>1, <2>2, <2>3, WithoutTree
  <2>5. SameOutside(tree, tree', p)
    BY <2>3, WithoutOutside
  <2>6. \A q \in DOMAIN tree' : q \in DOMAIN tree /\ tree'[q] = tree[q]
    <3>1. IsWithout(tree', tree, {p})
      BY <2>3, WithoutIs
    <3>2. QED
      BY <3>1 DEF IsWithout
  <2>7. QED
    BY <1>1, <1>2, <2>3, <2>4, <2>5, <2>6, DoneCall
<1>4. QED
  BY <1>1, <1>2, <1>3, RefusedCall

\* A directory is made.
LEMMA MakeCall ==
    ASSUME TreeInvariant, NEW p \in Paths, MakeDirectory(p)
    PROVE  TreeInvariant'
<1> DEFINE t == [op |-> "mkdir", src |-> p, dst |-> p]
<1>1. IsTask(t) /\ t.op = "mkdir" /\ t.src = p
  BY DEF IsTask
<1>2. /\ Begin(t)
      /\ \/ Refused
         \/ CanHold(p) /\ ~Exists(p) /\ Done(Put(p, "dir"))
  BY DEF MakeDirectory
<1> HIDE DEF t
<1>3. CASE CanHold(p) /\ ~Exists(p) /\ Done(Put(p, "dir"))
  <2>1. stack' = <<>> /\ reply' = "ok" /\ tree' = Put(p, "dir") /\ ~IsDirectory(p)
    BY <1>3 DEF Done, Answer, IsDirectory, CanHold
  <2>2. "dir" \in Contents
    BY DEF Contents
  <2>3. QED
    BY <1>1, <1>2, <1>3, <2>1, <2>2, PutCall
<1>4. QED
  BY <1>1, <1>2, <1>3, RefusedCall

\* A file is written, or a part of it.
LEMMA WriteCall ==
    ASSUME TreeInvariant, NEW p \in Paths, WriteFile(p)
    PROVE  TreeInvariant'
<1> DEFINE t == [op |-> "write", src |-> p, dst |-> p]
<1>1. IsTask(t) /\ t.op = "write" /\ t.src = p
  BY DEF IsTask
<1>2. /\ Begin(t)
      /\ \/ Refused
         \/ /\ CanHold(p) /\ ~IsDirectory(p)
            /\ Done(Put(p, "new")) \/ (tree' = Put(p, "part") /\ Answer("error"))
  BY DEF WriteFile
<1> HIDE DEF t
<1>3. ASSUME CanHold(p), ~IsDirectory(p),
             Done(Put(p, "new")) \/ (tree' = Put(p, "part") /\ Answer("error"))
      PROVE  TreeInvariant'
  <2>1. PICK content \in Contents : tree' = Put(p, content)
    BY <1>3 DEF Done, Contents
  <2>2. stack' = <<>> /\ reply' \in {"ok", "error"}
    BY <1>3 DEF Done, Answer
  <2>3. QED
    BY <1>1, <1>2, <1>3, <2>1, <2>2, PutCall
<1>4. QED
  BY <1>1, <1>2, <1>3, RefusedCall

\* A file is there, or is made.
LEMMA FileCall ==
    ASSUME TreeInvariant, NEW p \in Paths, EnsureFile(p)
    PROVE  TreeInvariant'
<1> DEFINE t == [op |-> "file", src |-> p, dst |-> p]
<1>1. IsTask(t) /\ t.op = "file" /\ t.src = p
  BY DEF IsTask
<1>2. /\ Begin(t)
      /\ \/ Refused
         \/ IsFile(p) /\ Done(tree)
         \/ /\ CanHold(p) /\ ~Exists(p)
            /\ Done(Put(p, "new")) \/ (tree' = Put(p, "new") /\ Answer("error"))
  BY DEF EnsureFile
<1> HIDE DEF t
<1>3. ASSUME CanHold(p), ~Exists(p),
             Done(Put(p, "new")) \/ (tree' = Put(p, "new") /\ Answer("error"))
      PROVE  TreeInvariant'
  <2>1. tree' = Put(p, "new") /\ stack' = <<>> /\ reply' \in {"ok", "error"}
    BY <1>3 DEF Done, Answer
  <2>2. "new" \in Contents /\ ~IsDirectory(p)
    BY <1>3 DEF Contents, IsDirectory, CanHold
  <2>3. QED
    BY <1>1, <1>2, <1>3, <2>1, <2>2, PutCall
<1>4. QED
  BY <1>1, <1>2, <1>3, RefusedCall, ThereAlready

\* A directory is there, or is made.
LEMMA DirectoryCall ==
    ASSUME TreeInvariant, NEW p \in Paths, EnsureDirectory(p)
    PROVE  TreeInvariant'
<1> DEFINE t == [op |-> "directory", src |-> p, dst |-> p]
<1>1. IsTask(t) /\ t.op = "directory" /\ t.src = p
  BY DEF IsTask
<1>2. /\ Begin(t)
      /\ \/ Refused
         \/ IsDirectory(p) /\ Done(tree)
         \/ CanHold(p) /\ ~Exists(p) /\ Done(Put(p, "dir"))
  BY DEF EnsureDirectory
<1> HIDE DEF t
<1>3. CASE CanHold(p) /\ ~Exists(p) /\ Done(Put(p, "dir"))
  <2>1. stack' = <<>> /\ reply' = "ok" /\ tree' = Put(p, "dir") /\ ~IsDirectory(p)
    BY <1>3 DEF Done, Answer, IsDirectory, CanHold
  <2>2. "dir" \in Contents
    BY DEF Contents
  <2>3. QED
    BY <1>1, <1>2, <1>3, <2>1, <2>2, PutCall
<1>4. QED
  BY <1>1, <1>2, <1>3, RefusedCall, ThereAlready

\* The first n directories on the way to a path.
LEMMA MadeTree ==
    ASSUME IsTree(tree), NEW p \in Paths, p # Root, NEW n \in 0..Len(p),
           \A q \in {SubSeq(p, 1, k) : k \in 1..Len(p)} : Len(q) <= n => ~IsFile(q),
           NEW u,
           u = [q \in {r \in {SubSeq(p, 1, k) : k \in 1..Len(p)} : Len(r) <= n} \union DOMAIN tree |->
                   IF Exists(q) THEN tree[q] ELSE "dir"]
    PROVE  /\ IsTree(u)
           /\ \A q \in DOMAIN tree : q \in DOMAIN u /\ u[q] = tree[q]
           /\ n = Len(p) => p \in DOMAIN u /\ u[p] = "dir"
<1> DEFINE on == {SubSeq(p, 1, k) : k \in 1..Len(p)}
           way == {r \in on : Len(r) <= n}
<1>1. on = {q \in Paths : Under(q, p) /\ q # Root}
  BY OnTheWay
<1>2. u = [q \in way \union DOMAIN tree |-> IF Exists(q) THEN tree[q] ELSE "dir"]
  OBVIOUS
<1>3. \A q \in way : ~IsFile(q)
  OBVIOUS
<1> HIDE DEF on
<1>4. way \subseteq {q \in Paths : Under(q, p) /\ q # Root}
  BY <1>1
<1>5. ASSUME NEW q \in way, NEW r \in Paths, Under(r, q), r # Root
      PROVE  r \in way
  <2>1. q \in Paths /\ Under(q, p) /\ Len(q) <= n
    BY <1>1
  <2>2. Under(r, p) /\ Len(r) <= Len(q) /\ Len(r) \in Nat /\ Len(q) \in Nat
    BY <1>5, <2>1, UnderOrder
  <2>3. Len(r) <= n
    BY <2>1, <2>2
  <2>4. QED
    BY <1>1, <1>5, <2>2, <2>3
<1>6. \A q \in way : Exists(q) => tree[q] = "dir"
  BY <1>3 DEF IsFile
<1> HIDE DEF way
<1>7. IsTree(u)
  BY <1>2, <1>4, <1>5, <1>6, WayTree
<1>8. \A q \in DOMAIN tree : q \in DOMAIN u /\ u[q] = tree[q]
  BY <1>2 DEF Exists
<1>9. ASSUME n = Len(p)
      PROVE  p \in DOMAIN u /\ u[p] = "dir"
  <2>1. p \in on /\ Len(p) <= n
    BY <1>1, <1>9, UnderOrder
  <2>2. p \in way
    BY <2>1 DEF way
  <2>3. QED
    BY <1>2, <1>6, <2>2
<1>10. QED
  BY <1>7, <1>8, <1>9

\* Every directory on the way is made, up to the one that fails.
LEMMA TreeCall ==
    ASSUME TreeInvariant, NEW p \in Paths, p # Root, EnsureTree(p)
    PROVE  TreeInvariant'
<1> DEFINE t == [op |-> "mktree", src |-> p, dst |-> p]
           on == {SubSeq(p, 1, k) : k \in 1..Len(p)}
           file == {q \in on : IsFile(q)}
           upto(n) == [q \in {r \in on : Len(r) <= n} \union DOMAIN tree |->
                           IF Exists(q) THEN tree[q] ELSE "dir"]
<1>1. IsTask(t) /\ t.op = "mktree" /\ t.src = p
  BY DEF IsTask
<1>2. /\ Begin(t)
      /\ \/ file = {} /\ Done(upto(Len(p)))
         \/ Answer("error") /\ UNCHANGED tree
         \/ \E n \in 0..(Len(p) - 1) :
               (\A q \in file : Len(q) > n) /\ tree' = upto(n) /\ Answer("error")
  BY DEF EnsureTree
<1>3. IsTree(tree)
  BY <1>2, Begun
<1>4. Len(p) \in Nat /\ \A q \in on : Len(q) \in Nat
  <2>1. on = {q \in Paths : Under(q, p) /\ q # Root}
    BY OnTheWay
  <2> HIDE DEF on
  <2>2. QED
    BY <2>1, UnderOrder
<1>5. CASE Answer("error") /\ UNCHANGED tree
  BY <1>1, <1>2, <1>5, RefusedCall DEF Refused
<1>6. ASSUME NEW n \in 0..Len(p), \A q \in on : Len(q) <= n => ~IsFile(q),
             tree' = upto(n), stack' = <<>>, reply' \in {"ok", "error"},
             reply' = "ok" => n = Len(p)
      PROVE  TreeInvariant'
  <2>1. /\ IsTree(tree')
        /\ \A q \in DOMAIN tree : q \in DOMAIN tree' /\ tree'[q] = tree[q]
        /\ n = Len(p) => p \in DOMAIN tree' /\ tree'[p] = "dir"
    BY <1>3, <1>6, MadeTree
  <2>2. Begin(t)
    BY <1>2
  <2> HIDE DEF t, on, file, upto
  <2>3. QED
    BY <1>1, <1>6, <2>1, <2>2, DoneCall
<1>7. CASE file = {} /\ Done(upto(Len(p)))
  <2>1. Len(p) \in 0..Len(p)
    BY <1>4
  <2>2. \A q \in on : ~IsFile(q)
    BY <1>7
  <2>3. tree' = upto(Len(p)) /\ stack' = <<>> /\ reply' = "ok"
    BY <1>7 DEF Done, Answer
  <2>4. QED
    BY <1>6, <2>1, <2>2, <2>3
<1>8. CASE \E n \in 0..(Len(p) - 1) :
               (\A q \in file : Len(q) > n) /\ tree' = upto(n) /\ Answer("error")
  <2>1. PICK n \in 0..(Len(p) - 1) :
               (\A q \in file : Len(q) > n) /\ tree' = upto(n) /\ Answer("error")
    BY <1>8
  <2>2. n \in 0..Len(p)
    BY <1>4, <2>1
  <2>3. \A q \in on : Len(q) <= n => ~IsFile(q)
    <3>1. \A q \in on : IsFile(q) => Len(q) > n
      BY <2>1
    <3>2. \A q \in on : Len(q) > n => ~(Len(q) <= n)
      BY <1>4, <2>2
    <3>3. QED
      BY <3>1, <3>2
  <2>4. stack' = <<>> /\ reply' = "error"
    BY <2>1 DEF Answer
  <2>5. QED
    BY <1>6, <2>1, <2>2, <2>3, <2>4
<1>9. QED
  BY <1>2, <1>5, <1>7, <1>8

\* The answer is taken.
LEMMA ForgetCall ==
    ASSUME TreeInvariant, Forget
    PROVE  TreeInvariant'
<1>1. IsTree(tree) /\ UNCHANGED <<tree, stack>>
  BY DEF TreeInvariant, TreeTypes, Forget
<1>2. /\ stack' = <<>> /\ task' = NoTask /\ reply' = "none" /\ earlier' = tree
      /\ unclean' = FALSE
  BY DEF Forget
<1>3. TaskIsTyped'
  BY <1>2 DEF TaskIsTyped
<1>4. OthersKept'
  BY <1>2 DEF OthersKept, NoTask
<1>5. TreeReplyTrue'
  BY <1>2, NoReply
<1>6. QED
  BY <1>1, <1>2, <1>3, <1>4, <1>5, OneCall

-----------------------------------------------------------------------------
(***************************************************************************)
(* The theorem.                                                            *)
(***************************************************************************)

\* A volume at the start.
LEMMA VolumesAreTrees ==
    \A t \in Volumes : IsTree(t)
<1> SUFFICES ASSUME NEW t \in Volumes
             PROVE  IsTree(t)
  OBVIOUS
<1>1. /\ DOMAIN t \subseteq PathsTo(2) /\ t \in [DOMAIN t -> {"dir", "old"}]
      /\ \A p \in DOMAIN t : Len(p) > 1 => Parent(p) \in DOMAIN t /\ t[Parent(p)] = "dir"
  BY DEF Volumes
<1>2. \A p \in PathsTo(2) : p \in Paths /\ Len(p) \in 1..2 /\ p # Root
  <2>1. ASSUME NEW k \in 1..2, NEW p \in [1..k -> Names]
        PROVE  Len(p) \in 1..2
    <3>1. Len(p) = k
      BY <2>1
    <3>2. QED
      BY <3>1
  <2>2. \A p \in PathsTo(2) : Len(p) \in 1..2
    BY <2>1 DEF PathsTo
  <2>3. QED
    BY <2>2, CallPaths
<1>3. t \in [DOMAIN t -> Contents]
  BY <1>1 DEF Contents
<1>4. ASSUME NEW q \in DOMAIN t, NEW p \in Paths, Under(p, q), p # q, p # Root
      PROVE  p \in DOMAIN t /\ t[p] = "dir"
  <2>1. q \in Paths /\ q # Root /\ Len(q) \in 1..2
    BY <1>1, <1>2
  <2>2. Under(p, Parent(q)) /\ Parent(q) \in Paths /\ Parent(q) # q /\ Under(Parent(q), q)
    BY <1>4, <2>1, ParentPath
  <2>3. /\ Len(p) \in Nat /\ Len(Parent(q)) \in Nat
        /\ Len(p) <= Len(Parent(q)) /\ ~(Len(q) <= Len(Parent(q)))
        /\ ~(Len(p) <= Len(Root))
    BY <1>4, <2>1, <2>2, UnderOrder
  <2>4. Len(Root) = 0
    BY Len(<<>>) = 0 DEF Root
  <2>5. Len(p) = 1 /\ Len(Parent(q)) = 1 /\ Len(q) > 1
    <3> DEFINE a == Len(p)
               b == Len(Parent(q))
               c == Len(q)
    <3>1. a \in Nat /\ b \in Nat /\ c \in 1..2 /\ a <= b /\ ~(c <= b) /\ ~(a <= 0)
      BY <2>1, <2>3, <2>4
    <3> HIDE DEF a, b, c
    <3>2. a = 1 /\ b = 1 /\ c > 1
      BY <3>1
    <3>3. QED
      BY <3>2 DEF a, b, c
  <2>6. p = Parent(q)
    <3>1. Len(Parent(q)) <= Len(p)
      BY <2>5
    <3>2. QED
      BY <2>2, <3>1, UnderOrder
  <2>7. QED
    BY <1>1, <2>5, <2>6
<1>5. DOMAIN t \subseteq Paths \ {Root}
  BY <1>1, <1>2
<1>6. QED
  BY <1>3, <1>4, <1>5 DEF IsTree

\* The invariant holds at the start.
LEMMA TreeStarts ==
    ASSUME TreeInit
    PROVE  TreeInvariant
<1>1. /\ IsTree(tree) /\ stack = <<>> /\ task = NoTask /\ reply = "none"
      /\ earlier = tree /\ unclean = FALSE
  BY VolumesAreTrees DEF TreeInit
<1>2. stack \in Seq(Frames) /\ Len(stack) = 0
  BY <1>1
<1>3. TreeTypes
  BY <1>1, <1>2 DEF TreeTypes, TaskIsTyped
<1>4. StackTrue /\ CopyTrue /\ CopiedTrue
  BY <1>1 DEF StackTrue, CopyTrue, CopiedTrue
<1>5. IntoItselfTrue
  BY <1>1 DEF IntoItselfTrue, NoTask
<1>6. OthersKept /\ TreeReplyTrue
  BY <1>1 DEF OthersKept, TreeReplyTrue, NoTask
<1>7. QED
  BY <1>3, <1>4, <1>5, <1>6 DEF TreeInvariant, TreesTrue

\* Every step keeps the invariant.
LEMMA TreeSteps ==
    ASSUME TreeInvariant, [TreeNext]_treeVars
    PROVE  TreeInvariant'
<1>1. \A p \in {Root} \union PathsTo(2) : p \in Paths
  BY CallPaths, UnderOrder
<1>2. \A p \in PathsTo(2) : p \in Paths /\ p # Root
  BY CallPaths
<1>3. ASSUME NEW src \in {Root} \union PathsTo(2), NEW dst \in {Root} \union PathsTo(2),
             NEW alike \in BOOLEAN, Copy(src, dst, alike) \/ Move(src, dst, alike)
      PROVE  TreeInvariant'
  <2>1. src \in Paths /\ dst \in Paths
    BY <1>1
  <2>2. QED
    BY <1>3, <2>1, CopyCall, MoveCalls
<1>4. ASSUME NEW src \in PathsTo(2), NEW dst \in PathsTo(2), MvCommand(src, dst)
      PROVE  TreeInvariant'
  <2>1. src \in Paths /\ dst \in Paths
    BY <1>2
  <2>2. QED
    BY <1>4, <2>1, MoveCalls
<1>5. ASSUME NEW p \in PathsTo(2),
             \/ RmCommand(p) \/ MakeDirectory(p) \/ WriteFile(p)
             \/ EnsureFile(p) \/ EnsureDirectory(p) \/ EnsureTree(p)
      PROVE  TreeInvariant'
  <2>1. p \in Paths /\ p # Root
    BY <1>2
  <2>2. QED
    BY <1>5, <2>1, RmCall, MakeCall, WriteCall, FileCall, DirectoryCall, TreeCall
<1>6. ASSUME NEW p \in {Root} \union PathsTo(2), Delete(p)
      PROVE  TreeInvariant'
  <2>1. p \in Paths
    BY <1>1
  <2>2. QED
    BY <1>6, <2>1, DeleteCall
<1>7. CASE Working /\ UNCHANGED <<task, earlier>>
  BY <1>7, CopySteps, DeleteSteps DEF Working
<1>8. CASE Forget
  BY <1>8, ForgetCall
<1>9. CASE UNCHANGED treeVars
  <2>1. UNCHANGED <<tree, stack, task, reply, earlier, unclean>>
    BY <1>9 DEF treeVars
  <2>2. TreeTypes'
    BY <2>1 DEF TreeInvariant, TreeTypes, TaskIsTyped
  <2>3. StackTrue'
    BY <2>1 DEF TreeInvariant, StackTrue, FrameTrue, Calls, Origin
  <2>4. CopyTrue'
    BY <2>1 DEF TreeInvariant, CopyTrue, Started, Top, Exists
  <2>5. CopiedTrue'
    <3>1. (Started' <=> Started) /\ (Well' <=> Well) /\ (CallsApart' <=> CallsApart)
      BY <2>1 DEF Started, Top, Well, CallsApart
    <3>2. \A p \in Paths : (Pending(p)' <=> Pending(p)) /\ (Matches(p)' <=> Matches(p))
      BY <2>1 DEF Pending, Matches, Origin, Exists
    <3>3. FilesCopied' <=> FilesCopied
      <4> DEFINE Copied(p) == Under(task.dst, p) =>
                                IF Pending(p) THEN ~Exists(p) ELSE Matches(p)
      <4>1. \A p \in Paths : Copied(p)' <=> Copied(p)
        BY <2>1, <3>2 DEF Exists
      <4>2. (FilesCopied <=> \A p \in Paths : Copied(p))
              /\ (FilesCopied' <=> \A p \in Paths : Copied(p)')
        BY DEF FilesCopied
      <4> HIDE DEF Copied
      <4>3. QED
        BY <4>1, <4>2
    <3>4. QED
      BY <2>1, <3>1, <3>3 DEF TreeInvariant, CopiedTrue
  <2>6. IntoItselfTrue'
    BY <2>1 DEF TreeInvariant, IntoItselfTrue, Exists
  <2>7. OthersKept'
    BY <2>1 DEF TreeInvariant, TreesTrue, OthersKept, Exists
  <2>8. TreeReplyTrue'
    BY <2>1 DEF TreeInvariant, TreesTrue, TreeReplyTrue, Exists, IsFile, IsDirectory
  <2>9. QED
    BY <2>2, <2>3, <2>4, <2>5, <2>6, <2>7, <2>8 DEF TreeInvariant, TreesTrue
<1>10. QED
  BY <1>3, <1>4, <1>5, <1>6, <1>7, <1>8, <1>9 DEF TreeNext

\* A copy, a move, a deletion and every other call on a tree does what its
\* status says and touches nothing elsewhere, whatever fails and at every
\* moment: for any names, any limits and any faults (neon_fs.c).
THEOREM TreesAreTrue == TreeSpec => []TreesTrue
<1>1. TreeInit => TreeInvariant
  BY TreeStarts
<1>2. TreeInvariant /\ [TreeNext]_treeVars => TreeInvariant'
  BY TreeSteps
<1>3. TreeInvariant => TreesTrue
  BY DEF TreeInvariant
<1>4. QED
  BY <1>1, <1>2, <1>3, PTL DEF TreeSpec

-----------------------------------------------------------------------------
(***************************************************************************)
(* Archives: what holds of the object, of what was written, and of what    *)
(* has been unpacked so far.                                               *)
(***************************************************************************)

ZipTypes ==
    /\ object \in {"closed", "writer", "reader"}
    /\ inside \in Seq(ZipEntries) /\ pending \in Seq(ZipEntries) /\ accepted \in Seq(ZipEntries)
    /\ \/ unpacking = Idle
       \/ unpacking \in [at : {"entry", "done", "failed"}, dest : {Root} \union PathsTo(1),
                         next : Nat \ {0}, list : Seq(ZipEntries), start : {unpacking.start}]

\* What was accepted is among what was written, in order.
Within(s, t) ==
    \E f \in [DOMAIN s -> DOMAIN t] :
        /\ \A i \in DOMAIN s : s[i] = t[f[i]]
        /\ \A i, j \in DOMAIN s : i < j => f[i] < f[j]

\* One object at a time; while it writes, the file is no archive.
WriterTrue ==
    /\ unpacking # Idle => object = "closed"
    /\ object = "writer" => Within(accepted, pending)

\* The first n entries are where they were to go, if no later one went there too.
Place(dest, entry) == Follow(dest \o entry.path)
Placed(dest, list, t, n) ==
    \A i \in 1..n :
        (~list[i].dir /\ \A j \in (i + 1)..n :
            list[j].dir \/ Place(dest, list[j]) # Place(dest, list[i]))
        => Place(dest, list[i]) \in DOMAIN t /\ t[Place(dest, list[i])] = list[i].data
EntriesTrue ==
    /\ unpacking.at = "entry" =>
          /\ unpacking.next <= Len(unpacking.list) + 1
          /\ Placed(unpacking.dest, unpacking.list, tree, unpacking.next - 1)
    /\ unpacking.at = "done" =>
          Placed(unpacking.dest, unpacking.list, tree, Len(unpacking.list))

ZipInvariant == ZipTypes /\ WriterTrue /\ EntriesTrue /\ ZipTrue

\* A tree that has grown by directories on the way to a path.
Grown(u, p) ==
    /\ \A q \in DOMAIN tree : q \in DOMAIN u /\ u[q] = tree[q]
    /\ \A q \in DOMAIN u : q \in DOMAIN tree \/ (q \in Paths /\ Under(q, p) /\ q # Root)

\* The directories on the way to a path, and those on the way to one below it.
LEMMA WithDirectoriesGrows ==
    ASSUME NEW p \in Paths
    PROVE  Grown(WithDirectories(p), p)
<1> DEFINE on == {SubSeq(p, 1, k) : k \in 1..Len(p)}
           u == WithDirectories(p)
<1>1. on = {q \in Paths : Under(q, p) /\ q # Root}
  BY OnTheWay
<1>2. u = [q \in on \union DOMAIN tree |-> IF Exists(q) THEN tree[q] ELSE "dir"]
  BY DEF WithDirectories
<1> HIDE DEF on, u
<1>3. DOMAIN u = on \union DOMAIN tree /\ \A q \in DOMAIN tree : u[q] = tree[q]
  BY <1>2 DEF Exists
<1>4. Grown(u, p)
  BY <1>1, <1>3 DEF Grown
<1>5. QED
  BY <1>4 DEF u

LEMMA GrownBelow ==
    ASSUME NEW p \in Paths, NEW r \in Paths, Under(p, r), NEW u, Grown(u, p)
    PROVE  Grown(u, r)
BY UnderOrder DEF Grown

\* The first directories on the way.
LEMMA SomeGrows ==
    ASSUME NEW p \in Paths, NEW k \in 0..(Len(p) - 1)
    PROVE  Grown(WithDirectories(SubSeq(p, 1, k)), p)
<1>1. Len(p) \in Nat
  BY UnderOrder
<1>2. SubSeq(p, 1, k) \in Paths /\ Under(SubSeq(p, 1, k), p)
  <2>1. CASE k = 0
    <3>1. SubSeq(p, 1, k) = <<>>
      BY <2>1, SubSeqEmpty
    <3>2. QED
      BY <3>1, UnderOrder DEF Root
  <2>2. CASE k # 0
    <3>1. k \in 1..Len(p)
      BY <1>1, <2>2
    <3>2. SubSeq(p, 1, k) \in {SubSeq(p, 1, m) : m \in 1..Len(p)}
      BY <3>1
    <3>3. QED
      BY <3>2, OnTheWay
  <2>3. QED
    BY <2>1, <2>2
<1> DEFINE r == SubSeq(p, 1, k)
<1>3. r \in Paths /\ Under(r, p)
  BY <1>2
<1> HIDE DEF r
<1>4. Grown(WithDirectories(r), p)
  BY <1>3, WithDirectoriesGrows, GrownBelow
<1>5. QED
  BY <1>4 DEF r

\* What an extraction to a path may do, and what it does when it succeeds.
Extracted(entry, p) ==
    /\ \A q \in DOMAIN tree : q # p \/ entry.dir => q \in DOMAIN tree' /\ tree'[q] = tree[q]
    /\ \A q \in DOMAIN tree' : q \in DOMAIN tree \/ (q \in Paths /\ Under(q, p) /\ q # Root)
    /\ answered' \in {"ok", "error"}
    /\ answered' = "ok" /\ ~entry.dir => p \in DOMAIN tree' /\ tree'[p] = entry.data

IsWithFile(u, t, p, content) ==
    /\ DOMAIN u = DOMAIN t \union {p} /\ u[p] = content
    /\ \A q \in DOMAIN t \ {p} : u[q] = t[q]

\* A tree with a file in it, path by path.
LEMMA WithFileIs ==
    ASSUME NEW t, NEW p, NEW content
    PROVE  IsWithFile(WithFile(t, p, content), t, p, content)
BY DEF WithFile, IsWithFile

\* An extraction does no more than it may.
LEMMA ExtractToIs ==
    ASSUME NEW p \in Paths, p # Root, NEW entry, entry.dir \in BOOLEAN, ExtractTo(entry, p)
    PROVE  Extracted(entry, p)
<1> DEFINE parents == IF entry.dir THEN p ELSE Parent(p)
           made == WithDirectories(parents)
<1>1. parents \in Paths /\ Under(parents, p)
  BY ParentPath, UnderOrder
<1> HIDE DEF parents
<1>2. Grown(made, p)
  BY <1>1, WithDirectoriesGrows, GrownBelow
<1>3. \A k \in 0..(Len(parents) - 1) : Grown(WithDirectories(SubSeq(parents, 1, k)), p)
  BY <1>1, SomeGrows, GrownBelow
<1>4. \/ entry.dir /\ tree' = made /\ answered' = "ok"
      \/ ~entry.dir /\ tree' = WithFile(made, p, entry.data) /\ answered' = "ok"
      \/ ~entry.dir /\ tree' = WithFile(made, p, "part") /\ answered' = "error"
      \/ tree' = made /\ answered' = "error"
      \/ /\ \E k \in 0..(Len(parents) - 1) : tree' = WithDirectories(SubSeq(parents, 1, k))
         /\ answered' = "error"
      \/ answered' = "error" /\ UNCHANGED tree
  BY DEF ExtractTo, Replies, parents
<1> HIDE DEF made
<1>5. ASSUME Grown(tree', p), answered' \in {"ok", "error"}, answered' = "ok" => entry.dir
      PROVE  Extracted(entry, p)
  BY <1>5 DEF Extracted, Grown
<1>6. ASSUME NEW content, ~entry.dir, tree' = WithFile(made, p, content),
             answered' \in {"ok", "error"}, answered' = "ok" => content = entry.data
      PROVE  Extracted(entry, p)
  <2>1. /\ DOMAIN tree' = DOMAIN made \union {p} /\ tree'[p] = content
        /\ \A q \in DOMAIN made \ {p} : tree'[q] = made[q]
    <3>1. IsWithFile(tree', made, p, content)
      BY <1>6, WithFileIs
    <3>2. QED
      BY <3>1 DEF IsWithFile
  <2>2. Under(p, p)
    BY UnderOrder
  <2>3. QED
    BY <1>2, <1>6, <2>1, <2>2 DEF Extracted, Grown
<1>7. CASE entry.dir /\ tree' = made /\ answered' = "ok"
  BY <1>2, <1>5, <1>7
<1>8. CASE ~entry.dir /\ tree' = WithFile(made, p, entry.data) /\ answered' = "ok"
  BY <1>6, <1>8
<1>9. CASE ~entry.dir /\ tree' = WithFile(made, p, "part") /\ answered' = "error"
  BY <1>6, <1>9
<1>10. CASE tree' = made /\ answered' = "error"
  BY <1>2, <1>5, <1>10
<1>11. CASE /\ \E k \in 0..(Len(parents) - 1) : tree' = WithDirectories(SubSeq(parents, 1, k))
            /\ answered' = "error"
  <2>1. Grown(tree', p)
    BY <1>3, <1>11
  <2>2. QED
    BY <1>5, <1>11, <2>1
<1>12. CASE answered' = "error" /\ UNCHANGED tree
  BY <1>12 DEF Extracted
<1>13. QED
  BY <1>4, <1>7, <1>8, <1>9, <1>10, <1>11, <1>12

\* Where a call of unpack puts its entries.
LEMMA DestPaths ==
    \A dest \in {Root} \union PathsTo(1) : dest \in Paths /\ Len(dest) <= 1
<1>1. ASSUME NEW k \in 1..1, NEW dest \in [1..k -> Names]
      PROVE  dest \in Paths /\ Len(dest) <= 1
  <2>1. dest \in Seq(Names) /\ Len(dest) = k
    BY <1>1
  <2>2. k = 1
    OBVIOUS
  <2>3. QED
    BY <2>1, <2>2 DEF Paths
<1>2. Root \in Paths /\ Len(Root) = 0
  BY DEF Paths, Root
<1>3. QED
  BY <1>1, <1>2 DEF PathsTo

\* What grows below a destination leaves the rest alone.
LEMMA OutsideSame ==
    ASSUME NEW dest \in {Root} \union PathsTo(1), NEW p \in Paths, Under(dest, p),
           \A q \in DOMAIN tree : q # p => q \in DOMAIN tree' /\ tree'[q] = tree[q],
           \A q \in DOMAIN tree' : q \in DOMAIN tree \/ (q \in Paths /\ Under(q, p) /\ q # Root)
    PROVE  \A q : ~Under(dest, q) =>
              (q \in DOMAIN tree' <=> q \in DOMAIN tree) /\ (q \in DOMAIN tree => tree'[q] = tree[q])
<1>1. dest \in Paths /\ Len(dest) <= 1 /\ Len(dest) \in Nat
  BY DestPaths, UnderOrder
<1>2. ASSUME NEW q \in Paths, Under(q, p), q # Root
      PROVE  Under(dest, q)
  <2>1. Len(q) \in Nat /\ Len(q) # 0
    BY <1>2, UnderOrder DEF Paths, Root
  <2>2. Len(dest) <= Len(q)
    BY <1>1, <2>1
  <2>3. QED
    BY <1>1, <1>2, <2>2, UnderOrder
<1>3. QED
  BY <1>2

\* A safe name stays below the destination.
LEMMA SafePlace ==
    ASSUME NEW dest \in Paths, NEW entry \in ZipEntries, IsSafeArchiveName(entry.path)
    PROVE  LET p == Follow(dest \o entry.path) IN p \in Paths /\ p # Root /\ Under(dest, p)
<1> DEFINE w == entry.path
           p == dest \o w
<1>1. Len(w) \in Nat /\ w = [i \in 1..Len(w) |-> w[i]] /\ ".." \notin Names
  BY ZipConstants
<1>2. w # <<>> /\ \A i \in DOMAIN w : w[i] \in Names
  BY DEF IsSafeArchiveName
<1> HIDE DEF w
<1>3. w \in Seq(Names)
  <2> DEFINE n == Len(w)
  <2>1. n \in Nat /\ w = [i \in 1..n |-> w[i]]
    BY <1>1
  <2> HIDE DEF n
  <2>2. \A i \in 1..n : w[i] \in Names
    BY <1>2, <2>1
  <2>3. w \in [1..n -> Names]
    BY <2>1, <2>2
  <2>4. QED
    BY <2>1, <2>3
<1>4. Len(w) # 0
  BY <1>2, <1>3
<1>5. dest \in Seq(Names)
  BY DEF Paths
<1>6. /\ p \in Seq(Names) /\ Len(p) = Len(dest) + Len(w)
      /\ \A i \in 1..Len(dest) : p[i] = dest[i]
  BY <1>3, <1>5
<1>7. Len(dest) \in Nat /\ DOMAIN p = 1..Len(p) /\ \A i \in DOMAIN p : p[i] \in Names
  BY <1>5, <1>6
<1> HIDE DEF p
<1>8. Follow(p) = p
  BY <1>1, <1>7 DEF Follow
<1>9. p \in Paths /\ p # Root
  <2>1. Len(p) # 0
    BY <1>1, <1>4, <1>6, <1>7
  <2>2. QED
    BY <1>6, <2>1 DEF Paths, Root
<1>10. Under(dest, p)
  <2>1. Len(dest) <= Len(p)
    BY <1>1, <1>6, <1>7
  <2>2. QED
    BY <1>6, <1>9, <2>1, UnderIs
<1>11. QED
  BY <1>8, <1>9, <1>10 DEF p, w

\* An entry that is added to both, or to the longer one, keeps their order.
LEMMA WithinAppend ==
    ASSUME NEW S, NEW s \in Seq(S), NEW t \in Seq(S), Within(s, t), NEW e \in S
    PROVE  Within(s, Append(t, e)) /\ Within(Append(s, e), Append(t, e))
<1> DEFINE m == Len(s)
           n == Len(t)
           u == Append(s, e)
           v == Append(t, e)
<1>1. /\ m \in Nat /\ n \in Nat /\ DOMAIN s = 1..m /\ DOMAIN t = 1..n
      /\ DOMAIN u = 1..(m + 1) /\ DOMAIN v = 1..(n + 1)
      /\ (\A i \in 1..m : u[i] = s[i]) /\ u[m + 1] = e
      /\ (\A i \in 1..n : v[i] = t[i]) /\ v[n + 1] = e
  OBVIOUS
<1>2. PICK f \in [DOMAIN s -> DOMAIN t] :
        /\ \A i \in DOMAIN s : s[i] = t[f[i]]
        /\ \A i, j \in DOMAIN s : i < j => f[i] < f[j]
  BY DEF Within
<1> HIDE DEF m, n, u, v
<1>3. /\ f \in [1..m -> 1..n] /\ (\A i \in 1..m : s[i] = t[f[i]])
      /\ \A i \in 1..m, j \in 1..m : i < j => f[i] < f[j]
  BY <1>1, <1>2
<1>4. Within(s, v)
  <2>1. \A i \in 1..m : f[i] \in 1..n /\ f[i] \in 1..(n + 1)
    BY <1>1, <1>3
  <2>2. f \in [1..m -> 1..(n + 1)] /\ \A i \in 1..m : s[i] = v[f[i]]
    BY <1>1, <1>3, <2>1
  <2>3. QED
    BY <1>1, <1>3, <2>2 DEF Within
<1>5. Within(u, v)
  <2> DEFINE g == [i \in 1..(m + 1) |-> IF i = m + 1 THEN n + 1 ELSE f[i]]
  <2>1. \A i \in 1..(m + 1) : i = m + 1 \/ (i \in 1..m /\ i # m + 1)
    BY <1>1
  <2>2. \A i \in 1..m : f[i] \in 1..n /\ f[i] \in 1..(n + 1) /\ f[i] < n + 1 /\ i # m + 1 /\ i \in 1..(m + 1)
    BY <1>1, <1>3
  <2>3. g[m + 1] = n + 1 /\ \A i \in 1..m : g[i] = f[i]
    BY <1>1, <2>2
  <2>4. g \in [1..(m + 1) -> 1..(n + 1)]
    <3>1. n + 1 \in 1..(n + 1)
      BY <1>1
    <3>2. QED
      BY <2>1, <2>2, <3>1
  <2> HIDE DEF g
  <2>5. \A i \in 1..(m + 1) : u[i] = v[g[i]]
    BY <1>1, <1>3, <2>1, <2>2, <2>3
  <2>6. ASSUME NEW i \in 1..(m + 1), NEW j \in 1..(m + 1), i < j
        PROVE  g[i] < g[j]
    <3>1. i \in 1..m
      BY <1>1, <2>6
    <3>2. CASE j = m + 1
      BY <2>2, <2>3, <3>1, <3>2
    <3>3. CASE j # m + 1
      <4>1. j \in 1..m
        BY <2>1, <3>3
      <4>2. QED
        BY <1>3, <2>3, <2>6, <3>1, <4>1
    <3>4. QED
      BY <3>2, <3>3
  <2>7. QED
    BY <1>1, <2>4, <2>5, <2>6 DEF Within
<1>6. QED
  BY <1>4, <1>5 DEF u, v

\* What a call is about that unpacks, and that nothing is unpacked by another.
LEMMA UnpackingIs ==
    ASSUME ZipInvariant
    PROVE  /\ unpacking.at \in {"entry", "done", "failed"} =>
                /\ unpacking # Idle
                /\ unpacking \in [at : {"entry", "done", "failed"}, dest : {Root} \union PathsTo(1),
                                  next : Nat \ {0}, list : Seq(ZipEntries), start : {unpacking.start}]
           /\ unpacking # Idle => unpacking.at \in {"entry", "done", "failed"}
           /\ object # "closed" => unpacking = Idle
           /\ Idle.at = "idle"
BY DEF ZipInvariant, ZipTypes, WriterTrue, Idle

\* Nothing is unpacked, or what was unpacked stays.
LEMMA UnpackingRests ==
    ASSUME ZipInvariant, UNCHANGED unpacking, unpacking = Idle \/ UNCHANGED tree
    PROVE  EntriesTrue' /\ UnpackTrue'
<1>1. CASE unpacking = Idle
  <2>1. unpacking' = Idle /\ Idle.at = "idle"
    BY <1>1 DEF Idle
  <2>2. QED
    BY <2>1 DEF EntriesTrue, UnpackTrue
<1>2. CASE UNCHANGED tree
  BY <1>2 DEF ZipInvariant, ZipTrue, EntriesTrue, UnpackTrue, UnpackedAt, Exists
<1>3. QED
  BY <1>1, <1>2

\* What the steps of the object have to show.
LEMMA ObjectStep ==
    ASSUME ZipInvariant, UNCHANGED unpacking, unpacking = Idle \/ UNCHANGED tree,
           object' \in {"closed", "writer", "reader"}, inside' \in Seq(ZipEntries),
           pending' \in Seq(ZipEntries), accepted' \in Seq(ZipEntries),
           object' = "closed" \/ unpacking = Idle,
           object' = "writer" => Within(accepted', pending') /\ ~Readable',
           answered' = "whole" => Readable' /\ inside' = pending' /\ Within(accepted', pending')
    PROVE  ZipInvariant'
<1>1. EntriesTrue' /\ UnpackTrue'
  BY UnpackingRests
<1>2. ZipTypes'
  BY DEF ZipInvariant, ZipTypes
<1>3. WriterTrue'
  BY DEF WriterTrue
<1>4. ArchiveTrue'
  BY DEF ArchiveTrue, Within
<1>5. QED
  BY <1>1, <1>2, <1>3, <1>4 DEF ZipInvariant, ZipTrue

\* Nothing is within nothing.
LEMMA NothingWithin == Within(<<>>, <<>>)
<1> DEFINE e == <<>>
<1>1. DOMAIN e = {}
  OBVIOUS
<1> HIDE DEF e
<1>2. e = e /\ [i \in {} |-> i] \in [{} -> {}]
  OBVIOUS
<1>3. Within(e, e)
  BY <1>1, <1>2 DEF Within
<1>4. QED
  BY <1>3 DEF e

\* A new archive begins with an empty file, which is no archive.
LEMMA CreateStep ==
    ASSUME ZipInvariant, Create
    PROVE  ZipInvariant'
<1>1. /\ object = "closed" /\ unpacking = Idle /\ UNCHANGED unpacking
      /\ inside \in Seq(ZipEntries) /\ pending \in Seq(ZipEntries) /\ accepted \in Seq(ZipEntries)
  BY DEF Create, Free, ZipInvariant, ZipTypes
<1>2. answered' \in {"ok", "error"}
  BY DEF Create, Replies
<1>3. object' = "writer" => tree' = Put(Archive, "part") /\ pending' = <<>> /\ accepted' = <<>>
  BY <1>1 DEF Create
<1>4. object' = "writer" => ~Readable'
  <2>1. IsPut(Put(Archive, "part"), tree, Archive, "part")
    BY PutIs
  <2>2. object' = "writer" => tree'[Archive] = "part"
    BY <1>3, <2>1 DEF IsPut
  <2>3. QED
    BY <2>2 DEF Readable
<1>5. Within(<<>>, <<>>)
  BY NothingWithin
<1>6. object' \in {"closed", "writer"}
  BY <1>1 DEF Create
<1>7. /\ inside' \in Seq(ZipEntries) /\ pending' \in Seq(ZipEntries)
      /\ accepted' \in Seq(ZipEntries)
  <2>1. /\ inside' = <<>> \/ inside' = inside
        /\ pending' = <<>> \/ pending' = pending
        /\ accepted' = <<>> \/ accepted' = accepted
    BY DEF Create
  <2>2. <<>> \in Seq(ZipEntries)
    BY EmptySeq
  <2>3. QED
    BY <1>1, <2>1, <2>2
<1>8. QED
  BY <1>1, <1>2, <1>3, <1>4, <1>5, <1>6, <1>7, ObjectStep

\* An addition leaves what was accepted among what was written.
LEMMA AddStep ==
    ASSUME ZipInvariant, NEW entry \in ZipEntries, Add(entry)
    PROVE  ZipInvariant'
<1>1. /\ object = "writer" /\ object' = "writer" /\ UNCHANGED <<tree, inside, unpacking>>
      /\ unpacking = Idle
      /\ inside \in Seq(ZipEntries) /\ pending \in Seq(ZipEntries) /\ accepted \in Seq(ZipEntries)
      /\ Within(accepted, pending) /\ ~Readable
  BY DEF Add, Holds, ZipInvariant, ZipTypes, WriterTrue, ZipTrue, ArchiveTrue
<1>2. answered' \in {"ok", "error"}
  BY DEF Add, Replies
<1>3. \/ pending' = Append(pending, entry) /\ accepted' = Append(accepted, entry)
      \/ pending' = pending /\ accepted' = accepted
      \/ pending' = Append(pending, entry) /\ accepted' = accepted
  BY DEF Add
<1>4. Within(accepted', pending')
  BY <1>1, <1>3, WithinAppend
<1>5. pending' \in Seq(ZipEntries) /\ accepted' \in Seq(ZipEntries)
  <2>1. Append(pending, entry) \in Seq(ZipEntries)
    BY <1>1
  <2>2. Append(accepted, entry) \in Seq(ZipEntries)
    BY <1>1
  <2>3. QED
    BY <1>1, <1>3, <2>1, <2>2
<1>6. ~Readable'
  BY <1>1 DEF Readable, Exists
<1>7. QED
  BY <1>1, <1>2, <1>4, <1>5, <1>6, ObjectStep

\* What is closed with success holds what was written.
LEMMA CloseStep ==
    ASSUME ZipInvariant, Close
    PROVE  ZipInvariant'
<1>1. /\ object # "closed" /\ object' = "closed" /\ UNCHANGED <<pending, accepted, unpacking>>
      /\ inside \in Seq(ZipEntries) /\ pending \in Seq(ZipEntries) /\ accepted \in Seq(ZipEntries)
      /\ object = "writer" => Within(accepted, pending)
  BY DEF Close, ZipInvariant, ZipTypes, WriterTrue
<1>2. unpacking = Idle
  BY <1>1, UnpackingIs
<1>3. inside' \in Seq(ZipEntries)
  BY <1>1 DEF Close
<1>4. answered' = "whole" =>
        object = "writer" /\ tree' = Put(Archive, "archive") /\ inside' = pending
  BY DEF Close, Holds, Replies
<1>5. answered' = "whole" => Readable'
  <2>1. IsPut(Put(Archive, "archive"), tree, Archive, "archive")
    BY PutIs
  <2>2. QED
    BY <1>4, <2>1 DEF IsPut, Readable, Exists
<1>6. QED
  BY <1>1, <1>2, <1>3, <1>4, <1>5, ObjectStep

\* Opening, reading and giving up change no file.
LEMMA QuietStep ==
    ASSUME ZipInvariant, Open \/ Abort \/ ReadEntries \/ Validate
    PROVE  ZipInvariant'
<1>1. /\ UNCHANGED <<tree, inside, pending, accepted, unpacking>>
      /\ inside \in Seq(ZipEntries) /\ pending \in Seq(ZipEntries) /\ accepted \in Seq(ZipEntries)
  BY DEF Open, Abort, ReadEntries, Validate, ZipInvariant, ZipTypes
<1>2. answered' # "whole"
  BY DEF Open, Abort, ReadEntries, Validate, Replies
<1>3. \/ object' = "closed"
      \/ object' = "reader" /\ unpacking = Idle
  <2>1. object' = "closed" \/ (object' = "reader" /\ (unpacking = Idle \/ object = "reader"))
    BY DEF Open, Abort, ReadEntries, Validate, Holds, Free
  <2>2. QED
    BY <2>1, UnpackingIs
<1>4. QED
  BY <1>1, <1>2, <1>3, ObjectStep

\* One entry is extracted while nothing is unpacked.
LEMMA ExtractStep ==
    ASSUME ZipInvariant, NEW p \in Paths, p # Root, Extract(p)
    PROVE  ZipInvariant'
<1>1. /\ object = "reader" /\ UNCHANGED <<inside, object, pending, accepted, unpacking>>
      /\ inside \in Seq(ZipEntries) /\ pending \in Seq(ZipEntries) /\ accepted \in Seq(ZipEntries)
  BY DEF Extract, Holds, ZipInvariant, ZipTypes
<1>2. unpacking = Idle
  BY <1>1, UnpackingIs
<1>3. PICK i \in DOMAIN inside : ExtractTo(inside[i], p)
  BY DEF Extract
<1>4. inside[i] \in ZipEntries
  BY <1>1
<1>5. inside[i].dir \in BOOLEAN
  BY <1>4, ZipConstants
<1>6. answered' # "whole"
  BY <1>3, <1>5, ExtractToIs DEF Extracted
<1>7. QED
  BY <1>1, <1>2, <1>6, ObjectStep

\* What the steps of a call that unpacks have to show.
LEMMA UnpackStep ==
    ASSUME ZipInvariant, UNCHANGED <<inside, object, pending, accepted>>,
           object = "closed" \/ unpacking' = Idle,
           \/ unpacking' = Idle
           \/ unpacking' \in [at : {"entry", "done", "failed"}, dest : {Root} \union PathsTo(1),
                              next : Nat \ {0}, list : Seq(ZipEntries), start : {unpacking'.start}],
           object # "writer", answered' # "whole", EntriesTrue', UnpackTrue'
    PROVE  ZipInvariant'
<1>1. /\ object \in {"closed", "writer", "reader"}
      /\ inside \in Seq(ZipEntries) /\ pending \in Seq(ZipEntries) /\ accepted \in Seq(ZipEntries)
  BY DEF ZipInvariant, ZipTypes
<1>2. ZipTypes'
  BY <1>1 DEF ZipTypes
<1>3. WriterTrue'
  BY DEF WriterTrue
<1>4. ArchiveTrue'
  BY DEF ArchiveTrue
<1>5. QED
  BY <1>2, <1>3, <1>4 DEF ZipInvariant, ZipTrue

\* What a call that unpacks changes is at and below its destination.
Same(t, u, dest) ==
    \A q : ~Under(dest, q) =>
        (q \in DOMAIN u <=> q \in DOMAIN t) /\ (q \in DOMAIN t => u[q] = t[q])

\* UnpackTrue in parts.
LEMMA UnpackIs ==
    ASSUME NEW start, start = unpacking'.start,
           unpacking' # Idle => Same(start, tree', unpacking'.dest),
           unpacking'.at = "done" =>
              Placed(unpacking'.dest, unpacking'.list, tree', Len(unpacking'.list)),
           unpacking'.at = "done" => Len(unpacking'.list) \in Nat
                                       /\ DOMAIN unpacking'.list = 1..Len(unpacking'.list)
    PROVE  UnpackTrue'
<1>1. unpacking' # Idle =>
         \A p \in DOMAIN tree' \union DOMAIN unpacking'.start :
            ~Under(unpacking'.dest, p) =>
               p \in DOMAIN tree' /\ p \in DOMAIN unpacking'.start
                 /\ tree'[p] = unpacking'.start[p]
  BY DEF Same
<1>2. unpacking'.at = "done" =>
         LET list == unpacking'.list IN
         \A i \in DOMAIN list :
            (~list[i].dir /\ \A j \in (i + 1)..Len(list) :
                                list[j].dir \/ Follow(unpacking'.dest \o list[j].path)
                                                 # Follow(unpacking'.dest \o list[i].path))
            => /\ Follow(unpacking'.dest \o list[i].path) \in DOMAIN tree'
               /\ tree'[Follow(unpacking'.dest \o list[i].path)] = list[i].data
  BY DEF Placed, Place
<1>3. QED
  BY <1>1, <1>2 DEF UnpackTrue, UnpackedAt, Exists

\* What holds of a call that unpacks.
LEMMA UnpackingTrue ==
    ASSUME ZipInvariant, unpacking # Idle
    PROVE  Same(unpacking.start, tree, unpacking.dest)
BY DEF ZipInvariant, ZipTrue, UnpackTrue, Same, Exists

\* The call begins: the destination is made.
LEMMA BeginStep ==
    ASSUME ZipInvariant, NEW dest \in {Root} \union PathsTo(1), BeginUnpack(dest)
    PROVE  ZipInvariant'
<1>1. /\ object = "closed" /\ UNCHANGED <<inside, object, pending, accepted>>
      /\ inside \in Seq(ZipEntries) /\ unpacking = Idle /\ answered' # "whole"
  BY DEF BeginUnpack, Free, Replies, ZipInvariant, ZipTypes
<1>2. CASE UNCHANGED <<tree, unpacking>>
  <2>1. unpacking' = Idle /\ EntriesTrue' /\ UnpackTrue'
    BY <1>1, <1>2, UnpackingRests
  <2>2. QED
    BY <1>1, <2>1, UnpackStep
<1>3. ASSUME tree' = WithDirectories(dest),
             unpacking' = [at |-> "entry", dest |-> dest, next |-> 1,
                           list |-> inside, start |-> tree]
      PROVE  ZipInvariant'
  <2>1. /\ unpacking'.at = "entry" /\ unpacking'.dest = dest /\ unpacking'.next = 1
        /\ unpacking'.list = inside /\ unpacking'.start = tree
    BY <1>3
  <2>2. unpacking' \in [at : {"entry", "done", "failed"}, dest : {Root} \union PathsTo(1),
                        next : Nat \ {0}, list : Seq(ZipEntries), start : {unpacking'.start}]
    BY <1>1, <1>3
  <2>3. dest \in Paths /\ Under(dest, dest)
    BY DestPaths, UnderOrder
  <2>4. Same(tree, tree', dest)
    <3>1. Grown(tree', dest)
      BY <1>3, <2>3, WithDirectoriesGrows
    <3>2. QED
      BY <2>3, <3>1, OutsideSame DEF Grown, Same
  <2>5. UnpackTrue'
    BY <2>1, <2>4, UnpackIs
  <2>6. EntriesTrue'
    <3>1. Len(inside) \in Nat
      BY <1>1
    <3>2. 1 <= Len(inside) + 1 /\ 1..(1 - 1) = {}
      BY <3>1
    <3>3. QED
      BY <2>1, <3>2 DEF EntriesTrue, Placed
  <2>7. QED
    BY <1>1, <2>2, <2>5, <2>6, UnpackStep
<1>4. QED
  BY <1>2, <1>3 DEF BeginUnpack

\* A call that unpacks, in parts.
IsUnpacking(u, at, dest, next, list, start) ==
    /\ u = [at |-> at, dest |-> dest, next |-> next, list |-> list, start |-> start]
    /\ at \in {"entry", "done", "failed"} /\ dest \in {Root} \union PathsTo(1)
    /\ next \in Nat \ {0} /\ list \in Seq(ZipEntries)

\* A call that unpacks is what its parts say.
LEMMA UnpackingParts ==
    ASSUME NEW u, NEW at, NEW dest, NEW next, NEW list, NEW start,
           IsUnpacking(u, at, dest, next, list, start)
    PROVE  /\ u.at = at /\ u.dest = dest /\ u.next = next /\ u.list = list /\ u.start = start
           /\ u # Idle
           /\ u \in [at : {"entry", "done", "failed"}, dest : {Root} \union PathsTo(1),
                     next : Nat \ {0}, list : Seq(ZipEntries), start : {u.start}]
BY DEF IsUnpacking, Idle

\* One more entry is in its place, over those before it.
LEMMA PlacedMore ==
    ASSUME NEW dest, NEW list \in Seq(ZipEntries), NEW n \in 1..Len(list),
           Placed(dest, list, tree, n - 1),
           Extracted(list[n], Place(dest, list[n])), answered' = "ok"
    PROVE  Placed(dest, list, tree', n)
<1> DEFINE p == Place(dest, list[n])
<1>1. Len(list) \in Nat /\ n \in Nat /\ n # 0
  OBVIOUS
<1>2. /\ \A q \in DOMAIN tree : q # p \/ list[n].dir => q \in DOMAIN tree' /\ tree'[q] = tree[q]
      /\ ~list[n].dir => p \in DOMAIN tree' /\ tree'[p] = list[n].data
  BY DEF Extracted
<1>3. ASSUME NEW i \in 1..n, ~list[i].dir,
             \A j \in (i + 1)..n : list[j].dir \/ Place(dest, list[j]) # Place(dest, list[i])
      PROVE  Place(dest, list[i]) \in DOMAIN tree' /\ tree'[Place(dest, list[i])] = list[i].data
  <2>1. CASE i = n
    BY <1>2, <1>3, <2>1
  <2>2. CASE i # n
    <3>1. i \in 1..(n - 1) /\ n \in (i + 1)..n
      BY <1>1, <2>2
    <3>2. \A j \in (i + 1)..(n - 1) : j \in (i + 1)..n
      BY <1>1
    <3>3. \A j \in (i + 1)..(n - 1) : list[j].dir \/ Place(dest, list[j]) # Place(dest, list[i])
      BY <1>3, <3>2
    <3>4. Place(dest, list[i]) \in DOMAIN tree /\ tree[Place(dest, list[i])] = list[i].data
      BY <1>3, <3>1, <3>3 DEF Placed
    <3>5. list[n].dir \/ p # Place(dest, list[i])
      BY <1>3, <3>1
    <3>6. QED
      BY <1>2, <3>4, <3>5
  <2>3. QED
    BY <2>1, <2>2
<1>4. QED
  BY <1>3 DEF Placed

\* One entry is unpacked: an unsafe name touches nothing.
LEMMA EntryStep ==
    ASSUME ZipInvariant, UnpackEntry
    PROVE  ZipInvariant'
<1> DEFINE dest == unpacking.dest
           next == unpacking.next
           list == unpacking.list
           start == unpacking.start
           entry == list[next]
           p == Place(dest, entry)
           at == IF answered' = "ok" THEN "entry" ELSE "failed"
<1>1. /\ unpacking.at = "entry" /\ next \in DOMAIN list
      /\ UNCHANGED <<inside, object, pending, accepted>>
      /\ unpacking # Idle
      /\ unpacking \in [at : {"entry", "done", "failed"}, dest : {Root} \union PathsTo(1),
                        next : Nat \ {0}, list : Seq(ZipEntries), start : {unpacking.start}]
  BY UnpackingIs DEF UnpackEntry
<1>2. /\ object = "closed" /\ Placed(dest, list, tree, next - 1)
  BY <1>1, UnpackingIs DEF ZipInvariant, EntriesTrue, WriterTrue
<1>3. /\ list \in Seq(ZipEntries) /\ next \in Nat \ {0} /\ dest \in {Root} \union PathsTo(1)
      /\ entry \in ZipEntries /\ next \in 1..Len(list) /\ Len(list) \in Nat
  <2>1. list \in Seq(ZipEntries) /\ next \in Nat \ {0} /\ dest \in {Root} \union PathsTo(1)
    BY <1>1
  <2> HIDE DEF list, next, dest
  <2>2. QED
    BY <1>1, <2>1
<1>4. IF IsSafeArchiveName(entry.path) THEN ExtractTo(entry, p)
      ELSE answered' = "error" /\ UNCHANGED tree
  BY DEF UnpackEntry, UnpackedAt, Place, Replies
<1>5. unpacking' = [at |-> at, dest |-> dest, next |-> next + 1, list |-> list, start |-> start]
  BY <1>1 DEF UnpackEntry
<1>6. Same(start, tree, dest)
  BY <1>1, UnpackingTrue
<1> HIDE DEF dest, next, list, start, entry
<1>7. next + 1 \in Nat \ {0} /\ at \in {"entry", "done", "failed"} /\ (next + 1) - 1 = next
      /\ next + 1 <= Len(list) + 1
  BY <1>3
<1>8. IsUnpacking(unpacking', at, dest, next + 1, list, start)
  BY <1>3, <1>5, <1>7 DEF IsUnpacking
<1>9. /\ Same(tree, tree', dest) /\ answered' \in {"ok", "error"}
      /\ answered' = "ok" => Placed(dest, list, tree', next)
  <2>1. CASE ~IsSafeArchiveName(entry.path)
    BY <1>4, <2>1 DEF Same
  <2>2. CASE IsSafeArchiveName(entry.path)
    <3>1. dest \in Paths
      BY <1>3, DestPaths
    <3>2. p \in Paths /\ p # Root /\ Under(dest, p)
      BY <1>3, <2>2, <3>1, SafePlace DEF Place
    <3>3. entry.dir \in BOOLEAN
      BY <1>3, ZipConstants
    <3> HIDE DEF p
    <3>4. Extracted(entry, p)
      BY <1>4, <2>2, <3>2, <3>3, ExtractToIs
    <3>5. Same(tree, tree', dest)
      BY <1>3, <3>2, <3>4, OutsideSame DEF Same, Extracted
    <3>6. answered' = "ok" => Placed(dest, list, tree', next)
      BY <1>2, <1>3, <3>4, PlacedMore DEF p, entry
    <3>7. QED
      BY <3>4, <3>5, <3>6 DEF Extracted
  <2>3. QED
    BY <2>1, <2>2
<1> HIDE DEF at, p
<1>10. /\ unpacking'.at = at /\ unpacking'.dest = dest /\ unpacking'.next = next + 1
       /\ unpacking'.list = list /\ unpacking'.start = start
       /\ unpacking' \in [at : {"entry", "done", "failed"}, dest : {Root} \union PathsTo(1),
                          next : Nat \ {0}, list : Seq(ZipEntries), start : {unpacking'.start}]
  BY <1>8, UnpackingParts
<1>11. at # "done" /\ (at = "entry" => answered' = "ok")
  BY DEF at
<1>12. UnpackTrue'
  <2>1. Same(start, tree', dest)
    BY <1>6, <1>9 DEF Same
  <2>2. QED
    BY <1>10, <1>11, <2>1, UnpackIs
<1>13. EntriesTrue'
  BY <1>7, <1>9, <1>10, <1>11 DEF EntriesTrue
<1>14. QED
  BY <1>1, <1>2, <1>9, <1>10, <1>12, <1>13, UnpackStep

\* The last entry is followed by none.
LEMMA FinishStep ==
    ASSUME ZipInvariant, FinishUnpack
    PROVE  ZipInvariant'
<1> DEFINE dest == unpacking.dest
           next == unpacking.next
           list == unpacking.list
           start == unpacking.start
<1>1. /\ unpacking.at = "entry" /\ next \notin DOMAIN list
      /\ UNCHANGED <<tree, inside, object, pending, accepted>>
      /\ unpacking # Idle
      /\ unpacking \in [at : {"entry", "done", "failed"}, dest : {Root} \union PathsTo(1),
                        next : Nat \ {0}, list : Seq(ZipEntries), start : {unpacking.start}]
  BY UnpackingIs DEF FinishUnpack
<1>2. /\ object = "closed" /\ Placed(dest, list, tree, next - 1) /\ next <= Len(list) + 1
  BY <1>1, UnpackingIs DEF ZipInvariant, EntriesTrue, WriterTrue
<1>3. list \in Seq(ZipEntries) /\ next \in Nat \ {0} /\ dest \in {Root} \union PathsTo(1)
  BY <1>1
<1>4. \E at \in {"done", "failed"} :
         unpacking' = [at |-> at, dest |-> dest, next |-> next, list |-> list, start |-> start]
  BY <1>1 DEF FinishUnpack
<1>5. answered' # "whole"
  BY DEF FinishUnpack, Replies
<1>6. Same(start, tree, dest)
  BY <1>1, UnpackingTrue
<1> HIDE DEF dest, next, list, start
<1>7. Placed(dest, list, tree', Len(list)) /\ Len(list) \in Nat /\ DOMAIN list = 1..Len(list)
  <2>1. Len(list) \in Nat /\ DOMAIN list = 1..Len(list)
    BY <1>3
  <2>2. next - 1 = Len(list)
    BY <1>1, <1>2, <1>3, <2>1
  <2>3. QED
    BY <1>1, <1>2, <2>1, <2>2
<1>8. PICK at \in {"done", "failed"} :
         unpacking' = [at |-> at, dest |-> dest, next |-> next, list |-> list, start |-> start]
  BY <1>4
<1>9. IsUnpacking(unpacking', at, dest, next, list, start)
  BY <1>3, <1>8 DEF IsUnpacking
<1>10. /\ unpacking'.at = at /\ unpacking'.dest = dest
       /\ unpacking'.list = list /\ unpacking'.start = start
       /\ unpacking' \in [at : {"entry", "done", "failed"}, dest : {Root} \union PathsTo(1),
                          next : Nat \ {0}, list : Seq(ZipEntries), start : {unpacking'.start}]
  BY <1>9, UnpackingParts
<1>11. UnpackTrue'
  <2>1. Same(start, tree', dest)
    BY <1>1, <1>6
  <2>2. QED
    BY <1>7, <1>10, <2>1, UnpackIs
<1>12. EntriesTrue'
  BY <1>7, <1>8, <1>10 DEF EntriesTrue
<1>13. QED
  BY <1>1, <1>2, <1>5, <1>10, <1>11, <1>12, UnpackStep

\* The caller takes the answer.
LEMMA LeaveStep ==
    ASSUME ZipInvariant, LeaveUnpack
    PROVE  ZipInvariant'
<1>1. /\ unpacking' = Idle /\ answered' # "whole" /\ UNCHANGED <<inside, object, pending, accepted>>
      /\ unpacking.at \in {"done", "failed"} /\ Idle.at = "idle"
  BY DEF LeaveUnpack, Replies, Idle
<1>2. object = "closed"
  BY <1>1, UnpackingIs DEF ZipInvariant, WriterTrue
<1>3. EntriesTrue' /\ UnpackTrue'
  BY <1>1 DEF EntriesTrue, UnpackTrue
<1>4. QED
  BY <1>1, <1>2, <1>3, UnpackStep

\* The invariant holds at the start.
LEMMA ZipStarts ==
    ASSUME ZipInit
    PROVE  ZipInvariant
<1>1. /\ object = "closed" /\ pending = <<>> /\ accepted = <<>> /\ unpacking = Idle
      /\ answered = "none" /\ inside \in IF Readable THEN Lists ELSE {<<>>}
  BY DEF ZipInit
<1>2. <<>> \in Seq(ZipEntries)
  BY EmptySeq
<1>3. Lists \subseteq Seq(ZipEntries)
  <2>1. 0..MaxArchived \subseteq Nat
    BY ZipConstants
  <2>2. \A n \in Nat : [1..n -> ZipEntries] \subseteq Seq(ZipEntries)
    OBVIOUS
  <2>3. QED
    BY <2>1, <2>2 DEF Lists
<1>4. inside \in Seq(ZipEntries)
  BY <1>1, <1>2, <1>3
<1>5. ZipTypes
  BY <1>1, <1>2, <1>4 DEF ZipTypes
<1>6. WriterTrue
  BY <1>1 DEF WriterTrue
<1>7. Idle.at = "idle"
  BY DEF Idle
<1>8. EntriesTrue /\ UnpackTrue
  BY <1>1, <1>7 DEF EntriesTrue, UnpackTrue
<1>9. ArchiveTrue
  BY <1>1 DEF ArchiveTrue
<1>10. QED
  BY <1>5, <1>6, <1>8, <1>9 DEF ZipInvariant, ZipTrue

\* Every step keeps the invariant.
LEMMA ZipSteps ==
    ASSUME ZipInvariant, [ZipNext]_zipVars
    PROVE  ZipInvariant'
<1>1. CASE Create \/ Close \/ Open \/ Abort \/ ReadEntries \/ Validate
  BY <1>1, CreateStep, CloseStep, QuietStep
<1>2. CASE \E entry \in ZipEntries : Add(entry)
  BY <1>2, AddStep
<1>3. CASE \E p \in PathsTo(2) : Extract(p)
  BY <1>3, CallPaths, ExtractStep
<1>4. CASE \E dest \in {Root} \union PathsTo(1) : BeginUnpack(dest)
  BY <1>4, BeginStep
<1>5. CASE UnpackEntry \/ FinishUnpack \/ LeaveUnpack
  BY <1>5, EntryStep, FinishStep, LeaveStep
<1>6. CASE UNCHANGED zipVars
  <2>1. UNCHANGED <<tree, inside, object, pending, accepted, unpacking, answered>>
    BY <1>6 DEF zipVars
  <2>2. EntriesTrue' /\ UnpackTrue'
    BY <2>1, UnpackingRests
  <2>3. ZipTypes'
    BY <2>1 DEF ZipInvariant, ZipTypes
  <2>4. WriterTrue'
    BY <2>1 DEF ZipInvariant, WriterTrue
  <2>5. ArchiveTrue'
    BY <2>1 DEF ZipInvariant, ZipTrue, ArchiveTrue, Readable, Exists
  <2>6. QED
    BY <2>2, <2>3, <2>4, <2>5 DEF ZipInvariant, ZipTrue
<1>7. QED
  BY <1>1, <1>2, <1>3, <1>4, <1>5, <1>6 DEF ZipNext

\* An archive that was closed with success holds what was accepted, in order,
\* and one that is unpacked with success leaves every file in its place and,
\* whatever its entries are called, nothing changed elsewhere (zip.c).
THEOREM ArchivesAreTrue == ZipSpec => []ZipTrue
<1>1. ZipInit => ZipInvariant
  BY ZipStarts
<1>2. ZipInvariant /\ [ZipNext]_zipVars => ZipInvariant'
  BY ZipSteps
<1>3. ZipInvariant => ZipTrue
  BY DEF ZipInvariant
<1>4. QED
  BY <1>1, <1>2, <1>3, PTL DEF ZipSpec
=============================================================================
