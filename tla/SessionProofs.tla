---------------------------- MODULE SessionProofs -----------------------------
(***************************************************************************)
(* For every depth of nesting and every set of directories: the global     *)
(* variables that programs, scripts, open and captures share follow the    *)
(* nesting; the prompt keeps its directory; a close request is not         *)
(* inherited.  For every screen, line and command: the shell, the console  *)
(* and the screen agree on the line that is edited.                        *)
(***************************************************************************)
EXTENDS ProgramSession, LineEditor, FiniteSetTheorems, FunctionTheorems, SequenceTheorems, TLAPS

\* The frames a stack is made of.
Frames == [kind : {"program", "script", "open", "capture"}, prev : Dirs, outer : Nat,
           guarded : BOOLEAN, phase : {"running", "returned", "ending"}]

\* The types of the variables.
SessionTypeOK ==
    /\ stack \in Seq(Frames)
    /\ active \in Seq(Nat)
    /\ cwd \in Dirs /\ dirs \in SUBSET Dirs /\ home \in Dirs
    /\ depth \in Nat /\ suspend \in Nat /\ target \in Nat /\ asked \in SUBSET Nat
    /\ closing \in BOOLEAN /\ halted \in BOOLEAN /\ late \in BOOLEAN

\* active_contexts has exactly the programs that run, the newest last, and the
\* console is suspended once for each.
ContextsInOrder ==
    /\ suspend = Len(active)
    /\ \A k \in 1..Len(active) : active[k] \in RunningPrograms
    /\ \A j, k \in 1..Len(active) : j < k => active[j] < active[k]
    /\ \A i \in RunningPrograms : \E k \in 1..Len(active) : active[k] = i

\* script_depth counts the scripts that run; a program that a finalizer ended
\* may have left it too high, never too low.
DepthKept ==
    /\ Cardinality(Positions("script")) <= depth
    /\ ~late => ScriptsCounted

\* The captures below frame i.
Earlier(i) == {j \in Positions("capture") : j < i}

\* Every capture saved the target of the capture before it, so that the last
\* one to end gives the console its output back.
OutputSaved ==
    ~late => /\ OutputOwned
             /\ \A i \in Positions("capture") : stack[i].outer = Newest(Earlier(i))

\* The first program of a stack saved the directory of the prompt, and its end
\* has restored it.
HomeSaved ==
    ~late /\ stack # <<>> =>
        /\ stack[1].prev = home
        /\ stack[1].kind # "capture"
        /\ Len(stack) = 1 /\ stack[1].kind = "program" /\ stack[1].phase = "ending" =>
              cwd = home \/ home \notin dirs

\* A program that ends is on top: nothing runs above it.
EndingOnTop ==
    \A i \in 1..(Len(stack) - 1) : stack[i].kind = "program" => stack[i].phase # "ending"

\* A close request that waits was made when the programs that run now ran:
\* others may have ended since, and none has started.
CloseIsRecent == closing => asked = RunningPrograms

\* The inductive invariant.
SessionInv ==
    /\ SessionTypeOK
    /\ ContextsInOrder
    /\ DepthKept
    /\ OutputSaved
    /\ ExitFindsProgram
    /\ HomeSaved
    /\ EndingOnTop
    /\ CloseIsRecent

-----------------------------------------------------------------------------
\* What the first n frames keep through every step: their kinds, what they
\* saved, and their side of the end.
Kept(n) ==
    \A i \in 1..n :
        /\ stack'[i].kind = stack[i].kind
        /\ stack'[i].prev = stack[i].prev
        /\ stack'[i].outer = stack[i].outer
        /\ stack[i].kind = "program" => (stack'[i].phase = "ending" <=> stack[i].phase = "ending")

\* A new frame leaves the ones below as they are.
LEMMA PushKeeps ==
    ASSUME SessionTypeOK, NEW f \in Frames, Push(f)
    PROVE  /\ stack' \in Seq(Frames) /\ Len(stack') = Len(stack) + 1
           /\ Kept(Len(stack))
           /\ stack'[Len(stack) + 1] = f
           /\ stack' # <<>>
<1> DEFINE n == Len(stack)
           s == IF stack # <<>> /\ Top.kind \in {"capture", "open"}
                THEN [stack EXCEPT ![n].phase = "returned"] ELSE stack
<1>1. stack \in Seq(Frames) /\ n \in Nat
  BY DEF SessionTypeOK
<1>2. /\ s \in Seq(Frames) /\ Len(s) = n
      /\ \A i \in 1..n : /\ s[i].kind = stack[i].kind
                         /\ s[i].prev = stack[i].prev
                         /\ s[i].outer = stack[i].outer
                         /\ stack[i].kind = "program" => s[i] = stack[i]
  <2>1. CASE stack # <<>> /\ Top.kind \in {"capture", "open"}
    <3>1. n \in 1..n
      BY <1>1, <2>1
    <3>2. s = [stack EXCEPT ![n] = [stack[n] EXCEPT !.phase = "returned"]]
      BY <2>1
    <3>3. stack[n] \in Frames
      BY <1>1, <3>1
    <3>4. [stack[n] EXCEPT !.phase = "returned"] \in Frames
      BY <3>3 DEF Frames
    <3> QED BY <1>1, <2>1, <3>1, <3>2, <3>3, <3>4 DEF Top, Frames
  <2>2. CASE ~(stack # <<>> /\ Top.kind \in {"capture", "open"})
    BY <1>1, <2>2
  <2> QED BY <2>1, <2>2
<1>3. stack' = Append(s, f)
  BY DEF Push
<1> HIDE DEF s
<1>4. stack' \in Seq(Frames) /\ Len(stack') = n + 1 /\ stack'[n + 1] = f /\ stack' # <<>>
  BY <1>1, <1>2, <1>3
<1>5. \A i \in 1..n : stack'[i] = s[i]
  BY <1>1, <1>2, <1>3
<1> QED BY <1>2, <1>4, <1>5 DEF Kept

\* So does the end of the one on top.
LEMMA PopKeeps ==
    ASSUME SessionTypeOK, stack # <<>>, Pop
    PROVE  /\ stack' \in Seq(Frames) /\ Len(stack') = Len(stack) - 1
           /\ Kept(Len(stack) - 1)
           /\ \A i \in 1..(Len(stack) - 1) : stack'[i] = stack[i]
<1>1. stack \in Seq(Frames)
  BY DEF SessionTypeOK
<1>2. stack' = SubSeq(stack, 1, Len(stack) - 1)
  BY DEF Pop, Front
<1>3. Len(stack) \in Nat /\ Len(stack) >= 1
  BY <1>1
<1>5. \A i \in 1..(Len(stack) - 1) : stack[i] \in Frames
  BY <1>1, <1>3
<1>4. /\ stack' \in Seq(Frames) /\ Len(stack') = Len(stack) - 1
      /\ \A i \in 1..(Len(stack) - 1) : stack'[i] = stack[i]
  <2> DEFINE m == Len(stack) - 1
  <2>1. m \in Nat
    BY <1>3
  <2>2. stack' = SubSeq(stack, 1, m) /\ \A i \in 1..m : stack[i] \in Frames
    BY <1>2, <1>5
  <2> HIDE DEF m
  <2>3. /\ stack' \in Seq(Frames)
        /\ Len(stack') = IF 1 <= m THEN m - 1 + 1 ELSE 0
        /\ \A i \in 1..(m - 1 + 1) : stack'[i] = stack[1 + i - 1]
    BY <2>1, <2>2, SubSeqProperties
  <2>4. Len(stack') = m /\ \A i \in 1..m : stack'[i] = stack[i]
    BY <2>1, <2>3
  <2> QED BY <2>3, <2>4 DEF m
<1> QED BY <1>4 DEF Kept

\* Frame i gets another mark or phase, and keeps what it saved.
Marked(i, frame) ==
    /\ i \in 1..Len(stack)
    /\ frame \in Frames
    /\ stack' = [stack EXCEPT ![i] = frame]
    /\ frame.kind = stack[i].kind /\ frame.prev = stack[i].prev /\ frame.outer = stack[i].outer

\* What a mark leaves as it was.
LEMMA MarkKeeps ==
    ASSUME SessionTypeOK, NEW i, NEW frame, Marked(i, frame)
    PROVE  /\ stack' \in Seq(Frames) /\ Len(stack') = Len(stack)
           /\ stack' # <<>>
           /\ \A j \in 1..Len(stack) : j # i => stack'[j] = stack[j]
           /\ stack'[i] = frame
           /\ (frame.phase = "ending" <=> stack[i].phase = "ending") => Kept(Len(stack))
BY DEF SessionTypeOK, Marked, Kept

\* Where the frames of each kind are, when no frame comes or goes.
LEMMA SamePositions ==
    ASSUME SessionTypeOK, Len(stack') = Len(stack), Kept(Len(stack)), NEW kind
    PROVE  Positions(kind)' = Positions(kind) /\ RunningPrograms' = RunningPrograms
BY DEF SessionTypeOK, Kept, Positions, RunningPrograms

\* The same when a frame is pushed.
LEMMA OneMorePosition ==
    ASSUME SessionTypeOK, Len(stack') = Len(stack) + 1, Kept(Len(stack)), NEW kind
    PROVE  /\ Positions(kind)' = Positions(kind) \union
                    (IF stack'[Len(stack) + 1].kind = kind THEN {Len(stack) + 1} ELSE {})
           /\ stack'[Len(stack) + 1].phase = "running" =>
                RunningPrograms' = RunningPrograms \union
                    (IF stack'[Len(stack) + 1].kind = "program" THEN {Len(stack) + 1} ELSE {})
           /\ Len(stack) + 1 \notin Positions(kind)
<1>1. Len(stack) \in Nat
  BY DEF SessionTypeOK
<1>2. \A i \in 1..Len(stack') : i \in 1..Len(stack) \/ i = Len(stack) + 1
  BY <1>1
<1>3. 1..Len(stack) \subseteq 1..Len(stack') /\ Len(stack) + 1 \in 1..Len(stack')
  BY <1>1
<1>4. Len(stack) + 1 \notin 1..Len(stack)
  BY <1>1
<1> HIDE DEF SessionTypeOK
<1>5. \A i \in 1..Len(stack) : stack'[i].kind = stack[i].kind
  BY DEF Kept
<1>6. \A i \in 1..Len(stack) : stack[i].kind = "program" =>
          (stack'[i].phase = "ending" <=> stack[i].phase = "ending")
  BY DEF Kept
<1>7. ASSUME NEW k
      PROVE  Positions(k)' = Positions(k) \union
                    (IF stack'[Len(stack) + 1].kind = k THEN {Len(stack) + 1} ELSE {})
  BY <1>2, <1>3, <1>5 DEF Positions
<1>8. Positions(kind) \subseteq 1..Len(stack)
  BY DEF Positions
<1>9. ASSUME stack'[Len(stack) + 1].phase = "running"
      PROVE  RunningPrograms' = RunningPrograms \union
                    (IF stack'[Len(stack) + 1].kind = "program" THEN {Len(stack) + 1} ELSE {})
  <2>1. \A i \in Positions("program") : i \in 1..Len(stack) /\ stack[i].kind = "program"
    BY DEF Positions
  <2> QED BY <1>6, <1>7, <1>9, <2>1, <1>4 DEF RunningPrograms
<1> QED BY <1>4, <1>7, <1>8, <1>9

\* The same when one is popped.
LEMMA OneLessPosition ==
    ASSUME SessionTypeOK, stack # <<>>, Len(stack') = Len(stack) - 1, Kept(Len(stack) - 1),
           NEW kind
    PROVE  /\ Positions(kind)' = Positions(kind) \ {Len(stack)}
           /\ RunningPrograms' = RunningPrograms \ {Len(stack)}
           /\ Len(stack) \in Positions(kind) <=> Top.kind = kind
<1>1. Len(stack) \in Nat /\ Len(stack) >= 1
  BY DEF SessionTypeOK
<1>2. 1..Len(stack') = (1..Len(stack)) \ {Len(stack)} /\ Len(stack) \in 1..Len(stack)
  BY <1>1
<1>3. \A i \in (1..Len(stack)) \ {Len(stack)} : stack'[i].kind = stack[i].kind
  BY <1>2 DEF Kept
<1>4. \A i \in (1..Len(stack)) \ {Len(stack)} : stack[i].kind = "program" =>
          (stack'[i].phase = "ending" <=> stack[i].phase = "ending")
  BY <1>2 DEF Kept
<1>5. ASSUME NEW k
      PROVE  Positions(k)' = Positions(k) \ {Len(stack)}
  BY <1>2, <1>3 DEF Positions
<1>6. RunningPrograms' = RunningPrograms \ {Len(stack)}
  <2>1. \A i \in Positions("program") : i \in 1..Len(stack) /\ stack[i].kind = "program"
    BY DEF Positions
  <2>2. Positions("program")' = Positions("program") \ {Len(stack)}
    BY <1>5
  <2> QED BY <1>4, <2>1, <2>2 DEF RunningPrograms
<1> QED BY <1>2, <1>5, <1>6 DEF Positions, Top

-----------------------------------------------------------------------------
\* A new frame saves the directory it begins in.
LEMMA PushSavesHome ==
    ASSUME SessionTypeOK, HomeSaved, NEW f \in Frames, Push(f), late' = late,
           f.phase = "running", f.prev = cwd, f.kind = "capture" => stack # <<>>
    PROVE  HomeSaved' /\ home' \in Dirs
<1>1. /\ Len(stack') = Len(stack) + 1
      /\ \A i \in 1..Len(stack) : stack'[i].kind = stack[i].kind /\ stack'[i].prev = stack[i].prev
      /\ stack'[Len(stack) + 1] = f
  BY PushKeeps DEF Kept
<1>2. home' = IF stack = <<>> THEN cwd ELSE home
  BY DEF Push
<1>3. Len(stack) \in Nat /\ (stack = <<>> <=> Len(stack) = 0) /\ home \in Dirs /\ cwd \in Dirs
  BY DEF SessionTypeOK
<1>4. CASE stack = <<>>
  BY <1>1, <1>2, <1>3, <1>4 DEF HomeSaved
<1>5. CASE stack # <<>>
  <2>1. 1 \in 1..Len(stack) /\ Len(stack') # 1
    BY <1>1, <1>3, <1>5
  <2> QED BY <1>1, <1>2, <1>3, <1>5, <2>1 DEF HomeSaved
<1> QED BY <1>4, <1>5

\* A new capture saves the target, and becomes it.
LEMMA PushSavesOutput ==
    ASSUME SessionTypeOK, OutputSaved, NEW f \in Frames, Push(f), late' = late,
           f.phase = "running", f.outer = target,
           target' = IF f.kind = "capture" THEN Len(stack) + 1 ELSE target
    PROVE  OutputSaved'
<1> SUFFICES ASSUME ~late'
             PROVE  /\ OutputOwned'
                    /\ \A i \in Positions("capture")' : stack'[i].outer = Newest(Earlier(i))'
  BY DEF OutputSaved
<1> DEFINE n == Len(stack)
           C == Positions("capture")
<1>1. n \in Nat /\ C \subseteq 1..n
  BY DEF SessionTypeOK, Positions
<1>2. /\ stack'[n + 1] = f
      /\ \A i \in 1..n : stack'[i].outer = stack[i].outer
  BY PushKeeps DEF Kept
<1>3. Positions("capture")' = C \union (IF f.kind = "capture" THEN {n + 1} ELSE {})
  BY <1>2, PushKeeps, OneMorePosition
<1>4. target = Newest(C) /\ \A i \in C : stack[i].outer = Newest(Earlier(i))
  BY DEF OutputSaved, OutputOwned
<1>5. \A i \in C : Earlier(i)' = Earlier(i)
  BY <1>1, <1>3 DEF Earlier
<1>6. ASSUME f.kind = "capture", NEW i, i = n + 1
      PROVE  Earlier(i)' = C
  <2>1. \A j \in C : j < n + 1
    BY <1>1
  <2>2. ~(n + 1 < n + 1)
    BY <1>1
  <2> QED BY <1>3, <1>6, <2>1, <2>2 DEF Earlier
<1>7. f.kind = "capture" => Newest(C \union {n + 1}) = n + 1
  BY <1>1 DEF Newest
<1>8. OutputOwned'
  BY <1>3, <1>4, <1>7 DEF OutputOwned, Newest
<1>9. ASSUME NEW i \in Positions("capture")'
      PROVE  stack'[i].outer = Newest(Earlier(i))'
  <2>1. CASE i \in C
    <3>1. stack'[i].outer = stack[i].outer
      BY <1>1, <1>2, <2>1
    <3> QED BY <1>4, <1>5, <2>1, <3>1 DEF Newest
  <2>2. CASE i \notin C
    <3>1. i = n + 1 /\ f.kind = "capture"
      BY <1>3, <1>9, <2>2
    <3>2. Earlier(i)' = C
      BY <1>6, <3>1
    <3>3. stack'[i].outer = Newest(C)
      BY <1>2, <1>4, <3>1
    <3> QED BY <3>2, <3>3 DEF Newest
  <2> QED BY <2>1, <2>2
<1> QED BY <1>8, <1>9

\* The end of a capture restores the target it saved: the newest of the
\* captures that are left.
LEMMA PopRestoresOutput ==
    ASSUME SessionTypeOK, OutputSaved, stack # <<>>, Pop, late' = late,
           target' = IF Top.kind = "capture" THEN Top.outer ELSE target
    PROVE  OutputSaved'
<1> SUFFICES ASSUME ~late'
             PROVE  /\ OutputOwned'
                    /\ \A i \in Positions("capture")' : stack'[i].outer = Newest(Earlier(i))'
  BY DEF OutputSaved
<1> DEFINE n == Len(stack)
           C == Positions("capture")
<1>1. n \in Nat /\ n >= 1 /\ C \subseteq 1..n
  BY DEF SessionTypeOK, Positions
<1>2. \A i \in 1..(n - 1) : stack'[i].outer = stack[i].outer
  BY PopKeeps DEF Kept
<1>3. Positions("capture")' = C \ {n} /\ (n \in C <=> Top.kind = "capture")
  BY PopKeeps, OneLessPosition
<1>4. target = Newest(C) /\ \A i \in C : stack[i].outer = Newest(Earlier(i))
  BY DEF OutputSaved, OutputOwned
<1>5. \A i \in C \ {n} : Earlier(i)' = Earlier(i)
  BY <1>1, <1>3 DEF Earlier
<1>6. Earlier(n) = C \ {n}
  BY <1>1 DEF Earlier
<1>7. OutputOwned'
  <2>1. CASE Top.kind = "capture"
    <3>1. target' = Newest(Earlier(n))
      BY <1>3, <1>4, <2>1 DEF Top
    <3> QED BY <1>3, <1>6, <3>1 DEF OutputOwned, Newest
  <2>2. CASE Top.kind # "capture"
    <3>1. Positions("capture")' = C
      BY <1>3, <2>2
    <3> QED BY <1>4, <2>2, <3>1 DEF OutputOwned, Newest
  <2> QED BY <2>1, <2>2
<1>8. ASSUME NEW i \in Positions("capture")'
      PROVE  stack'[i].outer = Newest(Earlier(i))'
  <2>1. i \in C \ {n} /\ i \in 1..(n - 1)
    BY <1>1, <1>3, <1>8
  <2> QED BY <1>2, <1>4, <1>5, <2>1 DEF Newest
<1> QED BY <1>7, <1>8

\* The output target stays where it is while no frame comes or goes.
LEMMA SameOutput ==
    ASSUME SessionTypeOK, OutputSaved, Len(stack') = Len(stack), Kept(Len(stack)),
           late' = late, target' = target
    PROVE  OutputSaved'
<1>1. Positions("capture")' = Positions("capture")
  BY SamePositions
<1>2. \A i \in Positions("capture") : stack'[i].outer = stack[i].outer
  BY DEF Kept, Positions
<1>3. \A i \in Positions("capture") : Earlier(i)' = Earlier(i)
  BY <1>1 DEF Earlier
<1>4. OutputOwned' <=> OutputOwned
  BY <1>1 DEF OutputOwned, Newest
<1> QED BY <1>1, <1>2, <1>3, <1>4 DEF OutputSaved, Newest

-----------------------------------------------------------------------------
\* The last context is a program that runs, above all others that do.
LEMMA LastContext ==
    ASSUME SessionTypeOK, ContextsInOrder, active # <<>>
    PROVE  /\ Last(active) \in RunningPrograms
           /\ Last(active) \in 1..Len(stack)
           /\ stack[Last(active)].kind = "program"
           /\ stack[Last(active)].phase # "ending"
           /\ \A i \in RunningPrograms : i <= Last(active)
<1> DEFINE m == Len(active)
<1>1. active \in Seq(Nat) /\ m \in Nat /\ m >= 1
  BY DEF SessionTypeOK
<1>2. Last(active) = active[m] /\ m \in 1..m
  BY <1>1 DEF Last
<1>3. Last(active) \in RunningPrograms
  BY <1>2 DEF ContextsInOrder
<1>4. ASSUME NEW i \in RunningPrograms
      PROVE  i <= Last(active)
  <2>1. PICK k \in 1..m : active[k] = i
    BY DEF ContextsInOrder
  <2>2. k < m => active[k] < active[m]
    BY <1>2, <2>1 DEF ContextsInOrder
  <2>3. active[k] \in Nat /\ active[m] \in Nat
    BY <1>1, <1>2
  <2>4. k = m \/ k < m
    BY <1>1
  <2> QED BY <1>2, <2>1, <2>2, <2>3, <2>4
<1> QED BY <1>3, <1>4 DEF RunningPrograms, Positions

\* A running program on top of the stack is the one that exit() finds.
LEMMA TopIsLastContext ==
    ASSUME SessionTypeOK, ContextsInOrder, stack # <<>>, Top.kind = "program", Top.phase # "ending"
    PROVE  active # <<>> /\ Last(active) = Len(stack)
<1>1. Len(stack) \in Nat /\ Len(stack) >= 1
  BY DEF SessionTypeOK
<1>2. Len(stack) \in RunningPrograms
  BY <1>1 DEF RunningPrograms, Positions, Top
<1>3. active # <<>>
  BY <1>2 DEF ContextsInOrder
<1>4. Len(stack) <= Last(active) /\ Last(active) \in 1..Len(stack)
  BY <1>2, <1>3, LastContext
<1> QED BY <1>1, <1>3, <1>4

\* exit() unwinds the stack to its program, or to a pcall of it.
LEMMA ExitKeeps ==
    ASSUME SessionTypeOK, ContextsInOrder, active # <<>>, ProgramExit
    PROVE  /\ stack' \in Seq(Frames) /\ stack' # <<>>
           /\ Len(stack') = Last(active) /\ Kept(Last(active))
           /\ Last(active) \in 1..Len(stack)
           /\ RunningPrograms' = RunningPrograms
           /\ halted' = halted
           /\ Top'.kind = "program" /\ Top'.phase # "ending"
<1> DEFINE f == Last(active)
           t == SubSeq(stack, 1, f)
           phase == IF stack[f].guarded THEN "running" ELSE "returned"
           frame == [stack[f] EXCEPT !.guarded = FALSE, !.phase = phase]
<1>1. /\ stack \in Seq(Frames) /\ Len(stack) \in Nat
      /\ f \in 1..Len(stack) /\ stack[f].kind = "program" /\ stack[f].phase # "ending"
      /\ \A i \in RunningPrograms : i <= f
  BY LastContext DEF SessionTypeOK
<1>2. t \in Seq(Frames) /\ Len(t) = f /\ \A i \in 1..f : t[i] = stack[i]
  <2> HIDE DEF f
  <2>1. f \in Nat /\ f >= 1 /\ \A i \in 1..f : stack[i] \in Frames
    BY <1>1
  <2>2. /\ t \in Seq(Frames)
        /\ Len(t) = IF 1 <= f THEN f - 1 + 1 ELSE 0
        /\ \A i \in 1..(f - 1 + 1) : t[i] = stack[1 + i - 1]
    BY <2>1, SubSeqProperties
  <2> QED BY <2>1, <2>2
<1>3. frame \in Frames /\ frame.kind = stack[f].kind /\ frame.prev = stack[f].prev
      /\ frame.outer = stack[f].outer /\ frame.phase # "ending"
  <2>1. stack[f] \in Frames
    BY <1>1
  <2>2. phase \in {"running", "returned"}
    OBVIOUS
  <2> HIDE DEF f, phase
  <2> QED BY <2>1, <2>2 DEF Frames
<1>4. stack' = [t EXCEPT ![f] = frame] /\ halted' = halted
  <2>1. stack' = [t EXCEPT ![f].guarded = FALSE, ![f].phase = phase] /\ halted' = halted
    BY DEF ProgramExit
  <2>2. t[f] = stack[f] /\ f \in DOMAIN t
    BY <1>1, <1>2
  <2> HIDE DEF t, f, phase
  <2>3. [t EXCEPT ![f].guarded = FALSE, ![f].phase = phase] = [t EXCEPT ![f] = frame]
    BY <2>2
  <2> QED BY <2>1, <2>3
<1> HIDE DEF f, t, frame, phase
<1>5. /\ stack' \in Seq(Frames) /\ Len(stack') = f /\ stack' # <<>>
      /\ stack'[f] = frame /\ \A i \in 1..f : i # f => stack'[i] = t[i]
  BY <1>1, <1>2, <1>3, <1>4
<1>6. Kept(f)
  BY <1>1, <1>2, <1>3, <1>5 DEF Kept
<1>7. RunningPrograms' = RunningPrograms
  <2>1. \A i \in RunningPrograms' : i \in 1..f /\ stack'[i].kind = "program" /\ stack'[i].phase # "ending"
    BY <1>5 DEF RunningPrograms, Positions
  <2>2. \A i \in RunningPrograms : i \in 1..f /\ stack[i].kind = "program" /\ stack[i].phase # "ending"
    BY <1>1 DEF RunningPrograms, Positions
  <2>3. \A i \in 1..f : i \in 1..Len(stack)
    BY <1>1
  <2>4. \A i \in 1..f : stack'[i].kind = stack[i].kind /\
             (stack[i].kind = "program" => (stack'[i].phase = "ending" <=> stack[i].phase = "ending"))
    BY <1>6 DEF Kept
  <2>5. RunningPrograms' \subseteq RunningPrograms
    BY <2>1, <2>3, <2>4 DEF RunningPrograms, Positions
  <2>6. RunningPrograms \subseteq RunningPrograms'
    BY <2>2, <2>4, <1>5 DEF RunningPrograms, Positions
  <2> QED BY <2>5, <2>6
<1>8. Top'.kind = "program" /\ Top'.phase # "ending"
  BY <1>1, <1>3, <1>5 DEF Top
<1> QED BY <1>1, <1>4, <1>5, <1>6, <1>7, <1>8 DEF f

-----------------------------------------------------------------------------
\* The end of a frame keeps what the first program saved.
LEMMA PopSavesHome ==
    ASSUME SessionTypeOK, HomeSaved, EndingOnTop, stack # <<>>, Pop, late' = late, home' = home
    PROVE  HomeSaved'
<1>1. stack \in Seq(Frames) /\ Len(stack) \in Nat /\ Len(stack) >= 1
  BY DEF SessionTypeOK
<1>2. /\ stack' \in Seq(Frames) /\ Len(stack') = Len(stack) - 1
      /\ \A i \in 1..(Len(stack) - 1) : stack'[i] = stack[i]
  BY PopKeeps
<1>3. CASE stack' = <<>>
  BY <1>3 DEF HomeSaved
<1>4. CASE stack' # <<>>
  <2>1. Len(stack) >= 2
    BY <1>1, <1>2, <1>4
  <2>2. 1 \in 1..(Len(stack) - 1)
    BY <1>1, <2>1
  <2>3. stack'[1] = stack[1]
    BY <1>2, <2>2
  <2>4. stack[1].kind = "program" => stack[1].phase # "ending"
    BY <2>2 DEF EndingOnTop
  <2> QED BY <2>3, <2>4 DEF HomeSaved
<1> QED BY <1>3, <1>4

\* The end of a frame uncovers no program that ends.
LEMMA PopKeepsEnding ==
    ASSUME SessionTypeOK, EndingOnTop, stack # <<>>, Pop
    PROVE  EndingOnTop'
<1>1. Len(stack) \in Nat /\ Len(stack) >= 1
  BY DEF SessionTypeOK
<1>2. /\ Len(stack') = Len(stack) - 1
      /\ \A i \in 1..(Len(stack) - 1) : stack'[i] = stack[i]
  BY PopKeeps
<1>3. \A i \in 1..(Len(stack') - 1) : i \in 1..(Len(stack) - 1)
  BY <1>1, <1>2
<1> QED BY <1>2, <1>3 DEF EndingOnTop

\* A frame is pushed only where commands are taken, never above a program that
\* ends.
LEMMA PushKeepsEnding ==
    ASSUME SessionTypeOK, EndingOnTop, TakesCommands, NEW f \in Frames, Push(f)
    PROVE  EndingOnTop'
<1>1. Len(stack) \in Nat /\ (stack # <<>> <=> Len(stack) # 0)
  BY DEF SessionTypeOK
<1>2. Len(stack') = Len(stack) + 1 /\ Kept(Len(stack))
  BY PushKeeps
<1>3. \A i \in 1..Len(stack) : stack[i].kind = "program" => stack[i].phase # "ending"
  <2>1. stack # <<>> => stack[Len(stack)].phase = "running"
    BY DEF TakesCommands, Top
  <2>2. \A i \in 1..Len(stack) : i = Len(stack) \/ i \in 1..(Len(stack) - 1)
    BY <1>1
  <2>3. \A i \in 1..Len(stack) : stack # <<>>
    BY <1>1
  <2> QED BY <2>1, <2>2, <2>3 DEF EndingOnTop
<1>4. \A i \in 1..(Len(stack') - 1) : i \in 1..Len(stack)
  BY <1>1, <1>2
<1> QED BY <1>2, <1>3, <1>4 DEF EndingOnTop, Kept

\* A program that begins is the last context.
LEMMA PushContext ==
    ASSUME SessionTypeOK, ContextsInOrder, Len(stack') = Len(stack) + 1, Kept(Len(stack)),
           stack'[Len(stack) + 1].kind = "program", stack'[Len(stack) + 1].phase = "running",
           active' = Append(active, Len(stack) + 1), suspend' = suspend + 1
    PROVE  ContextsInOrder'
<1> DEFINE n == Len(stack) + 1
           m == Len(active)
<1>1. RunningPrograms' = RunningPrograms \union {n}
  BY OneMorePosition
<1>2. active \in Seq(Nat) /\ m \in Nat /\ n \in Nat
  BY DEF SessionTypeOK
<1>3. Len(active') = m + 1 /\ active'[m + 1] = n /\ \A k \in 1..m : active'[k] = active[k]
  BY <1>2
<1>4. /\ suspend = m
      /\ \A k \in 1..m : active[k] \in RunningPrograms
      /\ \A j, k \in 1..m : j < k => active[j] < active[k]
      /\ \A i \in RunningPrograms : \E k \in 1..m : active[k] = i
  BY DEF ContextsInOrder
<1>5. \A i \in RunningPrograms : i < n
  BY DEF RunningPrograms, Positions, SessionTypeOK
<1>6. suspend' = Len(active')
  BY <1>3, <1>4
<1>7. \A k \in 1..(m + 1) : k \in 1..m \/ k = m + 1
  BY <1>2
<1>8. 1..m \subseteq 1..(m + 1) /\ m + 1 \in 1..(m + 1)
  BY <1>2
<1>9. \A k \in 1..(m + 1) : active'[k] \in RunningPrograms \union {n}
  BY <1>3, <1>4, <1>7
<1>10. ASSUME NEW j \in 1..(m + 1), NEW k \in 1..(m + 1), j < k
       PROVE  active'[j] < active'[k]
  <2>1. j \in 1..m
    BY <1>2, <1>10
  <2>2. CASE k \in 1..m
    BY <1>3, <1>4, <1>10, <2>1, <2>2
  <2>3. CASE k = m + 1
    BY <1>3, <1>4, <1>5, <2>1, <2>3
  <2> QED BY <1>7, <2>2, <2>3
<1>11. \A i \in RunningPrograms \union {n} : \E k \in 1..(m + 1) : active'[k] = i
  <2>1. ASSUME NEW i \in RunningPrograms
        PROVE  \E k \in 1..(m + 1) : active'[k] = i
    BY <1>3, <1>4, <1>8
  <2> QED BY <1>3, <1>8, <2>1
<1> HIDE DEF n, m
<1> QED BY <1>1, <1>3, <1>6, <1>9, <1>10, <1>11 DEF ContextsInOrder

\* The program that ends is the last context, and is taken off.
LEMMA LeaveContext ==
    ASSUME SessionTypeOK, ContextsInOrder, active # <<>>,
           RunningPrograms' = RunningPrograms \ {Last(active)},
           active' = Front(active), suspend' = suspend - 1
    PROVE  ContextsInOrder'
<1> DEFINE m == Len(active)
           l == active[m]
<1>1. active \in Seq(Nat) /\ m \in Nat /\ m >= 1 /\ l \in Nat
  BY DEF SessionTypeOK
<1>2. RunningPrograms' = RunningPrograms \ {l} /\ active' = SubSeq(active, 1, m - 1)
  BY DEF Last, Front
<1>3. Len(active') = m - 1 /\ \A k \in 1..(m - 1) : active'[k] = active[k]
  <2> HIDE DEF l
  <2> DEFINE u == m - 1
  <2>1. u \in Nat /\ \A k \in 1..u : active[k] \in Nat
    BY <1>1
  <2>2. active' = SubSeq(active, 1, u)
    BY <1>2
  <2> HIDE DEF u
  <2>3. /\ Len(active') = IF 1 <= u THEN u - 1 + 1 ELSE 0
        /\ \A i \in 1..(u - 1 + 1) : active'[i] = active[1 + i - 1]
    BY <2>1, <2>2, SubSeqProperties
  <2>4. Len(active') = u /\ \A i \in 1..u : active'[i] = active[i]
    BY <2>1, <2>3
  <2> QED BY <2>4 DEF u
<1>4. /\ suspend = m
      /\ \A k \in 1..m : active[k] \in RunningPrograms
      /\ \A j, k \in 1..m : j < k => active[j] < active[k]
      /\ \A i \in RunningPrograms : \E k \in 1..m : active[k] = i
  BY DEF ContextsInOrder
<1>5. \A k \in 1..(m - 1) : k \in 1..m /\ k < m /\ m \in 1..m
  BY <1>1
<1>6. \A k \in 1..(m - 1) : active[k] \in RunningPrograms \ {l}
  <2>1. \A k \in 1..(m - 1) : active[k] < l /\ active[k] \in Nat
    BY <1>1, <1>4, <1>5
  <2> QED BY <1>1, <1>4, <1>5, <2>1
<1>7. ASSUME NEW i \in RunningPrograms \ {l}
      PROVE  \E k \in 1..(m - 1) : active'[k] = i
  <2>1. PICK k \in 1..m : active[k] = i
    BY <1>4
  <2>2. k # m
    BY <1>7, <2>1
  <2>3. k \in 1..(m - 1)
    BY <1>1, <2>2
  <2> QED BY <1>3, <2>1, <2>3
<1>8. suspend' = Len(active')
  BY <1>3, <1>4
<1> HIDE DEF l, m
<1>9. \A k \in 1..Len(active') : active'[k] \in RunningPrograms'
  BY <1>2, <1>3, <1>6
<1>10. \A j, k \in 1..Len(active') : j < k => active'[j] < active'[k]
  BY <1>3, <1>4, <1>5
<1>11. \A i \in RunningPrograms' : \E k \in 1..Len(active') : active'[k] = i
  BY <1>2, <1>3, <1>7
<1> QED BY <1>8, <1>9, <1>10, <1>11 DEF ContextsInOrder

-----------------------------------------------------------------------------
\* There are finitely many frames of a kind.
LEMMA PositionsFinite ==
    ASSUME SessionTypeOK, NEW kind
    PROVE  IsFiniteSet(Positions(kind)) /\ Cardinality(Positions(kind)) \in Nat
<1>1. IsFiniteSet(1..Len(stack))
  <2>1. Len(stack) \in Nat
    BY DEF SessionTypeOK
  <2> QED BY <2>1, FS_Interval
<1>2. Positions(kind) \subseteq 1..Len(stack)
  BY DEF Positions
<1> QED BY <1>1, <1>2, FS_Subset, FS_CardinalityType

\* A script that begins is counted.
LEMMA PushCounts ==
    ASSUME SessionTypeOK, DepthKept, NEW f \in Frames, Push(f), late' = late,
           depth' = IF f.kind = "script" THEN depth + 1 ELSE depth
    PROVE  DepthKept' /\ depth' \in Nat
<1> DEFINE S == Positions("script")
<1>1. /\ Positions("script")' = S \union (IF f.kind = "script" THEN {Len(stack) + 1} ELSE {})
      /\ Len(stack) + 1 \notin S
  BY PushKeeps, OneMorePosition
<1>2. IsFiniteSet(S) /\ Cardinality(S) \in Nat /\ depth \in Nat
  BY PositionsFinite DEF SessionTypeOK
<1>3. Cardinality(S) <= depth /\ (~late => depth = Cardinality(S))
  BY DEF DepthKept, ScriptsCounted
<1> HIDE DEF S
<1>4. Cardinality(S \union {Len(stack) + 1}) = Cardinality(S) + 1
  BY <1>1, <1>2, FS_AddElement
<1>5. CASE f.kind = "script"
  <2>1. Cardinality(Positions("script")') = Cardinality(S) + 1
    BY <1>1, <1>4, <1>5
  <2>2. depth' = depth + 1
    BY <1>5
  <2> QED BY <1>2, <1>3, <2>1, <2>2 DEF ScriptsCounted, DepthKept
<1>6. CASE f.kind # "script"
  <2>1. Positions("script")' = S
    BY <1>1, <1>6
  <2>2. depth' = depth
    BY <1>6
  <2> QED BY <1>2, <1>3, <2>1, <2>2 DEF ScriptsCounted, DepthKept
<1> QED BY <1>5, <1>6

\* A script that ends is counted off: the count was above zero.
LEMMA PopCounts ==
    ASSUME SessionTypeOK, DepthKept, stack # <<>>, Pop, late' = late,
           depth' = IF Top.kind = "script" THEN depth - 1 ELSE depth
    PROVE  DepthKept' /\ depth' \in Nat
<1> DEFINE S == Positions("script")
           n == Len(stack)
<1>1. Positions("script")' = S \ {n} /\ (n \in S <=> Top.kind = "script")
  BY PopKeeps, OneLessPosition
<1>2. IsFiniteSet(S) /\ Cardinality(S) \in Nat /\ depth \in Nat
  BY PositionsFinite DEF SessionTypeOK
<1>3. Cardinality(S) <= depth /\ (~late => depth = Cardinality(S))
  BY DEF DepthKept, ScriptsCounted
<1> HIDE DEF S, n
<1>4. /\ Cardinality(S \ {n}) = IF n \in S THEN Cardinality(S) - 1 ELSE Cardinality(S)
      /\ Cardinality(S \ {n}) \in Nat
  BY <1>2, FS_RemoveElement, FS_CardinalityType
<1>5. CASE n \in S
  <2>1. Cardinality(Positions("script")') = Cardinality(S) - 1
    BY <1>1, <1>4, <1>5
  <2>2. depth' = depth - 1 /\ Cardinality(S) - 1 \in Nat
    BY <1>1, <1>4, <1>5
  <2> QED BY <1>2, <1>3, <2>1, <2>2 DEF ScriptsCounted, DepthKept
<1>6. CASE n \notin S
  <2>1. Cardinality(Positions("script")') = Cardinality(S)
    BY <1>1, <1>4, <1>6
  <2>2. depth' = depth
    BY <1>1, <1>6
  <2> QED BY <1>2, <1>3, <2>1, <2>2 DEF ScriptsCounted, DepthKept
<1> QED BY <1>5, <1>6

\* What a new frame leaves as it was, whatever it is for.
LEMMA PushHolds ==
    ASSUME SessionInv, TakesCommands, NEW f \in Frames, Push(f),
           f.phase = "running", f.prev = cwd, f.outer = target,
           f.kind = "capture" => stack # <<>>,
           target' = (IF f.kind = "capture" THEN Len(stack) + 1 ELSE target),
           depth' = (IF f.kind = "script" THEN depth + 1 ELSE depth),
           late' = late, halted' = halted
    PROVE  /\ stack' \in Seq(Frames) /\ home' \in Dirs /\ target' \in Nat /\ depth' \in Nat
           /\ OutputSaved' /\ HomeSaved' /\ EndingOnTop' /\ ExitFindsProgram'
           /\ DepthKept'
<1>1. SessionTypeOK /\ HomeSaved /\ OutputSaved /\ EndingOnTop /\ ExitFindsProgram
      /\ DepthKept
  BY DEF SessionInv
<1>2. stack' \in Seq(Frames)
  BY <1>1, PushKeeps
<1>3. target' \in Nat /\ depth' \in Nat
  BY <1>1 DEF SessionTypeOK
<1>4. HomeSaved' /\ home' \in Dirs
  BY <1>1, PushSavesHome
<1>5. OutputSaved'
  BY <1>1, PushSavesOutput
<1>6. EndingOnTop'
  BY <1>1, PushKeepsEnding
<1>7. DepthKept'
  BY <1>1, PushCounts
<1>8. ExitFindsProgram'
  BY <1>1 DEF ExitFindsProgram
<1> QED BY <1>2, <1>3, <1>4, <1>5, <1>6, <1>7, <1>8

\* The frame that the start of a kind pushes.
LEMMA FrameType ==
    ASSUME SessionTypeOK, NEW kind \in {"program", "script", "open", "capture"}
    PROVE  /\ Frame(kind) \in Frames
           /\ Frame(kind).kind = kind /\ Frame(kind).prev = cwd /\ Frame(kind).outer = target
           /\ Frame(kind).phase = "running"
BY DEF SessionTypeOK, Frame, Frames

\* Programs, scripts, open and captures begin.
LEMMA StartHolds ==
    ASSUME SessionInv, NEW d \in Dirs,
           StartProgram(d) \/ StartScript(d) \/ StartOpen(d) \/ StartCapture
    PROVE  SessionInv'
<1>1. SessionTypeOK /\ ContextsInOrder /\ CloseIsRecent
  BY DEF SessionInv
<1>2. CASE StartProgram(d)
  <2> DEFINE f == Frame("program")
  <2>1. /\ f \in Frames /\ f.kind = "program" /\ f.prev = cwd /\ f.outer = target
        /\ f.phase = "running"
    BY <1>1, FrameType
  <2>2. /\ TakesCommands /\ Push(f) /\ d \in dirs /\ cwd' = d
        /\ active' = Append(active, Len(stack) + 1) /\ closing' = FALSE /\ asked' = {}
        /\ suspend' = suspend + 1
        /\ UNCHANGED <<dirs, depth, target, halted, late>>
    BY <1>2 DEF StartProgram
  <2> HIDE DEF f
  <2>3. /\ stack' \in Seq(Frames) /\ home' \in Dirs /\ target' \in Nat /\ depth' \in Nat
        /\ OutputSaved' /\ HomeSaved' /\ EndingOnTop' /\ ExitFindsProgram'
        /\ DepthKept'
    BY <2>1, <2>2, PushHolds
  <2>4. ContextsInOrder'
    <3>1. Len(stack') = Len(stack) + 1 /\ Kept(Len(stack)) /\ stack'[Len(stack) + 1] = f
      BY <1>1, <2>1, <2>2, PushKeeps
    <3> QED BY <1>1, <2>1, <2>2, <3>1, PushContext
  <2>5. SessionTypeOK'
    <3>1. active' \in Seq(Nat) /\ suspend' \in Nat
      BY <1>1, <2>2 DEF SessionTypeOK
    <3> QED BY <1>1, <2>2, <2>3, <3>1 DEF SessionTypeOK
  <2>6. CloseIsRecent'
    BY <2>2 DEF CloseIsRecent
  <2> QED BY <2>3, <2>4, <2>5, <2>6 DEF SessionInv
<1>3. ASSUME NEW kind \in {"script", "open", "capture"}, NEW e \in Dirs,
             TakesCommands, Push(Frame(kind)), cwd' = e,
             target' = (IF kind = "capture" THEN Len(stack) + 1 ELSE target),
             depth' = (IF kind = "script" THEN depth + 1 ELSE depth),
             kind = "capture" => stack # <<>>,
             UNCHANGED <<active, dirs, suspend, close, halted, late>>
      PROVE  SessionInv'
  <2> DEFINE f == Frame(kind)
  <2>1. /\ f \in Frames /\ f.kind = kind /\ f.prev = cwd /\ f.outer = target
        /\ f.phase = "running"
    BY <1>1, FrameType
  <2>2. Push(f)
    BY <1>3
  <2> HIDE DEF f
  <2>3. /\ stack' \in Seq(Frames) /\ home' \in Dirs /\ target' \in Nat /\ depth' \in Nat
        /\ OutputSaved' /\ HomeSaved' /\ EndingOnTop' /\ ExitFindsProgram'
        /\ DepthKept'
    BY <1>3, <2>1, <2>2, PushHolds
  <2>4. ContextsInOrder'
    <3>1. Len(stack') = Len(stack) + 1 /\ Kept(Len(stack)) /\ stack'[Len(stack) + 1] = f
      BY <1>1, <2>1, <2>2, PushKeeps
    <3>2. RunningPrograms' = RunningPrograms
      BY <1>1, <1>3, <2>1, <3>1, OneMorePosition
    <3> QED BY <1>1, <1>3, <3>2 DEF ContextsInOrder
  <2>5. SessionTypeOK'
    BY <1>1, <1>3, <2>3 DEF SessionTypeOK, close
  <2>6. CloseIsRecent'
    <3>1. Len(stack') = Len(stack) + 1 /\ Kept(Len(stack)) /\ stack'[Len(stack) + 1] = f
      BY <1>1, <2>1, <2>2, PushKeeps
    <3>2. RunningPrograms' = RunningPrograms
      BY <1>1, <1>3, <2>1, <3>1, OneMorePosition
    <3> QED BY <1>1, <1>3, <3>2 DEF CloseIsRecent, close
  <2> QED BY <2>3, <2>4, <2>5, <2>6 DEF SessionInv
<1>4. CASE StartScript(d)
  BY <1>3, <1>4 DEF StartScript
<1>5. CASE StartOpen(d)
  BY <1>3, <1>5 DEF StartOpen
<1>6. CASE StartCapture
  <2>1. cwd' = cwd /\ cwd \in Dirs
    BY <1>1, <1>6 DEF StartCapture, SessionTypeOK
  <2>2. TakesCommands /\ stack # <<>>
    BY <1>6 DEF StartCapture, InProgram, TopIs, TakesCommands
  <2> QED BY <1>3, <1>6, <2>1, <2>2 DEF StartCapture
<1> QED BY <1>2, <1>4, <1>5, <1>6

\* The directory a frame returns to.
LEMMA EnterableType ==
    ASSUME SessionTypeOK, stack # <<>>
    PROVE  Top.prev \in Dirs /\ Top.outer \in Nat /\ Enterable(Top.prev, cwd) \in Dirs
<1>1. stack[Len(stack)] \in Frames
  <2>1. stack \in Seq(Frames) /\ Len(stack) \in 1..Len(stack)
    BY DEF SessionTypeOK
  <2> QED BY <2>1
<1> QED BY <1>1 DEF SessionTypeOK, Frames, Top, Enterable

\* Scripts, open and captures end, and a program closes its state.
LEMMA EndHolds ==
    ASSUME SessionInv, EndScript \/ EndOpen \/ EndCapture \/ CloseProgram
    PROVE  SessionInv'
<1>1. /\ SessionTypeOK /\ ContextsInOrder /\ CloseIsRecent /\ HomeSaved /\ OutputSaved
      /\ EndingOnTop /\ ExitFindsProgram /\ DepthKept
  BY DEF SessionInv
<1>2. /\ stack # <<>> /\ Pop
      /\ UNCHANGED <<active, dirs, suspend, close, halted, late, home>>
      /\ cwd' = cwd \/ cwd' = Enterable(Top.prev, cwd)
      /\ target' = (IF Top.kind = "capture" THEN Top.outer ELSE target)
      /\ depth' = (IF Top.kind = "script" THEN depth - 1 ELSE depth)
      /\ Top.kind = "program" => Top.phase = "ending"
  BY DEF EndScript, EndOpen, EndCapture, CloseProgram, TopIs, files
<1>3. /\ stack' \in Seq(Frames) /\ Len(stack') = Len(stack) - 1 /\ Kept(Len(stack) - 1)
  BY <1>1, <1>2, PopKeeps
<1>4. RunningPrograms' = RunningPrograms
  <2>1. RunningPrograms' = RunningPrograms \ {Len(stack)}
    BY <1>1, <1>2, <1>3, OneLessPosition
  <2>2. Len(stack) \notin RunningPrograms
    BY <1>2 DEF RunningPrograms, Positions, Top
  <2> QED BY <2>1, <2>2
<1>5. ContextsInOrder'
  BY <1>1, <1>2, <1>4 DEF ContextsInOrder
<1>6. OutputSaved' /\ HomeSaved' /\ EndingOnTop'
  BY <1>1, <1>2, PopRestoresOutput, PopSavesHome, PopKeepsEnding
<1>7. DepthKept'
  BY <1>1, <1>2, PopCounts
<1>8. SessionTypeOK'
  <2>1. cwd' \in Dirs /\ target' \in Nat
    BY <1>1, <1>2, EnterableType DEF SessionTypeOK
  <2>2. depth' \in Nat
    BY <1>1, <1>2, PopCounts DEF SessionTypeOK
  <2> QED BY <1>1, <1>2, <1>3, <2>1, <2>2 DEF SessionTypeOK, close
<1>9. CloseIsRecent' /\ ExitFindsProgram'
  BY <1>1, <1>2, <1>4 DEF CloseIsRecent, ExitFindsProgram, close
<1> QED BY <1>5, <1>6, <1>7, <1>8, <1>9 DEF SessionInv

\* The count of scripts does not change.
LEMMA SameCounts ==
    ASSUME DepthKept, Positions("script")' = Positions("script"), late' = late, depth' = depth
    PROVE  DepthKept'
BY DEF DepthKept, ScriptsCounted

\* A step that keeps the frames' kinds, what they saved, and their side of the
\* end.
LEMMA ShapeHolds ==
    ASSUME SessionInv,
           stack' \in Seq(Frames), Len(stack') = Len(stack), stack' # <<>>, Kept(Len(stack)),
           UNCHANGED <<active, files, depth, suspend, target, halted, late>>,
           closing' \in BOOLEAN, asked' \in SUBSET Nat, closing' => asked' = RunningPrograms
    PROVE  SessionInv'
<1>1. /\ SessionTypeOK /\ ContextsInOrder /\ HomeSaved /\ OutputSaved
      /\ EndingOnTop /\ ExitFindsProgram /\ DepthKept
  BY DEF SessionInv
<1>2. stack' \in Seq(Frames) /\ Len(stack') = Len(stack) /\ stack' # <<>> /\ Kept(Len(stack))
  OBVIOUS
<1>3. ContextsInOrder'
  <2>1. RunningPrograms' = RunningPrograms
    BY <1>1, <1>2, SamePositions
  <2> QED BY <1>1, <2>1 DEF ContextsInOrder
<1>4. OutputSaved'
  BY <1>1, <1>2, SameOutput
<1>5. DepthKept'
  <2>1. Positions("script")' = Positions("script")
    BY <1>1, <1>2, SamePositions
  <2> QED BY <1>1, <2>1, SameCounts
<1>6. HomeSaved'
  <2>1. 1 \in 1..Len(stack) /\ stack # <<>>
    BY <1>1, <1>2 DEF SessionTypeOK
  <2>2. /\ stack'[1].kind = stack[1].kind /\ stack'[1].prev = stack[1].prev
        /\ stack[1].kind = "program" => (stack'[1].phase = "ending" <=> stack[1].phase = "ending")
    BY <1>2, <2>1 DEF Kept
  <2> QED BY <1>1, <1>2, <2>1, <2>2 DEF HomeSaved, files
<1>7. EndingOnTop'
  <2>1. \A j \in 1..(Len(stack) - 1) : j \in 1..Len(stack)
    BY <1>1 DEF SessionTypeOK
  <2> QED BY <1>1, <1>2, <2>1 DEF EndingOnTop, Kept
<1>8. SessionTypeOK' /\ ExitFindsProgram'
  BY <1>1, <1>2 DEF SessionTypeOK, ExitFindsProgram, files
<1>9. CloseIsRecent'
  <2>1. RunningPrograms' = RunningPrograms
    BY <1>1, <1>2, SamePositions
  <2> QED BY <2>1 DEF CloseIsRecent
<1> QED BY <1>3, <1>4, <1>5, <1>6, <1>7, <1>8, <1>9 DEF SessionInv

\* A frame is marked: a pcall begins or ends, main returns.
LEMMA MarkHolds ==
    ASSUME SessionInv, NEW i, NEW frame, Marked(i, frame),
           frame.phase = "ending" <=> stack[i].phase = "ending",
           UNCHANGED <<active, files, depth, suspend, target, halted, late>>,
           closing' \in BOOLEAN, asked' \in SUBSET Nat, closing' => asked' = RunningPrograms
    PROVE  SessionInv'
<1>1. SessionTypeOK
  BY DEF SessionInv
<1>2. stack' \in Seq(Frames) /\ Len(stack') = Len(stack) /\ stack' # <<>> /\ Kept(Len(stack))
  BY <1>1, MarkKeeps
<1> QED BY <1>2, ShapeHolds

\* The steps that mark a frame.
LEMMA PcallHolds ==
    ASSUME SessionInv, EnterPcall \/ LeavePcall \/ ReturnFromMain
    PROVE  SessionInv'
<1>1. SessionTypeOK /\ CloseIsRecent
  BY DEF SessionInv
<1>2. /\ stack # <<>> /\ Top.phase = "running"
      /\ UNCHANGED <<active, files, depth, suspend, target, close, halted, late>>
  BY DEF EnterPcall, LeavePcall, ReturnFromMain, InProgram, TopIs
<1>3. Len(stack) \in 1..Len(stack) /\ stack[Len(stack)] \in Frames
  BY <1>1, <1>2 DEF SessionTypeOK
<1>4. \E frame \in Frames : /\ Marked(Len(stack), frame)
                             /\ frame.phase # "ending"
  <2>1. CASE EnterPcall
    <3> DEFINE frame == [stack[Len(stack)] EXCEPT !.guarded = TRUE]
    <3>1. frame \in Frames /\ frame.phase # "ending" /\ frame.kind = stack[Len(stack)].kind
          /\ frame.prev = stack[Len(stack)].prev /\ frame.outer = stack[Len(stack)].outer
      BY <1>2, <1>3 DEF Frames, Top
    <3>2. stack' = [stack EXCEPT ![Len(stack)] = frame]
      BY <2>1 DEF EnterPcall
    <3> QED BY <1>3, <3>1, <3>2 DEF Marked
  <2>2. CASE LeavePcall
    <3> DEFINE frame == [stack[Len(stack)] EXCEPT !.guarded = FALSE]
    <3>1. frame \in Frames /\ frame.phase # "ending" /\ frame.kind = stack[Len(stack)].kind
          /\ frame.prev = stack[Len(stack)].prev /\ frame.outer = stack[Len(stack)].outer
      BY <1>2, <1>3 DEF Frames, Top
    <3>2. stack' = [stack EXCEPT ![Len(stack)] = frame]
      BY <2>2 DEF LeavePcall
    <3> QED BY <1>3, <3>1, <3>2 DEF Marked
  <2>3. CASE ReturnFromMain
    <3> DEFINE frame == [stack[Len(stack)] EXCEPT !.phase = "returned"]
    <3>1. frame \in Frames /\ frame.phase # "ending" /\ frame.kind = stack[Len(stack)].kind
          /\ frame.prev = stack[Len(stack)].prev /\ frame.outer = stack[Len(stack)].outer
      BY <1>2, <1>3 DEF Frames, Top
    <3>2. stack' = [stack EXCEPT ![Len(stack)] = frame]
      BY <2>3 DEF ReturnFromMain
    <3> QED BY <1>3, <3>1, <3>2 DEF Marked
  <2> QED BY <2>1, <2>2, <2>3
<1>5. PICK frame \in Frames : Marked(Len(stack), frame) /\ frame.phase # "ending"
  BY <1>4
<1>6. stack[Len(stack)].phase # "ending"
  BY <1>2 DEF Top
<1>7. closing' \in BOOLEAN /\ asked' \in SUBSET Nat /\ (closing' => asked' = RunningPrograms)
  BY <1>1, <1>2 DEF SessionTypeOK, CloseIsRecent, close
<1> QED BY <1>2, <1>5, <1>6, <1>7, MarkHolds

\* exit() of the program on top, also from the hook of a close request.
LEMMA ExitHolds ==
    ASSUME SessionInv, Exit \/ CloseHook
    PROVE  SessionInv'
<1>1. SessionTypeOK /\ ContextsInOrder /\ CloseIsRecent
  BY DEF SessionInv
<1>2. /\ stack # <<>> /\ Top.kind = "program" /\ Top.phase = "running"
      /\ ProgramExit /\ late' = late
      /\ (closing' = closing /\ asked' = asked) \/ (closing' = FALSE /\ asked' = {})
  BY DEF Exit, CloseHook, InProgram, TopIs, close
<1>3. active # <<>> /\ Last(active) = Len(stack)
  BY <1>1, <1>2, TopIsLastContext
<1>4. /\ stack' \in Seq(Frames) /\ Len(stack') = Len(stack) /\ stack' # <<>>
      /\ Kept(Len(stack)) /\ halted' = halted
  BY <1>1, <1>2, <1>3, ExitKeeps
<1>5. UNCHANGED <<active, files, depth, suspend, target>>
  BY <1>2 DEF ProgramExit
<1>6. closing' \in BOOLEAN /\ asked' \in SUBSET Nat /\ (closing' => asked' = RunningPrograms)
  <2>1. CASE closing' = closing /\ asked' = asked
    BY <1>1, <2>1 DEF SessionTypeOK, CloseIsRecent
  <2>2. CASE closing' = FALSE /\ asked' = {}
    BY <2>2
  <2> QED BY <1>2, <2>1, <2>2
<1> QED BY <1>2, <1>4, <1>5, <1>6, ShapeHolds

\* exit() in a finalizer, which unwinds to a program below the one that ends.
LEMMA FinalizerExitHolds ==
    ASSUME SessionInv, FinalizerExit
    PROVE  SessionInv'
<1>1. SessionTypeOK /\ ContextsInOrder /\ CloseIsRecent /\ EndingOnTop /\ DepthKept
  BY DEF SessionInv
<1>2. /\ ProgramExit /\ late' = TRUE /\ closing' = closing /\ asked' = asked
      /\ UNCHANGED <<active, files, depth, suspend, target>>
  BY DEF FinalizerExit, ProgramExit, close
<1>3. /\ stack' \in Seq(Frames) /\ halted' \in BOOLEAN
      /\ RunningPrograms' = RunningPrograms /\ EndingOnTop'
      /\ Positions("script")' \subseteq Positions("script")
  <2>1. CASE active = <<>>
    <3>1. stack' = stack /\ halted' = TRUE
      BY <1>2, <2>1 DEF ProgramExit
    <3> QED BY <1>1, <3>1 DEF SessionTypeOK, RunningPrograms, Positions, EndingOnTop
  <2>2. CASE active # <<>>
    <3> DEFINE f == Last(active)
    <3>1. /\ stack' \in Seq(Frames) /\ Len(stack') = f /\ Kept(f) /\ f \in 1..Len(stack)
          /\ RunningPrograms' = RunningPrograms /\ halted' = halted
      BY <1>1, <1>2, <2>2, ExitKeeps
    <3> HIDE DEF f
    <3>2. Len(stack) \in Nat /\ f \in Nat /\ halted \in BOOLEAN
      BY <1>1, <3>1 DEF SessionTypeOK
    <3>3. \A i \in 1..f : i \in 1..Len(stack) /\ stack'[i].kind = stack[i].kind
      BY <3>1, <3>2 DEF Kept
    <3>4. \A i \in 1..(f - 1) : i \in 1..(Len(stack) - 1) /\ i \in 1..f
      BY <3>1, <3>2
    <3>5. EndingOnTop'
      BY <1>1, <3>1, <3>4 DEF EndingOnTop, Kept
    <3>6. Positions("script")' \subseteq Positions("script")
      BY <3>1, <3>3 DEF Positions
    <3> QED BY <3>1, <3>2, <3>5, <3>6
  <2> QED BY <2>1, <2>2
<1>4. ContextsInOrder'
  BY <1>1, <1>2, <1>3 DEF ContextsInOrder
<1>5. DepthKept'
  <2>1. IsFiniteSet(Positions("script")) /\ Cardinality(Positions("script")) \in Nat
    BY <1>1, PositionsFinite
  <2>2. /\ IsFiniteSet(Positions("script")')
        /\ Cardinality(Positions("script")') <= Cardinality(Positions("script"))
    BY <1>3, <2>1, FS_Subset
  <2>3. Cardinality(Positions("script")') \in Nat
    BY <2>2, FS_CardinalityType
  <2> QED BY <1>1, <1>2, <2>1, <2>2, <2>3 DEF DepthKept, SessionTypeOK
<1>6. SessionTypeOK'
  BY <1>1, <1>2, <1>3 DEF SessionTypeOK, files
<1>7. OutputSaved' /\ HomeSaved' /\ ExitFindsProgram' /\ CloseIsRecent'
  BY <1>1, <1>2, <1>3 DEF OutputSaved, HomeSaved, ExitFindsProgram, CloseIsRecent
<1> QED BY <1>3, <1>4, <1>5, <1>6, <1>7 DEF SessionInv

\* A program has ended: its context, its target and its directory are
\* restored.
LEMMA LeaveHolds ==
    ASSUME SessionInv, LeaveProgram
    PROVE  SessionInv'
<1> DEFINE n == Len(stack)
           frame == [stack[n] EXCEPT !.phase = "ending"]
<1>1. /\ SessionTypeOK /\ ContextsInOrder /\ CloseIsRecent /\ HomeSaved /\ OutputSaved
      /\ EndingOnTop /\ ExitFindsProgram /\ DepthKept
  BY DEF SessionInv
<1>2. /\ stack # <<>> /\ Top.kind = "program" /\ Top.phase = "returned"
      /\ stack' = [stack EXCEPT ![n].phase = "ending"]
      /\ cwd' = Enterable(Top.prev, cwd)
      /\ suspend' = (IF suspend > 0 THEN suspend - 1 ELSE 0)
      /\ active' = (IF active # <<>> /\ Last(active) = n THEN Front(active) ELSE active)
      /\ asked' = asked \ {n}
      /\ UNCHANGED <<dirs, depth, target, closing, halted, home, late>>
  BY DEF LeaveProgram, TopIs
<1>3. n \in Nat /\ n >= 1 /\ n \in 1..n /\ stack[n] \in Frames
  BY <1>1, <1>2 DEF SessionTypeOK
<1>4. active # <<>> /\ Last(active) = n
  BY <1>1, <1>2, TopIsLastContext
<1>5. Marked(n, frame) /\ frame.phase = "ending"
  <2>1. /\ frame \in Frames /\ frame.kind = stack[n].kind /\ frame.prev = stack[n].prev
        /\ frame.outer = stack[n].outer /\ frame.phase = "ending"
    BY <1>3 DEF Frames
  <2>2. stack' = [stack EXCEPT ![n] = frame]
    BY <1>2
  <2> QED BY <1>3, <2>1, <2>2 DEF Marked
<1> HIDE DEF frame
<1>6. /\ stack' \in Seq(Frames) /\ Len(stack') = n /\ stack' # <<>>
      /\ stack'[n] = frame /\ \A i \in 1..n : i # n => stack'[i] = stack[i]
  BY <1>1, <1>5, MarkKeeps
<1>7. \A i \in 1..n : stack'[i].kind = stack[i].kind /\ stack'[i].outer = stack[i].outer
                    /\ stack'[i].prev = stack[i].prev
  <2>1. frame.kind = stack[n].kind /\ frame.outer = stack[n].outer /\ frame.prev = stack[n].prev
    BY <1>5 DEF Marked
  <2> QED BY <1>6, <2>1
<1>8. \A kind \in {"script", "capture", "program"} : Positions(kind)' = Positions(kind)
  BY <1>6, <1>7 DEF Positions
<1>9. RunningPrograms' = RunningPrograms \ {n}
  <2>1. \A i \in Positions("program") : i \in 1..n
    BY DEF Positions
  <2>2. Positions("program")' = Positions("program")
    BY <1>8
  <2> QED BY <1>5, <1>6, <2>1, <2>2 DEF RunningPrograms
<1>10. active' = Front(active) /\ suspend' = suspend - 1 /\ suspend' \in Nat
  <2>1. suspend = Len(active) /\ Len(active) \in Nat /\ Len(active) > 0
    BY <1>1, <1>4 DEF ContextsInOrder, SessionTypeOK
  <2> QED BY <1>2, <1>4, <2>1
<1>11. ContextsInOrder'
  BY <1>1, <1>4, <1>9, <1>10, LeaveContext
<1>12. OutputSaved'
  <2>1. Positions("capture")' = Positions("capture")
    BY <1>8
  <2>2. \A i \in Positions("capture") : stack'[i].outer = stack[i].outer
    BY <1>7 DEF Positions
  <2>3. \A i \in Positions("capture") : Earlier(i)' = Earlier(i)
    BY <2>1 DEF Earlier
  <2>4. ~late => OutputOwned'
    BY <1>1, <1>2, <2>1 DEF OutputSaved, OutputOwned, Newest
  <2>5. ASSUME ~late, NEW i \in Positions("capture")
        PROVE  stack'[i].outer = Newest(Earlier(i))'
    <3>1. stack[i].outer = Newest(Earlier(i))
      BY <1>1, <2>5 DEF OutputSaved
    <3>2. Newest(Earlier(i))' = Newest(Earlier(i))
      BY <2>3 DEF Newest
    <3> QED BY <2>2, <3>1, <3>2
  <2> QED BY <1>2, <2>1, <2>4, <2>5 DEF OutputSaved
<1>13. DepthKept'
  <2>1. Positions("script")' = Positions("script")
    BY <1>8
  <2> QED BY <1>1, <1>2, <2>1, SameCounts
<1>14. HomeSaved'
  <2>1. 1 \in 1..n
    BY <1>3
  <2>2. n = 1 => Top.prev = stack[1].prev
    BY DEF Top
  <2> QED BY <1>1, <1>2, <1>6, <1>7, <2>1, <2>2 DEF HomeSaved, Enterable
<1>15. EndingOnTop'
  <2>1. \A i \in 1..(n - 1) : i \in 1..n /\ i # n
    BY <1>3
  <2> QED BY <1>1, <1>6, <2>1 DEF EndingOnTop
<1>16. active' \in Seq(Nat) /\ Len(active') <= Len(active)
  <2> DEFINE m == Len(active) - 1
  <2>1. m \in Nat /\ \A k \in 1..m : active[k] \in Nat
    BY <1>1, <1>4 DEF SessionTypeOK
  <2>2. active' = SubSeq(active, 1, m)
    BY <1>10 DEF Front
  <2>3. Len(active) = m + 1
    BY <1>1 DEF SessionTypeOK
  <2> HIDE DEF m
  <2>4. active' \in Seq(Nat) /\ Len(active') = IF 1 <= m THEN m - 1 + 1 ELSE 0
    BY <2>1, <2>2, SubSeqProperties
  <2> QED BY <2>1, <2>3, <2>4
<1>17. SessionTypeOK'
  <2>1. cwd' \in Dirs
    BY <1>1, <1>2, EnterableType
  <2> QED BY <1>1, <1>2, <1>6, <1>10, <1>16, <2>1 DEF SessionTypeOK
<1>18. ExitFindsProgram' /\ CloseIsRecent'
  BY <1>1, <1>2, <1>9 DEF ExitFindsProgram, CloseIsRecent
<1> QED BY <1>11, <1>12, <1>13, <1>14, <1>15, <1>17, <1>18 DEF SessionInv

\* Directories change or disappear, or the user asks for a close.
LEMMA QuietHolds ==
    ASSUME SessionInv, NEW d \in Dirs,
           \/ ChangeDirectory(d) \/ RemoveDirectory(d) \/ FinalizerChangeDirectory(d)
           \/ PressAltF4
    PROVE  SessionInv'
<1>1. /\ SessionTypeOK /\ ContextsInOrder /\ CloseIsRecent /\ HomeSaved /\ OutputSaved
      /\ EndingOnTop /\ ExitFindsProgram /\ DepthKept
  BY DEF SessionInv
<1>2. /\ UNCHANGED <<stack, active, depth, suspend, target, halted, home>>
      /\ cwd' \in {cwd, d} /\ dirs' \in SUBSET dirs
      /\ late' = late \/ late' = TRUE
      /\ \/ closing' = closing /\ asked' = asked
         \/ closing' = TRUE /\ asked' = RunningPrograms
  BY DEF ChangeDirectory, RemoveDirectory, FinalizerChangeDirectory, PressAltF4, close, files
<1>3. SessionTypeOK'
  <2>1. RunningPrograms \subseteq Nat
    BY DEF RunningPrograms, Positions
  <2>2. closing' \in BOOLEAN /\ asked' \in SUBSET Nat /\ late' \in BOOLEAN
    BY <1>1, <1>2, <2>1 DEF SessionTypeOK
  <2> QED BY <1>1, <1>2, <2>2 DEF SessionTypeOK
<1>4. ContextsInOrder' /\ EndingOnTop'
  BY <1>1, <1>2 DEF ContextsInOrder, RunningPrograms, Positions, EndingOnTop
<1>5. DepthKept'
  <2>1. Positions("script")' = Positions("script")
    BY <1>2 DEF Positions
  <2> QED BY <1>1, <1>2, <2>1 DEF DepthKept, ScriptsCounted
<1>6. OutputSaved'
  <2>1. CASE late' = late
    <3>1. /\ stack' \in Seq(Frames) /\ Len(stack') = Len(stack) /\ Kept(Len(stack))
      BY <1>1, <1>2 DEF Kept, SessionTypeOK
    <3> QED BY <1>1, <1>2, <2>1, <3>1, SameOutput
  <2>2. CASE late' = TRUE
    BY <2>2 DEF OutputSaved
  <2> QED BY <1>2, <2>1, <2>2
<1>7. ExitFindsProgram'
  <2>1. CASE late' = late
    BY <1>1, <1>2, <2>1 DEF ExitFindsProgram
  <2>2. CASE late' = TRUE
    BY <2>2 DEF ExitFindsProgram
  <2> QED BY <1>2, <2>1, <2>2
<1>8. CloseIsRecent'
  <2>1. RunningPrograms' = RunningPrograms
    BY <1>2 DEF RunningPrograms, Positions
  <2> QED BY <1>1, <1>2, <2>1 DEF CloseIsRecent
<1>9. HomeSaved'
  <2>1. CASE cwd' = cwd /\ dirs' = dirs
    BY <1>1, <1>2, <2>1 DEF HomeSaved
  <2>2. CASE FinalizerChangeDirectory(d)
    BY <2>2 DEF FinalizerChangeDirectory, HomeSaved
  <2>3. CASE ChangeDirectory(d) \/ RemoveDirectory(d)
    <3>1. stack # <<>> /\ Len(stack) = 1 => stack[1].phase = "running"
      BY <2>3 DEF ChangeDirectory, RemoveDirectory, TakesCommands, Top
    <3> QED BY <1>1, <1>2, <2>3, <3>1 DEF HomeSaved, ChangeDirectory, RemoveDirectory
  <2>4. PressAltF4 => cwd' = cwd /\ dirs' = dirs
    BY DEF PressAltF4, files
  <2> QED BY <2>1, <2>2, <2>3, <2>4
<1> QED BY <1>3, <1>4, <1>5, <1>6, <1>7, <1>8, <1>9 DEF SessionInv

\* The shell at its first prompt.
LEMMA SessionInitHolds == SessionInit => SessionInv
<1> SUFFICES ASSUME SessionInit
             PROVE  SessionInv
  OBVIOUS
<1> USE DEF SessionInit
<1>1. SessionTypeOK
  <2>1. Root \in Dirs
    BY SessionConstants
  <2>2. stack \in Seq(Frames) /\ active \in Seq(Nat)
    BY EmptySeq
  <2>3. /\ cwd \in Dirs /\ dirs \in SUBSET Dirs /\ home \in Dirs
        /\ depth \in Nat /\ suspend \in Nat /\ target \in Nat /\ asked \in SUBSET Nat
        /\ closing \in BOOLEAN /\ halted \in BOOLEAN /\ late \in BOOLEAN
    BY <2>1
  <2> QED BY <2>2, <2>3 DEF SessionTypeOK
<1>2. Positions("program") = {} /\ Positions("script") = {} /\ Positions("capture") = {}
  BY DEF Positions
<1>3. ContextsInOrder
  BY <1>2 DEF ContextsInOrder, RunningPrograms
<1>4. DepthKept
  <2>1. Cardinality(Positions("script")) = 0
    BY <1>2, FS_EmptySet
  <2> QED BY <2>1 DEF DepthKept, ScriptsCounted
<1>5. OutputSaved
  BY <1>2 DEF OutputSaved, OutputOwned, Newest
<1>6. ExitFindsProgram /\ HomeSaved /\ CloseIsRecent
  BY DEF ExitFindsProgram, HomeSaved, CloseIsRecent
<1>7. EndingOnTop
  BY DEF EndingOnTop
<1> QED BY <1>1, <1>3, <1>4, <1>5, <1>6, <1>7 DEF SessionInv

\* Every step keeps the invariant.
LEMMA SessionStepHolds == SessionInv /\ [SessionNext]_sessionVars => SessionInv'
<1> SUFFICES ASSUME SessionInv, [SessionNext]_sessionVars
             PROVE  SessionInv'
  OBVIOUS
<1>1. CASE UNCHANGED sessionVars
  <2>1. /\ SessionTypeOK' <=> SessionTypeOK
        /\ ContextsInOrder' <=> ContextsInOrder
        /\ EndingOnTop' <=> EndingOnTop
    BY <1>1 DEF SessionTypeOK, ContextsInOrder, EndingOnTop, RunningPrograms, Positions, sessionVars
  <2>2. /\ DepthKept' <=> DepthKept
        /\ ExitFindsProgram' <=> ExitFindsProgram
        /\ HomeSaved' <=> HomeSaved
        /\ CloseIsRecent' <=> CloseIsRecent
    BY <1>1 DEF DepthKept, ScriptsCounted, ExitFindsProgram, HomeSaved, CloseIsRecent,
                RunningPrograms, Positions,
             sessionVars
  <2>3. OutputSaved' <=> OutputSaved
    BY <1>1 DEF OutputSaved, OutputOwned, Earlier, Newest, Positions, sessionVars
  <2> QED BY <2>1, <2>2, <2>3 DEF SessionInv
<1>2. CASE \E d \in Dirs : StartProgram(d) \/ StartScript(d) \/ StartOpen(d)
  BY <1>2, StartHolds
<1>3. CASE StartCapture
  <2>1. Root \in Dirs
    BY SessionConstants
  <2> QED BY <1>3, <2>1, StartHolds
<1>4. CASE \E d \in Dirs : ChangeDirectory(d) \/ RemoveDirectory(d) \/ FinalizerChangeDirectory(d)
  BY <1>4, QuietHolds
<1>5. CASE PressAltF4
  <2>1. Root \in Dirs
    BY SessionConstants
  <2> QED BY <1>5, <2>1, QuietHolds
<1>6. CASE EndScript \/ EndOpen \/ EndCapture \/ CloseProgram
  BY <1>6, EndHolds
<1>7. CASE EnterPcall \/ LeavePcall \/ ReturnFromMain
  BY <1>7, PcallHolds
<1>8. CASE Exit \/ CloseHook
  BY <1>8, ExitHolds
<1>9. CASE LeaveProgram
  BY <1>9, LeaveHolds
<1>10. CASE FinalizerExit
  BY <1>10, FinalizerExitHolds
<1> QED BY <1>1, <1>2, <1>3, <1>4, <1>5, <1>6, <1>7, <1>8, <1>9, <1>10 DEF SessionNext

\* The invariant holds in every nesting of programs, scripts, open and
\* captures, with exits, close requests and finalizers.
THEOREM SessionInvariant == SessionSpec => []SessionInv
BY SessionInitHolds, SessionStepHolds, PTL DEF SessionSpec

-----------------------------------------------------------------------------
\* What is suspended and what runs agree in number.
LEMMA ContextsAreCounted ==
    ASSUME SessionTypeOK, ContextsInOrder
    PROVE  ProgramsTracked
<1> DEFINE m == Len(active)
           R == RunningPrograms
<1>1. active \in Seq(Nat) /\ m \in Nat /\ DOMAIN active = 1..m
  BY DEF SessionTypeOK
<1>2. /\ suspend = m
      /\ \A k \in 1..m : active[k] \in R
      /\ \A j, k \in 1..m : j < k => active[j] < active[k]
      /\ \A i \in R : \E k \in 1..m : active[k] = i
  BY DEF ContextsInOrder
<1> HIDE DEF R
<1>3. IsFiniteSet(1..m) /\ Cardinality(1..m) = m
  BY <1>1, FS_Interval
<1>4. ExistsBijection(1..m, R)
  <2> DEFINE b == [k \in 1..m |-> active[k]]
  <2>1. \A j, k \in 1..m : j # k => active[j] # active[k]
    BY <1>1, <1>2
  <2>2. b \in [1..m -> R]
    BY <1>2
  <2>3. \A j, k \in 1..m : b[j] = b[k] => j = k
    BY <2>1
  <2>4. \A i \in R : \E k \in 1..m : b[k] = i
    BY <1>2
  <2> HIDE DEF b
  <2> QED BY <2>2, <2>3, <2>4
         DEF ExistsBijection, Bijection, Injection, Surjection, IsInjective
<1>5. Cardinality(R) = m
  BY <1>3, <1>4, FS_Bijection
<1>6. \A k \in 1..(m - 1) : active[k] < active[k + 1]
  BY <1>1, <1>2
<1> QED BY <1>2, <1>5, <1>6 DEF ProgramsTracked, R

\* The global variables of the runner, the scripts and the console never
\* disagree with the nesting of the programs: contexts, suspensions, script
\* depth and output target all follow the frames, whatever order they unwind
\* in (lua_runner.c, shell_script.c, program_runtime.c, lua_shell_api.c). The
\* output and the depth may be wrong only after a finalizer has called exit(),
\* which the model says with "late".
THEOREM GlobalsAreTracked == SessionSpec => []GlobalsTracked
<1>1. SessionInv => GlobalsTracked
  <2> SUFFICES ASSUME SessionInv
               PROVE  GlobalsTracked
    OBVIOUS
  <2>1. ProgramsTracked
    BY ContextsAreCounted DEF SessionInv
  <2>2. ScriptsAndOutputTracked
    BY DEF SessionInv, DepthKept, OutputSaved, ScriptsAndOutputTracked
  <2> QED BY <2>1, <2>2 DEF GlobalsTracked, SessionInv
<1> QED BY <1>1, SessionInvariant, PTL

\* Whatever a command does, the shell's prompt comes back in the directory it
\* was given in, if that can still be entered (lua_runner.c, shell_script.c).
THEOREM PromptIsKept == SessionSpec => PromptDirectoryKept
<1>1. ASSUME SessionInv, [SessionNext]_sessionVars, stack # <<>>, stack' = <<>>, ~late'
      PROVE  cwd' = home \/ home \notin dirs'
  <2>1. SessionTypeOK /\ HomeSaved /\ ContextsInOrder
    BY <1>1 DEF SessionInv
  <2>2. stack \in Seq(Frames) /\ Len(stack) \in Nat /\ Len(stack) >= 1
    BY <1>1, <2>1 DEF SessionTypeOK
  <2>3. CASE EndScript \/ EndOpen \/ EndCapture \/ CloseProgram
    <3>1. Pop /\ late' = late /\ dirs' = dirs /\ home' = home
      BY <2>3 DEF EndScript, EndOpen, EndCapture, CloseProgram, files
    <3>2. Len(stack) = 1
      <4>1. Len(stack') = Len(stack) - 1 /\ Len(stack') = 0
        BY <1>1, <2>1, <3>1, PopKeeps
      <4> QED BY <2>2, <4>1
    <3>3. /\ Top.prev = home /\ Top.kind # "capture"
          /\ Top.kind = "program" /\ Top.phase = "ending" => cwd = home \/ home \notin dirs
      BY <1>1, <2>1, <3>1, <3>2 DEF HomeSaved, Top
    <3> QED BY <1>1, <2>3, <3>1, <3>3
         DEF EndScript, EndOpen, EndCapture, CloseProgram, TopIs, Enterable, files
  <2>4. CASE \/ \E d \in Dirs : \/ ChangeDirectory(d) \/ RemoveDirectory(d)
                               \/ FinalizerChangeDirectory(d)
             \/ PressAltF4 \/ UNCHANGED sessionVars
    BY <1>1, <2>4 DEF ChangeDirectory, RemoveDirectory, FinalizerChangeDirectory, PressAltF4,
                      sessionVars
  <2>5. CASE \/ \E d \in Dirs : StartProgram(d) \/ StartScript(d) \/ StartOpen(d)
             \/ StartCapture
    <3>1. \E kind \in {"program", "script", "open", "capture"} : Push(Frame(kind))
      BY <2>5 DEF StartProgram, StartScript, StartOpen, StartCapture
    <3> QED BY <1>1, <2>1, <3>1, PushKeeps, FrameType
  <2>6. CASE EnterPcall \/ LeavePcall \/ ReturnFromMain \/ LeaveProgram
    <3>1. DOMAIN stack' = DOMAIN stack
      BY <2>6 DEF EnterPcall, LeavePcall, ReturnFromMain, LeaveProgram
    <3>2. DOMAIN stack = 1..Len(stack) /\ DOMAIN <<>> = {} /\ 1 \in 1..Len(stack)
      BY <2>2
    <3> QED BY <1>1, <3>1, <3>2
  <2>7. CASE Exit \/ CloseHook
    <3>1. /\ Top.kind = "program" /\ Top.phase # "ending" /\ ProgramExit
      BY <2>7 DEF Exit, CloseHook, InProgram, TopIs
    <3>2. active # <<>>
      BY <1>1, <2>1, <3>1, TopIsLastContext
    <3> QED BY <1>1, <2>1, <3>1, <3>2, ExitKeeps
  <2>8. CASE FinalizerExit
    BY <1>1, <2>8 DEF FinalizerExit
  <2> QED BY <1>1, <2>3, <2>4, <2>5, <2>6, <2>7, <2>8 DEF SessionNext
<1>2. SessionInv /\ [SessionNext]_sessionVars =>
         [stack # <<>> /\ stack' = <<>> =>
              cwd' = home \/ home \notin dirs' \/ late']_sessionVars
  BY <1>1
<1> QED BY <1>2, SessionInvariant, PTL DEF PromptDirectoryKept, SessionSpec

\* A close request ends the newest of the programs that ran when it was made
\* and still run, and no other program: none that was started later, and none
\* below (lua_runner.c).
THEOREM CloseIsNotInherited == SessionSpec => CloseNotInherited
<1> DEFINE A == closing /\ ~closing' /\ active' = active
           C == asked # {} /\ OnlyEnds(Newest(asked))
<1>1. ASSUME SessionInv, SessionNext, A PROVE C
  <2>1. SessionTypeOK /\ ContextsInOrder /\ CloseIsRecent
    BY <1>1 DEF SessionInv
  <2>2. CloseHook
    <3>1. ASSUME NEW d \in Dirs, StartProgram(d) PROVE FALSE
      <4>1. active' = Append(active, Len(stack) + 1) /\ active \in Seq(Nat) /\ Len(stack) + 1 \in Nat
        BY <2>1, <3>1 DEF StartProgram, SessionTypeOK
      <4>2. Len(active') = Len(active) + 1 /\ Len(active) \in Nat
        BY <4>1
      <4> QED BY <1>1, <4>2
    <3>2. ~CloseHook => closing' = closing \/ closing' = TRUE \/ \E d \in Dirs : StartProgram(d)
      BY <1>1 DEF SessionNext, ChangeDirectory, RemoveDirectory, StartScript, StartOpen,
                  FinalizerChangeDirectory, StartCapture, EndScript, EndOpen, EndCapture,
                  EnterPcall, LeavePcall, ReturnFromMain, Exit, PressAltF4, LeaveProgram,
                  FinalizerExit, CloseProgram, close
    <3> QED BY <1>1, <3>1, <3>2
  <2>3. /\ stack # <<>> /\ Top.kind = "program" /\ Top.phase = "running" /\ ProgramExit
    BY <2>2 DEF CloseHook, InProgram, TopIs
  <2>4. active # <<>> /\ Last(active) = Len(stack)
    BY <2>1, <2>3, TopIsLastContext
  <2>5. PICK p : p = Len(stack)
    OBVIOUS
  <2>6. /\ p \in Nat /\ p \in RunningPrograms /\ p \in 1..Len(stack)
        /\ \A i \in RunningPrograms : i <= p /\ i \in Nat
    <3>1. \A i \in RunningPrograms : i \in 1..Len(stack)
      BY DEF RunningPrograms, Positions
    <3>2. Len(stack) \in Nat /\ Len(stack) \in 1..Len(stack)
      BY <2>1, <2>3 DEF SessionTypeOK
    <3> QED BY <2>3, <2>5, <3>1, <3>2 DEF RunningPrograms, Positions, Top
  <2>7. asked = RunningPrograms
    BY <1>1, <2>1 DEF CloseIsRecent
  <2>8. Newest(asked) = p
    <3>1. \A i \in asked \union {0} : (\A j \in asked : j <= i) => i = p
      BY <2>6, <2>7
    <3>2. p \in asked \union {0} /\ \A j \in asked : j <= p
      BY <2>6, <2>7
    <3> QED BY <3>1, <3>2 DEF Newest
  <2>9. OnlyEnds(p)
    <3>1. stack \in Seq(Frames) /\ stack[p] \in Frames
      BY <2>1, <2>6 DEF SessionTypeOK
    <3>2. stack' = [SubSeq(stack, 1, p) EXCEPT
                      ![p].guarded = FALSE,
                      ![p].phase = IF stack[p].guarded THEN "running" ELSE "returned"]
      BY <2>3, <2>4, <2>5 DEF ProgramExit
    <3>3. SubSeq(stack, 1, p) = stack
      BY <2>5, <2>6, <3>1
    <3>4. stack' = [stack EXCEPT
                      ![p].guarded = FALSE,
                      ![p].phase = IF stack[p].guarded THEN "running" ELSE "returned"]
      BY <3>2, <3>3
    <3>5. Len(stack') = p /\ \A i \in 1..(p - 1) : stack'[i] = stack[i]
      BY <2>5, <2>6, <3>1, <3>4
    <3>6. stack'[p].phase = IF stack[p].guarded THEN "running" ELSE "returned"
      BY <2>6, <3>1, <3>4 DEF Frames
    <3> QED BY <2>3, <2>5, <3>5, <3>6 DEF OnlyEnds, Top
  <2> QED BY <2>6, <2>7, <2>8, <2>9
<1>2. SessionInv /\ [SessionNext]_sessionVars => [A => C]_sessionVars
  BY <1>1
<1> QED BY <1>2, SessionInvariant, PTL DEF CloseNotInherited, SessionSpec

-----------------------------------------------------------------------------
(* The console. *)
Consoles ==
    [x : 0..(Columns - 1), y : 0..(Rows - 1),
     cells : [0..(Rows - 1) -> [0..(Columns - 1) -> SUBSET Glyphs]],
     bars : SUBSET Places, drawn : SUBSET Places,
     visible : BOOLEAN, depth : Nat, saved : BOOLEAN]

\* A console that nobody took: one cursor, and nothing below it.
OneCursor(c) ==
    /\ c.bars = c.drawn
    /\ c.drawn = IF c.visible THEN {<<c.x, c.y>>} ELSE {}
BelowBlank(c) == \A row \in 0..(Rows - 1) : row > c.y => c.cells[row] = BlankRow
Calm(c) == c \in Consoles /\ c.depth = 0 /\ OneCursor(c) /\ BelowBlank(c)
BlankFrom(c, x) == \A column \in x..(Columns - 1) : c.cells[c.y][column] = {}
SameCells(c, d) == d.x = c.x /\ d.y = c.y /\ d.cells = c.cells

\* The constants.
LEMMA CharsDiffer == Space # LF /\ Space # CR /\ LF # CR
<1>1. \A a, b : Cardinality({a, b}) <= 2
  <2> SUFFICES ASSUME NEW a, NEW b PROVE Cardinality({a, b}) <= 2
    OBVIOUS
  <2>1. IsFiniteSet({b}) /\ Cardinality({b}) = 1
    BY FS_Singleton
  <2>2. {a, b} = {b} \union {a}
    OBVIOUS
  <2>3. Cardinality({b} \union {a}) = Cardinality({b}) \/ Cardinality({b} \union {a}) = Cardinality({b}) + 1
    BY <2>1, FS_AddElement
  <2> QED BY <2>1, <2>2, <2>3
<1>2. Cardinality({Space, LF, CR}) = 3
  BY ConsoleConstants
<1>3. ASSUME Space = LF PROVE FALSE
  <2>1. {Space, LF, CR} = {LF, CR}
    BY <1>3
  <2>2. Cardinality({LF, CR}) = 3
    BY <1>2, <2>1, Zenon
  <2>3. Cardinality({LF, CR}) <= 2
    BY <1>1, Zenon
  <2> QED BY <2>2, <2>3
<1>4. ASSUME Space = CR PROVE FALSE
  <2>1. {Space, LF, CR} = {LF, CR}
    BY <1>4
  <2>2. Cardinality({LF, CR}) = 3
    BY <1>2, <2>1, Zenon
  <2>3. Cardinality({LF, CR}) <= 2
    BY <1>1, Zenon
  <2> QED BY <2>2, <2>3
<1>5. ASSUME LF = CR PROVE FALSE
  <2>1. {Space, LF, CR} = {Space, CR}
    BY <1>5
  <2>2. Cardinality({Space, CR}) = 3
    BY <1>2, <2>1, Zenon
  <2>3. Cardinality({Space, CR}) <= 2
    BY <1>1, Zenon
  <2> QED BY <2>2, <2>3
<1> QED BY <1>3, <1>4, <1>5

\* Drawing the cursor where it is not drawn yet.
LEMMA DrawFacts ==
    ASSUME NEW c \in Consoles, c.bars = {}, c.drawn = {}
    PROVE  /\ Draw(c) \in Consoles /\ OneCursor(Draw(c)) /\ SameCells(c, Draw(c))
           /\ Draw(c).depth = c.depth /\ Draw(c).visible = c.visible
<1>1. CASE ~c.visible
  BY <1>1 DEF Draw, OneCursor, SameCells, Consoles
<1>2. CASE c.visible
  <2>1. <<c.x, c.y>> \in Places
    BY DEF Places, Consoles
  <2>2. Draw(c) = [c EXCEPT !.bars = {<<c.x, c.y>>}, !.drawn = {<<c.x, c.y>>}]
    BY <1>2 DEF Draw, Consoles
  <2>3. {<<c.x, c.y>>} \in SUBSET Places
    BY <2>1
  <2> DEFINE p == {<<c.x, c.y>>}
  <2>4. Draw(c) = [c EXCEPT !.bars = p, !.drawn = p] /\ p \in SUBSET Places
    BY <2>2, <2>3
  <2>5. c.visible = TRUE
    BY <1>2 DEF Consoles
  <2> HIDE DEF p
  <2>6. /\ Draw(c) \in Consoles /\ SameCells(c, Draw(c))
        /\ Draw(c).depth = c.depth /\ Draw(c).visible = c.visible
        /\ Draw(c).bars = p /\ Draw(c).drawn = p
    BY <2>4 DEF SameCells, Consoles
  <2>7. p = {<<Draw(c).x, Draw(c).y>>}
    BY <2>6 DEF p, SameCells
  <2> QED BY <2>5, <2>6, <2>7 DEF OneCursor
<1> QED BY <1>1, <1>2

\* Taking it away.
LEMMA EraseFacts ==
    ASSUME NEW c \in Consoles, OneCursor(c)
    PROVE  /\ Erase(c) \in Consoles /\ SameCells(c, Erase(c))
           /\ Erase(c).bars = {} /\ Erase(c).drawn = {}
           /\ Erase(c).depth = c.depth /\ Erase(c).visible = c.visible
           /\ Erase(c).saved = c.saved
BY DEF Erase, OneCursor, SameCells, Consoles

LEMMA BlankRows ==
    /\ BlankCells \in [0..(Rows - 1) -> [0..(Columns - 1) -> SUBSET Glyphs]]
    /\ \A row \in 0..(Rows - 1) : BlankCells[row] = BlankRow
    /\ \A column \in 0..(Columns - 1) : BlankRow[column] = {}
BY DEF BlankCells, BlankRow

\* A newline goes to an empty row.
LEMMA NewlineFacts ==
    ASSUME NEW c \in Consoles, BelowBlank(c), c.bars = {}, c.drawn = {}
    PROVE  LET d == Newline(c) IN
           /\ d \in Consoles /\ d.bars = {} /\ d.drawn = {} /\ BelowBlank(d)
           /\ d.depth = c.depth /\ d.visible = c.visible
           /\ d.x = 0 /\ d.y # c.y /\ BlankFrom(d, 0)
<1>1. CASE c.y + 1 < Rows
  <2>1. Newline(c) = [c EXCEPT !.x = 0, !.y = @ + 1]
    BY <1>1 DEF Newline
  <2>2. c.y + 1 \in 0..(Rows - 1) /\ 0 \in 0..(Columns - 1)
    BY <1>1, ConsoleConstants DEF Consoles
  <2>3. c.cells[c.y + 1] = BlankRow
    BY <2>2 DEF BelowBlank, Consoles
  <2> DEFINE d == Newline(c)
  <2>4. /\ d \in Consoles /\ d.bars = {} /\ d.drawn = {} /\ d.x = 0 /\ d.y = c.y + 1
        /\ d.depth = c.depth /\ d.visible = c.visible /\ d.cells = c.cells
    BY <2>1, <2>2 DEF Consoles
  <2> HIDE DEF d
  <2>5. BelowBlank(d)
    BY <2>2, <2>4 DEF BelowBlank, Consoles
  <2>6. BlankFrom(d, 0)
    BY <2>3, <2>4, BlankRows DEF BlankFrom
  <2>7. d.y # c.y
    BY <2>2, <2>4 DEF Consoles
  <2> QED BY <2>4, <2>5, <2>6, <2>7 DEF d
<1>2. CASE ~(c.y + 1 < Rows)
  <2>1. Newline(c) = [c EXCEPT !.cells = BlankCells, !.bars = {}, !.x = 0, !.y = 0, !.drawn = {}]
    BY <1>2 DEF Newline, ClearPixels, Consoles
  <2>2. 0 \in 0..(Rows - 1) /\ 0 \in 0..(Columns - 1) /\ c.y # 0
    BY <1>2, ConsoleConstants DEF Consoles
  <2> DEFINE d == Newline(c)
  <2>3. BlankCells \in [0..(Rows - 1) -> [0..(Columns - 1) -> SUBSET Glyphs]]
    BY BlankRows
  <2>4. /\ d \in Consoles /\ d.bars = {} /\ d.drawn = {} /\ d.x = 0 /\ d.y = 0
        /\ d.depth = c.depth /\ d.visible = c.visible /\ d.cells = BlankCells
    BY <2>1, <2>2, <2>3 DEF Consoles
  <2> HIDE DEF d
  <2>5. BelowBlank(d)
    BY <2>4, BlankRows DEF BelowBlank
  <2>6. BlankFrom(d, 0)
    BY <2>2, <2>4, BlankRows DEF BlankFrom
  <2> QED BY <2>2, <2>4, <2>5, <2>6 DEF d
<1> QED BY <1>1, <1>2

\* What a character does to a console.
Drawn(cell, char) == IF char = Space THEN cell ELSE cell \union {char}
LEMMA AddGlyphFacts ==
    ASSUME NEW c \in Consoles, BelowBlank(c), NEW char \in Glyphs \union {Space}
    PROVE  LET d == AddGlyph(c, char) IN
           /\ d \in Consoles /\ BelowBlank(d)
           /\ d.x = c.x /\ d.y = c.y /\ d.depth = c.depth /\ d.visible = c.visible
           /\ d.bars = c.bars /\ d.drawn = c.drawn
           /\ \A column \in 0..(Columns - 1) :
                 d.cells[c.y][column] = IF column = c.x THEN Drawn(c.cells[c.y][column], char)
                                        ELSE c.cells[c.y][column]
<1>1. CASE char = Space
  BY <1>1 DEF AddGlyph, Drawn
<1>2. CASE char # Space
  <2> DEFINE row == [c.cells[c.y] EXCEPT ![c.x] = @ \union {char}]
             all == [c.cells EXCEPT ![c.y] = row]
  <2>1. AddGlyph(c, char) = [c EXCEPT !.cells = all]
    BY <1>2 DEF AddGlyph, Consoles
  <2>2. c.y \in 0..(Rows - 1) /\ c.x \in 0..(Columns - 1) /\ c.cells[c.y] \in [0..(Columns - 1) -> SUBSET Glyphs]
    BY DEF Consoles
  <2>3. row \in [0..(Columns - 1) -> SUBSET Glyphs]
    BY <1>2, <2>2
  <2>4. /\ all \in [0..(Rows - 1) -> [0..(Columns - 1) -> SUBSET Glyphs]]
        /\ all[c.y] = row /\ \A r \in 0..(Rows - 1) : r # c.y => all[r] = c.cells[r]
    <3> HIDE DEF row
    <3> QED BY <2>2, <2>3 DEF Consoles
  <2>5. \A column \in 0..(Columns - 1) :
            row[column] = IF column = c.x THEN c.cells[c.y][column] \union {char} ELSE c.cells[c.y][column]
    BY <2>2
  <2> HIDE DEF row, all
  <2>6. /\ AddGlyph(c, char) \in Consoles /\ AddGlyph(c, char).cells = all
        /\ SameCells([c EXCEPT !.cells = all], AddGlyph(c, char))
        /\ AddGlyph(c, char).y = c.y /\ AddGlyph(c, char).x = c.x
        /\ AddGlyph(c, char).depth = c.depth /\ AddGlyph(c, char).visible = c.visible
        /\ AddGlyph(c, char).bars = c.bars /\ AddGlyph(c, char).drawn = c.drawn
    BY <2>1, <2>4 DEF Consoles, SameCells
  <2>7. BelowBlank(AddGlyph(c, char))
    BY <2>4, <2>6, <2>2 DEF BelowBlank
  <2> QED BY <1>2, <2>4, <2>5, <2>6, <2>7 DEF Drawn
<1> QED BY <1>1, <1>2

\* Going on to the next cell, in the row or at the next one's beginning.
LEMMA AdvanceFacts ==
    ASSUME NEW c \in Consoles, BelowBlank(c), c.bars = {}, c.drawn = {}
    PROVE  LET d == Advance(c) IN
           /\ d \in Consoles /\ d.bars = {} /\ d.drawn = {} /\ BelowBlank(d)
           /\ d.depth = c.depth /\ d.visible = c.visible
           /\ c.x + 1 < Columns => d.x = c.x + 1 /\ d.y = c.y /\ d.cells = c.cells
           /\ ~(c.x + 1 < Columns) => d.x = 0 /\ d.y # c.y /\ BlankFrom(d, 0)
<1>1. CASE c.x + 1 < Columns
  <2>1. Advance(c) = [c EXCEPT !.x = @ + 1]
    BY <1>1 DEF Advance
  <2>2. c.x + 1 \in 0..(Columns - 1)
    BY <1>1, ConsoleConstants DEF Consoles
  <2> QED BY <1>1, <2>1, <2>2 DEF BelowBlank, Consoles
<1>2. CASE ~(c.x + 1 < Columns)
  <2>1. Advance(c) = Newline(c)
    BY <1>2 DEF Advance
  <2> QED BY <1>2, <2>1, NewlineFacts
<1> QED BY <1>1, <1>2

\* console_putc: the cell is written and the next one is current.
LEMMA PutcFacts ==
    ASSUME NEW c, Calm(c), NEW char \in Chars
    PROVE  LET d == Putc(c, char) IN
           /\ Calm(d) /\ d.visible = c.visible
           /\ char = LF => d.y # c.y
           /\ d.y # c.y => d.x = 0 /\ BlankFrom(d, 0)
           /\ BlankFrom(c, c.x) /\ (char = CR => c.x = 0) => BlankFrom(d, d.x)
           /\ char \notin {LF, CR} /\ c.x + 1 < Columns =>
                 /\ d.x = c.x + 1 /\ d.y = c.y
                 /\ \A column \in 0..(Columns - 1) :
                      d.cells[c.y][column] = IF column = c.x THEN Drawn(c.cells[c.y][column], char)
                                             ELSE c.cells[c.y][column]
<1> DEFINE e == Erase(c)
           n == CASE char = LF -> Newline(e)
                  [] char = CR -> [e EXCEPT !.x = 0]
                  [] OTHER -> Advance(AddGlyph(e, char))
           d == Putc(c, char)
<1>1. /\ e \in Consoles /\ SameCells(c, e) /\ e.bars = {} /\ e.drawn = {}
      /\ e.depth = 0 /\ e.visible = c.visible /\ BelowBlank(e)
  BY EraseFacts DEF Calm, BelowBlank, SameCells
<1>2. d = Draw(n)
  BY DEF Putc, Calm, Suspended
<1> HIDE DEF e, d
<1>3. SUFFICES
        /\ n \in Consoles /\ n.bars = {} /\ n.drawn = {} /\ BelowBlank(n)
        /\ n.depth = 0 /\ n.visible = c.visible
        /\ char = LF => n.y # c.y
        /\ n.y # c.y => n.x = 0 /\ BlankFrom(n, 0)
        /\ BlankFrom(c, c.x) /\ (char = CR => c.x = 0) => BlankFrom(n, n.x)
        /\ char \notin {LF, CR} /\ c.x + 1 < Columns =>
              /\ n.x = c.x + 1 /\ n.y = c.y
              /\ \A column \in 0..(Columns - 1) :
                   n.cells[c.y][column] = IF column = c.x THEN Drawn(c.cells[c.y][column], char)
                                          ELSE c.cells[c.y][column]
  <2> HIDE DEF n
  <2>1. ASSUME n \in Consoles, n.bars = {}, n.drawn = {}, BelowBlank(n), n.depth = 0
        PROVE  Calm(d) /\ SameCells(n, d) /\ d.visible = n.visible
    <3>1. /\ d \in Consoles /\ OneCursor(d) /\ SameCells(n, d)
          /\ d.depth = n.depth /\ d.visible = n.visible
      BY <1>2, <2>1, DrawFacts
    <3> QED BY <2>1, <3>1 DEF Calm, BelowBlank, SameCells
  <2> QED BY <2>1 DEF SameCells, BlankFrom, d
<1>4. CASE char = LF
  <2>1. n = Newline(e)
    BY <1>4, CharsDiffer
  <2> HIDE DEF n
  <2>2. /\ n \in Consoles /\ n.bars = {} /\ n.drawn = {} /\ BelowBlank(n)
        /\ n.depth = e.depth /\ n.visible = e.visible
        /\ n.x = 0 /\ n.y # e.y /\ BlankFrom(n, 0)
    BY <1>1, <2>1, NewlineFacts
  <2> QED BY <1>1, <1>4, <2>2 DEF SameCells
<1>5. CASE char = CR
  <2>1. n = [e EXCEPT !.x = 0]
    BY <1>5, CharsDiffer
  <2> HIDE DEF n
  <2>2. 0 \in 0..(Columns - 1)
    BY ConsoleConstants
  <2>3. /\ n \in Consoles /\ n.bars = {} /\ n.drawn = {} /\ n.x = 0 /\ n.y = c.y
        /\ n.depth = 0 /\ n.visible = c.visible /\ n.cells = c.cells
    BY <1>1, <2>1, <2>2 DEF SameCells, Consoles
  <2>4. BelowBlank(n)
    BY <1>1, <2>3 DEF BelowBlank, SameCells
  <2>5. BlankFrom(c, c.x) /\ c.x = 0 => BlankFrom(n, n.x)
    BY <2>3 DEF BlankFrom
  <2> QED BY <1>5, <2>3, <2>4, <2>5, CharsDiffer
<1>6. CASE char \notin {LF, CR}
  <2> DEFINE g == AddGlyph(e, char)
  <2>1. n = Advance(g)
    BY <1>6
  <2>2. char \in Glyphs \union {Space}
    BY <1>6 DEF Chars
  <2>3. /\ g \in Consoles /\ BelowBlank(g)
        /\ g.x = c.x /\ g.y = c.y /\ g.depth = 0 /\ g.visible = c.visible
        /\ g.bars = {} /\ g.drawn = {}
        /\ \A column \in 0..(Columns - 1) :
              g.cells[c.y][column] = IF column = c.x THEN Drawn(c.cells[c.y][column], char)
                                     ELSE c.cells[c.y][column]
    BY <1>1, <2>2, AddGlyphFacts DEF SameCells
  <2> HIDE DEF g, n
  <2>4. /\ n \in Consoles /\ n.bars = {} /\ n.drawn = {} /\ BelowBlank(n)
        /\ n.depth = 0 /\ n.visible = c.visible
        /\ c.x + 1 < Columns => n.x = c.x + 1 /\ n.y = c.y /\ n.cells = g.cells
        /\ ~(c.x + 1 < Columns) => n.x = 0 /\ n.y # c.y /\ BlankFrom(n, 0)
    BY <2>1, <2>3, AdvanceFacts
  <2>5. c.x \in 0..(Columns - 1)
    BY DEF Calm, Consoles
  <2>6. ASSUME c.x + 1 < Columns, BlankFrom(c, c.x) PROVE BlankFrom(n, n.x)
    BY <2>3, <2>4, <2>5, <2>6 DEF BlankFrom
  <2> QED BY <1>6, <2>3, <2>4, <2>6
<1> QED BY <1>4, <1>5, <1>6

\* The cursor is shown, hidden, and blinks where it is.
LEMMA CursorFacts ==
    ASSUME NEW c, Calm(c)
    PROVE  /\ Calm(Show(c)) /\ SameCells(c, Show(c))
           /\ Calm(Hide(c)) /\ SameCells(c, Hide(c))
           /\ Calm(Blink(c)) /\ SameCells(c, Blink(c))
<1> DEFINE e == Erase(c)
           shown == [e EXCEPT !.visible = TRUE]
           hidden == [e EXCEPT !.visible = FALSE]
           again == [c EXCEPT !.visible = TRUE]
<1>1. /\ e \in Consoles /\ SameCells(c, e) /\ e.bars = {} /\ e.drawn = {} /\ e.depth = 0
  BY EraseFacts DEF Calm
<1>2. /\ Show(c) = Draw(shown) /\ Hide(c) = hidden
      /\ Blink(c) = IF c.visible THEN hidden ELSE Draw(again)
  BY DEF Show, Hide, Blink, Calm, Suspended
<1> HIDE DEF e
<1>3. ASSUME NEW b, b \in Consoles, SameCells(c, b), b.bars = {}, b.drawn = {}, b.depth = 0
      PROVE  Calm(Draw(b)) /\ SameCells(c, Draw(b))
  <2>1. /\ Draw(b) \in Consoles /\ OneCursor(Draw(b)) /\ SameCells(b, Draw(b))
        /\ Draw(b).depth = 0
    BY <1>3, DrawFacts
  <2> QED BY <1>3, <2>1 DEF Calm, BelowBlank, SameCells
<1>4. /\ shown \in Consoles /\ SameCells(c, shown) /\ shown.bars = {} /\ shown.drawn = {}
      /\ shown.depth = 0
  BY <1>1 DEF Consoles, SameCells
<1>5. /\ hidden \in Consoles /\ SameCells(c, hidden) /\ hidden.bars = {} /\ hidden.drawn = {}
      /\ hidden.depth = 0 /\ hidden.visible = FALSE
  BY <1>1 DEF Consoles, SameCells
<1>6. ASSUME ~c.visible
      PROVE  /\ again \in Consoles /\ SameCells(c, again) /\ again.bars = {} /\ again.drawn = {}
             /\ again.depth = 0
  BY <1>6 DEF Calm, OneCursor, Consoles, SameCells
<1> HIDE DEF shown, hidden, again
<1>7. Calm(hidden)
  BY <1>5 DEF Calm, OneCursor, BelowBlank, SameCells
<1>8. ~c.visible => Calm(Draw(again)) /\ SameCells(c, Draw(again))
  BY <1>3, <1>6
<1>9. Calm(Draw(shown)) /\ SameCells(c, Draw(shown))
  BY <1>3, <1>4
<1> QED BY <1>2, <1>5, <1>7, <1>8, <1>9

\* console_set_cursor_pos, in the row.
LEMMA SetCursorFacts ==
    ASSUME NEW c, Calm(c), NEW x \in 0..(Columns - 1)
    PROVE  LET d == SetCursor(c, x, c.y) IN
           Calm(d) /\ d.x = x /\ d.y = c.y /\ d.cells = c.cells
<1> DEFINE e == Erase(c)
           b == [e EXCEPT !.x = x]
<1>1. /\ e \in Consoles /\ SameCells(c, e) /\ e.bars = {} /\ e.drawn = {} /\ e.depth = 0
  BY EraseFacts DEF Calm
<1> HIDE DEF e
<1>2. c.y \in 0..(Rows - 1)
  BY DEF Calm, Consoles
<1>3. SetCursor(c, x, c.y) = Draw(b)
  <2>1. Clamp(x, Columns) = x /\ Clamp(c.y, Rows) = c.y
    BY <1>2, ConsoleConstants DEF Clamp
  <2>2. [e EXCEPT !.x = x, !.y = c.y] = b
    BY <1>1 DEF Consoles, SameCells
  <2>3. ~Suspended(c)
    BY DEF Calm, Suspended
  <2> HIDE DEF b
  <2> QED BY <2>1, <2>2, <2>3 DEF SetCursor, e
<1>4. /\ b \in Consoles /\ b.bars = {} /\ b.drawn = {} /\ b.depth = 0 /\ b.x = x /\ b.y = c.y
      /\ b.cells = c.cells
  BY <1>1 DEF Consoles, SameCells
<1> HIDE DEF b
<1>5. /\ Draw(b) \in Consoles /\ OneCursor(Draw(b)) /\ SameCells(b, Draw(b)) /\ Draw(b).depth = 0
  BY <1>4, DrawFacts
<1> QED BY <1>3, <1>4, <1>5 DEF Calm, BelowBlank, SameCells

\* console_clear_line_from_cursor.
LEMMA ClearLineFacts ==
    ASSUME NEW c, Calm(c)
    PROVE  LET d == ClearLine(c) IN
           /\ Calm(d) /\ d.x = c.x /\ d.y = c.y /\ BlankFrom(d, d.x)
<1> DEFINE e == Erase(c)
           right == c.x..(Columns - 1)
           row == [column \in 0..(Columns - 1) |->
                     IF column \in right THEN {} ELSE c.cells[c.y][column]]
           all == [c.cells EXCEPT ![c.y] = row]
           b == [e EXCEPT !.cells = all]
<1>1. /\ e \in Consoles /\ SameCells(c, e) /\ e.bars = {} /\ e.drawn = {} /\ e.depth = 0
  BY EraseFacts DEF Calm
<1>2. /\ c.y \in 0..(Rows - 1) /\ c.x \in 0..(Columns - 1)
      /\ c.cells \in [0..(Rows - 1) -> [0..(Columns - 1) -> SUBSET Glyphs]]
      /\ c.cells[c.y] \in [0..(Columns - 1) -> SUBSET Glyphs]
  BY DEF Calm, Consoles
<1> HIDE DEF e
<1>3. ClearLine(c) = Draw(b)
  <2>1. [e EXCEPT !.cells[c.y] = [column \in DOMAIN @ |->
                                       IF column \in right THEN {} ELSE @[column]],
                  !.bars = @ \ (right \X {c.y})] = b
    <3>1. e.cells[c.y] = c.cells[c.y] /\ DOMAIN c.cells[c.y] = 0..(Columns - 1)
      BY <1>1, <1>2 DEF SameCells
    <3>2. [column \in DOMAIN e.cells[c.y] |->
             IF column \in right THEN {} ELSE e.cells[c.y][column]] = row
      BY <3>1
    <3> HIDE DEF right, row
    <3>3. [e.cells EXCEPT ![c.y] = row] = all
      BY <1>1 DEF SameCells
    <3>4. e.bars \ (right \X {c.y}) = {}
      BY <1>1
    <3> HIDE DEF all
    <3>5. [e EXCEPT !.cells = all, !.bars = {}] = b
      BY <1>1 DEF Consoles
    <3> QED BY <3>2, <3>3, <3>4, <3>5
  <2>2. ~Suspended(c)
    BY DEF Calm, Suspended
  <2> HIDE DEF b
  <2> QED BY <2>1, <2>2 DEF ClearLine, e
<1>4. row \in [0..(Columns - 1) -> SUBSET Glyphs]
  BY <1>2
<1>5. /\ all \in [0..(Rows - 1) -> [0..(Columns - 1) -> SUBSET Glyphs]]
      /\ all[c.y] = row /\ \A r \in 0..(Rows - 1) : r # c.y => all[r] = c.cells[r]
  <2> HIDE DEF row
  <2> QED BY <1>2, <1>4
<1>6. \A column \in c.x..(Columns - 1) : row[column] = {}
  BY <1>2
<1> HIDE DEF row, all
<1>7. /\ b \in Consoles /\ b.bars = {} /\ b.drawn = {} /\ b.depth = 0 /\ b.x = c.x /\ b.y = c.y
      /\ b.cells = all
  BY <1>1, <1>5 DEF Consoles, SameCells
<1>8. BelowBlank(b)
  BY <1>2, <1>5, <1>7 DEF BelowBlank, Calm
<1> HIDE DEF b
<1>9. /\ Draw(b) \in Consoles /\ OneCursor(Draw(b)) /\ SameCells(b, Draw(b)) /\ Draw(b).depth = 0
  BY <1>7, DrawFacts
<1> QED BY <1>3, <1>5, <1>6, <1>7, <1>8, <1>9 DEF Calm, BelowBlank, BlankFrom, SameCells

\* console_backspace within the row.
LEMMA BackspaceFacts ==
    ASSUME NEW c, Calm(c), c.x > 0
    PROVE  LET d == Backspace(c) IN
           /\ Calm(d) /\ d.x = c.x - 1 /\ d.y = c.y
           /\ \A column \in 0..(Columns - 1) :
                 d.cells[c.y][column] = IF column = c.x - 1 THEN {} ELSE c.cells[c.y][column]
<1> DEFINE e == Erase(c)
           row == [c.cells[c.y] EXCEPT ![c.x - 1] = {}]
           all == [c.cells EXCEPT ![c.y] = row]
           b == [e EXCEPT !.x = c.x - 1, !.cells = all]
<1>1. /\ e \in Consoles /\ SameCells(c, e) /\ e.bars = {} /\ e.drawn = {} /\ e.depth = 0
  BY EraseFacts DEF Calm
<1>2. /\ c.y \in 0..(Rows - 1) /\ c.x \in 0..(Columns - 1) /\ c.x - 1 \in 0..(Columns - 1)
      /\ c.cells \in [0..(Rows - 1) -> [0..(Columns - 1) -> SUBSET Glyphs]]
      /\ c.cells[c.y] \in [0..(Columns - 1) -> SUBSET Glyphs]
  BY ConsoleConstants DEF Calm, Consoles
<1> HIDE DEF e
<1>3. Backspace(c) = Draw(b)
  <2>1. [e EXCEPT !.x = @ - 1, !.cells[c.y][c.x - 1] = {}, !.bars = @ \ {<<c.x - 1, c.y>>}] = b
    <3>1. [e.cells EXCEPT ![c.y][c.x - 1] = {}] = all
      BY <1>1, <1>2 DEF SameCells
    <3>2. e.bars \ {<<c.x - 1, c.y>>} = {} /\ e.x = c.x
      BY <1>1 DEF SameCells
    <3> HIDE DEF all
    <3>3. [e EXCEPT !.x = c.x - 1, !.cells = all, !.bars = {}] = b
      BY <1>1 DEF Consoles
    <3> QED BY <3>1, <3>2, <3>3
  <2>2. ~Suspended(c) /\ e.x # 0 /\ c.x # 0
    BY <1>1, <1>2 DEF Calm, Suspended, SameCells
  <2> HIDE DEF b
  <2> QED BY <2>1, <2>2 DEF Backspace, e
<1>4. row \in [0..(Columns - 1) -> SUBSET Glyphs]
  BY <1>2
<1>5. /\ all \in [0..(Rows - 1) -> [0..(Columns - 1) -> SUBSET Glyphs]]
      /\ all[c.y] = row /\ \A r \in 0..(Rows - 1) : r # c.y => all[r] = c.cells[r]
  <2> HIDE DEF row
  <2> QED BY <1>2, <1>4
<1>6. \A column \in 0..(Columns - 1) :
          row[column] = IF column = c.x - 1 THEN {} ELSE c.cells[c.y][column]
  BY <1>2
<1> HIDE DEF row, all
<1>7. /\ b \in Consoles /\ b.bars = {} /\ b.drawn = {} /\ b.depth = 0
      /\ b.x = c.x - 1 /\ b.y = c.y /\ b.cells = all
  BY <1>1, <1>2, <1>5 DEF Consoles, SameCells
<1>8. BelowBlank(b)
  BY <1>2, <1>5, <1>7 DEF BelowBlank, Calm
<1> HIDE DEF b
<1>9. /\ Draw(b) \in Consoles /\ OneCursor(Draw(b)) /\ SameCells(b, Draw(b)) /\ Draw(b).depth = 0
  BY <1>7, DrawFacts
<1> QED BY <1>3, <1>5, <1>6, <1>7, <1>8, <1>9 DEF Calm, BelowBlank, SameCells

-----------------------------------------------------------------------------
(* Texts. *)
\* A set of naturals that has 0, and n + 1 with n, has every natural: else the
\* successor would put the finite set of its numbers up to x into a smaller one.
LEMMA SetInduction ==
    ASSUME NEW S, 0 \in S, \A n \in Nat : n \in S => n + 1 \in S
    PROVE  Nat \subseteq S
<1> SUFFICES ASSUME NEW x \in Nat, x \notin S PROVE FALSE
  OBVIOUS
<1> DEFINE A == S \intersect (0..x)
           f == [n \in A |-> n + 1]
<1>1. IsFiniteSet(A)
  <2>1. IsFiniteSet(0..x)
    BY FS_Interval
  <2> QED BY <2>1, FS_Subset
<1>2. f \in Injection(A, A \ {0})
  BY DEF Injection, IsInjective
<1>3. Cardinality(A) <= Cardinality(A \ {0})
  <2>1. IsFiniteSet(A \ {0})
    BY <1>1, FS_Subset
  <2> HIDE DEF A, f
  <2> QED BY <1>2, <2>1, FS_Injection
<1>4. Cardinality(A \ {0}) = Cardinality(A) - 1
  <2>1. 0 \in A
    OBVIOUS
  <2> HIDE DEF A
  <2> QED BY <1>1, <2>1, FS_RemoveElement
<1> QED BY <1>1, <1>3, <1>4, FS_CardinalityType

\* What is on the console after the first n characters.
WrittenNext(c, text, w, n) == IF n = 0 THEN c ELSE Putc(w[n - 1], text[n])
IsWriting(c, text, w, N) == w = [n \in 0..N |-> WrittenNext(c, text, w, n)]

\* There is such a function, for a text of any length.
LEMMA WritingExists ==
    ASSUME NEW c, NEW text, NEW N \in Nat
    PROVE  \E w : IsWriting(c, text, w, N)
<1> DEFINE S == {m \in Nat : \E w : IsWriting(c, text, w, m)}
<1>1. 0 \in S
  <2> DEFINE h == [n \in 0..0 |-> c]
  <2>1. \A n \in 0..0 : h[n] = WrittenNext(c, text, h, n)
    BY DEF WrittenNext
  <2>2. h = [n \in 0..0 |-> h[n]]
    OBVIOUS
  <2> HIDE DEF h
  <2>3. IsWriting(c, text, h, 0)
    BY <2>1, <2>2 DEF IsWriting
  <2> QED BY <2>3
<1>2. \A m \in Nat : m \in S => m + 1 \in S
  <2> SUFFICES ASSUME NEW m \in Nat, NEW g, IsWriting(c, text, g, m)
               PROVE  \E w : IsWriting(c, text, w, m + 1)
    BY SMT
  <2> DEFINE f == [n \in 0..(m + 1) |-> IF n = m + 1 THEN WrittenNext(c, text, g, n) ELSE g[n]]
  <2>1. \A n \in 0..m : g[n] = WrittenNext(c, text, g, n)
    BY DEF IsWriting
  <2>2. ASSUME NEW n \in 0..(m + 1) PROVE f[n] = WrittenNext(c, text, f, n)
    <3>1. WrittenNext(c, text, f, n) = WrittenNext(c, text, g, n)
      <4>1. n = 0 \/ (n - 1 \in 0..m /\ f[n - 1] = g[n - 1])
        OBVIOUS
      <4> HIDE DEF f
      <4> QED BY <4>1 DEF WrittenNext
    <3>2. CASE n = m + 1
      <4>1. f[n] = WrittenNext(c, text, g, n)
        BY <3>2
      <4> QED BY <3>1, <4>1
    <3>3. CASE n # m + 1
      <4>1. n \in 0..m /\ f[n] = g[n]
        BY <3>3
      <4> HIDE DEF f
      <4> QED BY <2>1, <3>1, <4>1
    <3> QED BY <3>2, <3>3
  <2>3. f = [n \in 0..(m + 1) |-> f[n]]
    OBVIOUS
  <2> HIDE DEF f
  <2>4. IsWriting(c, text, f, m + 1)
    BY <2>2, <2>3 DEF IsWriting
  <2> QED BY <2>4
<1>3. N \in S
  <2> HIDE DEF S
  <2> QED BY <1>1, <1>2, SetInduction
<1> QED BY <1>3

\* Write puts one character after the other.
LEMMA WriteIs ==
    ASSUME NEW c, NEW text, NEW N \in Nat, Len(text) = N
    PROVE  \E w : /\ w[0] = c /\ Write(c, text) = w[N]
                  /\ \A n \in 1..N : w[n] = Putc(w[n - 1], text[n])
<1> DEFINE Solves(w) == w = [n \in 0..N |-> IF n = 0 THEN c ELSE Putc(w[n - 1], text[n])]
           w == CHOOSE v : Solves(v)
<1>1. \E v : Solves(v)
  <2>1. PICK v : IsWriting(c, text, v, N)
    <3> QED BY WritingExists
  <2>2. Solves(v)
    <3> QED BY <2>1 DEF IsWriting, WrittenNext
  <2> HIDE DEF Solves
  <2> QED BY <2>2
<1>2. Solves(w)
  <2> HIDE DEF Solves
  <2> QED BY <1>1
<1>3. Write(c, text) = w[N]
  BY DEF Write
<1> HIDE DEF w
<1>4. w[0] = c
  BY <1>2
<1>5. \A n \in 1..N : w[n] = Putc(w[n - 1], text[n])
  <2> SUFFICES ASSUME NEW n \in 1..N PROVE w[n] = Putc(w[n - 1], text[n])
    OBVIOUS
  <2>1. n \in 0..N /\ n # 0
    OBVIOUS
  <2> QED BY <1>2, <2>1
<1> QED BY <1>3, <1>4, <1>5

\* A text that fits its row is shown there, behind what was there before.
RowShows(c, x, y, text) ==
    \A column \in x..(Columns - 1) :
        c.cells[y][column] = IF column - x < Len(text)
                             THEN {text[column - x + 1]} \ {Space} ELSE {}
LEMMA WriteInRow ==
    ASSUME NEW c, Calm(c), NEW text \in Seq(Glyphs \union {Space}),
           c.x + Len(text) < Columns, BlankFrom(c, c.x)
    PROVE  LET d == Write(c, text) IN
           Calm(d) /\ d.x = c.x + Len(text) /\ d.y = c.y /\ RowShows(d, c.x, c.y, text)
<1>1. PICK w : /\ w[0] = c /\ Write(c, text) = w[Len(text)]
               /\ \A n \in 1..Len(text) : w[n] = Putc(w[n - 1], text[n])
  <2>1. Len(text) \in Nat
    OBVIOUS
  <2>2. \E w : /\ w[0] = c /\ Write(c, text) = w[Len(text)]
               /\ \A n \in 1..Len(text) : w[n] = Putc(w[n - 1], text[n])
    <3> DEFINE N == Len(text)
    <3>1. N \in Nat /\ Len(text) = N
      BY <2>1
    <3> HIDE DEF N
    <3>2. \E w : /\ w[0] = c /\ Write(c, text) = w[N]
                 /\ \A n \in 1..N : w[n] = Putc(w[n - 1], text[n])
      BY <3>1, WriteIs
    <3> QED BY <3>2 DEF N
  <2> QED BY <2>2, Zenon
<1> DEFINE Good(n) ==
        /\ Calm(w[n]) /\ w[n].x = c.x + n /\ w[n].y = c.y
        /\ \A column \in c.x..(Columns - 1) :
              w[n].cells[c.y][column] = IF column - c.x < n
                                        THEN {text[column - c.x + 1]} \ {Space} ELSE {}
           S == {n \in Nat : n <= Len(text) => Good(n)}
<1>2. c.x \in 0..(Columns - 1)
  BY DEF Calm, Consoles
<1>3. 0 \in S
  <2>1. \A column \in c.x..(Columns - 1) : c.cells[c.y][column] = {} /\ ~(column - c.x < 0)
    BY <1>2, ConsoleConstants DEF BlankFrom
  <2>2. Good(0)
    <3>1. w[0] = c /\ c.x = c.x + 0
      BY <1>1, <1>2
    <3> QED BY <2>1, <3>1
  <2> HIDE DEF Good
  <2> QED BY <2>2
<1>4. \A n \in Nat : n \in S => n + 1 \in S
  <2> SUFFICES ASSUME NEW n \in Nat, n + 1 <= Len(text), Good(n) PROVE Good(n + 1)
    <3> HIDE DEF Good
    <3> QED BY SMT
  <2> DEFINE char == text[n + 1]
             b == w[n]
             d == Putc(b, char)
  <2>1. w[n + 1] = d /\ char \in Glyphs \union {Space}
    BY <1>1
  <2>2. char \in Chars /\ char \notin {LF, CR}
    BY <2>1, CharsDiffer, ConsoleConstants DEF Chars
  <2>3. b.x + 1 < Columns
    BY <1>2, ConsoleConstants
  <2> HIDE DEF char
  <2>4. /\ Calm(d) /\ d.x = b.x + 1 /\ d.y = b.y
        /\ \A column \in 0..(Columns - 1) :
              d.cells[b.y][column] = IF column = b.x THEN Drawn(b.cells[b.y][column], char)
                                     ELSE b.cells[b.y][column]
    <3> HIDE DEF b
    <3>1. Calm(b)
      BY DEF b
    <3> QED BY <2>2, <2>3, <3>1, PutcFacts
  <2>5. /\ b.x = c.x + n /\ b.y = c.y
        /\ \A column \in c.x..(Columns - 1) :
              b.cells[c.y][column] = IF column - c.x < n
                                     THEN {text[column - c.x + 1]} \ {Space} ELSE {}
    OBVIOUS
  <2> HIDE DEF b, d
  <2>6. Drawn({}, char) = {char} \ {Space}
    BY DEF Drawn
  <2>7. ASSUME NEW column \in c.x..(Columns - 1)
        PROVE  d.cells[c.y][column] = IF column - c.x < n + 1
                                      THEN {text[column - c.x + 1]} \ {Space} ELSE {}
    <3>1. column \in 0..(Columns - 1)
      BY <1>2
    <3>2. CASE column = b.x
      <4>1. b.cells[c.y][column] = {}
        <5>1. ~(column - c.x < n)
          BY <1>2, <2>5, <3>1, <3>2
        <5> QED BY <2>5, <5>1
      <4>2. d.cells[c.y][column] = Drawn({}, char)
        BY <2>4, <2>5, <3>1, <3>2, <4>1
      <4>3. column - c.x = n
        BY <1>2, <2>5, <3>2
      <4>4. column - c.x < n + 1 /\ text[column - c.x + 1] = char
        BY <4>3 DEF char
      <4> QED BY <2>6, <4>2, <4>4
    <3>3. CASE column # b.x
      <4>1. d.cells[c.y][column] = b.cells[c.y][column]
        BY <2>4, <2>5, <3>1, <3>3
      <4>2. column - c.x < n + 1 <=> column - c.x < n
        BY <1>2, <2>5, <3>1, <3>3
      <4> QED BY <2>5, <4>1, <4>2
    <3> QED BY <3>2, <3>3
  <2>8. Calm(w[n + 1]) /\ w[n + 1].x = c.x + (n + 1) /\ w[n + 1].y = c.y
    <3>1. d.x = c.x + (n + 1)
      BY <1>2, <2>4, <2>5
    <3> QED BY <2>1, <2>4, <2>5, <3>1
  <2>9. \A column \in c.x..(Columns - 1) :
              w[n + 1].cells[c.y][column] = IF column - c.x < n + 1
                                            THEN {text[column - c.x + 1]} \ {Space} ELSE {}
    BY <2>1, <2>7
  <2> QED BY <2>8, <2>9
<1>5. Good(Len(text))
  <2>1. Len(text) \in Nat
    OBVIOUS
  <2>2. Len(text) \in S
    <3> HIDE DEF S
    <3> QED BY <1>3, <1>4, <2>1, SetInduction
  <2> HIDE DEF Good
  <2> QED BY <2>1, <2>2
<1> QED BY <1>1, <1>5 DEF RowShows

\* The prompt, wherever it begins, ends where the row is empty.
LEMMA PromptShown ==
    ASSUME NEW c, Calm(c)
    PROVE  LET d == Write(c, PromptText) IN
           Calm(d) /\ (d.y # c.y \/ BlankFrom(c, c.x) => BlankFrom(d, d.x))
<1>1. /\ PromptText \in Seq({Gt, Space}) /\ Len(PromptText) = 2
      /\ PromptText[1] = Gt /\ PromptText[2] = Space
  BY DEF PromptText
<1>2. PICK w : /\ w[0] = c /\ Write(c, PromptText) = w[2]
               /\ \A n \in 1..2 : w[n] = Putc(w[n - 1], PromptText[n])
  BY <1>1, WriteIs
<1> DEFINE m == Putc(c, Gt)
           d == Putc(m, Space)
<1>3. Write(c, PromptText) = d
  <2>1. w[1] = Putc(w[0], Gt) /\ w[2] = Putc(w[1], Space)
    BY <1>1, <1>2
  <2> QED BY <1>2, <2>1
<1>4. {Gt, Space} \subseteq Chars /\ Gt \notin {LF, CR} /\ Space \notin {LF, CR}
  BY CharsDiffer, ConsoleConstants, LineConstants DEF Chars
<1>5. Calm(m) /\ (m.y # c.y => m.x = 0 /\ BlankFrom(m, 0)) /\ (BlankFrom(c, c.x) => BlankFrom(m, m.x))
  BY <1>4, PutcFacts
<1> HIDE DEF m
<1>6. Calm(d) /\ (d.y # m.y => d.x = 0 /\ BlankFrom(d, 0)) /\ (BlankFrom(m, m.x) => BlankFrom(d, d.x))
  BY <1>4, <1>5, PutcFacts
<1> HIDE DEF d
<1> QED BY <1>3, <1>5, <1>6

\* A line written anew from the prompt on.
LEMMA RedrawnFacts ==
    ASSUME Calm(con), prompt.x \in 0..(Columns - 1), con.y = prompt.y,
           NEW text \in Seq(Glyphs \union {Space}), prompt.x + Len(text) < Columns,
           NEW at \in 0..Len(text)
    PROVE  LET d == Redrawn(text, at) IN
           Calm(d) /\ d.x = prompt.x + at /\ d.y = prompt.y /\ RowShows(d, prompt.x, prompt.y, text)
<1> DEFINE hidden == Hide(con)
           placed == SetCursor(hidden, prompt.x, prompt.y)
           start == ClearLine(placed)
           written == Write(start, text)
           back == SetCursor(written, prompt.x + at, prompt.y)
           d == Show(back)
<1>1. Calm(hidden) /\ hidden.y = prompt.y
  BY CursorFacts DEF SameCells
<1> HIDE DEF hidden
<1>2. Calm(placed) /\ placed.x = prompt.x /\ placed.y = prompt.y
  BY <1>1, SetCursorFacts
<1> HIDE DEF placed
<1>3. Calm(start) /\ start.x = prompt.x /\ start.y = prompt.y /\ BlankFrom(start, start.x)
  BY <1>2, ClearLineFacts
<1> HIDE DEF start
<1>4. /\ Calm(written) /\ written.y = prompt.y
      /\ RowShows(written, prompt.x, prompt.y, text)
  <2>1. start.x + Len(text) < Columns
    BY <1>3
  <2>2. /\ Calm(written) /\ written.y = start.y
        /\ RowShows(written, start.x, start.y, text)
    BY <1>3, <2>1, WriteInRow
  <2> QED BY <1>3, <2>2
<1> HIDE DEF written
<1>5. prompt.x + at \in 0..(Columns - 1)
  BY ConsoleConstants
<1>6. Calm(back) /\ back.x = prompt.x + at /\ back.y = prompt.y /\ back.cells = written.cells
  BY <1>4, <1>5, SetCursorFacts
<1> HIDE DEF back
<1>7. Calm(d) /\ SameCells(back, d)
  BY <1>6, CursorFacts
<1>8. Redrawn(text, at) = d
  BY DEF Redrawn, hidden, placed, start, written, back
<1> HIDE DEF d
<1> QED BY <1>4, <1>6, <1>7, <1>8 DEF SameCells, RowShows

\* console_suspend, console_resume and what programs draw.
LEMMA SuspendFacts ==
    ASSUME NEW c \in Consoles
    PROVE  Suspend(c) \in Consoles /\ Suspend(c).depth > 0
<1>1. CASE Suspended(c)
  <2>1. Suspend(c) = [c EXCEPT !.depth = c.depth + 1]
    BY <1>1 DEF Suspend
  <2> QED BY <2>1 DEF Consoles
<1>2. CASE ~Suspended(c)
  <2>1. Suspend(c) = [c EXCEPT !.cells = BlankCells, !.bars = {}, !.saved = c.visible,
                                !.visible = FALSE, !.drawn = {}, !.depth = 1, !.x = 0, !.y = 0]
    BY <1>2 DEF Suspend, ClearPixels, Erase, Consoles
  <2>2. 0 \in 0..(Rows - 1) /\ 0 \in 0..(Columns - 1)
    BY ConsoleConstants
  <2>3. BlankCells \in [0..(Rows - 1) -> [0..(Columns - 1) -> SUBSET Glyphs]]
    BY BlankRows
  <2>4. Suspend(c).depth = 1
    BY <2>1 DEF Consoles
  <2>5. Suspend(c) \in Consoles
    <3> DEFINE v == c.visible
    <3>1. v \in BOOLEAN
      BY DEF Consoles
    <3>2. Suspend(c) = [x |-> 0, y |-> 0, cells |-> BlankCells, bars |-> {}, drawn |-> {},
                        visible |-> FALSE, depth |-> 1, saved |-> v]
      BY <2>1 DEF Consoles
    <3> HIDE DEF v
    <3> QED BY <2>2, <2>3, <3>1, <3>2 DEF Consoles
  <2> QED BY <2>4, <2>5
<1> QED BY <1>1, <1>2

LEMMA ResumeFacts ==
    ASSUME NEW c \in Consoles, c.depth > 0
    PROVE  LET d == Resume(c) IN
           /\ d \in Consoles
           /\ d.depth = 0 => Calm(d) /\ d.x = 0 /\ BlankFrom(d, 0)
<1>1. CASE c.depth # 1
  <2>1. Resume(c) = [c EXCEPT !.depth = c.depth - 1]
    BY <1>1 DEF Resume
  <2>2. c.depth - 1 \in Nat /\ c.depth - 1 # 0
    BY <1>1 DEF Consoles
  <2> QED BY <2>1, <2>2 DEF Consoles
<1>2. CASE c.depth = 1
  <2> DEFINE b == [c EXCEPT !.cells = BlankCells, !.bars = {}, !.depth = 0, !.x = 0, !.y = 0,
                             !.drawn = {}, !.visible = c.saved, !.saved = FALSE]
  <2>1. Resume(c) = Draw(b)
    <3>1. [ClearPixels(c) EXCEPT !.depth = 0, !.x = 0, !.y = 0, !.drawn = {},
                                 !.visible = c.saved, !.saved = FALSE] = b
      BY DEF ClearPixels, Consoles
    <3> HIDE DEF b
    <3> QED BY <1>2, <3>1 DEF Resume
  <2>2. 0 \in 0..(Rows - 1) /\ 0 \in 0..(Columns - 1)
    BY ConsoleConstants
  <2>3. /\ b \in Consoles /\ b.bars = {} /\ b.drawn = {} /\ b.depth = 0 /\ b.x = 0 /\ b.y = 0
        /\ b.cells = BlankCells
    BY <2>2, BlankRows DEF Consoles
  <2> HIDE DEF b
  <2>4. /\ Draw(b) \in Consoles /\ OneCursor(Draw(b)) /\ SameCells(b, Draw(b)) /\ Draw(b).depth = 0
    BY <2>3, DrawFacts
  <2> QED BY <2>1, <2>2, <2>3, <2>4, BlankRows DEF Calm, BelowBlank, BlankFrom, SameCells
<1> QED BY <1>1, <1>2

-----------------------------------------------------------------------------
(* The invariant. *)
EditorTypes ==
    /\ con \in Consoles /\ (con.depth = 0 => Calm(con))
    /\ line \in Seq(TypedChars) /\ cursor \in 0..Len(line)
    /\ prompt \in [x : 0..(Columns - 1), y : 0..(Rows - 1)]
    /\ mode \in {"boot", "update", "events", "command"}
    /\ overprinted \in BOOLEAN

\* Where output goes on, the row is empty, but for output behind a carriage return.
FreeAhead == overprinted \/ BlankFrom(con, con.x)
LineShown == overprinted \/ RowShows(con, prompt.x, prompt.y, line)
EditorPhases ==
    /\ mode \in {"update", "events"} => con.depth = 0
    /\ Len(line) < BufferSize /\ prompt.x + Len(line) < Columns
    /\ mode = "boot" => line = <<>>
    /\ Running /\ con.depth = 0 => FreeAhead
    /\ mode = "events" => InSync /\ LineShown
    /\ mode = "update" => IF InSync THEN LineShown ELSE line = <<>> /\ FreeAhead
EditorInv == EditorTypes /\ EditorPhases

\* It is what is claimed, and more.
LEMMA EditorInvSuffices == EditorInv => EditorTrue
<1> SUFFICES ASSUME EditorInv PROVE EditorTrue
  OBVIOUS
<1> USE DEF EditorInv, EditorTypes, EditorPhases
<1>1. LineFits
  BY DEF LineFits
<1>2. CursorInSync
  BY DEF CursorInSync, Editing
<1>3. ScreenShowsLine
  BY DEF ScreenShowsLine, Editing, LineShown, RowShows
<1>4. NoGhostCursor
  <2> SUFFICES ASSUME ~Suspended(con) PROVE OneCursor(con)
    BY DEF NoGhostCursor, OneCursor
  <2>1. con.depth = 0
    BY DEF Suspended, Consoles
  <2> QED BY <2>1 DEF Calm
<1> QED BY <1>1, <1>2, <1>3, <1>4 DEF EditorTrue

\* An empty row shows an empty line.
LEMMA NothingShown ==
    ASSUME NEW c, c \in Consoles
    PROVE  BlankFrom(c, c.x) => RowShows(c, c.x, c.y, <<>>)
<1> SUFFICES ASSUME BlankFrom(c, c.x), NEW column \in c.x..(Columns - 1)
             PROVE  c.cells[c.y][column] = {} /\ ~(column - c.x < Len(<<>>))
  BY DEF RowShows
<1> QED BY ConsoleConstants DEF BlankFrom, Consoles

\* A new prompt: the line is empty and the cursor behind the prompt.
LEMMA PromptStep ==
    ASSUME EditorTypes, EditorPhases, NEW c, Calm(c), c.y = con.y, c.x = con.x, FreeAhead,
           c.cells = con.cells, ShowPrompt(c), line' = <<>>, cursor' = 0, StaysOverprinted,
           mode' = "events"
    PROVE  EditorInv'
<1> DEFINE shown == Write(c, PromptText)
<1>1. con' = Show(shown) /\ prompt' = [x |-> shown.x, y |-> shown.y]
  BY DEF ShowPrompt
<1>2. Calm(shown) /\ (shown.y # c.y \/ BlankFrom(c, c.x) => BlankFrom(shown, shown.x))
  BY PromptShown
<1> HIDE DEF shown
<1>3. Calm(con') /\ SameCells(shown, con')
  BY <1>1, <1>2, CursorFacts
<1>4. overprinted' = (overprinted /\ con'.y = con.y)
  BY DEF StaysOverprinted
<1>5. overprinted' \/ BlankFrom(shown, shown.x)
  BY <1>2, <1>3, <1>4 DEF FreeAhead, BlankFrom, SameCells
<1>6. shown \in Consoles /\ con' \in Consoles /\ con'.depth = 0
  BY <1>2, <1>3 DEF Calm
<1>7. EditorTypes'
  <2>1. line' \in Seq(TypedChars) /\ cursor' \in 0..Len(line')
    OBVIOUS
  <2>2. prompt' \in [x : 0..(Columns - 1), y : 0..(Rows - 1)]
    BY <1>1, <1>6 DEF Consoles
  <2>3. overprinted' \in BOOLEAN
    BY <1>4 DEF EditorTypes
  <2> QED BY <1>3, <1>6, <2>1, <2>2, <2>3 DEF EditorTypes
<1>8. Len(line') = 0
  OBVIOUS
<1>9. LineShown'
  <2>1. prompt'.x = shown.x /\ prompt'.y = shown.y /\ con'.cells = shown.cells
    BY <1>1, <1>3 DEF SameCells
  <2>2. BlankFrom(shown, shown.x) => RowShows(shown, shown.x, shown.y, <<>>)
    BY <1>6, NothingShown
  <2> QED BY <1>5, <2>1, <2>2 DEF LineShown, RowShows
<1>10. InSync'
  <2>1. con'.x = shown.x + 0
    BY <1>3, <1>6 DEF SameCells, Consoles
  <2>2. con'.y = shown.y
    BY <1>3 DEF SameCells
  <2> QED BY <1>1, <2>1, <2>2 DEF InSync
<1>11. prompt'.x + Len(line') < Columns
  BY <1>1, <1>6, <1>8, ConsoleConstants DEF Consoles
<1>12. EditorPhases'
  BY <1>6, <1>8, <1>9, <1>10, <1>11, LineConstants DEF EditorPhases, Running
<1> QED BY <1>7, <1>12 DEF EditorInv

LEMMA EditorInvInit == EditorInit => EditorInv
<1> SUFFICES ASSUME EditorInit PROVE EditorInv
  OBVIOUS
<1> DEFINE cleared == [x |-> 0, y |-> 0, cells |-> BlankCells, bars |-> {},
                       drawn |-> {}, visible |-> FALSE, depth |-> 0, saved |-> FALSE]
           shown == Write(cleared, PromptText)
<1>1. /\ con = Show(shown) /\ prompt = [x |-> shown.x, y |-> shown.y]
      /\ line = <<>> /\ cursor = 0 /\ mode = "boot" /\ overprinted = FALSE
  BY DEF EditorInit
<1>2. 0 \in 0..(Rows - 1) /\ 0 \in 0..(Columns - 1)
  BY ConsoleConstants
<1>3. Calm(cleared) /\ BlankFrom(cleared, cleared.x)
  BY <1>2, BlankRows DEF Calm, OneCursor, BelowBlank, BlankFrom, Consoles
<1> HIDE DEF cleared
<1>4. Calm(shown) /\ BlankFrom(shown, shown.x)
  BY <1>3, PromptShown
<1> HIDE DEF shown
<1>5. Calm(con) /\ SameCells(shown, con)
  BY <1>1, <1>4, CursorFacts
<1>6. shown \in Consoles /\ con \in Consoles /\ con.depth = 0
  BY <1>4, <1>5 DEF Calm
<1>7. EditorTypes
  <2>1. line \in Seq(TypedChars) /\ cursor \in 0..Len(line)
    BY <1>1
  <2>2. prompt \in [x : 0..(Columns - 1), y : 0..(Rows - 1)]
    BY <1>1, <1>6 DEF Consoles
  <2> QED BY <1>1, <1>5, <1>6, <2>1, <2>2 DEF EditorTypes
<1>8. FreeAhead
  BY <1>4, <1>5 DEF FreeAhead, BlankFrom, SameCells
<1>9. Len(line) = 0 /\ prompt.x + Len(line) < Columns
  BY <1>1, <1>6, ConsoleConstants DEF Consoles
<1>10. EditorPhases
  BY <1>1, <1>6, <1>8, <1>9, LineConstants DEF EditorPhases
<1> QED BY <1>7, <1>10 DEF EditorInv

\* An edit keeps the line, the cursor and the screen in step.
LEMMA EditStep ==
    ASSUME EditorInv, EditDone,
           line' \in Seq(TypedChars), Len(line') < BufferSize, prompt.x + Len(line') < Columns,
           cursor' \in 0..Len(line'),
           Calm(con'), con'.x = prompt.x + cursor', con'.y = prompt.y,
           overprinted \/ RowShows(con', prompt.x, prompt.y, line')
    PROVE  EditorInv'
<1>1. /\ mode = "events" /\ mode' = "events" /\ prompt' = prompt /\ overprinted' = overprinted
      /\ con' \in Consoles /\ con'.depth = 0
  BY DEF EditDone, Calm
<1>2. EditorTypes'
  BY <1>1 DEF EditorInv, EditorTypes
<1>3. InSync' /\ LineShown'
  BY <1>1 DEF InSync, LineShown, RowShows
<1>4. EditorPhases'
  BY <1>1, <1>3 DEF EditorPhases, Running
<1> QED BY <1>2, <1>4 DEF EditorInv

\* While a line is edited, the console is where the shell thinks it is.
LEMMA EditingFacts ==
    ASSUME EditorInv, mode = "events"
    PROVE  /\ Calm(con) /\ con.x = prompt.x + cursor /\ con.y = prompt.y /\ LineShown
           /\ prompt.x \in 0..(Columns - 1) /\ Len(line) \in Nat /\ cursor \in 0..Len(line)
           /\ line \in Seq(TypedChars) /\ line \in Seq(Glyphs \union {Space})
           /\ Len(line) < BufferSize /\ prompt.x + Len(line) < Columns
<1>1. Calm(con) /\ InSync /\ LineShown
  BY DEF EditorInv, EditorTypes, EditorPhases
<1>2. line \in Seq(Glyphs \union {Space})
  BY LineConstants DEF EditorInv, EditorTypes
<1> QED BY <1>1, <1>2 DEF EditorInv, EditorTypes, EditorPhases, InSync

\* A character is typed.
LEMMA InsertStep ==
    ASSUME EditorInv, NEW char \in TypedChars, Insert(char) PROVE EditorInv'
<1>0. EditDone /\ mode = "events"
  BY DEF Insert, EditDone
<1> DEFINE a == SubSeq(line, 1, cursor)
           b == SubSeq(line, cursor + 1, Len(line))
<1>a. /\ line' = a \o <<char>> \o b /\ cursor' = cursor + 1
      /\ con' = IF cursor = Len(line) THEN Show(Putc(Hide(con), char))
                ELSE Redrawn(line', cursor')
  BY DEF Insert
<1>1. /\ Calm(con) /\ con.x = prompt.x + cursor /\ con.y = prompt.y /\ LineShown
      /\ prompt.x \in 0..(Columns - 1) /\ Len(line) \in Nat /\ cursor \in 0..Len(line)
      /\ line \in Seq(TypedChars)
  BY <1>0, EditingFacts
<1>2. Len(line) < BufferSize - 1 /\ prompt.x + Len(line) < Columns - 1
  BY DEF Insert, CanInsert
<1>3. /\ line' \in Seq(TypedChars) /\ Len(line') = Len(line) + 1
      /\ cursor = Len(line) => /\ line'[Len(line) + 1] = char
                               /\ \A i \in 1..Len(line) : line'[i] = line[i]
  <2>1. a \in Seq(TypedChars) /\ Len(a) = cursor /\ \A i \in 1..cursor : a[i] = line[i]
    BY <1>1
  <2>2. b \in Seq(TypedChars) /\ Len(b) = Len(line) - cursor
    BY <1>1
  <2> HIDE DEF a, b
  <2>3. a \o <<char>> \in Seq(TypedChars) /\ Len(a \o <<char>>) = cursor + 1
        /\ (a \o <<char>>)[cursor + 1] = char /\ \A i \in 1..cursor : (a \o <<char>>)[i] = line[i]
    BY <1>1, <2>1
  <2> QED BY <1>1, <1>a, <2>2, <2>3
<1> HIDE DEF a, b
<1>4. line' \in Seq(Glyphs \union {Space})
  BY <1>3, LineConstants
<1>5. cursor' = cursor + 1 /\ cursor' \in 0..Len(line')
  BY <1>1, <1>3, <1>a
<1>6. Len(line') < BufferSize /\ prompt.x + Len(line') < Columns
  BY <1>1, <1>2, <1>3, ConsoleConstants, LineConstants
<1>7. /\ Calm(con') /\ con'.x = prompt.x + cursor' /\ con'.y = prompt.y
      /\ overprinted \/ RowShows(con', prompt.x, prompt.y, line')
  <2>1. CASE cursor = Len(line)
    <3> DEFINE h == Hide(con)
               p == Putc(h, char)
    <3>1. Calm(h) /\ SameCells(con, h)
      BY <1>1, CursorFacts
    <3>2. char \in Chars /\ char \notin {LF, CR}
      BY CharsDiffer, ConsoleConstants, LineConstants DEF Chars
    <3>3. h.x + 1 < Columns
      BY <1>1, <1>2, <2>1, <3>1, ConsoleConstants DEF SameCells
    <3> HIDE DEF h
    <3>4. /\ Calm(p) /\ p.x = h.x + 1 /\ p.y = h.y
          /\ \A column \in 0..(Columns - 1) :
                p.cells[h.y][column] = IF column = h.x THEN Drawn(h.cells[h.y][column], char)
                                       ELSE h.cells[h.y][column]
      BY <3>1, <3>2, <3>3, PutcFacts
    <3>5. con' = Show(p)
      BY <1>a, <2>1 DEF h
    <3> HIDE DEF p
    <3>6. Calm(con') /\ SameCells(p, con')
      BY <3>4, <3>5, CursorFacts
    <3>7. con'.x = prompt.x + cursor' /\ con'.y = prompt.y
      <4>1. con'.x = con.x + 1 /\ con'.y = con.y
        BY <3>1, <3>4, <3>6 DEF SameCells
      <4>2. (prompt.x + cursor) + 1 = prompt.x + (cursor + 1)
        BY <1>1
      <4> QED BY <1>1, <1>5, <4>1, <4>2
    <3>8. ASSUME ~overprinted, NEW column \in prompt.x..(Columns - 1)
          PROVE  con'.cells[prompt.y][column] =
                   IF column - prompt.x < Len(line') THEN {line'[column - prompt.x + 1]} \ {Space}
                   ELSE {}
      <4>1. con.cells[prompt.y][column] =
              IF column - prompt.x < Len(line) THEN {line[column - prompt.x + 1]} \ {Space} ELSE {}
        BY <1>1, <3>8 DEF LineShown, RowShows
      <4>2. con'.cells[prompt.y][column] =
              IF column = con.x THEN Drawn(con.cells[prompt.y][column], char)
              ELSE con.cells[prompt.y][column]
        BY <1>1, <3>1, <3>4, <3>6 DEF SameCells
      <4>3. column \in Int /\ prompt.x \in Int /\ column >= prompt.x
        BY <1>1, ConsoleConstants
      <4>4. Drawn({}, char) = {char} \ {Space}
        BY DEF Drawn
      <4>5. CASE column = con.x
        <5>1. column - prompt.x = Len(line)
          BY <1>1, <2>1, <4>3, <4>5
        <5>2. con.cells[prompt.y][column] = {}
          BY <1>1, <4>1, <5>1
        <5>3. line'[column - prompt.x + 1] = char /\ column - prompt.x < Len(line')
          BY <1>1, <1>3, <2>1, <5>1
        <5> QED BY <4>2, <4>4, <4>5, <5>2, <5>3
      <4>6. CASE column # con.x
        <5>1. column - prompt.x # Len(line)
          BY <1>1, <2>1, <4>3, <4>6
        <5>2. column - prompt.x < Len(line') <=> column - prompt.x < Len(line)
          BY <1>1, <1>3, <4>3, <5>1
        <5>3. column - prompt.x < Len(line) => line'[column - prompt.x + 1] = line[column - prompt.x + 1]
          BY <1>1, <1>3, <2>1, <4>3
        <5> QED BY <4>1, <4>2, <4>6, <5>2, <5>3
      <4> QED BY <4>5, <4>6
    <3> QED BY <3>6, <3>7, <3>8 DEF RowShows
  <2>2. CASE cursor # Len(line)
    <3>1. con' = Redrawn(line', cursor')
      BY <1>a, <2>2
    <3> QED BY <1>1, <1>4, <1>5, <1>6, <3>1, RedrawnFacts
  <2> QED BY <2>1, <2>2
<1> QED BY <1>0, <1>3, <1>5, <1>6, <1>7, EditStep

\* The line without one of its characters.
LEMMA RemovedIs ==
    ASSUME NEW at \in 1..Len(line), line \in Seq(TypedChars)
    PROVE  /\ RemoveAt(line, at) \in Seq(TypedChars)
           /\ Len(RemoveAt(line, at)) = Len(line) - 1
           /\ at = Len(line) => \A i \in 1..(Len(line) - 1) : RemoveAt(line, at)[i] = line[i]
<1> DEFINE a == SubSeq(line, 1, at - 1)
           b == SubSeq(line, at + 1, Len(line))
<1>1. a \in Seq(TypedChars) /\ Len(a) = at - 1 /\ \A i \in 1..(at - 1) : a[i] = line[i]
  OBVIOUS
<1>2. b \in Seq(TypedChars) /\ Len(b) = Len(line) - at
  OBVIOUS
<1>3. RemoveAt(line, at) = a \o b
  BY DEF RemoveAt
<1> HIDE DEF a, b
<1> QED BY <1>1, <1>2, <1>3

\* shell_backspace.
LEMMA EraseBeforeStep ==
    ASSUME EditorInv, EraseBefore PROVE EditorInv'
<1>0. EditDone /\ mode = "events"
  BY DEF EraseBefore, EditDone
<1>a. /\ cursor > 0 /\ line' = RemoveAt(line, cursor) /\ cursor' = cursor - 1
      /\ con' = IF cursor = Len(line) THEN Show(Backspace(Hide(con)))
                ELSE Redrawn(line', cursor')
  BY DEF EraseBefore
<1>1. /\ Calm(con) /\ con.x = prompt.x + cursor /\ con.y = prompt.y /\ LineShown
      /\ prompt.x \in 0..(Columns - 1) /\ Len(line) \in Nat /\ cursor \in 0..Len(line)
      /\ line \in Seq(TypedChars)
      /\ Len(line) < BufferSize /\ prompt.x + Len(line) < Columns
  BY <1>0, EditingFacts
<1>2. cursor \in 1..Len(line) /\ cursor' = cursor - 1 /\ cursor' \in 0..(Len(line) - 1)
  BY <1>1, <1>a
<1>3. /\ line' \in Seq(TypedChars) /\ Len(line') = Len(line) - 1
      /\ cursor = Len(line) => \A i \in 1..(Len(line) - 1) : line'[i] = line[i]
  BY <1>1, <1>2, <1>a, RemovedIs
<1>4. line' \in Seq(Glyphs \union {Space})
  BY <1>3, LineConstants
<1>5. cursor' \in 0..Len(line')
  BY <1>2, <1>3
<1>6. Len(line') < BufferSize /\ prompt.x + Len(line') < Columns
  BY <1>1, <1>3, ConsoleConstants, LineConstants
<1>7. /\ Calm(con') /\ con'.x = prompt.x + cursor' /\ con'.y = prompt.y
      /\ overprinted \/ RowShows(con', prompt.x, prompt.y, line')
  <2>1. CASE cursor = Len(line)
    <3> DEFINE h == Hide(con)
               p == Backspace(h)
    <3>1. Calm(h) /\ SameCells(con, h)
      BY <1>1, CursorFacts
    <3>2. h.x > 0
      BY <1>1, <1>2, <3>1 DEF SameCells
    <3> HIDE DEF h
    <3>3. /\ Calm(p) /\ p.x = h.x - 1 /\ p.y = h.y
          /\ \A column \in 0..(Columns - 1) :
                p.cells[h.y][column] = IF column = h.x - 1 THEN {} ELSE h.cells[h.y][column]
      BY <3>1, <3>2, BackspaceFacts
    <3>4. con' = Show(p)
      BY <1>a, <2>1 DEF h
    <3> HIDE DEF p
    <3>5. Calm(con') /\ SameCells(p, con')
      BY <3>3, <3>4, CursorFacts
    <3>6. con'.x = prompt.x + cursor' /\ con'.y = prompt.y
      <4>1. con'.x = con.x - 1 /\ con'.y = con.y
        BY <3>1, <3>3, <3>5 DEF SameCells
      <4>2. (prompt.x + cursor) - 1 = prompt.x + (cursor - 1)
        BY <1>1
      <4> QED BY <1>1, <1>2, <4>1, <4>2
    <3>7. ASSUME ~overprinted, NEW column \in prompt.x..(Columns - 1)
          PROVE  con'.cells[prompt.y][column] =
                   IF column - prompt.x < Len(line') THEN {line'[column - prompt.x + 1]} \ {Space}
                   ELSE {}
      <4>1. con.cells[prompt.y][column] =
              IF column - prompt.x < Len(line) THEN {line[column - prompt.x + 1]} \ {Space} ELSE {}
        BY <1>1, <3>7 DEF LineShown, RowShows
      <4>2. con'.cells[prompt.y][column] =
              IF column = con.x - 1 THEN {} ELSE con.cells[prompt.y][column]
        BY <1>1, <3>1, <3>3, <3>5 DEF SameCells
      <4>3. column \in Int /\ prompt.x \in Int /\ column >= prompt.x
        BY <1>1, ConsoleConstants
      <4>4. CASE column = con.x - 1
        <5>1. ~(column - prompt.x < Len(line'))
          BY <1>1, <1>3, <2>1, <4>3, <4>4
        <5> QED BY <4>2, <4>4, <5>1
      <4>5. CASE column # con.x - 1
        <5>1. column - prompt.x # Len(line) - 1
          BY <1>1, <2>1, <4>3, <4>5
        <5>2. column - prompt.x < Len(line') <=> column - prompt.x < Len(line)
          BY <1>1, <1>3, <4>3, <5>1
        <5>3. column - prompt.x < Len(line') => line'[column - prompt.x + 1] = line[column - prompt.x + 1]
          BY <1>1, <1>3, <2>1, <4>3
        <5> QED BY <4>1, <4>2, <4>5, <5>2, <5>3
      <4> QED BY <4>4, <4>5
    <3> QED BY <3>5, <3>6, <3>7 DEF RowShows
  <2>2. CASE cursor # Len(line)
    <3>1. con' = Redrawn(line', cursor')
      BY <1>a, <2>2
    <3> QED BY <1>1, <1>4, <1>5, <1>6, <3>1, RedrawnFacts
  <2> QED BY <2>1, <2>2
<1> QED BY <1>0, <1>3, <1>5, <1>6, <1>7, EditStep

\* shell_delete.
LEMMA EraseUnderStep ==
    ASSUME EditorInv, EraseUnder PROVE EditorInv'
<1> USE DEF EraseUnder
<1>0. EditDone /\ mode = "events"
  BY DEF EditDone
<1>1. /\ Calm(con) /\ con.y = prompt.y
      /\ prompt.x \in 0..(Columns - 1) /\ Len(line) \in Nat /\ cursor \in 0..Len(line)
      /\ line \in Seq(TypedChars)
      /\ Len(line) < BufferSize /\ prompt.x + Len(line) < Columns
  BY <1>0, EditingFacts
<1>2. cursor + 1 \in 1..Len(line) /\ cursor' = cursor
  BY <1>1
<1>3. line' \in Seq(TypedChars) /\ Len(line') = Len(line) - 1
  BY <1>1, <1>2, RemovedIs
<1>4. line' \in Seq(Glyphs \union {Space})
  BY <1>3, LineConstants
<1>5. cursor' \in 0..Len(line')
  BY <1>1, <1>2, <1>3
<1>6. Len(line') < BufferSize /\ prompt.x + Len(line') < Columns
  BY <1>1, <1>3, ConsoleConstants, LineConstants
<1>7. con' = Redrawn(line', cursor')
  BY <1>2
<1>8. /\ Calm(con') /\ con'.x = prompt.x + cursor' /\ con'.y = prompt.y
      /\ RowShows(con', prompt.x, prompt.y, line')
  BY <1>1, <1>4, <1>5, <1>6, <1>7, RedrawnFacts
<1> QED BY <1>0, <1>3, <1>5, <1>6, <1>8, EditStep

\* shell_move_left and its like.
LEMMA MoveStep ==
    ASSUME EditorInv, NEW at, MoveTo(at) PROVE EditorInv'
<1> USE DEF MoveTo
<1>0. EditDone /\ mode = "events"
  BY DEF EditDone
<1>1. /\ Calm(con) /\ con.y = prompt.y /\ LineShown
      /\ prompt.x \in 0..(Columns - 1) /\ Len(line) \in Nat /\ cursor \in 0..Len(line)
      /\ line \in Seq(TypedChars)
      /\ Len(line) < BufferSize /\ prompt.x + Len(line) < Columns
  BY <1>0, EditingFacts
<1>2. at \in 0..Len(line) /\ cursor' = at /\ line' = line
  OBVIOUS
<1>3. prompt.x + at \in 0..(Columns - 1)
  BY <1>1, <1>2, ConsoleConstants
<1> DEFINE h == Hide(con)
           p == SetCursor(h, prompt.x + at, prompt.y)
<1>4. Calm(h) /\ SameCells(con, h)
  BY <1>1, CursorFacts
<1> HIDE DEF h
<1>5. h.y = prompt.y
  BY <1>1, <1>4 DEF SameCells
<1>6. Calm(p) /\ p.x = prompt.x + at /\ p.y = prompt.y /\ p.cells = h.cells
  BY <1>3, <1>4, <1>5, SetCursorFacts
<1>7. con' = Show(p)
  BY DEF h
<1> HIDE DEF p
<1>8. Calm(con') /\ SameCells(p, con')
  BY <1>6, <1>7, CursorFacts
<1>9. con'.cells = con.cells
  BY <1>4, <1>6, <1>8 DEF SameCells
<1>10. con'.x = prompt.x + cursor' /\ con'.y = prompt.y
  BY <1>2, <1>6, <1>8 DEF SameCells
<1>11. overprinted \/ RowShows(con', prompt.x, prompt.y, line')
  BY <1>1, <1>2, <1>9 DEF LineShown, RowShows
<1> QED BY <1>0, <1>1, <1>2, <1>8, <1>10, <1>11, EditStep

\* A command prints: behind a newline or a wrap the row is empty, and a carriage
\* return in the row is remembered.
LEMMA PrintStep ==
    ASSUME EditorInv, NEW char \in PrintedChars, PrintChar(char) PROVE EditorInv'
<1>1. /\ Running /\ con' = Putc(con, char) /\ UNCHANGED <<line, cursor, prompt, mode>>
      /\ overprinted' = (con'.y = con.y /\ (overprinted \/ (char = CR /\ con.x > 0)))
  BY DEF PrintChar
<1>2. EditorTypes /\ EditorPhases
  BY DEF EditorInv
<1>3. CASE con.depth = 0
  <2>1. Calm(con) /\ FreeAhead /\ char \in Chars /\ con.x \in 0..(Columns - 1)
    BY <1>1, <1>2, <1>3, LineConstants DEF EditorTypes, EditorPhases, Consoles
  <2>2. /\ Calm(con')
        /\ con'.y # con.y => con'.x = 0 /\ BlankFrom(con', 0)
        /\ BlankFrom(con, con.x) /\ (char = CR => con.x = 0) => BlankFrom(con', con'.x)
    BY <1>1, <2>1, PutcFacts
  <2>3. con' \in Consoles /\ con'.depth = 0
    BY <2>2 DEF Calm
  <2>4. overprinted' \/ BlankFrom(con', con'.x)
    <3>1. CASE con'.y # con.y
      <4>1. con'.x = 0 /\ BlankFrom(con', 0)
        BY <2>2, <3>1
      <4> QED BY <4>1
    <3>2. CASE con'.y = con.y /\ ~overprinted'
      <4>1. ~overprinted /\ (char = CR => con.x = 0)
        <5>1. ~(overprinted \/ (char = CR /\ con.x > 0))
          BY <1>1, <3>2, Zenon
        <5>2. ~(con.x > 0) => con.x = 0
          BY <2>1, ConsoleConstants
        <5> QED BY <5>1, <5>2, Zenon
      <4> QED BY <2>1, <2>2, <4>1 DEF FreeAhead
    <3> QED BY <3>1, <3>2
  <2>5. EditorTypes'
    BY <1>1, <1>2, <2>2, <2>3 DEF EditorTypes
  <2>6. FreeAhead'
    BY <2>4 DEF FreeAhead, BlankFrom
  <2>7. EditorPhases'
    BY <1>1, <1>2, <2>3, <2>6 DEF EditorPhases, Running
  <2> QED BY <2>5, <2>7 DEF EditorInv
<1>4. CASE con.depth # 0
  <2>1. con' = con
    <3>1. con.depth > 0
      BY <1>2, <1>4 DEF EditorTypes, Consoles
    <3> QED BY <1>1, <3>1 DEF Putc, Suspended
  <2>2. EditorTypes'
    BY <1>1, <1>2, <2>1 DEF EditorTypes
  <2>3. EditorPhases'
    BY <1>1, <1>2, <1>4, <2>1 DEF EditorPhases, Running
  <2> QED BY <2>2, <2>3 DEF EditorInv
<1> QED BY <1>3, <1>4

\* Programs take the screen, draw, and give it back cleared.
LEMMA ProgramStep ==
    ASSUME EditorInv, StartLua \/ DrawGraphics \/ EndLua PROVE EditorInv'
<1>1. EditorTypes /\ EditorPhases /\ con \in Consoles
  BY DEF EditorInv, EditorTypes
<1>2. ASSUME con' \in Consoles, con'.depth > 0, Running, overprinted' \in BOOLEAN,
             UNCHANGED <<line, cursor, prompt, mode>>
      PROVE  EditorInv'
  <2>1. EditorTypes'
    BY <1>1, <1>2 DEF EditorTypes
  <2>2. EditorPhases'
    BY <1>1, <1>2 DEF EditorPhases, Running
  <2> QED BY <2>1, <2>2 DEF EditorInv
<1>3. CASE StartLua
  BY <1>1, <1>2, <1>3, SuspendFacts DEF StartLua, EditorTypes
<1>4. CASE DrawGraphics
  <2> DEFINE cells == [row \in DOMAIN con.cells |-> [column \in DOMAIN BlankRow |-> Glyphs]]
  <2>1. con' = [con EXCEPT !.cells = cells, !.bars = Places] /\ con.depth > 0
    BY <1>4 DEF DrawGraphics, Suspended
  <2>2. cells \in [0..(Rows - 1) -> [0..(Columns - 1) -> SUBSET Glyphs]]
    BY <1>1 DEF BlankRow, Consoles
  <2> HIDE DEF cells
  <2>3. con' \in Consoles /\ con'.depth > 0
    BY <1>1, <2>1, <2>2 DEF Consoles
  <2> QED BY <1>1, <1>2, <1>4, <2>3 DEF DrawGraphics, EditorTypes
<1>5. CASE EndLua
  <2>1. /\ Running /\ con.depth > 0 /\ con' = Resume(con) /\ UNCHANGED <<line, cursor, prompt, mode>>
        /\ overprinted' = (overprinted /\ con'.depth > 0)
    BY <1>5 DEF EndLua, Suspended
  <2>2. con' \in Consoles /\ (con'.depth = 0 => Calm(con') /\ con'.x = 0 /\ BlankFrom(con', 0))
    BY <1>1, <2>1, ResumeFacts
  <2>3. overprinted' \in BOOLEAN
    BY <1>1, <2>1 DEF EditorTypes
  <2>4. CASE con'.depth = 0
    <3>1. EditorTypes'
      BY <1>1, <2>1, <2>2, <2>3, <2>4 DEF EditorTypes
    <3>2. BlankFrom(con', con'.x)
      BY <2>2, <2>4
    <3>3. FreeAhead'
      BY <3>2 DEF FreeAhead, BlankFrom
    <3>4. EditorPhases'
      BY <1>1, <2>1, <2>4, <3>3 DEF EditorPhases, Running
    <3> QED BY <3>1, <3>4 DEF EditorInv
  <2>5. CASE con'.depth # 0
    <3>1. con'.depth > 0
      BY <2>2, <2>5 DEF Consoles
    <3> QED BY <1>2, <2>1, <2>2, <2>3, <3>1
  <2> QED BY <2>4, <2>5
<1> QED BY <1>3, <1>4, <1>5

\* From the boot script to the first update, and from one update to the next.
LEMMA UpdateStep ==
    ASSUME EditorInv, EndBoot \/ BeginUpdate \/ EndUpdate PROVE EditorInv'
<1>1. EditorTypes /\ EditorPhases
  BY DEF EditorInv
<1>2. CASE EndBoot
  <2>1. /\ mode = "boot" /\ mode' = "update" /\ con.depth = 0
        /\ UNCHANGED <<con, line, cursor, prompt, overprinted>>
    BY <1>1, <1>2 DEF EndBoot, Suspended, EditorTypes, Consoles
  <2>2. line = <<>> /\ FreeAhead
    BY <1>1, <2>1 DEF EditorPhases, Running
  <2>3. InSync => LineShown
    <3> SUFFICES ASSUME InSync PROVE LineShown
      OBVIOUS
    <3>1. cursor = 0 /\ con \in Consoles /\ prompt.x \in Int
      BY <1>1, <2>2 DEF EditorTypes
    <3>2. con.x = prompt.x /\ con.y = prompt.y
      BY <3>1 DEF InSync
    <3> QED BY <2>2, <3>1, <3>2, NothingShown DEF FreeAhead, LineShown
  <2>4. EditorTypes'
    BY <1>1, <2>1 DEF EditorTypes
  <2>5. InSync' = InSync /\ LineShown' = LineShown /\ FreeAhead' = FreeAhead
    BY <2>1 DEF InSync, LineShown, FreeAhead, RowShows, BlankFrom
  <2>6. EditorPhases'
    BY <1>1, <2>1, <2>2, <2>3, <2>5 DEF EditorPhases, Running
  <2> QED BY <2>4, <2>6 DEF EditorInv
<1>3. CASE BeginUpdate
  <2>1. mode = "update" /\ mode' = "events" /\ con.depth = 0 /\ Calm(con)
    BY <1>1, <1>3 DEF BeginUpdate, EditorPhases, EditorTypes
  <2>2. CASE InSync /\ UNCHANGED <<con, line, cursor, prompt, overprinted>>
    <3>1. EditorTypes'
      BY <1>1, <2>1, <2>2 DEF EditorTypes
    <3>2. InSync' /\ LineShown'
      BY <1>1, <2>1, <2>2 DEF EditorPhases, InSync, LineShown, RowShows
    <3>3. EditorPhases'
      BY <1>1, <2>1, <2>2, <3>2 DEF EditorPhases, Running
    <3> QED BY <3>1, <3>3 DEF EditorInv
  <2>3. CASE ~InSync /\ line' = <<>> /\ cursor' = 0 /\ ShowPrompt(Hide(con)) /\ StaysOverprinted
    <3>1. FreeAhead
      BY <1>1, <2>1, <2>3 DEF EditorPhases
    <3>2. Calm(Hide(con)) /\ SameCells(con, Hide(con))
      BY <2>1, CursorFacts
    <3> QED BY <1>1, <2>1, <2>3, <3>1, <3>2, PromptStep DEF SameCells
  <2> QED BY <1>3, <2>2, <2>3 DEF BeginUpdate
<1>4. CASE EndUpdate
  <2>1. /\ mode = "events" /\ mode' = "update" /\ con' \in {con, Blink(con)}
        /\ UNCHANGED <<line, cursor, prompt, overprinted>>
    BY <1>4 DEF EndUpdate
  <2>2. con.depth = 0 /\ Calm(con) /\ InSync /\ LineShown
    BY <1>1, <2>1 DEF EditorTypes, EditorPhases
  <2>3. Calm(con') /\ SameCells(con, con')
    BY <2>1, <2>2, CursorFacts DEF SameCells
  <2>4. con' \in Consoles /\ con'.depth = 0
    BY <2>3 DEF Calm
  <2>5. EditorTypes'
    BY <1>1, <2>1, <2>3, <2>4 DEF EditorTypes
  <2>6. InSync' /\ LineShown'
    BY <2>1, <2>2, <2>3 DEF InSync, LineShown, RowShows, SameCells
  <2>7. EditorPhases'
    BY <1>1, <2>1, <2>4, <2>6 DEF EditorPhases, Running
  <2> QED BY <2>5, <2>7 DEF EditorInv
<1> QED BY <1>2, <1>3, <1>4

\* A command begins in an empty row and ends with a prompt.
LEMMA CommandStep ==
    ASSUME EditorInv, Enter \/ EndCommand PROVE EditorInv'
<1>1. EditorTypes /\ EditorPhases
  BY DEF EditorInv
<1>2. CASE Enter
  <2> DEFINE h == Hide(con)
             p == SetCursor(h, prompt.x + Len(line), prompt.y)
  <2>1. /\ mode = "events" /\ mode' = "command" /\ con' = Putc(p, LF)
        /\ UNCHANGED <<line, cursor, prompt>>
        /\ overprinted' = (overprinted /\ con'.y = con.y)
    BY <1>2 DEF Enter, StaysOverprinted
  <2>2. /\ Calm(con) /\ con.y = prompt.y
        /\ prompt.x \in 0..(Columns - 1) /\ Len(line) \in Nat /\ prompt.x + Len(line) < Columns
    BY <2>1, EditingFacts
  <2>3. Calm(h) /\ SameCells(con, h)
    BY <2>2, CursorFacts
  <2> HIDE DEF h
  <2>4. prompt.x + Len(line) \in 0..(Columns - 1) /\ h.y = prompt.y
    BY <2>2, <2>3, ConsoleConstants DEF SameCells
  <2>5. Calm(p) /\ p.y = prompt.y
    BY <2>3, <2>4, SetCursorFacts
  <2> HIDE DEF p
  <2>6. /\ Calm(con') /\ con'.y # p.y
        /\ con'.x = 0 /\ BlankFrom(con', 0)
    <3>1. LF \in Chars
      BY DEF Chars
    <3> QED BY <2>1, <2>5, <3>1, PutcFacts
  <2>7. con' \in Consoles /\ con'.depth = 0
    BY <2>6 DEF Calm
  <2>8. EditorTypes'
    BY <1>1, <2>1, <2>6, <2>7 DEF EditorTypes
  <2>9. FreeAhead'
    <3>1. BlankFrom(con', con'.x)
      BY <2>6
    <3> QED BY <3>1 DEF FreeAhead, BlankFrom
  <2>10. EditorPhases'
    BY <1>1, <2>1, <2>7, <2>9 DEF EditorPhases, Running
  <2> QED BY <2>8, <2>10 DEF EditorInv
<1>3. CASE EndCommand
  <2>1. /\ mode = "command" /\ mode' = "events" /\ line' = <<>> /\ cursor' = 0
        /\ ShowPrompt(con) /\ StaysOverprinted /\ con.depth = 0
    BY <1>1, <1>3 DEF EndCommand, Suspended, EditorTypes, Consoles
  <2>2. Calm(con) /\ FreeAhead
    BY <1>1, <2>1 DEF EditorTypes, EditorPhases, Running
  <2> QED BY <1>1, <2>1, <2>2, PromptStep
<1> QED BY <1>2, <1>3

\* Every step keeps the invariant.
LEMMA EditorInvNext == EditorInv /\ [EditorNext]_editorVars => EditorInv'
<1> SUFFICES ASSUME EditorInv, [EditorNext]_editorVars PROVE EditorInv'
  OBVIOUS
<1>1. CASE UNCHANGED editorVars
  <2>1. EditorTypes'
    BY <1>1 DEF EditorInv, EditorTypes, editorVars
  <2>2. EditorPhases'
    BY <1>1 DEF EditorInv, EditorPhases, editorVars, Running, InSync, LineShown, FreeAhead,
                RowShows, BlankFrom
  <2> QED BY <2>1, <2>2 DEF EditorInv
<1>2. CASE \E char \in PrintedChars : PrintChar(char)
  BY <1>2, PrintStep
<1>3. CASE StartLua \/ DrawGraphics \/ EndLua
  BY <1>3, ProgramStep
<1>4. CASE EndBoot \/ BeginUpdate \/ EndUpdate
  BY <1>4, UpdateStep
<1>5. CASE \E char \in TypedChars : Insert(char)
  BY <1>5, InsertStep
<1>6. CASE EraseBefore
  BY <1>6, EraseBeforeStep
<1>7. CASE EraseUnder
  BY <1>7, EraseUnderStep
<1>8. CASE \E at \in 0..(BufferSize - 1) : MoveTo(at)
  BY <1>8, MoveStep
<1>9. CASE Enter \/ EndCommand
  BY <1>9, CommandStep
<1> QED BY <1>1, <1>2, <1>3, <1>4, <1>5, <1>6, <1>7, <1>8, <1>9 DEF EditorNext

\* Wherever a line is edited, the row is the line's and the console goes on
\* where the cursor is (shell.c and console.c).
THEOREM EditorInvariant == EditorSpec => []EditorInv
BY EditorInvInit, EditorInvNext, PTL DEF EditorSpec

\* The line fits its buffer and its row, the screen shows it and nothing else,
\* and there is one cursor, whatever commands and programs did to the screen
\* before (shell_update, shell_restore_prompt_if_needed, console_putc).
THEOREM EditorIsTrue == EditorSpec => []EditorTrue
BY EditorInvariant, EditorInvSuffices, PTL
=============================================================================
