--------------------------- MODULE SystemFilesProofs ---------------------------
(***************************************************************************)
(* What is proved of the files on the card: the marker of the built-in     *)
(* programs, PATH.txt and the "open with" table under 0:/.system, and the  *)
(* C streams with the FAT volume under them; for any number of programs,   *)
(* files of any length, any volume and any set of failing calls.           *)
(***************************************************************************)
EXTENDS AliasFile, PathList, FirstBoot, Stdio, FiniteSetTheorems, TLAPS

\* Types, and the index with which the loop starts.
BootTypes ==
    /\ disk \in [Apps -> {"none", "part", "builtin", "user"}]
    /\ marker \in {"none", "part", "builtin"}
    /\ boot \in {"stat", "mkdir", "open", "write", "marker", "sign", "shell"}
    /\ nextApp \in 1..(AppCount + 1)
    /\ failed \in BOOLEAN
    /\ boot = "stat" => nextApp = 1
    /\ boot \in {"mkdir", "open", "write"} => nextApp \in Apps

\* The invariant behind the installer's properties: what each of its phases
\* has written, and that a marker is only met where nothing is in part.
BootPhases ==
    /\ marker # "none" =>
          /\ boot \in {"stat", "sign", "shell"}
          /\ \A a \in Apps : disk[a] # "part"
    /\ boot \in {"mkdir", "open", "write"} =>
          \A a \in Apps : a < nextApp => disk[a] = "builtin"
    /\ boot \in {"marker", "sign"} => \A a \in Apps : disk[a] = "builtin"
    /\ boot = "sign" => marker # "none"
    /\ boot = "shell" /\ ~failed => marker # "none"

BootInv == BootTypes /\ BootPhases

LEMMA BootInvInit == BootInit => BootInv
<1> SUFFICES ASSUME BootInit PROVE BootInv
  OBVIOUS
<1>0. AppCount \in Nat \ {0}
  BY BootConstants
<1>1. /\ disk \in [Apps -> {"none", "part", "builtin", "user"}]
      /\ marker = "none" /\ boot = "stat" /\ nextApp = 1 /\ failed = FALSE
  BY DEF BootInit
<1>2. BootTypes
  <2>1. nextApp \in 1..(AppCount + 1)
    BY <1>0, <1>1
  <2> QED BY <1>1, <2>1 DEF BootTypes
<1>3. BootPhases
  BY <1>1 DEF BootPhases
<1> QED BY <1>2, <1>3 DEF BootInv

LEMMA BootTypesStep == BootTypes /\ BootNext => BootTypes'
<1> SUFFICES ASSUME BootTypes, BootNext PROVE BootTypes'
  OBVIOUS
<1>0. AppCount \in Nat \ {0} /\ 1 \in 1..(AppCount + 1) /\ 1 \in Apps
  BY BootConstants DEF Apps
<1> USE <1>0 DEF BootTypes, Phase, Fails
<1>1. CASE StatMarker
  BY <1>1 DEF StatMarker
<1>2. CASE MakeParents
  BY <1>2 DEF MakeParents
<1>3. CASE OpenApp
  BY <1>3 DEF OpenApp
<1>4. CASE WriteApp
  <2>1. /\ nextApp \in Apps
        /\ nextApp + 1 \in 1..(AppCount + 1)
        /\ nextApp # AppCount => nextApp + 1 \in Apps
    BY <1>4 DEF WriteApp, Apps
  <2> QED BY <1>4, <2>1 DEF WriteApp
<1>5. CASE OpenMarker
  BY <1>5 DEF OpenMarker
<1>6. CASE WriteMarker
  BY <1>6 DEF WriteMarker
<1>7. ASSUME NEW a \in Apps, ChangeApp(a) PROVE BootTypes'
  BY <1>7 DEF ChangeApp
<1>8. CASE Reboot
  BY <1>8 DEF Reboot
<1> QED BY <1>1, <1>2, <1>3, <1>4, <1>5, <1>6, <1>7, <1>8 DEF BootNext

\* Every step of the installer, the user and the power keeps the phases.
LEMMA BootPhasesStep == BootInv /\ BootNext => BootPhases'
<1> SUFFICES ASSUME BootInv, BootNext PROVE BootPhases'
  OBVIOUS
<1>0. AppCount \in Nat \ {0} /\ BootTypes /\ BootPhases
  BY BootConstants DEF BootInv
<1> USE <1>0 DEF BootTypes, BootPhases, Apps, Phase, Fails
<1>1. CASE StatMarker
  BY <1>1 DEF StatMarker
<1>2. CASE MakeParents
  BY <1>2 DEF MakeParents
<1>3. CASE OpenApp
  BY <1>3 DEF OpenApp
<1>4. CASE WriteApp
  BY <1>4 DEF WriteApp
<1>5. CASE OpenMarker
  BY <1>5 DEF OpenMarker
<1>6. CASE WriteMarker
  BY <1>6 DEF WriteMarker
<1>7. ASSUME NEW a \in Apps, ChangeApp(a) PROVE BootPhases'
  BY <1>7 DEF ChangeApp
<1>8. CASE Reboot
  BY <1>8 DEF Reboot
<1> QED BY <1>1, <1>2, <1>3, <1>4, <1>5, <1>6, <1>7, <1>8 DEF BootNext

LEMMA BootInvNext == BootInv /\ [BootNext]_bootVars => BootInv'
<1> SUFFICES ASSUME BootInv, [BootNext]_bootVars PROVE BootInv'
  OBVIOUS
<1>1. CASE BootNext
  BY <1>1, BootTypesStep, BootPhasesStep DEF BootInv
<1>2. CASE UNCHANGED bootVars
  BY <1>2 DEF bootVars, BootInv, BootTypes, BootPhases
<1> QED BY <1>1, <1>2

\* A marker vouches for complete programs, after any crashes and failures of
\* any number of boots.
THEOREM MarkerVouches == BootSpec => []MarkerMeansInstalled
<1>1. BootInv => MarkerMeansInstalled
  BY DEF BootInv, BootPhases, MarkerMeansInstalled
<1> QED BY <1>1, BootInvInit, BootInvNext, PTL DEF BootSpec

\* No boot overwrites what the user made of a program once the marker is there.
THEOREM UserFilesSurvive == BootSpec => UserFilesKept
<1>1. ASSUME BootInv, [BootNext]_bootVars
      PROVE  [marker # "none" /\ boot # "shell" => disk' = disk]_bootVars
  <2>1. CASE UNCHANGED bootVars
    BY <2>1
  <2>2. CASE BootNext
    BY <1>1, <2>2 DEF BootInv, BootPhases, BootNext, StatMarker, MakeParents, OpenApp, WriteApp,
       OpenMarker, WriteMarker, ChangeApp, Reboot, Fails, Phase
  <2> QED BY <1>1, <2>1, <2>2
<1> QED BY <1>1, BootInvInit, BootInvNext, PTL DEF BootSpec, UserFilesKept

-----------------------------------------------------------------------------
\* A set of naturals that has 0, and n + 1 with n, has every natural: else the
\* successor would put the finite set of its numbers up to x into a smaller one.
LEMMA SetInduction ==
    ASSUME NEW S, 0 \in S, \A n \in Nat : n \in S => n + 1 \in S
    PROVE  Nat \subseteq S
<1> SUFFICES ASSUME NEW x \in Nat, x \notin S PROVE FALSE
  OBVIOUS
<1> DEFINE A == S \intersect (0..x)
           f == [n \in A |-> n + 1]
<1>1. IsFiniteSet(A)
  <2>1. IsFiniteSet(0..x)
    BY FS_Interval
  <2> QED BY <2>1, FS_Subset
<1>2. f \in Injection(A, A \ {0})
  BY DEF Injection, IsInjective
<1>3. Cardinality(A) <= Cardinality(A \ {0})
  <2>1. IsFiniteSet(A \ {0})
    BY <1>1, FS_Subset
  <2> HIDE DEF A, f
  <2> QED BY <1>2, <2>1, FS_Injection
<1>4. Cardinality(A \ {0}) = Cardinality(A) - 1
  <2>1. 0 \in A
    OBVIOUS
  <2> HIDE DEF A
  <2> QED BY <1>1, <2>1, FS_RemoveElement
<1> QED BY <1>1, <1>3, <1>4, FS_CardinalityType

\* The recursion by which a file is read, a line at a time: nothing up to "first",
\* and then the lines in "keep".
IsReading(f, lines, keep, first, N) ==
    f = [n \in 0..N |-> IF n <= first THEN <<>>
                        ELSE IF n \in keep THEN Append(f[n - 1], lines[n])
                        ELSE f[n - 1]]
\* It has a solution, for a file of any length.
LEMMA Recursion ==
    ASSUME NEW lines, NEW keep, NEW first \in Nat, NEW N \in Nat
    PROVE  \E f : IsReading(f, lines, keep, first, N)
<1> DEFINE Next(g, n) == IF n <= first THEN <<>>
                         ELSE IF n \in keep THEN Append(g[n - 1], lines[n])
                         ELSE g[n - 1]
           Solves(f, m) == f = [n \in 0..m |-> Next(f, n)]
           S == {m \in Nat : \E f : Solves(f, m)}
<1>1. 0 \in S
  <2> DEFINE h == [n \in 0..0 |-> <<>>]
  <2>1. Solves(h, 0)
    <3>1. \A n \in 0..0 : h[n] = Next(h, n)
      OBVIOUS
    <3>2. h = [n \in 0..0 |-> h[n]]
      OBVIOUS
    <3> HIDE DEF h, Next
    <3> QED BY <3>1, <3>2
  <2> QED BY <2>1
<1>2. \A m \in Nat : m \in S => m + 1 \in S
  <2> SUFFICES ASSUME NEW m \in Nat, NEW g, Solves(g, m) PROVE \E f : Solves(f, m + 1)
    <3> HIDE DEF Solves
    <3> QED BY SMT
  <2> DEFINE f == [n \in 0..(m + 1) |-> IF n = m + 1 THEN Next(g, n) ELSE g[n]]
  <2>2. DOMAIN g = 0..m /\ \A n \in 0..m : g[n] = Next(g, n)
    OBVIOUS
  <2>3. \A n \in 0..(m + 1) : f[n] = Next(f, n)
    <3> SUFFICES ASSUME NEW n \in 0..(m + 1) PROVE f[n] = Next(f, n)
      OBVIOUS
    <3>1. n <= first \/ (n - 1 \in 0..m /\ f[n - 1] = g[n - 1])
      OBVIOUS
    <3>2. Next(f, n) = Next(g, n)
      BY <3>1
    <3>3. CASE n = m + 1
      BY <3>2, <3>3
    <3>4. CASE n # m + 1
      <4>1. n \in 0..m /\ f[n] = g[n]
        BY <3>4
      <4>2. g[n] = Next(g, n)
        BY <2>2, <4>1
      <4> HIDE DEF f, Next
      <4> QED BY <3>2, <4>1, <4>2
    <3> QED BY <3>3, <3>4
  <2>4. Solves(f, m + 1)
    <3>1. f = [n \in 0..(m + 1) |-> f[n]]
      OBVIOUS
    <3> HIDE DEF f, Next
    <3> QED BY <2>3, <3>1
  <2> QED BY <2>4
<1>3. N \in S
  <2> HIDE DEF S
  <2> QED BY <1>1, <1>2, SetInduction
<1>4. PICK f : Solves(f, N)
  BY <1>3
<1>5. IsReading(f, lines, keep, first, N)
  BY <1>4 DEF IsReading
<1> QED BY <1>5

\* A list without duplicates has none with an element it did not have.
LEMMA AppendKeepsInjective ==
    ASSUME NEW D, NEW s \in Seq(D), NEW x \in D, IsInjective(s),
           \A j \in 1..Len(s) : s[j] # x
    PROVE  IsInjective(Append(s, x))
BY DEF IsInjective

\* Dropping a line keeps the others in order, and all of them if it is not there.
LEMMA DroppingFacts ==
    ASSUME NEW D, NEW s \in Seq(D), NEW x
    PROVE  /\ Dropping(s, x) \in Seq(D)
           /\ Len(Dropping(s, x)) <= Len(s)
           /\ (\A i \in 1..Len(s) : s[i] # x) => Dropping(s, x) = s
           /\ IsInjective(s) => IsInjective(Dropping(s, x))
           /\ \A j \in 1..Len(Dropping(s, x)) : Dropping(s, x)[j] # x
<1> DEFINE N == Len(s)
           Step(f, n) == IF n = 0 THEN <<>>
                         ELSE IF s[n] = x THEN f[n - 1] ELSE Append(f[n - 1], s[n])
           Solves(f) == f = [n \in 0..N |-> Step(f, n)]
           kept == CHOOSE f : Solves(f)
<1>0. N \in Nat
  OBVIOUS
<1>1. Solves(kept)
  <2> DEFINE K == {n \in 1..N : s[n] # x}
             Other(f, n) == IF n <= 0 THEN <<>>
                            ELSE IF n \in K THEN Append(f[n - 1], s[n]) ELSE f[n - 1]
  <2>1. PICK f : f = [n \in 0..N |-> Other(f, n)]
    <3>1. PICK f : IsReading(f, s, K, 0, N)
      <4> HIDE DEF K, N
      <4> QED BY <1>0, Recursion
    <3>2. f = [n \in 0..N |-> Other(f, n)]
      <4> HIDE DEF K, N
      <4> QED BY <3>1 DEF IsReading
    <3> HIDE DEF Other
    <3> QED BY <3>2
  <2>2. \A n \in 0..N : Other(f, n) = Step(f, n)
    OBVIOUS
  <2>3. Solves(f)
    <3> HIDE DEF Other, Step
    <3> QED BY <2>1, <2>2
  <2> HIDE DEF Solves
  <2> QED BY <2>3
<1>2. Dropping(s, x) = kept[N]
  BY DEF Dropping
<1>3. \A n \in 0..N : kept[n] = Step(kept, n)
  <2> HIDE DEF kept, Step
  <2> QED BY <1>1
<1> HIDE DEF kept
<1> DEFINE Good(n) ==
        /\ kept[n] \in Seq(D) /\ Len(kept[n]) <= n
        /\ \A j \in 1..Len(kept[n]) : kept[n][j] # x /\ \E i \in 1..n : kept[n][j] = s[i]
        /\ (\A i \in 1..n : s[i] # x) => kept[n] = SubSeq(s, 1, n)
        /\ IsInjective(s) => IsInjective(kept[n])
      S == {n \in Nat : n <= N => Good(n)}
<1>4. 0 \in S
  <2>1. kept[0] = <<>>
    BY <1>0, <1>3
  <2>2. SubSeq(s, 1, 0) = <<>> /\ IsInjective(<<>>)
    BY DEF IsInjective
  <2>3. Good(0)
    <3> USE <2>1, <2>2
    <3>1. kept[0] \in Seq(D) /\ Len(kept[0]) = 0
      OBVIOUS
    <3>2. 1..0 = {}
      OBVIOUS
    <3> QED BY <3>1, <3>2
  <2> QED BY <2>3
<1>5. \A n \in Nat : n \in S => n + 1 \in S
  <2> SUFFICES ASSUME NEW n \in Nat, n + 1 <= N, Good(n) PROVE Good(n + 1)
    BY <1>0
  <2>1. /\ n + 1 \in 1..N /\ s[n + 1] \in D
        /\ kept[n + 1] = IF s[n + 1] = x THEN kept[n] ELSE Append(kept[n], s[n + 1])
    BY <1>0, <1>3
  <2>2. CASE s[n + 1] = x
    BY <2>1, <2>2
  <2>3. CASE s[n + 1] # x
    <3> DEFINE k == kept[n]
               t == Append(k, s[n + 1])
    <3>1. kept[n + 1] = t
      BY <2>1, <2>3
    <3>2. /\ t \in Seq(D) /\ Len(t) = Len(k) + 1
          /\ t[Len(k) + 1] = s[n + 1] /\ \A i \in 1..Len(k) : t[i] = k[i]
      BY <2>1
    <3>3. \A j \in 1..Len(t) : t[j] # x /\ \E i \in 1..(n + 1) : t[j] = s[i]
      <4> SUFFICES ASSUME NEW j \in 1..Len(t) PROVE t[j] # x /\ \E i \in 1..(n + 1) : t[j] = s[i]
        OBVIOUS
      <4>1. CASE j = Len(k) + 1
        BY <2>3, <3>2, <4>1
      <4>2. CASE j # Len(k) + 1
        <5> HIDE DEF t
        <5>1. j \in 1..Len(k)
          BY <3>2, <4>2
        <5>2. PICK i \in 1..n : k[j] = s[i]
          BY <5>1
        <5> QED BY <3>2, <5>1, <5>2
      <4> QED BY <4>1, <4>2
    <3>4. ASSUME \A i \in 1..(n + 1) : s[i] # x PROVE t = SubSeq(s, 1, n + 1)
      <4>1. k = SubSeq(s, 1, n)
        BY <3>4
      <4>2. SubSeq(s, 1, n + 1) = Append(SubSeq(s, 1, n), s[n + 1])
        BY <1>0, <2>1
      <4> QED BY <4>1, <4>2
    <3>5. ASSUME IsInjective(s) PROVE IsInjective(Append(k, s[n + 1]))
      <4>1. \A i \in 1..n : s[i] # s[n + 1]
        BY <1>0, <2>1, <3>5 DEF IsInjective
      <4>2. \A j \in 1..Len(k) : k[j] # s[n + 1]
        BY <4>1
      <4>3. k \in Seq(D) /\ IsInjective(k)
        BY <3>5
      <4> HIDE DEF k, t
      <4> QED BY <2>1, <4>2, <4>3, AppendKeepsInjective
    <3>6. t = Append(k, s[n + 1])
      OBVIOUS
    <3>7. Len(k) <= n
      OBVIOUS
    <3> HIDE DEF t, k
    <3>8. kept[n + 1] \in Seq(D) /\ Len(kept[n + 1]) <= n + 1
      BY <3>1, <3>2, <3>7
    <3>9. IsInjective(s) => IsInjective(kept[n + 1])
      BY <3>1, <3>5, <3>6
    <3> QED BY <3>1, <3>3, <3>4, <3>8, <3>9
  <2> QED BY <2>2, <2>3
<1>6. Good(N)
  <2>1. N \in S
    <3> HIDE DEF S
    <3> QED BY <1>0, <1>4, <1>5, SetInduction
  <2> QED BY <1>0, <2>1
<1>7. SubSeq(s, 1, N) = s
  OBVIOUS
<1> QED BY <1>2, <1>6, <1>7

-----------------------------------------------------------------------------
\* PATH.txt.
PathLines == Directories \union {Note}
Stages == {"idle", "load", "add", "remove", "open", "write"}
Refusals == {"already_present", "not_found", "not_directory", "too_many_entries"}
PathTypes ==
    /\ path \in Seq(PathLines) /\ original \in Seq(PathLines)
    /\ list \in Seq(Directories) /\ put \in Nat
    /\ stage \in Stages /\ change \in Changes \union {NoChange}
    /\ stage # "idle" => change \in Changes /\ status = "none"

\* A list that may be written: it loads, and has no entry twice that had none.
Fit(l) ==
    /\ l \in Seq(Directories) /\ Len(l) <= MaxEntries
    /\ IsInjective(Entries(original)) => IsInjective(l)
\* The rewrite stopped.
PartWritten ==
    /\ status \in {"io_error", "crash"}
    /\ Fit(Changed) /\ path \in Seq(Directories) /\ BeginsAs(path, Changed)
PathPhases ==
    /\ stage \in {"load", "add", "remove", "open"} => path = original /\ put = 0
    /\ stage \in {"add", "remove"} =>
          list = Entries(original) /\ Fit(list) /\ stage = change.kind
    /\ stage \in {"open", "write"} => list = Changed /\ Fit(list)
    /\ stage = "write" => put <= Len(list) /\ path = SubSeq(list, 1, put)
    /\ stage = "idle" => path = original \/ PartWritten \/ status = "ok"
    /\ status = "ok" => path = Changed /\ Fit(Changed)
    /\ status \in Refusals => path = original
PathInv == PathTypes /\ PathPhases

\* What is read from PATH.txt are directories.
LEMMA EntriesType ==
    ASSUME NEW lines \in Seq(PathLines)
    PROVE  Entries(lines) \in Seq(Directories)
<1>1. /\ Entries(lines) \in Seq(PathLines)
      /\ \A j \in 1..Len(Entries(lines)) : Entries(lines)[j] # Note
  BY DroppingFacts DEF Entries
<1>2. \A j \in 1..Len(Entries(lines)) : Entries(lines)[j] \in Directories
  BY <1>1 DEF PathLines
<1> QED BY <1>1, <1>2

\* PATH.txt may hold anything at first.
LEMMA PathInvInit == PathInit => PathInv
<1> SUFFICES ASSUME PathInit PROVE PathInv
  OBVIOUS
<1>1. path \in Seq(PathLines)
  BY PathConstants DEF PathInit, PathLines
<1>2. <<>> \in Seq(Directories)
  OBVIOUS
<1> QED BY <1>1, <1>2 DEF PathInit, PathInv, PathTypes, PathPhases, Stages, Refusals

\* What a prefix of a list keeps.
LEMMA PrefixKeeps ==
    ASSUME NEW l, Fit(l), NEW n \in 0..Len(l)
    PROVE  Fit(SubSeq(l, 1, n)) /\ IsPrefix(SubSeq(l, 1, n), l)
<1> DEFINE t == SubSeq(l, 1, n)
<1>0. l \in Seq(Directories) /\ Len(l) \in Nat /\ MaxEntries \in Nat
  BY PathConstants DEF Fit
<1>1. /\ t \in Seq(Directories) /\ Len(t) = n /\ \A i \in 1..n : t[i] = l[i]
  BY <1>0
<1>2. SubSeq(t, 1, n) = t
  BY <1>1
<1>3. IsPrefix(t, l)
  BY <1>0, <1>1, <1>2 DEF IsPrefix
<1>4. ASSUME IsInjective(l) PROVE IsInjective(t)
  <2> HIDE DEF t
  <2>1. \A a, b \in 1..Len(l) : l[a] = l[b] => a = b
    BY <1>0, <1>4 DEF IsInjective
  <2>2. DOMAIN t = 1..n
    BY <1>1
  <2> QED BY <1>1, <2>1, <2>2 DEF IsInjective
<1>5. Len(t) <= MaxEntries
  <2> HIDE DEF t
  <2> QED BY <1>0, <1>1 DEF Fit
<1>6. Fit(t)
  <2> HIDE DEF t
  <2> QED BY <1>1, <1>4, <1>5 DEF Fit
<1> QED BY <1>3, <1>6

\* What is left of a list whose writing stopped begins as the list does.
LEMMA CutOffBegins ==
    ASSUME NEW l \in Seq(Directories), NEW n \in 0..Len(l), NEW p \in CutOff(SubSeq(l, 1, n))
    PROVE  p \in Seq(Directories) /\ BeginsAs(p, l)
<1> DEFINE t == SubSeq(l, 1, n)
<1>1. t \in Seq(Directories) /\ Len(t) = n /\ \A i \in 1..n : t[i] = l[i]
  OBVIOUS
<1>2. n \in Nat /\ n <= Len(l) /\ Len(l) \in Nat
  OBVIOUS
<1> HIDE DEF t
<1>3. CASE \E m \in 0..Len(t) : p = SubSeq(t, 1, m)
  <2>1. PICK m \in 0..n : p = SubSeq(t, 1, m)
    BY <1>1, <1>3
  <2>2. p \in Seq(Directories) /\ Len(p) = m /\ \A i \in 1..m : p[i] = t[i]
    BY <1>1, <2>1
  <2>3. \A i \in 1..m : p[i] = l[i]
    BY <1>1, <1>2, <2>2
  <2> QED BY <1>2, <2>2, <2>3 DEF BeginsAs
<1>4. CASE \E m \in 1..Len(t) : \E cut \in Beginnings[t[m]] : p = Append(SubSeq(t, 1, m - 1), cut)
  <2>1. PICK m \in 1..n : \E cut \in Beginnings[t[m]] : p = Append(SubSeq(t, 1, m - 1), cut)
    BY <1>1, <1>4
  <2>2. PICK cut \in Beginnings[t[m]] : p = Append(SubSeq(t, 1, m - 1), cut)
    BY <2>1
  <2>3. t[m] \in Directories /\ t[m] = l[m]
    BY <1>1, <1>2
  <2>4. cut \in Directories
    BY <2>2, <2>3, PathConstants
  <2>5. /\ SubSeq(t, 1, m - 1) \in Seq(Directories) /\ Len(SubSeq(t, 1, m - 1)) = m - 1
        /\ \A i \in 1..(m - 1) : SubSeq(t, 1, m - 1)[i] = t[i]
    BY <1>1, <1>2
  <2>6. /\ p \in Seq(Directories) /\ Len(p) = m /\ p[m] = cut
        /\ \A i \in 1..(m - 1) : p[i] = l[i]
    <3> DEFINE u == SubSeq(t, 1, m - 1)
    <3>1. u \in Seq(Directories) /\ Len(u) = m - 1 /\ \A i \in 1..(m - 1) : u[i] = l[i]
      BY <1>1, <1>2, <2>5
    <3> HIDE DEF u
    <3>2. p = Append(u, cut)
      BY <2>2 DEF u
    <3> QED BY <1>2, <2>4, <3>1, <3>2
  <2>7. p[m] \in Beginnings[l[m]]
    BY <2>2, <2>3, <2>6
  <2> QED BY <1>2, <2>6, <2>7 DEF BeginsAs
<1> QED BY <1>3, <1>4 DEF CutOff, t

\* A list of directories is what is read from the file that has it.
LEMMA ListEntries ==
    ASSUME NEW l \in Seq(Directories)
    PROVE  Entries(l) = l
<1>1. l \in Seq(PathLines)
  BY DEF PathLines
<1>2. \A i \in 1..Len(l) : l[i] # Note
  BY PathConstants
<1> QED BY <1>1, <1>2, DroppingFacts DEF Entries

\* PATH.txt tells what the status says as long as the phases are kept.
LEMMA PathInvSuffices == PathInv => PathListTrue
<1> SUFFICES ASSUME PathInv PROVE PathListTrue
  OBVIOUS
<1>1. \/ path = original
      \/ path \in Seq(Directories) /\ Fit(path) /\ IsPrefix(path, Changed)
      \/ PartWritten
  <2>1. CASE stage \in {"load", "add", "remove", "open"}
    BY <2>1 DEF PathInv, PathPhases
  <2>2. CASE stage = "write"
    <3>1. Fit(list) /\ list = Changed /\ put \in 0..Len(list) /\ path = SubSeq(list, 1, put)
      BY <2>2 DEF PathInv, PathPhases, PathTypes, Fit
    <3> QED BY <3>1, PrefixKeeps DEF Fit
  <2>3. CASE stage = "idle" /\ status = "ok"
    <3>1. path = Changed /\ Fit(path) /\ path \in Seq(Directories)
      BY <2>3 DEF PathInv, PathPhases, Fit
    <3>2. SubSeq(path, 1, Len(path)) = path /\ Len(path) \in 0..Len(path)
      BY <3>1
    <3> QED BY <3>1, <3>2, PrefixKeeps
  <2>4. CASE stage = "idle" /\ status # "ok"
    BY <2>4 DEF PathInv, PathPhases
  <2> QED BY <2>1, <2>2, <2>3, <2>4 DEF PathInv, PathTypes, Stages
<1>2. PathStatusTrue
  BY <1>1 DEF PathInv, PathPhases, PathStatusTrue, Refusals, PartWritten
<1>3. PathStaysUsable
  <2>1. CASE path = original
    <3>1. Entries(original) \in Seq(Directories)
      BY EntriesType DEF PathInv, PathTypes
    <3>2. IsInjective(Entries(original)) =>
             \A i, j \in 1..Len(Entries(path)) : Entries(path)[i] = Entries(path)[j] => i = j
      BY <2>1, <3>1 DEF IsInjective
    <3> QED BY <2>1, <3>2 DEF PathStaysUsable
  <2>2. CASE path \in Seq(Directories) /\ Fit(path)
    <3>1. Entries(path) = path
      BY <2>2, ListEntries
    <3>2. IsInjective(path) => \A i, j \in 1..Len(path) : path[i] = path[j] => i = j
      BY <2>2 DEF IsInjective
    <3> QED BY <2>2, <3>1, <3>2 DEF PathStaysUsable, Fit, Loads
  <2>3. CASE PartWritten
    <3>1. /\ status \in {"io_error", "crash"} /\ path \in Seq(Directories)
          /\ Changed \in Seq(Directories) /\ Len(Changed) <= MaxEntries
          /\ Len(path) <= Len(Changed) /\ MaxEntries \in Nat
          /\ \A i \in 1..Len(path) : path[i] = Changed[i] \/ i = Len(path)
      BY <2>3, PathConstants DEF PartWritten, Fit, BeginsAs
    <3>2. Entries(path) = path
      BY <3>1, ListEntries
    <3>3. Loads(path)
      BY <3>1, <3>2 DEF Loads
    <3>4. ASSUME IsInjective(Entries(original)), NEW i \in 1..Len(path), NEW j \in 1..Len(path),
                 i < j, path[i] = path[j]
          PROVE  j = Len(path)
      <4>1. \A m, n \in 1..Len(Changed) : Changed[m] = Changed[n] => m = n
        BY <2>3, <3>1, <3>4 DEF PartWritten, Fit, IsInjective
      <4>2. i \in 1..Len(Changed) /\ j \in 1..Len(Changed) /\ i # Len(path) /\ i # j
        BY <3>1, <3>4
      <4> QED BY <3>1, <3>4, <4>1, <4>2
    <3> QED BY <3>1, <3>2, <3>3, <3>4 DEF PathStaysUsable
  <2> QED BY <1>1, <2>1, <2>2, <2>3
<1> QED BY <1>2, <1>3 DEF PathListTrue

\* Every step of an update, a failure and a crash keep the phases.
LEMMA PathInvNext == PathInv /\ [PathNext]_pathVars => PathInv'
<1> SUFFICES ASSUME PathInv, [PathNext]_pathVars PROVE PathInv'
  OBVIOUS
<1>0. PathTypes /\ PathPhases
  BY DEF PathInv
<1>1. ASSUME UNCHANGED <<change, original>>
      PROVE  Changed' = Changed /\ \A l : Fit(l)' <=> Fit(l)
  BY <1>1 DEF Changed, Fit
<1>2. ASSUME NEW s, Reply(s), s \in Refusals \union {"io_error"}, stage # "idle",
             UNCHANGED <<change, original, path>>, path = original
      PROVE  PathInv'
  BY <1>0, <1>2 DEF Reply, PathInv, PathTypes, PathPhases, Stages, Refusals
<1>3. ASSUME NEW c \in Changes, StartChange(c) PROVE PathInv'
  <2>1. <<>> \in Seq(Directories)
    OBVIOUS
  <2> QED BY <1>0, <1>3, <2>1 DEF StartChange, PathInv, PathTypes, PathPhases, Stages, Refusals
<1>4. CASE Load
  <2>1. stage = "load" /\ path = original /\ change \in Changes /\ status = "none"
        /\ UNCHANGED <<path, change, original>>
    BY <1>0, <1>4 DEF Load, PathTypes, PathPhases
  <2>2. CASE Reply("io_error")
    BY <1>2, <2>1, <2>2
  <2>3. CASE Loads(path) /\ list' = Entries(path) /\ stage' = change.kind
             /\ UNCHANGED <<put, status>>
    <3>1. Entries(original) \in Seq(Directories)
      BY <1>0, EntriesType DEF PathTypes
    <3>2. Fit(Entries(original))
      BY <2>1, <2>3, <3>1 DEF Fit, Loads
    <3>3. change.kind \in {"add", "remove"}
      BY <2>1 DEF Changes
    <3>4. Fit(list)'
      BY <1>1, <2>1, <2>3, <3>2 DEF Fit
    <3> QED BY <1>0, <2>1, <2>3, <3>1, <3>3, <3>4
        DEF PathInv, PathTypes, PathPhases, Stages, Refusals
  <2> QED BY <1>4, <2>2, <2>3 DEF Load
<1>5. CASE AddEntry
  <2>1. /\ stage = "add" /\ path = original /\ change \in Changes /\ status = "none"
        /\ change.kind = "add" /\ list = Entries(original) /\ Fit(list)
        /\ UNCHANGED <<path, change, original>>
    BY <1>0, <1>5 DEF AddEntry, PathTypes, PathPhases
  <2>2. ASSUME NEW s, Reply(s), s \in Refusals PROVE PathInv'
    BY <1>2, <2>1, <2>2
  <2>3. ASSUME ~Contains(list, change.dir), Len(list) < MaxEntries,
               list' = Append(list, change.dir), stage' = "open", UNCHANGED <<put, status>>
        PROVE  PathInv'
    <3> DEFINE l == Append(list, change.dir)
    <3>1. change.dir \in Directories /\ list \in Seq(Directories) /\ MaxEntries \in Nat
      BY <2>1, PathConstants DEF Changes, Fit
    <3>2. l \in Seq(Directories) /\ Len(l) = Len(list) + 1
      BY <3>1
    <3>3. \A j \in 1..Len(list) : list[j] # change.dir
      BY <2>3 DEF Contains
    <3>4. IsInjective(Entries(original)) => IsInjective(l)
      BY <2>1, <3>1, <3>3, AppendKeepsInjective
    <3>5. Fit(l)
      <4> HIDE DEF l
      <4> QED BY <2>3, <3>1, <3>2, <3>4 DEF Fit
    <3>6. l = Changed
      BY <2>1 DEF Changed, Changes, NoChange
    <3>7. Fit(list)' /\ list' = Changed' /\ list' \in Seq(Directories)
      BY <1>1, <2>1, <2>3, <3>2, <3>5, <3>6 DEF Fit
    <3> QED BY <1>0, <2>1, <2>3, <3>7
        DEF PathInv, PathTypes, PathPhases, Stages, Refusals
  <2> QED BY <1>5, <2>2, <2>3 DEF AddEntry, Refusals
<1>6. CASE RemoveEntry
  <2>1. /\ stage = "remove" /\ path = original /\ change \in Changes /\ status = "none"
        /\ change.kind = "remove" /\ list = Entries(original) /\ Fit(list)
        /\ UNCHANGED <<path, change, original>>
    BY <1>0, <1>6 DEF RemoveEntry, PathTypes, PathPhases
  <2>2. CASE Reply("not_found")
    BY <1>2, <2>1, <2>2 DEF Refusals
  <2>3. CASE list' = Dropping(list, change.dir) /\ stage' = "open" /\ UNCHANGED <<put, status>>
    <3> DEFINE l == Dropping(list, change.dir)
    <3>1. list \in Seq(Directories) /\ MaxEntries \in Nat
      BY <2>1, PathConstants DEF Fit
    <3>2. /\ l \in Seq(Directories) /\ Len(l) <= Len(list)
          /\ IsInjective(list) => IsInjective(l)
      BY <3>1, DroppingFacts
    <3>3. Fit(l)
      <4> HIDE DEF l
      <4> QED BY <2>1, <3>1, <3>2 DEF Fit
    <3>4. l = Changed
      BY <2>1 DEF Changed, Changes, NoChange
    <3>5. Fit(list)' /\ list' = Changed' /\ list' \in Seq(Directories)
      BY <1>1, <2>1, <2>3, <3>2, <3>3, <3>4 DEF Fit
    <3> QED BY <1>0, <2>1, <2>3, <3>5
        DEF PathInv, PathTypes, PathPhases, Stages, Refusals
  <2> QED BY <1>6, <2>2, <2>3 DEF RemoveEntry
<1>7. CASE OpenForWrite
  <2>1. /\ stage = "open" /\ path = original /\ change \in Changes /\ status = "none"
        /\ list = Changed /\ Fit(list) /\ UNCHANGED <<change, original>>
    BY <1>0, <1>7 DEF OpenForWrite, PathTypes, PathPhases
  <2>2. CASE path' = <<>> /\ stage' = "write" /\ UNCHANGED <<list, put, status>>
    <3>1. Fit(list)' /\ list' = Changed'
      BY <1>1, <2>1, <2>2 DEF Fit
    <3>2. put = 0 /\ list \in Seq(Directories)
      BY <1>0, <2>1 DEF PathTypes, PathPhases
    <3>3. <<>> \in Seq(PathLines) /\ <<>> = SubSeq(list, 1, 0) /\ 0 <= Len(list)
      BY <3>2
    <3> QED BY <1>0, <2>1, <2>2, <3>1, <3>2, <3>3
        DEF PathInv, PathTypes, PathPhases, Stages, Refusals
  <2>3. CASE Reply("io_error") /\ UNCHANGED path
    BY <1>2, <2>1, <2>3
  <2> QED BY <1>7, <2>2, <2>3 DEF OpenForWrite
<1>8. stage = "write" =>
         /\ list \in Seq(Directories) /\ put \in 0..Len(list) /\ change \in Changes
         /\ path = SubSeq(list, 1, put) /\ status = "none" /\ list = Changed /\ Fit(list)
  BY <1>0 DEF PathTypes, PathPhases
<1>9. ASSUME NEW s \in {"io_error", "crash"}, stage = "write", UNCHANGED <<change, original>>,
             Reply(s), path' \in CutOff(Begun)
      PROVE  PathInv'
  <2>1. UNCHANGED <<list, put>> /\ stage' = "idle" /\ status' = s
    BY <1>9 DEF Reply
  <2>2. \E n \in 0..Len(list) : Begun = SubSeq(list, 1, n)
    <3> DEFINE m == IF put < Len(list) THEN put + 1 ELSE put
    <3>1. Len(list) \in Nat /\ put \in 0..Len(list)
      BY <1>8, <1>9
    <3>2. m \in 0..Len(list)
      BY <3>1
    <3>3. Begun = SubSeq(list, 1, m)
      BY DEF Begun
    <3> HIDE DEF m
    <3> QED BY <3>2, <3>3
  <2>3. path' \in Seq(Directories) /\ BeginsAs(path', list)
    BY <1>8, <1>9, <2>2, CutOffBegins
  <2>4. Fit(Changed)' /\ Changed' = list
    BY <1>1, <1>8, <1>9 DEF Fit
  <2>5. PartWritten'
    BY <2>1, <2>3, <2>4 DEF PartWritten
  <2>6. path' \in Seq(PathLines)
    BY <2>3 DEF PathLines
  <2> QED BY <1>0, <1>9, <2>1, <2>5, <2>6
      DEF PathInv, PathTypes, PathPhases, Stages, Refusals
<1>10. CASE WriteEntry
  <2>1. stage = "write" /\ put < Len(list) /\ UNCHANGED <<change, original>>
    BY <1>10 DEF WriteEntry
  <2>2. CASE path' = Append(path, list[put + 1]) /\ put' = put + 1 /\ UNCHANGED <<stage, list, status>>
    <3>1. path' = SubSeq(list, 1, put + 1) /\ put + 1 \in 0..Len(list)
      BY <1>8, <2>1, <2>2
    <3>2. SubSeq(list, 1, put + 1) \in Seq(Directories)
      BY <1>8, <2>1, <3>1, PrefixKeeps DEF Fit
    <3>3. Fit(list)' /\ list' = Changed' /\ path' \in Seq(PathLines)
      BY <1>1, <1>8, <2>1, <2>2, <3>1, <3>2 DEF Fit, PathLines
    <3> QED BY <1>0, <1>8, <2>1, <2>2, <3>1, <3>3
        DEF PathInv, PathTypes, PathPhases, Stages, Refusals
  <2>3. CASE Reply("io_error") /\ path' \in CutOff(Begun)
    BY <1>9, <2>1, <2>3
  <2> QED BY <1>10, <2>2, <2>3 DEF WriteEntry
<1>11. CASE CloseList
  <2>1. stage = "write" /\ put = Len(list) /\ UNCHANGED <<change, original>>
    BY <1>11 DEF CloseList
  <2>2. CASE Reply("ok") /\ UNCHANGED path
    <3>1. path = list
      BY <1>8, <2>1
    <3>2. path' = Changed' /\ Fit(Changed)'
      BY <1>1, <1>8, <2>1, <2>2, <3>1 DEF Fit
    <3> QED BY <1>0, <2>1, <2>2, <3>2
        DEF Reply, PathInv, PathTypes, PathPhases, Stages, Refusals
  <2>3. CASE Reply("io_error") /\ path' \in CutOff(Begun)
    BY <1>9, <2>1, <2>3
  <2> QED BY <1>11, <2>2, <2>3 DEF CloseList
<1>12. CASE PathCrash
  <2>1. stage # "idle" /\ Reply("crash") /\ UNCHANGED <<change, original>>
    BY <1>12 DEF PathCrash
  <2>2. CASE stage # "write"
    <3>1. path' = path /\ path = original
      BY <1>0, <1>12, <2>1, <2>2 DEF PathCrash, PathTypes, PathPhases, Stages
    <3> QED BY <1>0, <2>1, <3>1
        DEF Reply, PathInv, PathTypes, PathPhases, Stages, Refusals
  <2>3. CASE stage = "write"
    BY <1>9, <1>12, <2>1, <2>3 DEF PathCrash
  <2> QED BY <2>2, <2>3
<1>13. CASE UNCHANGED pathVars
  <2>1. UNCHANGED <<path, list, stage, change, put, status, original>>
    BY <1>13 DEF pathVars
  <2>2. PathTypes' /\ (Fit(list)' <=> Fit(list)) /\ Changed' = Changed
        /\ (PartWritten' <=> PartWritten) /\ (Fit(Changed)' <=> Fit(Changed))
    BY <1>0, <2>1 DEF PathTypes, Fit, Changed, PartWritten
  <2> QED BY <1>0, <2>1, <2>2 DEF PathInv, PathPhases
<1> QED BY <1>3, <1>4, <1>5, <1>6, <1>7, <1>10, <1>11, <1>12, <1>13 DEF PathNext

\* The invariant of PATH.txt, for a limit and a file of any size.
THEOREM PathListInvariant == PathSpec => []PathInv
<1> QED BY PathInvInit, PathInvNext, PTL DEF PathSpec

\* Through any failures and crashes of any number of changes, of any list.
THEOREM PathListIsTrue == PathSpec => []PathListTrue
<1> QED BY PathListInvariant, PathInvSuffices, PTL

-----------------------------------------------------------------------------
\* The "open with" table.
HitsIn(t, x) == {i \in DOMAIN t : Matches(t[i], x)}
IsFirst(i, t, x) == i \in HitsIn(t, x) /\ \A j \in HitsIn(t, x) : i <= j

\* A set of naturals that is not empty has a least element.
LEMMA Smallest ==
    ASSUME NEW A, A \subseteq Nat, A # {}
    PROVE  \E i \in A : \A j \in A : i <= j
<1> SUFFICES ASSUME \A i \in A : \E j \in A : ~(i <= j) PROVE FALSE
  OBVIOUS
<1> DEFINE S == {n \in Nat : \A j \in A : n < j}
<1>1. 0 \in S
  BY SMT
<1>2. \A n \in Nat : n \in S => n + 1 \in S
  <2> SUFFICES ASSUME NEW n \in Nat, \A j \in A : n < j PROVE \A j \in A : n + 1 < j
    OBVIOUS
  <2>1. n + 1 \notin A
    BY SMT
  <2> QED BY <2>1
<1>3. Nat \subseteq S
  <2> HIDE DEF S
  <2> QED BY <1>1, <1>2, SetInduction
<1>4. PICK a \in A : a \in Nat
  OBVIOUS
<1>5. a < a
  BY <1>3, <1>4
<1> QED BY <1>4, <1>5

\* A table with a mapping of an extension has a first one.
LEMMA HasFirst ==
    ASSUME NEW t \in Seq(Lines), NEW x, HitsIn(t, x) # {}
    PROVE  \E i \in 1..Len(t) : IsFirst(i, t, x)
<1>1. HitsIn(t, x) \subseteq 1..Len(t)
  BY DEF HitsIn
<1>2. PICK i \in HitsIn(t, x) : \A j \in HitsIn(t, x) : i <= j
  BY <1>1, Smallest
<1> QED BY <1>1, <1>2 DEF IsFirst

\* The first mapping is the one that a search from the beginning finds.
LEMMA FirstIsOne ==
    ASSUME NEW t \in Seq(Lines), NEW x, NEW i, IsFirst(i, t, x)
    PROVE  (CHOOSE h \in HitsIn(t, x) : \A j \in HitsIn(t, x) : h <= j) = i
<1>1. HitsIn(t, x) \subseteq 1..Len(t)
  BY DEF HitsIn
<1>2. \A h \in HitsIn(t, x) : (\A j \in HitsIn(t, x) : h <= j) => h = i
  BY <1>1 DEF IsFirst
<1> QED BY <1>2 DEF IsFirst

\* A missing file is no table.
LEMMA NoTable == Absent \notin Seq(Lines)
BY AliasConstants DEF Lines

\* What a table says of an extension.
LEMMA LookupIs ==
    ASSUME NEW t \in Seq(Lines), NEW x
    PROVE  /\ HitsIn(t, x) = {} => Lookup(t, x) = Absent
           /\ \A i : IsFirst(i, t, x) => Lookup(t, x) = t[i].app
<1>1. t # Absent
  BY NoTable
<1>2. Lookup(t, x) = IF HitsIn(t, x) = {} THEN Absent
                     ELSE t[CHOOSE i \in HitsIn(t, x) : \A j \in HitsIn(t, x) : i <= j].app
  BY <1>1 DEF Lookup, HitsIn
<1>3. ASSUME NEW i, IsFirst(i, t, x) PROVE Lookup(t, x) = t[i].app
  <2>1. HitsIn(t, x) # {}
    BY <1>3 DEF IsFirst
  <2> QED BY <1>2, <1>3, <2>1, FirstIsOne
<1> QED BY <1>2, <1>3

\* What another line at the end changes.
LEMMA LookupAppend ==
    ASSUME NEW t \in Seq(Lines), NEW l \in Lines, NEW x
    PROVE  /\ Append(t, l) \in Seq(Lines)
           /\ (HitsIn(Append(t, l), x) = {}) <=> (HitsIn(t, x) = {} /\ ~Matches(l, x))
           /\ HitsIn(t, x) # {} => Lookup(Append(t, l), x) = Lookup(t, x)
           /\ HitsIn(t, x) = {} /\ Matches(l, x) => Lookup(Append(t, l), x) = l.app
           /\ HitsIn(t, x) = {} /\ ~Matches(l, x) => Lookup(Append(t, l), x) = Absent
<1> DEFINE u == Append(t, l)
<1>1. /\ u \in Seq(Lines) /\ Len(u) = Len(t) + 1 /\ u[Len(t) + 1] = l
      /\ \A i \in 1..Len(t) : u[i] = t[i]
      /\ DOMAIN u = 1..(Len(t) + 1) /\ DOMAIN t = 1..Len(t) /\ Len(t) \in Nat
  OBVIOUS
<1> HIDE DEF u
<1>2. \A i \in 1..Len(t) : i \in HitsIn(u, x) <=> i \in HitsIn(t, x)
  BY <1>1 DEF HitsIn
<1>3. Len(t) + 1 \in HitsIn(u, x) <=> Matches(l, x)
  BY <1>1 DEF HitsIn
<1>4. HitsIn(u, x) \subseteq 1..(Len(t) + 1) /\ HitsIn(t, x) \subseteq 1..Len(t)
  BY <1>1 DEF HitsIn
<1>5. (HitsIn(u, x) = {}) <=> (HitsIn(t, x) = {} /\ ~Matches(l, x))
  <2>1. \A i \in 1..(Len(t) + 1) : i \in 1..Len(t) \/ i = Len(t) + 1
    BY <1>1
  <2>2. Len(t) + 1 \notin 1..Len(t) /\ \A i \in 1..Len(t) : i \in 1..(Len(t) + 1)
    BY <1>1
  <2> QED BY <1>2, <1>3, <1>4, <2>1, <2>2
<1>6. ASSUME HitsIn(t, x) # {} PROVE Lookup(u, x) = Lookup(t, x)
  <2>1. PICK i \in 1..Len(t) : IsFirst(i, t, x)
    BY <1>6, HasFirst
  <2>2. IsFirst(i, u, x)
    <3>1. ASSUME NEW j \in HitsIn(u, x) PROVE i <= j
      <4>1. CASE j \in 1..Len(t)
        BY <1>2, <2>1, <3>1, <4>1 DEF IsFirst
      <4>2. CASE j = Len(t) + 1
        BY <1>1, <4>2
      <4> QED BY <1>1, <1>4, <3>1, <4>1, <4>2
    <3> QED BY <1>2, <2>1, <3>1 DEF IsFirst
  <2>3. u[i] = t[i]
    BY <1>1
  <2> QED BY <1>1, <2>1, <2>2, <2>3, LookupIs
<1>7. ASSUME HitsIn(t, x) = {}, Matches(l, x) PROVE Lookup(u, x) = l.app
  <2>1. IsFirst(Len(t) + 1, u, x)
    <3>1. ASSUME NEW j \in HitsIn(u, x) PROVE j = Len(t) + 1
      BY <1>1, <1>2, <1>4, <1>7, <3>1
    <3> QED BY <1>1, <1>3, <1>7, <3>1 DEF IsFirst
  <2> QED BY <1>1, <2>1, LookupIs
<1>8. ASSUME HitsIn(t, x) = {}, ~Matches(l, x) PROVE Lookup(u, x) = Absent
  BY <1>1, <1>5, <1>8, LookupIs
<1>9. u = Append(t, l)
  BY DEF u
<1> QED BY <1>1, <1>5, <1>6, <1>7, <1>8, <1>9

\* The lines after the first mapping of an extension, one line at a time.
LEMMA OthersFacts ==
    ASSUME NEW t \in Seq(Lines), NEW x, NEW first \in Nat, NEW n \in 0..Len(t)
    PROVE  /\ Others(t, x, first)[n] \in Seq(Lines)
           /\ n <= first => Others(t, x, first)[n] = <<>>
           /\ n > first => Others(t, x, first)[n] =
                 IF Matches(t[n], x) THEN Others(t, x, first)[n - 1]
                 ELSE Append(Others(t, x, first)[n - 1], t[n])
<1> DEFINE N == Len(t)
           Step(f, i) == IF i <= first THEN <<>>
                         ELSE IF Matches(t[i], x) THEN f[i - 1] ELSE Append(f[i - 1], t[i])
           Solves(f) == f = [i \in 0..N |-> Step(f, i)]
           o == CHOOSE f : Solves(f)
<1>0. N \in Nat
  OBVIOUS
<1>1. Solves(o)
  <2> DEFINE K == {i \in 1..N : ~Matches(t[i], x)}
             Other(f, i) == IF i <= first THEN <<>>
                            ELSE IF i \in K THEN Append(f[i - 1], t[i]) ELSE f[i - 1]
  <2>1. PICK f : f = [i \in 0..N |-> Other(f, i)]
    <3>1. PICK f : IsReading(f, t, K, first, N)
      <4> HIDE DEF K, N
      <4> QED BY <1>0, Recursion
    <3>2. f = [i \in 0..N |-> Other(f, i)]
      <4> HIDE DEF K, N
      <4> QED BY <3>1 DEF IsReading
    <3> HIDE DEF Other
    <3> QED BY <3>2
  <2>2. \A i \in 0..N : Other(f, i) = Step(f, i)
    OBVIOUS
  <2>3. Solves(f)
    <3> HIDE DEF Other, Step
    <3> QED BY <2>1, <2>2
  <2> HIDE DEF Solves
  <2> QED BY <2>3
<1>2. Others(t, x, first) = o
  BY DEF Others
<1>3. \A i \in 0..N : o[i] = Step(o, i)
  <2> HIDE DEF o, Step
  <2> QED BY <1>1
<1> HIDE DEF o
<1> DEFINE S == {i \in Nat : i <= N => o[i] \in Seq(Lines)}
<1>4. 0 \in S
  <2>1. o[0] = <<>>
    BY <1>0, <1>3
  <2> HIDE DEF Step, Solves
  <2>2. o[0] \in Seq(Lines)
    BY <2>1
  <2> QED BY <2>2
<1>5. \A i \in Nat : i \in S => i + 1 \in S
  <2> SUFFICES ASSUME NEW i \in Nat, i + 1 <= N, o[i] \in Seq(Lines)
               PROVE  o[i + 1] \in Seq(Lines)
    BY <1>0
  <2>1. i + 1 \in 0..N /\ i + 1 - 1 = i /\ t[i + 1] \in Lines
    BY <1>0
  <2>2. o[i + 1] = Step(o, i + 1)
    BY <1>3, <2>1
  <2> QED BY <2>1, <2>2
<1>6. n \in S
  <2> HIDE DEF S
  <2> QED BY <1>0, <1>4, <1>5, SetInduction
<1>7. o[n] = Step(o, n)
  BY <1>3
<1>8. o[n] \in Seq(Lines)
  <2> HIDE DEF Step, Solves
  <2> QED BY <1>0, <1>6
<1>9. n <= first => o[n] = <<>>
  BY <1>7, Zenon
<1>10. n > first => o[n] = IF Matches(t[n], x) THEN o[n - 1] ELSE Append(o[n - 1], t[n])
  <2>1. n > first => ~(n <= first)
    OBVIOUS
  <2> QED BY <1>7, <2>1, Zenon
<1> QED BY <1>2, <1>8, <1>9, <1>10, Zenon

\* What the copying loop has written after the first k lines.
Own(e) == IF e.kind = "add" THEN <<Mapping(e.ext, e.app)>> ELSE <<>>
FirstHit(t, x) ==
    IF HitsIn(t, x) = {} THEN Len(t) + 1
    ELSE CHOOSE i \in HitsIn(t, x) : \A j \in HitsIn(t, x) : i <= j
Progress(t, e, k) ==
    IF k < FirstHit(t, e.ext) THEN SubSeq(t, 1, k)
    ELSE SubSeq(t, 1, FirstHit(t, e.ext) - 1) \o Own(e)
           \o Others(t, e.ext, FirstHit(t, e.ext))[k]
OldLines(table) == IF table = Absent THEN <<>> ELSE table

\* No line before the first mapping maps the extension.
LEMMA FirstHitIs ==
    ASSUME NEW t \in Seq(Lines), NEW x
    PROVE  /\ FirstHit(t, x) \in 1..(Len(t) + 1)
           /\ \A i \in 1..Len(t) : i < FirstHit(t, x) => ~Matches(t[i], x)
           /\ FirstHit(t, x) <= Len(t) => Matches(t[FirstHit(t, x)], x)
<1>1. CASE HitsIn(t, x) = {}
  BY <1>1 DEF FirstHit, HitsIn
<1>2. CASE HitsIn(t, x) # {}
  <2>1. PICK i \in 1..Len(t) : IsFirst(i, t, x)
    BY <1>2, HasFirst
  <2>2. FirstHit(t, x) = i
    BY <1>2, <2>1, FirstIsOne DEF FirstHit
  <2> QED BY <2>1, <2>2 DEF IsFirst, HitsIn
<1> QED BY <1>1, <1>2

\* The new mapping is a line.
LEMMA OwnType ==
    ASSUME NEW e \in Edits PROVE Own(e) \in Seq(Lines)
<1>1. CASE e.kind = "add"
  <2>1. Mapping(e.ext, e.app) \in Lines
    BY <1>1 DEF Edits, Mapping, Lines
  <2> QED BY <1>1, <2>1 DEF Own
<1>2. CASE e.kind # "add"
  BY <1>2 DEF Own
<1> QED BY <1>1, <1>2

\* Before the first line nothing is written.
LEMMA ProgressZero ==
    ASSUME NEW t \in Seq(Lines), NEW e \in Edits
    PROVE  Progress(t, e, 0) = <<>>
BY FirstHitIs DEF Progress

\* The end of the loop, and of the table, is the table that was wanted.
LEMMA ProgressEnds ==
    ASSUME NEW table \in Seq(Lines) \union {Absent}, NEW e \in Edits
    PROVE  LET old == OldLines(table) IN
           Updated(table, e) = IF HitsIn(old, e.ext) = {} THEN Progress(old, e, Len(old)) \o Own(e)
                               ELSE Progress(old, e, Len(old))
<1> DEFINE old == OldLines(table)
           first == FirstHit(old, e.ext)
           rest == Others(old, e.ext, first)[Len(old)]
<1>1. old \in Seq(Lines) /\ Len(old) \in Nat /\ Len(old) \in 0..Len(old)
  BY DEF OldLines
<1>2. Updated(table, e) = SubSeq(old, 1, first - 1) \o Own(e) \o rest
  BY DEF Updated, OldLines, FirstHit, HitsIn, Own
<1>3. first \in 1..(Len(old) + 1)
  BY <1>1, FirstHitIs
<1>4. rest \in Seq(Lines) /\ (Len(old) <= first => rest = <<>>)
  BY <1>1, <1>3, OthersFacts
<1>5. CASE HitsIn(old, e.ext) = {}
  <2>1. first = Len(old) + 1
    BY <1>5 DEF FirstHit
  <2>2. Progress(old, e, Len(old)) = old /\ SubSeq(old, 1, first - 1) = old /\ rest = <<>>
    <3>1. Len(old) < FirstHit(old, e.ext) /\ Len(old) <= first /\ first - 1 = Len(old)
      <4> HIDE DEF old
      <4> QED BY <1>1, <2>1
    <3>2. SubSeq(old, 1, Len(old)) = old
      <4> HIDE DEF old
      <4> QED BY <1>1
    <3>3. Progress(old, e, Len(old)) = SubSeq(old, 1, Len(old))
      BY <3>1, Zenon DEF Progress
    <3> HIDE DEF old, first, rest
    <3> QED BY <1>4, <3>1, <3>2, <3>3
  <2>3. Own(e) \in Seq(Lines)
    BY OwnType
  <2>4. SubSeq(old, 1, first - 1) \o Own(e) \o rest = old \o Own(e)
    <3> DEFINE own == Own(e)
    <3>1. old \in Seq(Lines) /\ own \in Seq(Lines)
      BY <1>1, <2>3
    <3>2. SubSeq(old, 1, first - 1) = old /\ rest = <<>>
      BY <2>2
    <3> HIDE DEF old, first, rest, own
    <3>3. old \o own \o <<>> = old \o own
      BY <3>1
    <3>4. SubSeq(old, 1, first - 1) \o own \o rest = old \o own
      BY <3>2, <3>3, Zenon
    <3> QED BY <3>4, Zenon DEF own
  <2> QED BY <1>2, <1>5, <2>2, <2>4
<1>6. CASE HitsIn(old, e.ext) # {}
  <2>1. first <= Len(old)
    <3>1. PICK i \in 1..Len(old) : IsFirst(i, old, e.ext)
      BY <1>1, <1>6, HasFirst
    <3>2. first = i
      <4> HIDE DEF old
      <4> QED BY <1>1, <1>6, <3>1, FirstIsOne DEF FirstHit
    <3> HIDE DEF old, first
    <3> QED BY <3>1, <3>2
  <2>2. Progress(old, e, Len(old)) = SubSeq(old, 1, first - 1) \o Own(e) \o rest
    <3>1. ~(Len(old) < FirstHit(old, e.ext))
      <4> HIDE DEF old
      <4> QED BY <1>1, <1>3, <2>1
    <3> QED BY <3>1, Zenon DEF Progress
  <2> QED BY <1>2, <1>6, <2>2
<1> QED BY <1>5, <1>6

\* One turn of the loop.
LEMMA ProgressStep ==
    ASSUME NEW t \in Seq(Lines), NEW e \in Edits, NEW k \in Nat, k < Len(t)
    PROVE  Progress(t, e, k + 1) =
             IF ~Matches(t[k + 1], e.ext) THEN Append(Progress(t, e, k), t[k + 1])
             ELSE IF k + 1 = FirstHit(t, e.ext) THEN Progress(t, e, k) \o Own(e)
             ELSE Progress(t, e, k)
<1> DEFINE first == FirstHit(t, e.ext)
           O(n) == Others(t, e.ext, first)[n]
           line == t[k + 1]
<1>0. Len(t) \in Nat /\ k + 1 \in 0..Len(t) /\ k \in 0..Len(t) /\ line \in Lines
      /\ SubSeq(t, 1, k + 1) = Append(SubSeq(t, 1, k), line)
  OBVIOUS
<1>1. /\ first \in 1..(Len(t) + 1)
      /\ \A i \in 1..Len(t) : i < first => ~Matches(t[i], e.ext)
      /\ first <= Len(t) => Matches(t[first], e.ext)
  BY FirstHitIs
<1>2. /\ O(k) \in Seq(Lines) /\ O(k + 1) \in Seq(Lines)
      /\ k + 1 <= first => O(k + 1) = <<>>
      /\ k + 1 > first => O(k + 1) = IF Matches(line, e.ext) THEN O(k) ELSE Append(O(k), line)
  <2>1. first \in Nat /\ k + 1 - 1 = k
    BY <1>1
  <2> HIDE DEF first
  <2> QED BY <1>0, <2>1, OthersFacts
<1>3. Own(e) \in Seq(Lines)
  BY OwnType
<1> DEFINE A == SubSeq(t, 1, first - 1)
<1>4. A \in Seq(Lines)
  BY <1>1
<1>5. CASE k + 1 < first
  <2>1. ~Matches(line, e.ext)
    BY <1>0, <1>1, <1>5
  <2>2. Progress(t, e, k + 1) = SubSeq(t, 1, k + 1) /\ Progress(t, e, k) = SubSeq(t, 1, k)
    BY <1>0, <1>1, <1>5 DEF Progress
  <2> QED BY <1>0, <2>1, <2>2
<1>6. CASE k + 1 = first
  <2>1. Matches(line, e.ext)
    BY <1>0, <1>1, <1>6
  <2>2. Progress(t, e, k + 1) = A \o Own(e) \o O(k + 1)
    <3>1. ~(k + 1 < FirstHit(t, e.ext))
      BY <1>0, <1>1, <1>6
    <3> QED BY <3>1, Zenon DEF Progress
  <2>3. Progress(t, e, k) = A
    BY <1>0, <1>1, <1>6 DEF Progress
  <2>4. A \o Own(e) \o O(k + 1) = A \o Own(e)
    <3> DEFINE B == A \o Own(e)
    <3>1. B \in Seq(Lines)
      <4> HIDE DEF A
      <4> QED BY <1>3, <1>4
    <3>2. O(k + 1) = <<>>
      BY <1>0, <1>1, <1>2, <1>6
    <3>3. B \o <<>> = B
      <4> HIDE DEF B
      <4> QED BY <3>1
    <3> QED BY <3>2, <3>3, Zenon
  <2> QED BY <1>6, <2>1, <2>2, <2>3, <2>4
<1>7. CASE k + 1 > first
  <2>1. Progress(t, e, k + 1) = A \o Own(e) \o O(k + 1)
    <3>1. ~(k + 1 < FirstHit(t, e.ext))
      BY <1>0, <1>1, <1>7
    <3> QED BY <3>1, Zenon DEF Progress
  <2>2. Progress(t, e, k) = A \o Own(e) \o O(k)
    <3>1. ~(k < FirstHit(t, e.ext))
      BY <1>0, <1>1, <1>7
    <3> QED BY <3>1, Zenon DEF Progress
  <2>3. CASE Matches(line, e.ext)
    <3>1. k + 1 # first /\ O(k + 1) = O(k)
      BY <1>0, <1>1, <1>2, <1>7, <2>3
    <3>2. Progress(t, e, k + 1) = Progress(t, e, k)
      BY <2>1, <2>2, <3>1, Zenon
    <3> QED BY <2>3, <3>1, <3>2, Zenon
  <2>4. CASE ~Matches(line, e.ext)
    <3>1. O(k + 1) = Append(O(k), line)
      BY <1>2, <1>7, <2>4
    <3>2. A \o Own(e) \o Append(O(k), line) = Append(A \o Own(e) \o O(k), line)
      <4> DEFINE B == A \o Own(e)
                 o == O(k)
      <4>1. B \in Seq(Lines) /\ o \in Seq(Lines) /\ line \in Lines
        <5> HIDE DEF A, O
        <5> QED BY <1>0, <1>2, <1>3, <1>4
      <4>2. B \o Append(o, line) = Append(B \o o, line)
        <5> HIDE DEF B, o, line
        <5> QED BY <4>1
      <4> QED BY <4>2
    <3> QED BY <2>1, <2>2, <2>4, <3>1, <3>2
  <2> QED BY <2>3, <2>4
<1> QED BY <1>0, <1>1, <1>5, <1>6, <1>7

-----------------------------------------------------------------------------
\* t and u say the same of an extension.
Agree(t, u, x) == (HitsIn(t, x) = {} <=> HitsIn(u, x) = {}) /\ Lookup(t, x) = Lookup(u, x)

\* The same line at the end of both is read the same from both.
LEMMA AgreeSame ==
    ASSUME NEW t \in Seq(Lines), NEW u \in Seq(Lines), NEW l \in Lines, NEW x, Agree(t, u, x)
    PROVE  Agree(Append(t, l), Append(u, l), x)
<1>1. CASE HitsIn(t, x) = {}
  <2>1. CASE Matches(l, x)
    BY <1>1, <2>1, LookupAppend DEF Agree
  <2>2. CASE ~Matches(l, x)
    BY <1>1, <2>2, LookupAppend DEF Agree
  <2> QED BY <2>1, <2>2
<1>2. CASE HitsIn(t, x) # {}
  BY <1>2, LookupAppend DEF Agree
<1> QED BY <1>1, <1>2

\* A line of another extension may come to either of them.
LEMMA AgreeLeft ==
    ASSUME NEW t \in Seq(Lines), NEW u, NEW l \in Lines, NEW x, Agree(t, u, x), ~Matches(l, x)
    PROVE  Agree(Append(t, l), u, x)
BY LookupAppend, LookupIs DEF Agree

\* See AgreeLeft.
LEMMA AgreeRight ==
    ASSUME NEW t, NEW u \in Seq(Lines), NEW l \in Lines, NEW x, Agree(t, u, x), ~Matches(l, x)
    PROVE  Agree(t, Append(u, l), x)
BY LookupAppend, LookupIs DEF Agree

\* A new mapping maps its own extension, to its application, and no other.
LEMMA MappingMatches ==
    ASSUME NEW e \in Edits, e.kind = "add"
    PROVE  /\ Mapping(e.ext, e.app) \in Lines
           /\ Matches(Mapping(e.ext, e.app), e.ext)
           /\ Mapping(e.ext, e.app).app = e.app
           /\ \A x : x # e.ext => ~Matches(Mapping(e.ext, e.app), x)
<1>1. e.ext \in Extensions /\ e.app \in Applications
  BY DEF Edits
<1>2. Mapping(e.ext, e.app) \in [ext : Extensions, app : Applications]
  BY <1>1 DEF Mapping
<1>3. Mapping(e.ext, e.app) # Remark
  BY <1>2, AliasConstants
<1>4. Mapping(e.ext, e.app).app = e.app /\ Mapping(e.ext, e.app).ext = e.ext
  BY DEF Mapping
<1> QED BY <1>2, <1>3, <1>4 DEF Lines, Matches

\* A missing table says what an empty one does.
LEMMA OldLinesAgree ==
    ASSUME NEW table \in Seq(Lines) \union {Absent}
    PROVE  /\ OldLines(table) \in Seq(Lines)
           /\ \A x : Lookup(OldLines(table), x) = Lookup(table, x)
<1>1. CASE table = Absent
  <2>1. <<>> \in Seq(Lines) /\ \A x : HitsIn(<<>>, x) = {}
    BY DEF HitsIn
  <2>2. \A x : Lookup(<<>>, x) = Absent
    BY <2>1, LookupIs
  <2>3. \A x : Lookup(Absent, x) = Absent
    BY DEF Lookup
  <2> QED BY <1>1, <2>1, <2>2, <2>3 DEF OldLines
<1>2. CASE table # Absent
  BY <1>2 DEF OldLines
<1> QED BY <1>1, <1>2

\* A table with a mapping of an extension names an application for it.
LEMMA HitsAreNamed ==
    ASSUME NEW t \in Seq(Lines), NEW x, HitsIn(t, x) # {}
    PROVE  Lookup(t, x) # Absent
<1>1. PICK i \in 1..Len(t) : IsFirst(i, t, x)
  BY HasFirst
<1>2. Lookup(t, x) = t[i].app
  BY <1>1, LookupIs
<1>3. t[i] \in Lines /\ t[i] # Remark
  BY <1>1 DEF IsFirst, HitsIn, Matches
<1>4. t[i].app \in Applications
  BY <1>3 DEF Lines
<1> QED BY <1>2, <1>4, AliasConstants

\* What the loop has found among the first k lines.
LEMMA PrefixHits ==
    ASSUME NEW t \in Seq(Lines), NEW x, NEW k \in Nat, k < Len(t)
    PROVE  /\ SubSeq(t, 1, k) \in Seq(Lines) /\ t[k + 1] \in Lines
           /\ SubSeq(t, 1, k + 1) = Append(SubSeq(t, 1, k), t[k + 1])
           /\ (HitsIn(SubSeq(t, 1, k + 1), x) = {}) <=>
                 (HitsIn(SubSeq(t, 1, k), x) = {} /\ ~Matches(t[k + 1], x))
           /\ Matches(t[k + 1], x) =>
                 ((k + 1 = FirstHit(t, x)) <=> (HitsIn(SubSeq(t, 1, k), x) = {}))
<1>1. /\ SubSeq(t, 1, k) \in Seq(Lines) /\ t[k + 1] \in Lines
      /\ SubSeq(t, 1, k + 1) = Append(SubSeq(t, 1, k), t[k + 1])
  OBVIOUS
<1>2. (HitsIn(SubSeq(t, 1, k + 1), x) = {}) <=>
          (HitsIn(SubSeq(t, 1, k), x) = {} /\ ~Matches(t[k + 1], x))
  BY <1>1, LookupAppend
<1>3. (HitsIn(SubSeq(t, 1, k), x) = {}) <=> (\A i \in 1..k : ~Matches(t[i], x))
  <2> DEFINE p == SubSeq(t, 1, k)
  <2>1. DOMAIN p = 1..k /\ \A i \in 1..k : p[i] = t[i]
    OBVIOUS
  <2> HIDE DEF p
  <2>2. (HitsIn(p, x) = {}) <=> (\A i \in 1..k : ~Matches(t[i], x))
    BY <2>1 DEF HitsIn
  <2> QED BY <2>2 DEF p
<1>4. ASSUME Matches(t[k + 1], x)
      PROVE  (k + 1 = FirstHit(t, x)) <=> (\A i \in 1..k : ~Matches(t[i], x))
  <2> DEFINE first == FirstHit(t, x)
  <2>1. /\ first \in 1..(Len(t) + 1) /\ Len(t) \in Nat
        /\ \A i \in 1..Len(t) : i < first => ~Matches(t[i], x)
        /\ first <= Len(t) => Matches(t[first], x)
    BY FirstHitIs
  <2>2. first <= k + 1
    <3> HIDE DEF first
    <3> QED BY <1>4, <2>1
  <2> HIDE DEF first
  <2>3. (k + 1 = first) <=> (\A i \in 1..k : ~Matches(t[i], x))
    BY <2>1, <2>2
  <2> QED BY <2>3 DEF first
<1> QED BY <1>1, <1>2, <1>3, <1>4

-----------------------------------------------------------------------------
\* What AliasFile's variables are.
AliasSteps == {"idle", "open", "drop", "create", "copy", "close", "delete", "rename", "failed",
               "torn"}
AliasAnswers == {"none", "io_error", "file_not_found", "ok", "updated", "mapping_not_found", "crash"}
AliasTypes ==
    /\ alias \in Seq(Lines) \union {Absent} /\ before \in Seq(Lines) \union {Absent}
    /\ temporary \in Seq(Lines) \union {Absent}
    /\ step \in AliasSteps /\ answer \in AliasAnswers
    /\ edit \in Edits \union {NoEdit} /\ copied \in Nat
    /\ written \in BOOLEAN /\ found \in BOOLEAN
    /\ loss \in {"no", "failure", "forsaken"}
    /\ step # "idle" => edit \in Edits /\ answer = "none"

\* The table the update is to leave, and what may be said of it.
Finished(t) ==
    /\ t \in Seq(Lines) /\ edit \in Edits /\ t = Updated(Basis, edit)
    /\ \A x \in Extensions \ {edit.ext} : Lookup(t, x) = Lookup(Basis, x)
    /\ edit.kind = "add" => Lookup(t, edit.ext) = edit.app
    /\ edit.kind = "remove" => Lookup(t, edit.ext) = Absent
    /\ found => Lookup(Basis, edit.ext) # Absent

\* What the loop has made of the first k lines of the old table.
Copied(old, e, k, t, w, f) ==
    /\ k <= Len(old) /\ t \in Seq(Lines) /\ t = Progress(old, e, k)
    /\ \A x \in Extensions \ {e.ext} : Agree(t, SubSeq(old, 1, k), x)
    /\ f <=> (HitsIn(SubSeq(old, 1, k), e.ext) # {})
    /\ w <=> (f /\ e.kind = "add")
    /\ w => HitsIn(t, e.ext) # {} /\ Lookup(t, e.ext) = e.app
    /\ ~w => HitsIn(t, e.ext) = {}
Copying == Copied(OldLines(Basis), edit, copied, temporary, written, found)

\* The whole new table is where the old one was to be replaced by it.
Rescued == alias = Absent /\ loss = "no" /\ Finished(temporary)

AliasPhases ==
    /\ step \in {"open", "drop"} => Current = before /\ loss = "no"
    /\ step \in {"create", "copy", "close", "delete"} => alias = Basis /\ loss # "failure"
    /\ step \in {"open", "drop", "create"} => copied = 0 /\ ~written /\ ~found
    /\ step = "copy" => Copying
    /\ step \in {"close", "delete", "rename"} => Finished(temporary)
    /\ step = "delete" => alias # Absent
    /\ step = "rename" => alias = Absent /\ loss # "failure"
    /\ step = "failed" => (alias = Basis /\ loss # "failure") \/ Rescued
    /\ step = "torn" => Finished(alias) /\ loss # "failure"
    /\ step = "idle" =>
          /\ answer \in {"none", "file_not_found"} => Current = before /\ loss = "no"
          /\ answer = "io_error" =>
                \/ Current = before /\ loss = "no"
                \/ Rescued
                \/ alias = Absent /\ loss # "no"
          /\ answer \in {"ok", "updated", "mapping_not_found"} =>
                Finished(alias) /\ loss # "failure"
          /\ answer = "updated" => found
          /\ answer = "crash" =>
                \/ Current = before /\ loss = "no"
                \/ Rescued
                \/ alias = Absent /\ loss = "forsaken"
AliasInv == AliasTypes /\ AliasPhases

\* The table may hold anything at first.
LEMMA AliasInvInit == AliasInit => AliasInv
<1> SUFFICES ASSUME AliasInit PROVE AliasInv
  OBVIOUS
<1>1. Tables \subseteq Seq(Lines)
  BY AliasConstants DEF Tables
<1> QED BY <1>1 DEF AliasInit, AliasInv, AliasTypes, AliasPhases, AliasSteps, AliasAnswers,
         Current, OnlyCopy

\* A table that an update has finished is one.
LEMMA FinishedIsTable ==
    ASSUME NEW t, Finished(t) PROVE t # Absent /\ t = Target /\ t \in Seq(Lines)
<1>1. t \in Seq(Lines) /\ edit \in Edits /\ t = Updated(Basis, edit)
  BY DEF Finished
<1> QED BY <1>1, AliasConstants DEF Target, Edits, NoEdit, Lines

\* The phases of an update tell all that is claimed of the table.
LEMMA AliasInvSuffices == AliasInv => AliasTrue
<1> SUFFICES ASSUME AliasInv PROVE AliasTrue
  OBVIOUS
<1>0. AliasTypes /\ AliasPhases
  BY DEF AliasInv
<1>1. Finished(alias) => alias # Absent /\ alias = Target /\ Current = alias
  BY FinishedIsTable DEF Current, OnlyCopy
<1>2. Finished(temporary) => temporary = Target
  BY FinishedIsTable
<1>3. alias = Basis /\ loss # "failure" /\ loss = "no" => Current = before
  BY DEF Basis, Current, OnlyCopy
<1>4. Rescued => loss = "no" /\ alias = Absent /\ Current \in {before, Target}
  BY <1>2 DEF Rescued, Current, OnlyCopy
<1>5. TableRecoverable
  <2>1. ASSUME loss = "no" PROVE Current \in {before, Target}
    <3>1. CASE step = "rename"
      BY <1>0, <1>4, <2>1, <3>1 DEF AliasPhases, Rescued
    <3>2. CASE step # "rename"
      BY <1>0, <1>1, <1>3, <1>4, <2>1, <3>2
         DEF AliasTypes, AliasPhases, AliasSteps, AliasAnswers
    <3> QED BY <3>1, <3>2
  <2>2. loss = "failure" => alias = Absent /\ answer = "io_error"
    BY <1>0, <1>4 DEF AliasTypes, AliasPhases, AliasSteps, AliasAnswers
  <2>3. ASSUME loss = "forsaken" PROVE alias \in {Absent, Target}
    <3>1. alias = Basis => alias = Absent
      BY <2>3 DEF Basis
    <3> QED BY <1>0, <1>1, <1>4, <2>3, <3>1 DEF AliasTypes, AliasPhases, AliasSteps, AliasAnswers
  <2> QED BY <2>1, <2>2, <2>3 DEF TableRecoverable
<1>6. ASSUME answer \in {"ok", "updated", "mapping_not_found"}
      PROVE  Finished(alias) /\ (answer = "updated" => found)
  BY <1>0, <1>6 DEF AliasTypes, AliasPhases
<1>7. answer = "file_not_found" => Current = before /\ loss = "no"
  BY <1>0 DEF AliasTypes, AliasPhases
<1>8. ASSUME answer = "io_error"
      PROVE  Current = before \/ (alias = Absent /\ (loss # "no" \/ Current = Target))
  BY <1>0, <1>4, <1>8 DEF AliasTypes, AliasPhases
<1>9. StatusTellsTable
  BY <1>1, <1>6, <1>7, <1>8 DEF StatusTellsTable, Finished
<1> QED BY <1>5, <1>9 DEF AliasTrue

\* The loop begins with nothing.
LEMMA CopyBegins ==
    ASSUME NEW old \in Seq(Lines), NEW e \in Edits
    PROVE  Copied(old, e, 0, <<>>, FALSE, FALSE)
<1>1. SubSeq(old, 1, 0) = <<>> /\ <<>> \in Seq(Lines) /\ 0 <= Len(old)
  OBVIOUS
<1>2. Progress(old, e, 0) = <<>>
  BY ProgressZero
<1>3. \A x : HitsIn(<<>>, x) = {} /\ Agree(<<>>, <<>>, x)
  BY DEF HitsIn, Agree
<1> QED BY <1>1, <1>2, <1>3 DEF Copied

\* A line is read: kept, replaced or dropped.
LEMMA CopyGoesOn ==
    ASSUME NEW old \in Seq(Lines), NEW e \in Edits, NEW k \in Nat, k < Len(old),
           NEW t, NEW w \in BOOLEAN, NEW f \in BOOLEAN, Copied(old, e, k, t, w, f),
           NEW hit, hit = Matches(old[k + 1], e.ext)
    PROVE  Copied(old, e, k + 1,
                  IF ~hit THEN Append(t, old[k + 1])
                  ELSE IF e.kind = "add" /\ ~w THEN Append(t, Mapping(e.ext, e.app))
                  ELSE t,
                  w \/ (hit /\ e.kind = "add"), f \/ hit)
<1> DEFINE line == old[k + 1]
           new == Mapping(e.ext, e.app)
           read == SubSeq(old, 1, k)
           next == SubSeq(old, 1, k + 1)
           u == IF ~hit THEN Append(t, line)
                ELSE IF e.kind = "add" /\ ~w THEN Append(t, new) ELSE t
<1>1. /\ read \in Seq(Lines) /\ line \in Lines /\ next = Append(read, line)
      /\ \A x : (HitsIn(next, x) = {}) <=> (HitsIn(read, x) = {} /\ ~Matches(line, x))
      /\ hit => ((k + 1 = FirstHit(old, e.ext)) <=> (HitsIn(read, e.ext) = {}))
  BY PrefixHits
<1>2. /\ t \in Seq(Lines) /\ t = Progress(old, e, k)
      /\ \A x \in Extensions \ {e.ext} : Agree(t, read, x)
      /\ f <=> (HitsIn(read, e.ext) # {})
      /\ w <=> (f /\ e.kind = "add")
      /\ w => HitsIn(t, e.ext) # {} /\ Lookup(t, e.ext) = e.app
      /\ ~w => HitsIn(t, e.ext) = {}
  BY DEF Copied
<1>3. Progress(old, e, k + 1) =
        IF ~hit THEN Append(t, line)
        ELSE IF k + 1 = FirstHit(old, e.ext) THEN t \o Own(e) ELSE t
  BY <1>2, ProgressStep
<1>4. hit => \A x : x # e.ext => ~Matches(line, x)
  BY DEF Matches
<1> HIDE DEF line, read, next
<1>5. CASE ~hit
  <2>1. u = Append(t, line) /\ u = Progress(old, e, k + 1)
    BY <1>3, <1>5
  <2>2. \A x \in Extensions \ {e.ext} : Agree(u, next, x)
    BY <1>1, <1>2, <2>1, AgreeSame
  <2>3. ~Matches(line, e.ext)
    BY <1>5 DEF line
  <2>4. /\ u \in Seq(Lines) /\ (HitsIn(u, e.ext) = {} <=> HitsIn(t, e.ext) = {})
        /\ HitsIn(t, e.ext) # {} => Lookup(u, e.ext) = Lookup(t, e.ext)
    BY <1>1, <1>2, <2>1, <2>3, LookupAppend
  <2>5. f <=> (HitsIn(next, e.ext) # {})
    BY <1>1, <1>2, <2>3
  <2> QED
    <3> HIDE DEF u
    <3>1. Copied(old, e, k + 1, u, w, f)
      BY <1>2, <2>1, <2>2, <2>4, <2>5 DEF Copied, next
    <3>2. (w \/ (hit /\ e.kind = "add")) = w /\ (f \/ hit) = f
      BY <1>5
    <3> QED BY <3>1, <3>2 DEF u, line
<1>6. CASE hit
  <2>1. HitsIn(next, e.ext) # {} /\ Matches(line, e.ext)
    BY <1>1, <1>6 DEF line
  <2>2. CASE e.kind = "add" /\ ~w
    <3>1. u = Append(t, new) /\ ~f
      BY <1>2, <1>6, <2>2
    <3>2. Own(e) = <<new>> /\ k + 1 = FirstHit(old, e.ext)
      BY <1>1, <1>2, <1>6, <2>2 DEF Own
    <3>3. t \o <<new>> = Append(t, new)
      BY <1>2, <2>2, MappingMatches
    <3>4. u = Progress(old, e, k + 1)
      BY <1>3, <1>6, <3>1, <3>2, <3>3
    <3>5. /\ new \in Lines /\ Matches(new, e.ext) /\ new.app = e.app
          /\ \A x : x # e.ext => ~Matches(new, x)
      BY <2>2, MappingMatches
    <3> HIDE DEF new
    <3>6. ASSUME NEW x \in Extensions \ {e.ext} PROVE Agree(u, next, x)
      <4>1. Agree(t, next, x)
        BY <1>1, <1>2, <1>4, <1>6, AgreeRight
      <4> QED BY <1>2, <3>1, <3>5, <4>1, AgreeLeft
    <3>7. u \in Seq(Lines) /\ HitsIn(u, e.ext) # {} /\ Lookup(u, e.ext) = e.app
      BY <1>2, <2>2, <3>1, <3>5, LookupAppend
    <3> HIDE DEF u
    <3>8. Copied(old, e, k + 1, u, TRUE, TRUE)
      BY <2>1, <2>2, <3>4, <3>6, <3>7 DEF Copied, next
    <3>9. (w \/ (hit /\ e.kind = "add")) = TRUE /\ (f \/ hit) = TRUE
      BY <1>6, <2>2
    <3> QED BY <3>8, <3>9 DEF u, line, new
  <2>3. CASE ~(e.kind = "add" /\ ~w)
    <3>1. u = t
      BY <1>6, <2>3
    <3>2. u = Progress(old, e, k + 1)
      <4>1. CASE e.kind = "add"
        <5>1. k + 1 # FirstHit(old, e.ext)
          BY <1>1, <1>2, <1>6, <2>3, <4>1
        <5> QED BY <1>3, <1>6, <3>1, <5>1
      <4>2. CASE e.kind # "add"
        <5>1. t \o Own(e) = t
          BY <1>2, <4>2 DEF Own
        <5> QED BY <1>3, <1>6, <3>1, <5>1
      <4> QED BY <4>1, <4>2
    <3>3. \A x \in Extensions \ {e.ext} : Agree(u, next, x)
      BY <1>1, <1>2, <1>4, <1>6, <3>1, AgreeRight
    <3>4. (w \/ (hit /\ e.kind = "add")) = w /\ (f \/ hit) = TRUE /\ (w <=> e.kind = "add")
      BY <1>2, <1>6, <2>3
    <3> HIDE DEF u
    <3>5. Copied(old, e, k + 1, u, w, TRUE)
      BY <1>2, <2>1, <3>1, <3>2, <3>3, <3>4 DEF Copied, next
    <3> QED BY <3>4, <3>5 DEF u, line
  <2> QED BY <2>2, <2>3
<1> QED BY <1>5, <1>6

\* Every line has been read: a mapping that is new goes to the end.
LEMMA CopyEnds ==
    ASSUME NEW table \in Seq(Lines) \union {Absent}, NEW e \in Edits,
           NEW t, NEW w \in BOOLEAN, NEW f \in BOOLEAN,
           Copied(OldLines(table), e, Len(OldLines(table)), t, w, f)
    PROVE  LET u == IF e.kind = "add" /\ ~w THEN Append(t, Mapping(e.ext, e.app)) ELSE t
           IN  /\ u \in Seq(Lines) /\ u = Updated(table, e)
               /\ \A x \in Extensions \ {e.ext} : Lookup(u, x) = Lookup(table, x)
               /\ e.kind = "add" => Lookup(u, e.ext) = e.app
               /\ e.kind = "remove" => Lookup(u, e.ext) = Absent
               /\ f => Lookup(table, e.ext) # Absent
<1> DEFINE old == OldLines(table)
           new == Mapping(e.ext, e.app)
           u == IF e.kind = "add" /\ ~w THEN Append(t, new) ELSE t
<1>1. old \in Seq(Lines) /\ \A x : Lookup(old, x) = Lookup(table, x)
  BY OldLinesAgree
<1>2. SubSeq(old, 1, Len(old)) = old
  <2> HIDE DEF old
  <2> QED BY <1>1
<1>3. /\ t \in Seq(Lines) /\ t = Progress(old, e, Len(old))
      /\ \A x \in Extensions \ {e.ext} : Agree(t, old, x)
      /\ f <=> (HitsIn(old, e.ext) # {})
      /\ w <=> (f /\ e.kind = "add")
      /\ w => HitsIn(t, e.ext) # {} /\ Lookup(t, e.ext) = e.app
      /\ ~w => HitsIn(t, e.ext) = {}
  BY <1>2 DEF Copied
<1>4. Updated(table, e) = IF HitsIn(old, e.ext) = {} THEN t \o Own(e) ELSE t
  BY <1>3, ProgressEnds
<1> HIDE DEF old
<1>5. f => Lookup(table, e.ext) # Absent
  BY <1>1, <1>3, HitsAreNamed
<1>6. e.kind \in {"add", "remove"}
  BY DEF Edits
<1>7. CASE e.kind = "add" /\ ~w
  <2>1. u = Append(t, new) /\ Own(e) = <<new>> /\ HitsIn(old, e.ext) = {}
    BY <1>3, <1>7 DEF Own
  <2>2. /\ new \in Lines /\ Matches(new, e.ext) /\ new.app = e.app
        /\ \A x : x # e.ext => ~Matches(new, x)
    BY <1>7, MappingMatches
  <2> HIDE DEF new
  <2>3. u = Updated(table, e)
    <3>1. t \o <<new>> = Append(t, new)
      BY <1>3, <2>2
    <3> QED BY <1>4, <2>1, <3>1
  <2>4. ASSUME NEW x \in Extensions \ {e.ext} PROVE Lookup(u, x) = Lookup(table, x)
    <3>1. Agree(u, old, x)
      BY <1>3, <2>1, <2>2, AgreeLeft
    <3> QED BY <1>1, <3>1 DEF Agree
  <2>5. u \in Seq(Lines) /\ Lookup(u, e.ext) = e.app
    BY <1>3, <1>7, <2>1, <2>2, LookupAppend
  <2> HIDE DEF u
  <2> QED BY <1>5, <1>7, <2>3, <2>4, <2>5 DEF u, new
<1>8. CASE ~(e.kind = "add" /\ ~w)
  <2>1. u = t
    BY <1>8
  <2>2. u = Updated(table, e)
    <3>1. CASE e.kind = "add"
      BY <1>3, <1>4, <1>8, <2>1, <3>1
    <3>2. CASE e.kind # "add"
      <4>1. t \o Own(e) = t
        BY <1>3, <3>2 DEF Own
      <4> QED BY <1>4, <2>1, <4>1
    <3> QED BY <3>1, <3>2
  <2>3. \A x \in Extensions \ {e.ext} : Lookup(u, x) = Lookup(table, x)
    BY <1>1, <1>3, <2>1 DEF Agree
  <2>4. e.kind = "add" => Lookup(u, e.ext) = e.app
    BY <1>3, <1>8, <2>1
  <2>5. e.kind = "remove" => Lookup(u, e.ext) = Absent
    BY <1>3, <2>1, LookupIs
  <2> HIDE DEF u
  <2> QED BY <1>3, <1>5, <2>1, <2>2, <2>3, <2>4, <2>5 DEF u, new
<1> QED BY <1>7, <1>8

\* Every step of an update, a failure and a crash keep the phases.
LEMMA AliasInvNext == AliasInv /\ [AliasNext]_aliasVars => AliasInv'
<1> SUFFICES ASSUME AliasInv, [AliasNext]_aliasVars PROVE AliasInv'
  OBVIOUS
<1>0. AliasTypes /\ AliasPhases
  BY DEF AliasInv
<1> USE DEF AliasSteps, AliasAnswers
<1>1. ASSUME NEW e \in Edits, StartEdit(e) PROVE AliasInv'
  <2>1. Current \in Seq(Lines) \union {Absent}
    BY <1>0 DEF AliasTypes, Current
  <2>2. Current' = before'
    BY <1>1 DEF StartEdit, files, Current, OnlyCopy
  <2>3. UNCHANGED <<alias, temporary>> /\ step' = "open" /\ edit' = e /\ copied' = 0
        /\ written' = FALSE /\ found' = FALSE /\ answer' = "none" /\ before' = Current
        /\ loss' = "no"
    BY <1>1 DEF StartEdit, files
  <2>4. AliasTypes'
    BY <1>0, <2>1, <2>3 DEF AliasTypes
  <2> QED BY <2>2, <2>3, <2>4 DEF AliasInv, AliasPhases
<1>2. CASE OpenSource
  <2>1. step = "open" /\ UNCHANGED <<alias, temporary, copied, written, found, edit, before, loss>>
        /\ \/ step' = "idle" /\ answer' \in {"io_error", "file_not_found"}
           \/ step' = "drop" /\ UNCHANGED answer
    BY <1>2 DEF OpenSource, Answers, Becomes, files, flags
  <2>2. Current' = Current
    BY <2>1 DEF Current, OnlyCopy
  <2> QED BY <1>0, <2>1, <2>2 DEF AliasInv, AliasTypes, AliasPhases
<1>3. CASE DropTemporary
  <2>1. /\ step = "drop" /\ UNCHANGED <<alias, copied, written, found, edit, before>>
        /\ temporary' \in {temporary, Absent}
        /\ loss' = IF OnlyCopy /\ temporary' = Absent THEN "forsaken" ELSE loss
        /\ \/ temporary' = Absent /\ step' = "create" /\ UNCHANGED answer
           \/ step' = "idle" /\ answer' = "io_error"
    BY <1>3 DEF DropTemporary, flags
  <2>2. Current = before /\ loss = "no"
    BY <1>0, <2>1 DEF AliasPhases
  <2>3. AliasTypes'
    BY <1>0, <2>1 DEF AliasTypes
  <2>4. CASE OnlyCopy /\ temporary' = Absent
    <3>1. loss' = "forsaken" /\ alias' = Absent /\ Basis' = Absent
      BY <2>1, <2>4 DEF OnlyCopy, Basis
    <3> QED BY <1>0, <2>1, <2>3, <3>1 DEF AliasInv, AliasPhases
  <2>5. CASE ~(OnlyCopy /\ temporary' = Absent)
    <3>1. loss' = "no" /\ Current' = before' /\ Basis' = before'
      BY <2>1, <2>2, <2>5 DEF OnlyCopy, Current, Basis
    <3>2. temporary' = Absent => alias' = Basis'
      BY <2>1, <2>2, <2>5, <3>1 DEF Current
    <3> QED BY <1>0, <2>1, <2>3, <3>1, <3>2 DEF AliasInv, AliasPhases
  <2> QED BY <2>4, <2>5
<1>4. CASE CreateTemporary
  <2>1. step = "create" /\ alias = Basis /\ loss # "failure" /\ copied = 0 /\ ~written /\ ~found
        /\ UNCHANGED <<alias, copied, written, found>>
    BY <1>0, <1>4 DEF CreateTemporary, flags, AliasPhases
  <2>2. CASE temporary' = <<>> /\ Becomes("copy")
    <3>1. OldLines(Basis) \in Seq(Lines) /\ edit \in Edits
      BY <1>0, <2>1, OldLinesAgree DEF AliasTypes
    <3>2. written = FALSE /\ found = FALSE /\ copied = 0
      BY <1>0, <2>1 DEF AliasTypes
    <3>3. Copied(OldLines(Basis), edit, copied, <<>>, written, found)
      BY <3>1, <3>2, CopyBegins
    <3>4. Copying'
      BY <2>1, <2>2, <3>3 DEF Copying, Becomes, OldLines, Basis
    <3>5. <<>> \in Seq(Lines) /\ Basis' = Basis
      BY <2>2 DEF Becomes, Basis
    <3> QED BY <1>0, <2>1, <2>2, <3>4, <3>5 DEF Becomes, AliasInv, AliasTypes, AliasPhases
  <2>3. CASE temporary' \in {temporary, <<>>} /\ Answers("io_error")
    <3>1. <<>> \in Seq(Lines)
      OBVIOUS
    <3>2. Current' = before' \/ (alias' = Absent /\ loss' # "no")
      BY <2>1, <2>3 DEF Answers, Basis, Current, OnlyCopy
    <3>3. loss' \in {"no", "forsaken"} /\ (loss' = "forsaken" => alias' = Absent)
      BY <1>0, <2>1, <2>3 DEF Answers, Basis, AliasTypes
    <3> QED BY <1>0, <2>1, <2>3, <3>1, <3>2, <3>3 DEF Answers, AliasInv, AliasTypes, AliasPhases
  <2> QED BY <1>4, <2>2, <2>3 DEF CreateTemporary
<1>5. ASSUME step = "copy"
      PROVE  /\ alias = Basis /\ loss # "failure" /\ edit \in Edits /\ answer = "none"
             /\ Source = OldLines(Basis) /\ OldLines(Basis) \in Seq(Lines)
             /\ Copied(Source, edit, copied, temporary, written, found)
             /\ temporary \in Seq(Lines) /\ copied \in Nat
             /\ written \in BOOLEAN /\ found \in BOOLEAN
  <2>1. alias = Basis /\ loss # "failure" /\ edit \in Edits /\ answer = "none" /\ Copying
        /\ copied \in Nat /\ written \in BOOLEAN /\ found \in BOOLEAN
    BY <1>0, <1>5 DEF AliasTypes, AliasPhases
  <2>2. Source = OldLines(Basis) /\ OldLines(Basis) \in Seq(Lines)
    BY <1>0, <2>1, OldLinesAgree DEF Source, OldLines, AliasTypes
  <2>3. Copied(Source, edit, copied, temporary, written, found)
    BY <2>1, <2>2 DEF Copying
  <2>4. temporary \in Seq(Lines)
    BY <2>3 DEF Copied
  <2> QED BY <2>1, <2>2, <2>3, <2>4
<1>6. CASE CopyLine
  <2>1. step = "copy" /\ copied < Len(Source) /\ copied' = copied + 1 /\ UNCHANGED alias
        /\ step' = "copy" /\ UNCHANGED <<edit, answer, before, loss>>
    BY <1>6 DEF CopyLine, Becomes
  <2> DEFINE hit == Matches(Source[copied + 1], edit.ext)
  <2>2. /\ found' = (found \/ hit) /\ written' = (written \/ (hit /\ edit.kind = "add"))
        /\ temporary' = IF ~hit THEN Append(temporary, Source[copied + 1])
                        ELSE IF edit.kind = "add" /\ ~written
                        THEN Append(temporary, Mapping(edit.ext, edit.app))
                        ELSE temporary
    BY <1>6 DEF CopyLine
  <2>3. Copied(Source, edit, copied + 1, temporary', written', found')
    <3>1. PICK h : h = hit
      OBVIOUS
    <3> HIDE DEF hit
    <3>2. h = Matches(Source[copied + 1], edit.ext)
      BY <3>1 DEF hit
    <3>3. Copied(Source, edit, copied + 1,
                  IF ~h THEN Append(temporary, Source[copied + 1])
                  ELSE IF edit.kind = "add" /\ ~written
                  THEN Append(temporary, Mapping(edit.ext, edit.app))
                  ELSE temporary,
                  written \/ (h /\ edit.kind = "add"), found \/ h)
      BY <1>5, <2>1, <3>2, CopyGoesOn
    <3> QED BY <2>2, <3>1, <3>3
  <2>4. Copying' /\ temporary' \in Seq(Lines)
    <3>1. temporary' \in Seq(Lines)
      BY <2>3 DEF Copied
    <3> QED BY <1>5, <2>1, <2>3, <3>1 DEF Copying, OldLines, Basis
  <2>5. found' \in BOOLEAN /\ written' \in BOOLEAN /\ Basis' = Basis
    BY <2>1, <2>2 DEF Basis
  <2> QED BY <1>0, <1>5, <2>1, <2>4, <2>5 DEF AliasInv, AliasTypes, AliasPhases
<1>7. CASE FinishCopy
  <2>1. step = "copy" /\ copied = Len(Source)
        /\ UNCHANGED <<alias, copied, written, found, edit, answer, before, loss>>
        /\ step' = "close"
        /\ temporary' = IF edit.kind = "add" /\ ~written
                        THEN Append(temporary, Mapping(edit.ext, edit.app)) ELSE temporary
    BY <1>7 DEF FinishCopy, Becomes, flags
  <2>2. Basis \in Seq(Lines) \union {Absent} /\ Basis' = Basis
    BY <1>0, <2>1 DEF AliasTypes, Basis
  <2>3. Copied(OldLines(Basis), edit, Len(OldLines(Basis)), temporary, written, found)
    BY <1>5, <2>1
  <2>4. Finished(temporary')
    BY <1>5, <2>1, <2>2, <2>3, CopyEnds DEF Finished
  <2>5. Finished(temporary)' /\ temporary' \in Seq(Lines)
    BY <2>1, <2>2, <2>4 DEF Finished
  <2> QED BY <1>0, <1>5, <2>1, <2>2, <2>5 DEF AliasInv, AliasTypes, AliasPhases
<1>8. CASE CopyFails
  <2>1. Basis' = Basis
    BY <1>8 DEF CopyFails, Becomes, Basis
  <2> QED BY <1>0, <1>5, <1>8, <2>1
       DEF CopyFails, Becomes, files, flags, AliasInv, AliasTypes, AliasPhases
<1>9. CASE CloseBoth
  <2>1. UNCHANGED <<before, edit, found, alias, temporary, copied, written, answer, loss>>
        /\ step = "close" /\ step' \in {"rename", "delete", "failed"}
        /\ (step' = "rename" => alias = Absent) /\ (step' = "delete" => alias # Absent)
    BY <1>9 DEF CloseBoth, Becomes, files, flags
  <2>2. (Finished(temporary)' <=> Finished(temporary)) /\ Basis' = Basis
    BY <2>1 DEF Finished, Basis
  <2> QED BY <1>0, <2>1, <2>2 DEF AliasInv, AliasTypes, AliasPhases
<1>10. CASE DeleteTable
  <2>1. UNCHANGED <<before, edit, found, temporary, copied, written, answer, loss>>
        /\ step = "delete"
        /\ \/ alias' = Absent /\ step' = "rename"
           \/ step' = "failed" /\ alias' \in {alias, Absent}
    BY <1>10 DEF DeleteTable, Becomes, flags
  <2>2. (Finished(temporary)' <=> Finished(temporary)) /\ Basis' = Basis
    BY <2>1 DEF Finished, Basis
  <2>3. loss = "no" /\ Finished(temporary)
    BY <1>0, <2>1 DEF AliasTypes, AliasPhases, Basis
  <2>4. step' = "failed" => (alias' = Basis' \/ Rescued')
    BY <1>0, <2>1, <2>2, <2>3 DEF AliasPhases, Rescued
  <2> QED BY <1>0, <2>1, <2>2, <2>3, <2>4 DEF AliasInv, AliasTypes, AliasPhases
<1>11. CASE RenameTemporary
  <2>1. step = "rename" /\ UNCHANGED <<before, edit, found, copied, written, loss>>
    BY <1>11 DEF RenameTemporary, Answers, Becomes, flags
  <2>2. Finished(temporary) /\ alias = Absent /\ temporary \in Seq(Lines) /\ loss # "failure"
        /\ edit \in Edits /\ Basis' = Basis
    BY <1>0, <2>1 DEF AliasPhases, Finished, Basis
  <2>3. CASE /\ alias' = temporary /\ temporary' = Absent
             /\ Answers(IF edit.kind = "remove"
                        THEN IF found THEN "ok" ELSE "mapping_not_found"
                        ELSE IF found THEN "updated" ELSE "ok")
    <3>1. step' = "idle"
          /\ answer' \in {"ok", "updated", "mapping_not_found"}
          /\ (answer' = "updated" => found)
      BY <2>3 DEF Answers
    <3>2. Finished(alias)'
      BY <2>1, <2>2, <2>3 DEF Finished
    <3> QED BY <1>0, <2>1, <2>2, <2>3, <3>1, <3>2 DEF AliasInv, AliasTypes, AliasPhases
  <2>4. CASE Becomes("failed") /\ UNCHANGED files
    <3>1. step' = "failed" /\ UNCHANGED <<alias, temporary, answer>>
      BY <2>4 DEF Becomes, files
    <3>2. Finished(temporary)'
      BY <2>1, <2>2, <3>1 DEF Finished
    <3>3. alias' = Basis' \/ Rescued'
      BY <1>0, <2>1, <2>2, <3>1, <3>2 DEF Rescued, Basis, AliasTypes
    <3> QED BY <1>0, <2>1, <2>2, <3>1, <3>3 DEF AliasInv, AliasTypes, AliasPhases
  <2> QED BY <1>11, <2>3, <2>4 DEF RenameTemporary
<1>12. CASE DropFailed
  <2>1. /\ step = "failed" /\ step' = "idle" /\ answer' = "io_error"
        /\ UNCHANGED <<alias, copied, written, found, edit, before>>
        /\ temporary' \in {temporary, Absent}
        /\ loss' = IF OnlyCopy /\ temporary' = Absent THEN "failure" ELSE loss
    BY <1>12 DEF DropFailed, flags
  <2>2. AliasTypes'
    BY <1>0, <2>1 DEF AliasTypes
  <2>3. \/ Current' = before' /\ loss' = "no"
        \/ Rescued'
        \/ alias' = Absent /\ loss' # "no"
    <3>1. CASE alias = Basis /\ loss # "failure"
      BY <1>0, <2>1, <3>1 DEF Basis, OnlyCopy, Current, AliasTypes
    <3>2. CASE Rescued /\ temporary' = temporary
      <4>1. loss' = loss \/ (alias' = Absent /\ loss' # "no")
        BY <2>1, <3>2 DEF Rescued
      <4>2. loss' = loss => (Finished(temporary)' <=> Finished(temporary))
        BY <2>1, <3>2 DEF Finished, Basis
      <4> QED BY <2>1, <3>2, <4>1, <4>2 DEF Rescued
    <3>3. CASE Rescued /\ temporary' # temporary
      BY <2>1, <3>3 DEF Rescued, OnlyCopy, Current
    <3> QED BY <1>0, <2>1, <3>1, <3>2, <3>3 DEF AliasPhases
  <2> QED BY <2>1, <2>2, <2>3 DEF AliasInv, AliasPhases
<1>13. CASE AliasCrash
  <2>1. step \notin {"idle", "torn"} /\ step' = "idle" /\ answer' = "crash"
        /\ UNCHANGED <<alias, copied, written, found, edit, before, loss>>
    BY <1>13 DEF AliasCrash, flags
  <2>2. ASSUME alias = Basis, loss # "failure"
        PROVE  \/ Current' = before' /\ loss' = "no"
               \/ alias' = Absent /\ loss' = "forsaken"
    BY <1>0, <2>1, <2>2 DEF Basis, OnlyCopy, Current, AliasTypes
  <2>3. CASE step \in {"copy", "close"}
    <3>1. temporary \in Seq(Lines) /\ alias = Basis /\ loss # "failure"
      BY <1>0, <2>3 DEF AliasPhases, Copying, Copied, Finished
    <3>2. temporary' \in Seq(Lines) \union {Absent}
      BY <1>13, <2>3, <3>1 DEF AliasCrash
    <3> QED BY <1>0, <2>1, <2>2, <3>1, <3>2 DEF AliasInv, AliasTypes, AliasPhases
  <2>4. CASE step \notin {"copy", "close"}
    <3>1. temporary' = temporary
      BY <1>13, <2>4 DEF AliasCrash
    <3>2. (Finished(temporary)' <=> Finished(temporary)) /\ Current' = Current
      BY <2>1, <3>1 DEF Finished, Basis, Current, OnlyCopy
    <3>3. step \in {"open", "drop", "create", "delete", "rename", "failed"}
      BY <1>0, <2>1, <2>4 DEF AliasTypes
    <3>4. \/ Current' = before' /\ loss' = "no"
          \/ Rescued'
          \/ alias' = Absent /\ loss' = "forsaken"
      <4>1. CASE step \in {"open", "drop"}
        BY <1>0, <2>1, <3>2, <4>1 DEF AliasPhases
      <4>2. CASE step \in {"create", "delete"}
        BY <1>0, <2>2, <4>2 DEF AliasPhases
      <4>3. CASE step = "rename"
        BY <1>0, <2>1, <3>2, <4>3 DEF AliasTypes, AliasPhases, Rescued
      <4>4. CASE step = "failed"
        BY <1>0, <2>1, <2>2, <3>2, <4>4 DEF AliasPhases, Rescued
      <4> QED BY <3>3, <4>1, <4>2, <4>3, <4>4
    <3>5. AliasTypes'
      BY <1>0, <2>1, <3>1 DEF AliasTypes
    <3> QED BY <2>1, <3>4, <3>5 DEF AliasInv, AliasPhases
  <2> QED BY <2>3, <2>4
<1>14. CASE TearAlias
  <2>1. step = "rename" /\ step' = "torn" /\ alias' = temporary
        /\ UNCHANGED <<temporary, copied, written, found, edit, answer, before, loss>>
    BY <1>14 DEF TearAlias, Becomes, flags
  <2>2. Finished(temporary) /\ loss # "failure" /\ temporary \in Seq(Lines)
    BY <1>0, <2>1 DEF AliasPhases, Finished
  <2>3. Finished(alias)'
    BY <2>1, <2>2 DEF Finished, Basis
  <2> QED BY <1>0, <2>1, <2>2, <2>3 DEF AliasInv, AliasTypes, AliasPhases
<1>15. CASE UNCHANGED aliasVars
  <2>1. UNCHANGED <<alias, temporary, step, edit, copied, written, found, answer, before, loss>>
    BY <1>15 DEF aliasVars
  <2>2. Basis' = Basis /\ Current' = Current /\ OldLines(Basis)' = OldLines(Basis)
    BY <2>1 DEF Basis, Current, OnlyCopy, OldLines
  <2>3. (Copying' <=> Copying) /\ (Finished(temporary)' <=> Finished(temporary))
        /\ (Finished(alias)' <=> Finished(alias))
    BY <2>1, <2>2 DEF Copying, Copied, Finished
  <2>4. Rescued' <=> Rescued
    BY <2>1, <2>3 DEF Rescued
  <2> QED BY <1>0, <2>1, <2>2, <2>3, <2>4 DEF AliasInv, AliasTypes, AliasPhases
<1>16. CASE AliasTorn
  BY <1>15, <1>16 DEF AliasTorn
<1> QED BY <1>1, <1>2, <1>3, <1>4, <1>6, <1>7, <1>8, <1>9, <1>10, <1>11, <1>12, <1>13, <1>14,
         <1>15, <1>16 DEF AliasNext

\* The invariant of the "open with" table, of any length.
THEOREM AliasInvariant == AliasSpec => []AliasInv
<1> QED BY AliasInvInit, AliasInvNext, PTL DEF AliasSpec

\* Through any failures and crashes of any number of updates, of any table.
THEOREM AliasIsTrue == AliasSpec => []AliasTrue
<1> QED BY AliasInvariant, AliasInvSuffices, PTL

-----------------------------------------------------------------------------
\* The streams.  Position n of a chain, in any table; the chain that begins at c
\* and visits the clusters of q, each once.
NthIn(g, c, n) ==
    LET link[i \in 1..n] ==
          IF i = 1 THEN c
          ELSE IF link[i - 1] \in Clusters THEN g[link[i - 1]] ELSE NoCluster
    IN  link[n]
Chain(g, c, q) ==
    /\ q \in Seq(Clusters)
    /\ c = IF q = <<>> THEN NoCluster ELSE q[1]
    /\ \A i \in 1..Len(q) : g[q[i]] = IF i = Len(q) THEN End ELSE q[i + 1]
    /\ \A i, j \in 1..Len(q) : q[i] = q[j] => i = j

\* What follows the links, as far as one likes.
IsWalk(g, c, w, N) ==
    w = [i \in 1..N |-> IF i = 1 THEN c
                        ELSE IF w[i - 1] \in Clusters THEN g[w[i - 1]] ELSE NoCluster]
LEMMA WalkExists ==
    ASSUME NEW g, NEW c, NEW N \in Nat
    PROVE  \E w : IsWalk(g, c, w, N)
<1> DEFINE Next(f, i) == IF i = 1 THEN c
                         ELSE IF f[i - 1] \in Clusters THEN g[f[i - 1]] ELSE NoCluster
           Solves(f, m) == f = [i \in 1..m |-> Next(f, i)]
           S == {m \in Nat : \E f : Solves(f, m)}
<1>1. 0 \in S
  <2> DEFINE h == [i \in 1..0 |-> c]
  <2>1. Solves(h, 0)
    <3>1. \A i \in 1..0 : h[i] = Next(h, i)
      OBVIOUS
    <3>2. h = [i \in 1..0 |-> h[i]]
      OBVIOUS
    <3> HIDE DEF h, Next
    <3> QED BY <3>1, <3>2
  <2> QED BY <2>1
<1>2. \A m \in Nat : m \in S => m + 1 \in S
  <2> SUFFICES ASSUME NEW m \in Nat, NEW h, Solves(h, m) PROVE \E f : Solves(f, m + 1)
    <3> HIDE DEF Solves
    <3> QED BY SMT
  <2> DEFINE f == [i \in 1..(m + 1) |-> IF i = m + 1 THEN Next(h, i) ELSE h[i]]
  <2>2. \A i \in 1..m : h[i] = Next(h, i)
    OBVIOUS
  <2>3. \A i \in 1..(m + 1) : f[i] = Next(f, i)
    <3> SUFFICES ASSUME NEW i \in 1..(m + 1) PROVE f[i] = Next(f, i)
      OBVIOUS
    <3>1. i = 1 \/ (i - 1 \in 1..m /\ f[i - 1] = h[i - 1])
      OBVIOUS
    <3>2. Next(f, i) = Next(h, i)
      <4> HIDE DEF f
      <4> QED BY <3>1
    <3>3. CASE i = m + 1
      <4>1. f[i] = Next(h, i)
        BY <3>3
      <4> HIDE DEF f, Next
      <4> QED BY <3>2, <4>1
    <3>4. CASE i # m + 1
      <4>1. i \in 1..m /\ f[i] = h[i]
        BY <3>4
      <4>2. h[i] = Next(h, i)
        BY <2>2, <4>1
      <4> HIDE DEF f, Next
      <4> QED BY <3>2, <4>1, <4>2
    <3> QED BY <3>3, <3>4
  <2>4. Solves(f, m + 1)
    <3>1. f = [i \in 1..(m + 1) |-> f[i]]
      OBVIOUS
    <3> HIDE DEF f, Next
    <3> QED BY <2>3, <3>1
  <2> QED BY <2>4
<1>3. N \in S
  <2> HIDE DEF S
  <2> QED BY <1>1, <1>2, SetInduction
<1>4. PICK f : Solves(f, N)
  BY <1>3
<1>5. IsWalk(g, c, f, N)
  BY <1>4 DEF IsWalk
<1> QED BY <1>5

LEMMA WalkSteps ==
    ASSUME NEW g, NEW c, NEW w, NEW N \in Nat, IsWalk(g, c, w, N)
    PROVE  /\ N > 0 => w[1] = c
           /\ \A i \in 1..(N - 1) :
                  w[i + 1] = IF w[i] \in Clusters THEN g[w[i]] ELSE NoCluster
<1> DEFINE Next(i) == IF i = 1 THEN c
                      ELSE IF w[i - 1] \in Clusters THEN g[w[i - 1]] ELSE NoCluster
<1>1. \A i \in 1..N : w[i] = Next(i)
  <2>1. w = [i \in 1..N |-> Next(i)]
    BY DEF IsWalk
  <2> HIDE DEF Next
  <2> QED BY <2>1
<1>2. N > 0 => w[1] = c
  BY <1>1
<1>3. ASSUME NEW i \in 1..(N - 1)
      PROVE  w[i + 1] = IF w[i] \in Clusters THEN g[w[i]] ELSE NoCluster
  <2>1. i + 1 \in 1..N /\ i + 1 # 1 /\ (i + 1) - 1 = i
    OBVIOUS
  <2>2. w[i + 1] = Next(i + 1)
    BY <1>1, <2>1
  <2> QED BY <2>1, <2>2
<1> QED BY <1>2, <1>3

\* There is one such walk, so its n-th step is the position n of the chain.
LEMMA NthIs ==
    ASSUME NEW g, NEW c, NEW n \in Nat \ {0}
    PROVE  /\ NthIn(g, c, 1) = c
           /\ NthIn(g, c, n + 1) = IF NthIn(g, c, n) \in Clusters THEN g[NthIn(g, c, n)]
                                   ELSE NoCluster
<1> DEFINE W(m) == CHOOSE w : IsWalk(g, c, w, m)
<1>1. \A m \in Nat : NthIn(g, c, m) = W(m)[m] /\ IsWalk(g, c, W(m), m)
  <2> SUFFICES ASSUME NEW m \in Nat
               PROVE  NthIn(g, c, m) = W(m)[m] /\ IsWalk(g, c, W(m), m)
    OBVIOUS
  <2>1. NthIn(g, c, m) = W(m)[m]
    BY DEF NthIn, IsWalk
  <2>2. IsWalk(g, c, W(m), m)
    BY WalkExists
  <2> QED BY <2>1, <2>2
<1> HIDE DEF W
<1>2. ASSUME NEW m \in Nat \ {0}
      PROVE  /\ W(m)[1] = c
             /\ \A i \in 1..(m - 1) :
                   W(m)[i + 1] = IF W(m)[i] \in Clusters THEN g[W(m)[i]] ELSE NoCluster
  BY <1>1, WalkSteps
<1>3. NthIn(g, c, 1) = c
  BY <1>1, <1>2
<1>4. W(n + 1)[n] = W(n)[n]
  <2> DEFINE S == {i \in Nat : i + 1 <= n => W(n + 1)[i + 1] = W(n)[i + 1]}
  <2>1. 0 \in S
    <3>1. n + 1 \in Nat \ {0} /\ W(n + 1)[1] = c /\ W(n)[1] = c
      BY <1>2
    <3> QED BY <3>1
  <2>2. \A i \in Nat : i \in S => i + 1 \in S
    <3> SUFFICES ASSUME NEW i \in Nat, i \in S, (i + 1) + 1 <= n
                 PROVE  W(n + 1)[(i + 1) + 1] = W(n)[(i + 1) + 1]
      OBVIOUS
    <3>1. W(n + 1)[i + 1] = W(n)[i + 1]
      OBVIOUS
    <3>2. i + 1 \in 1..(n - 1) /\ i + 1 \in 1..((n + 1) - 1) /\ n + 1 \in Nat \ {0}
      OBVIOUS
    <3> DEFINE a == W(n + 1) b == W(n) k == i + 1
    <3>3. a[k + 1] = IF a[k] \in Clusters THEN g[a[k]] ELSE NoCluster
      BY <1>2, <3>2
    <3>4. b[k + 1] = IF b[k] \in Clusters THEN g[b[k]] ELSE NoCluster
      BY <1>2, <3>2
    <3> QED BY <3>1, <3>3, <3>4
  <2>3. n - 1 \in S
    <3> HIDE DEF S
    <3> QED BY <2>1, <2>2, SetInduction
  <2> QED BY <2>3
<1>5. W(n + 1)[n + 1] = IF W(n + 1)[n] \in Clusters THEN g[W(n + 1)[n]] ELSE NoCluster
  <2>1. n \in 1..((n + 1) - 1) /\ n + 1 \in Nat \ {0}
    OBVIOUS
  <2> QED BY <1>2, <2>1
<1>6. NthIn(g, c, n) = W(n)[n] /\ NthIn(g, c, n + 1) = W(n + 1)[n + 1]
  BY <1>1
<1> QED BY <1>3, <1>4, <1>5, <1>6

\* The n-th cluster of a chain, and none behind its end.
LEMMA ChainNth ==
    ASSUME NEW g, NEW c, NEW q, Chain(g, c, q)
    PROVE  /\ \A n \in 1..Len(q) : NthIn(g, c, n) = q[n]
           /\ \A n \in Nat \ {0} : n > Len(q) => NthIn(g, c, n) \notin Clusters
<1>1. /\ Len(q) \in Nat /\ \A i \in 1..Len(q) : q[i] \in Clusters
      /\ c = IF q = <<>> THEN NoCluster ELSE q[1]
      /\ \A i \in 1..Len(q) : g[q[i]] = IF i = Len(q) THEN End ELSE q[i + 1]
  BY DEF Chain
<1>2. NoCluster \notin Clusters /\ End \notin Clusters
  BY StdioConstants DEF NoCluster, End, Clusters
<1> DEFINE N == Len(q)
           P(n) == NthIn(g, c, n)
<1>3. P(1) = c /\ \A n \in Nat \ {0} : P(n + 1) = IF P(n) \in Clusters THEN g[P(n)] ELSE NoCluster
  <2>1. 1 \in Nat \ {0}
    OBVIOUS
  <2> QED BY <2>1, NthIs
<1> HIDE DEF P
<1>4. N # 0 => q # <<>>
  OBVIOUS
<1>5. N = 0 => q = <<>>
  BY DEF Chain
<1> HIDE DEF N
<1>6. \A n \in 1..N : P(n) = q[n]
  <2> DEFINE S == {n \in Nat : n + 1 <= N => P(n + 1) = q[n + 1]}
  <2>1. 0 \in S
    BY <1>1, <1>3, <1>4
  <2>2. \A n \in Nat : n \in S => n + 1 \in S
    <3> SUFFICES ASSUME NEW n \in Nat, n \in S, (n + 1) + 1 <= N
                 PROVE  P((n + 1) + 1) = q[(n + 1) + 1]
      OBVIOUS
    <3>1. n + 1 \in 1..N /\ n + 1 # N /\ n + 1 \in Nat \ {0}
      BY <1>1 DEF N
    <3>2. P(n + 1) = q[n + 1]
      BY <3>1
    <3>3. q[n + 1] \in Clusters /\ g[q[n + 1]] = q[(n + 1) + 1]
      BY <1>1, <3>1 DEF N
    <3>4. P((n + 1) + 1) = IF P(n + 1) \in Clusters THEN g[P(n + 1)] ELSE NoCluster
      BY <1>3, <3>1
    <3> QED BY <3>2, <3>3, <3>4
  <2>3. Nat \subseteq S
    <3> HIDE DEF S
    <3> QED BY <2>1, <2>2, SetInduction
  <2>4. ASSUME NEW n \in 1..N PROVE P(n) = q[n]
    <3>1. n - 1 \in Nat /\ (n - 1) + 1 = n /\ n <= N
      BY <1>1 DEF N
    <3>2. n - 1 \in S
      BY <2>3, <3>1
    <3> QED BY <3>1, <3>2
  <2> QED BY <2>4
<1>7. P(N + 1) \notin Clusters
  <2>1. CASE N = 0
    BY <1>1, <1>2, <1>3, <1>5, <2>1
  <2>2. CASE N # 0
    <3>1. N \in 1..N /\ N \in Nat \ {0}
      BY <1>1, <2>2 DEF N
    <3>2. P(N) = q[N] /\ q[N] \in Clusters /\ g[q[N]] = End
      BY <1>1, <1>6, <3>1 DEF N
    <3>3. P(N + 1) = IF P(N) \in Clusters THEN g[P(N)] ELSE NoCluster
      BY <1>3, <3>1
    <3> QED BY <1>2, <3>2, <3>3
  <2> QED BY <2>1, <2>2
<1>8. \A n \in Nat \ {0} : n > N => P(n) \notin Clusters
  <2> DEFINE S == {k \in Nat : P(N + 1 + k) \notin Clusters}
  <2>0. N \in Nat
    BY <1>1 DEF N
  <2>1. 0 \in S
    BY <1>7, <2>0
  <2>2. \A k \in Nat : k \in S => k + 1 \in S
    <3> SUFFICES ASSUME NEW k \in Nat, P(N + 1 + k) \notin Clusters
                 PROVE  P(N + 1 + (k + 1)) \notin Clusters
      OBVIOUS
    <3> DEFINE j == N + 1 + k
    <3>1. j \in Nat \ {0} /\ N + 1 + (k + 1) = j + 1
      BY <2>0
    <3>2. P(j + 1) = NoCluster
      BY <1>3, <3>1
    <3> QED BY <1>2, <3>1, <3>2
  <2>3. Nat \subseteq S
    <3> HIDE DEF S
    <3> QED BY <2>1, <2>2, SetInduction
  <2>4. ASSUME NEW n \in Nat \ {0}, n > N PROVE P(n) \notin Clusters
    <3>1. n - (N + 1) \in Nat /\ N + 1 + (n - (N + 1)) = n
      BY <2>0, <2>4
    <3>2. n - (N + 1) \in S
      BY <2>3, <3>1
    <3> QED BY <3>1, <3>2
  <2> QED BY <2>4
<1> QED BY <1>6, <1>8 DEF P, N

\* A chain has no more clusters than the volume, so ChainFrom finds all of them.
ChainFromIn(g, c) == {d \in Clusters : \E n \in 1..Cardinality(Clusters) : NthIn(g, c, n) = d}
LEMMA ChainFromIs ==
    ASSUME NEW g, NEW c, NEW q, Chain(g, c, q)
    PROVE  ChainFromIn(g, c) = {q[i] : i \in 1..Len(q)}
<1> DEFINE N == Len(q)
           C == Cardinality(Clusters)
<1>1. N \in Nat /\ (\A i \in 1..N : q[i] \in Clusters) /\ \A i, j \in 1..N : q[i] = q[j] => i = j
  BY DEF Chain
<1>2. q \in Injection(1..N, Clusters)
  <2>1. q \in [1..N -> Clusters]
    BY DEF Chain
  <2> QED BY <1>1, <2>1 DEF Injection, IsInjective
<1>3. IsFiniteSet(Clusters) /\ IsFiniteSet(1..N) /\ Cardinality(1..N) = N /\ C \in Nat
  <2>1. IsFiniteSet(Clusters)
    BY StdioConstants, FS_Interval DEF Clusters
  <2>2. IsFiniteSet(1..N) /\ Cardinality(1..N) = N
    <3>1. IsFiniteSet(1..N) /\ Cardinality(1..N) = IF 1 > N THEN 0 ELSE N - 1 + 1
      BY <1>1, FS_Interval
    <3> QED BY <1>1, <3>1
  <2> QED BY <2>1, <2>2, FS_CardinalityType
<1>4. N <= C
  <2>1. Cardinality(1..N) <= Cardinality(Clusters)
    BY <1>2, <1>3, FS_Injection
  <2> QED BY <1>3, <2>1
<1>5. /\ \A n \in 1..N : NthIn(g, c, n) = q[n]
      /\ \A n \in Nat \ {0} : n > N => NthIn(g, c, n) \notin Clusters
  BY ChainNth
<1> HIDE DEF N, C
<1>6. ASSUME NEW d \in ChainFromIn(g, c) PROVE \E i \in 1..N : d = q[i]
  <2>1. PICK n \in 1..C : NthIn(g, c, n) = d /\ d \in Clusters
    BY DEF ChainFromIn, C
  <2>2. n \in Nat \ {0}
    BY <1>3
  <2>3. n \in 1..N
    BY <1>1, <1>5, <2>1, <2>2
  <2> QED BY <1>5, <2>1, <2>3
<1>7. ASSUME NEW i \in 1..N PROVE q[i] \in ChainFromIn(g, c)
  <2>1. i \in 1..C
    BY <1>1, <1>3, <1>4
  <2> QED BY <1>1, <1>5, <2>1 DEF ChainFromIn, C
<1> QED BY <1>6, <1>7 DEF N

-----------------------------------------------------------------------------
\* What the files are: their views, one chain each, no cluster in two of them, and
\* in the clusters, as far as the size of the file, what the file should hold.
FileEntries == [first : 0..ClusterCount, size : Nat]
ViewIn(ents, fl, m) ==
    LET writers == {s \in Streams : fl[s].open /\ fl[s].name = m /\ fl[s].writes}
    IN  IF writers = {} THEN ents[m]
        ELSE LET f == fl[CHOOSE s \in writers : TRUE] IN [first |-> f.first, size |-> f.size]
Views == [m \in Files |-> View(m)]
ContentIn(g, ce, f) ==
    [i \in 1..f.size |->
        IF NthIn(g, f.first, i) \in Clusters THEN ce[NthIn(g, f.first, i)] ELSE None]

Stores(g, ce, v, q, data) ==
    /\ Chain(g, v.first, q)
    /\ data \in Seq(Values) /\ v.size = Len(data) /\ Len(data) <= Len(q)
    /\ \A i \in 1..Len(data) : data[i] = ce[q[i]]
FileSound(g, ce, v, q, e) ==
    IF v = NoEntry THEN q = <<>> /\ e = Gone
    ELSE v \in FileEntries /\ e.there /\ Stores(g, ce, v, q, e.data)
Apart(q, r) == \A i \in 1..Len(q), j \in 1..Len(r) : q[i] # r[j]
Laid(chains, view, g, ce, ex) ==
    /\ chains \in [Files -> Seq(Clusters)]
    /\ \A m \in Files : FileSound(g, ce, view[m], chains[m], ex[m])
    /\ \A m \in Files : \A n \in Files \ {m} : Apart(chains[m], chains[n])
Volume == \E chains : Laid(chains, Views, fat, cells, expected)

LEMMA ContentIs ==
    ASSUME NEW g, NEW ce, NEW v, NEW q, NEW data, Stores(g, ce, v, q, data)
    PROVE  ContentIn(g, ce, v) = data
<1> DEFINE D(i) == IF NthIn(g, v.first, i) \in Clusters THEN ce[NthIn(g, v.first, i)] ELSE None
<1>1. /\ Len(data) \in Nat /\ Len(q) \in Nat /\ v.size = Len(data) /\ Len(data) <= Len(q)
      /\ \A i \in 1..Len(data) : data[i] = ce[q[i]]
      /\ \A i \in 1..Len(q) : q[i] \in Clusters
  BY DEF Stores, Chain
<1>2. \A i \in 1..Len(q) : NthIn(g, v.first, i) = q[i]
  BY ChainNth DEF Stores
<1>3. \A i \in 1..Len(data) : D(i) = data[i]
  BY <1>1, <1>2
<1>4. data = [i \in 1..Len(data) |-> data[i]]
  BY DEF Stores
<1>5. ContentIn(g, ce, v) = [i \in 1..Len(data) |-> D(i)]
  BY <1>1 DEF ContentIn
<1> HIDE DEF D
<1> QED BY <1>3, <1>4, <1>5

\* A file that is shorter than its chain holds as much of it as it is long.
LEMMA ShorterFile ==
    ASSUME NEW g, NEW ce, NEW v, NEW q, NEW data, Stores(g, ce, v, q, data),
           NEW w \in FileEntries, w.first = v.first, w.size <= v.size
    PROVE  Stores(g, ce, w, q, ContentIn(g, ce, w))
<1> DEFINE short == ContentIn(g, ce, w)
           D(i) == IF NthIn(g, w.first, i) \in Clusters THEN ce[NthIn(g, w.first, i)] ELSE None
<1>1. /\ Len(data) \in Nat /\ Len(q) \in Nat /\ v.size = Len(data) /\ Len(data) <= Len(q)
      /\ \A i \in 1..Len(data) : data[i] = ce[q[i]] /\ data[i] \in Values
      /\ \A i \in 1..Len(q) : q[i] \in Clusters
  BY DEF Stores, Chain
<1>2. \A i \in 1..Len(q) : NthIn(g, w.first, i) = q[i]
  BY ChainNth DEF Stores
<1>3. w.size \in Nat /\ w.size <= Len(data)
  BY <1>1 DEF FileEntries
<1>4. \A i \in 1..w.size : D(i) = ce[q[i]] /\ D(i) \in Values
  BY <1>1, <1>2, <1>3
<1>5. short = [i \in 1..w.size |-> D(i)]
  BY DEF ContentIn
<1> HIDE DEF short, D
<1>6. short \in Seq(Values) /\ Len(short) = w.size /\ \A i \in 1..w.size : short[i] = ce[q[i]]
  <2>1. short \in [1..w.size -> Values] /\ \A i \in 1..w.size : short[i] = ce[q[i]]
    BY <1>4, <1>5
  <2> QED BY <1>3, <2>1
<1>7. Chain(g, w.first, q) /\ Len(short) <= Len(q)
  BY <1>1, <1>3, <1>6 DEF Stores
<1> QED BY <1>6, <1>7 DEF Stores, short

\* Clusters of a chain are not free.
LEMMA ChainUsed ==
    ASSUME NEW g, NEW c, NEW q, Chain(g, c, q)
    PROVE  \A i \in 1..Len(q) : q[i] \in Clusters /\ g[q[i]] # Unused
<1> SUFFICES ASSUME NEW i \in 1..Len(q) PROVE q[i] \in Clusters /\ g[q[i]] # Unused
  OBVIOUS
<1>1. Len(q) \in Nat /\ \A j \in 1..Len(q) : q[j] \in Clusters
  BY DEF Chain
<1>2. g[q[i]] = IF i = Len(q) THEN End ELSE q[i + 1]
  BY DEF Chain
<1>3. g[q[i]] = End \/ g[q[i]] \in Clusters
  <2>1. i = Len(q) \/ i + 1 \in 1..Len(q)
    BY <1>1
  <2> QED BY <1>1, <1>2, <2>1
<1> QED BY <1>1, <1>3, StdioConstants DEF End, Clusters, Unused

\* A chain that is not touched, and the file on it.
LEMMA FileSame ==
    ASSUME NEW g, NEW ce, NEW v, NEW q, NEW e, FileSound(g, ce, v, q, e), NEW g2, NEW ce2,
           \A i \in 1..Len(q) : g2[q[i]] = g[q[i]] /\ ce2[q[i]] = ce[q[i]]
    PROVE  FileSound(g2, ce2, v, q, e)
<1>1. CASE v = NoEntry
  BY <1>1 DEF FileSound
<1>2. CASE v # NoEntry
  <2>1. v \in FileEntries /\ e.there /\ Stores(g, ce, v, q, e.data)
    BY <1>2 DEF FileSound
  <2>2. Chain(g2, v.first, q)
    BY <2>1 DEF Stores, Chain
  <2>3. Len(e.data) \in Nat /\ Len(q) \in Nat /\ Len(e.data) <= Len(q)
    BY <2>1 DEF Stores, Chain
  <2>4. \A i \in 1..Len(e.data) : e.data[i] = ce2[q[i]]
    BY <2>1, <2>3 DEF Stores
  <2> QED BY <1>2, <2>1, <2>2, <2>4 DEF FileSound, Stores
<1> QED BY <1>1, <1>2

\* One file gets another chain, the chains of the others are not touched.
LEMMA OneFileChanges ==
    ASSUME NEW chains, NEW view, NEW g, NEW ce, NEW ex, Laid(chains, view, g, ce, ex),
           NEW name \in Files, NEW q \in Seq(Clusters), NEW view2, NEW g2, NEW ce2, NEW ex2,
           \A m \in Files \ {name} : view2[m] = view[m] /\ ex2[m] = ex[m],
           \A m \in Files \ {name} : \A i \in 1..Len(chains[m]) :
              g2[chains[m][i]] = g[chains[m][i]] /\ ce2[chains[m][i]] = ce[chains[m][i]],
           \A m \in Files \ {name} : Apart(q, chains[m]),
           FileSound(g2, ce2, view2[name], q, ex2[name])
    PROVE  Laid([chains EXCEPT ![name] = q], view2, g2, ce2, ex2)
<1> DEFINE c2 == [chains EXCEPT ![name] = q]
<1>1. /\ chains \in [Files -> Seq(Clusters)]
      /\ \A m \in Files : FileSound(g, ce, view[m], chains[m], ex[m])
      /\ \A m \in Files : \A n \in Files \ {m} : Apart(chains[m], chains[n])
  BY DEF Laid
<1>2. c2 \in [Files -> Seq(Clusters)] /\ c2[name] = q /\ \A m \in Files \ {name} : c2[m] = chains[m]
  BY <1>1
<1> HIDE DEF c2
<1>3. \A m \in Files : FileSound(g2, ce2, view2[m], c2[m], ex2[m])
  <2> SUFFICES ASSUME NEW m \in Files PROVE FileSound(g2, ce2, view2[m], c2[m], ex2[m])
    OBVIOUS
  <2>1. CASE m = name
    BY <1>2, <2>1
  <2>2. CASE m # name
    <3>1. FileSound(g, ce, view[m], chains[m], ex[m])
      BY <1>1
    <3>2. FileSound(g2, ce2, view[m], chains[m], ex[m])
      BY <2>2, <3>1, FileSame
    <3> QED BY <1>2, <2>2, <3>2
  <2> QED BY <2>1, <2>2
<1>4. \A m \in Files : \A n \in Files \ {m} : Apart(c2[m], c2[n])
  <2> SUFFICES ASSUME NEW m \in Files, NEW n \in Files \ {m} PROVE Apart(c2[m], c2[n])
    OBVIOUS
  <2>1. CASE m = name
    BY <1>2, <2>1
  <2>2. CASE n = name
    <3>1. Apart(q, chains[m])
      BY <2>2
    <3> QED BY <1>2, <2>2, <3>1 DEF Apart
  <2>3. CASE m # name /\ n # name
    BY <1>1, <1>2, <2>3
  <2> QED BY <2>1, <2>2, <2>3
<1> QED BY <1>2, <1>3, <1>4 DEF Laid

\* Nothing changes; a file is emptied; is removed; loses its end; is renamed.
LEMMA VolumeSame ==
    ASSUME Volume, fat' = fat, cells' = cells,
           \A m \in Files : Views'[m] = Views[m] /\ expected'[m] = expected[m]
    PROVE  Volume'
<1>1. PICK chains : Laid(chains, Views, fat, cells, expected)
  BY DEF Volume
<1>2. Laid(chains, Views', fat', cells', expected')
  BY <1>1 DEF Laid
<1> QED BY <1>2 DEF Volume

LEMMA EmptyStores ==
    ASSUME NEW g, NEW ce
    PROVE  Stores(g, ce, NoData, <<>>, <<>>) /\ NoData \in FileEntries /\ NoData # NoEntry
<1>1. NoData \in FileEntries /\ NoData # NoEntry
  BY StdioConstants DEF NoData, NoEntry, NoCluster, FileEntries
<1>2. Len(<<>>) = 0 /\ 1..0 = {}
  OBVIOUS
<1>3. Chain(g, NoCluster, <<>>)
  BY <1>2 DEF Chain
<1> QED BY <1>1, <1>2, <1>3 DEF Stores, NoData

LEMMA VolumeEmptied ==
    ASSUME Volume, NEW name \in Files, fat' = fat, cells' = cells,
           \A m \in Files \ {name} : Views'[m] = Views[m] /\ expected'[m] = expected[m],
           Views'[name] = NoData, expected'[name] = Holding(<<>>)
    PROVE  Volume'
<1>1. PICK chains : Laid(chains, Views, fat, cells, expected)
  BY DEF Volume
<1>2. FileSound(fat', cells', Views'[name], <<>>, expected'[name])
  BY EmptyStores DEF FileSound, Holding
<1>3. <<>> \in Seq(Clusters) /\ \A m \in Files \ {name} : Apart(<<>>, chains[m])
  <2>1. 1..Len(<<>>) = {}
    OBVIOUS
  <2> QED BY <2>1 DEF Apart
<1>4. \A m \in Files \ {name} : Views'[m] = Views[m] /\ expected'[m] = expected[m]
  OBVIOUS
<1>5. \A m \in Files \ {name} : \A i \in 1..Len(chains[m]) :
         /\ fat'[chains[m][i]] = fat[chains[m][i]]
         /\ cells'[chains[m][i]] = cells[chains[m][i]]
  OBVIOUS
<1>6. PICK r : /\ r \in Seq(Clusters) /\ FileSound(fat', cells', Views'[name], r, expected'[name])
               /\ \A m \in Files \ {name} : Apart(r, chains[m])
  BY <1>2, <1>3
<1>7. Laid([chains EXCEPT ![name] = r], Views', fat', cells', expected')
  BY <1>1, <1>4, <1>5, <1>6, OneFileChanges
<1> QED BY <1>7 DEF Volume

LEMMA VolumeRemoved ==
    ASSUME Volume, NEW name \in Files, Views[name] # NoEntry, fat \in [Clusters -> 0..End],
           NEW n \in 0..ClusterCount, fat' = AfterRemove(Views[name].first, n), cells' = cells,
           \A m \in Files \ {name} : Views'[m] = Views[m] /\ expected'[m] = expected[m],
           Views'[name] = NoEntry, expected'[name] = Gone
    PROVE  Volume'
<1>1. PICK chains : Laid(chains, Views, fat, cells, expected)
  BY DEF Volume
<1>2. FileSound(fat', cells', Views'[name], <<>>, expected'[name])
  BY DEF FileSound
<1>3. <<>> \in Seq(Clusters) /\ \A m \in Files \ {name} : Apart(<<>>, chains[m])
  <2>1. 1..Len(<<>>) = {}
    OBVIOUS
  <2> QED BY <2>1 DEF Apart
<1> DEFINE first == Views[name].first
           q == chains[name]
<1>4. Chain(fat, first, q)
  BY <1>1 DEF Laid, FileSound, Stores
<1>5. ChainFrom(first) = {q[i] : i \in 1..Len(q)}
  <2>1. ChainFrom(first) = ChainFromIn(fat, first)
    BY DEF ChainFrom, ChainFromIn, Nth, NthIn
  <2> QED BY <1>4, <2>1, ChainFromIs
<1>6. ASSUME NEW m \in Files \ {name}, NEW i \in 1..Len(chains[m])
      PROVE  fat'[chains[m][i]] = fat[chains[m][i]]
  <2>1. Apart(chains[m], q) /\ chains[m] \in Seq(Clusters)
    BY <1>1 DEF Laid
  <2>2. chains[m][i] \in Clusters /\ chains[m][i] \notin ChainFrom(first)
    BY <1>5, <2>1 DEF Apart
  <2>3. Cardinality(Clusters) = ClusterCount /\ ClusterCount \in Nat
    BY StdioConstants, FS_Interval DEF Clusters
  <2>4. \A k \in 1..n : k \in 1..Cardinality(Clusters)
    BY <2>3
  <2>5. \A k \in 1..n : Nth(first, k) # chains[m][i]
    BY <2>2, <2>4 DEF ChainFrom
  <2>6. fat'[chains[m][i]] =
           IF \E k \in 1..n : Nth(first, k) = chains[m][i] THEN Unused ELSE fat[chains[m][i]]
    BY <2>2 DEF AfterRemove
  <2> QED BY <2>5, <2>6
<1>7. PICK r : /\ r \in Seq(Clusters) /\ FileSound(fat', cells', Views'[name], r, expected'[name])
               /\ \A m \in Files \ {name} : Apart(r, chains[m])
  BY <1>2, <1>3
<1>8. Laid([chains EXCEPT ![name] = r], Views', fat', cells', expected')
  <2>1. \A m \in Files \ {name} : Views'[m] = Views[m] /\ expected'[m] = expected[m]
    OBVIOUS
  <2>2. \A m \in Files \ {name} : \A i \in 1..Len(chains[m]) :
           fat'[chains[m][i]] = fat[chains[m][i]] /\ cells'[chains[m][i]] = cells[chains[m][i]]
    BY <1>6
  <2> QED BY ONLY <1>1, <1>7, <2>1, <2>2, name \in Files, OneFileChanges
<1> QED BY <1>8 DEF Volume

LEMMA VolumeShorter ==
    ASSUME Volume, NEW name \in Files, Views[name] # NoEntry, NEW w \in FileEntries,
           (w.first = Views[name].first /\ w.size <= Views[name].size) \/ w = NoData,
           fat' = fat, cells' = cells,
           \A m \in Files \ {name} : Views'[m] = Views[m] /\ expected'[m] = expected[m],
           Views'[name] = w, expected'[name] = Holding(ContentIn(fat, cells, w))
    PROVE  Volume'
<1>1. CASE w = NoData
  <2>1. ContentIn(fat, cells, w) = <<>>
    BY <1>1, EmptyStores, ContentIs
  <2> QED BY <1>1, <2>1, VolumeEmptied
<1>2. CASE w # NoData
  <2>1. PICK chains : Laid(chains, Views, fat, cells, expected)
    BY DEF Volume
  <2> DEFINE q == chains[name]
             v == Views[name]
  <2>2. Stores(fat, cells, v, q, expected[name].data)
    BY <2>1 DEF Laid, FileSound
  <2>3. Stores(fat, cells, w, q, ContentIn(fat, cells, w))
    <3> HIDE DEF q, v
    <3>1. w.first = v.first /\ w.size <= v.size
      BY <1>2 DEF v
    <3> QED BY <2>2, <3>1, ShorterFile
  <2>4. w # NoEntry
    BY DEF FileEntries, NoEntry
  <2>5. FileSound(fat', cells', Views'[name], q, expected'[name])
    BY <2>3, <2>4 DEF FileSound, Holding
  <2>6. q \in Seq(Clusters) /\ \A m \in Files \ {name} : Apart(q, chains[m])
    BY <2>1 DEF Laid
  <2>7. Laid([chains EXCEPT ![name] = q], Views', fat', cells', expected')
    BY <2>1, <2>5, <2>6, OneFileChanges
  <2> QED BY <2>7 DEF Volume
<1> QED BY <1>1, <1>2

LEMMA VolumeRenamed ==
    ASSUME Volume, NEW old \in Files, NEW new \in Files, old # new, fat' = fat, cells' = cells,
           Views[new] = NoEntry,
           \A m \in Files \ {old, new} : Views'[m] = Views[m] /\ expected'[m] = expected[m],
           Views'[new] = Views[old], expected'[new] = expected[old],
           Views'[old] = NoEntry, expected'[old] = Gone
    PROVE  Volume'
<1>1. PICK chains : Laid(chains, Views, fat, cells, expected)
  BY DEF Volume
<1> DEFINE c2 == [chains EXCEPT ![new] = chains[old], ![old] = <<>>]
<1>2. /\ chains \in [Files -> Seq(Clusters)]
      /\ \A m \in Files : FileSound(fat, cells, Views[m], chains[m], expected[m])
      /\ \A m \in Files : \A n \in Files \ {m} : Apart(chains[m], chains[n])
  BY <1>1 DEF Laid
<1>3. /\ c2 \in [Files -> Seq(Clusters)] /\ c2[new] = chains[old] /\ c2[old] = <<>>
      /\ \A m \in Files \ {old, new} : c2[m] = chains[m]
  BY <1>2
<1> HIDE DEF c2
<1>4. \A m \in Files : FileSound(fat', cells', Views'[m], c2[m], expected'[m])
  <2>1. FileSound(fat', cells', Views'[new], c2[new], expected'[new])
    BY <1>2, <1>3
  <2>2. FileSound(fat', cells', Views'[old], c2[old], expected'[old])
    BY <1>3 DEF FileSound
  <2>3. \A m \in Files \ {old, new} : FileSound(fat', cells', Views'[m], c2[m], expected'[m])
    BY <1>2, <1>3
  <2> QED BY <2>1, <2>2, <2>3
<1>5. \A m \in Files : \A n \in Files \ {m} : Apart(c2[m], c2[n])
  <2> SUFFICES ASSUME NEW m \in Files, NEW n \in Files \ {m} PROVE Apart(c2[m], c2[n])
    OBVIOUS
  <2>1. CASE m = old \/ n = old
    <3>1. 1..Len(<<>>) = {}
      OBVIOUS
    <3> QED BY <1>3, <2>1, <3>1 DEF Apart
  <2>2. CASE m = new /\ n # old
    BY <1>2, <1>3, <2>2
  <2>3. CASE n = new /\ m # old
    BY <1>2, <1>3, <2>3
  <2>4. CASE m \notin {old, new} /\ n \notin {old, new}
    BY <1>2, <1>3, <2>4
  <2> QED BY <2>1, <2>2, <2>3, <2>4
<1>6. Laid(c2, Views', fat', cells', expected')
  BY <1>3, <1>4, <1>5 DEF Laid
<1> QED BY <1>6 DEF Volume

-----------------------------------------------------------------------------
\* Writing.  A free cluster behind the last one makes the chain longer.
LEMMA AppendCluster ==
    ASSUME NEW g, NEW first, NEW q, Chain(g, first, q), NEW c \in Clusters, g[c] = Unused,
           NEW g2,
           \A d \in Clusters : g2[d] = IF d = c THEN End
                                       ELSE IF q # <<>> /\ d = q[Len(q)] THEN c ELSE g[d]
    PROVE  /\ Chain(g2, IF first = NoCluster THEN c ELSE first, Append(q, c))
           /\ \A i \in 1..Len(q) : q[i] # c
<1> DEFINE N == Len(q)
           r == Append(q, c)
<1>1. /\ N \in Nat /\ q \in Seq(Clusters) /\ \A i \in 1..N : q[i] \in Clusters
      /\ first = IF q = <<>> THEN NoCluster ELSE q[1]
      /\ \A i \in 1..N : g[q[i]] = IF i = N THEN End ELSE q[i + 1]
      /\ \A i, j \in 1..N : q[i] = q[j] => i = j
  BY DEF Chain
<1>2. \A i \in 1..N : q[i] # c
  BY ChainUsed
<1>3. q # <<>> <=> N # 0
  BY <1>1
<1>4. /\ r \in Seq(Clusters) /\ Len(r) = N + 1 /\ r[N + 1] = c /\ r # <<>>
      /\ \A i \in 1..N : r[i] = q[i]
  BY <1>1
<1>5. NoCluster \notin Clusters
  BY DEF NoCluster, Clusters
<1> HIDE DEF N, r
<1>6. r[1] = IF first = NoCluster THEN c ELSE first
  <2>1. CASE N = 0
    BY <1>1, <1>3, <1>4, <2>1
  <2>2. CASE N # 0
    <3>1. 1 \in 1..N
      BY <1>1, <2>2
    <3> QED BY <1>1, <1>3, <1>4, <1>5, <2>2, <3>1
  <2> QED BY <2>1, <2>2
<1>7. \A i \in 1..(N + 1) : g2[r[i]] = IF i = N + 1 THEN End ELSE r[i + 1]
  <2> SUFFICES ASSUME NEW i \in 1..(N + 1)
               PROVE  g2[r[i]] = IF i = N + 1 THEN End ELSE r[i + 1]
    OBVIOUS
  <2>1. CASE i = N + 1
    BY <1>4, <2>1
  <2>2. CASE i = N
    <3>1. i \in 1..N /\ N # 0 /\ i # N + 1
      BY <1>1, <2>2
    <3>2. r[i] = q[N] /\ q[N] \in Clusters /\ q[N] # c
      BY <1>1, <1>2, <1>4, <2>2, <3>1
    <3>3. g2[q[N]] = c
      BY <1>3, <3>1, <3>2 DEF N
    <3> QED BY <1>4, <2>2, <3>1, <3>2, <3>3
  <2>3. CASE i < N
    <3>1. i \in 1..N /\ i + 1 \in 1..N /\ i # N /\ N \in 1..N /\ i # N + 1
      BY <1>1, <2>3
    <3>2. r[i] = q[i] /\ r[i + 1] = q[i + 1] /\ q[i] \in Clusters /\ q[i] # c /\ q[i] # q[N]
      BY <1>1, <1>2, <1>4, <3>1
    <3>3. g2[q[i]] = g[q[i]]
      BY <3>2 DEF N
    <3> QED BY <1>1, <3>1, <3>2, <3>3
  <2> QED BY <1>1, <2>1, <2>2, <2>3
<1>8. \A i, j \in 1..(N + 1) : r[i] = r[j] => i = j
  <2> SUFFICES ASSUME NEW i \in 1..(N + 1), NEW j \in 1..(N + 1), r[i] = r[j] PROVE i = j
    OBVIOUS
  <2>1. i \in 1..N \/ i = N + 1
    BY <1>1
  <2>2. j \in 1..N \/ j = N + 1
    BY <1>1
  <2> QED BY <1>1, <1>2, <1>4, <2>1, <2>2
<1> QED BY <1>2, <1>4, <1>6, <1>7, <1>8 DEF Chain, N, r

\* Where f_write finds room: in the chain, or behind its end in a free cluster.
LEMMA RoomFacts ==
    ASSUME fat \in [Clusters -> 0..End], NEW f, NEW q, Chain(fat, f.first, q),
           f.at \in 0..Len(q), NEW c \in Room(f), NEW g2,
           g2 = IF f.at = 0 /\ f.first # NoCluster THEN fat ELSE Linked(Before(f), c)
    PROVE  /\ c \in Clusters /\ g2 \in [Clusters -> 0..End]
           /\ f.at < Len(q) => c = q[f.at + 1] /\ g2 = fat
           /\ f.at = Len(q) =>
                 /\ fat[c] = Unused
                 /\ \A d \in Clusters : g2[d] = IF d = c THEN End
                       ELSE IF q # <<>> /\ d = q[Len(q)] THEN c ELSE fat[d]
<1> DEFINE N == Len(q)
           first == f.first
           at == f.at
<1>1. /\ N \in Nat /\ q \in Seq(Clusters) /\ \A i \in 1..N : q[i] \in Clusters
      /\ first = IF q = <<>> THEN NoCluster ELSE q[1]
      /\ \A i \in 1..N : fat[q[i]] = IF i = N THEN End ELSE q[i + 1]
      /\ at \in 0..N
  BY DEF Chain
<1>2. \A i \in 1..N : fat[q[i]] # Unused
  BY ChainUsed
<1>3. q # <<>> <=> N # 0
  BY <1>1
<1>4. NoCluster \notin Clusters /\ End \notin Clusters /\ End # Unused /\ End \in 0..End
      /\ Clusters \subseteq 0..End
  BY StdioConstants DEF NoCluster, End, Unused, Clusters
<1>5. \A n \in 1..N : Nth(first, n) = q[n]
  <2>1. \A n \in 1..N : NthIn(fat, first, n) = q[n]
    BY ChainNth
  <2> QED BY <2>1 DEF Nth, NthIn
<1>6. Room(f) = IF at = 0 /\ first # NoCluster THEN {first} ELSE NextCluster(Before(f))
  BY DEF Room
<1>7. Before(f) = IF at = 0 THEN NoCluster ELSE q[at]
  <2>1. CASE at = 0
    BY <2>1 DEF Before
  <2>2. CASE at # 0
    <3>1. at \in 1..N
      BY <1>1, <2>2
    <3> QED BY <1>5, <2>2, <3>1 DEF Before
  <2> QED BY <2>1, <2>2
<1> DEFINE free == {d \in Clusters : fat[d] = Unused /\ \A e \in 1..(d - 1) : fat[e] # Unused}
<1>8. \A b : NextCluster(b) = IF b # NoCluster /\ fat[b] # End THEN {fat[b]} ELSE free
  BY DEF NextCluster
<1>9. CASE at = 0 /\ N # 0
  <2>1. 1 \in 1..N
    BY <1>1, <1>9
  <2>2. first = q[1] /\ first # NoCluster /\ first \in Clusters
    BY <1>1, <1>3, <1>4, <1>9, <2>1
  <2>3. c = first /\ g2 = fat
    BY <1>6, <1>9, <2>2
  <2> QED BY <1>1, <1>9, <2>1, <2>2, <2>3
<1>10. CASE at # 0 /\ at < N
  <2>1. at \in 1..N /\ at + 1 \in 1..N /\ at # N
    BY <1>1, <1>10
  <2>2. fat[q[at]] = q[at + 1] /\ q[at] # NoCluster /\ q[at + 1] \in Clusters /\ q[at] \in Clusters
    BY <1>1, <1>4, <2>1
  <2>3. fat[q[at]] # End /\ fat[q[at + 1]] # Unused
    BY <1>2, <1>4, <2>1, <2>2
  <2>4. c = q[at + 1]
    BY <1>6, <1>7, <1>8, <1>10, <2>2, <2>3
  <2>5. Linked(q[at], c) = [fat EXCEPT ![q[at]] = c]
    BY <2>2, <2>3, <2>4 DEF Linked
  <2>6. [fat EXCEPT ![q[at]] = c] = fat
    BY <2>2, <2>4
  <2>7. g2 = fat
    BY <1>7, <1>10, <2>5, <2>6
  <2> QED BY <1>1, <1>10, <2>2, <2>4, <2>7
<1>11. CASE at = N
  <2>1. Before(f) = NoCluster \/ (N # 0 /\ Before(f) = q[N] /\ fat[q[N]] = End /\ q[N] \in Clusters)
    <3>1. N = 0 \/ N \in 1..N
      BY <1>1
    <3> QED BY <1>1, <1>7, <1>11, <3>1
  <2>2. N = 0 => first = NoCluster
    BY <1>1, <1>3
  <2>3. c \in free /\ g2 = Linked(Before(f), c)
    BY <1>1, <1>6, <1>8, <1>11, <2>1, <2>2
  <2>4. c \in Clusters /\ fat[c] = Unused
    BY <2>3
  <2> DEFINE taken == [fat EXCEPT ![c] = End]
  <2>5. Linked(Before(f), c) = IF Before(f) = NoCluster THEN taken ELSE [taken EXCEPT ![Before(f)] = c]
    BY <2>4 DEF Linked
  <2>6. taken \in [Clusters -> 0..End] /\ \A d \in Clusters : taken[d] = IF d = c THEN End ELSE fat[d]
    BY <1>4, <2>4
  <2>7. CASE N = 0
    <3>1. Before(f) = NoCluster
      BY <1>7, <1>11, <2>7
    <3>2. g2 = taken
      BY <2>3, <2>5, <3>1
    <3> HIDE DEF taken
    <3> QED BY <1>1, <1>3, <1>11, <2>4, <2>6, <2>7, <3>2
  <2>8. CASE N # 0
    <3>1. N \in 1..N /\ q[N] \in Clusters /\ fat[q[N]] = End
      BY <1>1, <2>8
    <3>2. Before(f) = q[N] /\ q[N] # NoCluster /\ q[N] # c
      BY <1>4, <1>7, <1>11, <2>4, <2>8, <3>1
    <3>3. g2 = [taken EXCEPT ![q[N]] = c]
      BY <2>3, <2>5, <3>2
    <3> HIDE DEF taken
    <3>4. g2 \in [Clusters -> 0..End]
      BY <1>4, <2>4, <2>6, <3>3
    <3>5. \A d \in Clusters : g2[d] = IF d = q[N] THEN c ELSE taken[d]
      BY <2>6, <3>3
    <3> QED BY <1>1, <1>3, <1>11, <2>4, <2>6, <2>8, <3>2, <3>4, <3>5
  <2> QED BY <2>7, <2>8
<1> QED BY <1>1, <1>9, <1>10, <1>11

\* A cluster is written, in the file or behind its end.
Written(name, f, c, x, size) ==
    /\ Volume /\ fat \in [Clusters -> 0..End] /\ cells \in [Clusters -> Values \union {None}]
    /\ name \in Files /\ Views[name] # NoEntry /\ x \in Values /\ c \in Room(f)
    /\ f.first = Views[name].first /\ f.size = Views[name].size
    /\ f.at \in Nat /\ f.at <= f.size
    /\ fat' = IF f.at = 0 /\ f.first # NoCluster THEN fat ELSE Linked(Before(f), c)
    /\ cells' = [cells EXCEPT ![c] = x]
    /\ size = IF f.at < f.size THEN f.size ELSE f.at + 1
    /\ \A m \in Files \ {name} : Views'[m] = Views[m] /\ expected'[m] = expected[m]
    /\ Views'[name] = [first |-> IF f.first = NoCluster THEN c ELSE f.first, size |-> size]
    /\ expected'[name] = [there |-> expected[name].there,
                          data |-> [i \in 1..size |-> IF i = f.at + 1 THEN x
                                                      ELSE expected[name].data[i]]]
LEMMA VolumeWritten ==
    ASSUME NEW name, NEW f, NEW c, NEW x, NEW size, Written(name, f, c, x, size)
    PROVE  Volume' /\ c \in Clusters /\ fat' \in [Clusters -> 0..End]
<1>0. /\ Volume /\ fat \in [Clusters -> 0..End] /\ cells \in [Clusters -> Values \union {None}]
      /\ name \in Files /\ Views[name] # NoEntry /\ x \in Values /\ c \in Room(f)
      /\ f.first = Views[name].first /\ f.size = Views[name].size
      /\ f.at \in Nat /\ f.at <= f.size
      /\ fat' = IF f.at = 0 /\ f.first # NoCluster THEN fat ELSE Linked(Before(f), c)
      /\ cells' = [cells EXCEPT ![c] = x]
      /\ size = IF f.at < f.size THEN f.size ELSE f.at + 1
      /\ \A m \in Files \ {name} : Views'[m] = Views[m] /\ expected'[m] = expected[m]
      /\ Views'[name] = [first |-> IF f.first = NoCluster THEN c ELSE f.first, size |-> size]
      /\ expected'[name] = [there |-> expected[name].there,
                            data |-> [i \in 1..size |-> IF i = f.at + 1 THEN x
                                                        ELSE expected[name].data[i]]]
  BY DEF Written
<1> USE <1>0
<1>1. PICK chains : Laid(chains, Views, fat, cells, expected)
  BY DEF Volume
<1> DEFINE q == chains[name]
           old == expected[name].data
           new == [i \in 1..size |-> IF i = f.at + 1 THEN x ELSE old[i]]
           first2 == IF f.first = NoCluster THEN c ELSE f.first
<1>2. /\ q \in Seq(Clusters) /\ \A m \in Files \ {name} : Apart(q, chains[m])
      /\ FileSound(fat, cells, Views[name], q, expected[name])
  BY <1>1 DEF Laid
<1>3. /\ Views[name] \in FileEntries /\ expected[name].there
      /\ Stores(fat, cells, Views[name], q, old)
  BY <1>2 DEF FileSound
<1>4. /\ Chain(fat, f.first, q) /\ old \in Seq(Values) /\ Len(old) \in Nat /\ Len(q) \in Nat
      /\ f.size = Len(old) /\ Len(old) <= Len(q) /\ \A i \in 1..Len(old) : old[i] = cells[q[i]]
  BY <1>3 DEF Stores, Chain
<1>5. /\ c \in Clusters /\ fat' \in [Clusters -> 0..End]
      /\ f.at < Len(q) => c = q[f.at + 1] /\ fat' = fat
      /\ f.at = Len(q) =>
            /\ fat[c] = Unused
            /\ \A d \in Clusters : fat'[d] = IF d = c THEN End
                  ELSE IF q # <<>> /\ d = q[Len(q)] THEN c ELSE fat[d]
  <2>1. f.at \in 0..Len(q) /\ Chain(fat, f.first, q)
    BY <1>4
  <2>2. fat' = IF f.at = 0 /\ f.first # NoCluster THEN fat ELSE Linked(Before(f), c)
    OBVIOUS
  <2> HIDE DEF q
  <2>3. c \in Room(f) /\ fat \in [Clusters -> 0..End]
    OBVIOUS
  <2> QED BY ONLY <2>1, <2>2, <2>3, RoomFacts
<1>6. size \in Nat /\ f.at + 1 <= size /\ (\A i \in 1..size : i # f.at + 1 => i \in 1..Len(old))
      /\ (f.at = Len(q) => size = Len(q) + 1) /\ (f.at < Len(q) => size <= Len(q))
  <2> HIDE DEF old, q
  <2> QED BY <1>4
<1>7. new \in Seq(Values) /\ Len(new) = size /\ new[f.at + 1] = x
      /\ \A i \in 1..size : i # f.at + 1 => new[i] = cells[q[i]]
  <2>1. \A i \in 1..Len(old) : old[i] \in Values
    BY <1>4
  <2>2. new \in [1..size -> Values]
    BY <1>6, <2>1
  <2>3. f.at + 1 \in 1..size
    BY <1>6
  <2>4. new \in Seq(Values) /\ Len(new) = size
    <3>1. size \in Nat
      BY <1>6
    <3> HIDE DEF new
    <3> QED BY ONLY <2>2, <3>1
  <2>5. new[f.at + 1] = x /\ \A i \in 1..size : i # f.at + 1 => new[i] = old[i]
    <3> HIDE DEF old
    <3> QED BY <2>3
  <2> HIDE DEF new, old, q
  <2> QED BY <1>4, <1>6, <2>4, <2>5
<1>8. expected'[name].there /\ expected'[name].data = new /\ Views'[name] = [first |-> first2, size |-> size]
  BY <1>3
<1>9. Views'[name] \in FileEntries /\ Views'[name] # NoEntry /\ Views'[name].first = first2 /\ Views'[name].size = size
  <2>1. Clusters \subseteq 0..ClusterCount
    BY StdioConstants DEF Clusters
  <2>2. first2 \in 0..ClusterCount
    BY <1>3, <1>5, <2>1 DEF FileEntries
  <2>3. [first |-> first2, size |-> size] \in FileEntries
    BY <1>6, <2>2 DEF FileEntries
  <2>4. size # -1
    BY <1>6
  <2> HIDE DEF first2, new
  <2> QED BY <1>8, <2>3, <2>4 DEF NoEntry
<1>10. \A d \in Clusters : cells'[d] = IF d = c THEN x ELSE cells[d]
  BY <1>5
<1> HIDE DEF new, old, first2
<1>11. CASE f.at < Len(q)
  <2>1. c = q[f.at + 1] /\ f.at + 1 \in 1..Len(q)
    BY <1>4, <1>5, <1>11
  <2>2. \A i \in 1..Len(q) : q[i] \in Clusters /\ (q[i] = c => i = f.at + 1)
    BY <1>4, <2>1 DEF Chain
  <2>3. first2 = f.first
    <3>1. q # <<>> /\ 1 \in 1..Len(q) /\ f.first = q[1] /\ q[1] \in Clusters
      BY <1>4, <1>11 DEF Chain
    <3> QED BY <3>1 DEF first2, NoCluster, Clusters
  <2>4. Chain(fat', first2, q)
    BY <1>4, <1>5, <1>11, <2>3
  <2>5. \A i \in 1..size : new[i] = cells'[q[i]]
    <3> SUFFICES ASSUME NEW i \in 1..size PROVE new[i] = cells'[q[i]]
      OBVIOUS
    <3>1. i \in 1..Len(q)
      BY <1>4, <1>6, <1>11
    <3>2. CASE i = f.at + 1
      BY <1>5, <1>7, <1>10, <2>1, <3>2
    <3>3. CASE i # f.at + 1
      BY <1>7, <1>10, <2>2, <3>1, <3>3
    <3> QED BY <3>2, <3>3
  <2>6. Stores(fat', cells', Views'[name], q, new)
    BY <1>6, <1>7, <1>9, <1>11, <2>4, <2>5 DEF Stores
  <2>7. FileSound(fat', cells', Views'[name], q, expected'[name])
    BY <1>8, <1>9, <2>6 DEF FileSound
  <2>8. ASSUME NEW m \in Files \ {name}, NEW i \in 1..Len(chains[m])
        PROVE  fat'[chains[m][i]] = fat[chains[m][i]] /\ cells'[chains[m][i]] = cells[chains[m][i]]
    <3>1. chains[m][i] # c
      BY <1>2, <2>1 DEF Apart
    <3>2. chains[m][i] \in Clusters
      BY <1>1 DEF Laid
    <3> QED BY <1>5, <1>10, <1>11, <3>1, <3>2
  <2>9. Laid([chains EXCEPT ![name] = q], Views', fat', cells', expected')
    <3>1. q \in Seq(Clusters) /\ \A m \in Files \ {name} : Apart(q, chains[m])
      BY <1>2
    <3>2. \A m \in Files \ {name} : Views'[m] = Views[m] /\ expected'[m] = expected[m]
      OBVIOUS
    <3> HIDE DEF q
    <3> QED BY ONLY <1>1, <2>7, <2>8, <3>1, <3>2, name \in Files, OneFileChanges
  <2> QED BY <1>5, <2>9 DEF Volume
<1>12. CASE f.at = Len(q)
  <2>1. fat[c] = Unused /\ \A d \in Clusters : fat'[d] = IF d = c THEN End
            ELSE IF q # <<>> /\ d = q[Len(q)] THEN c ELSE fat[d]
    BY <1>5, <1>12
  <2> DEFINE r == Append(q, c)
  <2>2. Chain(fat', first2, r) /\ \A i \in 1..Len(q) : q[i] # c
    <3>1. Chain(fat, f.first, q) /\ c \in Clusters /\ fat[c] = Unused
      BY <1>4, <1>5, <2>1
    <3>2. \A d \in Clusters : fat'[d] = IF d = c THEN End
            ELSE IF q # <<>> /\ d = q[Len(q)] THEN c ELSE fat[d]
      BY <2>1
    <3> HIDE DEF q
    <3> QED BY ONLY <3>1, <3>2, AppendCluster DEF first2, r
  <2>3. /\ r \in Seq(Clusters) /\ Len(r) = Len(q) + 1 /\ r[Len(q) + 1] = c
        /\ \A i \in 1..Len(q) : r[i] = q[i] /\ q[i] \in Clusters
    <3> HIDE DEF q
    <3> QED BY <1>2, <1>5 DEF r
  <2> HIDE DEF r
  <2>4. \A i \in 1..size : new[i] = cells'[r[i]]
    <3> SUFFICES ASSUME NEW i \in 1..size PROVE new[i] = cells'[r[i]]
      OBVIOUS
    <3>1. i = Len(q) + 1 \/ i \in 1..Len(q)
      BY <1>4, <1>6, <1>12
    <3>2. CASE i = Len(q) + 1
      BY <1>5, <1>7, <1>10, <1>12, <2>3, <3>2
    <3>3. CASE i # Len(q) + 1
      <4>1. r[i] = q[i] /\ q[i] \in Clusters /\ q[i] # c
        BY <2>2, <2>3, <3>1, <3>3
      <4>2. new[i] = cells[q[i]]
        BY <1>7, <1>12, <3>3
      <4> QED BY <1>10, <4>1, <4>2
    <3> QED BY <3>2, <3>3
  <2>5. Stores(fat', cells', Views'[name], r, new)
    <3>1. Len(new) <= Len(r)
      BY <1>4, <1>6, <1>7, <1>12, <2>3
    <3> QED BY <1>7, <1>9, <2>2, <2>4, <3>1 DEF Stores
  <2>6. FileSound(fat', cells', Views'[name], r, expected'[name])
    BY <1>8, <1>9, <2>5 DEF FileSound
  <2>7. ASSUME NEW m \in Files \ {name}, NEW i \in 1..Len(chains[m])
        PROVE  /\ fat'[chains[m][i]] = fat[chains[m][i]] /\ cells'[chains[m][i]] = cells[chains[m][i]]
               /\ chains[m][i] # c
    <3>1. Chain(fat, Views[m].first, chains[m]) \/ chains[m] = <<>>
      BY <1>1 DEF Laid, FileSound, Stores
    <3>2. chains[m] # <<>>
      OBVIOUS
    <3>3. chains[m][i] \in Clusters /\ fat[chains[m][i]] # Unused
      BY <3>1, <3>2, ChainUsed
    <3>4. chains[m][i] # c
      BY <2>1, <3>3
    <3>5. q # <<>> => chains[m][i] # q[Len(q)]
      <4>1. Len(q) \in 1..Len(q) \/ q = <<>>
        BY <1>2, <1>4
      <4> QED BY <1>2, <4>1 DEF Apart
    <3> QED BY <1>10, <2>1, <3>3, <3>4, <3>5
  <2>8. \A m \in Files \ {name} : Apart(r, chains[m])
    <3> SUFFICES ASSUME NEW m \in Files \ {name}, NEW i \in 1..Len(r), NEW j \in 1..Len(chains[m])
                 PROVE  r[i] # chains[m][j]
      BY DEF Apart
    <3>1. CASE i = Len(q) + 1
      BY <2>3, <2>7, <3>1
    <3>2. CASE i # Len(q) + 1
      <4>1. i \in 1..Len(q)
        BY <1>4, <2>3, <3>2
      <4> QED BY <1>2, <2>3, <4>1 DEF Apart
    <3> QED BY <3>1, <3>2
  <2>9. Laid([chains EXCEPT ![name] = r], Views', fat', cells', expected')
    <3>1. \A m \in Files \ {name} : Views'[m] = Views[m] /\ expected'[m] = expected[m]
      OBVIOUS
    <3>2. r \in Seq(Clusters)
      BY <2>3
    <3> QED BY ONLY <1>1, <2>6, <2>7, <2>8, <3>1, <3>2, name \in Files, OneFileChanges
  <2> QED BY <1>5, <2>9 DEF Volume
<1>13. f.at < Len(q) \/ f.at = Len(q)
  BY <1>4
<1> QED BY <1>11, <1>12, <1>13

-----------------------------------------------------------------------------
\* The invariant of volume and streams.
Fils == [open : BOOLEAN, name : Files \union {None}, first : 0..ClusterCount, size : Nat,
         at : Nat, reads : BOOLEAN, writes : BOOLEAN, modified : BOOLEAN]
SlotStates == [used : BOOLEAN, append : BOOLEAN, eof : BOOLEAN, pushed : Values \union {None},
               temporary : BOOLEAN]
StdioTypes ==
    /\ entries \in [Files -> FileEntries \union {NoEntry}]
    /\ fat \in [Clusters -> 0..End] /\ cells \in [Clusters -> Values \union {None}]
    /\ fil \in [Streams -> Fils] /\ stream \in [Streams -> SlotStates]
    /\ turn \in [Streams -> {"any", "read", "write"}] /\ origin \in [Streams -> Nat]
    /\ heard \in [Streams -> Seq(Values)]
    /\ expected \in [Files -> [there : BOOLEAN, data : Seq(Values)]]

\* What an open FIL knows of its file: a writer has it to itself, and the entry
\* is behind what it has written.
OnFile(s) ==
    LET f == fil[s]
        e == entries[f.name]
    IN  /\ stream[s].used /\ f.name \in Files /\ e # NoEntry /\ f.at <= f.size
        /\ stream[s].temporary => f.writes
        /\ f.writes => /\ \A t \in Streams \ {s} : fil[t].open => fil[t].name # f.name
                       /\ e.first = f.first \/ e = NoData
                       /\ e.size <= f.size
        /\ ~f.modified => e.first = f.first /\ e.size = f.size
        /\ f.modified => f.writes
\* What was read since the position was set is there, the pushed-back character
\* is the next one, and the position is behind both.
Reading(s) ==
    LET here == origin[s] + Len(heard[s])
        data == expected[fil[s].name].data
    IN  /\ turn[s] # "read" => heard[s] = <<>> /\ stream[s].pushed = None
        /\ turn[s] = "any" => ~stream[s].eof
        /\ turn[s] # "write" =>
              /\ fil[s].at = here + (IF stream[s].pushed = None THEN 0 ELSE 1)
              /\ \A i \in 1..Len(heard[s]) : heard[s][i] = data[origin[s] + i]
              /\ stream[s].pushed # None => stream[s].pushed = data[here + 1]
              /\ stream[s].eof => here = fil[s].size
Streaming(s) == IF fil[s].open THEN OnFile(s) /\ Reading(s) ELSE heard[s] = <<>>
StdioInv == StdioTypes /\ Volume /\ \A s \in Streams : Streaming(s)

\* Views: of a file with a writer, of one without, and of one nobody touches.
LEMMA ViewsAre ==
    \A m \in Files : Views[m] = ViewIn(entries, fil, m) /\ Views'[m] = ViewIn(entries', fil', m)
BY DEF Views, View, ViewIn, Writers, Holders

LEMMA ViewWriter ==
    ASSUME NEW ents, NEW fl, NEW s \in Streams, fl[s].open, fl[s].writes,
           \A t \in Streams \ {s} : fl[t].open => fl[t].name # fl[s].name
    PROVE  ViewIn(ents, fl, fl[s].name) = [first |-> fl[s].first, size |-> fl[s].size]
<1> DEFINE writers == {t \in Streams : fl[t].open /\ fl[t].name = fl[s].name /\ fl[t].writes}
<1>1. writers = {s}
  OBVIOUS
<1>2. (CHOOSE t \in {s} : TRUE) = s
  OBVIOUS
<1> QED BY <1>1, <1>2 DEF ViewIn

LEMMA ViewNoWriter ==
    ASSUME NEW ents, NEW fl, NEW m,
           \A t \in Streams : fl[t].open /\ fl[t].name = m => ~fl[t].writes
    PROVE  ViewIn(ents, fl, m) = ents[m]
<1>1. {t \in Streams : fl[t].open /\ fl[t].name = m /\ fl[t].writes} = {}
  OBVIOUS
<1> QED BY <1>1 DEF ViewIn

LEMMA ViewSame ==
    ASSUME NEW ents, NEW fl, NEW ents2, NEW fl2, NEW m, ents2[m] = ents[m],
           \A t \in Streams :
              \/ fl2[t] = fl[t]
              \/ (fl[t].open => fl[t].name # m) /\ (fl2[t].open => fl2[t].name # m)
    PROVE  ViewIn(ents2, fl2, m) = ViewIn(ents, fl, m)
<1> DEFINE W(l) == {t \in Streams : l[t].open /\ l[t].name = m /\ l[t].writes}
<1>1. W(fl2) = W(fl)
  OBVIOUS
<1>2. CASE W(fl) = {}
  BY <1>1, <1>2 DEF ViewIn
<1>3. CASE W(fl) # {}
  <2> DEFINE u == CHOOSE t \in W(fl) : TRUE
  <2>1. u \in W(fl)
    BY <1>3
  <2>2. fl2[u] = fl[u]
    BY <2>1
  <2>3. ViewIn(ents, fl, m) = [first |-> fl[u].first, size |-> fl[u].size]
    BY <1>3 DEF ViewIn
  <2>4. ViewIn(ents2, fl2, m) = [first |-> fl2[u].first, size |-> fl2[u].size]
    BY <1>1, <1>3 DEF ViewIn
  <2> HIDE DEF u
  <2> QED BY <2>2, <2>3, <2>4
<1> QED BY <1>2, <1>3

\* Streams that are not touched, on files that are not touched, or that are only
\* read and stay what they are.
LEMMA OthersKeep ==
    ASSUME \A t \in Streams : Streaming(t), NEW T, NEW N,
           \A t \in Streams \ T :
              /\ fil'[t] = fil[t] /\ stream'[t] = stream[t] /\ turn'[t] = turn[t]
              /\ origin'[t] = origin[t] /\ heard'[t] = heard[t],
           \A s \in T : fil'[s].open => fil'[s].name \in N,
           \A m \in Files \ N : entries'[m] = entries[m] /\ expected'[m] = expected[m],
           \A t \in Streams \ T : fil[t].open /\ fil[t].name \in N =>
              /\ ~fil[t].writes
              /\ entries'[fil[t].name] = entries[fil[t].name]
              /\ expected'[fil[t].name] = expected[fil[t].name]
    PROVE  \A t \in Streams \ T : Streaming(t)'
<1> SUFFICES ASSUME NEW t \in Streams \ T PROVE Streaming(t)'
  OBVIOUS
<1>1. Streaming(t)
  OBVIOUS
<1>2. /\ fil'[t] = fil[t] /\ stream'[t] = stream[t] /\ turn'[t] = turn[t]
      /\ origin'[t] = origin[t] /\ heard'[t] = heard[t]
  OBVIOUS
<1>3. CASE ~fil[t].open
  BY <1>1, <1>2, <1>3 DEF Streaming
<1>4. CASE fil[t].open
  <2> DEFINE name == fil[t].name
  <2>1. OnFile(t) /\ Reading(t)
    BY <1>1, <1>4 DEF Streaming
  <2>2. name \in Files
    BY <2>1 DEF OnFile
  <2>3. entries'[name] = entries[name] /\ expected'[name] = expected[name]
    BY <1>4, <2>2
  <2>4. Reading(t)'
    BY <1>2, <2>1, <2>3 DEF Reading
  <2>5. fil[t].writes => \A u \in Streams \ {t} : fil'[u].open => fil'[u].name # name
    <3> SUFFICES ASSUME fil[t].writes, NEW u \in Streams \ {t}, fil'[u].open
                 PROVE  fil'[u].name # name
      OBVIOUS
    <3>1. CASE u \in T
      BY <1>4, <3>1
    <3>2. CASE u \notin T
      BY <2>1, <3>2 DEF OnFile
    <3> QED BY <3>1, <3>2
  <2>6. OnFile(t)'
    BY <1>2, <2>1, <2>3, <2>5 DEF OnFile
  <2> QED BY <1>2, <1>4, <2>4, <2>6 DEF Streaming
<1> QED BY <1>3, <1>4

\* The file of an open stream, as the stream sees it.
LEMMA HeldFile ==
    ASSUME StdioInv, NEW s \in Streams, fil[s].open
    PROVE  LET f == fil[s]
               data == expected[f.name].data
           IN  /\ f.name \in Files /\ f \in Fils
               /\ Views[f.name] = [first |-> f.first, size |-> f.size]
               /\ Views[f.name] # NoEntry
               /\ expected[f.name] = Holding(data)
               /\ data \in Seq(Values) /\ Len(data) = f.size
               /\ ContentIn(fat, cells, f) = data
               /\ ContentIn(fat, cells, Views[f.name]) = data
<1> DEFINE f == fil[s]
           data == expected[f.name].data
           v == [first |-> f.first, size |-> f.size]
<1>1. f \in Fils /\ OnFile(s)
  BY DEF StdioInv, StdioTypes, Streaming
<1>2. f.name \in Files /\ entries[f.name] # NoEntry
  BY <1>1 DEF OnFile
<1>3. Views[f.name] = v
  <2>1. CASE f.writes
    <3>1. ViewIn(entries, fil, f.name) = v
      BY <1>1, <2>1, ViewWriter DEF OnFile
    <3> QED BY <1>2, <3>1, ViewsAre
  <2>2. CASE ~f.writes
    <3>1. \A t \in Streams : fil[t].open /\ fil[t].name = f.name => ~fil[t].writes
      <4> SUFFICES ASSUME NEW t \in Streams, fil[t].open, fil[t].name = f.name, fil[t].writes
                   PROVE  FALSE
        OBVIOUS
      <4>1. OnFile(t)
        BY DEF StdioInv, Streaming
      <4>2. s # t
        BY <2>2
      <4> QED BY <4>1, <4>2 DEF OnFile
    <3>2. ViewIn(entries, fil, f.name) = entries[f.name]
      BY <3>1, ViewNoWriter
    <3>3. entries[f.name] \in FileEntries
      BY <1>2 DEF StdioInv, StdioTypes
    <3>4. entries[f.name].first = f.first /\ entries[f.name].size = f.size
      BY <1>1, <2>2 DEF OnFile, Fils
    <3>5. entries[f.name] = v
      BY <3>3, <3>4 DEF FileEntries
    <3> QED BY <1>2, <3>2, <3>5, ViewsAre
  <2> QED BY <2>1, <2>2
<1>4. v # NoEntry
  <2>1. f.size \in Nat
    BY <1>1 DEF Fils
  <2>2. v.size = f.size /\ NoEntry.size = -1
    BY DEF NoEntry
  <2> QED BY <2>1, <2>2
<1>5. PICK chains : Laid(chains, Views, fat, cells, expected)
  BY DEF StdioInv, Volume
<1>6. expected[f.name].there /\ Stores(fat, cells, Views[f.name], chains[f.name], data)
  BY <1>2, <1>3, <1>4, <1>5 DEF Laid, FileSound
<1>7. data \in Seq(Values) /\ Len(data) = f.size
  BY <1>3, <1>6 DEF Stores
<1>8. ContentIn(fat, cells, Views[f.name]) = data
  BY <1>6, ContentIs
<1>9. ContentIn(fat, cells, f) = ContentIn(fat, cells, Views[f.name])
  BY <1>3 DEF ContentIn
<1>10. expected[f.name] = Holding(data)
  <2>1. expected[f.name] \in [there : BOOLEAN, data : Seq(Values)]
    BY <1>2 DEF StdioInv, StdioTypes
  <2> QED BY <1>6, <2>1 DEF Holding
<1> QED BY <1>1, <1>2, <1>3, <1>4, <1>7, <1>8, <1>9, <1>10

\* A file is there if its view is.
LEMMA ViewPresent ==
    ASSUME StdioInv, NEW m \in Files
    PROVE  /\ Views[m] = NoEntry <=> entries[m] = NoEntry
           /\ (\A s \in Streams : fil[s].open /\ fil[s].name = m => ~fil[s].writes)
                 => Views[m] = entries[m]
<1>1. CASE \E s \in Streams : fil[s].open /\ fil[s].name = m /\ fil[s].writes
  <2>1. PICK s \in Streams : fil[s].open /\ fil[s].name = m /\ fil[s].writes
    BY <1>1
  <2>2. Views[m] # NoEntry
    BY <2>1, HeldFile
  <2>3. OnFile(s)
    BY <2>1 DEF StdioInv, Streaming
  <2> QED BY <2>1, <2>2, <2>3 DEF OnFile
<1>2. CASE \A s \in Streams : fil[s].open /\ fil[s].name = m => ~fil[s].writes
  <2>1. ViewIn(entries, fil, m) = entries[m]
    BY <1>2, ViewNoWriter
  <2>2. Views[m] = entries[m]
    BY <2>1, ViewsAre
  <2> QED BY <2>2
<1> QED BY <1>1, <1>2

\* A sequence that agrees with a part of another one is that part.
LEMMA PartIs ==
    ASSUME NEW D, NEW data \in Seq(D), NEW from \in Nat, NEW part \in Seq(D),
           from + Len(part) <= Len(data), \A i \in 1..Len(part) : part[i] = data[from + i]
    PROVE  part = SubSeq(data, from + 1, from + Len(part))
<1> DEFINE sub == SubSeq(data, from + 1, from + Len(part))
<1>1. Len(part) \in Nat /\ Len(data) \in Nat
  OBVIOUS
<1>2. sub = [i \in 1..Len(part) |-> data[from + i]]
  BY <1>1
<1>3. part = [i \in 1..Len(part) |-> part[i]]
  OBVIOUS
<1> QED BY <1>2, <1>3

\* The invariant is what is claimed, and more.
LEMMA StdioInvSuffices == StdioInv => StreamsTrue
<1> SUFFICES ASSUME StdioInv PROVE StreamsTrue
  OBVIOUS
<1>1. PICK chains : Laid(chains, Views, fat, cells, expected)
  BY DEF StdioInv, Volume
<1>2. ASSUME NEW m \in Files, Present(m)
      PROVE  /\ View(m) = Views[m] /\ expected[m].there
             /\ Stores(fat, cells, View(m), chains[m], expected[m].data)
  <2>1. View(m) = Views[m]
    BY DEF Views
  <2>2. Views[m] # NoEntry
    BY <1>2, ViewPresent DEF Present
  <2>3. FileSound(fat, cells, Views[m], chains[m], expected[m])
    BY <1>1 DEF Laid
  <2> QED BY <2>1, <2>2, <2>3 DEF FileSound
<1>3. ASSUME NEW m \in Files, Present(m)
      PROVE  ChainFrom(View(m).first) = {chains[m][i] : i \in 1..Len(chains[m])}
  <2>1. Chain(fat, View(m).first, chains[m])
    BY <1>2, <1>3 DEF Stores
  <2>2. ChainFrom(View(m).first) = ChainFromIn(fat, View(m).first)
    BY DEF ChainFrom, ChainFromIn, Nth, NthIn
  <2> QED BY <2>1, <2>2, ChainFromIs
<1>4. ChainsSound
  <2> SUFFICES ASSUME NEW m \in Files, Present(m)
               PROVE  /\ \A i \in 1..View(m).size : Nth(View(m).first, i) \in Clusters
                      /\ \A c \in ChainFrom(View(m).first) :
                            /\ fat[c] # Unused
                            /\ \A n \in Files \ {m} : Present(n) => c \notin ChainFrom(View(n).first)
    BY DEF ChainsSound
  <2> DEFINE q == chains[m]
             v == View(m)
  <2>1. /\ Chain(fat, v.first, q) /\ v.size = Len(expected[m].data)
        /\ Len(expected[m].data) <= Len(q) /\ Len(expected[m].data) \in Nat
    BY <1>2 DEF Stores
  <2>2. Len(q) \in Nat /\ \A i \in 1..Len(q) : q[i] \in Clusters
    BY <2>1 DEF Chain
  <2>3. \A i \in 1..Len(q) : NthIn(fat, v.first, i) = q[i]
    BY <2>1, ChainNth
  <2>4. \A i \in 1..v.size : Nth(v.first, i) \in Clusters
    <3> HIDE DEF v, q
    <3>1. \A i \in 1..v.size : i \in 1..Len(q)
      BY <2>1, <2>2
    <3>2. \A i \in 1..v.size : NthIn(fat, v.first, i) \in Clusters
      BY <2>2, <2>3, <3>1
    <3> QED BY <3>2 DEF Nth, NthIn
  <2>5. ASSUME NEW c \in ChainFrom(v.first)
        PROVE  /\ fat[c] # Unused
               /\ \A n \in Files \ {m} : Present(n) => c \notin ChainFrom(View(n).first)
    <3>1. PICK i \in 1..Len(q) : c = q[i]
      BY <1>3
    <3>2. fat[c] # Unused
      BY <2>1, <3>1, ChainUsed
    <3>3. ASSUME NEW n \in Files \ {m}, Present(n), c \in ChainFrom(View(n).first) PROVE FALSE
      <4>0. ChainFrom(View(n).first) = {chains[n][j] : j \in 1..Len(chains[n])}
        BY <1>3, <3>3
      <4>1. PICK j \in 1..Len(chains[n]) : c = chains[n][j]
        BY <3>3, <4>0
      <4>2. Apart(q, chains[n])
        BY <1>1 DEF Laid
      <4> QED BY <3>1, <4>1, <4>2 DEF Apart
    <3> QED BY <3>2, <3>3
  <2> QED BY <2>4, <2>5
<1>5. ContentsKept
  <2> SUFFICES ASSUME NEW m \in Files
               PROVE  /\ expected[m].there = Present(m)
                      /\ Present(m) => Content(View(m)) = expected[m].data
    BY DEF ContentsKept
  <2>1. CASE Present(m)
    <3>1. ContentIn(fat, cells, View(m)) = expected[m].data
      BY <1>2, <2>1, ContentIs
    <3>2. Content(View(m)) = ContentIn(fat, cells, View(m))
      BY DEF Content, ContentIn, Nth, NthIn
    <3>3. expected[m].there = TRUE
      <4>1. expected[m].there \in BOOLEAN
        BY DEF StdioInv, StdioTypes
      <4> QED BY <1>2, <2>1, <4>1
    <3>4. Present(m) = TRUE
      BY <2>1 DEF Present
    <3> QED BY <3>1, <3>2, <3>3, <3>4
  <2>2. CASE ~Present(m)
    <3>1. Views[m] = NoEntry
      BY <2>2, ViewPresent DEF Present
    <3>2. expected[m] = Gone
      BY <1>1, <3>1 DEF Laid, FileSound
    <3>3. Present(m) = FALSE
      BY <2>2 DEF Present
    <3>4. expected[m].there = FALSE
      BY <3>2 DEF Gone
    <3> QED BY <2>2, <3>3, <3>4
  <2> QED BY <2>1, <2>2
<1>6. HeardTrue
  <2> SUFFICES ASSUME NEW s \in Streams, stream[s].used, fil[s].open, turn[s] = "read"
               PROVE  LET here == origin[s] + Len(heard[s])
                          back == IF stream[s].pushed = None THEN 0 ELSE 1
                      IN  /\ fil[s].at = here + back
                          /\ heard[s] = SubSeq(Content(fil[s]), origin[s] + 1, here)
                          /\ stream[s].eof => here = fil[s].size
    BY DEF HeardTrue
  <2> DEFINE here == origin[s] + Len(heard[s])
             back == IF stream[s].pushed = None THEN 0 ELSE 1
             data == expected[fil[s].name].data
  <2>1. Reading(s) /\ OnFile(s)
    BY DEF StdioInv, Streaming
  <2>2. /\ fil[s].at = here + back /\ (stream[s].eof => here = fil[s].size)
        /\ \A i \in 1..Len(heard[s]) : heard[s][i] = data[origin[s] + i]
    BY <2>1 DEF Reading
  <2>3. data \in Seq(Values) /\ Len(data) = fil[s].size /\ ContentIn(fat, cells, fil[s]) = data
    BY HeldFile
  <2>4. Content(fil[s]) = data
    BY <2>3 DEF Content, ContentIn, Nth, NthIn
  <2>5. /\ heard[s] \in Seq(Values) /\ origin[s] \in Nat /\ fil[s].at <= fil[s].size
        /\ fil[s].size \in Nat /\ fil[s].at \in Nat /\ back \in {0, 1}
    BY <2>1 DEF StdioInv, StdioTypes, OnFile, Fils
  <2>6. heard[s] = SubSeq(data, origin[s] + 1, here)
    <3>1. origin[s] + Len(heard[s]) <= Len(data)
      <4> HIDE DEF back, data
      <4> QED BY <2>2, <2>3, <2>5
    <3> HIDE DEF data
    <3> QED BY <2>2, <2>3, <2>5, <3>1, PartIs
  <2> QED BY <2>2, <2>4, <2>6
<1> QED BY <1>4, <1>5, <1>6 DEF StreamsTrue

LEMMA StdioInvInit == StdioInit => StdioInv
<1> SUFFICES ASSUME StdioInit PROVE StdioInv
  OBVIOUS
<1>1. /\ entries = [name \in Files |-> NoEntry] /\ fat = [c \in Clusters |-> Unused]
      /\ cells = [c \in Clusters |-> None] /\ fil = [s \in Streams |-> NoFil]
      /\ stream = [s \in Streams |-> FreeSlot] /\ turn = [s \in Streams |-> "any"]
      /\ origin = [s \in Streams |-> 0] /\ heard = [s \in Streams |-> <<>>]
      /\ expected = [name \in Files |-> Gone]
  BY DEF StdioInit, VolumeInit
<1>2. StdioTypes
  <2>1. Unused \in 0..End /\ NoFil \in Fils /\ FreeSlot \in SlotStates
    BY StdioConstants DEF Unused, End, NoFil, Fils, FreeSlot, SlotStates, NoCluster
  <2>2. Gone \in [there : BOOLEAN, data : Seq(Values)] /\ <<>> \in Seq(Values)
    BY DEF Gone
  <2> QED BY <1>1, <2>1, <2>2 DEF StdioTypes
<1>3. \A m \in Files : Views[m] = NoEntry
  <2> SUFFICES ASSUME NEW m \in Files PROVE Views[m] = NoEntry
    OBVIOUS
  <2>1. \A t \in Streams : ~fil[t].open
    BY <1>1 DEF NoFil
  <2>2. ViewIn(entries, fil, m) = entries[m]
    BY <2>1, ViewNoWriter
  <2> QED BY <1>1, <2>2, ViewsAre
<1>4. Volume
  <2> DEFINE chains == [m \in Files |-> <<>>]
  <2>1. chains \in [Files -> Seq(Clusters)] /\ 1..Len(<<>>) = {}
    OBVIOUS
  <2>2. Laid(chains, Views, fat, cells, expected)
    BY <1>1, <1>3, <2>1 DEF Laid, FileSound, Apart
  <2> QED BY <2>2 DEF Volume
<1>5. \A s \in Streams : Streaming(s)
  BY <1>1 DEF Streaming, NoFil
<1> QED BY <1>2, <1>4, <1>5 DEF StdioInv

-----------------------------------------------------------------------------
\* A step of stream s on the file "name", as the others and the views see it.
OnlyStream(s) ==
    \A t \in Streams \ {s} :
        /\ fil'[t] = fil[t] /\ stream'[t] = stream[t] /\ turn'[t] = turn[t]
        /\ origin'[t] = origin[t] /\ heard'[t] = heard[t]
OnlyFile(name) ==
    \A m \in Files \ {name} : entries'[m] = entries[m] /\ expected'[m] = expected[m]
Alone(s, name) == \A t \in Streams \ {s} : fil[t].open => fil[t].name # name
LEMMA OneStream ==
    ASSUME StdioInv, NEW s \in Streams, NEW name \in Files, OnlyStream(s), OnlyFile(name),
           fil[s].open => fil[s].name = name, fil'[s].open => fil'[s].name = name,
           \A t \in Streams \ {s} : fil[t].open /\ fil[t].name = name =>
              /\ ~fil[t].writes
              /\ entries'[name] = entries[name] /\ expected'[name] = expected[name]
    PROVE  /\ \A t \in Streams \ {s} : Streaming(t)'
           /\ \A m \in Files \ {name} : Views'[m] = Views[m]
           /\ Alone(s, name) /\ fil'[s].open /\ fil'[s].writes =>
                 Views'[name] = [first |-> fil'[s].first, size |-> fil'[s].size]
           /\ ~(fil'[s].open /\ fil'[s].writes) => Views'[name] = entries'[name]
<1>1. \A t \in Streams \ {s} : Streaming(t)'
  <2> DEFINE T == {s}
             N == {name}
  <2>1. \A t \in Streams : Streaming(t)
    BY DEF StdioInv
  <2>2. \A t \in Streams \ T :
            /\ fil'[t] = fil[t] /\ stream'[t] = stream[t] /\ turn'[t] = turn[t]
            /\ origin'[t] = origin[t] /\ heard'[t] = heard[t]
    BY DEF OnlyStream
  <2>3. \A t \in T : fil'[t].open => fil'[t].name \in N
    OBVIOUS
  <2>4. \A m \in Files \ N : entries'[m] = entries[m] /\ expected'[m] = expected[m]
    BY DEF OnlyFile
  <2>5. \A t \in Streams \ T : fil[t].open /\ fil[t].name \in N =>
            /\ ~fil[t].writes
            /\ entries'[fil[t].name] = entries[fil[t].name]
            /\ expected'[fil[t].name] = expected[fil[t].name]
    OBVIOUS
  <2>6. \A t \in Streams \ T : Streaming(t)'
    <3> HIDE DEF T, N
    <3> QED BY ONLY <2>1, <2>2, <2>3, <2>4, <2>5, OthersKeep
  <2> QED BY <2>6
<1>2. ASSUME NEW m \in Files \ {name} PROVE Views'[m] = Views[m]
  <2>1. entries'[m] = entries[m]
    BY DEF OnlyFile
  <2>2. \A t \in Streams :
            \/ fil'[t] = fil[t]
            \/ (fil[t].open => fil[t].name # m) /\ (fil'[t].open => fil'[t].name # m)
    BY DEF OnlyStream
  <2>3. ViewIn(entries', fil', m) = ViewIn(entries, fil, m)
    BY <2>1, <2>2, ViewSame
  <2> QED BY <2>3, ViewsAre
<1>3. ASSUME Alone(s, name), fil'[s].open, fil'[s].writes
      PROVE  Views'[name] = [first |-> fil'[s].first, size |-> fil'[s].size]
  <2>1. \A t \in Streams \ {s} : fil'[t].open => fil'[t].name # fil'[s].name
    BY <1>3 DEF Alone, OnlyStream
  <2>2. ViewIn(entries', fil', fil'[s].name) = [first |-> fil'[s].first, size |-> fil'[s].size]
    BY <1>3, <2>1, ViewWriter
  <2>3. fil'[s].name = name
    BY <1>3
  <2> QED BY <2>2, <2>3, ViewsAre
<1>4. ASSUME ~(fil'[s].open /\ fil'[s].writes) PROVE Views'[name] = entries'[name]
  <2>1. \A t \in Streams : fil'[t].open /\ fil'[t].name = name => ~fil'[t].writes
    BY <1>4 DEF OnlyStream
  <2>2. ViewIn(entries', fil', name) = entries'[name]
    BY <2>1, ViewNoWriter
  <2> QED BY <2>2, ViewsAre
<1> QED BY <1>1, <1>2, <1>3, <1>4

\* Types of what an open makes, and of the modes.
LEMMA ModeFacts ==
    ASSUME NEW m \in Modes
    PROVE  /\ m.reads \in BOOLEAN /\ m.writes \in BOOLEAN /\ m.truncate \in BOOLEAN
           /\ m.append \in BOOLEAN /\ (m.truncate \/ m.append => m.writes)
<1>1. PICK k \in {"r", "w", "a"}, plus \in BOOLEAN :
          m = [reads |-> k = "r" \/ plus, writes |-> k # "r" \/ plus,
               truncate |-> k = "w", append |-> k = "a"]
  BY DEF Modes
<1>2. /\ m.reads = (k = "r" \/ plus) /\ m.writes = (k # "r" \/ plus)
      /\ m.truncate = (k = "w") /\ m.append = (k = "a")
  BY <1>1
<1> QED BY <1>2

LEMMA UsedSlotIs ==
    ASSUME NEW append \in BOOLEAN, NEW temp \in BOOLEAN
    PROVE  UsedSlot(append, temp) = [used |-> TRUE, append |-> append, eof |-> FALSE,
                                     pushed |-> None, temporary |-> temp]
<1>1. PICK yes \in BOOLEAN, no \in BOOLEAN : yes = TRUE /\ no = FALSE
  OBVIOUS
<1>2. FreeSlot = [used |-> no, append |-> no, eof |-> no, pushed |-> None, temporary |-> no]
  BY <1>1 DEF FreeSlot
<1>3. UsedSlot(append, temp) = [FreeSlot EXCEPT !.used = yes, !.append = append,
                                                !.temporary = temp]
  BY <1>1 DEF UsedSlot
<1>4. UsedSlot(append, temp) = [used |-> yes, append |-> append, eof |-> no,
                                pushed |-> None, temporary |-> temp]
  BY <1>2, <1>3
<1> QED BY <1>1, <1>4

\* What the other holders of a file are, if s holds it too.
LEMMA OthersRead ==
    ASSUME StdioInv, NEW s \in Streams, fil[s].open,
           NEW t \in Streams \ {s}, fil[t].open, fil[t].name = fil[s].name
    PROVE  ~fil[t].writes /\ ~fil[s].writes /\ ~fil[s].modified
<1>1. OnFile(s) /\ OnFile(t)
  BY DEF StdioInv, Streaming
<1>2. ~fil[s].writes
  BY <1>1 DEF OnFile
<1>3. ~fil[t].writes
  <2>1. s \in Streams \ {t}
    OBVIOUS
  <2> QED BY <1>1, <2>1 DEF OnFile
<1> QED BY <1>1, <1>2, <1>3 DEF OnFile

\* The entry once a FIL is closed is what the file was through it.
LEMMA ClosedEntry ==
    ASSUME StdioInv, NEW s \in Streams, fil[s].open
    PROVE  LET closed == AfterClose(entries, fil[s])
               name == fil[s].name
           IN  /\ closed \in [Files -> FileEntries \union {NoEntry}]
               /\ \A m \in Files \ {name} : closed[m] = entries[m]
               /\ closed[name] = Views[name] /\ closed[name] \in FileEntries
               /\ ~fil[s].modified => closed = entries
<1> DEFINE f == fil[s]
           v == [first |-> f.first, size |-> f.size]
           closed == AfterClose(entries, f)
<1>1. f \in Fils /\ OnFile(s) /\ f.name \in Files /\ Views[f.name] = v
  BY HeldFile DEF StdioInv, Streaming
<1>2. v \in FileEntries
  BY <1>1 DEF Fils, FileEntries
<1>3. entries \in [Files -> FileEntries \union {NoEntry}]
  BY DEF StdioInv, StdioTypes
<1>4. CASE f.modified
  <2>1. closed = [entries EXCEPT ![f.name] = v]
    BY <1>4 DEF AfterClose
  <2> HIDE DEF v, f
  <2> QED BY <1>1, <1>2, <1>3, <1>4, <2>1 DEF f
<1>5. CASE ~f.modified
  <2>1. closed = entries
    BY <1>5 DEF AfterClose
  <2>2. entries[f.name].first = f.first /\ entries[f.name].size = f.size /\ entries[f.name] # NoEntry
    BY <1>1, <1>5 DEF OnFile
  <2>3. entries[f.name] \in FileEntries
    BY <1>1, <1>3, <2>2
  <2>4. entries[f.name] = v
    BY <2>2, <2>3 DEF FileEntries
  <2> HIDE DEF v
  <2> QED BY <1>1, <1>3, <2>1, <2>3, <2>4
<1> QED BY <1>4, <1>5

LEMMA OpenKeeps ==
    ASSUME StdioInv, NEW s \in Streams, NEW name \in Files, NEW m \in Modes,
           NEW temp \in BOOLEAN, temp => m.writes,
           NEW ents \in [Files -> FileEntries \union {NoEntry}],
           \A n \in Files \ {name} : ents[n] = entries[n], ents[name] = Views[name],
           \A t \in Streams \ {s} : fil[t].open /\ fil[t].name = name =>
              ~m.writes /\ ~fil[t].writes /\ ents[name] = entries[name],
           fil[s].open => fil[s].name = name,
           Present(name) \/ Creates(m),
           OpenInto(s, name, m, temp, ents)
    PROVE  StdioInv'
<1> DEFINE e == entries'[name]
           emptied == m.truncate \/ ~Present(name)
<1>1. /\ m.reads \in BOOLEAN /\ m.writes \in BOOLEAN /\ m.truncate \in BOOLEAN
      /\ m.append \in BOOLEAN /\ (m.truncate \/ m.append => m.writes)
  BY ModeFacts
<1>2. StdioTypes
  BY DEF StdioInv
<1>3. Present(name) <=> ents[name] # NoEntry
  BY ViewPresent DEF Present
<1>4. /\ entries' = IF emptied THEN [ents EXCEPT ![name] = NoData] ELSE ents
      /\ expected' = IF emptied THEN [expected EXCEPT ![name] = Holding(<<>>)] ELSE expected
      /\ fil' = [fil EXCEPT ![s] = FilFor(name, m, e)]
      /\ stream' = [stream EXCEPT ![s] = UsedSlot(m.append, temp)]
      /\ turn' = [turn EXCEPT ![s] = "any"]
      /\ origin' = [origin EXCEPT ![s] = fil'[s].at]
      /\ heard' = [heard EXCEPT ![s] = <<>>]
      /\ fat' = fat /\ cells' = cells
  BY <1>3 DEF OpenInto, AfterOpen, SetPosition
<1>5. NoData \in FileEntries /\ NoData # NoEntry
  BY EmptyStores
<1>6. entries' \in [Files -> FileEntries \union {NoEntry}] /\ e \in FileEntries /\ e # NoEntry
  <2>1. CASE emptied
    BY <1>4, <1>5, <2>1
  <2>2. CASE ~emptied
    <3>1. ents[name] # NoEntry
      BY <1>3, <2>2
    <3> QED BY <1>4, <2>2, <3>1
  <2> QED BY <2>1, <2>2
<1> HIDE DEF e
<1> DEFINE f == FilFor(name, m, e)
<1>7. /\ f \in Fils /\ f.open /\ f.name = name /\ f.first = e.first /\ f.size = e.size
      /\ f.at \in Nat /\ f.at <= f.size /\ f.writes = m.writes /\ ~f.modified
  BY <1>1, <1>6 DEF FilFor, Fils, FileEntries
<1> HIDE DEF f
<1>8. fil'[s] = f /\ origin'[s] = f.at /\ heard'[s] = <<>> /\ turn'[s] = "any"
      /\ stream'[s] = UsedSlot(m.append, temp)
  BY <1>2, <1>4 DEF StdioTypes, f
<1>9. /\ UsedSlot(m.append, temp) \in SlotStates
      /\ stream'[s].used /\ stream'[s].temporary = temp /\ stream'[s].pushed = None
      /\ ~stream'[s].eof
  <2>1. UsedSlot(m.append, temp) = [used |-> TRUE, append |-> m.append, eof |-> FALSE,
                                    pushed |-> None, temporary |-> temp]
    BY <1>1, UsedSlotIs
  <2> QED BY <1>1, <1>8, <2>1 DEF SlotStates
<1>10. OnlyStream(s) /\ OnlyFile(name)
  BY <1>2, <1>4 DEF OnlyStream, OnlyFile, StdioTypes
<1>11. ASSUME NEW t \in Streams \ {s}, fil[t].open, fil[t].name = name
       PROVE  /\ ~fil[t].writes /\ ~m.writes
              /\ entries'[name] = entries[name] /\ expected'[name] = expected[name]
  <2>1. ~m.writes /\ ~fil[t].writes /\ ents[name] = entries[name]
    BY <1>11
  <2>2. OnFile(t)
    BY <1>11 DEF StdioInv, Streaming
  <2>3. ~emptied
    BY <1>1, <1>11, <2>1, <2>2 DEF OnFile, Present
  <2> QED BY <1>4, <2>1, <2>3
<1>12. /\ \A t \in Streams \ {s} : Streaming(t)'
       /\ \A n \in Files \ {name} : Views'[n] = Views[n]
       /\ Alone(s, name) /\ fil'[s].open /\ fil'[s].writes =>
             Views'[name] = [first |-> fil'[s].first, size |-> fil'[s].size]
       /\ ~(fil'[s].open /\ fil'[s].writes) => Views'[name] = entries'[name]
  <2>1. fil'[s].open => fil'[s].name = name
    BY <1>7, <1>8
  <2> QED BY <1>10, <1>11, <2>1, OneStream
<1>13. m.writes => Alone(s, name)
  BY <1>11 DEF Alone
<1>14. Views'[name] = e
  <2>1. CASE m.writes
    <3>1. Views'[name] = [first |-> e.first, size |-> e.size]
      BY <1>7, <1>8, <1>12, <1>13, <2>1
    <3>2. e = [first |-> e.first, size |-> e.size]
      BY <1>6 DEF FileEntries
    <3> QED BY <3>1, <3>2
  <2>2. CASE ~m.writes
    BY <1>7, <1>8, <1>12, <2>2 DEF e
  <2> QED BY <2>1, <2>2
<1>15. Volume'
  <2>1. CASE emptied
    <3>1. Views'[name] = NoData /\ expected'[name] = Holding(<<>>)
      BY <1>2, <1>4, <1>14, <2>1 DEF e, StdioTypes
    <3>2. \A n \in Files \ {name} : Views'[n] = Views[n] /\ expected'[n] = expected[n]
      BY <1>10, <1>12 DEF OnlyFile
    <3> QED BY <1>4, <3>1, <3>2, VolumeEmptied DEF StdioInv
  <2>2. CASE ~emptied
    <3>1. \A n \in Files : Views'[n] = Views[n] /\ expected'[n] = expected[n]
      BY <1>4, <1>12, <1>14, <2>2 DEF e
    <3> QED BY <1>4, <3>1, VolumeSame DEF StdioInv
  <2> QED BY <2>1, <2>2
<1>16. StdioTypes'
  <2>1. expected' \in [Files -> [there : BOOLEAN, data : Seq(Values)]]
    <3>1. Holding(<<>>) \in [there : BOOLEAN, data : Seq(Values)]
      BY DEF Holding
    <3> QED BY <1>2, <1>4, <3>1 DEF StdioTypes
  <2>2. fil' \in [Streams -> Fils]
    BY <1>2, <1>4, <1>7 DEF StdioTypes, f
  <2>3. stream' \in [Streams -> SlotStates]
    BY <1>2, <1>4, <1>9 DEF StdioTypes
  <2>4. origin' \in [Streams -> Nat] /\ heard' \in [Streams -> Seq(Values)]
        /\ turn' \in [Streams -> {"any", "read", "write"}]
    BY <1>2, <1>4, <1>7, <1>8 DEF StdioTypes
  <2> QED BY <1>2, <1>4, <1>6, <2>1, <2>2, <2>3, <2>4 DEF StdioTypes
<1>17. OnFile(s)'
  <2>1. m.writes => \A t \in Streams \ {s} : fil'[t].open => fil'[t].name # name
    BY <1>10, <1>13 DEF Alone, OnlyStream
  <2>2. fil'[s].writes => m.writes
    BY <1>7, <1>8
  <2>3. stream'[s].temporary => fil'[s].writes
    BY <1>7, <1>8, <1>9
  <2>4. /\ fil'[s].name = name /\ fil'[s].first = e.first /\ fil'[s].size = e.size
        /\ fil'[s].at <= fil'[s].size /\ ~fil'[s].modified /\ entries'[name] = e
    BY <1>7, <1>8 DEF e
  <2>5. e.size <= e.size
    BY <1>6 DEF FileEntries
  <2> QED BY <1>6, <1>9, <2>1, <2>2, <2>3, <2>4, <2>5 DEF OnFile
<1>18. Reading(s)'
  BY <1>7, <1>8, <1>9 DEF Reading
<1>19. Streaming(s)'
  BY <1>7, <1>8, <1>17, <1>18 DEF Streaming
<1> QED BY <1>12, <1>15, <1>16, <1>19 DEF StdioInv

\* What every way of closing the FIL of s has in common.
LEMMA CloseFacts ==
    ASSUME StdioInv, NEW s \in Streams, fil[s].open, NEW name, name = fil[s].name,
           NEW slot \in SlotStates, stream' = [stream EXCEPT ![s] = slot],
           fil' = [fil EXCEPT ![s] = NoFil], SetPosition(s, 0),
           \A m \in Files \ {name} : entries'[m] = entries[m] /\ expected'[m] = expected[m],
           \A t \in Streams \ {s} : fil[t].open /\ fil[t].name = name =>
              entries'[name] = entries[name] /\ expected'[name] = expected[name]
    PROVE  /\ \A t \in Streams : Streaming(t)'
           /\ \A m \in Files \ {name} : Views'[m] = Views[m]
           /\ Views'[name] = entries'[name] /\ name \in Files
           /\ fil' \in [Streams -> Fils] /\ stream' \in [Streams -> SlotStates]
           /\ turn' \in [Streams -> {"any", "read", "write"}]
           /\ origin' \in [Streams -> Nat] /\ heard' \in [Streams -> Seq(Values)]
<1>1. StdioTypes /\ name \in Files
  BY HeldFile DEF StdioInv
<1>2. /\ turn' = [turn EXCEPT ![s] = "any"] /\ origin' = [origin EXCEPT ![s] = 0]
      /\ heard' = [heard EXCEPT ![s] = <<>>]
  BY DEF SetPosition
<1>3. NoFil \in Fils /\ ~NoFil.open
  BY StdioConstants DEF NoFil, Fils, NoCluster
<1>4. fil'[s] = NoFil /\ heard'[s] = <<>>
  BY <1>1, <1>2 DEF StdioTypes
<1>5. OnlyStream(s) /\ OnlyFile(name)
  BY <1>1, <1>2 DEF OnlyStream, OnlyFile, StdioTypes
<1>6. ASSUME NEW t \in Streams \ {s}, fil[t].open, fil[t].name = name
      PROVE  /\ ~fil[t].writes
             /\ entries'[name] = entries[name] /\ expected'[name] = expected[name]
  BY <1>6, OthersRead
<1>7. /\ \A t \in Streams \ {s} : Streaming(t)'
      /\ \A m \in Files \ {name} : Views'[m] = Views[m]
      /\ Views'[name] = entries'[name]
  <2>1. fil[s].open => fil[s].name = name
    OBVIOUS
  <2>2. ~fil'[s].open
    BY <1>3, <1>4
  <2> QED BY <1>1, <1>5, <1>6, <2>1, <2>2, OneStream
<1>8. Streaming(s)'
  BY <1>3, <1>4 DEF Streaming
<1>9. /\ fil' \in [Streams -> Fils] /\ stream' \in [Streams -> SlotStates]
      /\ turn' \in [Streams -> {"any", "read", "write"}]
      /\ origin' \in [Streams -> Nat] /\ heard' \in [Streams -> Seq(Values)]
  BY <1>1, <1>2, <1>3 DEF StdioTypes
<1> QED BY <1>1, <1>7, <1>8, <1>9

LEMMA SlotTypes == FreeSlot \in SlotStates /\ UsedSlot(FALSE, FALSE) \in SlotStates
<1>1. FreeSlot \in SlotStates
  BY DEF FreeSlot, SlotStates
<1>2. UsedSlot(FALSE, FALSE) = [used |-> TRUE, append |-> FALSE, eof |-> FALSE,
                                pushed |-> None, temporary |-> FALSE]
  BY UsedSlotIs
<1>3. PICK yes \in BOOLEAN, no \in BOOLEAN : yes = TRUE /\ no = FALSE
  OBVIOUS
<1>4. UsedSlot(FALSE, FALSE) = [used |-> yes, append |-> no, eof |-> no, pushed |-> None,
                                temporary |-> no]
  BY <1>2, <1>3
<1>5. [used |-> yes, append |-> no, eof |-> no, pushed |-> None, temporary |-> no] \in SlotStates
  BY ONLY yes \in BOOLEAN, no \in BOOLEAN DEF SlotStates
<1> QED BY <1>1, <1>4, <1>5

LEMMA FcloseKeeps ==
    ASSUME StdioInv, NEW s \in Streams, Fclose(s)
    PROVE  StdioInv'
<1> DEFINE closed == AfterClose(entries, fil[s])
           name == fil[s].name
<1>1. /\ fil[s].open /\ stream' = [stream EXCEPT ![s] = FreeSlot]
      /\ fil' = [fil EXCEPT ![s] = NoFil] /\ SetPosition(s, 0) /\ cells' = cells
  BY DEF Fclose
<1>2. StdioTypes /\ OnFile(s) /\ name \in Files
  BY <1>1, HeldFile DEF StdioInv, Streaming
<1>3. /\ closed \in [Files -> FileEntries \union {NoEntry}]
      /\ \A m \in Files \ {name} : closed[m] = entries[m]
      /\ closed[name] = Views[name] /\ closed[name] \in FileEntries
      /\ ~fil[s].modified => closed = entries
  BY <1>1, ClosedEntry
<1>4. Views[name] # NoEntry
  BY <1>1, HeldFile
<1>5. ASSUME stream[s].temporary, NEW k \in 0..ClusterCount,
             entries' = [closed EXCEPT ![name] = NoEntry],
             fat' = AfterRemove(closed[name].first, k),
             expected' = [expected EXCEPT ![name] = Gone]
      PROVE  StdioInv'
  <2>1. /\ entries' = [closed EXCEPT ![name] = NoEntry]
        /\ fat' = AfterRemove(closed[name].first, k)
        /\ expected' = [expected EXCEPT ![name] = Gone]
    BY <1>5
  <2> HIDE DEF closed
  <2>2. Alone(s, name)
    BY <1>2, <1>5 DEF OnFile, Alone
  <2>3. /\ entries' \in [Files -> FileEntries \union {NoEntry}] /\ entries'[name] = NoEntry
        /\ \A m \in Files \ {name} : entries'[m] = entries[m] /\ expected'[m] = expected[m]
        /\ expected'[name] = Gone
    BY <1>2, <1>3, <2>1 DEF StdioTypes
  <2>4. /\ \A t \in Streams : Streaming(t)'
        /\ \A m \in Files \ {name} : Views'[m] = Views[m]
        /\ Views'[name] = entries'[name]
        /\ fil' \in [Streams -> Fils] /\ stream' \in [Streams -> SlotStates]
        /\ turn' \in [Streams -> {"any", "read", "write"}]
        /\ origin' \in [Streams -> Nat] /\ heard' \in [Streams -> Seq(Values)]
    <3>1. \A t \in Streams \ {s} : fil[t].open /\ fil[t].name = name =>
              entries'[name] = entries[name] /\ expected'[name] = expected[name]
      BY <2>2 DEF Alone
    <3> QED BY <1>1, <2>3, <3>1, SlotTypes, CloseFacts
  <2>5. Volume'
    <3>1. fat \in [Clusters -> 0..End]
      BY <1>2 DEF StdioTypes
    <3>2. fat' = AfterRemove(Views[name].first, k) /\ k \in 0..ClusterCount
      BY <1>3, <2>1
    <3>3. \A m \in Files \ {name} : Views'[m] = Views[m] /\ expected'[m] = expected[m]
      BY <2>3, <2>4
    <3>4. Views'[name] = NoEntry /\ expected'[name] = Gone
      BY <2>3, <2>4
    <3>5. Volume
      BY DEF StdioInv
    <3> QED BY <1>1, <1>2, <1>4, <3>1, <3>2, <3>3, <3>4, <3>5, VolumeRemoved
  <2>6. StdioTypes'
    <3>1. fat' \in [Clusters -> 0..End]
      <4>1. fat \in [Clusters -> 0..End] /\ Unused \in 0..End
        BY <1>2, StdioConstants DEF StdioTypes, Unused, End
      <4> QED BY <2>1, <4>1 DEF AfterRemove
    <3>2. Gone \in [there : BOOLEAN, data : Seq(Values)]
      BY DEF Gone
    <3>3. expected' \in [Files -> [there : BOOLEAN, data : Seq(Values)]]
      BY <1>2, <2>1, <3>2 DEF StdioTypes
    <3> QED BY <1>1, <1>2, <2>3, <2>4, <3>1, <3>3 DEF StdioTypes
  <2> QED BY <2>4, <2>5, <2>6 DEF StdioInv
<1>6. CASE entries' = closed /\ fat' = fat /\ expected' = expected
  <2>1. entries' = closed /\ fat' = fat /\ expected' = expected
    BY <1>6
  <2> HIDE DEF closed
  <2>2. /\ \A t \in Streams : Streaming(t)'
        /\ \A m \in Files \ {name} : Views'[m] = Views[m]
        /\ Views'[name] = entries'[name]
        /\ fil' \in [Streams -> Fils] /\ stream' \in [Streams -> SlotStates]
        /\ turn' \in [Streams -> {"any", "read", "write"}]
        /\ origin' \in [Streams -> Nat] /\ heard' \in [Streams -> Seq(Values)]
    <3>1. \A t \in Streams \ {s} : fil[t].open /\ fil[t].name = name =>
              entries'[name] = entries[name] /\ expected'[name] = expected[name]
      BY <1>1, <1>3, <2>1, OthersRead
    <3>2. \A m \in Files \ {name} : entries'[m] = entries[m] /\ expected'[m] = expected[m]
      BY <1>3, <2>1
    <3> QED BY <1>1, <3>1, <3>2, SlotTypes, CloseFacts
  <2>3. Volume'
    <3>1. \A m \in Files : Views'[m] = Views[m] /\ expected'[m] = expected[m]
      BY <1>3, <2>1, <2>2
    <3> QED BY <1>1, <2>1, <3>1, VolumeSame DEF StdioInv
  <2>4. StdioTypes'
    BY <1>1, <1>2, <1>3, <2>1, <2>2 DEF StdioTypes
  <2> QED BY <2>2, <2>3, <2>4 DEF StdioInv
<1>7. CASE stream[s].temporary
  <2>1. UnlinkFile(name, closed)
    BY <1>7 DEF Fclose
  <2> HIDE DEF closed
  <2> QED BY <1>5, <1>6, <1>7, <2>1 DEF UnlinkFile
<1>8. CASE ~stream[s].temporary
  <2>1. entries' = closed /\ fat' = fat /\ expected' = expected
    BY <1>8 DEF Fclose
  <2> QED BY <1>6, <2>1
<1> QED BY <1>7, <1>8

LEMMA FcloseFailsKeeps ==
    ASSUME StdioInv, NEW s \in Streams, FcloseFails(s)
    PROVE  StdioInv'
<1>1. /\ stream' = [stream EXCEPT ![s] = FreeSlot] /\ fil' = [fil EXCEPT ![s] = NoFil]
      /\ SetPosition(s, 0) /\ cells' = cells /\ fat' = fat
  BY DEF FcloseFails
<1>2. StdioTypes /\ Volume
  BY DEF StdioInv
<1>3. CASE fil[s].open
  <2> DEFINE closed == AfterClose(entries, fil[s])
             name == fil[s].name
             w == entries'[name]
             old == Views[name]
  <2>1. /\ entries' \in {entries, closed}
        /\ expected' = [expected EXCEPT ![name] = Holding(Content(w))]
    BY <1>3 DEF FcloseFails
  <2>2. OnFile(s) /\ name \in Files /\ old = [first |-> fil[s].first, size |-> fil[s].size]
        /\ old # NoEntry /\ expected[name] = Holding(expected[name].data)
        /\ ContentIn(fat, cells, old) = expected[name].data
    BY <1>3, HeldFile DEF StdioInv, Streaming
  <2>3. /\ closed \in [Files -> FileEntries \union {NoEntry}]
        /\ \A m \in Files \ {name} : closed[m] = entries[m]
        /\ closed[name] = old /\ closed[name] \in FileEntries
        /\ ~fil[s].modified => closed = entries
    BY <1>3, ClosedEntry
  <2>4. w \in FileEntries /\ ((w.first = old.first /\ w.size <= old.size) \/ w = NoData)
    <3>1. entries[name] \in FileEntries
      BY <1>2, <2>2 DEF StdioTypes, OnFile
    <3>2. \/ entries[name].first = old.first /\ entries[name].size <= old.size
          \/ entries[name] = NoData
      <4>1. CASE fil[s].writes
        BY <2>2, <4>1 DEF OnFile
      <4>2. CASE ~fil[s].writes
        <5>1. closed = entries
          BY <2>2, <2>3, <4>2 DEF OnFile
        <5>2. entries[name].size <= entries[name].size
          BY <3>1 DEF FileEntries
        <5> QED BY <2>3, <5>1, <5>2
      <4> QED BY <4>1, <4>2
    <3>3. CASE entries' = entries
      BY <3>1, <3>2, <3>3
    <3>4. CASE entries' = closed
      <4>1. old.size <= old.size
        BY <2>3 DEF FileEntries
      <4> HIDE DEF closed, old
      <4> QED BY <2>3, <3>4, <4>1
    <3> QED BY <2>1, <3>3, <3>4
  <2>5. Content(w) = ContentIn(fat, cells, w)
    BY DEF Content, ContentIn, Nth, NthIn
  <2>6. /\ entries' \in [Files -> FileEntries \union {NoEntry}]
        /\ \A m \in Files \ {name} : entries'[m] = entries[m]
        /\ ~fil[s].modified => entries' = entries /\ w = old
    <3> HIDE DEF closed
    <3> QED BY <1>2, <2>1, <2>3 DEF StdioTypes
  <2> HIDE DEF closed, w, old
  <2>7. /\ \A m \in Files \ {name} : expected'[m] = expected[m]
        /\ expected'[name] = Holding(ContentIn(fat, cells, w))
    BY <1>2, <2>1, <2>2, <2>5 DEF StdioTypes
  <2>8. ~fil[s].modified => expected'[name] = expected[name]
    BY <2>2, <2>6, <2>7
  <2>9. /\ \A t \in Streams : Streaming(t)'
        /\ \A m \in Files \ {name} : Views'[m] = Views[m]
        /\ Views'[name] = entries'[name]
        /\ fil' \in [Streams -> Fils] /\ stream' \in [Streams -> SlotStates]
        /\ turn' \in [Streams -> {"any", "read", "write"}]
        /\ origin' \in [Streams -> Nat] /\ heard' \in [Streams -> Seq(Values)]
    <3>1. \A t \in Streams \ {s} : fil[t].open /\ fil[t].name = name =>
              entries'[name] = entries[name] /\ expected'[name] = expected[name]
      BY <1>3, <2>6, <2>8, OthersRead
    <3>2. \A m \in Files \ {name} : entries'[m] = entries[m] /\ expected'[m] = expected[m]
      BY <2>6, <2>7
    <3> QED BY <1>1, <1>3, <3>1, <3>2, SlotTypes, CloseFacts
  <2>10. Volume'
    <3>1. \A m \in Files \ {name} : Views'[m] = Views[m] /\ expected'[m] = expected[m]
      BY <2>7, <2>9
    <3>2. Views'[name] = w
      BY <2>9 DEF w
    <3> QED BY <1>1, <1>2, <2>2, <2>4, <2>7, <3>1, <3>2, VolumeShorter DEF old
  <2>11. StdioTypes'
    <3>1. expected' \in [Files -> [there : BOOLEAN, data : Seq(Values)]]
      <4>1. PICK chains : Laid(chains, Views', fat', cells', expected')
        BY <2>10 DEF Volume
      <4>2. Views'[name] # NoEntry
        BY <2>4, <2>9 DEF w, FileEntries, NoEntry
      <4>3. expected'[name].data \in Seq(Values)
        BY <2>2, <4>1, <4>2 DEF Laid, FileSound, Stores
      <4>4. expected'[name] \in [there : BOOLEAN, data : Seq(Values)]
        BY <2>7, <4>3 DEF Holding
      <4> QED BY <1>2, <2>1, <2>2, <4>4 DEF StdioTypes
    <3> QED BY <1>1, <1>2, <2>6, <2>9, <3>1 DEF StdioTypes
  <2> QED BY <2>9, <2>10, <2>11 DEF StdioInv
<1>4. CASE ~fil[s].open
  <2>1. entries' = entries /\ expected' = expected
    BY <1>4 DEF FcloseFails
  <2>2. /\ turn' = [turn EXCEPT ![s] = "any"] /\ origin' = [origin EXCEPT ![s] = 0]
        /\ heard' = [heard EXCEPT ![s] = <<>>]
    BY <1>1 DEF SetPosition
  <2>3. NoFil \in Fils /\ ~NoFil.open
    BY StdioConstants DEF NoFil, Fils, NoCluster
  <2>4. StdioTypes'
    BY <1>1, <1>2, <2>1, <2>2, <2>3, SlotTypes DEF StdioTypes
  <2>5. fil'[s] = NoFil /\ heard'[s] = <<>> /\ \A t \in Streams \ {s} : fil'[t] = fil[t]
    BY <1>1, <1>2, <2>2 DEF StdioTypes
  <2>6. \A t \in Streams : Streaming(t)'
    <3> DEFINE T == {s}
    <3>1. \A t \in Streams : Streaming(t)
      BY DEF StdioInv
    <3>2. \A t \in Streams \ T :
              /\ fil'[t] = fil[t] /\ stream'[t] = stream[t] /\ turn'[t] = turn[t]
              /\ origin'[t] = origin[t] /\ heard'[t] = heard[t]
      BY <1>1, <1>2, <2>2, <2>5 DEF StdioTypes
    <3>3. \A t \in T : fil'[t].open => fil'[t].name \in {}
      BY <2>3, <2>5
    <3>4. \A t \in Streams \ T : Streaming(t)'
      <4> HIDE DEF T
      <4> QED BY <2>1, <3>1, <3>2, <3>3, OthersKeep
    <3>5. Streaming(s)'
      BY <2>3, <2>5 DEF Streaming
    <3> QED BY <3>4, <3>5
  <2>7. \A m \in Files : Views'[m] = Views[m]
    <3> SUFFICES ASSUME NEW m \in Files PROVE Views'[m] = Views[m]
      OBVIOUS
    <3>1. \A t \in Streams :
              \/ fil'[t] = fil[t]
              \/ (fil[t].open => fil[t].name # m) /\ (fil'[t].open => fil'[t].name # m)
      BY <1>4, <2>3, <2>5
    <3>2. ViewIn(entries', fil', m) = ViewIn(entries, fil, m)
      BY <2>1, <3>1, ViewSame
    <3> QED BY <3>2, ViewsAre
  <2>8. Volume'
    BY <1>1, <1>2, <2>1, <2>7, VolumeSame
  <2> QED BY <2>4, <2>6, <2>8 DEF StdioInv
<1> QED BY <1>3, <1>4

LEMMA FreopenKeeps ==
    ASSUME StdioInv, NEW s \in Streams, NEW m \in Modes, Freopen(s, m)
    PROVE  StdioInv'
<1> DEFINE closed == AfterClose(entries, fil[s])
           name == fil[s].name
<1>1. /\ fil[s].open /\ Holders(name) = {s}
      /\ \/ OpenInto(s, name, m, FALSE, closed)
         \/ /\ entries' \in {entries, closed}
            /\ UNCHANGED <<fat, cells, fil, stream, turnVars, expected>>
         \/ /\ entries' = closed /\ fil' = [fil EXCEPT ![s] = NoFil]
            /\ stream' = [stream EXCEPT ![s] = UsedSlot(FALSE, FALSE)]
            /\ SetPosition(s, 0) /\ fat' = fat /\ cells' = cells /\ expected' = expected
  BY DEF Freopen
<1>2. StdioTypes /\ OnFile(s) /\ name \in Files
  BY <1>1, HeldFile DEF StdioInv, Streaming
<1>3. /\ closed \in [Files -> FileEntries \union {NoEntry}]
      /\ \A n \in Files \ {name} : closed[n] = entries[n]
      /\ closed[name] = Views[name] /\ closed[name] \in FileEntries
      /\ ~fil[s].modified => closed = entries
  BY <1>1, ClosedEntry
<1>4. Alone(s, name)
  BY <1>1 DEF Holders, Alone
<1> HIDE DEF closed
<1>5. CASE OpenInto(s, name, m, FALSE, closed)
  <2>1. Present(name)
    BY <1>2 DEF OnFile, Present
  <2>2. \A t \in Streams \ {s} : fil[t].open /\ fil[t].name = name =>
           ~m.writes /\ ~fil[t].writes /\ closed[name] = entries[name]
    BY <1>4 DEF Alone
  <2> QED BY <1>2, <1>3, <1>5, <2>1, <2>2, OpenKeeps
<1>6. CASE /\ entries' = closed /\ fil' = [fil EXCEPT ![s] = NoFil]
           /\ stream' = [stream EXCEPT ![s] = UsedSlot(FALSE, FALSE)]
           /\ SetPosition(s, 0) /\ fat' = fat /\ cells' = cells /\ expected' = expected
  <2>1. /\ \A t \in Streams : Streaming(t)'
        /\ \A n \in Files \ {name} : Views'[n] = Views[n]
        /\ Views'[name] = entries'[name]
        /\ fil' \in [Streams -> Fils] /\ stream' \in [Streams -> SlotStates]
        /\ turn' \in [Streams -> {"any", "read", "write"}]
        /\ origin' \in [Streams -> Nat] /\ heard' \in [Streams -> Seq(Values)]
    <3>1. \A t \in Streams \ {s} : fil[t].open /\ fil[t].name = name =>
              entries'[name] = entries[name] /\ expected'[name] = expected[name]
      BY <1>4 DEF Alone
    <3>2. \A n \in Files \ {name} : entries'[n] = entries[n] /\ expected'[n] = expected[n]
      BY <1>3, <1>6
    <3> QED BY <1>1, <1>6, <3>1, <3>2, SlotTypes, CloseFacts
  <2>2. Volume'
    <3>1. \A n \in Files : Views'[n] = Views[n] /\ expected'[n] = expected[n]
      BY <1>3, <1>6, <2>1
    <3> QED BY <1>6, <3>1, VolumeSame DEF StdioInv
  <2>3. StdioTypes'
    BY <1>2, <1>3, <1>6, <2>1 DEF StdioTypes
  <2> QED BY <2>1, <2>2, <2>3 DEF StdioInv
<1>7. CASE /\ entries' \in {entries, closed}
           /\ UNCHANGED <<fat, cells, fil, stream, turnVars, expected>>
  <2>1. entries[name] # NoEntry /\ entries \in [Files -> FileEntries \union {NoEntry}]
    BY <1>2 DEF OnFile, StdioTypes
  <2>2. Views[name] = [first |-> fil[s].first, size |-> fil[s].size]
    BY <1>1, HeldFile
  <2>3. /\ entries' \in [Files -> FileEntries \union {NoEntry}]
        /\ \A n \in Files \ {name} : entries'[n] = entries[n]
        /\ entries'[name] = entries[name]
             \/ (entries'[name] = Views[name] /\ entries'[name] # NoEntry)
        /\ ~fil[s].modified => entries' = entries
    BY <1>3, <1>7, <2>1 DEF FileEntries, NoEntry
  <2>4. OnFile(s)'
    <3>1. entries'[name] # NoEntry
      BY <2>1, <2>3
    <3>2. entries'[name] = entries[name] \/
            (entries'[name].first = fil[s].first /\ entries'[name].size = fil[s].size)
      BY <2>2, <2>3
    <3>3. fil[s].size <= fil[s].size
      BY <1>2 DEF StdioTypes, Fils
    <3> QED BY <1>2, <1>7, <2>3, <3>1, <3>2, <3>3 DEF OnFile
  <2>5. \A t \in Streams : Streaming(t)'
    <3> DEFINE T == {s}
               N == {name}
    <3>1. \A t \in Streams : Streaming(t)
      BY DEF StdioInv
    <3>2. /\ \A t \in Streams \ T :
               /\ fil'[t] = fil[t] /\ stream'[t] = stream[t] /\ turn'[t] = turn[t]
               /\ origin'[t] = origin[t] /\ heard'[t] = heard[t]
          /\ \A t \in T : fil'[t].open => fil'[t].name \in N
          /\ \A n \in Files \ N : entries'[n] = entries[n] /\ expected'[n] = expected[n]
          /\ \A t \in Streams \ T : ~(fil[t].open /\ fil[t].name \in N)
      BY <1>4, <1>7, <2>3 DEF Alone, turnVars
    <3>3. \A t \in Streams \ T : Streaming(t)'
      <4> HIDE DEF T, N
      <4> QED BY <3>1, <3>2, OthersKeep
    <3>4. Reading(s) /\ Reading(s)'
      <4>1. Reading(s)
        BY <1>1, <3>1 DEF Streaming
      <4> QED BY <1>7, <4>1 DEF Reading, turnVars
    <3>5. Streaming(s)'
      BY <1>1, <1>7, <2>4, <3>4 DEF Streaming
    <3> QED BY <3>3, <3>5
  <2>6. \A n \in Files : Views'[n] = Views[n]
    <3> SUFFICES ASSUME NEW n \in Files PROVE Views'[n] = Views[n]
      OBVIOUS
    <3>1. CASE entries'[n] = entries[n]
      <4>1. ViewIn(entries', fil', n) = ViewIn(entries, fil, n)
        BY <1>7, <3>1, ViewSame
      <4> QED BY <4>1, ViewsAre
    <3>2. CASE entries'[n] # entries[n]
      <4>1. n = name /\ fil[s].modified
        BY <2>3, <3>2
      <4>2. fil[s].writes
        BY <1>2, <4>1 DEF OnFile
      <4>3. \A t \in Streams \ {s} : fil'[t].open => fil'[t].name # fil'[s].name
        BY <1>4, <1>7 DEF Alone
      <4>4. ViewIn(entries', fil', fil'[s].name) = [first |-> fil'[s].first, size |-> fil'[s].size]
        BY <1>1, <1>7, <4>2, <4>3, ViewWriter
      <4> QED BY <1>7, <2>2, <4>1, <4>4, ViewsAre
    <3> QED BY <3>1, <3>2
  <2>7. Volume'
    BY <1>7, <2>6, VolumeSame DEF StdioInv
  <2>8. StdioTypes'
    BY <1>2, <1>7, <2>3 DEF StdioTypes, turnVars
  <2> QED BY <2>5, <2>7, <2>8 DEF StdioInv
<1> QED BY <1>1, <1>5, <1>6, <1>7

LEMMA FopenKeeps ==
    ASSUME StdioInv, NEW name \in Files, NEW m \in Modes, Fopen(name, m)
    PROVE  StdioInv'
<1>1. PICK s \in AllocFile : OpenInto(s, name, m, FALSE, entries)
  BY DEF Fopen
<1>2. MayOpen(name, m) /\ (Present(name) \/ Creates(m))
  BY DEF Fopen
<1>3. s \in Streams /\ ~fil[s].open
  <2>1. s \in Streams /\ ~stream[s].used
    BY DEF AllocFile
  <2> QED BY <2>1 DEF StdioInv, Streaming, OnFile
<1>4. \A t \in Streams : fil[t].open /\ fil[t].name = name => ~m.writes /\ ~fil[t].writes
  BY <1>2 DEF MayOpen, Holders, Writers
<1>5. entries[name] = Views[name]
  BY <1>4, ViewPresent
<1>6. entries \in [Files -> FileEntries \union {NoEntry}]
  BY DEF StdioInv, StdioTypes
<1> QED BY <1>1, <1>2, <1>3, <1>4, <1>5, <1>6, OpenKeeps

LEMMA TmpfileKeeps ==
    ASSUME StdioInv, Tmpfile
    PROVE  StdioInv'
<1> DEFINE m == [reads |-> TRUE, writes |-> TRUE, truncate |-> TRUE, append |-> FALSE]
<1>1. PICK s \in AllocFile : OpenInto(s, Temporary, m, TRUE, entries)
  BY DEF Tmpfile
<1>2. MayOpen(Temporary, m) /\ Creates(m) /\ Temporary \in Files
  BY StdioConstants DEF Tmpfile, Creates
<1>3. m \in Modes /\ m.writes
  <2>1. PICK k \in {"r", "w", "a"}, plus \in BOOLEAN : k = "w" /\ plus
    OBVIOUS
  <2> DEFINE reads == k = "r" \/ plus
             writes == k # "r" \/ plus
             truncate == k = "w"
             append == k = "a"
             mode == [reads |-> reads, writes |-> writes, truncate |-> truncate,
                      append |-> append]
  <2>2. mode \in Modes
    BY ONLY k \in {"r", "w", "a"}, plus \in BOOLEAN DEF Modes
  <2>3. reads = TRUE /\ writes = TRUE /\ truncate = TRUE /\ append = FALSE
    BY <2>1
  <2> HIDE DEF reads, writes, truncate, append
  <2>4. m = mode
    BY <2>3
  <2>5. m.writes
    OBVIOUS
  <2> HIDE DEF m, mode
  <2> QED BY <2>2, <2>4, <2>5
<1> HIDE DEF m
<1>4. s \in Streams /\ ~fil[s].open
  <2>1. s \in Streams /\ ~stream[s].used
    BY DEF AllocFile
  <2> QED BY <2>1 DEF StdioInv, Streaming, OnFile
<1>5. \A t \in Streams : fil[t].open => fil[t].name # Temporary
  BY <1>2, <1>3 DEF MayOpen, Holders
<1>6. entries[Temporary] = Views[Temporary]
  BY <1>2, <1>5, ViewPresent
<1>7. entries \in [Files -> FileEntries \union {NoEntry}]
  BY DEF StdioInv, StdioTypes
<1> QED BY <1>1, <1>2, <1>3, <1>4, <1>5, <1>6, <1>7, OpenKeeps

-----------------------------------------------------------------------------
\* A step of s that only moves its position.
LEMMA StreamMoves ==
    ASSUME StdioInv, NEW s \in Streams, fil[s].open, NEW p \in Nat, p <= fil[s].size,
           fil' = [fil EXCEPT ![s] = [fil[s] EXCEPT !.at = p]],
           OnlyStream(s), stream'[s].used, stream'[s].temporary = stream[s].temporary,
           entries' = entries, fat' = fat, cells' = cells, expected' = expected
    PROVE  /\ \A t \in Streams \ {s} : Streaming(t)'
           /\ Volume' /\ OnFile(s)' /\ fil' \in [Streams -> Fils]
           /\ fil'[s].open /\ fil'[s].at = p /\ fil'[s].size = fil[s].size
           /\ fil'[s].name = fil[s].name
<1> DEFINE f == fil[s]
           g == [f EXCEPT !.at = p]
           name == f.name
<1>1. StdioTypes /\ OnFile(s) /\ f \in Fils /\ name \in Files
      /\ Views[name] = [first |-> f.first, size |-> f.size]
  BY HeldFile DEF StdioInv, Streaming
<1>2. fil'[s] = g
  BY <1>1 DEF StdioTypes
<1>3. /\ g \in Fils /\ g.open = f.open /\ g.name = f.name /\ g.first = f.first /\ g.size = f.size
      /\ g.at = p /\ g.reads = f.reads /\ g.writes = f.writes /\ g.modified = f.modified
  <2> HIDE DEF f
  <2> QED BY <1>1 DEF Fils
<1> HIDE DEF g
<1>4. OnlyFile(name)
  BY DEF OnlyFile
<1>5. /\ \A t \in Streams \ {s} : Streaming(t)'
      /\ \A m \in Files \ {name} : Views'[m] = Views[m]
      /\ Alone(s, name) /\ fil'[s].open /\ fil'[s].writes =>
            Views'[name] = [first |-> fil'[s].first, size |-> fil'[s].size]
      /\ ~(fil'[s].open /\ fil'[s].writes) => Views'[name] = entries'[name]
  <2>1. ASSUME NEW t \in Streams \ {s}, fil[t].open, fil[t].name = name
        PROVE  /\ ~fil[t].writes
               /\ entries'[name] = entries[name] /\ expected'[name] = expected[name]
    BY <2>1, OthersRead
  <2>2. fil[s].open => fil[s].name = name
    OBVIOUS
  <2>3. fil'[s].open => fil'[s].name = name
    BY <1>2, <1>3
  <2> HIDE DEF name
  <2> QED BY <1>1, <1>4, <2>1, <2>2, <2>3, OneStream
<1>6. Views'[name] = Views[name]
  <2>1. CASE f.writes
    <3>1. Alone(s, name)
      BY <1>1, <2>1 DEF OnFile, Alone
    <3>2. Views'[name] = [first |-> g.first, size |-> g.size]
      BY <1>2, <1>3, <1>5, <2>1, <3>1
    <3> QED BY <1>1, <1>3, <3>2
  <2>2. CASE ~f.writes
    <3>1. Views'[name] = entries[name]
      BY <1>2, <1>3, <1>5, <2>2
    <3>2. \A t \in Streams : fil[t].open /\ fil[t].name = name => ~fil[t].writes
      BY <2>2, OthersRead
    <3>3. Views[name] = entries[name]
      BY <1>1, <3>2, ViewPresent
    <3> QED BY <3>1, <3>3
  <2> QED BY <2>1, <2>2
<1>7. Volume'
  <2>1. \A m \in Files : Views'[m] = Views[m] /\ expected'[m] = expected[m]
    BY <1>5, <1>6
  <2> QED BY <2>1, VolumeSame DEF StdioInv
<1>8. OnFile(s)'
  <2>1. \A t \in Streams \ {s} : fil'[t] = fil[t]
    BY DEF OnlyStream
  <2>2. p <= f.size
    OBVIOUS
  <2> HIDE DEF f
  <2>3. f.writes => \A t \in Streams \ {s} : fil'[t].open => fil'[t].name # name
    BY <1>1, <2>1 DEF OnFile, f
  <2>4. stream'[s].temporary => g.writes
    BY <1>1, <1>3 DEF OnFile, f
  <2>5. /\ g.writes => /\ entries'[name].first = g.first \/ entries'[name] = NoData
                       /\ entries'[name].size <= g.size
        /\ ~g.modified => entries'[name].first = g.first /\ entries'[name].size = g.size
        /\ g.modified => g.writes
        /\ entries'[name] # NoEntry
    BY <1>1, <1>3 DEF OnFile, f
  <2> QED BY <1>1, <1>2, <1>3, <2>2, <2>3, <2>4, <2>5 DEF OnFile
<1>9. fil' \in [Streams -> Fils]
  BY <1>1, <1>3 DEF StdioTypes, g
<1> QED BY <1>2, <1>3, <1>5, <1>7, <1>8, <1>9

\* Two parts of a file, one behind the other.
IsRead(data, from, h) ==
    /\ from \in Nat /\ h \in Seq(Values)
    /\ \A i \in 1..Len(h) : h[i] = data[from + i]
LEMMA JoinReads ==
    ASSUME NEW data, NEW from, NEW h, NEW p, IsRead(data, from, h), IsRead(data, from + Len(h), p)
    PROVE  IsRead(data, from, h \o p) /\ Len(h \o p) = Len(h) + Len(p)
<1> DEFINE r == h \o p
<1>0. /\ from \in Nat /\ h \in Seq(Values) /\ p \in Seq(Values)
      /\ \A i \in 1..Len(h) : h[i] = data[from + i]
      /\ \A i \in 1..Len(p) : p[i] = data[(from + Len(h)) + i]
  BY DEF IsRead
<1>1. Len(h) \in Nat /\ Len(p) \in Nat
  BY <1>0
<1>2. /\ r \in Seq(Values) /\ Len(r) = Len(h) + Len(p)
      /\ \A i \in 1..Len(r) : r[i] = IF i <= Len(h) THEN h[i] ELSE p[i - Len(h)]
  BY <1>0
<1> HIDE DEF r
<1>3. ASSUME NEW i \in 1..Len(r) PROVE r[i] = data[from + i]
  <2>1. CASE i <= Len(h)
    BY <1>0, <1>1, <1>2, <2>1
  <2>2. CASE ~(i <= Len(h))
    <3>1. i - Len(h) \in 1..Len(p) /\ (from + Len(h)) + (i - Len(h)) = from + i
      BY <1>0, <1>1, <1>2, <2>2
    <3> QED BY <1>0, <1>2, <2>2, <3>1
  <2> QED BY <2>1, <2>2
<1> QED BY <1>0, <1>2, <1>3 DEF r, IsRead

LEMMA SubSeqIs ==
    ASSUME NEW D, NEW data \in Seq(D), NEW from \in Nat, NEW n \in Nat, from + n <= Len(data)
    PROVE  LET part == SubSeq(data, from + 1, from + n) IN
           /\ part \in Seq(D) /\ Len(part) = n
           /\ \A i \in 1..Len(part) : part[i] = data[from + i]
<1> DEFINE part == SubSeq(data, from + 1, from + n)
<1>1. part = [i \in 1..n |-> data[from + i]]
  OBVIOUS
<1>2. \A i \in 1..n : data[from + i] \in D
  OBVIOUS
<1> HIDE DEF part
<1>3. part \in [1..n -> D]
  BY <1>1, <1>2
<1>4. part \in Seq(D) /\ Len(part) = n
  BY <1>3
<1> QED BY <1>1, <1>4 DEF part

LEMMA FreadKeeps ==
    ASSUME StdioInv, NEW s \in Streams, NEW n \in 1..2, Fread(s, n)
    PROVE  StdioInv'
<1> DEFINE f == fil[s]
           pushed == IF stream[s].pushed = None THEN <<>> ELSE <<stream[s].pushed>>
           wanted == n - Len(pushed)
           more == IF f.size - f.at < wanted THEN f.size - f.at ELSE wanted
           data == expected[f.name].data
           here == origin[s] + Len(heard[s])
           h == heard[s]
<1>1. /\ stream[s].used /\ f.open /\ turn[s] \in {"any", "read"}
      /\ turn' = [turn EXCEPT ![s] = "read"]
      /\ entries' = entries /\ fat' = fat /\ cells' = cells /\ origin' = origin
      /\ expected' = expected
  BY DEF Fread, Turn
<1>2. \/ /\ fil' = [fil EXCEPT ![s].at = @ + more]
         /\ heard' = [heard EXCEPT ![s] =
                        @ \o pushed \o SubSeq(Content(f), f.at + 1, f.at + more)]
         /\ stream' = [stream EXCEPT ![s].pushed = None, ![s].eof = @ \/ more < wanted]
      \/ /\ heard' = [heard EXCEPT ![s] = @ \o pushed]
         /\ stream' = [stream EXCEPT ![s].pushed = None] /\ fil' = fil
  BY DEF Fread
<1>3. StdioTypes /\ OnFile(s) /\ Reading(s)
  BY <1>1 DEF StdioInv, Streaming
<1>4. /\ f \in Fils /\ f.at \in Nat /\ f.size \in Nat /\ f.at <= f.size
      /\ data \in Seq(Values) /\ Len(data) = f.size /\ Content(f) = data
  <2>1. /\ f \in Fils /\ data \in Seq(Values) /\ Len(data) = f.size
        /\ ContentIn(fat, cells, f) = data
    BY <1>1, HeldFile
  <2>2. Content(f) = data
    BY <2>1 DEF Content, ContentIn, Nth, NthIn
  <2>3. f.at \in Nat /\ f.size \in Nat /\ f.at <= f.size
    BY <1>3, <2>1 DEF Fils, OnFile
  <2> QED BY <2>1, <2>2, <2>3
<1>5. /\ h \in Seq(Values) /\ Len(h) \in Nat /\ origin[s] \in Nat
      /\ pushed \in Seq(Values) /\ Len(pushed) \in {0, 1}
      /\ \A i \in 1..Len(h) : h[i] = data[origin[s] + i]
      /\ \A i \in 1..Len(pushed) : pushed[i] = data[origin[s] + Len(h) + i]
      /\ f.at = here + Len(pushed) /\ here \in Nat
      /\ stream[s].eof => here = f.size
  <2>1. h \in Seq(Values) /\ Len(h) \in Nat /\ origin[s] \in Nat /\ here \in Nat
    BY <1>3 DEF StdioTypes
  <2>2. /\ f.at = here + (IF stream[s].pushed = None THEN 0 ELSE 1)
        /\ \A i \in 1..Len(h) : h[i] = data[origin[s] + i]
        /\ stream[s].pushed # None => stream[s].pushed = data[here + 1]
        /\ stream[s].eof => here = f.size
    BY <1>1, <1>3 DEF Reading
  <2>3. CASE stream[s].pushed = None
    <3>1. pushed = <<>>
      BY <2>3
    <3> HIDE DEF pushed
    <3>2. pushed \in Seq(Values) /\ Len(pushed) = 0 /\ 1..Len(pushed) = {}
      BY <3>1
    <3> HIDE DEF data, f
    <3> QED BY <2>1, <2>2, <2>3, <3>2
  <2>4. CASE stream[s].pushed # None
    <3>1. pushed = <<stream[s].pushed>>
      BY <2>4
    <3>2. stream[s].pushed \in Values
      BY <1>3, <2>4 DEF StdioTypes, SlotStates
    <3> HIDE DEF pushed
    <3>3. pushed \in Seq(Values) /\ Len(pushed) = 1 /\ pushed[1] = stream[s].pushed
      BY <3>1, <3>2
    <3>4. \A i \in 1..Len(pushed) : pushed[i] = data[origin[s] + Len(h) + i]
      BY <2>2, <2>4, <3>3
    <3> HIDE DEF data, f
    <3> QED BY <2>1, <2>2, <2>4, <3>3, <3>4
  <2> QED BY <2>3, <2>4
<1> HIDE DEF f, pushed, data
<1> DEFINE both == h \o pushed
<1>6. /\ both \in Seq(Values) /\ Len(both) = Len(h) + Len(pushed)
      /\ \A i \in 1..Len(both) : both[i] = data[origin[s] + i]
  <2>1. IsRead(data, origin[s], h)
    BY <1>5 DEF IsRead
  <2>2. IsRead(data, origin[s] + Len(h), pushed)
    <3>1. origin[s] + Len(h) \in Nat
      BY <1>5
    <3> QED BY <1>5, <3>1 DEF IsRead
  <2> HIDE DEF h
  <2>3. IsRead(data, origin[s], h \o pushed) /\ Len(h \o pushed) = Len(h) + Len(pushed)
    BY <2>1, <2>2, JoinReads
  <2> QED BY <2>3 DEF IsRead
<1>7. OnlyStream(s)
  BY <1>1, <1>2, <1>3 DEF OnlyStream, StdioTypes
<1>8. stream' \in [Streams -> SlotStates] /\ stream'[s].used
      /\ stream'[s].temporary = stream[s].temporary /\ stream'[s].pushed = None
  <2>1. stream[s] \in SlotStates /\ stream \in [Streams -> SlotStates]
    BY <1>3 DEF StdioTypes
  <2>2. CASE stream' = [stream EXCEPT ![s].pushed = None]
    <3>1. stream'[s] = [stream[s] EXCEPT !.pushed = None]
      BY <2>1, <2>2
    <3> QED BY <1>1, <2>1, <2>2, <3>1 DEF SlotStates
  <2>3. CASE stream' = [stream EXCEPT ![s].pushed = None, ![s].eof = @ \/ more < wanted]
    <3>1. PICK e \in BOOLEAN : e = (stream[s].eof \/ more < wanted)
      OBVIOUS
    <3>2. stream' = [stream EXCEPT ![s] = [stream[s] EXCEPT !.pushed = None, !.eof = e]]
      BY <2>1, <2>3, <3>1
    <3>3. stream'[s] = [stream[s] EXCEPT !.pushed = None, !.eof = e]
      BY <2>1, <3>2
    <3>4. stream'[s] \in SlotStates
      BY <2>1, <3>3 DEF SlotStates
    <3> QED BY <1>1, <2>1, <3>2, <3>3, <3>4 DEF SlotStates
  <2> QED BY <1>2, <2>2, <2>3
<1>9. turn'[s] = "read" /\ turn' \in [Streams -> {"any", "read", "write"}] /\ origin'[s] = origin[s]
  BY <1>1, <1>3 DEF StdioTypes
<1>10. CASE /\ fil' = [fil EXCEPT ![s].at = @ + more]
            /\ heard' = [heard EXCEPT ![s] =
                           @ \o pushed \o SubSeq(Content(f), f.at + 1, f.at + more)]
            /\ stream' = [stream EXCEPT ![s].pushed = None, ![s].eof = @ \/ more < wanted]
  <2>1. /\ wanted \in Nat /\ more \in Nat /\ f.at + more <= f.size
        /\ (more < wanted => f.at + more = f.size)
    <3>1. wanted \in Nat
      BY <1>5
    <3>2. f.at \in Nat /\ f.size \in Nat /\ f.at <= f.size
      BY <1>4
    <3>3. more = IF f.size - f.at < wanted THEN f.size - f.at ELSE wanted
      OBVIOUS
    <3> HIDE DEF wanted, more
    <3> QED BY ONLY <3>1, <3>2, <3>3
  <2> HIDE DEF more, wanted
  <2> DEFINE part == SubSeq(data, f.at + 1, f.at + more)
  <2>2. /\ part \in Seq(Values) /\ Len(part) = more
        /\ \A i \in 1..Len(part) : part[i] = data[f.at + i]
    <3>1. data \in Seq(Values) /\ f.at \in Nat /\ more \in Nat /\ f.at + more <= Len(data)
      BY <1>4, <2>1
    <3> QED BY ONLY <3>1, SubSeqIs
  <2> DEFINE all == both \o part
  <2>3. heard' = [heard EXCEPT ![s] = all] /\ heard'[s] = all
    BY <1>3, <1>4, <1>10 DEF StdioTypes
  <2> HIDE DEF part
  <2>4. /\ all \in Seq(Values) /\ Len(all) = Len(h) + Len(pushed) + more
        /\ \A i \in 1..Len(all) : all[i] = data[origin[s] + i]
    <3>1. IsRead(data, origin[s], both)
      BY <1>5, <1>6 DEF IsRead
    <3>2. IsRead(data, origin[s] + Len(both), part)
      <4>1. origin[s] + Len(both) = f.at /\ f.at \in Nat
        BY <1>4, <1>5, <1>6
      <4> QED BY <2>2, <4>1 DEF IsRead
    <3> HIDE DEF both
    <3>3. IsRead(data, origin[s], both \o part) /\ Len(both \o part) = Len(both) + Len(part)
      BY <3>1, <3>2, JoinReads
    <3>4. IsRead(data, origin[s], all) /\ Len(all) = Len(both) + Len(part)
      BY <3>3
    <3> HIDE DEF all, both
    <3> QED BY <1>6, <2>2, <3>4 DEF IsRead
  <2> HIDE DEF all, both
  <2>5. /\ \A t \in Streams \ {s} : Streaming(t)'
        /\ Volume' /\ OnFile(s)' /\ fil' \in [Streams -> Fils]
        /\ fil'[s].open /\ fil'[s].at = f.at + more /\ fil'[s].size = f.size
        /\ fil'[s].name = f.name
    <3>1. fil' = [fil EXCEPT ![s] = [fil[s] EXCEPT !.at = f.at + more]]
      BY <1>10 DEF f
    <3>2. f.at + more \in Nat
      BY <1>4, <2>1
    <3> QED BY <1>1, <1>7, <1>8, <2>1, <3>1, <3>2, StreamMoves DEF f
  <2>6. stream'[s].eof => stream[s].eof \/ more < wanted
    <3>1. stream[s] \in SlotStates /\ stream \in [Streams -> SlotStates]
      BY <1>3 DEF StdioTypes
    <3>2. PICK e \in BOOLEAN : e = (stream[s].eof \/ more < wanted)
      OBVIOUS
    <3>3. stream'[s] = [stream[s] EXCEPT !.pushed = None, !.eof = e]
      BY <1>10, <3>1, <3>2
    <3>4. stream'[s].eof = e
      BY <3>1, <3>3 DEF SlotStates
    <3> QED BY <3>2, <3>4
  <2>7. Reading(s)'
    <3>0. /\ f.at = origin[s] + Len(h) + Len(pushed) /\ Len(pushed) \in {0, 1} /\ Len(h) \in Nat
          /\ origin[s] \in Nat /\ more \in Nat
      BY <1>5, <2>1
    <3>1. fil'[s].at = origin'[s] + Len(heard'[s])
      <4>1. fil'[s].at = f.at + more /\ Len(heard'[s]) = Len(h) + Len(pushed) + more
        BY <2>3, <2>4, <2>5
      <4> HIDE DEF h
      <4> QED BY <1>9, <3>0, <4>1
    <3>2. \A i \in 1..Len(heard'[s]) : heard'[s][i] = expected'[fil'[s].name].data[origin'[s] + i]
      BY <1>1, <1>9, <2>3, <2>4, <2>5 DEF data
    <3>3. stream'[s].eof => origin'[s] + Len(heard'[s]) = fil'[s].size
      <4>1. CASE more < wanted
        BY <1>4, <1>5, <1>9, <2>1, <2>3, <2>4, <2>5, <4>1
      <4>2. CASE stream[s].eof
        BY <1>4, <1>5, <1>9, <2>1, <2>3, <2>4, <2>5, <4>2
      <4> QED BY <2>6, <4>1, <4>2
    <3>4. fil'[s].at = origin'[s] + Len(heard'[s]) + 0
      BY <1>5, <1>9, <2>3, <2>4, <3>1
    <3> QED BY <1>8, <1>9, <3>2, <3>3, <3>4 DEF Reading
  <2>8. Streaming(s)'
    BY <2>5, <2>7 DEF Streaming
  <2>9. StdioTypes'
    <3>1. heard' \in [Streams -> Seq(Values)]
      BY <1>3, <2>3, <2>4 DEF StdioTypes
    <3> QED BY <1>1, <1>3, <1>8, <1>9, <2>5, <3>1 DEF StdioTypes
  <2> QED BY <2>5, <2>8, <2>9 DEF StdioInv
<1>11. CASE /\ heard' = [heard EXCEPT ![s] = @ \o pushed]
            /\ stream' = [stream EXCEPT ![s].pushed = None] /\ fil' = fil
  <2>1. heard' = [heard EXCEPT ![s] = both] /\ heard'[s] = both
    BY <1>3, <1>11 DEF StdioTypes
  <2> HIDE DEF both
  <2>2. /\ \A t \in Streams \ {s} : Streaming(t)'
        /\ Volume' /\ OnFile(s)' /\ fil' \in [Streams -> Fils]
        /\ fil'[s].open /\ fil'[s].at = f.at /\ fil'[s].size = f.size
        /\ fil'[s].name = f.name
    <3>1. fil' = [fil EXCEPT ![s] = [fil[s] EXCEPT !.at = f.at]]
      <4>1. [f EXCEPT !.at = f.at] = f
        BY <1>4 DEF Fils
      <4>2. [fil EXCEPT ![s] = fil[s]] = fil
        BY <1>3 DEF StdioTypes
      <4> QED BY <1>11, <4>1, <4>2 DEF f
    <3> QED BY <1>1, <1>4, <1>7, <1>8, <3>1, StreamMoves DEF f
  <2>3. stream'[s].eof = stream[s].eof
    <3>1. stream[s] \in SlotStates /\ stream \in [Streams -> SlotStates]
      BY <1>3 DEF StdioTypes
    <3>2. stream'[s] = [stream[s] EXCEPT !.pushed = None]
      BY <1>11, <3>1
    <3> QED BY <3>1, <3>2 DEF SlotStates
  <2>4. Reading(s)'
    <3>1. fil'[s].at = origin'[s] + Len(heard'[s]) + 0
      BY <1>4, <1>5, <1>6, <1>9, <2>1, <2>2
    <3>2. \A i \in 1..Len(heard'[s]) : heard'[s][i] = expected'[fil'[s].name].data[origin'[s] + i]
      BY <1>1, <1>6, <1>9, <2>1, <2>2 DEF data
    <3>3. stream'[s].eof => origin'[s] + Len(heard'[s]) = fil'[s].size
      BY <1>4, <1>5, <1>6, <1>9, <2>1, <2>2, <2>3
    <3> QED BY <1>8, <1>9, <3>1, <3>2, <3>3 DEF Reading
  <2>5. Streaming(s)'
    BY <2>2, <2>4 DEF Streaming
  <2>6. StdioTypes'
    <3>1. heard' \in [Streams -> Seq(Values)]
      BY <1>3, <1>6, <2>1 DEF StdioTypes
    <3> QED BY <1>1, <1>3, <1>8, <1>9, <2>2, <3>1 DEF StdioTypes
  <2> QED BY <2>2, <2>5, <2>6 DEF StdioInv
<1> QED BY <1>2, <1>10, <1>11

LEMMA UngetcKeeps ==
    ASSUME StdioInv, NEW s \in Streams, Ungetc(s)
    PROVE  StdioInv'
<1> DEFINE h == heard[s]
           n == Len(h)
           short == SubSeq(h, 1, n - 1)
           data == expected[fil[s].name].data
<1>1. /\ stream[s].used /\ h # <<>> /\ stream[s].pushed = None
      /\ stream' = [stream EXCEPT ![s].pushed = h[n], ![s].eof = FALSE]
      /\ heard' = [heard EXCEPT ![s] = short]
      /\ entries' = entries /\ fat' = fat /\ cells' = cells /\ fil' = fil
      /\ turn' = turn /\ origin' = origin /\ expected' = expected
  BY DEF Ungetc, volumeVars
<1>2. StdioTypes /\ Streaming(s)
  BY DEF StdioInv
<1>3. fil[s].open
  BY <1>1, <1>2 DEF Streaming
<1>4. OnFile(s) /\ Reading(s) /\ fil[s] \in Fils /\ turn[s] = "read"
  BY <1>1, <1>2, <1>3 DEF Streaming, Reading, StdioTypes
<1>5. h \in Seq(Values) /\ n \in Nat /\ n # 0 /\ origin[s] \in Nat
  BY <1>1, <1>2 DEF StdioTypes
<1>6. /\ fil[s].at = origin[s] + n /\ \A i \in 1..n : h[i] = data[origin[s] + i]
  BY <1>1, <1>4, <1>5 DEF Reading
<1>7. /\ short \in Seq(Values) /\ Len(short) = n - 1 /\ \A i \in 1..Len(short) : short[i] = h[i]
      /\ h[n] \in Values
  <2> HIDE DEF h
  <2>1. n - 1 \in Nat /\ 0 + (n - 1) <= Len(h) /\ n \in 1..n
    BY <1>5
  <2>2. LET part == SubSeq(h, 0 + 1, 0 + (n - 1)) IN
        /\ part \in Seq(Values) /\ Len(part) = n - 1
        /\ \A i \in 1..Len(part) : part[i] = h[0 + i]
    <3> HIDE DEF n
    <3> QED BY <1>5, <2>1, SubSeqIs
  <2>3. 0 + 1 = 1 /\ 0 + (n - 1) = n - 1 /\ \A i \in 1..(n - 1) : 0 + i = i
    BY <1>5
  <2>4. h[n] \in Values
    BY <1>5, <2>1
  <2>5. SubSeq(h, 0 + 1, 0 + (n - 1)) = short
    BY <2>3
  <2> HIDE DEF n, short
  <2> QED BY <2>2, <2>3, <2>4, <2>5
<1> HIDE DEF short, h, n, data
<1>8. stream'[s] = [stream[s] EXCEPT !.pushed = h[n], !.eof = FALSE] /\ stream[s] \in SlotStates
  BY <1>1, <1>2 DEF StdioTypes
<1>9. /\ stream' \in [Streams -> SlotStates] /\ stream'[s].used = stream[s].used
      /\ stream'[s].temporary = stream[s].temporary /\ stream'[s].pushed = h[n]
      /\ ~stream'[s].eof
  <2>1. PICK no \in BOOLEAN : ~no /\ no = FALSE
    OBVIOUS
  <2>2. stream' = [stream EXCEPT ![s] = [stream[s] EXCEPT !.pushed = h[n], !.eof = no]]
    BY <1>1, <1>2, <2>1 DEF StdioTypes
  <2> DEFINE slot == [stream[s] EXCEPT !.pushed = h[n], !.eof = no]
  <2>3. slot \in SlotStates /\ slot.used = stream[s].used /\ slot.temporary = stream[s].temporary
        /\ slot.pushed = h[n] /\ slot.eof = no
    BY ONLY <1>7, <1>8, no \in BOOLEAN DEF SlotStates
  <2> HIDE DEF slot
  <2>4. stream' = [stream EXCEPT ![s] = slot]
    BY <2>2 DEF slot
  <2> QED BY <1>2, <2>1, <2>3, <2>4 DEF StdioTypes
<1>10. OnlyStream(s)
  BY <1>1, <1>2 DEF OnlyStream, StdioTypes
<1>11. fil[s].at \in Nat /\ fil[s].at <= fil[s].size
  BY <1>4 DEF OnFile, Fils
<1>12. /\ \A t \in Streams \ {s} : Streaming(t)'
       /\ Volume' /\ OnFile(s)' /\ fil' \in [Streams -> Fils]
  <2>1. fil' = [fil EXCEPT ![s] = [fil[s] EXCEPT !.at = fil[s].at]]
    <3>1. [fil[s] EXCEPT !.at = fil[s].at] = fil[s]
      BY <1>4 DEF Fils
    <3>2. [fil EXCEPT ![s] = fil[s]] = fil
      BY <1>2 DEF StdioTypes
    <3> QED BY <1>1, <3>1, <3>2
  <2>2. stream'[s].used
    BY <1>1, <1>9
  <2> QED BY <1>1, <1>3, <1>9, <1>10, <1>11, <2>1, <2>2, StreamMoves
<1>13. heard'[s] = short /\ heard' \in [Streams -> Seq(Values)]
  BY <1>1, <1>2, <1>7 DEF StdioTypes
<1>14. Reading(s)'
  <2>1. h[n] # None
    BY <1>7, StdioConstants
  <2>2. heard'[s] = short /\ origin'[s] = origin[s] /\ fil'[s] = fil[s] /\ turn'[s] = turn[s]
        /\ expected'[fil'[s].name].data = data
    BY <1>1, <1>13 DEF data
  <2>3. fil'[s].at = (origin'[s] + Len(heard'[s])) + 1
    <3>1. origin[s] + n = (origin[s] + (n - 1)) + 1
      BY <1>5
    <3> QED BY <1>6, <1>7, <2>2, <3>1
  <2>4. \A i \in 1..Len(heard'[s]) : heard'[s][i] = data[origin'[s] + i]
    <3> SUFFICES ASSUME NEW i \in 1..(n - 1) PROVE short[i] = data[origin[s] + i]
      BY <1>7, <2>2
    <3>1. i \in 1..n
      BY <1>5
    <3>2. short[i] = h[i] /\ h[i] = data[origin[s] + i]
      BY <1>6, <1>7, <3>1
    <3> QED BY <3>2
  <2>5. stream'[s].pushed = data[(origin'[s] + Len(heard'[s])) + 1]
    <3>1. (origin[s] + (n - 1)) + 1 = origin[s] + n /\ n \in 1..n
      BY <1>5
    <3>2. h[n] = data[origin[s] + n]
      BY <1>6, <3>1
    <3> QED BY <1>7, <1>9, <2>2, <3>1, <3>2
  <2>6. turn'[s] = "read"
    BY <1>4, <2>2
  <2> QED BY <1>9, <2>1, <2>2, <2>3, <2>4, <2>5, <2>6 DEF Reading
<1>15. Streaming(s)'
  BY <1>1, <1>3, <1>12, <1>14 DEF Streaming
<1>16. StdioTypes'
  BY <1>1, <1>2, <1>9, <1>12, <1>13 DEF StdioTypes
<1> QED BY <1>12, <1>15, <1>16 DEF StdioInv

LEMMA FseekKeeps ==
    ASSUME StdioInv, NEW s \in Streams, NEW to \in 0..MaxSize, Fseek(s, to)
    PROVE  StdioInv'
<1>1. /\ stream[s].used /\ fil[s].open /\ to <= fil[s].size
      /\ fil' = [fil EXCEPT ![s].at = to]
      /\ stream' = [stream EXCEPT ![s].eof = FALSE, ![s].pushed = None]
      /\ turn' = [turn EXCEPT ![s] = "any"] /\ origin' = [origin EXCEPT ![s] = to]
      /\ heard' = [heard EXCEPT ![s] = <<>>]
      /\ entries' = entries /\ fat' = fat /\ cells' = cells /\ expected' = expected
  BY DEF Fseek, SetPosition
<1>2. StdioTypes
  BY DEF StdioInv
<1>3. to \in Nat
  BY StdioConstants
<1>4. /\ stream' \in [Streams -> SlotStates] /\ stream'[s].used
      /\ stream'[s].temporary = stream[s].temporary /\ stream'[s].pushed = None
      /\ ~stream'[s].eof
  <2>1. PICK no \in BOOLEAN : ~no /\ no = FALSE
    OBVIOUS
  <2>2. stream' = [stream EXCEPT ![s] = [stream[s] EXCEPT !.eof = no, !.pushed = None]]
    BY <1>1, <1>2, <2>1 DEF StdioTypes
  <2> DEFINE slot == [stream[s] EXCEPT !.eof = no, !.pushed = None]
  <2>3. stream[s] \in SlotStates
    BY <1>2 DEF StdioTypes
  <2>4. slot \in SlotStates /\ slot.used = stream[s].used /\ slot.temporary = stream[s].temporary
        /\ slot.pushed = None /\ slot.eof = no
    BY ONLY <2>3, no \in BOOLEAN DEF SlotStates
  <2> HIDE DEF slot
  <2>5. stream' = [stream EXCEPT ![s] = slot]
    BY <2>2 DEF slot
  <2> QED BY <1>1, <1>2, <2>1, <2>4, <2>5 DEF StdioTypes
<1>5. OnlyStream(s)
  BY <1>1, <1>2 DEF OnlyStream, StdioTypes
<1>6. /\ \A t \in Streams \ {s} : Streaming(t)'
      /\ Volume' /\ OnFile(s)' /\ fil' \in [Streams -> Fils]
      /\ fil'[s].open /\ fil'[s].at = to
  <2>1. fil' = [fil EXCEPT ![s] = [fil[s] EXCEPT !.at = to]]
    BY <1>1
  <2> QED BY <1>1, <1>3, <1>4, <1>5, <2>1, StreamMoves
<1>7. /\ turn'[s] = "any" /\ origin'[s] = to /\ heard'[s] = <<>>
      /\ turn' \in [Streams -> {"any", "read", "write"}]
      /\ origin' \in [Streams -> Nat] /\ heard' \in [Streams -> Seq(Values)]
  BY <1>1, <1>2, <1>3 DEF StdioTypes
<1>8. Streaming(s)'
  <2>1. Len(<<>>) = 0 /\ 1..0 = {} /\ to + 0 + 0 = to
    BY <1>3
  <2>2. Reading(s)'
    BY <1>4, <1>6, <1>7, <2>1 DEF Reading
  <2> QED BY <1>6, <2>2 DEF Streaming
<1>9. StdioTypes'
  BY <1>1, <1>2, <1>4, <1>6, <1>7 DEF StdioTypes
<1> QED BY <1>6, <1>8, <1>9 DEF StdioInv

\* A file without a cluster is empty.
LEMMA HeldEmpty ==
    ASSUME StdioInv, NEW s \in Streams, fil[s].open, fil[s].first = NoCluster
    PROVE  fil[s].size = 0
<1> DEFINE name == fil[s].name
<1>1. PICK chains : Laid(chains, Views, fat, cells, expected)
  BY DEF StdioInv, Volume
<1>2. /\ name \in Files /\ Views[name] = [first |-> fil[s].first, size |-> fil[s].size]
      /\ Views[name] # NoEntry /\ Len(expected[name].data) = fil[s].size
  BY HeldFile
<1>3. Stores(fat, cells, Views[name], chains[name], expected[name].data)
  BY <1>1, <1>2 DEF Laid, FileSound
<1>4. Chain(fat, NoCluster, chains[name]) /\ Len(expected[name].data) <= Len(chains[name])
      /\ expected[name].data \in Seq(Values)
  BY <1>2, <1>3 DEF Stores
<1>5. chains[name] = <<>>
  <2>1. chains[name] \in Seq(Clusters) /\ NoCluster \notin Clusters
    BY <1>1, <1>2 DEF Laid, NoCluster, Clusters
  <2>2. chains[name] # <<>> => chains[name][1] \in Clusters
    BY <2>1
  <2> QED BY <1>4, <2>1, <2>2 DEF Chain
<1> QED BY <1>2, <1>4, <1>5

LEMMA FwriteKeeps ==
    ASSUME StdioInv, NEW s \in Streams, NEW v \in Values, Fwrite(s, v)
    PROVE  StdioInv'
<1> DEFINE fs == fil[s]
           f == IF stream[s].append THEN [fs EXCEPT !.at = fs.size] ELSE fs
           name == fs.name
           data == expected[name].data
<1>1. /\ stream[s].used /\ f.open /\ f.writes /\ turn[s] \in {"any", "write"}
      /\ turn' = [turn EXCEPT ![s] = "write"] /\ origin' = [origin EXCEPT ![s] = 0]
      /\ entries' = entries /\ stream' = stream /\ heard' = heard
      /\ \/ fil' = [fil EXCEPT ![s] = f] /\ fat' = fat /\ cells' = cells /\ expected' = expected
         \/ /\ \E c \in Room(f) : Write(s, f, c, v)
            /\ expected' = [expected EXCEPT ![f.name].data =
                 [i \in 1..fil'[s].size |-> IF i = f.at + 1 THEN v ELSE @[i]]]
  BY DEF Fwrite, Turn
<1>2. StdioTypes /\ fs \in Fils
  BY DEF StdioInv, StdioTypes
<1>3. /\ f \in Fils /\ f.open = fs.open /\ f.name = name /\ f.first = fs.first /\ f.size = fs.size
      /\ f.writes = fs.writes /\ f.modified = fs.modified /\ f.reads = fs.reads
      /\ f = [fs EXCEPT !.at = f.at]
  <2> HIDE DEF fs
  <2>1. [fs EXCEPT !.at = fs.at] = fs
    BY <1>2 DEF Fils
  <2>2. CASE stream[s].append
    <3>1. f = [fs EXCEPT !.at = fs.size] /\ fs.size \in Nat
      BY <1>2, <2>2 DEF Fils
    <3> HIDE DEF f
    <3> QED BY <1>2, <3>1 DEF Fils, name
  <2>3. CASE ~stream[s].append
    <3>1. f = fs
      BY <2>3
    <3> HIDE DEF f
    <3> QED BY <1>2, <2>1, <3>1 DEF name
  <2> QED BY <2>2, <2>3
<1>4. fs.open /\ fs.writes
  <2>1. f.open /\ f.writes /\ f.open = fs.open /\ f.writes = fs.writes
    BY <1>1, <1>3
  <2> HIDE DEF f, fs
  <2> QED BY <2>1
<1>5. /\ OnFile(s) /\ Reading(s) /\ name \in Files
      /\ Views[name] = [first |-> fs.first, size |-> fs.size] /\ Views[name] # NoEntry
      /\ expected[name] = Holding(data) /\ data \in Seq(Values) /\ Len(data) = fs.size
  BY <1>4, HeldFile DEF StdioInv, Streaming
<1>6. f.at \in Nat /\ f.at <= fs.size /\ fs.size \in Nat
  <2>1. fs.at \in Nat /\ fs.size \in Nat /\ fs.at <= fs.size
    BY <1>2, <1>5 DEF OnFile, Fils
  <2>2. f.at = fs.at \/ f.at = fs.size
    <3>1. [fs EXCEPT !.at = fs.size].at = fs.size
      <4> HIDE DEF fs
      <4> QED BY <1>2 DEF Fils
    <3> QED BY <3>1
  <2> HIDE DEF f, fs
  <2> QED BY <2>1, <2>2
<1> HIDE DEF f
<1>7. heard[s] = <<>> /\ stream[s].pushed = None
  BY <1>1, <1>5 DEF Reading
<1>8. Alone(s, name)
  BY <1>4, <1>5 DEF OnFile, Alone
<1>9. /\ turn' \in [Streams -> {"any", "read", "write"}] /\ origin' \in [Streams -> Nat]
      /\ turn'[s] = "write"
  BY <1>1, <1>2 DEF StdioTypes
<1>10. Reading(s)'
  BY <1>1, <1>7, <1>9 DEF Reading
<1>11. CASE fil' = [fil EXCEPT ![s] = f] /\ fat' = fat /\ cells' = cells /\ expected' = expected
  <2>1. fil' = [fil EXCEPT ![s] = [fil[s] EXCEPT !.at = f.at]]
    BY <1>3, <1>11
  <2>2. OnlyStream(s)
    BY <1>1, <1>2, <1>11 DEF OnlyStream, StdioTypes
  <2>3. /\ \A t \in Streams \ {s} : Streaming(t)'
        /\ Volume' /\ OnFile(s)' /\ fil' \in [Streams -> Fils] /\ fil'[s].open
    BY <1>1, <1>4, <1>6, <1>11, <2>1, <2>2, StreamMoves
  <2>4. Streaming(s)'
    BY <1>10, <2>3 DEF Streaming
  <2>5. StdioTypes'
    BY <1>1, <1>2, <1>9, <1>11, <2>3 DEF StdioTypes
  <2> QED BY <2>3, <2>4, <2>5 DEF StdioInv
<1>12. CASE /\ \E c \in Room(f) : Write(s, f, c, v)
            /\ expected' = [expected EXCEPT ![f.name].data =
                 [i \in 1..fil'[s].size |-> IF i = f.at + 1 THEN v ELSE @[i]]]
  <2>1. PICK c \in Room(f) : Write(s, f, c, v)
    BY <1>12
  <2> DEFINE first == IF f.first = NoCluster THEN c ELSE f.first
             size == IF f.at < f.size THEN f.size ELSE f.at + 1
             g == [open |-> f.open, name |-> f.name, first |-> first, size |-> size,
                   at |-> f.at + 1, reads |-> f.reads, writes |-> f.writes, modified |-> TRUE]
             new == [i \in 1..size |-> IF i = f.at + 1 THEN v ELSE data[i]]
  <2>2. /\ fat' = IF f.at = 0 /\ f.first # NoCluster THEN fat ELSE Linked(Before(f), c)
        /\ cells' = [cells EXCEPT ![c] = v]
        /\ fil' = [fil EXCEPT ![s] =
             [f EXCEPT !.at = @ + 1, !.modified = TRUE,
                       !.first = IF @ = NoCluster THEN c ELSE @,
                       !.size = IF f.at < @ THEN @ ELSE f.at + 1]]
    BY <2>1 DEF Write
  <2>3. PICK yes \in BOOLEAN : yes = TRUE
    OBVIOUS
  <2>4. /\ fil'[s] = [f EXCEPT !.at = f.at + 1, !.modified = yes, !.first = first, !.size = size]
        /\ \A t \in Streams \ {s} : fil'[t] = fil[t]
    BY <1>2, <1>3, <2>2, <2>3 DEF StdioTypes, Fils
  <2>5. size \in Nat /\ f.at + 1 <= size /\ fs.size <= size
    BY <1>3, <1>6
  <2> DEFINE h == fil'[s]
  <2>6. /\ h.open = f.open /\ h.name = name /\ h.first = first /\ h.size = size
        /\ h.at = f.at + 1 /\ h.writes = f.writes /\ h.modified = yes
    <3> HIDE DEF first, size
    <3> QED BY <1>3, <2>4 DEF Fils
  <2>7. h.open /\ h.writes /\ h.modified
    <3>1. f.open /\ f.writes
      BY <1>1
    <3> HIDE DEF h
    <3> QED BY <2>3, <2>6, <3>1
  <2>8. /\ \A m \in Files \ {name} : expected'[m] = expected[m]
        /\ expected'[name] = [there |-> expected[name].there, data |-> new]
    <3>1. fil'[s].size = size
      BY <2>6
    <3>2. expected' = [expected EXCEPT ![name].data =
                 [i \in 1..size |-> IF i = f.at + 1 THEN v ELSE @[i]]]
      BY <1>3, <1>12, <3>1
    <3> HIDE DEF size, data
    <3>3. /\ \A m \in Files \ {name} : expected'[m] = expected[m]
          /\ expected'[name] = [expected[name] EXCEPT !.data = new]
      BY <1>2, <1>5, <3>2 DEF StdioTypes, data
    <3>4. expected[name] \in [there : BOOLEAN, data : Seq(Values)]
      BY <1>2, <1>5 DEF StdioTypes
    <3> HIDE DEF new
    <3> QED BY <3>3, <3>4
  <2> HIDE DEF h, first, size, new
  <2>9. OnlyStream(s) /\ OnlyFile(name)
    BY <1>1, <1>2, <2>4, <2>8 DEF OnlyStream, OnlyFile, StdioTypes
  <2>10. /\ \A t \in Streams \ {s} : Streaming(t)'
         /\ \A m \in Files \ {name} : Views'[m] = Views[m]
         /\ Views'[name] = [first |-> first, size |-> size]
    <3>1. \A t \in Streams \ {s} : fil[t].open /\ fil[t].name = name =>
              /\ ~fil[t].writes
              /\ entries'[name] = entries[name] /\ expected'[name] = expected[name]
      BY <1>8 DEF Alone
    <3>2. fil[s].open => fil[s].name = name
      OBVIOUS
    <3>3. fil'[s].open => fil'[s].name = name
      BY <2>6 DEF h
    <3>4. /\ \A t \in Streams \ {s} : Streaming(t)'
          /\ \A m \in Files \ {name} : Views'[m] = Views[m]
          /\ Alone(s, name) /\ fil'[s].open /\ fil'[s].writes =>
                Views'[name] = [first |-> fil'[s].first, size |-> fil'[s].size]
      <4> HIDE DEF name
      <4> QED BY <1>5, <2>9, <3>1, <3>2, <3>3, OneStream
    <3> QED BY <1>8, <2>6, <2>7, <3>4 DEF h
  <2>11. Volume' /\ c \in Clusters /\ fat' \in [Clusters -> 0..End]
    <3>1. Volume /\ fat \in [Clusters -> 0..End] /\ cells \in [Clusters -> Values \union {None}]
      BY <1>2 DEF StdioInv, StdioTypes
    <3>2. f.first = Views[name].first /\ f.size = Views[name].size
      BY <1>3, <1>5
    <3>3. f.at \in Nat /\ f.at <= f.size
      BY <1>3, <1>6
    <3>4. size = IF f.at < f.size THEN f.size ELSE f.at + 1
      BY DEF size
    <3>5. \A m \in Files \ {name} : Views'[m] = Views[m] /\ expected'[m] = expected[m]
      BY <2>8, <2>10
    <3>6. Views'[name] = [first |-> IF f.first = NoCluster THEN c ELSE f.first, size |-> size]
      BY <2>10 DEF first
    <3>7. expected'[name] = [there |-> expected[name].there,
                             data |-> [i \in 1..size |-> IF i = f.at + 1 THEN v
                                                         ELSE expected[name].data[i]]]
      BY <2>8 DEF new
    <3>8. name \in Files /\ Views[name] # NoEntry
      BY <1>5
    <3>9. /\ fat' = IF f.at = 0 /\ f.first # NoCluster THEN fat ELSE Linked(Before(f), c)
          /\ cells' = [cells EXCEPT ![c] = v]
      BY <2>2
    <3> HIDE DEF name
    <3>10. Written(name, f, c, v, size)
      BY <2>1, <3>1, <3>2, <3>3, <3>4, <3>5, <3>6, <3>7, <3>8, <3>9 DEF Written
    <3> QED BY <3>10, VolumeWritten
  <2>12. first \in 0..ClusterCount
    BY <1>3, <2>11, StdioConstants DEF first, Fils, Clusters
  <2>13. fil' \in [Streams -> Fils] /\ h \in Fils
    <3>1. h \in Fils
      <4>1. h = [f EXCEPT !.at = f.at + 1, !.modified = yes, !.first = first, !.size = size]
        BY <2>4 DEF h
      <4>2. f.at + 1 \in Nat /\ f \in Fils
        BY <1>3, <1>6
      <4> QED BY ONLY <2>3, <2>5, <2>12, <4>1, <4>2 DEF Fils
    <3>2. fil' = [fil EXCEPT ![s] = h]
      BY <1>2, <2>2 DEF h, StdioTypes
    <3> QED BY <1>2, <3>1, <3>2 DEF StdioTypes
  <2>14. StdioTypes'
    <3>1. cells' \in [Clusters -> Values \union {None}]
      BY <1>2, <2>2, <2>11 DEF StdioTypes
    <3>2. expected' \in [Files -> [there : BOOLEAN, data : Seq(Values)]]
      <4>1. \A i \in 1..size : IF i = f.at + 1 THEN v \in Values ELSE data[i] \in Values
        <5>1. \A i \in 1..size : i # f.at + 1 => i \in 1..Len(data)
          BY <1>3, <1>5, <1>6 DEF size
        <5> QED BY <1>5, <5>1
      <4>2. new \in [1..size -> Values]
        BY <4>1 DEF new
      <4>3. new \in Seq(Values)
        BY ONLY <2>5, <4>2
      <4>4. expected'[name] \in [there : BOOLEAN, data : Seq(Values)]
        BY <1>2, <1>5, <2>8, <4>3 DEF StdioTypes
      <4>5. expected' = [expected EXCEPT ![name] = expected'[name]]
        BY <1>2, <1>3, <1>5, <1>12 DEF StdioTypes
      <4> QED BY <1>2, <4>4, <4>5 DEF StdioTypes
    <3> QED BY <1>1, <1>2, <1>9, <2>11, <2>13, <3>1, <3>2 DEF StdioTypes
  <2>15. OnFile(s)'
    <3>1. \A t \in Streams \ {s} : fil'[t].open => fil'[t].name # name
      BY <1>8, <2>4 DEF Alone
    <3>2. entries[name].size <= fs.size /\ (entries[name].first = fs.first \/ entries[name] = NoData)
          /\ entries[name] # NoEntry
      BY <1>4, <1>5 DEF OnFile
    <3>3. entries[name] \in FileEntries
      BY <1>2, <1>5, <3>2 DEF StdioTypes
    <3>4. entries[name].first = first \/ entries[name] = NoData
      <4>1. CASE fs.first # NoCluster
        BY <1>3, <3>2, <4>1 DEF first
      <4>2. CASE fs.first = NoCluster
        <5>1. fs.size = 0
          BY <1>4, <4>2, HeldEmpty
        <5>2. entries[name].size = 0
          <6>1. entries[name].size \in Nat
            BY <3>3 DEF FileEntries
          <6> QED BY <3>2, <5>1, <6>1
        <5> QED BY <3>2, <3>3, <4>2, <5>2 DEF NoData, FileEntries
      <4> QED BY <4>1, <4>2
    <3>5. entries[name].size <= size
      <4>1. entries[name].size \in Nat
        BY <3>3 DEF FileEntries
      <4> QED BY <1>6, <2>5, <3>2, <4>1
    <3>6. h.at <= h.size
      BY <2>5, <2>6
    <3>7. fil'[s] = h /\ entries' = entries /\ stream' = stream
      BY <1>1 DEF h
    <3> QED BY <1>1, <1>5, <2>6, <2>7, <3>1, <3>2, <3>4, <3>5, <3>6, <3>7 DEF OnFile
  <2>16. Streaming(s)'
    BY <1>10, <2>7, <2>15 DEF Streaming, h
  <2> QED BY <2>10, <2>11, <2>14, <2>16 DEF StdioInv
<1> QED BY <1>1, <1>11, <1>12


\* Steps of the directory alone: nobody holds the files of N.
LEMMA DirectoryMoves ==
    ASSUME StdioInv, NEW N, fil' = fil, stream' = stream, turn' = turn, origin' = origin,
           heard' = heard, \A m \in Files \ N : entries'[m] = entries[m] /\ expected'[m] = expected[m],
           \A t \in Streams : fil[t].open => fil[t].name \notin N
    PROVE  /\ \A t \in Streams : Streaming(t)'
           /\ \A m \in Files \ N : Views'[m] = Views[m]
           /\ \A m \in N \intersect Files : Views'[m] = entries'[m] /\ Views[m] = entries[m]
<1>1. \A t \in Streams : Streaming(t)'
  <2> DEFINE T == {}
  <2>1. \A t \in Streams : Streaming(t)
    BY DEF StdioInv
  <2>2. \A t \in Streams \ T :
            /\ fil'[t] = fil[t] /\ stream'[t] = stream[t] /\ turn'[t] = turn[t]
            /\ origin'[t] = origin[t] /\ heard'[t] = heard[t]
    OBVIOUS
  <2>3. \A t \in T : fil'[t].open => fil'[t].name \in N
    OBVIOUS
  <2>4. \A m \in Files \ N : entries'[m] = entries[m] /\ expected'[m] = expected[m]
    OBVIOUS
  <2>5. \A t \in Streams \ T : fil[t].open /\ fil[t].name \in N =>
            /\ ~fil[t].writes
            /\ entries'[fil[t].name] = entries[fil[t].name]
            /\ expected'[fil[t].name] = expected[fil[t].name]
    OBVIOUS
  <2>6. \A t \in Streams \ T : Streaming(t)'
    <3> HIDE DEF T
    <3> QED BY ONLY <2>1, <2>2, <2>3, <2>4, <2>5, OthersKeep
  <2> QED BY <2>6
<1>2. ASSUME NEW m \in Files \ N PROVE Views'[m] = Views[m]
  <2>1. entries'[m] = entries[m] /\ \A t \in Streams : fil'[t] = fil[t]
    OBVIOUS
  <2>2. ViewIn(entries', fil', m) = ViewIn(entries, fil, m)
    BY <2>1, ViewSame
  <2> QED BY <2>2, ViewsAre
<1>3. ASSUME NEW m \in N \intersect Files
      PROVE  Views'[m] = entries'[m] /\ Views[m] = entries[m]
  <2>1. \A t \in Streams : fil[t].open /\ fil[t].name = m => ~fil[t].writes
    OBVIOUS
  <2>2. \A t \in Streams : fil'[t].open /\ fil'[t].name = m => ~fil'[t].writes
    BY <2>1
  <2>3. ViewIn(entries, fil, m) = entries[m]
    BY <2>1, ViewNoWriter
  <2>4. ViewIn(entries', fil', m) = entries'[m]
    BY <2>2, ViewNoWriter
  <2> QED BY <2>3, <2>4, ViewsAre
<1> QED BY <1>1, <1>2, <1>3

LEMMA StdioStutters ==
    ASSUME StdioInv, UNCHANGED stdioVars
    PROVE  StdioInv'
<1>1. /\ entries' = entries /\ fat' = fat /\ cells' = cells /\ fil' = fil /\ stream' = stream
      /\ turn' = turn /\ origin' = origin /\ heard' = heard /\ expected' = expected
  BY DEF stdioVars, volumeVars
<1>2. /\ \A t \in Streams : Streaming(t)'
      /\ \A m \in Files : Views'[m] = Views[m]
  <2> DEFINE N == {}
  <2>1. /\ \A m \in Files \ N : entries'[m] = entries[m] /\ expected'[m] = expected[m]
        /\ \A t \in Streams : fil[t].open => fil[t].name \notin N
    BY <1>1
  <2>2. /\ \A t \in Streams : Streaming(t)'
        /\ \A m \in Files \ N : Views'[m] = Views[m]
    <3> HIDE DEF N
    <3> QED BY <1>1, <2>1, DirectoryMoves
  <2> QED BY <2>2
<1>3. StdioTypes /\ Volume
  BY DEF StdioInv
<1>4. Volume'
  BY <1>1, <1>2, <1>3, VolumeSame
<1>5. StdioTypes'
  BY <1>1, <1>3 DEF StdioTypes
<1> QED BY <1>2, <1>4, <1>5 DEF StdioInv

LEMMA RemovedKeeps ==
    ASSUME StdioInv, NEW name \in Files, Present(name), Holders(name) = {},
           NEW k \in 0..ClusterCount, fat' = AfterRemove(entries[name].first, k),
           entries' = [entries EXCEPT ![name] = NoEntry],
           expected' = [expected EXCEPT ![name] = Gone],
           UNCHANGED <<cells, fil, stream, turnVars>>
    PROVE  StdioInv'
<1>1. /\ entries[name] # NoEntry /\ \A t \in Streams : fil[t].open => fil[t].name # name
      /\ entries' = [entries EXCEPT ![name] = NoEntry]
      /\ fat' = AfterRemove(entries[name].first, k)
      /\ expected' = [expected EXCEPT ![name] = Gone]
      /\ cells' = cells /\ fil' = fil /\ stream' = stream
      /\ turn' = turn /\ origin' = origin /\ heard' = heard
  BY DEF Present, Holders, turnVars
<1>2. StdioTypes /\ Volume
  BY DEF StdioInv
<1>3. /\ \A m \in Files \ {name} : entries'[m] = entries[m] /\ expected'[m] = expected[m]
      /\ entries'[name] = NoEntry /\ expected'[name] = Gone
  BY <1>1, <1>2 DEF StdioTypes
<1>4. /\ \A t \in Streams : Streaming(t)'
      /\ \A m \in Files \ {name} : Views'[m] = Views[m]
      /\ Views'[name] = NoEntry /\ Views[name] = entries[name]
  <2> DEFINE N == {name}
  <2>1. /\ \A m \in Files \ N : entries'[m] = entries[m] /\ expected'[m] = expected[m]
        /\ \A t \in Streams : fil[t].open => fil[t].name \notin N
    BY <1>1, <1>3
  <2>2. /\ \A t \in Streams : Streaming(t)'
        /\ \A m \in Files \ N : Views'[m] = Views[m]
        /\ \A m \in N \intersect Files : Views'[m] = entries'[m] /\ Views[m] = entries[m]
    <3> HIDE DEF N
    <3> QED BY <1>1, <2>1, DirectoryMoves
  <2> QED BY <1>3, <2>2
<1>5. Volume'
  <2>1. Views[name] # NoEntry /\ fat' = AfterRemove(Views[name].first, k)
    BY <1>1, <1>4
  <2>2. \A m \in Files \ {name} : Views'[m] = Views[m] /\ expected'[m] = expected[m]
    BY <1>3, <1>4
  <2> QED BY <1>1, <1>2, <1>3, <1>4, <2>1, <2>2, VolumeRemoved DEF StdioTypes
<1>6. StdioTypes'
  <2>1. fat' \in [Clusters -> 0..End]
    <3>1. Unused \in 0..End
      BY StdioConstants DEF Unused, End
    <3> QED BY <1>1, <1>2, <3>1 DEF AfterRemove, StdioTypes
  <2>2. Gone \in [there : BOOLEAN, data : Seq(Values)]
    BY DEF Gone
  <2>3. /\ expected' \in [Files -> [there : BOOLEAN, data : Seq(Values)]]
        /\ entries' \in [Files -> FileEntries \union {NoEntry}]
    BY <1>1, <1>2, <2>2 DEF StdioTypes
  <2> QED BY <1>1, <1>2, <2>1, <2>3 DEF StdioTypes
<1> QED BY <1>4, <1>5, <1>6 DEF StdioInv

LEMMA RemoveFileKeeps ==
    ASSUME StdioInv, NEW name \in Files, RemoveFile(name)
    PROVE  StdioInv'
<1>1. CASE entries' = entries /\ UNCHANGED <<fat, expected>>
  <2>1. UNCHANGED stdioVars
    BY <1>1 DEF RemoveFile, stdioVars, volumeVars, turnVars
  <2> QED BY <2>1, StdioStutters
<1>2. CASE ~(entries' = entries /\ UNCHANGED <<fat, expected>>)
  <2>1. PICK k \in 0..ClusterCount :
           /\ entries' = [entries EXCEPT ![name] = NoEntry]
           /\ fat' = AfterRemove(entries[name].first, k)
           /\ expected' = [expected EXCEPT ![name] = Gone]
    BY <1>2 DEF RemoveFile, UnlinkFile
  <2> QED BY <2>1, RemovedKeeps DEF RemoveFile
<1> QED BY <1>1, <1>2

LEMMA RenameFileKeeps ==
    ASSUME StdioInv, NEW old \in Files, NEW new \in Files, RenameFile(old, new)
    PROVE  StdioInv'
<1>1. /\ entries[old] # NoEntry /\ entries[new] = NoEntry
      /\ \A t \in Streams : fil[t].open => fil[t].name # old
      /\ entries' = [entries EXCEPT ![new] = entries[old], ![old] = NoEntry]
      /\ expected' = [expected EXCEPT ![new] = expected[old], ![old] = Gone]
      /\ fat' = fat /\ cells' = cells /\ fil' = fil /\ stream' = stream
      /\ turn' = turn /\ origin' = origin /\ heard' = heard
  BY DEF RenameFile, Present, Holders, turnVars
<1>2. StdioTypes /\ Volume /\ old # new
  BY <1>1 DEF StdioInv
<1>3. /\ \A m \in Files \ {old, new} : entries'[m] = entries[m] /\ expected'[m] = expected[m]
      /\ entries'[old] = NoEntry /\ expected'[old] = Gone
      /\ entries'[new] = entries[old] /\ expected'[new] = expected[old]
  BY <1>1, <1>2 DEF StdioTypes
<1>4. \A t \in Streams : fil[t].open => fil[t].name # new
  <2> SUFFICES ASSUME NEW t \in Streams, fil[t].open PROVE fil[t].name # new
    OBVIOUS
  <2>1. OnFile(t)
    BY DEF StdioInv, Streaming
  <2> QED BY <1>1, <2>1 DEF OnFile
<1>5. /\ \A t \in Streams : Streaming(t)'
      /\ \A m \in Files \ {old, new} : Views'[m] = Views[m]
      /\ Views'[old] = NoEntry /\ Views'[new] = entries[old]
      /\ Views[old] = entries[old] /\ Views[new] = NoEntry
  <2> DEFINE N == {old, new}
  <2>1. /\ \A m \in Files \ N : entries'[m] = entries[m] /\ expected'[m] = expected[m]
        /\ \A t \in Streams : fil[t].open => fil[t].name \notin N
    BY <1>1, <1>3, <1>4
  <2>2. /\ \A t \in Streams : Streaming(t)'
        /\ \A m \in Files \ N : Views'[m] = Views[m]
        /\ \A m \in N \intersect Files : Views'[m] = entries'[m] /\ Views[m] = entries[m]
    <3> HIDE DEF N
    <3> QED BY <1>1, <2>1, DirectoryMoves
  <2> QED BY <1>1, <1>3, <2>2
<1>6. Volume'
  <2>1. \A m \in Files \ {old, new} : Views'[m] = Views[m] /\ expected'[m] = expected[m]
    BY <1>3, <1>5
  <2>2. Views'[new] = Views[old]
    BY <1>5
  <2> QED BY <1>1, <1>2, <1>3, <1>5, <2>1, <2>2, VolumeRenamed
<1>7. StdioTypes'
  <2>1. Gone \in [there : BOOLEAN, data : Seq(Values)]
    BY DEF Gone
  <2>2. /\ expected' \in [Files -> [there : BOOLEAN, data : Seq(Values)]]
        /\ entries' \in [Files -> FileEntries \union {NoEntry}]
    BY <1>1, <1>2, <2>1 DEF StdioTypes
  <2> QED BY <1>1, <1>2, <2>2 DEF StdioTypes
<1> QED BY <1>5, <1>6, <1>7 DEF StdioInv

LEMMA StdioInvNext ==
    ASSUME StdioInv, [StdioNext]_stdioVars
    PROVE  StdioInv'
<1>1. CASE UNCHANGED stdioVars
  BY <1>1, StdioStutters
<1>2. ASSUME NEW name \in Files, NEW m \in Modes, Fopen(name, m) PROVE StdioInv'
  BY <1>2, FopenKeeps
<1>3. CASE Tmpfile
  BY <1>3, TmpfileKeeps
<1>4. ASSUME NEW s \in Streams, Fclose(s) PROVE StdioInv'
  BY <1>4, FcloseKeeps
<1>5. ASSUME NEW s \in Streams, FcloseFails(s) PROVE StdioInv'
  BY <1>5, FcloseFailsKeeps
<1>6. ASSUME NEW s \in Streams, Ungetc(s) PROVE StdioInv'
  BY <1>6, UngetcKeeps
<1>7. ASSUME NEW s \in Streams, NEW m \in Modes, Freopen(s, m) PROVE StdioInv'
  BY <1>7, FreopenKeeps
<1>8. ASSUME NEW s \in Streams, NEW n \in 1..2, Fread(s, n) PROVE StdioInv'
  BY <1>8, FreadKeeps
<1>9. ASSUME NEW s \in Streams, NEW v \in Values, Fwrite(s, v) PROVE StdioInv'
  BY <1>9, FwriteKeeps
<1>10. ASSUME NEW s \in Streams, NEW to \in 0..MaxSize, Fseek(s, to) PROVE StdioInv'
  BY <1>10, FseekKeeps
<1>11. ASSUME NEW name \in Files, RemoveFile(name) PROVE StdioInv'
  BY <1>11, RemoveFileKeeps
<1>12. ASSUME NEW old \in Files, NEW new \in Files, RenameFile(old, new) PROVE StdioInv'
  BY <1>12, RenameFileKeeps
<1> QED BY <1>1, <1>2, <1>3, <1>4, <1>5, <1>6, <1>7, <1>8, <1>9, <1>10, <1>11, <1>12
           DEF StdioNext

\* What the volume and the streams keep: the chains of the files apart, in their
\* clusters what was written, and every stream where its history says.
THEOREM StreamsInvariant == StdioSpec => []StdioInv
<1>1. StdioInit => StdioInv
  BY StdioInvInit
<1>2. StdioInv /\ [StdioNext]_stdioVars => StdioInv'
  BY StdioInvNext
<1> QED BY <1>1, <1>2, PTL DEF StdioSpec

\* The streams of stdio.c write and read their files, and f_write, f_open, f_close
\* and f_unlink give every file clusters of its own: through all modes and
\* reopenings, failing reads and closes, full volumes and pushed-back characters.
THEOREM StreamsAreTrue == StdioSpec => []StreamsTrue
<1>1. StdioSpec => []StdioInv
  BY StreamsInvariant
<1>2. StdioInv => StreamsTrue
  BY StdioInvSuffices
<1> QED BY <1>1, <1>2, PTL
=============================================================================
