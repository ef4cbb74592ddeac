----------------------------- MODULE LuaPattern -----------------------------
(***************************************************************************)
(* Pattern matching of Lua's string library (lua/src/lstrlib.c): the       *)
(* backtracking matcher, and string.find, match, gmatch and gsub on it.    *)
(*                                                                         *)
(* A subject and a pattern are sequences of characters, and what follows   *)
(* their end is Zero, as in C.                                             *)
(***************************************************************************)
EXTENDS Integers, Sequences, SequencesExt, TLC

CONSTANTS MaxCaptures, \* LUA_MAXCAPTURES
          MaxCalls     \* MAXCCALLS: how deep match calls itself

ASSUME PatternLimits == MaxCaptures \in Nat /\ MaxCalls \in Nat \ {0}

Zero == "zero"
NoMatch == 0
Unfinished == -1  Position == -2   \* CAP_UNFINISHED, CAP_POSITION
Letters == {"a", "b", "A"}
Ascii == <<Zero, "%", "(", ")", "-", ".", "0", "1", "2", "A", "[", "]", "^", "a", "b">>
Digits == <<"1", "2">> \* and 0, which is the index of none
IndexOf(c) == SelectInSeq(Digits, LAMBDA d : d = c)
Code(c) == CHOOSE i \in DOMAIN Ascii : Ascii[i] = c

\* The matcher's state: the captures, the calls that are left to it, and the
\* error that ends it.
Prepared(src, pat) ==
    [src |-> src, pat |-> pat, capture |-> <<>>, depth |-> MaxCalls, error |-> "none"]
S(ms, i) == IF i \in DOMAIN ms.src THEN ms.src[i] ELSE Zero
P(ms, i) == IF i \in DOMAIN ms.pat THEN ms.pat[i] ELSE Zero
SrcEnd(ms) == Len(ms.src) + 1
PEnd(ms) == Len(ms.pat) + 1
Result(ms, s) == [at |-> s, ms |-> ms]
Raise(ms, message) == Result([ms EXCEPT !.error = message], NoMatch)
Final(r) == r.at # NoMatch \/ r.ms.error # "none"

-----------------------------------------------------------------------------
(* One character and its class. *)
\* classend; NoMatch is a malformed pattern.
RECURSIVE BracketEnd(_, _)
BracketEnd(ms, p) ==
    LET next == IF P(ms, p) = "%" /\ p + 1 < PEnd(ms) THEN p + 2 ELSE p + 1 IN
    CASE p >= PEnd(ms) -> NoMatch
      [] p < PEnd(ms) /\ P(ms, next) = "]" -> next + 1
      [] OTHER -> BracketEnd(ms, next)
ClassEnd(ms, p) ==
    CASE P(ms, p) = "%" -> IF p + 1 = PEnd(ms) THEN NoMatch ELSE p + 2
      [] P(ms, p) = "[" -> BracketEnd(ms, IF P(ms, p + 1) = "^" THEN p + 2 ELSE p + 1)
      [] OTHER -> p + 1

MatchClass(c, class) ==
    CASE class = "a" -> c \in Letters
      [] class = "A" -> c \notin Letters
      [] OTHER -> c = class

RECURSIVE InBracket(_, _, _, _)
InBracket(ms, c, p, ec) ==
    /\ p < ec
    /\ CASE P(ms, p) = "%" -> MatchClass(c, P(ms, p + 1)) \/ InBracket(ms, c, p + 2, ec)
         [] P(ms, p) # "%" /\ P(ms, p + 1) = "-" /\ p + 2 < ec ->
               \/ Code(c) \in Code(P(ms, p)) .. Code(P(ms, p + 2))
               \/ InBracket(ms, c, p + 3, ec)
         [] OTHER -> P(ms, p) = c \/ InBracket(ms, c, p + 1, ec)
MatchBracketClass(ms, c, p, ec) ==
    IF P(ms, p + 1) = "^" THEN ~InBracket(ms, c, p + 2, ec) ELSE InBracket(ms, c, p + 1, ec)

SingleMatch(ms, s, p, ep) ==
    /\ s < SrcEnd(ms)
    /\ CASE P(ms, p) = "." -> TRUE
         [] P(ms, p) = "%" -> MatchClass(S(ms, s), P(ms, p + 1))
         [] P(ms, p) = "[" -> MatchBracketClass(ms, S(ms, s), p, ep - 1)
         [] OTHER -> P(ms, p) = S(ms, s)

\* matchbalance, after its first character.
RECURSIVE BalanceFrom(_, _, _, _, _)
BalanceFrom(ms, s, b, e, open) ==
    CASE s >= SrcEnd(ms) -> NoMatch
      [] s < SrcEnd(ms) /\ S(ms, s) = e ->
            IF open = 1 THEN s + 1 ELSE BalanceFrom(ms, s + 1, b, e, open - 1)
      [] OTHER -> BalanceFrom(ms, s + 1, b, e, IF S(ms, s) = b THEN open + 1 ELSE open)
MatchBalance(ms, s, p) ==
    CASE p >= PEnd(ms) - 1 -> Raise(ms, "missing arguments to '%b'")
      [] p < PEnd(ms) - 1 /\ S(ms, s) # P(ms, p) -> Result(ms, NoMatch)
      [] OTHER -> Result(ms, BalanceFrom(ms, s + 1, P(ms, p), P(ms, p + 1), 1))

-----------------------------------------------------------------------------
(* Captures. *)
CaptureToClose(ms) ==
    LET open == {l \in DOMAIN ms.capture : ms.capture[l].len = Unfinished}
    IN IF open = {} THEN NoMatch ELSE Max(open)
CheckCapture(ms, l) == l \in DOMAIN ms.capture /\ ms.capture[l].len # Unfinished
MatchCapture(ms, s, l) ==
    LET c == ms.capture[l] IN
    CASE ~CheckCapture(ms, l) -> Raise(ms, "invalid capture index")
      \* A position has length -2, which is no length of a text.
      [] CheckCapture(ms, l) /\ c.len = Position -> Result(ms, NoMatch)
      [] OTHER -> Result(ms, IF /\ SrcEnd(ms) - s >= c.len
                                /\ \A i \in 0 .. c.len - 1 : S(ms, c.init + i) = S(ms, s + i)
                             THEN s + c.len ELSE NoMatch)

-----------------------------------------------------------------------------
(* match: where the pattern from p on matches the subject from s on.  What *)
(* the code does by `goto init' goes on in Matching, without another call. *)
RECURSIVE Matching(_, _, _), MaxTry(_, _, _, _), MinExpand(_, _, _, _), Repetitions(_, _, _, _)

Match(ms, s, p) ==
    IF ms.depth = 0 THEN Raise(ms, "pattern too complex")
    ELSE [Matching([ms EXCEPT !.depth = @ - 1], s, p) EXCEPT !.ms.depth = @ + 1]

Repetitions(ms, s, p, ep) ==
    IF SingleMatch(ms, s, p, ep) THEN 1 + Repetitions(ms, s + 1, p, ep) ELSE 0
MaxTried(r, s, i, ep) == IF Final(r) \/ i = 0 THEN r ELSE MaxTry(r.ms, s, i - 1, ep)
MaxTry(ms, s, i, ep) == MaxTried(Match(ms, s + i, ep + 1), s, i, ep)
MaxExpand(ms, s, p, ep) == MaxTry(ms, s, Repetitions(ms, s, p, ep), ep)
MinTried(r, s, p, ep) ==
    CASE Final(r) -> r
      [] ~Final(r) /\ SingleMatch(r.ms, s, p, ep) -> MinExpand(r.ms, s + 1, p, ep)
      [] OTHER -> Result(r.ms, NoMatch)
MinExpand(ms, s, p, ep) == MinTried(Match(ms, s, ep + 1), s, p, ep)

Discarded(r) ==
    IF Final(r) THEN r ELSE Result([r.ms EXCEPT !.capture = SubSeq(@, 1, Len(@) - 1)], NoMatch)
StartCapture(ms, s, p, what) ==
    IF Len(ms.capture) >= MaxCaptures THEN Raise(ms, "too many captures")
    ELSE Discarded(Match([ms EXCEPT !.capture = Append(@, [init |-> s, len |-> what])], s, p))
\* Mutant: a capture stays closed when what follows it does not match.
EndCaptureKept(ms, s, p) ==
    LET l == CaptureToClose(ms) IN
    IF l = NoMatch THEN Raise(ms, "invalid pattern capture")
    ELSE Match([ms EXCEPT !.capture[l].len = s - ms.capture[l].init], s, p)
Reopened(r, l) ==
    IF Final(r) THEN r ELSE Result([r.ms EXCEPT !.capture[l].len = Unfinished], NoMatch)
EndCapture(ms, s, p) ==
    LET l == CaptureToClose(ms)
    IN IF l = NoMatch THEN Raise(ms, "invalid pattern capture")
       ELSE Reopened(Match([ms EXCEPT !.capture[l].len = s - ms.capture[l].init], s, p), l)

Frontier(ms, s, p) ==
    LET ep == ClassEnd(ms, p)
        previous == IF s = 1 THEN Zero ELSE S(ms, s - 1)
    IN CASE P(ms, p) # "[" -> Raise(ms, "missing '[' after '%f'")
         [] P(ms, p) = "[" /\ ep = NoMatch -> Raise(ms, "malformed pattern")
         [] OTHER -> IF /\ ~MatchBracketClass(ms, previous, p, ep - 1)
                        /\ MatchBracketClass(ms, S(ms, s), p, ep - 1)
                     THEN Matching(ms, s, ep) ELSE Result(ms, NoMatch)
Then(r, p) == IF r.at = NoMatch THEN r ELSE Matching(r.ms, r.at, p)

\* A class with its suffix.
Optional(once, s, ep) == IF Final(once) THEN once ELSE Matching(once.ms, s, ep + 1)
MatchSuffix(ms, s, p, ep, suffix) ==
    CASE ep = NoMatch -> Raise(ms, "malformed pattern")
      [] ep # NoMatch /\ ~SingleMatch(ms, s, p, ep) ->
            IF suffix \in {"*", "?", "-"} THEN Matching(ms, s, ep + 1) ELSE Result(ms, NoMatch)
      [] OTHER -> CASE suffix = "?" -> Optional(Match(ms, s + 1, ep + 1), s, ep)
                    [] suffix \in {"+", "*"} ->
                          MaxExpand(ms, IF suffix = "+" THEN s + 1 ELSE s, p, ep)
                    [] suffix = "-" -> MinExpand(ms, s, p, ep)
                    [] OTHER -> Matching(ms, s + 1, ep)
MatchDefault(ms, s, p) == MatchSuffix(ms, s, p, ClassEnd(ms, p), P(ms, ClassEnd(ms, p)))
Matching(ms, s, p) ==
    LET c == P(ms, p)  next == P(ms, p + 1) IN
    CASE p = PEnd(ms) -> Result(ms, s)
      [] c = "(" /\ next = ")" -> StartCapture(ms, s, p + 2, Position)
      [] c = "(" /\ next # ")" -> StartCapture(ms, s, p + 1, Unfinished)
      [] c = ")" -> EndCapture(ms, s, p + 1)
      [] c = "$" /\ p + 1 = PEnd(ms) -> Result(ms, IF s = SrcEnd(ms) THEN s ELSE NoMatch)
      [] c = "%" /\ next = "b" -> Then(MatchBalance(ms, s, p + 2), p + 4)
      [] c = "%" /\ next = "f" -> Frontier(ms, s, p + 2)
      [] c = "%" /\ next \in {"0", "1", "2"} -> Then(MatchCapture(ms, s, IndexOf(next)), p + 2)
      [] OTHER -> MatchDefault(ms, s, p)

-----------------------------------------------------------------------------
(* What a match gives to the program. *)
Text(t) == [text |-> t, position |-> NoMatch]
OneCapture(ms, i, s, e) ==
    LET c == ms.capture[i] IN
    IF i > Len(ms.capture) THEN Text(SubSeq(ms.src, s, e - 1))
    ELSE IF c.len = Position THEN [text |-> <<>>, position |-> c.init]
    ELSE Text(SubSeq(ms.src, c.init, c.init + c.len - 1))
\* get_onecapture's errors; where no capture is, the first is the whole match.
CaptureError(ms, i) ==
    CASE i > Len(ms.capture) -> IF i = 1 THEN "none" ELSE "invalid capture index"
      [] OTHER -> IF ms.capture[i].len = Unfinished THEN "unfinished capture" ELSE "none"
IsUnfinished(ms) == \E i \in DOMAIN ms.capture : ms.capture[i].len = Unfinished
\* push_captures; without a match range there is no whole match to push.
PushCaptures(ms, s, e, whole) ==
    LET n == IF Len(ms.capture) = 0 /\ whole THEN 1 ELSE Len(ms.capture)
    IN [i \in 1 .. n |-> OneCapture(ms, i, s, e)]

NotFound == [found |-> FALSE, first |-> 0, last |-> 0, captures |-> <<>>, error |-> "none"]
Failed(message) == [NotFound EXCEPT !.error = message]
Found(r, s, whole) ==
    IF IsUnfinished(r.ms) THEN Failed("unfinished capture")
    ELSE [found |-> TRUE, first |-> s, last |-> r.at - 1,
          captures |-> PushCaptures(r.ms, s, r.at, whole), error |-> "none"]

PosRelat(pos, len) ==
    CASE pos > 0 -> pos
      [] pos = 0 \/ pos < -len -> 1
      [] OTHER -> len + pos + 1
Specials == {"^", "$", "*", "+", "?", ".", "(", "[", "%", "-"}
NoSpecials(pat) == \A i \in DOMAIN pat : pat[i] \notin Specials
\* lmemfind.
PlainFind(src, init, pat) ==
    LET at == {s \in init .. Len(src) - Len(pat) + 1 : SubSeq(src, s, s + Len(pat) - 1) = pat}
    IN IF at = {} THEN NotFound
       ELSE [NotFound EXCEPT !.found = TRUE, !.first = Min(at), !.last = Min(at) + Len(pat) - 1]

Anchored(pat) == pat # <<>> /\ pat[1] = "^"
WithoutAnchor(pat) == IF Anchored(pat) THEN Tail(pat) ELSE pat
RECURSIVE FindFrom(_, _, _, _)
FoundFrom(r, ms, s, anchor, whole) ==
    CASE r.ms.error # "none" -> Failed(r.ms.error)
      [] r.ms.error = "none" /\ r.at # NoMatch -> Found(r, s, whole)
      [] OTHER -> IF s < SrcEnd(ms) /\ ~anchor THEN FindFrom(ms, s + 1, anchor, whole)
                  ELSE NotFound
FindFrom(ms, s, anchor, whole) == FoundFrom(Match(ms, s, 1), ms, s, anchor, whole)
\* str_find_aux.
StrFind(src, pat, pos, find, plain) ==
    LET init == PosRelat(pos, Len(src)) IN
    CASE init > Len(src) + 1 -> NotFound
      [] init <= Len(src) + 1 /\ find /\ (plain \/ NoSpecials(pat)) -> PlainFind(src, init, pat)
      [] OTHER -> FindFrom(Prepared(src, WithoutAnchor(pat)), init, Anchored(pat), ~find)

-----------------------------------------------------------------------------
(* gmatch and gsub. *)
\* One call of the iterator: from src on, the first match that does not end
\* where the last one did.
RECURSIVE GmatchAux(_, _, _)
GmatchTried(r, ms, src, lastMatch) ==
    CASE src > SrcEnd(ms) -> NotFound
      [] src <= SrcEnd(ms) /\ r.ms.error # "none" -> Failed(r.ms.error)
      [] src <= SrcEnd(ms) /\ r.ms.error = "none" /\ r.at # NoMatch /\ r.at # lastMatch ->
            Found(r, src, TRUE)
      [] OTHER -> GmatchAux(ms, src + 1, lastMatch)
GmatchAux(ms, src, lastMatch) == GmatchTried(Match(ms, src, 1), ms, src, lastMatch)

\* What is put in the place of a match, or the error that ends the call.
Put(text) == [text |-> text, error |-> "none"]
Wrong(message) == [text |-> <<>>, error |-> message]

\* add_s: the replacement with %0, %1, %2 and %% put in.
ShownCapture(capture) ==
    IF capture.position = NoMatch THEN capture.text ELSE <<ToString(capture.position)>>
Escape(ms, c, s, e) ==
    CASE c = "%" -> Put(<<"%">>)
      [] c = "0" -> Put(SubSeq(ms.src, s, e - 1))
      [] c \in {"1", "2"} ->
            IF CaptureError(ms, IndexOf(c)) # "none" THEN Wrong(CaptureError(ms, IndexOf(c)))
            ELSE Put(ShownCapture(OneCapture(ms, IndexOf(c), s, e)))
      [] OTHER -> Wrong("invalid use of '%' in replacement string")
RECURSIVE AddS(_, _, _, _, _)
AddEscaped(part, ms, new, s, e, out) ==
    IF part.error # "none" THEN part
    ELSE AddS(ms, SubSeq(new, 3, Len(new)), s, e, out \o part.text)
AddS(ms, new, s, e, out) ==
    CASE new = <<>> -> Put(out)
      [] new # <<>> /\ new[1] # "%" -> AddS(ms, Tail(new), s, e, Append(out, new[1]))
      [] OTHER -> AddEscaped(Escape(ms, IF Len(new) > 1 THEN new[2] ELSE Zero, s, e),
                             ms, new, s, e, out)

\* add_value: a text, a table of the first capture or a function of them all,
\* known by its values; nil and false keep the original.
Nil == [kind |-> "nil"]
TextValue(t) == [kind |-> "text", text |-> t]
OtherValue == [kind |-> "other"]
Given(repl, key) == IF key \in DOMAIN repl.values THEN repl.values[key] ELSE Nil
Keyed(ms, repl, s, e) ==
    IF repl.kind = "table" THEN <<OneCapture(ms, 1, s, e)>> ELSE PushCaptures(ms, s, e, TRUE)
AddGiven(value, original) ==
    CASE value.kind = "nil" -> Put(original)
      [] value.kind = "text" -> Put(value.text)
      [] OTHER -> Wrong("invalid replacement value")
AddValue(ms, repl, s, e) ==
    CASE repl.kind = "text" -> AddS(ms, repl.text, s, e, <<>>)
      [] \/ repl.kind = "table" /\ CaptureError(ms, 1) # "none"
         \/ repl.kind = "function" /\ IsUnfinished(ms) -> Wrong("unfinished capture")
      [] OTHER -> AddGiven(Given(repl, Keyed(ms, repl, s, e)), SubSeq(ms.src, s, e - 1))

Answer(text, n, error) == [text |-> text, n |-> n, error |-> error]
RECURSIVE GsubFrom(_, _, _, _, _, _, _)
GsubReplaced(put, ms, e, n, most, repl, out) ==
    IF put.error # "none" THEN Answer(<<>>, n, put.error)
    ELSE IF most.anchor
    THEN Answer(out \o put.text \o SubSeq(ms.src, e, Len(ms.src)), n, "none")
    ELSE GsubFrom(ms, e, e, n, most, repl, out \o put.text)
GsubTried(r, ms, src, lastMatch, n, most, repl, out) ==
    CASE n >= most.count -> Answer(out \o SubSeq(ms.src, src, Len(ms.src)), n, "none")
      [] n < most.count /\ r.ms.error # "none" -> Answer(<<>>, n, r.ms.error)
      [] n < most.count /\ r.ms.error = "none" /\ r.at # NoMatch /\ r.at # lastMatch ->
            GsubReplaced(AddValue(r.ms, repl, src, r.at), ms, r.at, n + 1, most, repl, out)
      [] OTHER -> IF src < SrcEnd(ms) /\ ~most.anchor
                  THEN GsubFrom(ms, src + 1, lastMatch, n, most, repl, Append(out, ms.src[src]))
                  ELSE Answer(out \o SubSeq(ms.src, src, Len(ms.src)), n, "none")
GsubFrom(ms, src, lastMatch, n, most, repl, out) ==
    GsubTried(Match(ms, src, 1), ms, src, lastMatch, n, most, repl, out)
StrGsub(src, pat, repl, count) ==
    GsubFrom(Prepared(src, WithoutAnchor(pat)), 1, NoMatch, 0,
             [count |-> count, anchor |-> Anchored(pat)], repl, <<>>)

-----------------------------------------------------------------------------
(***************************************************************************)
(* Programs that search with LuaPattern, and what the reference manual     *)
(* says they find.  A pattern here is a sequence of items with a meaning;  *)
(* the library is given their text.  The meaning of a whole pattern is     *)
(* said without trying and going back: of all the ways to lay the items    *)
(* out on the subject, the first in the order of their preferences.        *)
(***************************************************************************)

CONSTANT Searches \* what programs ask for
VARIABLE search   \* the call, the answers so far, and where gmatch goes on
patternVars == <<search>>

PatternItem(kind, text) == [kind |-> kind, text |-> text, set |-> {}, suffix |-> "none"]
Class(text, set, suffix) == [kind |-> "single", text |-> text, set |-> set, suffix |-> suffix]
OpenItem == PatternItem("open", <<"(">>)
CloseItem == PatternItem("close", <<")">>)
PositionItem == PatternItem("position", <<"(", ")">>)
BalanceItem == PatternItem("balance", <<"%", "b", "a", "b">>)
BackItem == PatternItem("back", <<"%", "1">>)
EndItem == PatternItem("end", <<"$">>)
FrontierItem(text, set) == [PatternItem("frontier", <<"%", "f">> \o text) EXCEPT !.set = set]
Malformed(text) == PatternItem("malformed", text)

ItemText(item) == IF item.suffix = "none" THEN item.text ELSE Append(item.text, item.suffix)
PatternText(ask) ==
    (IF ask.anchor THEN <<"^">> ELSE <<>>) \o FlattenSeq([i \in DOMAIN ask.items |-> ItemText(ask.items[i])])

-----------------------------------------------------------------------------
(* The calls; gmatch begins at its place or just behind the subject. *)
First(ask) == PosRelat(ask.init, Len(ask.src))
GmatchStart(ask) == IF First(ask) > Len(ask.src) + 1 THEN Len(ask.src) + 2 ELSE First(ask)
PatternInit == \E ask \in Searches :
    search = [ask |-> ask, answers |-> <<>>, from |-> GmatchStart(ask), last |-> NoMatch,
              over |-> FALSE]
PatternRest ==
    search = [ask |-> [call |-> "none"], answers |-> <<>>, from |-> 1, last |-> NoMatch, over |-> TRUE]
Calling(call) == ~search.over /\ search.ask.call = call
Answered(answer) == search' = [search EXCEPT !.answers = <<answer>>, !.over = TRUE]

CallFind ==
    /\ Calling("find")
    /\ Answered(StrFind(search.ask.src, PatternText(search.ask), search.ask.init, TRUE,
                        search.ask.plain))
CallMatch ==
    /\ Calling("match")
    /\ Answered(StrFind(search.ask.src, PatternText(search.ask), search.ask.init, FALSE, FALSE))
Yielded(r) == search' = [search EXCEPT !.answers = Append(@, r), !.over = ~r.found,
                                       !.from = r.last + 1, !.last = r.last + 1]
CallGmatch ==
    /\ Calling("gmatch")
    /\ Yielded(GmatchAux(Prepared(search.ask.src, PatternText(search.ask)), search.from,
                         search.last))
CallGsub ==
    /\ Calling("gsub")
    /\ Answered(StrGsub(search.ask.src, PatternText(search.ask), search.ask.repl, search.ask.count))
PatternNext == CallFind \/ CallMatch \/ CallGmatch \/ CallGsub

-----------------------------------------------------------------------------
(* What a pattern means. *)
Opens(items) == {i \in DOMAIN items : items[i].kind \in {"open", "position"}}
Depth(items, n) == Cardinality({i \in 1 .. n : items[i].kind = "open"})
                   - Cardinality({i \in 1 .. n : items[i].kind = "close"})
CloseOf(items, i) ==
    IF items[i].kind = "position" THEN i
    ELSE Min({c \in i .. Len(items) : items[c].kind = "close" /\ Depth(items, c) = Depth(items, i) - 1})
WellFormed(items) ==
    /\ Depth(items, Len(items)) = 0
    /\ \A i \in DOMAIN items :
         /\ items[i].kind # "malformed" /\ Depth(items, i) >= 0
         /\ items[i].kind = "open" => items[i + 1].kind # "close" \* that text is a position
    /\ \A i \in DOMAIN items :
         items[i].kind = "back" =>
            \E o \in Opens(items) : o < i /\ CloseOf(items, o) < i /\ \A p \in Opens(items) : o <= p

\* The subject between two places, and whether an item is there.
Between(src, from, to) == SubSeq(src, from, to - 1)
Balanced(src, from, to) ==
    LET opened(n) == Cardinality({i \in from .. n : src[i] = "a"})
        closed(n) == Cardinality({i \in from .. n : src[i] = "b"})
    IN /\ to > from /\ src[from] = "a" /\ opened(to - 1) = closed(to - 1)
       /\ \A n \in from .. to - 2 : opened(n) > closed(n)
At(src, i) == IF i \in DOMAIN src THEN src[i] ELSE Zero
Laid(items, src, v, i) ==
    LET item == items[i]  from == v[i - 1]  to == v[i]
        first == Min(Opens(items))
        captured == Between(src, v[first], v[CloseOf(items, first) - 1])
    IN CASE item.kind = "single" ->
               /\ \A j \in from .. to - 1 : src[j] \in item.set
               /\ CASE item.suffix = "none" -> to = from + 1
                    [] item.suffix = "?" -> to <= from + 1
                    [] item.suffix = "+" -> to > from
                    [] OTHER -> TRUE
         [] item.kind = "balance" -> Balanced(src, from, to)
         [] item.kind = "frontier" ->
               to = from /\ At(src, from - 1) \notin item.set /\ At(src, from) \in item.set
         [] item.kind = "back" -> items[first].kind = "open" /\ Between(src, from, to) = captured
         [] item.kind = "end" -> to = from /\ from = Len(src) + 1
         [] OTHER -> to = from
\* Ways to lay the items out from a start on, and the one that is preferred:
\* as much as possible for an item, but as little for one with a `-'.
Ways(items, src, start) ==
    {v \in [0 .. Len(items) -> start .. Len(src) + 1] :
        /\ v[0] = start
        /\ \A i \in DOMAIN items : v[i - 1] <= v[i] /\ Laid(items, src, v, i)}
Preferred(items, v, w) ==
    \E i \in DOMAIN items :
       /\ \A j \in 1 .. i - 1 : v[j] = w[j]
       /\ v[i] # w[i]
       /\ (items[i].suffix = "-") <=> v[i] < w[i]
Best(items, src, start) ==
    LET ways == Ways(items, src, start)
    IN CHOOSE v \in ways : \A w \in ways \ {v} : Preferred(items, v, w)
Matches(items, src, start) == Ways(items, src, start) # {}
MatchEnd(items, src, start) == Best(items, src, start)[Len(items)]

CaptureAt(items, src, v, i) ==
    IF items[i].kind = "position" THEN [text |-> <<>>, position |-> v[i]]
    ELSE Text(Between(src, v[i], v[CloseOf(items, i) - 1]))
CapturesOn(items, src, v, whole) ==
    LET opens == SetToSortSeq(Opens(items), <)
    IN IF opens = <<>> /\ whole THEN <<Text(Between(src, v[0], v[Len(items)]))>>
       ELSE [n \in DOMAIN opens |-> CaptureAt(items, src, v, opens[n])]
CapturesOf(items, src, start, whole) == CapturesOn(items, src, Best(items, src, start), whole)

MeantAt(ask, starts) ==
    LET s == Min(starts)
    IN IF starts = {} THEN NotFound
       ELSE [found |-> TRUE, first |-> s, last |-> MatchEnd(ask.items, ask.src, s) - 1,
             captures |-> CapturesOf(ask.items, ask.src, s, ask.call # "find"), error |-> "none"]
Meant(ask) ==
    LET first == First(ask)
    IN MeantAt(ask, {s \in first .. (IF ask.anchor THEN first ELSE Len(ask.src) + 1) :
                        s <= Len(ask.src) + 1 /\ Matches(ask.items, ask.src, s)})

\* How deep a pattern makes match call itself, whatever the subject is.
Nesting(items) ==
    1 + Cardinality({i \in DOMAIN items : \/ items[i].kind \in {"open", "close", "position"}
                                          \/ items[i].suffix # "none"})
Exceeded(items, error) ==
    \/ error = "too many captures" /\ Cardinality(Opens(items)) > MaxCaptures
    \/ error = "pattern too complex" /\ Nesting(items) > MaxCalls

(* string.find and string.match find the leftmost match, the preferred one *)
(* there and its captures, however much was tried before; and an error is  *)
(* raised only for a pattern that is malformed, or that has too much in it *)
(* for any subject (match and str_find_aux of lstrlib.c).                  *)
SearchesTrue ==
    search.ask.call \in {"find", "match"} /\ search.over =>
        LET ask == search.ask  answer == search.answers[1] IN
        IF ask.plain
        THEN answer.found <=>
               \E s \in First(ask) .. Len(ask.src) + 1 - Len(PatternText(ask)) :
                  Between(ask.src, s, s + Len(PatternText(ask))) = PatternText(ask)
        ELSE WellFormed(ask.items) => Exceeded(ask.items, answer.error) \/ answer = Meant(ask)

(* The matches of a subject: each the first that does not end where the    *)
(* one before it did.  gmatch gives them one by one, and gsub puts the     *)
(* replacement of each in its place and leaves the rest, or fails because  *)
(* one of them is no text (gmatch_aux, str_gsub).                          *)
RECURSIVE MatchesFrom(_, _, _, _)
MatchesThen(items, src, s, e) == <<[s |-> s, e |-> e]>> \o MatchesFrom(items, src, e, e)
MatchesAt(items, src, starts) ==
    IF starts = {} THEN <<>>
    ELSE MatchesThen(items, src, Min(starts), MatchEnd(items, src, Min(starts)))
MatchesFrom(items, src, from, last) ==
    MatchesAt(items, src, {s \in from .. Len(src) + 1 :
                              Matches(items, src, s) /\ MatchEnd(items, src, s) # last})
AllMatches(ask) ==
    IF ~ask.anchor
    THEN MatchesFrom(ask.items, ask.src, IF ask.call = "gsub" THEN 1 ELSE First(ask), NoMatch)
    ELSE IF Matches(ask.items, ask.src, 1)
         THEN <<[s |-> 1, e |-> MatchEnd(ask.items, ask.src, 1)]>> ELSE <<>>
PartText(part, captures, whole) ==
    CASE part = "%0" -> whole
      [] part = "%1" -> ShownCapture(captures[1])
      [] part = "%2" -> ShownCapture(captures[2])
      [] part = "%%" -> <<"%">>
      [] OTHER -> <<part>>
Unfit(repl, captures) ==
    IF repl.kind = "text"
    THEN \E part \in ToSet(repl.parts) : part = "%a" \/ (part = "%2" /\ Len(captures) < 2)
    ELSE Given(repl, IF repl.kind = "table" THEN <<captures[1]>> ELSE captures) = OtherValue
Replaced(repl, captures, whole) ==
    IF repl.kind = "text"
    THEN FlattenSeq([i \in DOMAIN repl.parts |-> PartText(repl.parts[i], captures, whole)])
    ELSE LET value == Given(repl, IF repl.kind = "table" THEN <<captures[1]>> ELSE captures)
         IN IF value = Nil THEN whole ELSE value.text
CapturesIn(ask, m) == CapturesOf(ask.items, ask.src, m.s, TRUE)
Replacement(ask, m) == Replaced(ask.repl, CapturesIn(ask, m), Between(ask.src, m.s, m.e))
SubstitutedIn(ask, all) ==
    LET n == IF Len(all) < ask.count THEN Len(all) ELSE ask.count
        end(i) == IF i = 0 THEN 1 ELSE all[i].e
        piece(i) == Between(ask.src, end(i - 1), all[i].s) \o Replacement(ask, all[i])
    IN Answer(FlattenSeq([i \in 1 .. n |-> piece(i)]) \o Between(ask.src, end(n), Len(ask.src) + 1),
              n, "none")
Unusable(ask, all) ==
    \E i \in DOMAIN all : i <= ask.count /\ Unfit(ask.repl, CapturesIn(ask, all[i]))
Iterated(ask, all, answers) ==
    \A i \in DOMAIN answers :
       IF i > Len(all) THEN answers[i] = NotFound
       ELSE /\ answers[i].first = all[i].s /\ answers[i].last = all[i].e - 1
            /\ answers[i].captures = CapturesOf(ask.items, ask.src, all[i].s, TRUE)
Repeated(ask, all) ==
    /\ ask.call = "gsub" /\ search.over =>
         IF Unusable(ask, all) THEN search.answers[1].error # "none"
         ELSE search.answers[1] = SubstitutedIn(ask, all)
    /\ ask.call = "gmatch" =>
         /\ Iterated(ask, all, search.answers)
         /\ search.over => Len(search.answers) = Len(all) + 1
RepeatsTrue ==
    search.ask.call \in {"gsub", "gmatch"} /\ search.answers # <<>> /\ WellFormed(search.ask.items)
    => \/ Exceeded(search.ask.items, Last(search.answers).error)
       \/ Repeated(search.ask, AllMatches(search.ask))

(* One search, and searches one after the other, find what the pattern     *)
(* means (lstrlib.c).                                                      *)
PatternsTrue == SearchesTrue /\ RepeatsTrue
=============================================================================
