----------------------------- MODULE LuaMeaning -----------------------------
(***************************************************************************)
(* What a Lua program means, said of its syntax tree and without a         *)
(* compiler: the reference that the code of the compiler is held against.  *)
(* The manual leaves the order of assignments and of the values of their   *)
(* targets open; the order here is that of the program text, and the       *)
(* assignments go from the last to the first.                              *)
(*                                                                         *)
(* Expressions and statements are tuples that begin with their kind.  A    *)
(* statement works on [w, env, flow, label, vals]: the world, the locals   *)
(* from the outermost in, and how the statement ended.                     *)
(*                                                                         *)
(* What the operators do to values (lua/src/lvm.c, ltm.c) comes first; the *)
(* compiler and the interpreter share it: integers, strings of digits,     *)
(* nil, booleans, tables without metatables, two native functions, and an  *)
(* object whose metamethods note that they were called.  A world is what   *)
(* an execution changes: the globals, the tables, the trace of calls,      *)
(* whether it failed, and whether the trace is full, which ends the        *)
(* execution of a program that may not end.                                *)
(***************************************************************************)
EXTENDS Integers, Sequences, SequencesExt

CONSTANT MaxEvents      \* calls in a trace
ASSUME ValuesConstants == MaxEvents \in Nat \ {0}

Value(t, n) == [t |-> t, n |-> n]
Nil == Value("nil", 0)
Bool(b) == Value("bool", IF b THEN 1 ELSE 0)
Number(n) == Value("int", n)
Str(n) == Value("str", n)
Object == Value("object", 0)
Table(n) == Value("table", n)
IsFalse(v) == v = Nil \/ v = Bool(FALSE)
IsTrue(v) == ~IsFalse(v)

Event(ev, args) == [ev |-> ev, args |-> args]
Note(w, ev, args) ==
    IF w.full THEN w
    ELSE [w EXCEPT !.trace = Append(@, Event(ev, args)),
                   !.full = Len(w.trace) + 1 = MaxEvents]
Fail(w) == [w EXCEPT !.failed = TRUE]
\* The world and a value.
WV(w, v) == [w |-> w, v |-> v]

-----------------------------------------------------------------------------
(* Strings are numbers in base 12: `-' is 1 and the digits are 2..11. *)
RECURSIVE StrWidth(_), DigitsOf(_), DigitsValue(_), AllDigits(_)
StrWidth(s) == IF s = 0 THEN 1 ELSE 12 * StrWidth(s \div 12)
DigitsOf(n) == IF n < 10 THEN n + 2 ELSE 12 * DigitsOf(n \div 10) + (n % 10) + 2
StrOfNumber(n) == IF n >= 0 THEN DigitsOf(n) ELSE StrWidth(DigitsOf(-n)) + DigitsOf(-n)
DigitsValue(s) == IF s = 0 THEN 0 ELSE 10 * DigitsValue(s \div 12) + (s % 12) - 2
AllDigits(s) == s = 0 \/ (s % 12 \in 2..11 /\ AllDigits(s \div 12))
\* l_str2int: an optional `-', and digits.
HasMinus(s) == s \div (StrWidth(s) \div 12) = 1
Unsigned(s) == IF HasMinus(s) THEN s % (StrWidth(s) \div 12) ELSE s
IsNumeral(v) == v.t = "str" /\ v.n # 0 /\ Unsigned(v.n) # 0 /\ AllDigits(Unsigned(v.n))
NumberOf(s) == IF HasMinus(s) THEN -DigitsValue(Unsigned(s)) ELSE DigitsValue(s)

IsText(v) == v.t \in {"str", "int"}
TextOf(v) == IF v.t = "int" THEN StrOfNumber(v.n) ELSE v.n

-----------------------------------------------------------------------------
(* Operators; a metamethod is the object's if one operand is the object. *)
RawOp(op, x, y) == CASE op = "ADD" -> x + y [] op = "SUB" -> x - y [] op = "MUL" -> x * y
\* luaT_trybinTM: strings have the metamethods of lstrlib.c, which convert
\* a numeral.
AsNumber(v) == IF v.t = "int" THEN v.n ELSE NumberOf(v.n)
TryBinTM(w, op, x, y) ==
    IF Object \in {x, y} THEN WV(Note(w, op, <<x, y>>), Number(IF op = "UNM" THEN 3 ELSE 2))
    ELSE IF \A v \in {x, y} : v.t = "int" \/ IsNumeral(v)
    THEN WV(w, Number(IF op = "UNM" THEN -AsNumber(x) ELSE RawOp(op, AsNumber(x), AsNumber(y))))
    ELSE WV(Fail(w), Nil)
ArithOf(w, op, x, y) ==
    IF x.t = "int" /\ y.t = "int" THEN WV(w, Number(RawOp(op, x.n, y.n)))
    ELSE TryBinTM(w, op, x, y)
Minus(w, x) == IF x.t = "int" THEN WV(w, Number(-x.n)) ELSE TryBinTM(w, "UNM", x, x)

ConcatOf(w, x, y) ==
    IF IsText(x) /\ IsText(y) THEN WV(w, Str(TextOf(x) * StrWidth(TextOf(y)) + TextOf(y)))
    ELSE IF Object \in {x, y} THEN WV(Note(w, "CONCAT", <<x, y>>), Str(2))
    ELSE WV(Fail(w), Nil)

\* Strings are compared from the left, a shorter one as if it were padded.
OrderOf(w, op, x, y) ==
    LET a == IF x.t = "str" THEN x.n * StrWidth(y.n) ELSE x.n
        b == IF y.t = "str" THEN y.n * StrWidth(x.n) ELSE y.n
    IN
    IF x.t = y.t /\ IsText(x) THEN WV(w, Bool(IF op = "LT" THEN a < b ELSE a <= b))
    ELSE IF Object \in {x, y} THEN WV(Note(w, op, <<x, y>>), Bool(x = Object))
    ELSE WV(Fail(w), Nil)

-----------------------------------------------------------------------------
(* Tables are functions of the keys that are not nil. *)
FieldOf(w, t, key) ==
    IF t.t # "table" THEN WV(Fail(w), Nil)
    ELSE IF key \in DOMAIN w.tables[t.n] THEN WV(w, w.tables[t.n][key])
    ELSE WV(w, Nil)
Put(w, t, key, v) ==
    IF t.t # "table" \/ key = Nil THEN Fail(w)
    ELSE [w EXCEPT !.tables[t.n] =
             [k \in (DOMAIN @ \cup {key}) \ (IF v = Nil THEN {key} ELSE {}) |->
                 IF k = key THEN v ELSE @[k]]]
NewTable(w) == WV([w EXCEPT !.tables = Append(@, [k \in {} |-> Nil])], Table(Len(w.tables) + 1))

GlobalValue(w, name) == IF name \in DOMAIN w.globals THEN w.globals[name] ELSE Nil
SetGlobal(w, name, v) ==
    [w EXCEPT !.globals = [k \in DOMAIN @ \cup {name} |-> IF k = name THEN v ELSE @[k]]]

\* The native functions: the first returns its arguments, the second counts.
Echo == Value("function", 1)
Counter == Value("function", 2)
CallValue(w, f, args) ==
    LET noted == Note(w, "call", args)
        more == Len(args) = 2 /\ args[1].t = "int" /\ args[2].t = "int" /\ args[2].n < args[1].n
    IN CASE f = Echo -> WV(noted, args)
         [] f = Counter -> WV(noted, <<IF more THEN Number(args[2].n + 1) ELSE Nil>>)
         [] OTHER -> WV(Fail(w), <<>>)

\* A variable to be closed holds false, or the object.
Closable(v) == IsFalse(v) \/ v = Object
CloseValue(w, v) == IF IsFalse(v) THEN w ELSE Note(w, "close", <<v, Bool(w.failed)>>)

-----------------------------------------------------------------------------

Stop(w) == w.failed \/ w.full
Binding(name, value, closes) == [name |-> name, value |-> value, closes |-> closes]
Bound(env, name) == {i \in DOMAIN env : env[i].name = name}
Innermost(env, name) == CHOOSE i \in Bound(env, name) : \A j \in Bound(env, name) : j <= i
ValueOf(w, env, name) ==
    IF Bound(env, name) = {} THEN GlobalValue(w, Str(name)) ELSE env[Innermost(env, name)].value
Adjust(vals, n) == [i \in 1..n |-> IF i <= Len(vals) THEN vals[i] ELSE Nil]
FirstOf(vals) == IF vals = <<>> THEN Nil ELSE vals[1]

-----------------------------------------------------------------------------
(* Expressions: one value, or all of a call's. *)
RECURSIVE Eval(_, _, _), EvalAll(_, _, _), EvalList(_, _, _), EvalItems(_, _, _, _, _)

EvalList(w, env, exprs) ==
    LET first == Eval(w, env, Head(exprs))
        rest == EvalList(first.w, env, Tail(exprs))
    IN CASE exprs = <<>> -> WV(w, <<>>)
         [] Len(exprs) = 1 -> EvalAll(w, env, exprs[1])
         [] OTHER -> WV(rest.w, <<first.v>> \o rest.v)

EvalAll(w, env, e) ==
    IF e[1] # "call" THEN LET r == Eval(w, env, e) IN WV(r.w, <<r.v>>)
    ELSE LET f == Eval(w, env, e[2])
             args == EvalList(f.w, env, e[3])
         IN IF Stop(args.w) THEN WV(args.w, <<>>) ELSE CallValue(args.w, f.v, args.v)

EvalBin(w, env, e) ==
    LET x == Eval(w, env, e[3])
        y == Eval(x.w, env, e[4])
        equal == WV(y.w, Bool(x.v = y.v))
    IN CASE e[2] = "and" -> IF IsFalse(x.v) THEN x ELSE y
         [] e[2] = "or" -> IF IsTrue(x.v) THEN x ELSE y
         [] Stop(y.w) /\ e[2] \notin {"and", "or"} -> WV(y.w, Nil)
         [] OTHER -> CASE e[2] \in {"ADD", "SUB", "MUL"} -> ArithOf(y.w, e[2], x.v, y.v)
                       [] e[2] = "CONCAT" -> ConcatOf(y.w, x.v, y.v)
                       [] e[2] = "EQ" -> equal
                       [] e[2] = "NE" -> WV(y.w, Bool(x.v # y.v))
                       [] e[2] \in {"LT", "LE"} -> OrderOf(y.w, e[2], x.v, y.v)
                       [] e[2] = "GT" -> OrderOf(y.w, "LT", y.v, x.v)
                       [] e[2] = "GE" -> OrderOf(y.w, "LE", y.v, x.v)

\* A constructor: the last item gives all its values; n items are counted.
EvalItems(w, env, items, t, n) ==
    LET it == Head(items)
        key == IF it[1] = "named" THEN WV(w, Str(it[2])) ELSE Eval(w, env, it[2])
        val == Eval(key.w, env, it[3])
        all == EvalAll(w, env, it[2])
        put[i \in 0..Len(all.v)] ==
            IF i = 0 THEN all.w ELSE Put(put[i - 1], t, Number(n + i), all.v[i])
        one == Eval(w, env, it[2])
    IN CASE items = <<>> \/ Stop(w) -> w
         [] it[1] = "item" /\ Len(items) = 1 -> IF Stop(all.w) THEN all.w ELSE put[Len(all.v)]
         [] it[1] = "item" /\ Len(items) > 1 ->
               EvalItems(IF Stop(one.w) THEN one.w ELSE Put(one.w, t, Number(n + 1), one.v),
                         env, Tail(items), t, n + 1)
         [] OTHER -> EvalItems(IF Stop(val.w) THEN val.w ELSE Put(val.w, t, key.v, val.v),
                               env, Tail(items), t, n)

Eval(w, env, e) ==
    LET x == Eval(w, env, e[2])
        key == Eval(x.w, env, e[3])
        u == Eval(w, env, e[3])
        t == NewTable(w)
    IN IF Stop(w) THEN WV(w, Nil) ELSE
       CASE e[1] = "nil" -> WV(w, Nil)
         [] e[1] = "true" -> WV(w, Bool(TRUE))
         [] e[1] = "false" -> WV(w, Bool(FALSE))
         [] e[1] = "int" -> WV(w, Number(e[2]))
         [] e[1] = "str" -> WV(w, Str(e[2]))
         [] e[1] = "var" -> WV(w, ValueOf(w, env, e[2]))
         [] e[1] = "un" ->
               IF Stop(u.w) THEN u
               ELSE IF e[2] = "not" THEN WV(u.w, Bool(IsFalse(u.v))) ELSE Minus(u.w, u.v)
         [] e[1] = "bin" -> EvalBin(w, env, e)
         [] e[1] = "index" -> IF Stop(key.w) THEN key ELSE FieldOf(key.w, x.v, key.v)
         [] e[1] = "field" -> IF Stop(x.w) THEN x ELSE FieldOf(x.w, x.v, Str(e[3]))
         [] e[1] = "call" ->
               LET r == EvalAll(w, env, e) IN WV(r.w, FirstOf(r.v))
         [] e[1] = "paren" -> x
         [] e[1] = "table" -> WV(EvalItems(t.w, env, e[2], t.v, 0), t.v)

-----------------------------------------------------------------------------
(* Statements. *)
Continues(s) == s.flow = "normal" /\ ~Stop(s.w)
State(s, w) == [s EXCEPT !.w = w]
Flow(s, how, label) == [s EXCEPT !.flow = how, !.label = label]

\* The locals beyond n leave their scope, the last first.
RECURSIVE LeaveScope(_, _)
LeaveScope(s, n) ==
    IF Len(s.env) = n THEN s
    ELSE LeaveScope([s EXCEPT !.env = Front(@),
                              !.w = IF Last(s.env).closes THEN CloseValue(@, Last(s.env).value)
                                    ELSE @], n)
Enter(s, bindings) == [s EXCEPT !.env = @ \o bindings]

\* Targets: what an assignment is to, before its values are known.
RECURSIVE Targets(_, _, _), AssignAll(_, _, _)
Targets(w, env, lhs) ==
    LET e == Head(lhs)
        x == Eval(w, env, e[2])
        key == IF e[1] = "field" THEN WV(x.w, Str(e[3])) ELSE Eval(x.w, env, e[3])
        target == IF e[1] = "var" THEN <<"var", e[2]>> ELSE <<"slot", x.v, key.v>>
        rest == Targets(IF e[1] = "var" THEN w ELSE key.w, env, Tail(lhs))
    IN IF lhs = <<>> THEN WV(w, <<>>) ELSE WV(rest.w, <<target>> \o rest.v)
Assign(s, target, v) ==
    CASE Stop(s.w) -> s
      [] ~Stop(s.w) /\ target[1] = "slot" -> State(s, Put(s.w, target[2], target[3], v))
      [] ~Stop(s.w) /\ target[1] = "var" ->
            IF Bound(s.env, target[2]) = {} THEN State(s, SetGlobal(s.w, Str(target[2]), v))
            ELSE [s EXCEPT !.env[Innermost(s.env, target[2])].value = v]
AssignAll(s, targets, vals) ==
    IF targets = <<>> THEN s
    ELSE AssignAll(Assign(s, Last(targets), Last(vals)), Front(targets), Front(vals))

RECURSIVE Exec(_, _), ExecBlock(_, _), RunFrom(_, _, _, _), ExecIf(_, _, _), ExecWhile(_, _),
          ExecRepeat(_, _), ExecFor(_, _, _, _, _), ExecForIn(_, _, _, _, _)

\* A block, from statement i; n locals are outside it.
DeclaredBefore(block, j) ==
    LET ls == {i \in 1 .. j - 1 : block[i][1] = "local"}
        names[i \in 0 .. j - 1] ==
            IF i = 0 THEN 0 ELSE names[i - 1] + IF i \in ls THEN Len(block[i][2]) ELSE 0
    IN names[j - 1]
EndsBlock(block, j) == \A i \in j .. Len(block) : block[i][1] = "label"
RunFrom(s, block, i, n) ==
    LET e == Exec(s, block[i])
        labels == {j \in DOMAIN block : block[j][1] = "label" /\ block[j][2] = e.label}
        j == CHOOSE l \in labels : TRUE
        level == IF EndsBlock(block, j) THEN n ELSE n + DeclaredBefore(block, j)
    IN CASE i > Len(block) -> s
         [] i <= Len(block) /\ Continues(e) -> RunFrom(e, block, i + 1, n)
         [] i <= Len(block) /\ e.flow = "goto" /\ ~Stop(e.w) /\ labels # {} ->
               RunFrom(Flow(LeaveScope(e, level), "normal", 0), block, j + 1, n)
         [] OTHER -> e
ExecBlock(s, block) == LeaveScope(RunFrom(s, block, 1, Len(s.env)), Len(s.env))

ExecIf(s, clauses, otherwise) ==
    LET c == Eval(s.w, s.env, clauses[1][1])
    IN CASE clauses = <<>> -> ExecBlock(s, otherwise)
         [] clauses # <<>> /\ Stop(c.w) -> State(s, c.w)
         [] clauses # <<>> /\ ~Stop(c.w) ->
               IF IsTrue(c.v) THEN ExecBlock(State(s, c.w), clauses[1][2])
               ELSE ExecIf(State(s, c.w), Tail(clauses), otherwise)

\* A loop ends with a break, and is left by a goto or a return.
AfterLoop(s) == IF s.flow = "break" THEN Flow(s, "normal", 0) ELSE s
ExecWhile(s, stat) ==
    LET c == Eval(s.w, s.env, stat[2])
        b == ExecBlock(State(s, c.w), stat[3])
    IN IF Stop(c.w) \/ IsFalse(c.v) THEN State(s, c.w)
       ELSE IF Continues(b) THEN ExecWhile(b, stat) ELSE AfterLoop(b)
\* The condition of a repeat is in the scope of its block.
ExecRepeat(s, stat) ==
    LET n == Len(s.env)
        b == RunFrom(s, stat[2], 1, n)
        c == Eval(b.w, b.env, stat[3])
        out == LeaveScope(State(b, c.w), n)
    IN IF ~Continues(b) THEN AfterLoop(LeaveScope(b, n))
       ELSE IF Stop(out.w) \/ IsTrue(c.v) THEN out ELSE ExecRepeat(out, stat)
ExecFor(s, stat, i, limit, step) ==
    LET n == Len(s.env)
        b == LeaveScope(ExecBlock(Enter(s, <<Binding(stat[2], Number(i), FALSE)>>), stat[4]), n)
    IN IF (step > 0 /\ i > limit) \/ (step < 0 /\ i < limit) THEN s
       ELSE IF Continues(b) THEN ExecFor(b, stat, i + step, limit, step) ELSE AfterLoop(b)
ExecForIn(s, stat, f, state, control) ==
    LET n == Len(s.env)
        r == CallValue(s.w, f, <<state, control>>)
        vals == Adjust(r.v, Len(stat[2]))
        bound == [i \in DOMAIN vals |-> Binding(stat[2][i], vals[i], FALSE)]
        b == LeaveScope(ExecBlock(Enter(State(s, r.w), bound), stat[4]), n)
    IN IF Stop(r.w) \/ vals[1] = Nil THEN State(s, r.w)
       ELSE IF Continues(b) THEN ExecForIn(b, stat, f, state, vals[1]) ELSE AfterLoop(b)

IsLoopOf(v) ==
    /\ v[1].t = "int" /\ v[3].t = "int" /\ v[3].n # 0
    /\ v[2].t = "int" \/ IsNumeral(v[2])
ExecLocal(s, stat) ==
    LET r == EvalList(s.w, s.env, stat[3])
        names == stat[2]
        vals == Adjust(r.v, Len(names))
        bound == [i \in DOMAIN names |-> Binding(names[i][1], vals[i], names[i][2] = "<close>")]
        bad == \E i \in DOMAIN bound : bound[i].closes /\ ~Closable(vals[i])
    IN IF Stop(r.w) THEN State(s, r.w)
       ELSE IF bad THEN State(s, Fail(r.w))
       ELSE Enter(State(s, r.w), bound)
ExecForStat(s, stat) ==
    LET r == EvalList(s.w, s.env, stat[3])
        nums == IF Len(r.v) = 2 THEN Append(r.v, Number(1)) ELSE Adjust(r.v, 3)
        vals == Adjust(r.v, 4)
        inside == Enter(State(s, r.w), <<Binding(-1, vals[4], TRUE)>>)
    IN CASE Stop(r.w) -> State(s, r.w)
         [] ~Stop(r.w) /\ stat[1] = "fornum" ->
               IF IsLoopOf(nums)
               THEN ExecFor(State(s, r.w), stat, nums[1].n, AsNumber(nums[2]), nums[3].n)
               ELSE State(s, Fail(r.w))
         [] ~Stop(r.w) /\ stat[1] = "forin" ->
               IF Closable(vals[4])
               THEN LeaveScope(ExecForIn(inside, stat, vals[1], vals[2], vals[3]), Len(s.env))
               ELSE State(s, Fail(r.w))

Exec(s, stat) ==
    LET kind == stat[1] IN
    CASE kind = "local" -> ExecLocal(s, stat)
      [] kind = "assign" ->
            LET t == Targets(s.w, s.env, stat[2])
                r == EvalList(t.w, s.env, stat[3])
            IN IF Stop(r.w) THEN State(s, r.w)
               ELSE AssignAll(State(s, r.w), t.v, Adjust(r.v, Len(t.v)))
      [] kind = "call" -> State(s, EvalAll(s.w, s.env, stat).w)
      [] kind = "if" -> ExecIf(s, stat[2], stat[3])
      [] kind = "while" -> ExecWhile(s, stat)
      [] kind = "repeat" -> ExecRepeat(s, stat)
      [] kind \in {"fornum", "forin"} -> ExecForStat(s, stat)
      [] kind = "do" -> ExecBlock(s, stat[2])
      [] kind = "return" ->
            LET r == EvalList(s.w, s.env, stat[2])
            IN [Flow(State(s, r.w), "return", 0) EXCEPT !.vals = r.v]
      [] kind = "break" -> Flow(s, "break", 0)
      [] kind = "goto" -> Flow(s, "goto", stat[2])
      [] kind = "label" -> s

\* The outcome of a program: what others see of it.
Outcome(w, vals) ==
    [trace |-> w.trace, failed |-> w.failed /\ ~w.full, full |-> w.full,
     globals |-> IF w.full THEN [k \in {} |-> Nil] ELSE w.globals,
     tables |-> IF w.full THEN <<>> ELSE w.tables,
     results |-> IF w.failed \/ w.full THEN <<>> ELSE vals]
Meaning(world, params, args, block) ==
    LET env == [i \in DOMAIN params |-> Binding(params[i], args[i], FALSE)]
        s == ExecBlock([w |-> world, env |-> env, flow |-> "normal", label |-> 0, vals |-> <<>>],
                       block)
    IN Outcome(s.w, s.vals)

-----------------------------------------------------------------------------
(* The text of a program, with no parenthesis that could be left out. *)
Level == [and |-> 2, or |-> 1, EQ |-> 3, NE |-> 3, LT |-> 3, LE |-> 3, GT |-> 3, GE |-> 3,
          CONCAT |-> 9, ADD |-> 10, SUB |-> 10, MUL |-> 11]
Sign == [and |-> "and", or |-> "or", EQ |-> "==", NE |-> "~=", LT |-> "<", LE |-> "<=",
         GT |-> ">", GE |-> ">=", CONCAT |-> "..", ADD |-> "+", SUB |-> "-", MUL |-> "*"]
T(tk) == <<[tk |-> tk, v |-> 0]>>
TV(tk, v) == <<[tk |-> tk, v |-> v]>>
LevelOf(e) == CASE e[1] = "bin" -> Level[e[2]] [] e[1] = "un" -> 12 [] OTHER -> 20
Separated(texts) ==
    FoldLeft(LAMBDA all, t : IF all = <<>> THEN t ELSE all \o T(",") \o t, <<>>, texts)

RECURSIVE Text(_, _), BlockText(_), StatText(_)
Bracketed(e) == T("(") \o Text(e, 0) \o T(")")
TextList(exprs) == Separated([i \in DOMAIN exprs |-> Text(exprs[i], 0)])
PrefixText(e) == IF e[1] \in {"var", "index", "field", "call", "paren"} THEN Text(e, 0)
                 ELSE Bracketed(e)
ItemText(it) ==
    CASE it[1] = "item" -> Text(it[2], 0)
      [] it[1] = "named" -> TV("name", it[2]) \o T("=") \o Text(it[3], 0)
      [] it[1] = "rec" -> T("[") \o Text(it[2], 0) \o T("]") \o T("=") \o Text(it[3], 0)
Text(e, least) ==
    IF LevelOf(e) < least THEN Bracketed(e) ELSE
    CASE e[1] \in {"nil", "true", "false"} -> T(e[1])
      [] e[1] \in {"int", "str"} -> TV(e[1], e[2])
      [] e[1] = "var" -> TV("name", e[2])
      [] e[1] = "un" -> T(e[2]) \o Text(e[3], 12)
      [] e[1] = "bin" ->
            LET l == Level[e[2]]
                right == e[2] = "CONCAT"
            IN Text(e[3], IF right THEN l + 1 ELSE l) \o T(Sign[e[2]])
               \o Text(e[4], IF right THEN l ELSE l + 1)
      [] e[1] = "index" ->
            PrefixText(e[2]) \o T("[") \o Text(e[3], 0) \o T("]")
      [] e[1] = "field" -> PrefixText(e[2]) \o T(".") \o TV("name", e[3])
      [] e[1] = "call" ->
            PrefixText(e[2]) \o T("(") \o TextList(e[3]) \o T(")")
      [] e[1] = "paren" -> Bracketed(e[2])
      [] e[1] = "table" ->
            T("{") \o Separated([i \in DOMAIN e[2] |-> ItemText(e[2][i])]) \o T("}")

BlockText(block) == FlattenSeq([i \in DOMAIN block |-> StatText(block[i])])
Values(exprs) == IF exprs = <<>> THEN <<>> ELSE T("=") \o TextList(exprs)
NameText(n) == TV("name", n[1]) \o IF n[2] = "" THEN <<>> ELSE T(n[2])
ClauseText(word, c) == T(word) \o Text(c[1], 0) \o T("then") \o BlockText(c[2])
StatText(stat) ==
    LET kind == stat[1] IN
    CASE kind = "local" ->
            T("local") \o Separated([i \in DOMAIN stat[2] |-> NameText(stat[2][i])])
            \o Values(stat[3])
      [] kind = "assign" -> TextList(stat[2]) \o Values(stat[3])
      [] kind = "call" -> Text(stat, 0)
      [] kind = "if" ->
            FlattenSeq([i \in DOMAIN stat[2] |->
                          ClauseText(IF i = 1 THEN "if" ELSE "elseif", stat[2][i])])
            \o (IF stat[3] = <<>> THEN <<>> ELSE T("else") \o BlockText(stat[3])) \o T("end")
      [] kind = "while" -> T("while") \o Text(stat[2], 0) \o T("do") \o BlockText(stat[3]) \o T("end")
      [] kind = "repeat" -> T("repeat") \o BlockText(stat[2]) \o T("until") \o Text(stat[3], 0)
      [] kind = "fornum" ->
            T("for") \o TV("name", stat[2]) \o T("=") \o TextList(stat[3]) \o T("do")
            \o BlockText(stat[4]) \o T("end")
      [] kind = "forin" ->
            T("for") \o Separated([i \in DOMAIN stat[2] |-> TV("name", stat[2][i])]) \o T("in")
            \o TextList(stat[3]) \o T("do") \o BlockText(stat[4]) \o T("end")
      [] kind = "do" -> T("do") \o BlockText(stat[2]) \o T("end")
      [] kind = "return" -> T("return") \o TextList(stat[2])
      [] kind = "break" -> T("break")
      [] kind = "goto" -> T("goto") \o TV("name", stat[2])
      [] kind = "label" -> T("::") \o TV("name", stat[2]) \o T("::")
ProgramText(block) == BlockText(block) \o T("eos") \o T("eos")
=============================================================================
