----------------------------- MODULE LuaParser -----------------------------
(***************************************************************************)
(* The parser of the Lua compiler, lua/src/lparser.c: one pass over the    *)
(* tokens that generates the code as it goes.  Variables are compile-time  *)
(* constants or have the next registers, blocks say what is to be closed   *)
(* where they end, a goto is a jump that waits for its label.              *)
(*                                                                         *)
(* One function is compiled, with parameters; its only upvalue is _ENV.    *)
(* Nested functions, methods, varargs and declarations of globals are left *)
(* out.  Tokens are [tk, v]: v is a name, an integer or a string.          *)
(***************************************************************************)
EXTENDS LuaCode

CONSTANT MaxToStore     \* the items a constructor keeps before a SETLIST
ASSUME ParserConstants == MaxToStore \in Nat \ {0}

Token(tk, v) == [tk |-> tk, v |-> v]
BreakLabel == 0
Void == Exp("VVOID", 0)

Tk(fs) == fs.toks[fs.pos].tk
TokenValue(fs) == fs.toks[fs.pos].v
Next1(fs) == [fs EXCEPT !.pos = @ + 1]
LookAhead(fs) == fs.toks[fs.pos + 1].tk
TestNext(fs, tk) == IF Tk(fs) = tk THEN Next1(fs) ELSE fs
Failed(fs) == [fs EXCEPT !.error = TRUE]
BlockFollow(fs, withuntil) ==
    Tk(fs) \in {"else", "elseif", "end", "eos"} \/ (withuntil /\ Tk(fs) = "until")

HasMultRet(e) == e.k = "VCALL"
IsIndexed(e) == e.k \in {"VINDEXED", "VINDEXUP", "VINDEXI", "VINDEXSTR"}

-----------------------------------------------------------------------------
(* Variables. *)
VarDesc(name, kind) == [name |-> name, kind |-> kind, ridx |-> 0, value |-> Nil]
NewVar(fs, name, kind) == [fs EXCEPT !.act = Append(@, VarDesc(name, kind))]

\* adjustlocalvars: the last nvars variables get their registers.
AdjustLocalVars(fs, nvars) ==
    [fs EXCEPT !.nact = @ + nvars,
               !.act = [i \in DOMAIN @ |->
                          IF i \in fs.nact + 1 .. fs.nact + nvars
                          THEN [@[i] EXCEPT !.ridx = NVarStack(fs) + i - fs.nact - 1]
                          ELSE @[i]]]
RemoveVars(fs, level) == [fs EXCEPT !.act = SubSeq(@, 1, level), !.nact = level]

\* singlevar, from the innermost variable out; the others are in _ENV.
SingleVar(fs0) ==
    LET fs == Next1(fs0)
        is == {i \in 1..fs.nact : fs.act[i].name = TokenValue(fs0)}
        i == CHOOSE j \in is : \A n \in is : n <= j
    IN IF is = {} THEN Indexed(fs, Exp("VUPVAL", 0), Exp("VKSTR", TokenValue(fs0)))
       ELSE IF fs.act[i].kind = "ctc" THEN R(fs, Exp("VCONST", i))
       ELSE R(fs, [Exp("VLOCAL", fs.act[i].ridx) EXCEPT !.ix = i])

\* check_readonly: an error for a constant.
CheckReadonly(fs, e) ==
    IF e.k = "VCONST" \/ (e.k = "VLOCAL" /\ fs.act[e.ix].kind # "reg") THEN Failed(fs) ELSE fs

-----------------------------------------------------------------------------
(* Blocks, gotos and labels. *)
Block(fs) == fs.bl[Len(fs.bl)]
EnterBlock(fs, isloop) ==
    [fs EXCEPT !.bl = Append(@, [nact |-> fs.nact, firstlabel |-> Len(fs.labels) + 1,
                                 firstgoto |-> Len(fs.gotos) + 1, upval |-> FALSE,
                                 isloop |-> isloop,
                                 insidetbc |-> fs.bl # <<>> /\ Block(fs).insidetbc]),
               !.sane = @ /\ fs.freereg = NVarStack(fs)]
MarkToBeClosed(fs) ==
    [fs EXCEPT !.bl[Len(fs.bl)].upval = TRUE, !.bl[Len(fs.bl)].insidetbc = TRUE,
               !.needclose = TRUE]

LabelDesc(fs, name, pc) == [name |-> name, nact |-> fs.nact, close |-> FALSE, pc |-> pc]
\* newgotoentry: the jump is followed by a place for a CLOSE.
NewGoto(fs, name) ==
    LET n == Emit(Jump(fs), "CLOSE", 0, 1, 0, FALSE)
    IN [n EXCEPT !.gotos = Append(@, LabelDesc(fs, name, Pc(fs)))]
\* createlabel: the last label of a block is outside the scope of its locals.
CreateLabel(fs, name, last) ==
    LET l == LabelDesc(fs, name, Pc(fs))
        lb == IF last THEN [l EXCEPT !.nact = Block(fs).nact] ELSE l
    IN [GetLabel(fs) EXCEPT !.labels = Append(@, lb)]

\* `scope` is the function before leaveblock removed the variables of the
\* block, whose descriptions the code still finds beyond the end of its array.
CloseGoto(fs, scope, g, label, bup) ==
    LET gt == fs.gotos[g]
        closes == gt.close \/ (label.nact < gt.nact /\ bup)
        level == RegLevel(scope, label.nact)
        moved == SetAt(SetAt(fs, gt.pc + 1, At(fs, gt.pc)),
                       gt.pc, Instruction("CLOSE", level, 0, 0, FALSE))
        n == IF closes THEN PatchList(moved, gt.pc + 1, label.pc)
             ELSE PatchList(fs, gt.pc, label.pc)
    IN IF gt.nact < label.nact THEN Failed(fs)
       ELSE [n EXCEPT !.gotos = RemoveAt(@, g)]

\* solvegotos: the gotos of a block find a label in it, or are left to the
\* block outside, where its variables are out of scope.
RECURSIVE SolveGotos(_, _, _, _)
SolveGotos(fs, scope, bl, g) ==
    LET gt == fs.gotos[g]
        found == {i \in bl.firstlabel .. Len(fs.labels) : fs.labels[i].name = gt.name}
        escapes == bl.upval /\ RegLevel(scope, gt.nact) > RegLevel(scope, bl.nact)
        n == CloseGoto(fs, scope, g, fs.labels[Min(found)], bl.upval)
    IN IF g > Len(fs.gotos) \/ fs.error
       THEN [fs EXCEPT !.labels = SubSeq(@, 1, bl.firstlabel - 1)]
       ELSE IF found # {} THEN SolveGotos(n, scope, bl, g)
       ELSE SolveGotos([fs EXCEPT !.gotos[g].close = @ \/ escapes,
                                  !.gotos[g].nact = bl.nact], scope, bl, g + 1)

LeaveBlock(fs) ==
    LET bl == Block(fs)
        inner == Len(fs.bl) > 1
        level == RegLevel(fs, bl.nact)
        closed == IF inner /\ bl.upval THEN Emit(fs, "CLOSE", level, 0, 0, FALSE) ELSE fs
        out == RemoveVars([closed EXCEPT !.freereg = level], bl.nact)
        labelled == IF bl.isloop = 2 THEN CreateLabel(out, BreakLabel, FALSE) ELSE out
        n == SolveGotos(labelled, fs, bl, bl.firstgoto)
    IN [n EXCEPT !.bl = Front(@),
                 !.error = @ \/ (~inner /\ bl.firstgoto <= Len(n.gotos))]

-----------------------------------------------------------------------------
(* Expressions. *)
Priority ==
    [left |-> [ADD |-> 10, SUB |-> 10, MUL |-> 11, CONCAT |-> 9, EQ |-> 3, LT |-> 3, LE |-> 3,
               NE |-> 3, GT |-> 3, GE |-> 3, and |-> 2, or |-> 1],
     right |-> [ADD |-> 10, SUB |-> 10, MUL |-> 11, CONCAT |-> 8, EQ |-> 3, LT |-> 3, LE |-> 3,
                NE |-> 3, GT |-> 3, GE |-> 3, and |-> 2, or |-> 1]]
UnaryPriority == 12
BinOpr ==
    [tk \in {"+", "-", "*", "..", "==", "<", "<=", "~=", ">", ">=", "and", "or"} |->
       CASE tk = "+" -> "ADD" [] tk = "-" -> "SUB" [] tk = "*" -> "MUL" [] tk = ".." -> "CONCAT"
         [] tk = "==" -> "EQ" [] tk = "~=" -> "NE" [] tk = "<" -> "LT" [] tk = "<=" -> "LE"
         [] tk = ">" -> "GT" [] tk = ">=" -> "GE" [] OTHER -> tk]

RECURSIVE Subexpr(_, _), BinRest(_, _, _), ExpList(_, _, _), SuffixedRest(_, _),
          Constructor(_), Fields(_, _)

Expr(fs) == Subexpr(fs, 0)
\* luaK_exp2val and yindex.
Exp2Val(fs, e) == IF e.k = "VJMP" \/ HasJumps(e) THEN Exp2AnyReg(fs, e) ELSE DischargeVars(fs, e)
YIndex(fs) ==
    LET key == Expr(Next1(fs))  r == Exp2Val(key.fs, key.e) IN R(Next1(r.fs), r.e)

\* explist: the list so far has n expressions, the last is still open.
ExpList(fs, e, n) ==
    IF Tk(fs) # "," THEN [fs |-> fs, e |-> e, n |-> n]
    ELSE LET r == Expr(Next1(Exp2NextReg(fs, e).fs)) IN ExpList(r.fs, r.e, n + 1)
ExpressionList(fs) == LET r == Expr(fs) IN ExpList(r.fs, r.e, 1)

FuncArgs(fs0, f) ==
    LET fs == Next1(fs0)
        l == IF Tk(fs) = ")" THEN [fs |-> fs, e |-> Void, n |-> 0] ELSE ExpressionList(fs)
        open == HasMultRet(l.e)
        a == CASE open -> SetReturns(l.fs, l.e, -1)
               [] l.e.k = "VVOID" -> l.fs
               [] OTHER -> Exp2NextReg(l.fs, l.e).fs
        nparams == IF open THEN -1 ELSE a.freereg - (f.info + 1)
        call == Emit(Next1(a), "CALL", f.info, nparams + 1, 2, FALSE)
    IN R([call EXCEPT !.freereg = f.info + 1], Exp("VCALL", Pc(a)))

PrimaryExp(fs) ==
    LET r == Expr(Next1(fs)) IN
    IF Tk(fs) = "(" THEN DischargeVars(Next1(r.fs), r.e) ELSE SingleVar(fs)
SuffixedRest(fs, v) ==
    LET t == Exp2AnyRegUp(fs, v)
        field == Indexed(Next1(Next1(t.fs)), t.e, Exp("VKSTR", TokenValue(Next1(t.fs))))
        key == YIndex(t.fs)
        at == Indexed(key.fs, t.e, key.e)
        f == Exp2NextReg(fs, v)
        call == FuncArgs(f.fs, f.e)
    IN CASE Tk(fs) = "." -> SuffixedRest(field.fs, field.e)
         [] Tk(fs) = "[" -> SuffixedRest(at.fs, at.e)
         [] Tk(fs) = "(" -> SuffixedRest(call.fs, call.e)
         [] OTHER -> R(fs, v)
SuffixedExp(fs) == LET r == PrimaryExp(fs) IN SuffixedRest(r.fs, r.e)

SimpleExp(fs) ==
    CASE Tk(fs) = "int" -> R(Next1(fs), Exp("VKINT", TokenValue(fs)))
      [] Tk(fs) = "str" -> R(Next1(fs), Exp("VKSTR", TokenValue(fs)))
      [] Tk(fs) = "nil" -> R(Next1(fs), Exp("VNIL", 0))
      [] Tk(fs) = "true" -> R(Next1(fs), Exp("VTRUE", 0))
      [] Tk(fs) = "false" -> R(Next1(fs), Exp("VFALSE", 0))
      [] Tk(fs) = "{" -> Constructor(fs)
      [] OTHER -> SuffixedExp(fs)

Subexpr(fs, limit) ==
    LET operand == Subexpr(Next1(fs), UnaryPriority)
        r == IF Tk(fs) \in {"not", "-"} THEN Prefix(operand.fs, Tk(fs), operand.e)
             ELSE SimpleExp(fs)
    IN BinRest(r.fs, r.e, limit)
BinRest(fs, v, limit) ==
    IF Tk(fs) \notin DOMAIN BinOpr \/ Priority.left[BinOpr[Tk(fs)]] <= limit THEN R(fs, v)
    ELSE LET op == BinOpr[Tk(fs)]
             first == Infix(Next1(fs), op, v)
             second == Subexpr(first.fs, Priority.right[op])
             r == Posfix(second.fs, op, first.e, second.e)
         IN BinRest(r.fs, r.e, limit)

-----------------------------------------------------------------------------
(* Constructors: cc is ConsControl, with the last list item v. *)
SetList(fs, base, nelems, tostore) ==
    LET n == Emit(fs, "SETLIST", base, IF tostore = -1 THEN 0 ELSE tostore, nelems, FALSE)
    IN [n EXCEPT !.freereg = base + 1]

RecField(fs, cc) ==
    LET key == IF Tk(fs) = "name" THEN R(Next1(fs), Exp("VKSTR", TokenValue(fs))) ELSE YIndex(fs)
        tab == Indexed(Next1(key.fs), cc.t, key.e)
        val == Expr(tab.fs)
        n == StoreVar(val.fs, tab.e, val.e)
    IN [fs |-> [n EXCEPT !.freereg = fs.freereg], cc |-> [cc EXCEPT !.nh = @ + 1]]
ListField(fs, cc) ==
    LET r == Expr(fs) IN [fs |-> r.fs, cc |-> [cc EXCEPT !.v = r.e, !.tostore = @ + 1]]

CloseListField(fs, cc) ==
    LET n == Exp2NextReg(fs, cc.v).fs
        kept == [cc EXCEPT !.v = Void]
    IN IF cc.v.k = "VVOID" THEN [fs |-> fs, cc |-> cc]
       ELSE IF cc.tostore < MaxToStore THEN [fs |-> n, cc |-> kept]
       ELSE [fs |-> SetList(n, cc.t.info, cc.na, cc.tostore),
             cc |-> [kept EXCEPT !.na = @ + cc.tostore, !.tostore = 0]]
LastListField(fs, cc) ==
    LET n == IF cc.v.k = "VVOID" THEN fs ELSE Exp2NextReg(fs, cc.v).fs IN
    CASE cc.tostore = 0 -> fs
      [] cc.tostore # 0 /\ HasMultRet(cc.v) ->
            SetList(SetReturns(fs, cc.v, -1), cc.t.info, cc.na, -1)
      [] OTHER -> SetList(n, cc.t.info, cc.na, cc.tostore)

Fields(fs, cc) ==
    LET c == CloseListField(fs, cc)
        record == Tk(fs) = "[" \/ (Tk(fs) = "name" /\ LookAhead(fs) = "=")
        r == IF record THEN RecField(c.fs, c.cc) ELSE ListField(c.fs, c.cc)
    IN IF Tk(fs) = "}" THEN [fs |-> fs, cc |-> cc]
       ELSE IF Tk(r.fs) = "," THEN Fields(Next1(r.fs), r.cc) ELSE r
Constructor(fs) ==
    LET made == Emit(Emit(fs, "NEWTABLE", fs.freereg, 0, 0, FALSE), "EXTRAARG", 0, 0, 0, FALSE)
        t == Exp("VNONRELOC", fs.freereg)
        r == Fields(Next1(ReserveRegs(made, 1)),
                    [v |-> Void, t |-> t, nh |-> 0, na |-> 0, tostore |-> 0])
    IN R(LastListField(Next1(r.fs), r.cc), t)

-----------------------------------------------------------------------------
(* Assignments. *)
AdjustAssign(fs, nvars, l) ==
    LET needed == nvars - l.n
        extra == IF needed + 1 < 0 THEN 0 ELSE needed + 1
        closed == CASE HasMultRet(l.e) -> SetReturns(fs, l.e, extra)
                    [] l.e.k = "VVOID" -> fs
                    [] OTHER -> Exp2NextReg(fs, l.e).fs
        filled == IF needed > 0 /\ ~HasMultRet(l.e) THEN LoadNil(closed, closed.freereg, needed)
                  ELSE closed
    IN ReserveRegs(filled, needed)

\* check_conflict: a table or key that is the local being assigned now is
\* taken from a copy of the local.
Conflicts(lh, v) ==
    /\ v.k = "VLOCAL"
    /\ \/ lh.k \in {"VINDEXED", "VINDEXI", "VINDEXSTR"} /\ lh.tb = v.info
       \/ lh.k = "VINDEXED" /\ lh.ix = v.info
UsesCopy(lh, v, extra) ==
    IF ~Conflicts(lh, v) THEN lh
    ELSE [lh EXCEPT !.tb = IF @ = v.info THEN extra ELSE @,
                    !.ix = IF lh.k = "VINDEXED" /\ @ = v.info THEN extra ELSE @]
\* Mutant: only a table is looked at, not an index that is assigned to.
CheckConflictOfTables(fs, lhs, v) ==
    IF \E i \in DOMAIN lhs : IsIndexed(lhs[i]) /\ lhs[i].tb = v.info
    THEN [fs |-> ReserveRegs(Emit(fs, "MOVE", fs.freereg, v.info, 0, FALSE), 1),
          lhs |-> [i \in DOMAIN lhs |-> UsesCopy(lhs[i], v, fs.freereg)]]
    ELSE [fs |-> fs, lhs |-> lhs]

CheckConflict(fs, lhs, v) ==
    IF \E i \in DOMAIN lhs : Conflicts(lhs[i], v)
    THEN [fs |-> ReserveRegs(Emit(fs, "MOVE", fs.freereg, v.info, 0, FALSE), 1),
          lhs |-> [i \in DOMAIN lhs |-> UsesCopy(lhs[i], v, fs.freereg)]]
    ELSE [fs |-> fs, lhs |-> lhs]

RECURSIVE RestAssign(_, _), StoreTops(_, _)
StoreTops(fs, lhs) ==
    IF lhs = <<>> THEN fs
    ELSE StoreTops(StoreVar(fs, Last(lhs), Exp("VNONRELOC", fs.freereg - 1)), Front(lhs))
RestAssign(fs0, lhs) ==
    LET fs == CheckReadonly(fs0, Last(lhs))
        nv == SuffixedExp(Next1(fs))
        c == IF IsIndexed(nv.e) THEN [fs |-> nv.fs, lhs |-> lhs]
             ELSE CheckConflict(nv.fs, lhs, nv.e)
        l == ExpressionList(Next1(fs))
    IN CASE fs.error -> fs
         [] ~fs.error /\ Tk(fs) = "," -> RestAssign(c.fs, Append(c.lhs, nv.e))
         [] ~fs.error /\ Tk(fs) # "," /\ l.n = Len(lhs) ->
                StoreTops(StoreVar(l.fs, Last(lhs), SetOneRet(l.fs, l.e)), Front(lhs))
         [] OTHER -> StoreTops(AdjustAssign(l.fs, Len(lhs), l), lhs)

ExprStat(fs) ==
    LET r == SuffixedExp(fs) IN
    IF Tk(r.fs) \in {"=", ","} THEN RestAssign(r.fs, <<r.e>>)
    ELSE SetAt(r.fs, r.e.info, [At(r.fs, r.e.info) EXCEPT !.c = 1])

-----------------------------------------------------------------------------
(* Statements. *)
RECURSIVE Statement(_), StatList(_), IfRest(_, _), LocalNames(_), SkipNoOps(_)

BlockStat(fs) == LeaveBlock(StatList(EnterBlock(fs, 0)))
\* The jumps of a false condition are the f list.
Cond(fs) ==
    LET r == Expr(fs) IN
    GoIfTrue(r.fs, IF r.e.k = "VNIL" THEN [r.e EXCEPT !.k = "VFALSE"] ELSE r.e)
JumpTo(fs, target) == PatchList(Jump(fs), Pc(fs), target)

\* ifstat: test_then_block until there is no `elseif'.
IfRest(fs, escapes) ==
    LET c == Cond(Next1(fs))
        then == BlockStat(Next1(c.fs))
        more == Tk(then) \in {"else", "elseif"}
        jumped == IF more THEN Join(Jump(then), escapes, Pc(then)) ELSE then
        list == IF more THEN JoinedHead(escapes, Pc(then)) ELSE escapes
        n == PatchToHere(jumped, c.e.f)
        last == IF Tk(n) = "else" THEN BlockStat(Next1(n)) ELSE n
    IN IF Tk(n) = "elseif" THEN IfRest(n, list)
       ELSE PatchToHere(Next1(last), list)

WhileStat(fs) ==
    LET c == Cond(Next1(GetLabel(fs)))
        body == BlockStat(Next1(EnterBlock(c.fs, 1)))
    IN PatchToHere(LeaveBlock(Next1(JumpTo(body, Pc(fs)))), c.e.f)

RepeatStat(fs) ==
    LET body == StatList(Next1(EnterBlock(EnterBlock(GetLabel(fs), 1), 0)))
        c == Cond(Next1(body))
        scope == Block(c.fs)
        out == LeaveBlock(c.fs)
        closing == PatchToHere(Jump(out), c.e.f)
        again == Jump(Emit(closing, "CLOSE", RegLevel(out, scope.nact), 0, 0, FALSE))
        n == IF scope.upval
             THEN PatchList(PatchToHere(again, Pc(out)), Pc(again) - 1, Pc(fs))
             ELSE PatchList(out, c.e.f, Pc(fs))
    IN LeaveBlock(n)

\* exp1, and forbody with its jumps forward and back.
Exp1(fs) == LET r == Expr(fs) IN Exp2NextReg(r.fs, r.e).fs
ForBody(fs, base, nvars, generic) ==
    LET prep == Emit(Next1(fs), IF generic THEN "TFORPREP" ELSE "FORPREP", base, 0, 0, FALSE)
        scope == EnterBlock([prep EXCEPT !.freereg = @ - 1], 0)
        body == LeaveBlock(BlockStat(ReserveRegs(AdjustLocalVars(scope, nvars), nvars)))
        start == Pc(prep) - 1
        fixed == SetAt(GetLabel(body), start, [At(body, start) EXCEPT !.b = Pc(body) - Pc(prep)])
        called == IF generic THEN Emit(fixed, "TFORCALL", base, 0, nvars, FALSE) ELSE fixed
    IN Emit(called, IF generic THEN "TFORLOOP" ELSE "FORLOOP", base,
            Pc(called) + 1 - Pc(prep), 0, FALSE)

ForNum(fs, name) ==
    LET vars == NewVar(NewVar(NewVar(fs, -1, "reg"), -1, "reg"), name, "const")
        limit == Exp1(Next1(Exp1(Next1(vars))))
        step == IF Tk(limit) = "," THEN Exp1(Next1(limit))
                ELSE ReserveRegs(Emit(limit, "LOADI", limit.freereg, 1, 0, FALSE), 1)
    IN ForBody(AdjustLocalVars(step, 2), fs.freereg, 1, FALSE)
RECURSIVE ForNames(_)
ForNames(fs) ==
    IF Tk(fs) # "," THEN fs
    ELSE ForNames(Next1(NewVar(Next1(fs), TokenValue(Next1(fs)), "reg")))
ForList(fs, name) ==
    LET state == NewVar(NewVar(NewVar(fs, -1, "reg"), -1, "reg"), -1, "reg")
        vars == ForNames(NewVar(state, name, "const"))
        l == ExpressionList(Next1(vars))
        n == AdjustLocalVars(AdjustAssign(l.fs, 4, l), 3)
    IN ForBody(MarkToBeClosed(n), fs.freereg, Len(vars.act) - fs.nact - 3, TRUE)
ForStat(fs0) ==
    LET fs == Next1(EnterBlock(fs0, 1))
        name == TokenValue(fs)
        n == IF LookAhead(fs) = "=" THEN ForNum(Next1(fs), name) ELSE ForList(Next1(fs), name)
    IN LeaveBlock(Next1(n))

\* localstat: a constant that is known now takes no register.
LocalNames(fs) ==
    LET kind == IF LookAhead(fs) \in {"<const>", "<close>"}
                THEN IF LookAhead(fs) = "<const>" THEN "const" ELSE "close" ELSE "reg"
        n == NewVar(IF kind = "reg" THEN Next1(fs) ELSE Next1(Next1(fs)), TokenValue(fs), kind)
    IN IF Tk(n) = "," THEN LocalNames(Next1(n)) ELSE n
Exp2Const(fs, e) == IF e.k = "VCONST" THEN fs.act[e.info].value ELSE KOf(e)
LocalStat(fs) ==
    LET names == LocalNames(fs)
        nvars == Len(names.act) - fs.nact
        l == IF Tk(names) = "=" THEN ExpressionList(Next1(names))
             ELSE [fs |-> names, e |-> Void, n |-> 0]
        last == Len(names.act)
        constant == l.n = nvars /\ names.act[last].kind = "const" /\ IsConst(l.e)
        ctc == [l.fs EXCEPT !.act[last].kind = "ctc", !.act[last].value = Exp2Const(l.fs, l.e)]
        n == IF constant THEN [AdjustLocalVars(ctc, nvars - 1) EXCEPT !.nact = @ + 1]
             ELSE AdjustLocalVars(AdjustAssign(l.fs, nvars, l), nvars)
        tbc == {i \in fs.nact + 1 .. last : names.act[i].kind = "close"}
    IN IF tbc = {} THEN n
       ELSE Emit(MarkToBeClosed(n), "TBC", RegLevel(n, (CHOOSE i \in tbc : TRUE) - 1),
                 0, 0, FALSE)

RetStat(fs) ==
    LET l == ExpressionList(fs)
        first == NVarStack(fs)
        tail == l.n = 1 /\ ~Block(fs).insidetbc
        multi == SetReturns(l.fs, l.e, -1)
        any == Exp2AnyReg(l.fs, l.e)
        n == CASE BlockFollow(fs, TRUE) \/ Tk(fs) = ";" -> Ret(fs, first, 0)
               [] ~(BlockFollow(fs, TRUE) \/ Tk(fs) = ";") /\ HasMultRet(l.e) ->
                     Ret(IF tail THEN SetAt(multi, l.e.info,
                                            [At(multi, l.e.info) EXCEPT !.op = "TAILCALL"])
                         ELSE multi, first, -1)
               [] ~(BlockFollow(fs, TRUE) \/ Tk(fs) = ";") /\ ~HasMultRet(l.e) ->
                     IF l.n = 1 THEN Ret(any.fs, any.e.info, 1)
                     ELSE Ret(Exp2NextReg(l.fs, l.e).fs, first, l.n)
    IN TestNext(n, ";")

BreakStat(fs) ==
    LET loops == {i \in DOMAIN fs.bl : fs.bl[i].isloop > 0}
        b == CHOOSE i \in loops : \A j \in loops : j <= i
    IN IF loops = {} THEN Failed(fs)
       ELSE NewGoto(Next1([fs EXCEPT !.bl[b].isloop = 2]), BreakLabel)

SkipNoOps(fs) == IF Tk(fs) \in {";", "::"} THEN SkipNoOps(Statement(fs)) ELSE fs
LabelStat(fs0) ==
    LET fs == SkipNoOps(Next1(Next1(fs0)))
        name == TokenValue(fs0)
    IN IF \E i \in DOMAIN fs.labels : fs.labels[i].name = name THEN Failed(fs)
       ELSE CreateLabel(fs, name, BlockFollow(fs, FALSE))

\* A statement leaves no register but those of the variables in use.
Statement(fs) ==
    LET n == CASE Tk(fs) = ";" -> Next1(fs)
               [] Tk(fs) = "if" -> IfRest(fs, NoJump)
               [] Tk(fs) = "while" -> WhileStat(fs)
               [] Tk(fs) = "do" -> Next1(BlockStat(Next1(fs)))
               [] Tk(fs) = "for" -> ForStat(fs)
               [] Tk(fs) = "repeat" -> RepeatStat(fs)
               [] Tk(fs) = "local" -> LocalStat(Next1(fs))
               [] Tk(fs) = "::" -> LabelStat(Next1(fs))
               [] Tk(fs) = "return" -> RetStat(Next1(fs))
               [] Tk(fs) = "break" -> BreakStat(fs)
               [] Tk(fs) = "goto" -> NewGoto(Next1(Next1(fs)), TokenValue(Next1(fs)))
               [] OTHER -> ExprStat(fs)
    IN [n EXCEPT !.sane = @ /\ n.freereg >= NVarStack(n), !.freereg = NVarStack(n)]
StatList(fs) ==
    IF fs.error \/ BlockFollow(fs, TRUE) THEN fs
    ELSE IF Tk(fs) = "return" THEN Statement(fs)
    ELSE StatList(Statement(fs))

\* body: the function, with the parameters of its list.
OpenFunc(toks) ==
    [code |-> <<>>, lasttarget |-> 0, freereg |-> 0, sane |-> TRUE, error |-> FALSE,
     act |-> <<>>, nact |-> 0, k |-> <<>>, bl |-> <<>>, gotos |-> <<>>, labels |-> <<>>,
     needclose |-> FALSE, toks |-> toks, pos |-> 1]
RECURSIVE NewVars(_, _)
NewVars(fs, names) ==
    IF names = <<>> THEN fs ELSE NewVars(NewVar(fs, Head(names), "reg"), Tail(names))
Body(params, toks) ==
    LET opened == NewVars(EnterBlock(OpenFunc(toks), 0), params)
        n == Len(params)
        stats == StatList(ReserveRegs(AdjustLocalVars(opened, n), n))
    IN IF stats.error THEN stats ELSE Finish(LeaveBlock(Ret(stats, NVarStack(stats), 0)))
=============================================================================
