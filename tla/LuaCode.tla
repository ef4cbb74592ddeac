------------------------------ MODULE LuaCode -------------------------------
(***************************************************************************)
(* The code generator of the Lua compiler, lua/src/lcode.c: expressions    *)
(* are described (expdesc), and turned into instructions as late as        *)
(* possible; conditions are lists of jumps, linked through the jumps       *)
(* themselves, that are patched when their target is known.                *)
(*                                                                         *)
(* An operator takes the FuncState and gives the new one, with the         *)
(* expdesc it changed where the C function changes one.  Floats, line      *)
(* information, vararg parameters, methods and table constructors are      *)
(* left out, and no operand is too large for its instruction but the       *)
(* integers that do not fit in an sC argument.                             *)
(***************************************************************************)
EXTENDS LuaMeaning

NoJump == -1
NoReg == -1

\* expdesc: info is the register, the integer, the constant, the variable or
\* the instruction; tb and ix the parts of an indexed one; t and f the lists.
Exp(k, info) == [k |-> k, info |-> info, tb |-> 0, ix |-> 0, t |-> NoJump, f |-> NoJump]
HasJumps(e) == e.t # e.f
R(fs, e) == [fs |-> fs, e |-> e]

Pc(fs) == Len(fs.code)
At(fs, pc) == fs.code[pc + 1]
SetAt(fs, pc, i) == [fs EXCEPT !.code[pc + 1] = i]
Instruction(op, a, b, c, k) == [op |-> op, a |-> a, b |-> b, c |-> c, k |-> k]
Emit(fs, op, a, b, c, k) == [fs EXCEPT !.code = Append(@, Instruction(op, a, b, c, k))]
Invalid == Instruction("invalid", 0, 0, 0, FALSE)

ToNumeral(e) == ~HasJumps(e) /\ e.k = "VKINT"
IsConst(e) == ~HasJumps(e) /\ e.k \in {"VFALSE", "VTRUE", "VNIL", "VKSTR", "VCONST", "VKINT"}

PreviousInstruction(fs) == IF Pc(fs) > fs.lasttarget THEN At(fs, Pc(fs) - 1) ELSE Invalid

\* luaK_nil joins the previous LOADNIL if the ranges touch.
LoadNil(fs, from, n) ==
    LET l == from + n - 1
        p == PreviousInstruction(fs)
        pl == p.a + p.b
        joins == \/ p.a <= from /\ from <= pl + 1
                 \/ from <= p.a /\ p.a <= l + 1
        first == IF p.a < from THEN p.a ELSE from
        last == IF pl > l THEN pl ELSE l
    IN IF p.op = "LOADNIL" /\ joins
       THEN SetAt(fs, Pc(fs) - 1, Instruction("LOADNIL", first, last - first, 0, FALSE))
       ELSE Emit(fs, "LOADNIL", from, n - 1, 0, FALSE)

-----------------------------------------------------------------------------
(* Jumps: the offset of a jump in a list leads to the next one. *)
GetJump(fs, pc) == IF At(fs, pc).b = NoJump THEN NoJump ELSE pc + 1 + At(fs, pc).b
FixJump(fs, pc, dest) == SetAt(fs, pc, [At(fs, pc) EXCEPT !.b = dest - (pc + 1)])
RECURSIVE LastJump(_, _)
LastJump(fs, list) ==
    IF GetJump(fs, list) = NoJump THEN list ELSE LastJump(fs, GetJump(fs, list))
\* luaK_concat: the lists l1 and l2, joined, are JoinedHead(l1, l2).
Join(fs, l1, l2) ==
    IF l2 = NoJump \/ l1 = NoJump THEN fs ELSE FixJump(fs, LastJump(fs, l1), l2)
JoinedHead(l1, l2) == IF l1 = NoJump THEN l2 ELSE l1

Jump(fs) == Emit(fs, "JMP", 0, NoJump, 0, FALSE)
\* condjump: the jump is the last instruction.
CondJump(fs, op, a, b, c, k) == Jump(Emit(fs, op, a, b, c, k))
GetLabel(fs) == [fs EXCEPT !.lasttarget = Pc(fs)]

TestOps == {"EQ", "LT", "LE", "EQK", "EQI", "LTI", "LEI", "GTI", "GEI", "TEST", "TESTSET"}
JumpControl(fs, pc) == IF pc >= 1 /\ At(fs, pc - 1).op \in TestOps THEN pc - 1 ELSE pc

\* patchtestreg on a TESTSET.
IsTestSet(fs, node) == At(fs, JumpControl(fs, node)).op = "TESTSET"
PatchTestReg(fs, node, reg) ==
    LET pc == JumpControl(fs, node)  i == At(fs, pc) IN
    IF i.op # "TESTSET" THEN fs
    ELSE SetAt(fs, pc, IF reg # NoReg /\ reg # i.b THEN [i EXCEPT !.a = reg]
                       ELSE Instruction("TEST", i.b, 0, 0, i.k))

RECURSIVE RemoveValues(_, _)
RemoveValues(fs, list) ==
    IF list = NoJump THEN fs
    ELSE RemoveValues(PatchTestReg(fs, list, NoReg), GetJump(fs, list))

RECURSIVE PatchListAux(_, _, _, _, _)
PatchListAux(fs, list, vtarget, reg, dtarget) ==
    IF list = NoJump THEN fs
    ELSE LET n == FixJump(PatchTestReg(fs, list, reg), list,
                          IF IsTestSet(fs, list) THEN vtarget ELSE dtarget)
         IN PatchListAux(n, GetJump(fs, list), vtarget, reg, dtarget)
PatchList(fs, list, target) == PatchListAux(fs, list, target, NoReg, target)
PatchToHere(fs, list) == PatchList(GetLabel(fs), list, Pc(fs))

RECURSIVE NeedValue(_, _)
NeedValue(fs, list) ==
    list # NoJump /\ (~IsTestSet(fs, list) \/ NeedValue(fs, GetJump(fs, list)))

-----------------------------------------------------------------------------
(* Registers and constants. *)
RegLevel(fs, nvar) ==
    LET regs == {i \in 1..nvar : fs.act[i].kind # "ctc"} IN
    IF regs = {} THEN 0
    ELSE fs.act[CHOOSE i \in regs : \A j \in regs : j <= i].ridx + 1
NVarStack(fs) == RegLevel(fs, fs.nact)

ReserveRegs(fs, n) == [fs EXCEPT !.freereg = @ + n]
\* `sane` is the lua_assert of freereg.
FreeReg(fs, reg) ==
    IF reg < NVarStack(fs) THEN fs
    ELSE [fs EXCEPT !.freereg = @ - 1, !.sane = @ /\ reg = fs.freereg - 1]
\* Mutant: the registers are freed in the order of the operands.
FreeRegsInOrder(fs, r1, r2) == FreeReg(FreeReg(fs, r2), r1)

FreeRegs(fs, r1, r2) ==
    IF r1 > r2 THEN FreeReg(FreeReg(fs, r1), r2) ELSE FreeReg(FreeReg(fs, r2), r1)
RegOf(e) == IF e.k = "VNONRELOC" THEN e.info ELSE -1
FreeExp(fs, e) == FreeReg(fs, RegOf(e))
FreeExps(fs, e1, e2) == FreeRegs(fs, RegOf(e1), RegOf(e2))

\* k2proto: a constant is kept once.
AddK(fs, v) == IF v \in Range(fs.k) THEN fs ELSE [fs EXCEPT !.k = Append(@, v)]
KIndex(fs, v) == CHOOSE i \in DOMAIN fs.k : fs.k[i] = v
FitsC(n) == n >= -127 /\ n <= 128

-----------------------------------------------------------------------------
(* From a description to a value in a register. *)
ConstExp(v) ==
    CASE v = Nil -> Exp("VNIL", 0)
      [] v.t = "bool" -> Exp(IF v.n = 1 THEN "VTRUE" ELSE "VFALSE", 0)
      [] v.t = "int" -> Exp("VKINT", v.n)
      [] v.t = "str" -> Exp("VKSTR", v.n)

Reloc(fs, e, op, b, c) ==
    R(Emit(fs, op, 0, b, c, FALSE), [e EXCEPT !.k = "VRELOC", !.info = Pc(fs)])
DischargeVars(fs, e) ==
    CASE e.k = "VCONST" ->
            R(fs, [ConstExp(fs.act[e.info].value) EXCEPT !.t = e.t, !.f = e.f])
      [] e.k = "VLOCAL" -> R(fs, [e EXCEPT !.k = "VNONRELOC"])
      [] e.k = "VUPVAL" -> Reloc(fs, e, "GETUPVAL", 0, 0)
      [] e.k = "VINDEXUP" -> Reloc(fs, e, "GETTABUP", e.tb, e.ix)
      [] e.k = "VINDEXI" -> Reloc(FreeReg(fs, e.tb), e, "GETI", e.tb, e.ix)
      [] e.k = "VINDEXSTR" -> Reloc(FreeReg(fs, e.tb), e, "GETFIELD", e.tb, e.ix)
      [] e.k = "VINDEXED" -> Reloc(FreeRegs(fs, e.tb, e.ix), e, "GETTABLE", e.tb, e.ix)
      [] e.k = "VCALL" -> R(fs, [e EXCEPT !.k = "VNONRELOC", !.info = At(fs, e.info).a])
      [] OTHER -> R(fs, e)

Discharge2Reg(fs0, e0, reg) ==
    LET r == DischargeVars(fs0, e0)
        fs == r.fs  e == r.e
        str == AddK(fs, Str(e.info))
        n == CASE e.k = "VNIL" -> LoadNil(fs, reg, 1)
               [] e.k = "VFALSE" -> Emit(fs, "LOADFALSE", reg, 0, 0, FALSE)
               [] e.k = "VTRUE" -> Emit(fs, "LOADTRUE", reg, 0, 0, FALSE)
               [] e.k = "VKSTR" -> Emit(str, "LOADK", reg, KIndex(str, Str(e.info)), 0, FALSE)
               [] e.k = "VK" -> Emit(fs, "LOADK", reg, e.info, 0, FALSE)
               [] e.k = "VKINT" -> Emit(fs, "LOADI", reg, e.info, 0, FALSE)
               [] e.k = "VRELOC" -> SetAt(fs, e.info, [At(fs, e.info) EXCEPT !.a = reg])
               [] e.k = "VNONRELOC" -> IF reg = e.info THEN fs
                                       ELSE Emit(fs, "MOVE", reg, e.info, 0, FALSE)
               [] OTHER -> fs
    IN IF e.k = "VJMP" THEN R(n, e) ELSE R(n, [e EXCEPT !.k = "VNONRELOC", !.info = reg])

Discharge2AnyReg(fs, e) ==
    IF e.k = "VNONRELOC" THEN R(fs, e)
    ELSE Discharge2Reg(ReserveRegs(fs, 1), e, fs.freereg)

\* exp2reg: tests that produce no value, or an inverted one, jump to code that
\* loads a boolean; the others leave their value in the register.
Exp2Reg(fs0, e0, reg) ==
    LET r == Discharge2Reg(fs0, e0, reg)
        e == IF r.e.k = "VJMP" THEN [r.e EXCEPT !.t = JoinedHead(@, r.e.info)] ELSE r.e
        fs == IF r.e.k = "VJMP" THEN Join(r.fs, r.e.t, r.e.info) ELSE r.fs
        needs == NeedValue(fs, e.t) \/ NeedValue(fs, e.f)
        fj == IF e.k = "VJMP" THEN NoJump ELSE Pc(fs)
        jumps == IF e.k = "VJMP" THEN fs ELSE Jump(fs)
        pf == Pc(jumps)
        loads == Emit(GetLabel(Emit(GetLabel(jumps), "LFALSESKIP", reg, 0, 0, FALSE)),
                      "LOADTRUE", reg, 0, 0, FALSE)
        n == GetLabel(IF needs THEN PatchToHere(loads, fj) ELSE fs)
        final == Pc(n)
        f == PatchListAux(n, e.f, final, reg, IF needs THEN pf ELSE NoJump)
        t == PatchListAux(f, e.t, final, reg, IF needs THEN pf + 1 ELSE NoJump)
    IN R(IF HasJumps(e) THEN t ELSE fs, Exp("VNONRELOC", reg))

Exp2NextReg(fs, e) ==
    LET r == DischargeVars(fs, e)
        n == ReserveRegs(FreeExp(r.fs, r.e), 1)
    IN Exp2Reg(n, r.e, n.freereg - 1)

\* A local variable is no place for the values of the jumps.
Exp2AnyReg(fs, e) ==
    LET r == DischargeVars(fs, e) IN
    IF r.e.k = "VNONRELOC" /\ ~HasJumps(r.e) THEN r
    ELSE IF r.e.k = "VNONRELOC" /\ r.e.info >= NVarStack(r.fs)
         THEN Exp2Reg(r.fs, r.e, r.e.info)
    ELSE Exp2NextReg(r.fs, r.e)
Exp2AnyRegUp(fs, e) == IF e.k # "VUPVAL" \/ HasJumps(e) THEN Exp2AnyReg(fs, e) ELSE R(fs, e)

KOf(e) == CASE e.k = "VTRUE" -> Bool(TRUE) [] e.k = "VFALSE" -> Bool(FALSE)
            [] e.k = "VNIL" -> Nil [] e.k = "VKINT" -> Number(e.info)
            [] e.k = "VKSTR" -> Str(e.info)
CanBeK(e) == ~HasJumps(e) /\ e.k \in {"VTRUE", "VFALSE", "VNIL", "VKINT", "VKSTR", "VK"}
Exp2K(fs, e) ==
    IF e.k = "VK" THEN R(fs, e)
    ELSE LET n == AddK(fs, KOf(e)) IN R(n, [e EXCEPT !.k = "VK", !.info = KIndex(n, KOf(e))])
Exp2RK(fs, e) == IF CanBeK(e) THEN Exp2K(fs, e) ELSE Exp2AnyReg(fs, e)

\* codeABRK and luaK_storevar.
CodeABRK(fs, op, a, b, ex) ==
    LET r == Exp2RK(fs, ex) IN R(Emit(r.fs, op, a, b, r.e.info, CanBeK(ex)), r.e)
StoreVar(fs, var, ex) ==
    LET store(op) == LET r == CodeABRK(fs, op, var.tb, var.ix, ex) IN FreeExp(r.fs, r.e)
    IN CASE var.k = "VLOCAL" -> Exp2Reg(FreeExp(fs, ex), ex, var.info).fs
         [] var.k = "VINDEXUP" -> store("SETTABUP")
         [] var.k = "VINDEXI" -> store("SETI")
         [] var.k = "VINDEXSTR" -> store("SETFIELD")
         [] var.k = "VINDEXED" -> store("SETTABLE")

\* luaK_indexed: upvalues are indexed by constant strings only.
Indexed(fs0, t0, k0) ==
    LET str == AddK(fs0, Str(k0.info))
        fs1 == IF k0.k = "VKSTR" THEN str ELSE fs0
        k == IF k0.k = "VKSTR" THEN [k0 EXCEPT !.k = "VK", !.info = KIndex(str, Str(k0.info))]
             ELSE k0
        isK == k.k = "VK" /\ ~HasJumps(k) /\ fs1.k[k.info].t = "str"
        r == IF t0.k = "VUPVAL" /\ ~isK THEN Exp2AnyReg(fs1, t0) ELSE R(fs1, t0)
        key == Exp2AnyReg(r.fs, k)
        at(kind, i) == [r.e EXCEPT !.k = kind, !.tb = r.e.info, !.ix = i]
    IN IF r.e.k = "VUPVAL" THEN R(r.fs, at("VINDEXUP", k.info))
       ELSE IF isK THEN R(r.fs, at("VINDEXSTR", k.info))
       ELSE IF k.k = "VKINT" /\ ~HasJumps(k) /\ k.info \in 0..255
            THEN R(r.fs, at("VINDEXI", k.info))
       ELSE R(key.fs, at("VINDEXED", key.e.info))

\* luaK_setreturns and luaK_setoneret of a call; results = -1 is LUA_MULTRET.
SetReturns(fs, e, results) == SetAt(fs, e.info, [At(fs, e.info) EXCEPT !.c = results + 1])
SetOneRet(fs, e) ==
    IF e.k = "VCALL" THEN [e EXCEPT !.k = "VNONRELOC", !.info = At(fs, e.info).a] ELSE e

-----------------------------------------------------------------------------
(***************************************************************************)
(* The code generator of the Lua compiler, second half of lua/src/lcode.c: *)
(* conditions and the operators.  `and', `or', `not' and the comparisons   *)
(* make jumps; arithmetic is folded when it can be, takes constants and    *)
(* small integers as operands of the instruction, and is followed by the   *)
(* instruction that calls a metamethod when the operands are no numbers.   *)
(* Of the arithmetic, +, - and * of integers are modelled.                 *)
(***************************************************************************)

\* Operators of the grammar, and the events of their metamethods.
Arith == {"ADD", "SUB", "MUL"}
Order == {"LT", "LE"}
ArithK == [ADD |-> "ADDK", SUB |-> "SUBK", MUL |-> "MULK"]
EventOf == [ADD |-> 1, SUB |-> 2, MUL |-> 3]

-----------------------------------------------------------------------------
(* Conditions. *)
NegateCondition(fs, e) ==
    LET pc == JumpControl(fs, e.info) IN SetAt(fs, pc, [At(fs, pc) EXCEPT !.k = ~@])

RemoveLastInstruction(fs) == [fs EXCEPT !.code = SubSeq(@, 1, Len(@) - 1)]

\* The jump is the last instruction; a NOT before it inverts the condition.
JumpOnCond(fs, e, cond) ==
    IF e.k = "VRELOC" /\ At(fs, e.info).op = "NOT"
    THEN CondJump(RemoveLastInstruction(fs), "TEST", At(fs, e.info).b, 0, 0, ~cond)
    ELSE LET r == Discharge2AnyReg(fs, e)
         IN CondJump(FreeExp(r.fs, r.e), "TESTSET", NoReg, r.e.info, 0, cond)

\* luaK_goiftrue and luaK_goiffalse: the new jump joins one list, the other
\* list comes here.
AlwaysTrue == {"VK", "VKINT", "VKSTR", "VTRUE"}
GoIfTrue(fs0, e0) ==
    LET r == DischargeVars(fs0, e0)
        e == r.e
        n == CASE e.k = "VJMP" -> NegateCondition(r.fs, e)
               [] e.k \in AlwaysTrue -> r.fs
               [] OTHER -> JumpOnCond(r.fs, e, FALSE)
        pc == CASE e.k = "VJMP" -> e.info
                [] e.k \in AlwaysTrue -> NoJump
                [] OTHER -> Pc(n) - 1
    IN R(PatchToHere(Join(n, e.f, pc), e.t),
         [e EXCEPT !.f = JoinedHead(@, pc), !.t = NoJump])
GoIfFalse(fs0, e0) ==
    LET r == DischargeVars(fs0, e0)
        e == r.e
        n == IF e.k \in {"VJMP", "VNIL", "VFALSE"} THEN r.fs ELSE JumpOnCond(r.fs, e, TRUE)
        pc == CASE e.k = "VJMP" -> e.info
                [] e.k \in {"VNIL", "VFALSE"} -> NoJump
                [] OTHER -> Pc(n) - 1
    IN R(PatchToHere(Join(n, e.t, pc), e.f),
         [e EXCEPT !.t = JoinedHead(@, pc), !.f = NoJump])

CodeNot(fs, e) ==
    LET r == Discharge2AnyReg(fs, e)
        done == CASE e.k \in {"VNIL", "VFALSE"} -> R(fs, [e EXCEPT !.k = "VTRUE"])
                  [] e.k \in AlwaysTrue -> R(fs, [e EXCEPT !.k = "VFALSE"])
                  [] e.k = "VJMP" -> R(NegateCondition(fs, e), e)
                  [] OTHER -> Reloc(FreeExp(r.fs, r.e), r.e, "NOT", r.e.info, 0)
        swapped == [done.e EXCEPT !.t = done.e.f, !.f = done.e.t]
    IN R(RemoveValues(RemoveValues(done.fs, swapped.f), swapped.t), swapped)

-----------------------------------------------------------------------------
(* Arithmetic. *)
IsSCint(e) == ToNumeral(e) /\ FitsC(e.info)

FinishBinExpVal(fs, e1, e2, op, v2, flip, mmop, event) ==
    LET r == Exp2AnyReg(fs, e1)
        n == Emit(r.fs, op, 0, r.e.info, v2, FALSE)
    IN R(Emit(FreeExps(n, r.e, e2), mmop, r.e.info, v2, event, flip),
         [r.e EXCEPT !.k = "VRELOC", !.info = Pc(r.fs)])

\* codebinNoK, after the operands are back in their order.
CodeBinExpVal(fs, op, e1, e2) ==
    LET r == Exp2AnyReg(fs, e2)
    IN FinishBinExpVal(r.fs, e1, r.e, op, r.e.info, FALSE, "MMBIN", EventOf[op])

CodeArith(fs, op, e1, e2, flip) ==
    IF ToNumeral(e2)
    THEN LET r == Exp2K(fs, e2)
         IN FinishBinExpVal(r.fs, e1, r.e, ArithK[op], r.e.info, flip, "MMBINK", EventOf[op])
    ELSE IF flip THEN CodeBinExpVal(fs, op, e2, e1) ELSE CodeBinExpVal(fs, op, e1, e2)

CodeCommutative(fs, op, e1, e2) ==
    LET flip == ToNumeral(e1)
        x == IF flip THEN e2 ELSE e1
        y == IF flip THEN e1 ELSE e2
    IN IF op = "ADD" /\ IsSCint(y)
       THEN FinishBinExpVal(fs, x, y, "ADDI", y.info, flip, "MMBINI", EventOf[op])
       ELSE CodeArith(fs, op, x, y, flip)

\* finishbinexpneg: x - I is x + -I, but its metamethod gets I.
CanNegate(e) == ToNumeral(e) /\ FitsC(e.info) /\ FitsC(-e.info)
FinishBinExpNeg(fs, e1, e2) ==
    LET r == FinishBinExpVal(fs, e1, e2, "ADDI", -e2.info, FALSE, "MMBINI", EventOf["SUB"])
    IN R(SetAt(r.fs, Pc(r.fs) - 1, [At(r.fs, Pc(r.fs) - 1) EXCEPT !.b = e2.info]), r.e)

-----------------------------------------------------------------------------
(* Comparisons: the instruction, then the jump. *)
Compare(fs, op, r1, r2, e1, e2, k) ==
    LET n == CondJump(FreeExps(fs, e1, e2), op, r1, r2, 0, k)
    IN R(n, [e1 EXCEPT !.k = "VJMP", !.info = Pc(n) - 1])

CodeOrder(fs, op, e1, e2) ==
    LET x == Exp2AnyReg(fs, e1)
        y == Exp2AnyReg(fs, e2)
        xy == Exp2AnyReg(x.fs, e2)
    IN CASE IsSCint(e2) ->
              Compare(x.fs, IF op = "LT" THEN "LTI" ELSE "LEI", x.e.info, e2.info, x.e, e2, TRUE)
         [] ~IsSCint(e2) /\ IsSCint(e1) ->
              Compare(y.fs, IF op = "LT" THEN "GTI" ELSE "GEI", y.e.info, e1.info, e1, y.e, TRUE)
         [] OTHER -> Compare(xy.fs, op, x.e.info, xy.e.info, x.e, xy.e, TRUE)

CodeEq(fs, equal, a, b) ==
    LET e1 == IF a.k = "VNONRELOC" THEN a ELSE b
        e2 == IF a.k = "VNONRELOC" THEN b ELSE a
        x == Exp2AnyReg(fs, e1)
        y == Exp2RK(x.fs, e2)
    IN IF IsSCint(e2) THEN Compare(x.fs, "EQI", x.e.info, e2.info, x.e, e2, equal)
       ELSE Compare(y.fs, IF CanBeK(e2) THEN "EQK" ELSE "EQ",
                    x.e.info, y.e.info, x.e, y.e, equal)

-----------------------------------------------------------------------------
(* The operators, as the parser meets them. *)
Prefix(fs0, op, e0) ==
    LET r == DischargeVars(fs0, e0)
        v == Exp2AnyReg(r.fs, r.e)
    IN CASE op = "not" -> CodeNot(r.fs, r.e)
         [] op = "-" /\ ToNumeral(r.e) -> R(r.fs, [r.e EXCEPT !.info = -@])
         [] OTHER -> Reloc(FreeExp(v.fs, v.e), v.e, "UNM", v.e.info, 0)

\* luaK_infix: the first operand, before the second is read.
Infix(fs0, op, e0) ==
    LET r == DischargeVars(fs0, e0) IN
    CASE op = "and" -> GoIfTrue(r.fs, r.e)
      [] op = "or" -> GoIfFalse(r.fs, r.e)
      [] op = "CONCAT" -> Exp2NextReg(r.fs, r.e)
      [] op \in Arith -> IF ToNumeral(r.e) THEN r ELSE Exp2AnyReg(r.fs, r.e)
      [] op \in {"EQ", "NE"} -> IF ToNumeral(r.e) THEN r ELSE Exp2RK(r.fs, r.e)
      [] OTHER -> IF IsSCint(r.e) THEN r ELSE Exp2AnyReg(r.fs, r.e)

\* codeconcat: a concatenation that was just coded takes one more value.
CodeConcat(fs, e1, e2) ==
    LET p == PreviousInstruction(fs) IN
    IF p.op = "CONCAT"
    THEN R(SetAt(FreeExp(fs, e2), Pc(fs) - 1, Instruction("CONCAT", e1.info, p.b + 1, 0, FALSE)), e1)
    ELSE R(FreeExp(Emit(fs, "CONCAT", e1.info, 2, 0, FALSE), e2), e1)

Posfix(fs0, op, e1, e20) ==
    LET r == DischargeVars(fs0, e20)
        fs == r.fs  e2 == r.e
        next == Exp2NextReg(fs, e2)
        folds == op \in Arith /\ ToNumeral(e1) /\ ToNumeral(e2)
    IN CASE folds -> R(fs, [e1 EXCEPT !.info = RawOp(op, @, e2.info)])
         [] op = "and" -> R(Join(fs, e2.f, e1.f), [e2 EXCEPT !.f = JoinedHead(@, e1.f)])
         [] op = "or" -> R(Join(fs, e2.t, e1.t), [e2 EXCEPT !.t = JoinedHead(@, e1.t)])
         [] op = "CONCAT" -> CodeConcat(next.fs, e1, next.e)
         [] op = "SUB" /\ ~folds /\ CanNegate(e2) -> FinishBinExpNeg(fs, e1, e2)
         [] op = "SUB" /\ ~folds /\ ~CanNegate(e2) -> CodeArith(fs, op, e1, e2, FALSE)
         [] op \in {"ADD", "MUL"} /\ ~folds -> CodeCommutative(fs, op, e1, e2)
         [] op \in {"EQ", "NE"} -> CodeEq(fs, op = "EQ", e1, e2)
         [] op = "GT" -> CodeOrder(fs, "LT", e2, e1)
         [] op = "GE" -> CodeOrder(fs, "LE", e2, e1)
         [] op \in Order -> CodeOrder(fs, op, e1, e2)

-----------------------------------------------------------------------------
(* The end of a function. *)
Ret(fs, first, nret) ==
    Emit(fs, CASE nret = 0 -> "RETURN0" [] nret = 1 -> "RETURN1" [] OTHER -> "RETURN",
         first, nret + 1, 0, FALSE)

RECURSIVE FinalTarget(_, _, _)
FinalTarget(fs, pc, count) ==
    IF At(fs, pc).op # "JMP" \/ count = 100 THEN pc
    ELSE FinalTarget(fs, pc + 1 + At(fs, pc).b, count + 1)

\* luaK_finish: returns close what is to be closed, jumps to jumps go on.
RECURSIVE FinishFrom(_, _)
FinishFrom(fs, pc) ==
    IF pc = Pc(fs) THEN fs
    ELSE LET i == At(fs, pc)
             closes == /\ fs.needclose
                       /\ i.op \in {"RETURN0", "RETURN1", "RETURN", "TAILCALL"}
             op == IF i.op = "TAILCALL" THEN i.op ELSE "RETURN"
         IN FinishFrom(CASE closes -> SetAt(fs, pc, [i EXCEPT !.op = op, !.k = TRUE])
                         [] i.op = "JMP" -> FixJump(fs, pc, FinalTarget(fs, pc, 0))
                         [] OTHER -> fs, pc + 1)
Finish(fs) == FinishFrom(fs, 0)
=============================================================================
