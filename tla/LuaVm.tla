------------------------------- MODULE LuaVm --------------------------------
(***************************************************************************)
(* The interpreter of Lua's instructions, luaV_execute in lua/src/lvm.c,   *)
(* for one call of one function whose upvalue is the table of globals.     *)
(*                                                                         *)
(* The frame: pc, the registers r, top, the registers to be closed, and    *)
(* the world.  A test is followed by the jump it takes, an arithmetic      *)
(* instruction by the one that calls a metamethod in its place.            *)
(***************************************************************************)
EXTENDS LuaParser, LuaMeaning

CONSTANT MaxRegister    \* registers are 0..MaxRegister
ASSUME VmConstants == MaxRegister \in Nat

StartFrame(world, args) ==
    [pc |-> 0, r |-> [i \in 0..MaxRegister |-> IF i < Len(args) THEN args[i + 1] ELSE Nil],
     top |-> 0, tbc |-> <<>>, done |-> FALSE, results |-> <<>>, w |-> world]

\* RKC: a constant or a register.
RKC(p, f, i) == IF i.k THEN p.k[i.c] ELSE f.r[i.c]
Advance(f) == [f EXCEPT !.pc = @ + 1]
SetReg(f, a, v) == [f EXCEPT !.r[a] = v]
InWorld(f, w) == [f EXCEPT !.w = w]
\* A register gets the value of an operation on the world.
Result(f, a, wv) == InWorld(SetReg(f, a, wv.v), wv.w)
Regs(f, from, n) == [j \in 1..n |-> f.r[from + j - 1]]

\* luaF_close: the last to be marked is closed first; an error closes all.
RECURSIVE CloseFrom(_, _)
CloseFrom(f, level) ==
    IF f.tbc = <<>> \/ Last(f.tbc) < level THEN f
    ELSE CloseFrom([f EXCEPT !.tbc = Front(@), !.w = CloseValue(@, f.r[Last(f.tbc)])], level)
\* luaF_newtbcupval.
MarkTbc(f, a) ==
    IF IsFalse(f.r[a]) THEN f
    ELSE IF ~Closable(f.r[a]) THEN InWorld(f, Fail(f.w))
    ELSE [f EXCEPT !.tbc = Append(@, a)]
RaiseError(f) == [CloseFrom(f, 0) EXCEPT !.done = TRUE]

-----------------------------------------------------------------------------
(* The instructions, by kind; f has already advanced past i. *)
Load(p, f, i) ==
    CASE i.op = "MOVE" -> SetReg(f, i.a, f.r[i.b])
      [] i.op = "LOADI" -> SetReg(f, i.a, Number(i.b))
      [] i.op = "LOADK" -> SetReg(f, i.a, p.k[i.b])
      [] i.op = "LOADFALSE" -> SetReg(f, i.a, Bool(FALSE))
      [] i.op = "LFALSESKIP" -> Advance(SetReg(f, i.a, Bool(FALSE)))
      [] i.op = "LOADTRUE" -> SetReg(f, i.a, Bool(TRUE))
      [] i.op = "LOADNIL" ->
            [f EXCEPT !.r = [j \in DOMAIN @ |-> IF j \in i.a .. i.a + i.b THEN Nil ELSE @[j]]]
LoadOps == {"MOVE", "LOADI", "LOADK", "LOADFALSE", "LFALSESKIP", "LOADTRUE", "LOADNIL"}

Access(p, f, i) ==
    CASE i.op = "GETTABUP" -> SetReg(f, i.a, GlobalValue(f.w, p.k[i.c]))
      [] i.op = "GETTABLE" -> Result(f, i.a, FieldOf(f.w, f.r[i.b], f.r[i.c]))
      [] i.op = "GETI" -> Result(f, i.a, FieldOf(f.w, f.r[i.b], Number(i.c)))
      [] i.op = "GETFIELD" -> Result(f, i.a, FieldOf(f.w, f.r[i.b], p.k[i.c]))
      [] i.op = "SETTABUP" -> InWorld(f, SetGlobal(f.w, p.k[i.b], RKC(p, f, i)))
      [] i.op = "SETTABLE" -> InWorld(f, Put(f.w, f.r[i.a], f.r[i.b], RKC(p, f, i)))
      [] i.op = "SETI" -> InWorld(f, Put(f.w, f.r[i.a], Number(i.b), RKC(p, f, i)))
      [] i.op = "SETFIELD" -> InWorld(f, Put(f.w, f.r[i.a], p.k[i.b], RKC(p, f, i)))
AccessOps == {"GETTABUP", "GETTABLE", "GETI", "GETFIELD",
              "SETTABUP", "SETTABLE", "SETI", "SETFIELD"}

\* NEWTABLE skips its extra argument; SETLIST takes the registers up to top.
RECURSIVE PutList(_, _, _, _, _)
PutList(w, f, a, last, n) ==
    IF n = 0 THEN w
    ELSE PutList(Put(w, f.r[a], Number(last), f.r[a + n]), f, a, last - 1, n - 1)
Construct(p, f, i) ==
    LET n == IF i.b = 0 THEN f.top - i.a - 1 ELSE i.b IN
    CASE i.op = "NEWTABLE" -> Advance(Result(f, i.a, NewTable(f.w)))
      [] i.op = "SETLIST" -> InWorld(f, PutList(f.w, f, i.a, i.c + n, n))
ConstructOps == {"NEWTABLE", "SETLIST"}

\* Only integers do not need the next instruction.
Compute(p, f, i) ==
    LET op == CASE i.op \in {"ADD", "ADDK", "ADDI"} -> "ADD" [] i.op \in {"SUB", "SUBK"} -> "SUB"
                [] OTHER -> "MUL"
        x == f.r[i.b]
        y == CASE i.op = "ADDI" -> Number(i.c) [] i.op \in {"ADDK", "SUBK", "MULK"} -> p.k[i.c]
               [] OTHER -> f.r[i.c]
    IN IF x.t = "int" /\ y.t = "int" THEN Advance(SetReg(f, i.a, Number(RawOp(op, x.n, y.n))))
       ELSE f
ComputeOps == {"ADD", "ADDK", "ADDI", "SUB", "SUBK", "MUL", "MULK"}

\* The operands of the metamethod, in the order of the source.
EventName == <<"ADD", "SUB", "MUL">>
Metamethod(p, f, i) ==
    LET x == f.r[i.a]
        y == CASE i.op = "MMBIN" -> f.r[i.b] [] i.op = "MMBINI" -> Number(i.b)
               [] i.op = "MMBINK" -> p.k[i.b]
        result == At(p, f.pc - 2).a
    IN Result(f, result, IF i.k THEN TryBinTM(f.w, EventName[i.c], y, x)
                         ELSE TryBinTM(f.w, EventName[i.c], x, y))
MetamethodOps == {"MMBIN", "MMBINI", "MMBINK"}

\* luaV_concat, from the last operand.
RECURSIVE ConcatRegs(_, _, _)
ConcatRegs(f, a, n) ==
    LET c == ConcatOf(f.w, f.r[a + n - 2], f.r[a + n - 1]) IN
    IF n = 1 \/ f.w.failed THEN f ELSE ConcatRegs(Result(f, a + n - 2, c), a, n - 1)
Unary(p, f, i) ==
    CASE i.op = "UNM" -> Result(f, i.a, Minus(f.w, f.r[i.b]))
      [] i.op = "NOT" -> SetReg(f, i.a, Bool(IsFalse(f.r[i.b])))
      [] i.op = "CONCAT" -> ConcatRegs(f, i.a, i.b)
UnaryOps == {"UNM", "NOT", "CONCAT"}

\* docondjump: a test that is k takes the jump that follows, else skips it.
TakeJump(p, f) == [f EXCEPT !.pc = @ + 1 + At(p, f.pc).b]
CondJumpIf(p, f, i, wv) ==
    LET n == InWorld(f, wv.w) IN IF IsTrue(wv.v) = i.k THEN TakeJump(p, n) ELSE Advance(n)
Test(p, f, i) ==
    LET x == f.r[i.a]
        im == Number(i.b)
        is(b) == WV(f.w, Bool(b))
        wv == CASE i.op = "EQ" -> is(x = f.r[i.b])
                [] i.op = "EQK" -> is(x = p.k[i.b])
                [] i.op = "EQI" -> is(x = im)
                [] i.op \in {"LT", "LE"} -> OrderOf(f.w, i.op, x, f.r[i.b])
                [] i.op = "LTI" -> OrderOf(f.w, "LT", x, im)
                [] i.op = "LEI" -> OrderOf(f.w, "LE", x, im)
                [] i.op = "GTI" -> OrderOf(f.w, "LT", im, x)
                [] i.op = "GEI" -> OrderOf(f.w, "LE", im, x)
                [] i.op = "TEST" -> is(IsTrue(x))
    IN IF i.op # "TESTSET" THEN CondJumpIf(p, f, i, wv)
       ELSE IF IsFalse(f.r[i.b]) = i.k THEN Advance(f)
       ELSE TakeJump(p, SetReg(f, i.a, f.r[i.b]))

Jumps(p, f, i) ==
    CASE i.op = "JMP" -> [f EXCEPT !.pc = @ + i.b]
      [] i.op = "CLOSE" -> CloseFrom(f, i.a)
      [] i.op = "TBC" -> MarkTbc(f, i.a)
JumpsOps == {"JMP", "CLOSE", "TBC"}

\* A native function has its results at once, in place of the call.
Returned(f, a, wv, nresults) ==
    LET n == IF nresults = -1 THEN Len(wv.v) ELSE nresults
    IN [f EXCEPT !.w = wv.w,
                 !.r = [j \in DOMAIN @ |->
                          IF j \in a .. a + n - 1
                          THEN IF j - a < Len(wv.v) THEN wv.v[j - a + 1] ELSE Nil
                          ELSE @[j]],
                 !.top = IF nresults = -1 THEN a + n ELSE @]
CallAt(f, i) ==
    LET n == IF i.b = 0 THEN f.top - i.a - 1 ELSE i.b - 1
    IN CallValue(f.w, f.r[i.a], Regs(f, i.a + 1, n))
\* OP_RETURN closes before it gives its results; the results stay.
ReturnOf(f, from, n, closes) ==
    LET c == IF closes THEN CloseFrom(f, 0) ELSE f
    IN [c EXCEPT !.done = TRUE, !.results = Regs(f, from, n)]
Calls(p, f, i) ==
    LET tail == CallAt(f, i)
        n == IF i.b = 0 THEN f.top - i.a ELSE i.b - 1
    IN CASE i.op = "CALL" -> Returned(f, i.a, CallAt(f, i), i.c - 1)
         [] i.op = "TAILCALL" -> [InWorld(f, tail.w) EXCEPT !.done = TRUE, !.results = tail.v]
         [] i.op \in {"RETURN", "RETURN0", "RETURN1"} -> ReturnOf(f, i.a, n, i.k)
CallsOps == {"CALL", "TAILCALL", "RETURN", "RETURN0", "RETURN1"}

\* forprep: the registers become the count, the step and the variable.  The
\* limit may be a numeral; loops of floats are left out.
IsLoop(init, limit, step) ==
    init.t = "int" /\ step.t = "int" /\ step.n # 0 /\ (limit.t = "int" \/ IsNumeral(limit))
ForPrep(f, i) ==
    LET init == f.r[i.a]  limit == f.r[i.a + 1]  step == f.r[i.a + 2]
        last == AsNumber(limit)
        skips == IF step.n > 0 THEN init.n > last ELSE init.n < last
        count == IF step.n > 0 THEN (last - init.n) \div step.n
                 ELSE (init.n - last) \div (-step.n)
    IN IF ~IsLoop(init, limit, step) THEN InWorld(f, Fail(f.w))
       ELSE IF skips THEN [f EXCEPT !.pc = @ + i.b + 1]
       ELSE [f EXCEPT !.r[i.a] = Number(count), !.r[i.a + 1] = step, !.r[i.a + 2] = init]
ForLoop(f, i) ==
    LET count == f.r[i.a].n IN
    IF count = 0 THEN f
    ELSE [f EXCEPT !.r[i.a] = Number(count - 1),
                   !.r[i.a + 2] = Number(@.n + f.r[i.a + 1].n),
                   !.pc = @ - i.b]
\* TFORPREP swaps the control and the closing variable.
TForPrep(f, i) ==
    LET n == MarkTbc([f EXCEPT !.r[i.a + 2] = f.r[i.a + 3], !.r[i.a + 3] = f.r[i.a + 2]], i.a + 2)
    IN [n EXCEPT !.pc = @ + i.b]
TForCall(f, i) == Returned(f, i.a + 3, CallValue(f.w, f.r[i.a], Regs(f, i.a + 1, 1) \o
                                                           Regs(f, i.a + 3, 1)), i.c)
TForLoop(f, i) == IF f.r[i.a + 3] = Nil THEN f ELSE [f EXCEPT !.pc = @ - i.b]
Loops(p, f, i) ==
    CASE i.op = "FORPREP" -> ForPrep(f, i) [] i.op = "FORLOOP" -> ForLoop(f, i)
      [] i.op = "TFORPREP" -> TForPrep(f, i) [] i.op = "TFORCALL" -> TForCall(f, i)
      [] i.op = "TFORLOOP" -> TForLoop(f, i)
LoopsOps == {"FORPREP", "FORLOOP", "TFORPREP", "TFORCALL", "TFORLOOP"}

-----------------------------------------------------------------------------
(***************************************************************************)
(* A Lua program is compiled and run: the parser and the code generator    *)
(* make instructions of its text, the interpreter executes them.  What     *)
(* others see of the run is what the program means.                        *)
(***************************************************************************)

CONSTANTS Programs,     \* [block, legal]: the statements, and whether they are to be accepted
          Parameters,   \* the names of the parameters
          Compiled,     \* the code of every program: ProtoOf, computed once
          Arguments,    \* lists of values
          Globals       \* the globals at the start

VARIABLE machine        \* phase, program, proto, args and frame
Phase(p) == machine.phase = p
Proto == machine.proto
Activation == machine.frame
StartWorld == [globals |-> Globals, tables |-> <<>>, trace |-> <<>>,
               failed |-> FALSE, full |-> FALSE]
NoFrame == StartFrame(StartWorld, <<>>)

ProgramStarts(p) ==
    machine = [phase |-> "text", program |-> p, proto |-> OpenFunc(<<>>),
               args |-> <<>>, frame |-> NoFrame]
ProgramInit == \E p \in Programs : ProgramStarts(p)
ProgramRests == machine = [phase |-> "rest"]

\* luaY_parser: the code, or a syntax error.
ProtoOf(block) == [Body(Parameters, ProgramText(block)) EXCEPT !.toks = <<>>]
ASSUME CompiledByParser == \A p \in Programs : Compiled[p] = ProtoOf(p.block)
Compile ==
    /\ Phase("text")
    /\ machine' = [machine EXCEPT !.proto = Compiled[machine.program],
                                  !.phase = IF Compiled[machine.program].error
                                            THEN "rejected" ELSE "code"]
Start ==
    /\ Phase("code")
    /\ \E args \in Arguments :
         machine' = [machine EXCEPT !.phase = "running", !.args = args,
                                    !.frame = StartFrame(StartWorld, args)]

\* One instruction; an error closes what is to be closed and ends the call.
Fetched == At(Proto, Activation.pc)
Fetching == Advance(Activation)
ExecuteOp(ops, done) ==
    LET end == IF done.w.failed /\ ~done.w.full THEN RaiseError(done) ELSE done
    IN /\ Phase("running")
       /\ Fetched.op \in ops
       /\ machine' = [machine EXCEPT !.frame = end,
                                     !.phase = IF end.done \/ end.w.full THEN "ended" ELSE @]
Loads == ExecuteOp(LoadOps, Load(Proto, Fetching, Fetched))
Accesses == ExecuteOp(AccessOps, Access(Proto, Fetching, Fetched))
Constructs == ExecuteOp(ConstructOps, Construct(Proto, Fetching, Fetched))
Computes == ExecuteOp(ComputeOps, Compute(Proto, Fetching, Fetched))
Metamethods == ExecuteOp(MetamethodOps, Metamethod(Proto, Fetching, Fetched))
Unaries == ExecuteOp(UnaryOps, Unary(Proto, Fetching, Fetched))
Tests == ExecuteOp(TestOps, Test(Proto, Fetching, Fetched))
JumpsAndCloses == ExecuteOp(JumpsOps, Jumps(Proto, Fetching, Fetched))
CallsAndReturns == ExecuteOp(CallsOps, Calls(Proto, Fetching, Fetched))
ForLoops == ExecuteOp(LoopsOps, Loops(Proto, Fetching, Fetched))

ProgramNext ==
    \/ Compile \/ Start \/ Loads \/ Accesses \/ Constructs \/ Computes \/ Metamethods
    \/ Unaries \/ Tests \/ JumpsAndCloses \/ CallsAndReturns \/ ForLoops

-----------------------------------------------------------------------------
(* Whatever the compiler does with registers, jump lists, constants and    *)
(* closes, the run of its code makes the calls, ends as, returns and       *)
(* leaves behind what the program means (lcode.c, lparser.c, lvm.c).       *)
CodeMeansProgram ==
    [][Phase("running") /\ Phase("ended")' =>
          Outcome(Activation.w, Activation.results)'
              = Meaning(StartWorld, Parameters, machine.args, machine.program.block)]_machine

(* The compiler takes the programs that are legal and no others, and frees *)
(* its registers in the order in which it took them: the asserts of        *)
(* freereg, enterblock and statement (lcode.c, lparser.c) hold.            *)
CompilerSound ==
    ~Phase("text") /\ ~Phase("rest") =>
        /\ Proto.error = ~machine.program.legal
        /\ ~Proto.error => Proto.sane
=============================================================================
