---------------------------- MODULE MCLuaRuntime ----------------------------
(***************************************************************************)
(* The Lua that runs the programs: the collector and the program it runs   *)
(* beside, one table, the calls, errors and coroutines of a state, and the *)
(* compiler with the interpreter of its code.  Each behaviour follows one; *)
(* the others rest, for what a table holds or a call does is to the others *)
(* the allocations, values and calls that they already choose freely.      *)
(***************************************************************************)
EXTENDS LuaCollector, LuaTable, LuaCalls, LuaVm

VARIABLE followed \* the part that this behaviour is about

runtimeVars == <<gcVars, tableVars, calls, machine, followed>>

RuntimeInit ==
    /\ followed \in {"collector", "table", "calls", "program"}
    /\ IF followed = "collector" THEN GcInit ELSE GcRests
    /\ IF followed = "table" THEN TableInit ELSE TableRests
    /\ IF followed = "calls" THEN CallsInit ELSE CallsRest
    /\ IF followed = "program" THEN ProgramInit ELSE ProgramRests

RuntimeNext ==
    /\ UNCHANGED followed
    /\ \/ followed = "collector" /\ GcNext /\ UNCHANGED <<tableVars, calls, machine>>
       \/ followed = "table" /\ TableNext /\ UNCHANGED <<gcVars, calls, machine>>
       \/ followed = "calls" /\ CallsNext /\ UNCHANGED <<gcVars, tableVars, machine>>
       \/ followed = "program" /\ ProgramNext /\ UNCHANGED <<gcVars, tableVars, calls>>

RuntimeSpec == RuntimeInit /\ [][RuntimeNext]_runtimeVars

-----------------------------------------------------------------------------
(* Nothing in use is freed, garbage is, and finalizers come first (lgc.c). *)
GcSound == followed = "collector" => GcSafe /\ Collected /\ FinalizedFirst

(* A table is a map with a border, and can be traversed (ltable.c).        *)
TableSound == followed = "table" => TableTrue /\ TraversalTrue

(* What is to be closed is closed once, an error is heard where it should  *)
(* be, and threads know when they may yield (ldo.c, lfunc.c, lcorolib.c).  *)
CallsSound == followed = "calls" => ClosedOnce /\ ErrorsHeard /\ CoroutinesTrue

-----------------------------------------------------------------------------
(***************************************************************************)
(* The bounds.  Collector: three or four objects of kinds                  *)
(* that meet in one rule, two or three assignments, one or two             *)
(* collections.  Table: integer keys around the powers of two, strings     *)
(* that collide with them, parts of different first sizes.  Calls: a       *)
(* coroutine, four frames, two variables to close, two errors.  Programs:  *)
(* expressions, conditions, assignments, loops with variables to close,    *)
(* gotos out of them, and what has to be refused.                          *)
(***************************************************************************)

Cast(kinds, assignments, collections) ==
    [kinds |-> [o \in LuaObjects |->
                   CASE o = "main" -> "main"
                     [] o = "o1" -> kinds[1]
                     [] o = "o2" -> kinds[2]
                     [] o = "o3" /\ Len(kinds) > 2 -> kinds[3]
                     [] o = "o4" /\ Len(kinds) > 3 -> kinds[4]
                     [] OTHER -> "gone"],
     stores |-> assignments, cycles |-> collections]
MCCasts ==
    {Cast(<<"weakv", "udata">>, 2, 2), Cast(<<"allweak", "udata">>, 2, 2),
     Cast(<<"table", "udata">>, 3, 2), Cast(<<"thread", "closure", "upval">>, 2, 1),
     Cast(<<"thread", "closure", "upval", "table">>, 1, 1),
     Cast(<<"ephemeron", "table", "table">>, 1, 1), Cast(<<"ephemeron", "udata">>, 2, 2),
     Cast(<<"udata", "udata">>, 1, 2)}

MCTableKeys == {[kind |-> "int", n |-> n] : n \in {1, 2, 3, 4, 7}}
               \union {[kind |-> "str", n |-> n] : n \in {2, 5}}
MCFirstSizes == {<<0, 0>>, <<2, 0>>, <<3, 2>>}

-----------------------------------------------------------------------------
(* Programs: names are numbers from 101, labels from 201. *)
Var(n) == <<"var", n>>
A == Var(101)
B == Var(102)
C == Var(103)
D == Var(104)
F == Var(105)
Iterator == Var(106)
G == Var(107)
NilE == <<"nil">>
TrueE == <<"true">>
Lit(n) == <<"int", n>>
Bin(op, x, y) == <<"bin", op, x, y>>
Not(x) == <<"un", "not", x>>
CallF(args) == <<"call", F, args>>
Index(t, k) == <<"index", t, k>>
Field(t) == <<"field", t, 108>>
ReturnStat(es) == <<"return", es>>
AssignStat(targets, es) == <<"assign", targets, es>>
Local(n, attribute, e) == <<"local", <<<<n, attribute>>>>, <<e>>>>
IfThen(c, b) == <<"if", <<<<c, b>>>>, <<>>>>
IfElse(c, b, otherwise) == <<"if", <<<<c, b>>>>, otherwise>>
Label(n) == <<"label", n>>
GotoStat(n) == <<"goto", n>>
Legal(block) == [block |-> block, legal |-> TRUE]

Operators == {"and", "or", "EQ", "NE", "LT", "LE", "GT", "GE", "CONCAT", "ADD", "SUB", "MUL"}
Simple == {Bin(op, x, y) : op \in Operators, x \in {A, Lit(1)}, y \in {B, Lit(200)}}
Nested == {Bin(op, x, B) : op \in {"and", "LT", "CONCAT", "SUB"}, x \in Simple}
          \union {Bin(op, Lit(1), x) : op \in {"or", "EQ", "CONCAT", "ADD"}, x \in Simple}
          \union {<<"un", op, x>> : op \in {"not", "-"}, x \in {A, B, Lit(1), Bin("SUB", A, B)}}
Computed == {CallF(<<A>>), CallF(<<B>>), Bin("SUB", A, B)}
Values1 ==
    {Legal(<<ReturnStat(<<e>>)>>) : e \in
        Nested \union {Bin(op, x, y) : op \in Operators, x \in Computed, y \in Computed}}

Logical == {"and", "or", "EQ"}
Terms == {Bin(op, x, y) : op \in Logical, x \in {A, CallF(<<A>>)}, y \in {B, NilE}}
         \union {Not(A), NilE, Lit(1), TrueE}
Conditions == {Bin(op, x, y) : op \in Logical, x \in Terms, y \in {B, TrueE, Not(CallF(<<B>>)), Bin("or", A, B)}}
Tests1 ==
    {Legal(<<IfElse(e, <<CallF(<<Lit(1)>>)>>, <<CallF(<<Lit(2)>>)>>), ReturnStat(<<A, B>>)>>)
        : e \in Conditions \union {Not(x) : x \in Conditions}}
    \union {Legal(<<Local(103, "", e), ReturnStat(<<C>>)>>)
        : e \in Conditions \union {Not(x) : x \in Conditions}}
    \union {Legal(<<<<"while", e, <<CallF(<<Lit(1)>>), AssignStat(<<A, B>>, <<B, NilE>>)>>>>>>)
        : e \in Conditions}

Table1 == <<"table", <<<<"item", B>>, <<"item", A>>, <<"named", 108, A>>, <<"rec", Lit(7), B>>,
                       <<"item", CallF(<<B>>)>>>>>>
Targets1 == {A, C, Index(C, A), Index(C, Lit(1)), Field(C), G}
Sources == {<<A, B>>, <<Index(C, Lit(1)), CallF(<<B, A>>)>>, <<CallF(<<B, A>>)>>,
            <<CallF(<<A>>), Index(C, Lit(1))>>}
Assignments ==
    {Legal(<<Local(103, "", Table1), Local(104, "", C), AssignStat(<<x, y>>, es), ReturnStat(<<A, B, C, D>>)>>)
        : x, y \in Targets1, es \in Sources}

Raises == AssignStat(<<A>>, <<Bin("ADD", NilE, Lit(1))>>)
Exits == {<<CallF(<<Lit(1)>>)>>, <<ReturnStat(<<CallF(<<A>>)>>)>>, <<ReturnStat(<<A, C>>)>>, <<GotoStat(201)>>,
          <<GotoStat(202)>>, <<Raises>>, <<<<"break">>>>}
Openings == {<<>>, <<Local(103, "<close>", B)>>, <<Local(104, "", A), Local(103, "<close>", B)>>,
             <<Local(103, "<const>", Lit(5)), Local(104, "<close>", B)>>}
Bodies == {o \o <<IfThen(A, x), CallF(<<C>>)>> : o \in Openings, x \in Exits}
          \union {o \o x : o \in Openings, x \in Exits}
LoopsOf(body) ==
    LET block == <<body, Label(202)>>
        until == Bin("EQ", A, Lit(1))
    IN {<<"while", A, block>>,
        <<"fornum", 104, <<Lit(1), Lit(3)>>, block>>,
        <<"fornum", 103, <<Lit(3), A, <<"un", "-", Lit(1)>>>>, block>>,
        <<"forin", <<103, 104>>, <<Iterator, Lit(2), Lit(0), B>>, block>>,
        <<"repeat", block, until>>,
        <<"repeat", <<Local(103, "<close>", B)>> \o block, until>>}
LoopPrograms ==
    {Legal(<<l, CallF(<<Lit(2)>>), Label(201), ReturnStat(<<A>>)>>)
        : l \in UNION {LoopsOf(<<"do", b>>) : b \in Bodies}}

Refused ==
    {[block |-> b, legal |-> FALSE] : b \in
        {<<<<"break">>>>, <<GotoStat(201), Local(103, "", A), Label(201), CallF(<<C>>)>>, <<GotoStat(201)>>,
         <<<<"do", <<Label(201)>>>>, GotoStat(201)>>, <<Local(103, "<const>", Lit(1)), AssignStat(<<C>>, <<A>>)>>,
         <<Local(103, "<close>", B), AssignStat(<<A, C>>, <<A>>)>>, <<Label(201), Label(201)>>,
         <<<<"repeat", <<GotoStat(201), Local(103, "", A), Label(201)>>, A>>>>,
         <<<<"fornum", 103, <<Lit(1), Lit(2)>>, <<AssignStat(<<C>>, <<A>>)>>>>>>}}

MCPrograms == Values1 \union Tests1 \union Assignments \union LoopPrograms \union Refused
MCCompiled == LET code(p) == ProtoOf(p.block) IN [p \in MCPrograms |-> code(p)]
MCParameters == <<101, 102>>
MCArguments == {<<Number(1), Number(2)>>, <<Nil, Number(1)>>, <<Bool(FALSE), Str(3)>>,
                <<Object, Number(1)>>, <<Str(4), Object>>, <<Bool(TRUE), Nil>>}
MCGlobals == [k \in {Str(105), Str(106), Str(107)} |->
                 CASE k = Str(105) -> Echo [] k = Str(106) -> Counter [] OTHER -> Number(3)]
=============================================================================
