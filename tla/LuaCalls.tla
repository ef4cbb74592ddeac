------------------------------ MODULE LuaCalls ------------------------------
(***************************************************************************)
(* Calls, protected calls, coroutines and to-be-closed variables of the    *)
(* Lua interpreter: ldo.c, luaF_close (lfunc.c), luaE_resetthread          *)
(* (lstate.c), lcorolib.c, and the instructions of lvm.c that close        *)
(* variables.  Lua code does any of these things at any point; the rest is *)
(* what the C code does until Lua code runs again.                         *)
(*                                                                         *)
(* machine.th[t] is the lua_State of thread t: its status (0 for LUA_OK,   *)
(* Yielded, or the error), the chain of CallInfo frames, the list of       *)
(* to-be-closed slots, the top of the stack and the count of non-yieldable *)
(* calls.  machine.cs is the C stack: activations of luaV_execute, of      *)
(* luaF_close, of C functions, and the setjmp points.  machine.next is     *)
(* what the topmost activation is about to do.  Message handlers, hooks    *)
(* and the limits of both stacks are left out.                             *)
(***************************************************************************)
EXTENDS Integers, Sequences, FiniteSets, SequencesExt, FiniteSetsExt

CONSTANTS Main, Coroutines,
          MaxFrames, MaxDepth,    \* bounds: frames of a thread, C activations
          MaxVariables, MaxErrors \* bounds: variables declared, errors raised

ASSUME CallsConstants ==
    /\ Main \notin Coroutines
    /\ {MaxFrames, MaxDepth, MaxVariables, MaxErrors} \subseteq Nat

VARIABLE calls

Threads == {Main} \union Coroutines
Yielded == -1      \* LUA_YIELD
KeepTop == -2      \* CLOSEKTOP
IsError(status) == status > 0

\* History, in machine: `open`, the declared variables not closed yet; `own`,
\* those of a frame; `misclosed`; `due`, the last error raised towards a pcall
\* or, for a thread, towards its resumer; `heard`, what was due and what came
\* when a call last ended; `alive`, whether a coroutine still has a body to run.
Frame(f, func) == [f |-> f, func |-> func, fresh |-> FALSE, protects |-> FALSE,
                   recovers |-> 0, op |-> "run", level |-> 0, own |-> {}, due |-> 0]
Absent == [status |-> 0, ci |-> <<>>, tbc |-> <<>>, top |-> 0, nny |-> 0,
           alive |-> FALSE, due |-> 0]
Record(rec, t) == [rec |-> rec, th |-> t, level |-> 0, status |-> 0, frames |-> 0,
                   nny |-> 0, yy |-> FALSE, how |-> ""]

Cur(m) == Last(m.cs).th
CurrentOf(m) == m.th[Cur(m)]
Goto(m, step) == [m EXCEPT !.next = [step |-> step, status |-> 0]]
PushC(m, r) == [m EXCEPT !.cs = Append(@, r)]
PopC(m) == [m EXCEPT !.cs = Front(@)]

\* prepCallInfo, luaD_poscall: a frame above the top, and back to its function.
PushFrame(m, t, f) == [m EXCEPT !.th[t].ci = Append(@, f), !.th[t].top = f.func + 1]
PopFrame(m) == [m EXCEPT !.th[Cur(m)].ci = Front(@),
                         !.th[Cur(m)].top = Last(CurrentOf(m).ci).func]
SetFrame(m, f) == [m EXCEPT !.th[Cur(m)].ci = Front(@) \o <<f>>]

\* ccall of a Lua function; nny counts the calls that may not yield.
PushCall(m, t, func, inc) ==
    LET f == [Frame("lua", func) EXCEPT !.fresh = TRUE]
        n == [PushFrame(m, t, f) EXCEPT !.th[t].nny = @ + inc]
    IN Goto(PushC(n, Record("execute", t)), "run")

Hears(m, due, got) == [m EXCEPT !.heard = [due |-> due, got |-> got]]

-----------------------------------------------------------------------------
\* luaF_close: the loop itself is CloseNext.
Close(m, level, status, yy) ==
    Goto(PushC(m, [Record("close", Cur(m)) EXCEPT !.level = level, !.status = status,
                                                  !.yy = yy]), "close")

\* luaD_closeprotected, once more for every error in a closing method.
CloseProtected(m, level, status) ==
    LET r == [Record("closeprotected", Cur(m)) EXCEPT !.level = level, !.status = status,
                  !.frames = Len(CurrentOf(m).ci), !.nny = CurrentOf(m).nny]
    IN Close(PushC(m, r), level, status, FALSE)

\* lua_closethread and luaE_resetthread; `from` goes on in the way `how`.  A
\* thread that closes itself gives up the errors it was handling, but for one
\* that another thread is closing it with.
Handlers(m) == {i \in DOMAIN m.cs : m.cs[i].th = Cur(m)
                    /\ m.cs[i].rec \in {"pcall", "closeprotected", "resume"}}
ResetThread(m, t, how) ==
    LET status == IF m.th[t].status = Yielded THEN 0 ELSE m.th[t].status
        due == IF how = "self" THEN m.cs[Min(Handlers(m))].status ELSE m.th[t].due
        n == [m EXCEPT !.th[t] = [@ EXCEPT !.ci = <<>>, !.status = 0, !.nny = 0,
                                           !.alive = FALSE, !.due = due],
                       !.cs = Append(@, [Record("reset", t) EXCEPT !.how = how])]
    IN CloseProtected(n, 1, status)

-----------------------------------------------------------------------------
\* luaG_errormsg and luaD_throw: to the innermost setjmp of the thread, or
\* with `throwbase` (luaD_throwbaselevel) to the outermost.
Catcher(t) == Max({0} \union {i \in DOMAIN t.ci : t.ci[i].f = "pcall"})
Throw(m, status) ==
    LET t == Cur(m)  at == Catcher(m.th[t])
        n == IF ~IsError(status) THEN m
             ELSE IF at = 0 THEN [m EXCEPT !.th[t].due = status]
             ELSE [m EXCEPT !.th[t].ci[at].due = status]
    IN [n EXCEPT !.next = [step |-> "throw", status |-> status]]
Raise(m) == Throw([m EXCEPT !.errors = @ + 1], m.errors + 1)

\* A C function that was called from Lua code returns to it.
ReturnC(m) == Goto(PopFrame(m), IF Last(m.cs).rec = "execute" THEN "run" ELSE "unroll")
ReturnFalse(m, due, status) == ReturnC(Hears(m, due, status))

\* luaE_resetthread ends; the error, if any, moves to `from`.
AfterReset(m, r, status) ==
    LET c == [PopC(m) EXCEPT !.th[r.th].top = 1]
        n == Hears([c EXCEPT !.th[r.th].due = 0], m.th[r.th].due, status)
    IN CASE r.how = "self" -> [c EXCEPT !.next = [step |-> "throwbase", status |-> status]]
         [] r.how = "close" -> ReturnC(n)
         [] r.how = "wrap" -> Throw(n, status)

\* luaD_closeprotected returns to luaD_pcall or to luaE_resetthread.
AfterCloseProtected(m, status) ==
    LET r == Last(m.cs) IN
    IF r.rec = "reset" THEN AfterReset(m, r, status)
    ELSE LET n == [PopC(m) EXCEPT !.th[r.th].nny = r.nny] IN
         IF n.cs = <<>> THEN Hears(Goto(n, "done"), n.th[Main].due, status)
         ELSE ReturnFalse(n, Last(CurrentOf(n).ci).due, status)

\* luaV_execute leaves a frame: for the Lua code that called it, or for C.
ReturnLua(m) ==
    LET fresh == Last(CurrentOf(m).ci).fresh
        n == PopFrame(m)
        c == PopC(n)
        r == Last(c.cs)
        pcall == Last(c.th[r.th].ci)
    IN IF ~fresh THEN Goto(n, "run")
       ELSE CASE r.rec = "pcall" ->
                  LET d == [PopC(c) EXCEPT !.th[r.th].nny = r.nny] IN
                  IF d.cs = <<>> THEN Hears(Goto(d, "done"), 0, 0)
                  ELSE ReturnC(Hears(d, pcall.due, 0))
              [] r.rec = "ypcall" -> ReturnC(Hears(PopC(c), pcall.due, 0))
              [] r.rec = "callback" ->
                  ReturnC([PopC(c) EXCEPT !.th[r.th].nny = @ - 1])
              [] r.rec = "close" ->
                  Goto([c EXCEPT !.th[r.th].nny = @ - (IF r.yy THEN 0 ELSE 1)], "close")
              [] r.rec = "resume" -> Goto(c, "unroll")

-----------------------------------------------------------------------------
\* callclosemethod: where prepcallclosemth puts the call depends on the status.
CallCloseMethod(m, r, slot) ==
    LET func == CASE r.status = 0 -> slot.pos + 1
                  [] r.status = KeepTop -> m.th[r.th].top
                  [] OTHER -> slot.pos + 2
        late == {v \in m.open : v.th = r.th /\ v.n > slot.var.n}
        n == [m EXCEPT !.misclosed = @ \/ slot.var \notin m.open \/ late # {},
                       !.open = @ \ {slot.var}]
    IN PushCall(n, r.th, func, IF r.yy THEN 0 ELSE 1)

\* poptbclist comes before the call.
PopSlot(m, t) == [m EXCEPT !.th[t].tbc = Front(@)]
CallNextCloser(m, r) == LET slot == Last(m.th[r.th].tbc) IN
    CallCloseMethod(PopSlot(m, r.th), r, slot)

\* finishpcallk after the closing methods ran.
FinishPcall(m) ==
    LET f == Last(CurrentOf(m).ci) IN
    Goto(PopFrame(Hears(m, f.due, f.recovers)), "unroll")

\* What goes on when luaF_close has nothing left to close.
AfterClose(m) ==
    LET r == Last(m.cs)
        c == PopC(m)
        below == Last(c.cs)
        f == Last(CurrentOf(c).ci)
    IN CASE below.rec = "execute" /\ f.op = "block" ->
              Goto([SetFrame(c, [f EXCEPT !.op = "run"]) EXCEPT !.th[r.th].top = r.level], "run")
         [] below.rec = "execute" /\ f.op = "return" -> ReturnLua(c)
         [] below.rec = "closeprotected" -> AfterCloseProtected(PopC(c), r.status)
         [] below.rec = "resume" -> FinishPcall(c)

CloseNext ==
    /\ calls.next.step = "close"
    /\ LET r == Last(calls.cs)  tbc == calls.th[r.th].tbc IN
       calls' = IF tbc # <<>> /\ Last(tbc).pos >= r.level
                  THEN CallNextCloser(calls, r) ELSE AfterClose(calls)

-----------------------------------------------------------------------------
\* The thread that resumed the one whose resume record is on top; auxresume
\* gives it true, or false and the error, and luaB_auxwrap raises the error.
ResumeEnds(m, status) ==
    LET t == Cur(m)
        n == Hears([PopC(m) EXCEPT !.th[t].status = status,
                        !.th[t].top = IF status = 0 THEN 1 ELSE @,
                        !.th[t].alive = @ /\ status = Yielded], m.th[t].due,
                   IF IsError(status) THEN status ELSE 0)
    IN IF IsError(status) /\ Last(CurrentOf(n).ci).f = "wrap"
       THEN ResetThread(n, t, "wrap") ELSE ReturnC(n)

\* findpcall and precover: a pcall that yields or errors interrupted.
FindPcall(ci) == Max({0} \union {i \in DOMAIN ci : ci[i].protects})
Precover(m, status) ==
    LET t == Cur(m)  i == FindPcall(m.th[t].ci) IN
    IF i = 0 THEN ResumeEnds(m, status)
    ELSE LET n == [m EXCEPT !.th[t].ci = SubSeq(@, 1, i)] IN
         Goto([n EXCEPT !.th[t].ci[i].recovers = status], "unroll")

\* Mutant: closing stops at the first error.
CloseRestNot(m, i, status) == AfterCloseProtected(PopC(m), status)

\* longjmp: what luaD_rawrunprotected restores, and its caller.
Restore(m, i) == [m EXCEPT !.cs = SubSeq(@, 1, i), !.th[m.cs[i].th].nny = m.cs[i].nny]
\* An error in a closing method: luaD_closeprotected closes what is left.
CloseRest(m, i, status) ==
    Close([m EXCEPT !.cs[i].status = status], m.cs[i].level, status, FALSE)
Caught(m, i, status) ==
    LET r == m.cs[i]
        n == Restore(m, i)
        c == [n EXCEPT !.th[r.th].ci = SubSeq(@, 1, r.frames)]
    IN CASE r.rec = "pcall" -> CloseProtected(c, r.level, status)
         [] r.rec = "closeprotected" ->
              IF status = 0 THEN AfterCloseProtected(PopC(n), r.status)
              ELSE CloseRest(c, i, status)
         [] r.rec = "resume" ->
              IF IsError(status) THEN Precover(n, status) ELSE ResumeEnds(n, status)

LongJump ==
    /\ calls.next.step = "throw"
    /\ calls' = Caught(calls, Max(Handlers(calls)), calls.next.status)
LongJumpToBase ==
    /\ calls.next.step = "throwbase"
    /\ calls' = Caught(calls, Min(Handlers(calls)), calls.next.status)

\* unroll: finish the topmost frame of a coroutine that yielded or recovers.
\* luaV_finishOp makes an instruction that was closing variables run again.
Resumed(m, f) ==
    LET n == PushC(m, Record("execute", Cur(m))) IN
    CASE f.op = "run" -> Goto(n, "run")
      [] f.op = "block" -> Close(n, f.level, 0, TRUE)
      [] f.op = "return" -> Close(n, f.func + 1, KeepTop, TRUE)
Unroll ==
    /\ calls.next.step = "unroll"
    /\ LET m == calls  ci == CurrentOf(m).ci  f == Last(ci) IN
       calls' = IF ci = <<>> THEN ResumeEnds(m, 0)
                  ELSE IF f.f = "lua" THEN Resumed(m, f)
                  ELSE IF IsError(f.recovers) THEN Close(m, f.func + 1, f.recovers, TRUE)
                  ELSE FinishPcall(m)

-----------------------------------------------------------------------------
(* What Lua code does. *)
Runs == calls.next.step = "run"
MayCall == /\ Runs
           /\ Len(calls.cs) < MaxDepth
           /\ Len(CurrentOf(calls).ci) + 1 < MaxFrames
MayRaise == Runs /\ calls.errors < MaxErrors
TopFrame == Last(CurrentOf(calls).ci)
\* precallC: the frame of a C function, and the machine inside it.
InC(m, name) == PushFrame(m, Cur(m), Frame(name, CurrentOf(m).top))

\* OP_TBC, luaF_newtbcupval.
DeclareToClose ==
    /\ Runs /\ calls.declared < MaxVariables
    /\ LET m == calls  t == Cur(m)
           v == [n |-> m.declared + 1, th |-> t]
           slot == [pos |-> CurrentOf(m).top, var |-> v]
           n == SetFrame(m, [TopFrame EXCEPT !.own = @ \union {v}])
       IN calls' = [n EXCEPT !.declared = @ + 1, !.open = @ \union {v},
                               !.th[t].tbc = Append(@, slot), !.th[t].top = @ + 1]

\* OP_CALL of a Lua function.
Call == MayCall /\ calls' = PushFrame(calls, Cur(calls), Frame("lua", CurrentOf(calls).top))

\* A C function without a continuation that calls back, as table.sort does.
CallBack ==
    /\ MayCall
    /\ LET t == Cur(calls)
           n == PushC(InC(calls, "callback"), Record("callback", t))
       IN calls' = PushCall(n, t, CurrentOf(n).top, 1)

\* luaB_pcall and lua_pcallk: by setjmp where yields are not allowed.
Pcall ==
    /\ MayCall
    /\ LET m == calls  t == Cur(m)  n == InC(m, "pcall")
           r == [Record("pcall", t) EXCEPT !.level = CurrentOf(n).top, !.frames = Len(CurrentOf(n).ci),
                                           !.nny = CurrentOf(n).nny]
           p == SetFrame(n, [Last(CurrentOf(n).ci) EXCEPT !.protects = TRUE])
       IN calls' = IF CurrentOf(m).nny > 0 THEN PushCall(PushC(n, r), t, CurrentOf(n).top, 1)
                     ELSE PushCall(PushC(p, Record("ypcall", t)), t, CurrentOf(n).top, 0)

\* luaB_error, or any operation that fails.
Error == MayRaise /\ calls' = Raise(calls)

\* OP_CLOSE at the end of the block of the innermost variable, and OP_RETURN.
EndBlock ==
    /\ Runs /\ \E s \in Range(CurrentOf(calls).tbc) : s.pos > TopFrame.func
    /\ LET pos == Last(CurrentOf(calls).tbc).pos
           f == [TopFrame EXCEPT !.op = "block", !.level = pos]
       IN calls' = Close(SetFrame(calls, f), pos, 0, TRUE)
Return ==
    /\ Runs
    /\ calls' = IF TopFrame.own = {} THEN ReturnLua(calls)
                  ELSE Close(SetFrame(calls, [TopFrame EXCEPT !.op = "return"]),
                             TopFrame.func + 1, KeepTop, TRUE)

\* luaB_yield, lua_yieldk.
Yield ==
    /\ MayCall
    /\ IF CurrentOf(calls).nny > 0 THEN MayRaise /\ calls' = Raise(InC(calls, "yield"))
       ELSE calls' = Throw([InC(calls, "yield") EXCEPT !.th[Cur(calls)].status = Yielded],
                             Yielded)

\* luaB_cocreate.
Create(t) ==
    /\ Runs /\ calls.th[t].top = 0
    /\ calls' = [calls EXCEPT !.th[t] = [Absent EXCEPT !.top = 2, !.alive = TRUE]]

\* luaB_coresume and the function of coroutine.wrap: auxresume, lua_resume.
CannotResume(r) == \/ r.status = 0 /\ (r.ci # <<>> \/ r.top = 1)
                   \/ IsError(r.status)
Started(m, t) ==
    LET r == m.th[t]
        n == PushC([m EXCEPT !.th[t].nny = 0, !.th[t].status = 0], Record("resume", t))
    IN IF r.status = 0 THEN PushCall(n, t, 1, 0)
       ELSE Goto(PopFrame(n), "unroll")     \* the frame of coroutine.yield returns
Resume(t, name) ==
    /\ MayCall /\ calls.th[t].top > 0
    /\ LET m == InC(calls, name)  r == calls.th[t] IN
       IF ~CannotResume(r) THEN calls' = Started(m, t)
       ELSE IF name = "resume" THEN calls' = ReturnC(m)
       ELSE /\ MayRaise
            /\ calls' = IF IsError(r.status) THEN ResetThread(m, t, "wrap") ELSE Raise(m)

\* auxstatus.
Status(m, t) ==
    LET r == m.th[t] IN
    IF t = Cur(m) THEN "running"
    ELSE IF r.status = Yielded THEN "suspended"
    ELSE IF IsError(r.status) THEN "dead"
    ELSE IF r.ci # <<>> THEN "normal"
    ELSE IF r.top = 1 THEN "dead" ELSE "suspended"

\* luaB_close.
CloseThread(t) ==
    /\ MayCall /\ calls.th[t].top > 0
    /\ LET m == InC(calls, "close")  status == Status(calls, t) IN
       IF status \in {"dead", "suspended"} THEN calls' = ResetThread(m, t, "close")
       ELSE IF status = "running" /\ t # Main THEN calls' = ResetThread(m, t, "self")
       ELSE MayRaise /\ calls' = Raise(m)

\* luai_maccall: main runs in the lua_pcall of its host; incnny in lua_newstate.
CallsInit ==
    LET r == [Record("pcall", Main) EXCEPT !.level = 1, !.nny = 1]
        lua == [Frame("lua", 1) EXCEPT !.fresh = TRUE]
    IN calls = [th |-> [t \in Threads |-> IF t # Main THEN Absent ELSE
                      [Absent EXCEPT !.ci = <<lua>>, !.top = 2, !.nny = 2, !.alive = TRUE]],
                  cs |-> <<r, Record("execute", Main)>>,
                  next |-> [step |-> "run", status |-> 0],
                  open |-> {}, misclosed |-> FALSE, heard |-> [due |-> 0, got |-> 0],
                  errors |-> 0, declared |-> 0]

CallsRest == calls = [next |-> [step |-> "done", status |-> 0]]

CallsNext ==
    \/ CloseNext \/ LongJump \/ LongJumpToBase \/ Unroll
    \/ DeclareToClose \/ Call \/ CallBack \/ Pcall \/ Error \/ EndBlock \/ Return \/ Yield
    \/ \E t \in Coroutines : Create(t)
    \/ \E t \in Threads : CloseThread(t) \/ \E name \in {"resume", "wrap"} : Resume(t, name)

-----------------------------------------------------------------------------
(***************************************************************************)
(* A to-be-closed variable is closed once, after those declared after it   *)
(* in its thread and not before its block is left: one that is still open  *)
(* belongs to a frame, or to a level that is being closed, or its thread   *)
(* died of an error and waits for coroutine.close.  This has to hold while *)
(* closing methods raise errors, yield, and close threads themselves.      *)
(***************************************************************************)
Pending(m, s) ==
    \/ \E f \in Range(m.th[s.var.th].ci) : s.var \in f.own \/ IsError(f.recovers)
    \/ \E r \in Range(m.cs) : r.th = s.var.th /\ r.rec = "closeprotected" /\ r.level <= s.pos
    \/ IsError(m.th[s.var.th].status)
ClosedOnce ==
    /\ ~calls.misclosed
    /\ calls.open = UNION {{s.var : s \in Range(calls.th[t].tbc)} : t \in Threads}
    /\ calls.next.step \in {"run", "done"} =>
         \A t \in Threads : \A s \in Range(calls.th[t].tbc) : Pending(calls, s)

\* An error is caught by the innermost pcall of its thread, or else by whoever
\* resumed or closes the thread, and the error heard there is the last one
\* raised on the way; a call that saw no error hears none.
ErrorsHeard ==
    /\ calls.heard.due = calls.heard.got
    /\ calls.next.step \in {"throw", "throwbase"} => Handlers(calls) # {}

(***************************************************************************)
(* coroutine.status agrees with the stack of resumes; and a thread may     *)
(* yield exactly when no activation of it on the C stack would be lost:    *)
(* all of them know how to go on after a yield.                            *)
(***************************************************************************)
OnStack(m) == {r.th : r \in Range(m.cs)}
Fate(m, t) ==
    IF t = Cur(m) THEN "running"
    ELSE IF t \in OnStack(m) THEN "normal"
    ELSE IF m.th[t].alive THEN "suspended" ELSE "dead"
Resumable(r) == r.rec \in {"execute", "ypcall", "resume"} \/ (r.rec = "close" /\ r.yy)
CoroutinesTrue ==
    calls.next.step = "run" =>
        /\ \A t \in Threads : calls.th[t].top > 0 => Status(calls, t) = Fate(calls, t)
        /\ CurrentOf(calls).nny = 0
             <=> \A r \in Range(calls.cs) : r.th = Cur(calls) => Resumable(r)
=============================================================================
