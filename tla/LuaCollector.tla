---------------------------- MODULE LuaCollector ----------------------------
(***************************************************************************)
(* The garbage collector of the Lua interpreter (lua/src/lgc.c) in its     *)
(* incremental mode, the one it starts in and no program of the repository *)
(* changes: functions on its state, that is the colours, the gray lists,   *)
(* the lists of all objects, and what the objects refer to.  Every object  *)
(* has the age G_NEW.  A state s is a record                               *)
(*   state, white, mark   gcstate, currentwhite, the colours               *)
(*   gray, grayagain, weak, ephemeron, allweak   the gray lists            *)
(*   allgc, finobj, tobefnz       the lists of all objects                 *)
(*   swept, sweepgc       the list that is swept and the place in it where *)
(*                        the sweep goes on, 0 at its end                  *)
(*   twups                threads with open upvalues                       *)
(*   key, value           what an object refers to (below)                 *)
(*   roots                the values on the stack of the main thread       *)
(*   freed                history: the objects that were freed             *)
(*   astray               history: the sweep of tobefnz left it            *)
(***************************************************************************)
EXTENDS Integers, Sequences, FiniteSets, SequencesExt

CONSTANTS LuaObjects,   \* the collectable objects, the main thread among them
          MainThread,
          SweepMax      \* GCSWEEPMAX

ASSUME CollectorConstants == MainThread \in LuaObjects /\ SweepMax \in Nat \ {0}

\* The kinds of objects and their two references:
\*   "table", "weakv", "ephemeron", "allweak"   an entry: key and value
\*   "udata"     its user value
\*   "thread"    its stack slot as value; the open upvalue on it as key
\*   "upval"     open: the thread as key; closed: its content as value
\*   "closure"   its upvalue as value
\*   "main"      the main thread, whose stack is s.roots
None == "none"    \* no value: nil, an empty entry
Dead == "dead"    \* a dead key
Plain == "plain"  \* a key that is not an object
IsObject(r) == r \in LuaObjects

Other(white) == IF white = "white0" THEN "white1" ELSE "white0"
White(s, o) == s.mark[o] \in {"white0", "white1"}
WhiteRef(s, r) == IsObject(r) /\ White(s, r)
IsDead(s, o) == s.mark[o] = Other(s.white)
KeepInvariant(s) == s.state \in {"propagate", "enteratomic", "atomic"}
Sweeping(s) == s.state \in {"swpallgc", "swpfinobj", "swptobefnz", "swpend"}
IsOpen(s, uv) == s.key[uv] # None
Content(s, uv) == IF IsOpen(s, uv) THEN s.value[s.key[uv]] ELSE s.value[uv]

MakeWhite(s, o) == [s EXCEPT !.mark[o] = s.white]
Blacken(s, o) == [s EXCEPT !.mark[o] = "black"]

-----------------------------------------------------------------------------
(* Marking. *)

\* linkgclist
LinkGray(s, o, list) == [s EXCEPT ![list] = <<o>> \o @, !.mark[o] = "gray"]

\* reallymarkobject: an upvalue is visited at once, and stays gray while it is
\* open; the others wait in the gray list.
ReallyMark(s, o) ==
    IF s.kinds[o] = "upval"
    THEN LET visited == [s EXCEPT !.mark[o] = IF IsOpen(s, o) THEN "gray" ELSE "black"]
             content == Content(s, o)
         IN  IF WhiteRef(visited, content) THEN LinkGray(visited, content, "gray")
             ELSE visited
    ELSE LinkGray(s, o, "gray")

\* markvalue, markobject
Mark(s, r) == IF WhiteRef(s, r) THEN ReallyMark(s, r) ELSE s
MarkAll(s, refs) == FoldLeft(Mark, s, refs)

\* clearkey
ClearKey(s, t) == IF IsObject(s.key[t]) THEN [s EXCEPT !.key[t] = Dead] ELSE s
Emptied(s, t) == IF s.value[t] = None THEN ClearKey(s, t) ELSE s

StrongTable(s, t) ==
    IF s.value[t] = None THEN ClearKey(s, t)
    ELSE MarkAll(s, <<s.key[t], s.value[t]>>)

WeakValueTable(s, t) ==
    LET visited == IF s.value[t] = None THEN ClearKey(s, t) ELSE Mark(s, s.key[t])
    IN  IF s.state = "propagate" THEN LinkGray(visited, t, "grayagain")
        ELSE IF WhiteRef(visited, s.value[t]) THEN LinkGray(visited, t, "weak")
        ELSE visited

\* Mutant: a table whose key and value are both unmarked is only cleared.
EphemeronTableOnce(s, t) ==
    LET keyWhite == s.value[t] # None /\ WhiteRef(s, s.key[t])
        visited == IF s.value[t] = None THEN ClearKey(s, t)
                   ELSE IF keyWhite THEN s ELSE Mark(s, s.value[t])
    IN  IF s.state = "propagate" THEN LinkGray(visited, t, "grayagain")
        ELSE IF keyWhite THEN LinkGray(visited, t, "allweak")
        ELSE visited

\* traverseephemeron: the value is only marked when the key is.
EphemeronTable(s, t) ==
    LET keyWhite == s.value[t] # None /\ WhiteRef(s, s.key[t])
        visited == IF s.value[t] = None THEN ClearKey(s, t)
                   ELSE IF keyWhite THEN s ELSE Mark(s, s.value[t])
    IN  IF s.state = "propagate" THEN LinkGray(visited, t, "grayagain")
        ELSE IF keyWhite /\ WhiteRef(s, s.value[t]) THEN LinkGray(visited, t, "ephemeron")
        ELSE IF keyWhite THEN LinkGray(visited, t, "allweak")
        ELSE visited

AllWeakTable(s, t) ==
    LinkGray(s, t, IF s.state = "propagate" THEN "grayagain" ELSE "allweak")

\* traversethread: a thread has no barriers, and is visited again at the end.
Thread(s, th) ==
    LET again == IF s.state = "propagate" THEN LinkGray(s, th, "grayagain") ELSE s
        marked == IF th = MainThread THEN MarkAll(again, SetToSeq(s.roots))
                  ELSE MarkAll(again, <<s.value[th], s.key[th]>>)
    IN  IF s.state = "atomic" /\ th # MainThread /\ s.key[th] # None
        THEN [marked EXCEPT !.twups = @ \union {th}] ELSE marked

\* propagatemark
Propagate(s) ==
    LET o == Head(s.gray)
        out == Blacken([s EXCEPT !.gray = Tail(@)], o)
    IN  CASE s.kinds[o] = "table" -> StrongTable(out, o)
          [] s.kinds[o] = "weakv" -> WeakValueTable(out, o)
          [] s.kinds[o] = "ephemeron" -> EphemeronTable(out, o)
          [] s.kinds[o] = "allweak" -> AllWeakTable(out, o)
          [] s.kinds[o] \in {"main", "thread"} -> Thread(out, o)
          [] OTHER -> Mark(out, s.value[o])

RECURSIVE PropagateAll(_)
PropagateAll(s) == IF s.gray = <<>> THEN s ELSE PropagateAll(Propagate(s))

\* convergeephemerons: rounds over the tables, until one marks nothing.
RECURSIVE Converge(_, _, _), ConvergeAll(_)
Converge(s, tables, changed) ==
    IF tables # <<>>
    THEN LET visited == EphemeronTable(Blacken(s, Head(tables)), Head(tables))
         IN  Converge(PropagateAll(visited), Tail(tables), changed \/ visited.gray # <<>>)
    ELSE IF changed THEN ConvergeAll(s) ELSE s
ConvergeAll(s) == Converge([s EXCEPT !.ephemeron = <<>>], s.ephemeron, FALSE)

-----------------------------------------------------------------------------
(* The atomic step. *)

\* clearbyvalues, clearbykeys
ClearValue(s, t) ==
    Emptied(IF WhiteRef(s, s.value[t]) THEN [s EXCEPT !.value[t] = None] ELSE s, t)
ClearByKey(s, t) ==
    Emptied(IF WhiteRef(s, s.key[t]) THEN [s EXCEPT !.value[t] = None] ELSE s, t)

\* separatetobefnz: what is not marked, or all, waits for its finalizer.
Separate(s, all) ==
    LET Goes(o) == all \/ White(s, o)
        Stays(o) == ~Goes(o)
    IN  [s EXCEPT !.finobj = SelectSeq(@, Stays), !.tobefnz = @ \o SelectSeq(s.finobj, Goes)]

MarkBeingFinalized(s) == MarkAll(s, s.tobefnz)

\* remarkupvals: an upvalue may outlive the thread whose stack it lies on.
RemarkUpvals(s) ==
    LET stays == {th \in s.twups : ~White(s, th) /\ s.key[th] # None}
        visited == {th \in s.twups \ stays : s.key[th] # None /\ ~White(s, s.key[th])}
    IN  MarkAll([s EXCEPT !.twups = stays], SetToSeq({s.value[th] : th \in visited}))

\* The weak tables that were found after `marked` still have all their values.
ClearNewOnes(s, marked) ==
    LET NewOnes(list) == SubSeq(s[list], 1, Len(s[list]) - Len(marked[list]))
    IN  FoldLeft(ClearValue, s, NewOnes("weak") \o NewOnes("allweak"))
ClearKeys(s) == FoldLeft(ClearByKey, s, s.ephemeron \o s.allweak)
\* atomic, when all is marked.  Objects that are to be finalized come back to
\* life after the weak values that hold them were cleared, and before the weak
\* keys are.
ClearWeak(marked) ==
    LET cleared == FoldLeft(ClearValue, marked, marked.weak \o marked.allweak)
        kept == PropagateAll(MarkBeingFinalized(Separate(cleared, FALSE)))
    IN  ClearNewOnes(ClearKeys(ConvergeAll(kept)), marked)
OtherWhite(s) == [s EXCEPT !.white = Other(@)]
Atomic(s) ==
    LET begun == PropagateAll(Mark([s EXCEPT !.state = "atomic", !.grayagain = <<>>],
                                   MainThread))
        upvals == PropagateAll(RemarkUpvals(begun))
        again == PropagateAll([upvals EXCEPT !.gray = s.grayagain])
    IN  OtherWhite(ClearWeak(ConvergeAll(again)))

-----------------------------------------------------------------------------
(* Barriers. *)

\* luaC_barrier_: forward, the white object that a black one refers to is
\* marked; a sweep makes the black one white instead.
BarrierForward(s, o, r) ==
    IF s.mark[o] # "black" \/ ~WhiteRef(s, r) THEN s
    ELSE IF KeepInvariant(s)
    THEN ReallyMark(s, r) ELSE MakeWhite(s, o)

\* Mutant: there is no barrier.
NoBarrierBack(s, o, r) == s

\* luaC_barrierback_: the black object is visited again.
BarrierBack(s, o, r) ==
    IF s.mark[o] # "black" \/ ~WhiteRef(s, r) THEN s
    ELSE LinkGray(s, o, "grayagain")

-----------------------------------------------------------------------------
(* Sweeping. *)

\* luaF_closeupval for the upvalue on a thread's slot
CloseUpval(s, th) ==
    LET uv == s.key[th] IN
    IF uv = None THEN s
    ELSE LET closed == [s EXCEPT !.key[th] = None, !.key[uv] = None,
                                 !.value[uv] = s.value[th]]
         IN  IF White(s, uv) THEN closed
             ELSE BarrierForward(Blacken(closed, uv), uv, closed.value[uv])

\* freeobj: the open upvalue of a thread that is freed is closed, one that is
\* freed itself is unlinked from its thread.
Free(s, o) ==
    LET apart == IF s.kinds[o] = "thread" THEN CloseUpval(s, o)
                 ELSE IF s.kinds[o] = "upval" /\ IsOpen(s, o)
                 THEN [s EXCEPT !.key[s.key[o]] = None] ELSE s
    IN  [apart EXCEPT !.freed = @ \union {o}, !.twups = @ \ {o}]

\* One element of sweeplist.
EndOfList(s, list) == IF s.sweepgc > Len(s[list]) THEN [s EXCEPT !.sweepgc = 0] ELSE s
SweepOne(s) ==
    LET list == s.swept
        o == s[list][s.sweepgc]
    IN  EndOfList(IF IsDead(s, o) THEN Free([s EXCEPT ![list] = RemoveAt(@, s.sweepgc)], o)
                  ELSE [s EXCEPT !.mark[o] = s.white, !.sweepgc = @ + 1], list)

RECURSIVE SweepList(_, _)
SweepList(s, n) ==
    IF n = 0 \/ s.sweepgc \notin DOMAIN s[s.swept] THEN EndOfList(s, s.swept)
    ELSE SweepList(SweepOne(s), n - 1)

\* sweeptolive: until the place moves.
RECURSIVE SweepToLive(_)
SweepToLive(s) ==
    LET next == SweepOne(s) IN IF next.sweepgc = s.sweepgc THEN SweepToLive(next) ELSE next

EnterSweep(s) ==
    SweepToLive([s EXCEPT !.state = "swpallgc", !.swept = "allgc", !.sweepgc = 1])

\* sweepstep
SweepStep(s, nextState, nextList, fast) ==
    IF s.sweepgc # 0
    THEN SweepList(s, IF fast THEN Cardinality(LuaObjects) ELSE SweepMax)
    ELSE [s EXCEPT !.state = nextState, !.swept = nextList,
                   !.sweepgc = IF nextState = "swpend" \/ s[nextList] = <<>> THEN 0 ELSE 1]

-----------------------------------------------------------------------------
(* Finalizers. *)

\* udata2finalize: the object is a normal one again.  A sweep whose place is
\* right behind it goes on in allgc with it, and does not come to what is left
\* of tobefnz.
ToFinalize(s) ==
    LET o == Head(s.tobefnz)
        follows == s.swept = "tobefnz" /\ s.sweepgc = 2
        moved == [s EXCEPT !.tobefnz = Tail(@), !.allgc = <<o>> \o @,
                           !.swept = IF follows THEN "allgc" ELSE @,
                           !.astray = @ \/ (/\ follows /\ s.state = "swptobefnz"
                                             /\ Len(s.tobefnz) > 1),
                           !.sweepgc = CASE s.swept = "allgc" /\ @ # 0 -> @ + 1
                                         [] s.swept = "tobefnz" /\ @ > 2 -> @ - 1
                                         [] OTHER -> @]
    IN  IF Sweeping(s) THEN MakeWhite(moved, o) ELSE moved

\* All objects with finalizers wait for them.  A sweep that was inside finobj
\* goes on where its object went.
SeparateAll(s) ==
    LET inside == s.swept = "finobj" /\ s.sweepgc > 1
    IN  [Separate(s, TRUE) EXCEPT
            !.swept = IF inside THEN "tobefnz" ELSE @,
            !.sweepgc = IF inside THEN @ + Len(s.tobefnz) ELSE @]

\* luaC_checkfinalizer: the object moves from allgc to finobj.  The place of a
\* sweep must not be inside the object that moves.
MoveToFinobj(s, o, at) ==
    LET shift == CASE s.swept = "allgc" /\ s.sweepgc > at -> -1
                   [] s.swept = "finobj" /\ s.sweepgc > 1 -> 1
                   [] OTHER -> 0
    IN  [s EXCEPT !.allgc = RemoveAt(@, at), !.finobj = <<o>> \o @, !.sweepgc = @ + shift]
CheckFinalizer(s, o) ==
    LET at(list) == CHOOSE i \in DOMAIN list : list[i] = o
        white == MakeWhite(s, o)
        ready == CASE ~Sweeping(s) -> s
                   [] s.state = "swpallgc" /\ s.sweepgc = at(s.allgc) + 1 -> SweepToLive(white)
                   [] OTHER -> white
    IN  MoveToFinobj(ready, o, at(ready.allgc))

-----------------------------------------------------------------------------
(* The incremental cycle. *)

\* restartcollection
Restart(s) ==
    MarkBeingFinalized(Mark([s EXCEPT !.gray = <<>>, !.grayagain = <<>>, !.weak = <<>>,
        !.ephemeron = <<>>, !.allweak = <<>>], MainThread))

\* singlestep in every state but "callfin".
SingleStep(s, fast) ==
    CASE s.state = "pause" -> [Restart(s) EXCEPT !.state = "propagate"]
      [] s.state = "propagate" -> IF fast \/ s.gray = <<>>
                                  THEN [s EXCEPT !.state = "enteratomic"] ELSE Propagate(s)
      [] s.state = "enteratomic" -> EnterSweep(Atomic(s))
      [] s.state = "swpallgc" -> SweepStep(s, "swpfinobj", "finobj", fast)
      [] s.state = "swpfinobj" -> SweepStep(s, "swptobefnz", "tobefnz", fast)
      [] s.state = "swptobefnz" -> SweepStep(s, "swpend", "allgc", fast)
      [] OTHER -> [s EXCEPT !.state = "callfin"]

\* An emergency collection runs no finalizers: it ends where they would run.
\* luaC_runtilstate
RECURSIVE RunTo(_, _)
RunTo(s, state) ==
    IF s.state = state THEN s
    ELSE RunTo(IF s.state = "callfin" THEN [s EXCEPT !.state = "pause"]
               ELSE SingleStep(s, TRUE), state)

\* fullinc in an emergency: what was marked is swept first.
FullIncremental(s) ==
    LET swept == IF KeepInvariant(s) THEN EnterSweep(s) ELSE s
    IN  FoldLeft(RunTo, swept, <<"pause", "callfin", "pause">>)

-----------------------------------------------------------------------------
(***************************************************************************)
(* A Lua program and its collector: the program allocates, stores with the *)
(* barriers of lapi.c, lvm.c and ltable.c, captures variables of           *)
(* coroutines and gives objects finalizers, between any two single steps   *)
(* of an incremental collection; an allocation that fails runs a whole     *)
(* collection at once; in the end the state is closed.                     *)
(***************************************************************************)

CONSTANTS Casts,     \* the kinds the objects may have, each with a bound on the
                     \* assignments and one on the collections
          ObjectKeys \* the kinds of tables whose keys are objects too

VARIABLES gc,      \* the collector's state
          unborn,  \* history: the objects not yet allocated
          running, \* the object whose finalizer runs, or None
          owed,    \* history: objects that were given a finalizer not called yet
          doomed,  \* history: what was garbage when the collection began
          closing, \* "no", "finalizers" or "closed": lua_close
          stores, cycles \* the assignments and collections that are left

gcVars == <<gc, unborn, running, owed, doomed, closing, stores, cycles>>

Kind(o) == gc.kinds[o]
Tables == {"table", "weakv", "ephemeron", "allweak"}
GcStarts(cast) ==
    /\ gc = [state |-> "pause", white |-> "white0", kinds |-> cast.kinds,
             mark |-> [o \in LuaObjects |-> "white0"],
             gray |-> <<>>, grayagain |-> <<>>, weak |-> <<>>, ephemeron |-> <<>>,
             allweak |-> <<>>, allgc |-> <<MainThread>>, finobj |-> <<>>,
             tobefnz |-> <<>>, swept |-> "allgc", sweepgc |-> 0, twups |-> {},
             key |-> [o \in LuaObjects |-> None], value |-> [o \in LuaObjects |-> None],
             roots |-> {}, freed |-> {}, astray |-> FALSE]
    /\ stores = cast.stores /\ cycles = cast.cycles
    /\ unborn = LuaObjects \ {MainThread}
    /\ running = None /\ owed = {} /\ doomed = {} /\ closing = "no"
GcInit == \E cast \in Casts : GcStarts(cast)
GcRests ==
    /\ gc = [kinds |-> [o \in LuaObjects |-> None]]
    /\ unborn = {} /\ running = None /\ owed = {} /\ doomed = {} /\ closing = "no"
    /\ stores = 0 /\ cycles = 0

-----------------------------------------------------------------------------
(* The program.  It works on what is on its stack. *)

Held(o) == o \in gc.roots /\ closing # "closed"
HasFinalizer(o) == Contains(gc.finobj, o) \/ Contains(gc.tobefnz, o)
Same == UNCHANGED <<unborn, running, owed, doomed, closing, stores, cycles>>
Stores == /\ stores > 0 /\ stores' = stores - 1
          /\ UNCHANGED <<unborn, running, owed, doomed, closing, cycles>>

\* luaC_newobj
NewObject(s, o) ==
    [s EXCEPT !.mark[o] = s.white, !.allgc = <<o>> \o @,
              !.sweepgc = IF s.swept = "allgc" /\ @ # 0 THEN @ + 1 ELSE @]

New(o) ==
    /\ closing # "closed" /\ o \in unborn /\ Kind(o) \in Tables \union {"udata", "thread"}
    /\ gc' = [NewObject(gc, o) EXCEPT !.roots = @ \union {o}]
    /\ unborn' = unborn \ {o}
    /\ UNCHANGED <<running, owed, doomed, closing, stores, cycles>>

\* A local variable goes out of scope.
Drop(o) ==
    /\ Held(o) /\ o # running
    /\ gc' = [gc EXCEPT !.roots = @ \ {o}] /\ Same

\* luaH_newkey and the assignments of lvm.c and lapi.c: a barrier for a new key
\* and one for the value.
SetField(t, k, v) ==
    /\ Held(t) /\ Kind(t) \in Tables /\ Held(v)
    /\ IF Kind(t) \in ObjectKeys THEN Held(k) ELSE k = Plain
    /\ gc.key[t] # k \/ gc.value[t] # v
    /\ gc' = BarrierBack(BarrierBack([gc EXCEPT !.key[t] = k, !.value[t] = v], t, k), t, v)
    /\ Stores

\* t[k] = nil leaves the key in its place.
ClearField(t) ==
    /\ Held(t) /\ Kind(t) \in Tables /\ gc.value[t] # None
    /\ gc' = [gc EXCEPT !.value[t] = None] /\ Same

\* next(t), or t[k]: also out of a weak table.
GetField(t) ==
    /\ Held(t) /\ Kind(t) \in Tables /\ gc.value[t] # None
    /\ gc' = [gc EXCEPT !.roots = @ \union ({gc.key[t], gc.value[t]} \ {Plain})] /\ Same

\* lua_setiuservalue and lua_getiuservalue
SetUserValue(u, v) ==
    /\ Held(u) /\ Kind(u) = "udata" /\ Held(v) /\ gc.value[u] # v
    /\ gc' = BarrierBack([gc EXCEPT !.value[u] = v], u, v) /\ Stores
GetUserValue(u) ==
    /\ Held(u) /\ Kind(u) = "udata" /\ IsObject(gc.value[u])
    /\ gc' = [gc EXCEPT !.roots = @ \union {gc.value[u]}] /\ Same

\* setmetatable with a __gc field, not while the state is closing.
GiveFinalizer(u) ==
    /\ Held(u) /\ Kind(u) = "udata" /\ ~HasFinalizer(u) /\ closing = "no"
    /\ gc' = CheckFinalizer(gc, u)
    /\ owed' = owed \union {u}
    /\ UNCHANGED <<unborn, running, doomed, closing, stores, cycles>>

\* A coroutine assigns to its local variable: no barrier on a stack.
SetLocal(th, v) ==
    /\ Held(th) /\ Kind(th) = "thread" /\ Held(v) /\ gc.value[th] # v
    /\ gc' = [gc EXCEPT !.value[th] = v] /\ Stores

\* It makes a function that uses the variable (pushclosure, luaF_findupval).
Capture(th, c, uv) ==
    LET new == NewObject(NewObject(gc, c), uv) IN
    /\ Held(th) /\ Kind(th) = "thread" /\ gc.key[th] = None
    /\ {c, uv} \subseteq unborn /\ Kind(c) = "closure" /\ Kind(uv) = "upval"
    /\ gc' = [new EXCEPT !.roots = @ \union {c}, !.value[c] = uv, !.key[uv] = th,
                         !.key[th] = uv, !.twups = @ \union {th}]
    /\ unborn' = unborn \ {c, uv}
    /\ UNCHANGED <<running, owed, doomed, closing, stores, cycles>>

\* OP_SETUPVAL, OP_GETUPVAL
SetUpvalue(c, v) ==
    LET uv == gc.value[c]
        place == IF IsOpen(gc, uv) THEN gc.key[uv] ELSE uv
    IN  /\ Held(c) /\ Kind(c) = "closure" /\ Held(v) /\ Kind(v) # "upval"
        /\ Content(gc, uv) # v
        /\ gc' = BarrierForward([gc EXCEPT !.value[place] = v], uv, v)
        /\ Stores
GetUpvalue(c) ==
    LET content == Content(gc, gc.value[c]) IN
    /\ Held(c) /\ Kind(c) = "closure" /\ IsObject(content)
    /\ gc' = [gc EXCEPT !.roots = @ \union {content}] /\ Same

\* The coroutine leaves the variable's block (luaF_closeupval).
EndScope(th) ==
    /\ Held(th) /\ Kind(th) = "thread" /\ gc.key[th] # None
    /\ gc' = CloseUpval(gc, th) /\ Same

-----------------------------------------------------------------------------
(* The collector. *)

\* What an object refers to, strongly or at all, when those in r are to stay.
Refs(o, r, weakly) ==
    CASE Kind(o) = "main" -> gc.roots
      [] Kind(o) \in Tables /\ weakly -> {gc.key[o], gc.value[o]}
      [] Kind(o) = "table" -> IF gc.value[o] = None THEN {} ELSE {gc.key[o], gc.value[o]}
      [] Kind(o) = "weakv" -> IF gc.value[o] = None THEN {} ELSE {gc.key[o]}
      [] Kind(o) = "ephemeron" ->
           IF gc.value[o] # None /\ gc.key[o] \in r THEN {gc.value[o]} ELSE {}
      [] Kind(o) = "allweak" -> {}
      [] Kind(o) = "upval" -> {Content(gc, o)}
      [] OTHER -> {gc.value[o]} \union (IF Kind(o) = "thread" THEN {gc.key[o]} ELSE {})

RECURSIVE Reach(_, _)
Reach(r, weakly) ==
    LET more == r \union (UNION {Refs(o, r, weakly) : o \in r} \ {None, Dead, Plain})
    IN  IF more = r THEN r ELSE Reach(more, weakly)

Roots == {MainThread} \union ToSet(gc.tobefnz) \union ({running} \ {None})
InUse == Reach(Roots, FALSE)
\* What no program and no finalizer can ever get at again.
Garbage == LuaObjects \ (unborn \union Reach(Roots \union ToSet(gc.finobj), TRUE))

\* luaC_step: single steps between two allocations; none while a finalizer runs
\* or the state is closing.
Step(fast) ==
    /\ running = None /\ closing = "no"
    /\ ~(gc.state = "callfin" /\ gc.tobefnz # <<>>)
    /\ gc' = IF gc.state = "callfin" THEN [gc EXCEPT !.state = "pause"]
             ELSE SingleStep(gc, fast)
    /\ gc.state = "pause" => cycles > 0
    /\ cycles' = IF gc.state = "pause" THEN cycles - 1 ELSE cycles
    /\ doomed' = CASE gc.state = "pause" -> Garbage [] gc.state = "callfin" -> {}
                   [] OTHER -> doomed
    /\ UNCHANGED <<unborn, running, owed, closing, stores>>

\* GCTM: a finalizer is called with its object; it runs as the program does.
CallFinalizer ==
    /\ gc.tobefnz # <<>>
    /\ \/ running = None /\ closing = "no" /\ gc.state = "callfin"
       \/ running = None /\ closing = "finalizers"
    /\ LET o == Head(gc.tobefnz) IN
         /\ gc' = [ToFinalize(gc) EXCEPT !.roots = @ \union {o}]
         /\ running' = o /\ owed' = owed \ {o}
    /\ UNCHANGED <<unborn, doomed, closing, stores, cycles>>

FinalizerReturns ==
    /\ running # None
    /\ running' = None
    /\ UNCHANGED <<gc, unborn, owed, doomed, closing, stores, cycles>>

\* luaM_malloc_, luaC_fullgc: an allocation fails and collects, also one of a
\* finalizer, and also one of a finalizer that runs while the state is closed.
Emergency ==
    /\ closing # "closed"
    /\ cycles > 0 /\ cycles' = cycles - 1
    /\ gc' = FullIncremental(gc)
    /\ doomed' = {}
    /\ UNCHANGED <<unborn, running, owed, closing, stores>>

\* close_state, luaC_freeallobjects: what the stack held is dropped, all
\* finalizers run, then everything is freed.
CloseState ==
    /\ closing = "no" /\ running = None
    /\ closing' = "finalizers"
    /\ \E globals \in SUBSET gc.roots :
          gc' = [SeparateAll(gc) EXCEPT !.roots = globals]
    /\ UNCHANGED <<unborn, running, owed, doomed, stores, cycles>>
FreeAll ==
    /\ closing = "finalizers" /\ running = None /\ gc.tobefnz = <<>>
    /\ closing' = "closed"
    /\ gc' = [gc EXCEPT !.freed = @ \union (LuaObjects \ unborn), !.roots = {},
                        !.allgc = <<>>]
    /\ UNCHANGED <<unborn, running, owed, doomed, stores, cycles>>

GcNext ==
    \/ \E o \in LuaObjects : New(o) \/ Drop(o) \/ GiveFinalizer(o) \/ ClearField(o)
         \/ GetField(o) \/ GetUserValue(o) \/ GetUpvalue(o) \/ EndScope(o)
    \/ \E t, v \in LuaObjects, k \in LuaObjects \union {Plain} : SetField(t, k, v)
    \/ \E o, v \in LuaObjects : SetUserValue(o, v) \/ SetLocal(o, v) \/ SetUpvalue(o, v)
    \/ \E th, c, uv \in LuaObjects : Capture(th, c, uv)
    \/ \E fast \in BOOLEAN : Step(fast)
    \/ CallFinalizer \/ FinalizerReturns \/ Emergency \/ CloseState \/ FreeAll

GcSpec == GcInit /\ [][GcNext]_gcVars
-----------------------------------------------------------------------------
\* Whatever the program does between the steps of a collection, nothing that it
\* can still reach, or that a finalizer will be called with, is freed; and no
\* table of those, weak or not, has an entry whose key or value was freed.  Not
\* so when the state was closed in the middle of the sweep of tobefnz, and the
\* first finalizer took the place of the sweep with its object: what is left
\* stays black, and an emergency collection does not mark what it refers to.
GcSafe ==
    closing # "closed" /\ ~gc.astray =>
        /\ InUse \intersect gc.freed = {}
        /\ \A t \in InUse : Kind(t) \in Tables /\ gc.value[t] # None =>
              {gc.key[t], gc.value[t]} \intersect gc.freed = {}

\* What was garbage when a collection began is freed when its sweep is over.
Collected == gc.state = "callfin" => doomed \subseteq gc.freed

\* A collection clears an entry of a table in use only when something the table
\* holds weakly is not in use otherwise: a key of an ephemeron or of a table
\* weak in both, a value of a table weak in values or in both.
HeldWeakly(t) ==
    (IF Kind(t) \in {"ephemeron", "allweak"} THEN {gc.key[t]} ELSE {})
      \union (IF Kind(t) \in {"weakv", "allweak"} THEN {gc.value[t]} ELSE {})
EntriesKept ==
    [][ \A t \in LuaObjects :
          /\ Kind(t) \in Tables /\ gc.value[t] # None /\ gc'.value[t] = None
          /\ t \in InUse /\ HeldWeakly(t) \subseteq InUse /\ ~gc.astray
          => ClearField(t) ]_gcVars

\* An object that was given a finalizer is never freed before its finalizer has
\* been called, in a collection or when the state is closed.
FinalizedFirst == owed \intersect gc.freed = {}
=============================================================================
