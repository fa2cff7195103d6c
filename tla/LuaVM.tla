-------------------------------- MODULE LuaVM --------------------------------
(***************************************************************************)
(* The interpreter, luaV_execute of lvm.c with luaD_precall and            *)
(* luaD_poscall of ldo.c, on a compiled program: one action per              *)
(* instruction.  Hooks, metamethods and the growth of the stack are left   *)
(* out; the collector is the subject of LuaGC.                             *)
(***************************************************************************)
EXTENDS LuaVerify

CONSTANTS Programs,    \* a sequence of sets of programs: [main, args, coin, ...]
          StackSize,   \* slots of the stack
          MaxLog       \* calls of the host's functions before a run is cut off

VARIABLES
  prog,      \* the program being run: its main function, a Proto, and arguments
  stack,     \* L->stack: a value per slot
  top,       \* L->top
  frames,    \* the Lua functions on base_ci
  upvals,    \* upvalues, by number: [at, v]; at is the slot, 0 when closed
  closures,  \* closures, by number: [p, upv]; p is the path from main
  tables,    \* tables, by number
  globals,   \* the table of globals
  log,       \* calls of the host's functions, in order
  result,    \* what the main function returned
  status     \* "run", "done" or "error"

objects == <<upvals, closures, tables, globals>>
vars == <<prog, stack, top, frames, objects, log, result, status>>

------------------------------------------------------------------------------
fr == Last(frames)
ProtoOn(path) == FoldLeft(LAMBDA p, j : p.p[j], prog.main, path)
proto == ProtoOn(closures[fr.cl].p)
I == At(proto, fr.pc)
R(r) == stack[fr.base + r]
K(x) == proto.k[x + 1]
RKV(x) == IF IsK(x) THEN K(x - BitRK) ELSE R(x)
RA == fr.base + I.a

NewTop(t) == top' = t
Goto(pc) == frames' = [frames EXCEPT ![Len(frames)].pc = pc]
Step == Goto(fr.pc + 1)

(* The jump that follows a test is taken when the test says so. *)
Branch(taken) == Goto(IF taken THEN fr.pc + 2 + At(proto, fr.pc + 1).b ELSE fr.pc + 2)

Fail == /\ status' = "error"
        /\ UNCHANGED <<prog, stack, top, frames, objects, log, result>>

Only(op) == status = "run" /\ ~fr.pending /\ I.op = op

(* An instruction whose only effect is a value in register A, or an error. *)
PutA(v) == IF v = Err THEN Fail
           ELSE /\ stack' = [stack EXCEPT ![RA] = v]
                /\ Step
                /\ UNCHANGED <<prog, top, objects, log, result, status>>

(* An instruction that changes no value, and where control goes next. *)
Control(next) == next /\ UNCHANGED <<prog, stack, top, objects, log, result, status>>

------------------------------------------------------------------------------
Move == Only("MOVE") /\ PutA(R(I.b))
LoadK == Only("LOADK") /\ PutA(K(I.b))
LoadBool == /\ Only("LOADBOOL")
            /\ stack' = [stack EXCEPT ![RA] = Bool(I.b = 1)]
            /\ Goto(fr.pc + 1 + I.c)
            /\ UNCHANGED <<prog, top, objects, log, result, status>>
LoadNilOp == /\ Only("LOADNIL")
             /\ stack' = [s \in DOMAIN stack |->
                            IF s \in RA..(fr.base + I.b) THEN Nil ELSE stack[s]]
             /\ Step
             /\ UNCHANGED <<prog, top, objects, log, result, status>>

Upval(u) == closures[fr.cl].upv[u + 1]
GetUpval == /\ Only("GETUPVAL")
            /\ LET uv == upvals[Upval(I.b)]
               IN PutA(IF uv.at = 0 THEN uv.v ELSE stack[uv.at])
SetUpval == /\ Only("SETUPVAL")
            /\ LET u == Upval(I.b)
               IN IF upvals[u].at = 0
                  THEN /\ upvals' = [upvals EXCEPT ![u].v = R(I.a)]
                       /\ UNCHANGED stack
                  ELSE /\ stack' = [stack EXCEPT ![upvals[u].at] = R(I.a)]
                       /\ UNCHANGED upvals
            /\ Step
            /\ UNCHANGED <<prog, top, closures, tables, globals, log, result, status>>

GetGlobal == /\ Only("GETGLOBAL")
             /\ PutA(IF K(I.b) \in DOMAIN globals THEN globals[K(I.b)] ELSE Nil)
SetGlobal == /\ Only("SETGLOBAL")
             /\ globals' = Put(globals, K(I.b), R(I.a))
             /\ Step
             /\ UNCHANGED <<prog, stack, top, upvals, closures, tables, log, result, status>>

GetTable == Only("GETTABLE") /\ PutA(Get(tables, R(I.b), RKV(I.c)))
SetTable ==
  /\ Only("SETTABLE")
  /\ IF CanSet(R(I.a), RKV(I.b))
     THEN /\ tables' = [tables EXCEPT ![R(I.a).id] = Put(@, RKV(I.b), RKV(I.c))]
          /\ Step
          /\ UNCHANGED <<prog, stack, top, upvals, closures, globals, log, result, status>>
     ELSE Fail
NewTable == /\ Only("NEWTABLE")
            /\ tables' = Append(tables, <<>>)
            /\ stack' = [stack EXCEPT ![RA] = TableRef(Len(tables) + 1)]
            /\ Step
            /\ UNCHANGED <<prog, top, upvals, closures, globals, log, result, status>>
SelfOp == /\ Only("SELF")
          /\ LET v == Get(tables, R(I.b), RKV(I.c))
             IN IF v = Err THEN Fail
                ELSE /\ stack' = [stack EXCEPT ![RA + 1] = R(I.b), ![RA] = v]
                     /\ Step
                     /\ UNCHANGED <<prog, top, objects, log, result, status>>

(* The elements go to the batch the instruction names, up to the top if open. *)
SetListOp ==
  /\ Only("SETLIST")
  /\ LET n == IF I.b = 0 THEN top - RA - 1 ELSE I.b
         c == IF I.c = 0 THEN At(proto, fr.pc + 1).b ELSE I.c
         h == R(I.a).id
         first == (c - 1) * FieldsPerFlush
     IN /\ tables' = [tables EXCEPT ![h] =
                        FoldLeft(LAMBDA t, j : Put(t, Num(first + j), stack[RA + j]),
                                 @, [j \in 1..n |-> j])]
        /\ Goto(fr.pc + IF I.c = 0 THEN 2 ELSE 1)
        /\ NewTop(IF I.b = 0 THEN fr.ctop ELSE top)
  /\ UNCHANGED <<prog, stack, upvals, closures, globals, log, result, status>>

ArithOp == /\ status = "run" /\ ~fr.pending /\ I.op \in ArithCodes
           /\ PutA(Arith(I.op, RKV(I.b), RKV(I.c)))
Unm == Only("UNM") /\ PutA(Arith("UNM", R(I.b), R(I.b)))
Not == Only("NOT") /\ PutA(Bool(IsFalse(R(I.b))))
LenOp == Only("LEN") /\ PutA(LengthOf(tables, R(I.b)))
ConcatOp == /\ Only("CONCAT")
            /\ PutA(ConcatAll([j \in 1..(I.c - I.b + 1) |-> R(I.b + j - 1)]))

Jmp == Only("JMP") /\ Control(Goto(fr.pc + 1 + I.b))

Compare(v) == IF v = Err THEN Fail ELSE Control(Branch(v = Bool(I.a = 1)))
Eq == Only("EQ") /\ Compare(Bool(Equal(RKV(I.b), RKV(I.c))))
Lt == Only("LT") /\ Compare(LessThan(RKV(I.b), RKV(I.c)))
Le == Only("LE") /\ Compare(LessEqual(RKV(I.b), RKV(I.c)))

Test == Only("TEST") /\ Control(Branch(IsFalse(R(I.a)) # (I.c = 1)))
TestSet ==
  /\ Only("TESTSET")
  /\ LET taken == IsFalse(R(I.b)) # (I.c = 1)
     IN /\ stack' = IF taken THEN [stack EXCEPT ![RA] = R(I.b)] ELSE stack
        /\ Branch(taken)
  /\ UNCHANGED <<prog, top, objects, log, result, status>>

------------------------------------------------------------------------------
(* Calls. *)
Slots(st, from, to, val(_)) == [s \in DOMAIN st |-> IF s \in from..to THEN val(s) ELSE st[s]]

(* luaF_close: upvalues at or above the slot get a copy of their own. *)
Close(us, level) == [u \in DOMAIN us |-> IF us[u].at >= level
                                         THEN [at |-> 0, v |-> stack[us[u].at]] ELSE us[u]]

(* luaD_precall on a Lua function p in slot func, its arguments below slot t; *)
(* with adjust_varargs the fixed parameters move above the arguments.         *)
Precall(st, p, func, t) ==
  LET nargs == t - func - 1
      np == p.numparams
      dots == "ISVARARG" \in p.vararg
      actual == IF nargs < np THEN np ELSE nargs
      base == IF dots THEN func + 1 + actual ELSE func + 1
      ctop == base + p.maxstack
      arg(j) == IF j <= nargs THEN st[func + j] ELSE Nil
      extra == [j \in 1..(actual - np) |-> st[func + np + j]]
      needs == "NEEDSARG" \in p.vararg
      htab == FoldLeft(LAMBDA h, j : Put(h, Num(j), extra[j]),
                       Put(<<>>, Str("n"), Num(actual - np)), [j \in DOMAIN extra |-> j])
      param(s) == IF s - base + 1 <= np THEN arg(s - base + 1)
                  ELSE IF needs /\ s = base + np THEN TableRef(Len(tables) + 1) ELSE Nil
      moved(s) == IF s >= base THEN param(s) ELSE IF s <= func + np THEN Nil ELSE st[s]
  IN [base |-> base, ctop |-> ctop,
      stack |-> Slots(st, func + 1, ctop - 1, moved),
      tables |-> IF dots /\ needs THEN Append(tables, htab) ELSE tables]

Frame(cl, func, base, ctop, nresults) ==
  [cl |-> cl, func |-> func, base |-> base, ctop |-> ctop, pc |-> 0,
   nresults |-> nresults, pending |-> FALSE]

(* luaD_poscall: wanted results from slot func on. *)
Poscall(st, func, rs, wanted) ==
  LET n == IF wanted = MultRet THEN Len(rs) ELSE wanted
      val(s) == IF s - func + 1 \in DOMAIN rs THEN rs[s - func + 1] ELSE Nil
  IN [stack |-> Slots(st, func, func + n - 1, val), top |-> func + n]

(* Only a call with an open number of results leaves the top at the last one. *)
TopAfter_open(nresults, last, ctop) == last  \* mutant
TopAfter(nresults, last, ctop) == IF nresults = MultRet THEN last ELSE ctop

EnterLua(st, func, t, nresults, caller) ==
  LET v == st[func]
      p == Precall(st, ProtoOn(closures[v.id].p), func, t)
  IN /\ stack' = p.stack
     /\ tables' = p.tables
     /\ NewTop(p.ctop)
     /\ frames' = Append(caller, Frame(v.id, func, p.base, p.ctop, nresults))
     /\ UNCHANGED <<prog, upvals, closures, globals, log, result, status>>

CallHost(st, func, t, nresults, caller) ==
  LET h == Host(st[func].c, SubSeq(st, func + 1, t - 1), log, prog.coin)
      r == Poscall(st, func, h.rs, nresults)
  IN /\ Len(log) < MaxLog
     /\ stack' = r.stack
     /\ NewTop(TopAfter(nresults, r.top, fr.ctop))
     /\ frames' = caller
     /\ log' = h.log
     /\ UNCHANGED <<prog, objects, result, status>>

CallValue(st, func, t, nresults, caller) ==
  CASE st[func].t = "function" -> EnterLua(st, func, t, nresults, caller)
    [] st[func].t = "cfunction" -> CallHost(st, func, t, nresults, caller)
    [] OTHER -> Fail

Advanced == [frames EXCEPT ![Len(frames)].pc = @ + 1]
ArgTop == IF I.b # 0 THEN RA + I.b ELSE top

CallOp == Only("CALL") /\ CallValue(stack, RA, ArgTop, I.c - 1, Advanced)

(* The new frame takes the place of its caller's. *)
TailCallLua ==
  /\ Only("TAILCALL") /\ stack[RA].t = "function"
  /\ LET p == Precall(stack, ProtoOn(closures[stack[RA].id].p), RA, ArgTop)
         down(s) == p.stack[s - fr.func + RA]
         ctop == fr.func + p.ctop - RA
     IN /\ upvals' = Close(upvals, fr.base)
        /\ stack' = Slots(p.stack, fr.func, ctop - 1, down)
        /\ tables' = p.tables
        /\ NewTop(ctop)
        /\ frames' = Append(Front(frames), Frame(stack[RA].id, fr.func,
                                                 fr.func + p.base - RA, ctop, fr.nresults))
  /\ UNCHANGED <<prog, closures, globals, log, result, status>>

TailCallHost == /\ Only("TAILCALL") /\ stack[RA].t # "function"
                /\ CallValue(stack, RA, ArgTop, MultRet, Advanced)

ReturnOp ==
  /\ Only("RETURN")
  /\ LET rs == SubSeq(stack, RA, (IF I.b # 0 THEN RA + I.b - 1 ELSE top) - 1)
         r == Poscall(stack, fr.func, rs, fr.nresults)
     IN /\ upvals' = Close(upvals, fr.base)
        /\ frames' = Front(frames)
        /\ stack' = r.stack
        /\ NewTop(IF Len(frames) = 1 THEN r.top
                  ELSE TopAfter(fr.nresults, r.top, frames[Len(frames) - 1].ctop))
        /\ IF Len(frames) = 1 THEN status' = "done" /\ result' = rs
           ELSE UNCHANGED <<status, result>>
  /\ UNCHANGED <<prog, closures, tables, globals, log>>

VarargOp ==
  /\ Only("VARARG")
  /\ LET n == fr.base - fr.func - proto.numparams - 1
         b == IF I.b - 1 = MultRet THEN n ELSE I.b - 1
         val(s) == IF s - RA < n THEN stack[fr.base - n + s - RA] ELSE Nil
     IN /\ stack' = Slots(stack, RA, RA + b - 1, val)
        /\ NewTop(IF I.b - 1 = MultRet THEN RA + n ELSE top)
  /\ Step
  /\ UNCHANGED <<prog, objects, log, result, status>>

(* OP_CLOSURE with the instructions after it, which name what it captures. *)
FindUpval(us, level) ==
  LET i == SelectInSeq(us, LAMBDA u : u.at = level)
  IN IF i # 0 THEN [us |-> us, u |-> i]
     ELSE [us |-> Append(us, [at |-> level, v |-> Nil]), u |-> Len(us) + 1]

ClosureOp ==
  /\ Only("CLOSURE")
  /\ LET nup == proto.p[I.b + 1].nups
         capture(c, j) ==
           LET ins == At(proto, fr.pc + j)
               f == FindUpval(c.us, fr.base + ins.b)
           IN IF ins.op = "GETUPVAL" THEN [c EXCEPT !.upv = Append(@, Upval(ins.b))]
              ELSE [us |-> f.us, upv |-> Append(c.upv, f.u)]
         c == FoldLeft(capture, [us |-> upvals, upv |-> <<>>], [j \in 1..nup |-> j])
     IN /\ upvals' = c.us
        /\ closures' = Append(closures, [p |-> Append(closures[fr.cl].p, I.b + 1), upv |-> c.upv])
        /\ stack' = [stack EXCEPT ![RA] = Closure(Len(closures) + 1)]
        /\ Goto(fr.pc + 1 + nup)
  /\ UNCHANGED <<prog, top, tables, globals, log, result, status>>

CloseOp == /\ Only("CLOSE")
           /\ upvals' = Close(upvals, RA)
           /\ Step
           /\ UNCHANGED <<prog, stack, top, closures, tables, globals, log, result, status>>

------------------------------------------------------------------------------
(* Loops. *)
ForPrep == /\ Only("FORPREP")
           /\ IF Err \in {ToNumber(R(I.a)), ToNumber(R(I.a + 1)), ToNumber(R(I.a + 2))} THEN Fail
              ELSE /\ stack' = [stack EXCEPT
                                  ![RA] = Arith("SUB", R(I.a), R(I.a + 2)),
                                  ![RA + 1] = ToNumber(@), ![RA + 2] = ToNumber(@)]
                   /\ Goto(fr.pc + 1 + I.b)
                   /\ UNCHANGED <<prog, top, objects, log, result, status>>

ForLoop ==
  /\ Only("FORLOOP")
  /\ LET step == R(I.a + 2)
         idx == Arith("ADD", R(I.a), step)
         limit == R(I.a + 1)
         again == IF LessThan(Num(0), step) = Bool(TRUE) THEN LessEqual(idx, limit)
                  ELSE LessEqual(limit, idx)
     IN IF again = Bool(TRUE)
        THEN stack' = [stack EXCEPT ![RA] = idx, ![RA + 3] = idx] /\ Goto(fr.pc + 1 + I.b)
        ELSE Step /\ UNCHANGED stack
  /\ UNCHANGED <<prog, top, objects, log, result, status>>

(* OP_TFORLOOP calls the generator, and tests its answer when it has come. *)
TForCall ==
  /\ Only("TFORLOOP")
  /\ LET cb == RA + 3
         arg(s) == stack[s - 3]
     IN CallValue(Slots(stack, cb, cb + 2, arg), cb, cb + 3, I.c,
                  [frames EXCEPT ![Len(frames)].pending = TRUE])

TForTest ==
  /\ status = "run" /\ fr.pending
  /\ LET first == stack[RA + 3]
     IN /\ stack' = IF first # Nil THEN [stack EXCEPT ![RA + 2] = first] ELSE stack
        /\ frames' = [frames EXCEPT ![Len(frames)].pending = FALSE,
                        ![Len(frames)].pc = IF first # Nil THEN @ + 2 + At(proto, @ + 1).b ELSE @ + 2]
  /\ UNCHANGED <<prog, top, objects, log, result, status>>

------------------------------------------------------------------------------
(* The main function is called with the program's arguments. *)
Init ==
  /\ \E j \in DOMAIN Programs : prog \in Programs[j]
  /\ LET n == Len(prog.args)
     IN /\ stack = [s \in 1..StackSize |->
                      CASE s = 1 -> Closure(1) [] s - 1 \in DOMAIN prog.args -> prog.args[s - 1]
                        [] OTHER -> Nil]
        /\ top = n + 2 + prog.main.maxstack
        /\ frames = <<Frame(1, 1, n + 2, top, MultRet)>>
  /\ closures = <<[p |-> <<>>, upv |-> <<>>]>> /\ upvals = <<>>
  /\ tables = <<>> /\ globals = HostGlobals
  /\ log = <<>> /\ result = <<>> /\ status = "run"

Halted == status \in {"done", "error"} /\ UNCHANGED vars

Next == \/ Move \/ LoadK \/ LoadBool \/ LoadNilOp \/ GetUpval \/ SetUpval
        \/ GetGlobal \/ SetGlobal \/ GetTable \/ SetTable \/ NewTable \/ SelfOp \/ SetListOp
        \/ ArithOp \/ Unm \/ Not \/ LenOp \/ ConcatOp \/ Jmp \/ Eq \/ Lt \/ Le \/ Test \/ TestSet
        \/ CallOp \/ TailCallLua \/ TailCallHost \/ ReturnOp \/ VarargOp \/ ClosureOp \/ CloseOp
        \/ ForPrep \/ ForLoop \/ TForCall \/ TForTest \/ Halted

Spec == Init /\ [][Next]_vars
==============================================================================
