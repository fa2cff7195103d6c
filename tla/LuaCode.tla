------------------------------- MODULE LuaCode -------------------------------
(***************************************************************************)
(* The code generator of the compiler, lcode.c: instructions, lists of     *)
(* jumps to be patched, expression descriptors and register allocation.    *)
(* A FuncState is a record fs; the enclosing functions hang from fs.prev.  *)
(* An operation that also changes an expdesc takes and returns a record    *)
(* x == [fs, e].  A pc is an index from 0, as in the code.                 *)
(***************************************************************************)
EXTENDS LuaValue

CONSTANTS MaxIndexRK,     \* MAXINDEXRK: last constant an operand can name
          FieldsPerFlush, \* LFIELDS_PER_FLUSH: list items stored by one SETLIST
          MaxArgC         \* MAXARG_C: largest batch number SETLIST can hold

ASSUME CodeAssumption == /\ MaxIndexRK \in 0..255
                         /\ FieldsPerFlush \in Nat \ {0}
                         /\ MaxArgC \in Nat \ {0}

NoJump == -1
NoReg == 255
BitRK == 256
IsK(x) == x >= BitRK
RKasK(x) == x + BitRK
MultRet == -1

------------------------------------------------------------------------------
(* An instruction; the operands Bx and sBx are kept in b. *)
Ins(op, a, b, c) == [op |-> op, a |-> a, b |-> b, c |-> c]

(* testTMode: the next instruction is a jump that this one may skip. *)
TestOps == {"EQ", "LT", "LE", "TEST", "TESTSET", "TFORLOOP"}

(* open_func.  vararg holds the flags of is_vararg; ok becomes FALSE when a *)
(* lua_assert of the code generator or of the parser fails.                *)
OpenFunc(prev) ==
  [code |-> <<>>, k |-> <<>>, p |-> <<>>, upvalues |-> <<>>, locvars |-> <<>>,
   numparams |-> 0, vararg |-> {}, maxstack |-> 2, actvar |-> <<>>,
   freereg |-> 0, jpc |-> NoJump, lasttarget |-> -1, bl |-> <<>>,
   prev |-> prev, ok |-> TRUE]

Pc(fs) == Len(fs.code)
At(fs, pc) == fs.code[pc + 1]
NActVar(fs) == Len(fs.actvar)
LuaAssert(fs, cond) == [fs EXCEPT !.ok = @ /\ cond]

InitExp(k, i) == [k |-> k, info |-> i, aux |-> 0, t |-> NoJump, f |-> NoJump]
X(fs, e) == [fs |-> fs, e |-> e]
HasJumps(e) == e.t # e.f
IsNumeral(e) == e.k = "VKNUM" /\ e.t = NoJump /\ e.f = NoJump
HasMultRet(k) == k \in {"VCALL", "VVARARG"}

------------------------------------------------------------------------------
(* Jump lists: a list is the pc of its first jump, the offset of a jump leads *)
(* to the next one, and NoJump ends it.                                       *)
GetJump(fs, pc) == IF At(fs, pc).b = NoJump THEN NoJump ELSE pc + 1 + At(fs, pc).b

RECURSIVE JumpList(_, _)
JumpList(fs, list) == IF list = NoJump THEN <<>>
                      ELSE <<list>> \o JumpList(fs, GetJump(fs, list))

FixJump(fs, pc, dest) ==
  LuaAssert([fs EXCEPT !.code[pc + 1].b = dest - (pc + 1)], dest # NoJump)

GetJumpControl(fs, pc) == IF pc >= 1 /\ At(fs, pc - 1).op \in TestOps THEN pc - 1 ELSE pc

MakesValue(fs, pc) == At(fs, GetJumpControl(fs, pc)).op = "TESTSET"

NeedValue(fs, list) == \E pc \in ToSet(JumpList(fs, list)) : ~MakesValue(fs, pc)

PatchTestReg(fs, node, reg) ==
  LET i == GetJumpControl(fs, node)
      ins == At(fs, i)
  IN IF ins.op # "TESTSET" THEN fs
     ELSE IF reg # NoReg /\ reg # ins.b THEN [fs EXCEPT !.code[i + 1].a = reg]
     ELSE [fs EXCEPT !.code[i + 1] = Ins("TEST", ins.b, 0, ins.c)]

RemoveValues(fs, list) ==
  FoldLeft(LAMBDA g, pc : PatchTestReg(g, pc, NoReg), fs, JumpList(fs, list))

PatchListAux(fs, list, vtarget, reg, dtarget) ==
  FoldLeft(LAMBDA g, pc : FixJump(PatchTestReg(g, pc, reg), pc,
                                  IF MakesValue(g, pc) THEN vtarget ELSE dtarget),
           fs, JumpList(fs, list))

DischargeJpc(fs) == [PatchListAux(fs, fs.jpc, Pc(fs), NoReg, Pc(fs)) EXCEPT !.jpc = NoJump]

(* luaK_concat: the joined list, and the code it links. *)
Concat(fs, l1, l2) ==
  IF l2 = NoJump THEN [fs |-> fs, l |-> l1]
  ELSE IF l1 = NoJump THEN [fs |-> fs, l |-> l2]
  ELSE [fs |-> FixJump(fs, Last(JumpList(fs, l1)), l2), l |-> l1]

Code(fs, i) == LET g == DischargeJpc(fs) IN [g EXCEPT !.code = Append(@, i)]
CodeABC(fs, op, a, b, c) == Code(fs, Ins(op, a, b, c))
CodeABx(fs, op, a, bx) == Code(fs, Ins(op, a, bx, 0))

(* luaK_jump: the jumps that wait for this pc join the new one. *)
Jump(fs) == Concat(Code([fs EXCEPT !.jpc = NoJump], Ins("JMP", 0, NoJump, 0)),
                   Pc(fs), fs.jpc)

CondJump(fs, op, a, b, c) == Jump(CodeABC(fs, op, a, b, c))

GetLabel(fs) == [fs EXCEPT !.lasttarget = Pc(fs)]

PatchToHere(fs, list) ==
  LET j == Concat(GetLabel(fs), fs.jpc, list) IN [j.fs EXCEPT !.jpc = j.l]

PatchList(fs, list, target) ==
  IF target = Pc(fs) THEN PatchToHere(fs, list)
  ELSE PatchListAux(LuaAssert(fs, target < Pc(fs)), list, target, NoReg, target)

------------------------------------------------------------------------------
(* Registers and constants. *)
CheckStack(fs, n) == [fs EXCEPT !.maxstack = IF fs.freereg + n > @ THEN fs.freereg + n ELSE @]

ReserveRegs(fs, n) == [CheckStack(fs, n) EXCEPT !.freereg = @ + n]

FreeReg(fs, reg) ==
  IF IsK(reg) \/ reg < NActVar(fs) THEN fs
  ELSE LuaAssert([fs EXCEPT !.freereg = @ - 1], reg = fs.freereg - 1)

FreeExp(fs, e) == IF e.k = "VNONRELOC" THEN FreeReg(fs, e.info) ELSE fs

(* addk: an equal constant is reused. *)
AddK(fs, v) == IF v \in ToSet(fs.k) THEN fs ELSE [fs EXCEPT !.k = Append(@, v)]
KIndex(fs, v) == (CHOOSE i \in DOMAIN fs.k : fs.k[i] = v) - 1

(* luaK_nil: one LOADNIL is widened, or left out where registers are clean, *)
(* unless a jump may come in between.                                       *)
LoadNil(fs, from, n) ==
  LET prev == Last(fs.code)
      straight == Pc(fs) > fs.lasttarget
  IN IF straight /\ Pc(fs) = 0 /\ from >= NActVar(fs) THEN fs
     ELSE IF straight /\ Pc(fs) > 0 /\ prev.op = "LOADNIL"
             /\ prev.a <= from /\ from <= prev.b + 1
     THEN IF from + n - 1 > prev.b THEN [fs EXCEPT !.code[Pc(fs)].b = from + n - 1] ELSE fs
     ELSE CodeABC(fs, "LOADNIL", from, from + n - 1, 0)

Ret(fs, first, nret) == CodeABC(fs, "RETURN", first, nret + 1, 0)

SetList(fs, base, nelems, tostore) ==
  LET c == (nelems - 1) \div FieldsPerFlush + 1
      b == IF tostore = MultRet THEN 0 ELSE tostore
      g == IF c <= MaxArgC THEN CodeABC(fs, "SETLIST", base, b, c)
           ELSE Code(CodeABC(fs, "SETLIST", base, b, 0), Ins("COUNT", 0, c, 0))
  IN [g EXCEPT !.freereg = base + 1]

------------------------------------------------------------------------------
(* Discharging an expression: giving its value a place. *)
SetReturns(fs, e, nresults) ==
  CASE e.k = "VCALL" -> [fs EXCEPT !.code[e.info + 1].c = nresults + 1]
    [] e.k = "VVARARG" -> ReserveRegs([fs EXCEPT !.code[e.info + 1].b = nresults + 1,
                                                 !.code[e.info + 1].a = fs.freereg], 1)
    [] OTHER -> fs

SetOneRet(x) ==
  CASE x.e.k = "VCALL" ->
         X(x.fs, [x.e EXCEPT !.k = "VNONRELOC", !.info = At(x.fs, x.e.info).a])
    [] x.e.k = "VVARARG" ->
         X([x.fs EXCEPT !.code[x.e.info + 1].b = 2], [x.e EXCEPT !.k = "VRELOCABLE"])
    [] OTHER -> x

(* The value of e is what the next instruction, op, will produce. *)
Relocable(fs, e, op, b, c) ==
  X(CodeABC(fs, op, 0, b, c), [e EXCEPT !.k = "VRELOCABLE", !.info = Pc(fs)])

DischargeVars(x) ==
  LET fs == x.fs
      e == x.e
  IN CASE e.k = "VLOCAL" -> X(fs, [e EXCEPT !.k = "VNONRELOC"])
       [] e.k = "VUPVAL" -> Relocable(fs, e, "GETUPVAL", e.info, 0)
       [] e.k = "VGLOBAL" -> Relocable(fs, e, "GETGLOBAL", e.info, 0)
       [] e.k = "VINDEXED" ->
            Relocable(FreeReg(FreeReg(fs, e.aux), e.info), e, "GETTABLE", e.info, e.aux)
       [] OTHER -> SetOneRet(x)

Discharge2Reg(x, reg) ==
  LET y == DischargeVars(x)
      fs == y.fs
      e == y.e
      at(g) == X(g, [e EXCEPT !.info = reg, !.k = "VNONRELOC"])
      num == AddK(fs, Num(e.info))
  IN CASE e.k = "VNIL" -> at(LoadNil(fs, reg, 1))
       [] e.k \in {"VFALSE", "VTRUE"} ->
            at(CodeABC(fs, "LOADBOOL", reg, IF e.k = "VTRUE" THEN 1 ELSE 0, 0))
       [] e.k = "VK" -> at(CodeABx(fs, "LOADK", reg, e.info))
       [] e.k = "VKNUM" -> at(CodeABx(num, "LOADK", reg, KIndex(num, Num(e.info))))
       [] e.k = "VRELOCABLE" -> at([fs EXCEPT !.code[e.info + 1].a = reg])
       [] e.k = "VNONRELOC" ->
            at(IF reg # e.info THEN CodeABC(fs, "MOVE", reg, e.info, 0) ELSE fs)
       [] OTHER -> X(LuaAssert(fs, e.k \in {"VVOID", "VJMP"}), e)

Discharge2AnyReg(x) ==
  IF x.e.k = "VNONRELOC" THEN x
  ELSE LET g == ReserveRegs(x.fs, 1) IN Discharge2Reg(X(g, x.e), g.freereg - 1)

CodeLabel(fs, a, b, jump) == CodeABC(GetLabel(fs), "LOADBOOL", a, b, jump)

(* Jumps that carry no value go to a pair of loads placed after the value. *)
Exp2Reg(x, reg) ==
  LET y == Discharge2Reg(x, reg)
      isJmp == y.e.k = "VJMP"
      j == IF isJmp THEN Concat(y.fs, y.e.t, y.e.info) ELSE [fs |-> y.fs, l |-> y.e.t]
      t == j.l
      f == y.e.f
      loads == NeedValue(j.fs, t) \/ NeedValue(j.fs, f)
      over == IF isJmp THEN [fs |-> j.fs, l |-> NoJump] ELSE Jump(j.fs)
      loadF == CodeLabel(over.fs, reg, 0, 1)
      pf == IF loads THEN Pc(over.fs) ELSE NoJump
      pt == IF loads THEN Pc(loadF) ELSE NoJump
      g == GetLabel(IF loads THEN PatchToHere(CodeLabel(loadF, reg, 1, 0), over.l) ELSE j.fs)
      done == IF t = f THEN j.fs
              ELSE PatchListAux(PatchListAux(g, f, Pc(g), reg, pf), t, Pc(g), reg, pt)
  IN X(done, InitExp("VNONRELOC", reg))

Exp2NextReg(x) ==
  LET y == DischargeVars(x)
      g == ReserveRegs(FreeExp(y.fs, y.e), 1)
  IN Exp2Reg(X(g, y.e), g.freereg - 1)

Exp2AnyReg(x) ==
  LET y == DischargeVars(x)
  IN IF y.e.k = "VNONRELOC" /\ ~HasJumps(y.e) THEN y
     ELSE IF y.e.k = "VNONRELOC" /\ y.e.info >= NActVar(y.fs) THEN Exp2Reg(y, y.e.info)
     ELSE Exp2NextReg(y)

Exp2Val(x) == IF HasJumps(x.e) THEN Exp2AnyReg(x) ELSE DischargeVars(x)

(* luaK_exp2RK: x becomes an operand, a register or a constant; RK reads it. *)
Exp2RK(x) ==
  LET y == Exp2Val(x)
      v == CASE y.e.k = "VNIL" -> Nil
             [] y.e.k = "VKNUM" -> Num(y.e.info)
             [] OTHER -> Bool(y.e.k = "VTRUE")
      g == AddK(y.fs, v)
  IN IF y.e.k \in {"VKNUM", "VTRUE", "VFALSE", "VNIL"} /\ Len(y.fs.k) <= MaxIndexRK
     THEN X(g, [y.e EXCEPT !.k = "VK", !.info = KIndex(g, v)])
     ELSE IF y.e.k = "VK" /\ y.e.info <= MaxIndexRK THEN y
     ELSE Exp2AnyReg(y)

RK(e) == IF e.k = "VK" THEN RKasK(e.info) ELSE e.info

StoreVar(fs, var, ex) ==
  LET r == Exp2AnyReg(X(fs, ex))
      v == Exp2RK(X(fs, ex))
  IN CASE var.k = "VLOCAL" -> Exp2Reg(X(FreeExp(fs, ex), ex), var.info).fs
       [] var.k = "VUPVAL" -> FreeExp(CodeABC(r.fs, "SETUPVAL", r.e.info, var.info, 0), r.e)
       [] var.k = "VGLOBAL" -> FreeExp(CodeABx(r.fs, "SETGLOBAL", r.e.info, var.info), r.e)
       [] var.k = "VINDEXED" ->
            FreeExp(CodeABC(v.fs, "SETTABLE", var.info, var.aux, RK(v.e)), v.e)

Self(x, key) ==
  LET y == Exp2AnyReg(x)
      free == FreeExp(y.fs, y.e)
      func == free.freereg
      k == Exp2RK(X(ReserveRegs(free, 2), key))
  IN X(FreeExp(CodeABC(k.fs, "SELF", func, y.e.info, RK(k.e)), k.e), InitExp("VNONRELOC", func))

Indexed(x, key) ==
  LET k == Exp2RK(X(x.fs, key))
  IN X(k.fs, [x.e EXCEPT !.k = "VINDEXED", !.aux = RK(k.e)])

------------------------------------------------------------------------------
(* Conditions. *)
InvertJump(x) ==
  LET i == GetJumpControl(x.fs, x.e.info)
      op == At(x.fs, i).op
  IN LuaAssert([x.fs EXCEPT !.code[i + 1].a = 1 - @], op \in TestOps \ {"TESTSET", "TEST"})

(* An OP_NOT just emitted is taken back and the test inverted instead. *)
JumpOnCond(x, cond) ==
  LET y == Discharge2AnyReg(x)
  IN IF x.e.k = "VRELOCABLE" /\ At(x.fs, x.e.info).op = "NOT"
     THEN CondJump([x.fs EXCEPT !.code = Front(@)], "TEST", At(x.fs, x.e.info).b, 0, 1 - cond)
     ELSE CondJump(FreeExp(y.fs, y.e), "TESTSET", NoReg, y.e.info, cond)

GoIfTrue(x) ==
  LET y == DischargeVars(x)
      j == CASE y.e.k \in {"VK", "VKNUM", "VTRUE"} -> [fs |-> y.fs, l |-> NoJump]
             [] y.e.k = "VJMP" -> [fs |-> InvertJump(y), l |-> y.e.info]
             [] OTHER -> JumpOnCond(y, 0)
      f == Concat(j.fs, y.e.f, j.l)
  IN X(PatchToHere(f.fs, y.e.t), [y.e EXCEPT !.f = f.l, !.t = NoJump])

GoIfFalse(x) ==
  LET y == DischargeVars(x)
      j == CASE y.e.k \in {"VNIL", "VFALSE"} -> [fs |-> y.fs, l |-> NoJump]
             [] y.e.k = "VJMP" -> [fs |-> y.fs, l |-> y.e.info]
             [] OTHER -> JumpOnCond(y, 1)
      t == Concat(j.fs, y.e.t, j.l)
  IN X(PatchToHere(t.fs, y.e.f), [y.e EXCEPT !.t = t.l, !.f = NoJump])

CodeNot(x) ==
  LET y == DischargeVars(x)
      r == Discharge2AnyReg(y)
      z == CASE y.e.k \in {"VNIL", "VFALSE"} -> X(y.fs, [y.e EXCEPT !.k = "VTRUE"])
             [] y.e.k \in {"VK", "VKNUM", "VTRUE"} -> X(y.fs, [y.e EXCEPT !.k = "VFALSE"])
             [] y.e.k = "VJMP" -> X(InvertJump(y), y.e)
             [] OTHER -> Relocable(FreeExp(r.fs, r.e), r.e, "NOT", r.e.info, 0)
  IN X(RemoveValues(RemoveValues(z.fs, z.e.t), z.e.f), [z.e EXCEPT !.t = z.e.f, !.f = z.e.t])

------------------------------------------------------------------------------
(* Operators. *)
(* constfolding: no division by zero is folded, and no length. *)
Folds(op, e1, e2) == /\ IsNumeral(e1) /\ IsNumeral(e2)
                     /\ op # "LEN"
                     /\ op = "MOD" => e2.info # 0

(* The operand in the higher register is freed first. *)
FreeOperands_fixed(fs, e1, e2) == FreeExp(FreeExp(fs, e2), e1)  \* mutant
FreeOperands(fs, e1, e2) == IF RK(e1) > RK(e2) THEN FreeExp(FreeExp(fs, e1), e2)
                            ELSE FreeExp(FreeExp(fs, e2), e1)

CodeArith(fs, op, e1, e2) ==
  LET unary == op \in {"UNM", "LEN"}
      y2 == IF unary THEN X(fs, e2) ELSE Exp2RK(X(fs, e2))
      y1 == Exp2RK(X(y2.fs, e1))
      o2 == IF unary THEN 0 ELSE RK(y2.e)
  IN IF Folds(op, e1, e2) THEN X(fs, [e1 EXCEPT !.info = NumArith(op, e1.info, e2.info)])
     ELSE Relocable(FreeOperands(y1.fs, y1.e, y2.e), y1.e, op, RK(y1.e), o2)

CodeComp(fs, op, cond, e1, e2) ==
  LET y1 == Exp2RK(X(fs, e1))
      y2 == Exp2RK(X(y1.fs, e2))
      free == FreeExp(FreeExp(y2.fs, y2.e), y1.e)
      swap == cond = 0 /\ op # "EQ"
      j == IF swap THEN CondJump(free, op, 1, RK(y2.e), RK(y1.e))
                   ELSE CondJump(free, op, cond, RK(y1.e), RK(y2.e))
  IN X(j.fs, [y1.e EXCEPT !.k = "VJMP", !.info = j.l])

Prefix(x, op) ==
  LET zero == InitExp("VKNUM", 0)
      y == IF op = "not" \/ (op = "-" /\ IsNumeral(x.e)) THEN x ELSE Exp2AnyReg(x)
  IN CASE op = "not" -> CodeNot(x)
       [] op = "-" -> CodeArith(y.fs, "UNM", y.e, zero)
       [] op = "#" -> CodeArith(y.fs, "LEN", y.e, zero)

ArithOps == [o \in {"+", "-", "*", "%"} |->
               CASE o = "+" -> "ADD" [] o = "-" -> "SUB" [] o = "*" -> "MUL" [] o = "%" -> "MOD"]

Infix(x, op) ==
  CASE op = "and" -> GoIfTrue(x)
    [] op = "or" -> GoIfFalse(x)
    [] op = ".." -> Exp2NextReg(x)
    [] op \in DOMAIN ArithOps -> IF IsNumeral(x.e) THEN x ELSE Exp2RK(x)
    [] OTHER -> Exp2RK(x)

(* Two adjacent concatenations become one instruction. *)
PosfixConcat(fs, e1, e2) ==
  LET y == Exp2Val(X(fs, e2))
      n == Exp2NextReg(y)
  IN IF y.e.k = "VRELOCABLE" /\ At(y.fs, y.e.info).op = "CONCAT"
     THEN X([FreeExp(LuaAssert(y.fs, e1.info = At(y.fs, y.e.info).b - 1), e1)
               EXCEPT !.code[y.e.info + 1].b = e1.info],
            [e1 EXCEPT !.k = "VRELOCABLE", !.info = y.e.info])
     ELSE CodeArith(n.fs, "CONCAT", e1, n.e)

Posfix(fs, op, e1, e2) ==
  LET y == DischargeVars(X(fs, e2))
      f == Concat(LuaAssert(y.fs, e1.t = NoJump), y.e.f, e1.f)
      t == Concat(LuaAssert(y.fs, e1.f = NoJump), y.e.t, e1.t)
  IN CASE op = "and" -> X(f.fs, [y.e EXCEPT !.f = f.l])
       [] op = "or" -> X(t.fs, [y.e EXCEPT !.t = t.l])
       [] op = ".." -> PosfixConcat(fs, e1, e2)
       [] op \in DOMAIN ArithOps -> CodeArith(fs, ArithOps[op], e1, e2)
       [] op = "==" -> CodeComp(fs, "EQ", 1, e1, e2)
       [] op = "~=" -> CodeComp(fs, "EQ", 0, e1, e2)
       [] op = "<" -> CodeComp(fs, "LT", 1, e1, e2)
       [] op = "<=" -> CodeComp(fs, "LE", 1, e1, e2)
       [] op = ">" -> CodeComp(fs, "LT", 0, e1, e2)
       [] op = ">=" -> CodeComp(fs, "LE", 0, e1, e2)
==============================================================================
