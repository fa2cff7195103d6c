------------------------------ MODULE LuaParser ------------------------------
(***************************************************************************)
(* The parser's actions, lparser.c: scopes, upvalues, blocks, expressions  *)
(* and statements, each generating code as it is read.  A construct comes  *)
(* as a record (its kind in .e or .s), so scanning and operator priorities *)
(* are taken as done; every call to the code generator is kept, in order.  *)
(***************************************************************************)
EXTENDS LuaCode

Expr0 == InitExp("VVOID", 0)

------------------------------------------------------------------------------
(* Local variables.  locvars is the debug information: a name, and the pcs *)
(* between which the variable is active.                                   *)
AdjustLocalVars(fs, names) ==
  LET n == Len(fs.locvars)
  IN [fs EXCEPT !.locvars = @ \o [i \in DOMAIN names |->
                                   [name |-> names[i], startpc |-> Pc(fs), endpc |-> -1]],
                !.actvar = @ \o [i \in DOMAIN names |-> n + i]]

RemoveVars(fs, tolevel) ==
  [fs EXCEPT !.actvar = SubSeq(@, 1, tolevel),
             !.locvars = [i \in DOMAIN @ |->
                            IF i \in {fs.actvar[j] : j \in (tolevel + 1)..NActVar(fs)}
                            THEN [@[i] EXCEPT !.endpc = Pc(fs)] ELSE @[i]]]

(* searchvar: the register of the innermost active local of that name, or -1. *)
SearchVar(fs, n) ==
  SelectLastInSeq(fs.actvar, LAMBDA i : fs.locvars[i].name = n) - 1

(* markupval: the block that declares the register must close it. *)
MarkUpval(fs, level) ==
  LET i == SelectLastInSeq(fs.bl, LAMBDA b : b.nactvar <= level)
  IN IF i = 0 THEN fs ELSE [fs EXCEPT !.bl[i].upval = TRUE]

IndexUpvalue(fs, n, e) ==
  LET d == [k |-> e.k, info |-> e.info, name |-> n]
      same(u) == u.k = d.k /\ u.info = d.info
      i == SelectInSeq(fs.upvalues, same)
  IN IF i # 0 THEN X(LuaAssert(fs, fs.upvalues[i].name = n), InitExp("VUPVAL", i - 1))
     ELSE X([fs EXCEPT !.upvalues = Append(@, d)], InitExp("VUPVAL", Len(fs.upvalues)))

RECURSIVE SingleVarAux(_, _, _)
SingleVarAux(fs, n, base) ==
  LET v == SearchVar(fs, n)
      up == SingleVarAux(fs.prev[1], n, FALSE)
      outer == [fs EXCEPT !.prev = <<up.fs>>]
  IN IF v >= 0 THEN X(IF base THEN fs ELSE MarkUpval(fs, v), InitExp("VLOCAL", v))
     ELSE IF fs.prev = <<>> THEN X(fs, InitExp("VGLOBAL", NoReg))
     ELSE IF up.e.k = "VGLOBAL" THEN X(outer, up.e)
     ELSE IndexUpvalue(outer, n, up.e)

CodeString(fs, s) == LET g == AddK(fs, Str(s)) IN X(g, InitExp("VK", KIndex(g, Str(s))))

SingleVar(fs, n) ==
  LET x == SingleVarAux(fs, n, TRUE)
      k == CodeString(x.fs, n)
  IN IF x.e.k = "VGLOBAL" THEN X(k.fs, [x.e EXCEPT !.info = k.e.info]) ELSE x

AdjustAssign(x, nvars, nexps) ==
  LET extra == nvars - nexps
      wanted == IF extra + 1 < 0 THEN 0 ELSE extra + 1
      call == SetReturns(x.fs, x.e, wanted)
      one == IF x.e.k # "VVOID" THEN Exp2NextReg(x).fs ELSE x.fs
  IN IF HasMultRet(x.e.k) THEN IF wanted > 1 THEN ReserveRegs(call, wanted - 1) ELSE call
     ELSE IF extra > 0 THEN LoadNil(ReserveRegs(one, extra), one.freereg, extra) ELSE one

------------------------------------------------------------------------------
(* Blocks. *)
EnterBlock(fs, breakable) ==
  LuaAssert([fs EXCEPT !.bl = Append(@, [breaklist |-> NoJump, breakable |-> breakable,
                                         nactvar |-> NActVar(fs), upval |-> FALSE])],
            fs.freereg = NActVar(fs))

LeaveBlock(fs) ==
  LET bl == Last(fs.bl)
      g == RemoveVars([fs EXCEPT !.bl = Front(@)], bl.nactvar)
      h == IF bl.upval THEN CodeABC(g, "CLOSE", bl.nactvar, 0, 0) ELSE g
  IN LuaAssert(PatchToHere([h EXCEPT !.freereg = bl.nactvar], bl.breaklist),
               ~(bl.breakable /\ bl.upval))

(* A variable of the blocks being left is captured. *)
BreakCloses_inner(fs, i) == i < Len(fs.bl) /\ Last(fs.bl).upval  \* mutant
BreakCloses(fs, i) == \E b \in (i + 1)..Len(fs.bl) : fs.bl[b].upval

Break(fs) ==
  LET i == SelectLastInSeq(fs.bl, LAMBDA b : b.breakable)
      j == Jump(IF BreakCloses(fs, i) THEN CodeABC(fs, "CLOSE", fs.bl[i].nactvar, 0, 0) ELSE fs)
      c == Concat(j.fs, fs.bl[i].breaklist, j.l)
  IN [c.fs EXCEPT !.bl[i].breaklist = c.l]

(* close_func: what stays of a FuncState is its Proto. *)
CloseFunc(fs) == LuaAssert(Ret(RemoveVars(fs, 0), 0, 0), fs.bl = <<>>)

ProtoOf(fs) == [source |-> "chunk", code |-> fs.code, k |-> fs.k, p |-> fs.p,
                nups |-> Len(fs.upvalues), locvars |-> fs.locvars,
                upvalues |-> [i \in DOMAIN fs.upvalues |-> fs.upvalues[i].name],
                numparams |-> fs.numparams, vararg |-> fs.vararg,
                maxstack |-> fs.maxstack, ok |-> fs.ok]

PushClosure(fs, func) ==
  LET g == CodeABx([fs EXCEPT !.p = Append(@, ProtoOf(func))], "CLOSURE", 0, Len(fs.p))
      capture(h, u) == CodeABC(h, IF u.k = "VLOCAL" THEN "MOVE" ELSE "GETUPVAL", 0, u.info, 0)
  IN X(FoldLeft(capture, g, func.upvalues), InitExp("VRELOCABLE", Pc(fs)))

ParList(fs, pars, dots) ==
  LET g == AdjustLocalVars(fs, IF dots THEN Append(pars, "arg") ELSE pars)
      v == IF dots THEN {"HASARG", "NEEDSARG", "ISVARARG"} ELSE {}
  IN ReserveRegs([g EXCEPT !.vararg = v,
                           !.numparams = NActVar(g) - (IF dots THEN 1 ELSE 0)], NActVar(g))

------------------------------------------------------------------------------
(* Expressions and statements. *)
RECURSIVE Expr(_, _), Chunk(_, _)

Body(fs, b, needself) ==
  LET new == OpenFunc(<<fs>>)
      self == IF needself THEN AdjustLocalVars(new, <<"self">>) ELSE new
      g == CloseFunc(Chunk(ParList(self, b.pars, b.dots), b.body))
  IN PushClosure(g.prev[1], g)

(* explist1: every expression but the last is put in the next register. *)
ExpList(fs, es) ==
  FoldLeft(LAMBDA x, a : Expr(Exp2NextReg(x).fs, a), Expr(fs, Head(es)), Tail(es))

Field(x, name) == LET y == Exp2AnyReg(x)
                      k == CodeString(y.fs, name)
                  IN Indexed(X(k.fs, y.e), k.e)

YIndex(fs, a) == Exp2Val(Expr(fs, a))

(* funcargs: x is the function, in the register where the call is made. *)
FuncArgs(x, args) ==
  LET base == x.e.info
      a == IF args = <<>> THEN X(x.fs, Expr0) ELSE ExpList(x.fs, args)
      open == HasMultRet(a.e.k)
      g == IF open THEN SetReturns(a.fs, a.e, MultRet)
           ELSE IF a.e.k # "VVOID" THEN Exp2NextReg(a).fs ELSE a.fs
      nparams == IF open THEN MultRet ELSE g.freereg - (base + 1)
  IN X([CodeABC(LuaAssert(g, x.e.k = "VNONRELOC"), "CALL", base, nparams + 1, 2)
          EXCEPT !.freereg = base + 1], InitExp("VCALL", Pc(g)))

Call(fs, a) == FuncArgs(Exp2NextReg(Expr(fs, a.fn)), a.args)

Method(fs, a) == LET x == Expr(fs, a.obj)
                     k == CodeString(x.fs, a.name)
                 IN FuncArgs(Self(X(k.fs, x.e), k.e), a.args)

(* A constructor in progress: cc == [fs, v, na, tostore], for the table in tr. *)
CloseListField(cc, tr) ==
  LET g == Exp2NextReg(X(cc.fs, cc.v)).fs
  IN IF cc.v.k = "VVOID" THEN cc
     ELSE IF cc.tostore = FieldsPerFlush
     THEN [cc EXCEPT !.fs = SetList(g, tr, cc.na, cc.tostore), !.v = Expr0, !.tostore = 0]
     ELSE [cc EXCEPT !.fs = g, !.v = Expr0]

LastListField(cc, tr) ==
  LET open == SetReturns(cc.fs, cc.v, MultRet)
      g == IF cc.v.k # "VVOID" THEN Exp2NextReg(X(cc.fs, cc.v)).fs ELSE cc.fs
  IN IF cc.tostore = 0 THEN cc.fs
     ELSE IF HasMultRet(cc.v.k) THEN SetList(open, tr, cc.na, MultRet)
     ELSE SetList(g, tr, cc.na, cc.tostore)

RecField(cc, tr, fl) ==
  LET key == Exp2RK(YIndex(cc.fs, fl.key))
      val == Exp2RK(Expr(key.fs, fl.val))
  IN [cc EXCEPT !.fs = [CodeABC(val.fs, "SETTABLE", tr, RK(key.e), RK(val.e))
                          EXCEPT !.freereg = cc.fs.freereg]]

ListField(cc, fl) == LET x == Expr(cc.fs, fl.val)
                     IN [fs |-> x.fs, v |-> x.e, na |-> cc.na + 1, tostore |-> cc.tostore + 1]

Constructor(fs, fields) ==
  LET t == Exp2NextReg(Relocable(fs, Expr0, "NEWTABLE", 0, 0))
      tr == t.e.info
      item(c, fl) == LET cc == CloseListField(c, tr)
                         g == LuaAssert(c.fs, c.v.k = "VVOID" \/ c.tostore > 0)
                     IN IF fl.rec THEN RecField(cc, tr, fl) ELSE ListField(cc, fl)
      all == FoldLeft(item, [fs |-> t.fs, v |-> Expr0, na |-> 0, tostore |-> 0], fields)
  IN X(LastListField(all, tr), t.e)

Binary(fs, a) == LET x == Infix(Expr(fs, a.l), a.op)
                     y == Expr(x.fs, a.r)
                 IN Posfix(y.fs, a.op, x.e, y.e)

Vararg(fs) == X(CodeABC([fs EXCEPT !.vararg = @ \ {"NEEDSARG"}], "VARARG", 0, 1, 0),
                InitExp("VVARARG", Pc(fs)))

(* Nothing is generated once an assertion has failed. *)
Expr(fs, a) ==
  CASE ~fs.ok \/ a.e = "nil" -> X(fs, InitExp("VNIL", 0))
    [] a.e = "true" -> X(fs, InitExp("VTRUE", 0))
    [] a.e = "false" -> X(fs, InitExp("VFALSE", 0))
    [] a.e = "num" -> X(fs, InitExp("VKNUM", a.n))
    [] a.e = "str" -> CodeString(fs, a.s)
    [] a.e = "dots" -> Vararg(fs)
    [] a.e = "table" -> Constructor(fs, a.fields)
    [] a.e = "func" -> Body(fs, a, FALSE)
    [] a.e = "var" -> SingleVar(fs, a.name)
    [] a.e = "paren" -> DischargeVars(Expr(fs, a.x))
    [] a.e = "field" -> Field(Expr(fs, a.obj), a.name)
    [] a.e = "index" -> LET x == Exp2AnyReg(Expr(fs, a.obj))
                            k == YIndex(x.fs, a.key)
                        IN Indexed(X(k.fs, x.e), k.e)
    [] a.e = "call" -> Call(fs, a)
    [] a.e = "method" -> Method(fs, a)
    [] a.e = "un" -> Prefix(Expr(fs, a.x), a.op)
    [] a.e = "bin" -> Binary(fs, a)

------------------------------------------------------------------------------
(* check_conflict: v is a local that an earlier target of the assignment uses. *)
CheckConflict(fs, lhs, v) ==
  LET extra == fs.freereg
      safe(r) == IF r = v.info THEN extra ELSE r
      uses(e) == e.k = "VINDEXED" /\ v.info \in {e.info, e.aux}
  IN IF \E i \in DOMAIN lhs : uses(lhs[i])
     THEN [fs |-> ReserveRegs(CodeABC(fs, "MOVE", extra, v.info, 0), 1),
           lhs |-> [i \in DOMAIN lhs |->
                      IF uses(lhs[i]) THEN [lhs[i] EXCEPT !.info = safe(@), !.aux = safe(@)]
                      ELSE lhs[i]]]
     ELSE [fs |-> fs, lhs |-> lhs]

Targets(fs, vars) ==
  FoldLeft(LAMBDA l, a : LET x == Expr(l.fs, a)
                             c == IF x.e.k = "VLOCAL" THEN CheckConflict(x.fs, l.lhs, x.e)
                                  ELSE [fs |-> x.fs, lhs |-> l.lhs]
                         IN [fs |-> c.fs, lhs |-> Append(c.lhs, x.e)],
           [fs |-> fs, lhs |-> <<>>], vars)

(* assignment: the targets are stored from the last one to the first. *)
Assignment(fs, vars, exprs) ==
  LET l == Targets(fs, vars)
      nvars == Len(vars)
      nexps == Len(exprs)
      x == ExpList(l.fs, exprs)
      adj == AdjustAssign(x, nvars, nexps)
      one == SetOneRet(x)
      store(lv, g) == StoreVar(g, lv, InitExp("VNONRELOC", g.freereg - 1))
      cut == [adj EXCEPT !.freereg = @ - (IF nexps > nvars THEN nexps - nvars ELSE 0)]
  IN IF nexps # nvars THEN FoldRight(store, l.lhs, cut)
     ELSE FoldRight(store, Front(l.lhs), StoreVar(one.fs, Last(l.lhs), one.e))

(* cond: the list of jumps taken when the condition is false. *)
Cond(fs, a) == LET x == Expr(fs, a)
                   g == GoIfTrue(IF x.e.k = "VNIL" THEN X(x.fs, [x.e EXCEPT !.k = "VFALSE"]) ELSE x)
               IN [fs |-> g.fs, l |-> g.e.f]

Block(fs, body) == LET g == Chunk(EnterBlock(fs, FALSE), body)
                   IN LeaveBlock(LuaAssert(g, Last(g.bl).breaklist = NoJump))

While(fs, a) ==
  LET init == Pc(fs)
      c == Cond(GetLabel(fs), a.cond)
      j == Jump(Block(EnterBlock(c.fs, TRUE), a.body))
  IN PatchToHere(LeaveBlock(PatchList(j.fs, j.l, init)), c.l)

Repeat(fs, a) ==
  LET init == Pc(fs)
      g == Chunk(EnterBlock(EnterBlock(GetLabel(fs), TRUE), FALSE), a.body)
      c == Cond(g, a.cond)
      upval == Last(c.fs.bl).upval
      j == Jump(LeaveBlock(PatchToHere(Break(c.fs), c.l)))
  IN LeaveBlock(IF ~upval THEN PatchList(LeaveBlock(c.fs), c.l, init)
                ELSE PatchList(j.fs, j.l, init))

Exp1(fs, a) == Exp2NextReg(Expr(fs, a)).fs

ForBody(fs, base, names, body, isnum) ==
  LET ctl == AdjustLocalVars(fs, IF isnum THEN <<"(for index)", "(for limit)", "(for step)">>
                                 ELSE <<"(for generator)", "(for state)", "(for control)">>)
      prep == IF isnum THEN [fs |-> Code(ctl, Ins("FORPREP", base, NoJump, 0)), l |-> Pc(ctl)]
              ELSE Jump(ctl)
      vars == AdjustLocalVars(EnterBlock(prep.fs, FALSE), names)
      inner == LeaveBlock(Block(ReserveRegs(vars, Len(names)), body))
      g == PatchToHere(inner, prep.l)
      num == Code(g, Ins("FORLOOP", base, NoJump, 0))
      gen == Jump(CodeABC(g, "TFORLOOP", base, 0, Len(names)))
  IN IF isnum THEN PatchList(num, Pc(g), prep.l + 1) ELSE PatchList(gen.fs, gen.l, prep.l + 1)

ForNum(fs, a) ==
  LET g == Exp1(Exp1(fs, a.init), a.limit)
      k == AddK(g, Num(1))
      step == IF a.step = <<>>
              THEN ReserveRegs(CodeABx(k, "LOADK", k.freereg, KIndex(k, Num(1))), 1)
              ELSE Exp1(g, a.step[1])
  IN ForBody(step, fs.freereg, <<a.name>>, a.body, TRUE)

ForList(fs, a) ==
  LET g == AdjustAssign(ExpList(fs, a.exprs), 3, Len(a.exprs))
  IN ForBody(CheckStack(g, 3), fs.freereg, a.names, a.body, FALSE)

(* ifstat: the then parts but the last jump out; escapelist ends here. *)
If(fs, a) ==
  LET then(s, cl) ==  \* one IF or ELSEIF: s == [fs, flist, esc]
        LET j == Jump(s.fs)
            e == Concat(j.fs, s.esc, j.l)
            c == Cond(PatchToHere(e.fs, s.flist), cl.cond)
        IN [fs |-> Block(c.fs, cl.body), flist |-> c.l, esc |-> e.l]
      c1 == Cond(fs, Head(a.clauses).cond)
      s == FoldLeft(then, [fs |-> Block(c1.fs, Head(a.clauses).body), flist |-> c1.l,
                           esc |-> NoJump], Tail(a.clauses))
      j == Jump(s.fs)
      out == Concat(j.fs, s.esc, j.l)
      last == Concat(s.fs, s.esc, s.flist)
  IN IF a.else = <<>> THEN PatchToHere(last.fs, last.l)
     ELSE PatchToHere(Block(PatchToHere(out.fs, s.flist), a.else[1]), out.l)

LocalFunc(fs, a) ==
  LET v == InitExp("VLOCAL", fs.freereg)
      b == Body(AdjustLocalVars(ReserveRegs(fs, 1), <<a.name>>), a.func, FALSE)
      g == StoreVar(b.fs, v, b.e)
  IN [g EXCEPT !.locvars[Last(g.actvar)].startpc = Pc(g)]

Local(fs, a) ==
  LET x == IF a.exprs = <<>> THEN X(fs, Expr0) ELSE ExpList(fs, a.exprs)
  IN AdjustLocalVars(AdjustAssign(x, Len(a.names), Len(a.exprs)), a.names)

Function(fs, a) == LET v == Expr(fs, a.name)
                       b == Body(v.fs, a.func, a.method)
                   IN StoreVar(b.fs, v.e, b.e)

CallStat(fs, a) == LET x == Expr(fs, a.call) IN [x.fs EXCEPT !.code[x.e.info + 1].c = 1]

Return(fs, a) ==
  LET nret == Len(a.exprs)
      x == ExpList(fs, a.exprs)
      open == SetReturns(x.fs, x.e, MultRet)
      tail == [LuaAssert(open, At(open, x.e.info).a = NActVar(fs))
                 EXCEPT !.code[x.e.info + 1].op = "TAILCALL"]
      any == Exp2AnyReg(x)
      next == Exp2NextReg(x).fs
  IN CASE nret = 0 -> Ret(fs, 0, 0)
       [] nret > 0 /\ HasMultRet(x.e.k) ->
            Ret(IF x.e.k = "VCALL" /\ nret = 1 THEN tail ELSE open, NActVar(fs), MultRet)
       [] nret = 1 /\ ~HasMultRet(x.e.k) -> Ret(any.fs, any.e.info, 1)
       [] OTHER -> Ret(LuaAssert(next, nret = next.freereg - NActVar(fs)), NActVar(fs), nret)

Statement(fs, a) ==
  CASE ~fs.ok -> fs
    [] a.s = "if" -> If(fs, a)
    [] a.s = "while" -> While(fs, a)
    [] a.s = "do" -> Block(fs, a.body)
    [] a.s = "for" -> LeaveBlock(ForNum(EnterBlock(fs, TRUE), a))
    [] a.s = "forin" -> LeaveBlock(ForList(EnterBlock(fs, TRUE), a))
    [] a.s = "repeat" -> Repeat(fs, a)
    [] a.s = "function" -> Function(fs, a)
    [] a.s = "localfunction" -> LocalFunc(fs, a)
    [] a.s = "local" -> Local(fs, a)
    [] a.s = "return" -> Return(fs, a)
    [] a.s = "break" -> Break(fs)
    [] a.s = "call" -> CallStat(fs, a)
    [] a.s = "assign" -> Assignment(fs, a.vars, a.exprs)

Chunk(fs, stats) ==
  FoldLeft(LAMBDA g, a :
             LET h == Statement(g, a)
             IN [LuaAssert(h, h.maxstack >= h.freereg /\ h.freereg >= NActVar(h))
                   EXCEPT !.freereg = NActVar(h)],
           fs, stats)

(* luaY_parser: the main function of a chunk is vararg. *)
Parser(stats) ==
  ProtoOf(CloseFunc(Chunk([OpenFunc(<<>>) EXCEPT !.vararg = {"ISVARARG"}], stats)))
==============================================================================
