----------------------------- MODULE LuaMeaning -----------------------------
(***************************************************************************)
(* What a program means, with no code, registers or jumps: the reference   *)
(* that running the compiled program is compared with.  Variables are      *)
(* cells of a store, which scopes name and closures capture.  Operands are *)
(* evaluated from left to right, every expression of an assignment before  *)
(* any store, and the stores are made from right to left.                  *)
(***************************************************************************)
EXTENDS LuaValue

(* A machine m; ctl says why a statement list ends early, if it does. *)
Machine(coin) == [store |-> <<>>, glob |-> HostGlobals, tabs |-> <<>>, funs |-> <<"main">>,
                  log |-> <<>>, ctl |-> "next", ret |-> <<>>, coin |-> coin]

Going(m) == m.ctl = "next"
Raise(m) == [m EXCEPT !.ctl = "error"]
V1(vs) == IF vs = <<>> THEN Nil ELSE vs[1]
Res(m, vs) == [m |-> m, vs |-> vs]
ResErr(m, v) == IF Going(m) /\ v = Err THEN Res(Raise(m), <<Nil>>) ELSE Res(m, <<v>>)

CellOf(env, name) == SelectLastInSeq(env, LAMBDA d : d.name = name)

(* New cells for names, with the values of vs or nil. *)
Declare(m, env, names, vs) ==
  LET n == Len(m.store)
  IN [m |-> [m EXCEPT !.store = @ \o [i \in DOMAIN names |->
                                        IF i \in DOMAIN vs THEN vs[i] ELSE Nil]],
      env |-> env \o [i \in DOMAIN names |-> [name |-> names[i], cell |-> n + i]]]

Global(m, name) == IF Str(name) \in DOMAIN m.glob THEN m.glob[Str(name)] ELSE Nil

Binop(op, v, w) ==
  LET flip(b) == IF b = Err THEN Err ELSE Bool(IsFalse(b))
  IN CASE op = "+" -> Arith("ADD", v, w)
       [] op = "-" -> Arith("SUB", v, w)
       [] op = "*" -> Arith("MUL", v, w)
       [] op = "%" -> Arith("MOD", v, w)
       [] op = ".." -> ConcatAll(<<v, w>>)
       [] op = "==" -> Bool(Equal(v, w))
       [] op = "~=" -> flip(Bool(Equal(v, w)))
       [] op = "<" -> LessThan(v, w)
       [] op = "<=" -> LessEqual(v, w)
       [] op = ">" -> LessThan(w, v)
       [] op = ">=" -> LessEqual(w, v)

Unop(m, op, v) == CASE op = "not" -> Bool(IsFalse(v))
                    [] op = "-" -> Arith("UNM", v, v)
                    [] op = "#" -> LengthOf(m.tabs, v)

NewFunction(m, env, a) ==
  Res([m EXCEPT !.funs = Append(@, [func |-> a, env |-> env])], <<Closure(Len(m.funs) + 1)>>)

SetTab(m, t, key, v) == IF CanSet(t, key) THEN [m EXCEPT !.tabs[t.id] = Put(@, key, v)] ELSE Raise(m)

------------------------------------------------------------------------------
(* c is the context of an expression: its scope env and its extra arguments. *)
RECURSIVE Eval(_, _, _), Exec(_, _, _), Loop(_, _, _)

Eval1(m, c, a) == LET r == Eval(m, c, a) IN [m |-> r.m, v |-> V1(r.vs)]

(* All values of the last expression, one of each other. *)
EvalList(m, c, es) ==
  IF es = <<>> THEN Res(m, <<>>)
  ELSE LET one(r, a) == LET x == Eval1(r.m, c, a) IN Res(x.m, Append(r.vs, x.v))
           init == FoldLeft(one, Res(m, <<>>), Front(es))
           last == Eval(init.m, c, Last(es))
       IN Res(last.m, init.vs \o last.vs)

Apply(m, f, args) ==
  IF ~Going(m) THEN Res(m, <<>>)
  ELSE IF f.t = "cfunction"
  THEN LET h == Host(f.c, args, m.log, m.coin) IN Res([m EXCEPT !.log = h.log], h.rs)
  ELSE IF f.t # "function" THEN Res(Raise(m), <<>>)
  ELSE LET fn == m.funs[f.id]
           pars == fn.func.pars
           extra == SubSeq(args, Len(pars) + 1, Len(args))
           keep == fn.func.dots /\ ~fn.func.uses
           argtab == FoldLeft(LAMBDA h, j : Put(h, Num(j), extra[j]),
                              Put(<<>>, Str("n"), Num(Len(extra))), [j \in DOMAIN extra |-> j])
           m1 == IF keep THEN [m EXCEPT !.tabs = Append(@, argtab)] ELSE m
           d == Declare(m1, fn.env, pars \o (IF fn.func.dots THEN <<"arg">> ELSE <<>>),
                        [i \in DOMAIN pars |-> IF i \in DOMAIN args THEN args[i] ELSE Nil] \o
                        (IF keep THEN <<TableRef(Len(m1.tabs))>> ELSE <<>>))
           r == Exec(d.m, [env |-> d.env, dots |-> extra], fn.func.body).m
       IN IF r.ctl = "error" THEN Res(r, <<>>)
          ELSE Res([r EXCEPT !.ctl = "next", !.ret = <<>>], r.ret)

EvalField(t, s, c, fl) ==  \* s == [m, n]: one item of a constructor, n list items so far
  LET k == Eval1(s.m, c, fl.key)
      v == Eval1(IF fl.rec THEN k.m ELSE s.m, c, fl.val)
  IN IF fl.rec THEN [m |-> IF Going(v.m) THEN SetTab(v.m, t, k.v, v.v) ELSE v.m, n |-> s.n]
     ELSE [m |-> IF Going(v.m) THEN SetTab(v.m, t, Num(s.n + 1), v.v) ELSE v.m, n |-> s.n + 1]

EvalTable(m, c, fields) ==
  LET t == TableRef(Len(m.tabs) + 1)
      m0 == [m EXCEPT !.tabs = Append(@, <<>>)]
      multi == fields # <<>> /\ ~Last(fields).rec /\ Last(fields).val.e \in {"call", "method", "dots"}
      s == FoldLeft(LAMBDA r, fl : EvalField(t, r, c, fl), [m |-> m0, n |-> 0],
                    IF multi THEN Front(fields) ELSE fields)
      r == Eval(s.m, c, Last(fields).val)
      put(x, j) == SetTab(x, t, Num(s.n + j), r.vs[j])
  IN IF ~multi THEN Res(s.m, <<t>>)
     ELSE Res(IF Going(r.m) THEN FoldLeft(put, r.m, [j \in DOMAIN r.vs |-> j]) ELSE r.m, <<t>>)

EvalBin(m, c, a) ==
  LET l == Eval1(m, c, a.l)
      r == Eval1(l.m, c, a.r)
  IN CASE a.op = "and" -> IF ~Going(l.m) \/ IsFalse(l.v) THEN Res(l.m, <<l.v>>) ELSE Res(r.m, <<r.v>>)
       [] a.op = "or" -> IF ~Going(l.m) \/ ~IsFalse(l.v) THEN Res(l.m, <<l.v>>) ELSE Res(r.m, <<r.v>>)
       [] OTHER -> IF Going(r.m) THEN ResErr(r.m, Binop(a.op, l.v, r.v)) ELSE Res(r.m, <<Nil>>)

EvalIndex(m, c, obj, key) ==
  LET o == Eval1(m, c, obj)
      k == Eval1(o.m, c, key)
  IN IF Going(k.m) THEN ResErr(k.m, Get(k.m.tabs, o.v, k.v)) ELSE Res(k.m, <<Nil>>)

Eval(m, c, a) ==
  IF ~Going(m) THEN Res(m, <<Nil>>)
  ELSE CASE a.e = "nil" -> Res(m, <<Nil>>)
         [] a.e = "true" -> Res(m, <<Bool(TRUE)>>)
         [] a.e = "false" -> Res(m, <<Bool(FALSE)>>)
         [] a.e = "num" -> Res(m, <<Num(a.n)>>)
         [] a.e = "str" -> Res(m, <<Str(a.s)>>)
         [] a.e = "dots" -> Res(m, c.dots)
         [] a.e = "table" -> EvalTable(m, c, a.fields)
         [] a.e = "func" -> NewFunction(m, c.env, a)
         [] a.e = "var" -> LET i == CellOf(c.env, a.name)
                           IN Res(m, <<IF i # 0 THEN m.store[c.env[i].cell] ELSE Global(m, a.name)>>)
         [] a.e = "paren" -> LET x == Eval1(m, c, a.x) IN Res(x.m, <<x.v>>)
         [] a.e = "field" -> EvalIndex(m, c, a.obj, [e |-> "str", s |-> a.name])
         [] a.e = "index" -> EvalIndex(m, c, a.obj, a.key)
         [] a.e = "call" -> LET f == Eval1(m, c, a.fn)
                                x == EvalList(f.m, c, a.args)
                            IN Apply(x.m, f.v, x.vs)
         [] a.e = "method" -> LET o == Eval1(m, c, a.obj)
                                  f == ResErr(o.m, Get(o.m.tabs, o.v, Str(a.name)))
                                  x == EvalList(f.m, c, a.args)
                              IN IF Going(o.m) THEN Apply(x.m, f.vs[1], <<o.v>> \o x.vs)
                                 ELSE Res(o.m, <<Nil>>)
         [] a.e = "un" -> LET x == Eval1(m, c, a.x)
                          IN IF Going(x.m) THEN ResErr(x.m, Unop(x.m, a.op, x.v)) ELSE Res(x.m, <<Nil>>)
         [] a.e = "bin" -> EvalBin(m, c, a)

------------------------------------------------------------------------------
(* The place an assignment stores to. *)
Target(m, c, a) ==
  LET i == IF a.e = "var" THEN CellOf(c.env, a.name) ELSE 0
      o == Eval1(m, c, a.obj)
      k == Eval1(o.m, c, IF a.e = "field" THEN [e |-> "str", s |-> a.name] ELSE a.key)
  IN IF a.e # "var" THEN [m |-> k.m, to |-> [w |-> "table", obj |-> o.v, key |-> k.v]]
     ELSE [m |-> m, to |-> IF i # 0 THEN [w |-> "cell", cell |-> c.env[i].cell]
                           ELSE [w |-> "global", name |-> a.name]]

Store(m, to, v) ==
  IF ~Going(m) THEN m
  ELSE CASE to.w = "cell" -> [m EXCEPT !.store[to.cell] = v]
         [] to.w = "global" -> [m EXCEPT !.glob = Put(@, Str(to.name), v)]
         [] to.w = "table" -> SetTab(m, to.obj, to.key, v)

Assign(m, c, vars, exprs) ==
  LET add(s, a) == LET x == Target(s.m, c, a) IN [m |-> x.m, to |-> Append(s.to, x.to)]
      ts == FoldLeft(add, [m |-> m, to |-> <<>>], vars)
      r == EvalList(ts.m, c, exprs)
      put(j, x) == Store(x, ts.to[j], IF j \in DOMAIN r.vs THEN r.vs[j] ELSE Nil)
  IN FoldRight(put, [j \in DOMAIN vars |-> j], r.m)

(* A loop: st holds its statement and its state; one iteration per step. *)
AfterBody(m, c, st) == CASE m.ctl = "break" -> [m EXCEPT !.ctl = "next"]
                         [] m.ctl = "next" -> Loop(m, c, st)
                         [] OTHER -> m

LoopWhile(m, c, st) ==
  LET x == Eval1(m, c, st.a.cond)
  IN IF ~Going(x.m) \/ IsFalse(x.v) THEN x.m ELSE AfterBody(Exec(x.m, c, st.a.body).m, c, st)

LoopRepeat(m, c, st) ==
  LET b == Exec(m, c, st.a.body)
      x == Eval1(b.m, b.c, st.a.cond)
  IN IF ~Going(b.m) THEN AfterBody(b.m, c, st)
     ELSE IF ~Going(x.m) \/ ~IsFalse(x.v) THEN x.m ELSE Loop(x.m, c, st)

LoopNum(m, c, st) ==
  LET again == IF LessThan(Num(0), st.step) = Bool(TRUE) THEN LessEqual(st.idx, st.limit)
               ELSE LessEqual(st.limit, st.idx)
      d == Declare(m, c.env, <<st.a.name>>, <<st.idx>>)
  IN IF again # Bool(TRUE) THEN m
     ELSE AfterBody(Exec(d.m, [c EXCEPT !.env = d.env], st.a.body).m, c,
                    [st EXCEPT !.idx = Arith("ADD", @, st.step)])

LoopIn(m, c, st) ==
  LET r == Apply(m, st.gen, <<st.state, st.ctl>>)
      d == Declare(r.m, c.env, st.a.names, r.vs)
  IN IF ~Going(r.m) \/ V1(r.vs) = Nil THEN r.m
     ELSE AfterBody(Exec(d.m, [c EXCEPT !.env = d.env], st.a.body).m, c, [st EXCEPT !.ctl = V1(r.vs)])

Loop(m, c, st) == CASE st.a.s = "while" -> LoopWhile(m, c, st)
                    [] st.a.s = "repeat" -> LoopRepeat(m, c, st)
                    [] st.a.s = "for" -> LoopNum(m, c, st)
                    [] st.a.s = "forin" -> LoopIn(m, c, st)

StartNum(m, c, a) ==
  LET x == Eval1(m, c, a.init)
      y == Eval1(x.m, c, a.limit)
      z == IF a.step = <<>> THEN [m |-> y.m, v |-> Num(1)] ELSE Eval1(y.m, c, a.step[1])
      ns == <<ToNumber(x.v), ToNumber(y.v), ToNumber(z.v)>>
  IN IF ~Going(z.m) THEN z.m
     ELSE IF Err \in ToSet(ns) THEN Raise(z.m)
     ELSE Loop(z.m, c, [a |-> a, idx |-> ns[1], limit |-> ns[2], step |-> ns[3]])

StartIn(m, c, a) ==
  LET r == EvalList(m, c, a.exprs)
      val(j) == IF j \in DOMAIN r.vs THEN r.vs[j] ELSE Nil
  IN IF ~Going(r.m) THEN r.m
     ELSE Loop(r.m, c, [a |-> a, gen |-> val(1), state |-> val(2), ctl |-> val(3)])

IfStat(m, c, a) ==
  LET test(s, cl) ==  \* s == [m, body]: the part to run, once it is found
        LET x == Eval1(s.m, c, cl.cond)
        IN IF s.body # <<>> \/ ~Going(s.m) THEN s
           ELSE [m |-> x.m, body |-> IF Going(x.m) /\ ~IsFalse(x.v) THEN <<cl.body>> ELSE <<>>]
      s == FoldLeft(test, [m |-> m, body |-> <<>>], a.clauses)
  IN IF ~Going(s.m) THEN s.m
     ELSE IF s.body # <<>> THEN Exec(s.m, c, s.body[1]).m
     ELSE IF a.else # <<>> THEN Exec(s.m, c, a.else[1]).m ELSE s.m

LocalStat(m, c, a) == LET r == EvalList(m, c, a.exprs)
                          d == Declare(r.m, c.env, a.names, r.vs)
                      IN [m |-> d.m, c |-> [c EXCEPT !.env = d.env]]

LocalFunction(m, c, a) ==
  LET d == Declare(m, c.env, <<a.name>>, <<Nil>>)
      f == NewFunction(d.m, d.env, a.func)
  IN [m |-> [f.m EXCEPT !.store[Len(d.m.store)] = f.vs[1]], c |-> [c EXCEPT !.env = d.env]]

FunctionStat(m, c, a) ==
  LET func == [a.func EXCEPT !.pars = (IF a.method THEN <<"self">> ELSE <<>>) \o @]
      t == Target(m, c, a.name)
      f == NewFunction(t.m, c.env, func)
  IN Store(f.m, t.to, f.vs[1])

ReturnStat(m, c, a) ==
  LET r == EvalList(m, c, a.exprs)
  IN IF Going(r.m) THEN [r.m EXCEPT !.ctl = "return", !.ret = r.vs] ELSE r.m

Stat(m, c, a) ==
  LET in(x) == [m |-> x, c |-> c]
  IN CASE a.s = "local" -> LocalStat(m, c, a)
       [] a.s = "localfunction" -> LocalFunction(m, c, a)
       [] a.s = "function" -> in(FunctionStat(m, c, a))
       [] a.s = "assign" -> in(Assign(m, c, a.vars, a.exprs))
       [] a.s = "call" -> in(Eval(m, c, a.call).m)
       [] a.s = "do" -> in(Exec(m, c, a.body).m)
       [] a.s = "if" -> in(IfStat(m, c, a))
       [] a.s \in {"while", "repeat"} -> in(Loop(m, c, [a |-> a]))
       [] a.s = "for" -> in(StartNum(m, c, a))
       [] a.s = "forin" -> in(StartIn(m, c, a))
       [] a.s = "return" -> in(ReturnStat(m, c, a))
       [] a.s = "break" -> in([m EXCEPT !.ctl = "break"])

Exec(m, c, stats) ==
  FoldLeft(LAMBDA r, a : IF Going(r.m) THEN Stat(r.m, r.c, a) ELSE r, [m |-> m, c |-> c], stats)

(* The outcome of a program, as an observer of the host sees it. *)
Meaning(p) ==
  LET m == Exec(Machine(p.coin), [env |-> <<>>, dots |-> p.args], p.body).m
  IN [failed |-> m.ctl = "error", result |-> IF m.ctl = "error" THEN <<>> ELSE m.ret, log |-> m.log,
      globals |-> m.glob, tables |-> m.tabs]
==============================================================================
