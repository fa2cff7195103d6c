---------------------------- MODULE MCLuaProgram ----------------------------
(***************************************************************************)
(* The programs that the run executes, built from small parts.             *)
(***************************************************************************)
EXTENDS LuaProgram, LuaParser, LuaMeaning

(* Expressions and statements. *)
V(n) == [e |-> "var", name |-> n]
N(n) == [e |-> "num", n |-> n]
S(s) == [e |-> "str", s |-> s]
NilE == [e |-> "nil"]
TrueE == [e |-> "true"]
FalseE == [e |-> "false"]
Dots == [e |-> "dots"]
Bin(op, l, r) == [e |-> "bin", op |-> op, l |-> l, r |-> r]
Un(op, x) == [e |-> "un", op |-> op, x |-> x]
Paren(x) == [e |-> "paren", x |-> x]
CallE(fn, args) == [e |-> "call", fn |-> fn, args |-> args]
F(args) == CallE(V("f"), args)
C == CallE(V("c"), <<>>)
Index(t, k) == [e |-> "index", obj |-> t, key |-> k]
Dot(t, name) == [e |-> "field", obj |-> t, name |-> name]
MethodE(t, name, args) == [e |-> "method", obj |-> t, name |-> name, args |-> args]
Func(pars, dots, uses, body) ==
  [e |-> "func", pars |-> pars, dots |-> dots, uses |-> uses, body |-> body]
Fun(pars, body) == Func(pars, FALSE, FALSE, body)
Item(x) == [rec |-> FALSE, key |-> NilE, val |-> x]
Rec(k, x) == [rec |-> TRUE, key |-> k, val |-> x]
TableE(fields) == [e |-> "table", fields |-> fields]

LocalS(names, es) == [s |-> "local", names |-> names, exprs |-> es]
AssignS(vars1, es) == [s |-> "assign", vars |-> vars1, exprs |-> es]
CallS(e) == [s |-> "call", call |-> e]
DoS(b) == [s |-> "do", body |-> b]
IfS(c, b, else) == [s |-> "if", clauses |-> <<[cond |-> c, body |-> b]>>, else |-> else]
WhileS(c, b) == [s |-> "while", cond |-> c, body |-> b]
RepeatS(b, c) == [s |-> "repeat", cond |-> c, body |-> b]
ForS(n, i, l, st, b) == [s |-> "for", name |-> n, init |-> i, limit |-> l, step |-> st, body |-> b]
ForInS(ns, es, b) == [s |-> "forin", names |-> ns, exprs |-> es, body |-> b]
ReturnS(es) == [s |-> "return", exprs |-> es]
BreakS == [s |-> "break"]
FunctionS(name, method, func) == [s |-> "function", name |-> name, method |-> method, func |-> func]
LocalFunctionS(n, func) == [s |-> "localfunction", name |-> n, func |-> func]

Program(body, args, coin) == [body |-> body, args |-> args, coin |-> coin]

(* A program compiled, with the meaning of its text to compare with. *)
Compiled(p) == [main |-> Parser(p.body), args |-> p.args, coin |-> p.coin, meaning |-> Meaning(p)]

------------------------------------------------------------------------------
(* Sequences of length 1 to n over a set. *)
UpTo(set, n) == SeqOf(set, n) \ {<<>>}

(* Conditions: and, or, not and a comparison combined two deep, as a value, *)
(* as a condition, and as an argument.  f is called with b where it occurs.  *)
Simple == {V("a"), NilE, F(<<V("b")>>)}
Compound == Simple \cup {Un("not", x) : x \in Simple}
            \cup {Bin(op, x, y) : op \in {"and", "or", "<"}, x \in Simple, y \in Simple}
Negated == Compound \cup {Un("not", x) : x \in Compound}
Locals == LocalS(<<"a", "b">>, <<Dots>>)
InContext(use, x) ==
  CASE use = "value" -> Program(<<Locals, AssignS(<<V("a")>>, <<x>>), ReturnS(<<V("a")>>)>>,
                                <<Bool(FALSE), Num(2)>>, 0)
    [] use = "test" -> Program(<<Locals, IfS(x, <<CallS(F(<<V("a")>>))>>, <<<<CallS(F(<<>>))>>>>),
                                 CallS(F(<<V("b")>>))>>, <<Num(1), Nil>>, 0)
    [] use = "arg" -> Program(<<Locals, ReturnS(<<F(<<V("b"), x, V("a")>>)>>)>>,
                              <<Nil, Bool(TRUE)>>, 0)
Plain == Simple \cup {Un("not", F(<<V("b")>>)), Bin("<", V("a"), V("b")),
                       Bin("and", V("a"), F(<<V("b")>>)), Bin("or", NilE, V("b"))}
ConditionPrograms == {InContext(use, IF first THEN Bin(op, x, y) ELSE Bin(op, y, x)) :
                        use \in {"value", "test", "arg"}, op \in {"and", "or"},
                        x \in Negated, y \in Plain, first \in BOOLEAN}

(* Operators: every operator over every kind of operand, nested on either    *)
(* side, after more constants than an instruction's operand can name.        *)
Operands == {V("a"), N(0), N(3), S("s"), F(<<V("b")>>)}
Inner == Operands \cup {Bin(op, x, y) : op \in {"+", "%", ".."}, x \in Operands,
                                    y \in {V("a"), N(0), F(<<V("b")>>)}}
         \cup {Un(op, x) : op \in {"-", "#"}, x \in Operands}
OuterOps == {"-", "..", "==", "~=", "<", "<=", ">"}
Operation(op, x, y, right) ==
  IF right THEN Program(<<Locals, ReturnS(<<Bin(op, x, y)>>)>>, <<Num(2), Num(5)>>, 0)
  ELSE Program(<<Locals, ReturnS(<<F(<<Paren(Bin(op, y, x)), S("t")>>)>>)>>,
               <<Num(2), Str("t")>>, 0)
OperatorPrograms == {Operation(op, x, y, right) : op \in OuterOps, x \in Operands, y \in Inner,
                                                  right \in BOOLEAN}

(* Assignments: several targets, some of which use another one. *)
Places == {V("a"), V("b"), Index(V("a"), V("b")), Index(V("b"), V("a")), V("g")}
Rights == {V("b"), F(<<V("b"), N(2)>>)}
AssignmentPrograms ==
  {Program(<<Locals, AssignS(<<V("b")>>, <<TableE(<<Item(V("a"))>>)>>), AssignS(l, r),
             ReturnS(<<V("a"), V("b"), V("g")>>)>>, <<Num(1)>>, 0) :
     l \in UpTo(Places, 3), r \in UpTo(Rights, 3)}

(* Scopes: a loop whose body declares, captures and leaves, in two orders,   *)
(* inside another loop; what was captured is called at the end.              *)
InLoop(kind, body) ==
  CASE kind = "do" -> DoS(body)
    [] kind = "while" -> WhileS(C, body)
    [] kind = "repeat" -> RepeatS(body, C)
    [] kind = "repeatuse" -> RepeatS(body, Bin("or", C, V("x")))
    [] kind = "up" -> ForS("i", N(1), N(2), <<>>, body)
    [] kind = "down" -> ForS("i", N(2), N(1), <<Un("-", N(1))>>, body)
    [] kind = "in" -> ForInS(<<"i", "j">>, <<V("n"), N(2), N(0)>>, body)
Captures == {<<>>,
             <<AssignS(<<V("g")>>, <<Fun(<<>>, <<AssignS(<<V("x")>>, <<Bin("+", V("x"), N(1))>>),
                                                ReturnS(<<V("x"), V("i")>>)>>)>>)>>,
             <<LocalFunctionS("h", Fun(<<>>, <<ReturnS(<<Bin("and", V("h"), V("x"))>>)>>)),
               AssignS(<<V("g")>>, <<V("h")>>)>>}
Exits == {<<>>, <<IfS(C, <<BreakS>>, <<>>)>>, <<IfS(C, <<ReturnS(<<F(<<V("x")>>)>>)>>, <<>>)>>,
          <<DoS(<<LocalS(<<"y">>, <<V("x")>>),
                  AssignS(<<V("g")>>, <<Fun(<<>>, <<ReturnS(<<V("y")>>)>>)>>),
                  IfS(C, <<BreakS>>, <<>>)>>)>>}
LoopBody(es, cap, exit, first) ==
  <<LocalS(<<"x">>, es)>> \o IF first THEN cap \o exit ELSE exit \o cap
ScopePrograms ==
  {Program(<<WhileS(N(1), <<InLoop(kind, LoopBody(es, cap, exit, first)), BreakS>>),
             LocalS(<<"z">>, <<N(5)>>),
             ReturnS(<<Bin("and", V("g"), CallE(V("g"), <<>>)), V("z")>>)>>, <<>>, coin) :
     kind \in {"do", "while", "repeat", "repeatuse", "up", "down", "in"},
     es \in {<<>>, <<N(7)>>}, cap \in Captures, exit \in Exits, first \in BOOLEAN, coin \in 0..2}

(* Sequences of declarations and jumps, for the nils that are not loaded. *)
Nils == {LocalS(<<"x">>, <<>>), LocalS(<<"x", "y">>, <<NilE, N(1)>>), AssignS(<<V("x")>>, <<NilE>>),
         IfS(C, <<LocalS(<<"z">>, <<N(4)>>)>>, <<>>),
         RepeatS(<<LocalS(<<"z">>, <<>>), CallS(F(<<V("z")>>)), AssignS(<<V("z")>>, <<N(1)>>)>>, C)}
NilPrograms == {Program(Append(b, ReturnS(<<V("x"), V("y")>>)), <<>>, 1) : b \in UpTo(Nils, 4)}

(* Calls: parameters, extra arguments and results of every number, used in   *)
(* every position.                                                           *)
Functions3 == {Func(<<>>, TRUE, TRUE, <<ReturnS(<<Dots>>)>>),
               Func(<<"p">>, TRUE, FALSE, <<ReturnS(<<V("arg"), V("p")>>)>>),
               Func(<<"p">>, TRUE, TRUE, <<ReturnS(<<V("p"), Paren(Dots), Dots>>)>>),
               Fun(<<"p", "q">>, <<ReturnS(<<V("q"), F(<<V("p")>>)>>)>>),
               Fun(<<"p", "q">>, <<IfS(V("p"), <<ReturnS(<<CallE(V("m"), <<V("q")>>)>>)>>, <<>>),
                                   ReturnS(<<F(<<V("q"), N(1)>>)>>)>>)}
ArgLists == SeqOf({N(1), F(<<N(2), N(3)>>), NilE}, 3)
Used(call, where) ==
  CASE where = "statement" -> <<CallS(call)>>
    [] where = "return" -> <<ReturnS(<<call>>)>>
    [] where = "paren" -> <<ReturnS(<<Paren(call)>>)>>
    [] where = "twice" -> <<ReturnS(<<call, call>>)>>
    [] where = "local" -> <<LocalS(<<"x", "y", "z">>, <<N(0), call>>), ReturnS(<<V("z"), V("y")>>)>>
    [] where = "last" -> <<ReturnS(<<TableE(<<Item(N(8)), Item(call)>>)>>)>>
    [] where = "first" -> <<ReturnS(<<TableE(<<Item(call), Item(N(8))>>)>>)>>
    [] where = "in" -> <<ForInS(<<"i">>, <<V("m"), NilE, N(1)>>, <<BreakS>>), CallS(call)>>
CallPrograms ==
  {Program(<<LocalFunctionS("m", fn)>> \o Used(CallE(V("m"), args), where), <<>>, 0) :
     fn \in Functions3, args \in ArgLists,
     where \in {"statement", "return", "paren", "twice", "local", "last", "first", "in"}}

(* Constructors, and methods. *)
Fields == {Item(N(4)), Item(F(<<N(1), N(2)>>)), Item(Dots), Rec(S("k"), V("t")),
           Rec(F(<<N(9)>>), Bin("and", V("t"), N(6)))}
TablePrograms == {Program(<<LocalS(<<"t">>, <<TableE(fs)>>), ReturnS(<<V("t"), Un("#", V("t"))>>)>>,
                          <<Num(3), Num(3)>>, 0) : fs \in UpTo(Fields, 4)}

Self1 == Fun(<<"p">>, <<AssignS(<<Dot(V("self"), "v")>>, <<V("p")>>),
                        ReturnS(<<V("self"), Dot(Dot(V("self"), "u"), "v")>>)>>)
MethodPrograms ==
  {Program(<<LocalS(<<"t">>, <<TableE(<<Rec(S("u"), TableE(<<>>))>>)>>),
             FunctionS(Dot(V("t"), "m"), TRUE, Self1),
             FunctionS(Dot(Dot(V("t"), "u"), "m"), d, Self1),
             ReturnS(<<MethodE(MethodE(V("t"), "m", args), "m", <<N(3)>>),
                       MethodE(Dot(V("t"), "u"), "m", args)>>)>>, <<>>, 0) :
     d \in BOOLEAN, args \in ArgLists}

CompileAll(family) == {Compiled(p) : p \in family}
AllPrograms == <<CompileAll(ConditionPrograms), CompileAll(OperatorPrograms),
                 CompileAll(AssignmentPrograms), CompileAll(ScopePrograms),
                 CompileAll(NilPrograms), CompileAll(CallPrograms),
                 CompileAll(TablePrograms), CompileAll(MethodPrograms)>>
MCPrograms == LET programs == AllPrograms IN programs  \* TLC evaluates AllPrograms once
MCCollation == <<"s", "t">>
==============================================================================
