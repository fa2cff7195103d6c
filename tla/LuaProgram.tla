----------------------------- MODULE LuaProgram -----------------------------
(***************************************************************************)
(* A compiled program, run by LuaVM, against what it means.                *)
(***************************************************************************)
EXTENDS LuaVM, LuaDump

Observed == [failed |-> status = "error", result |-> result, log |-> log,
             globals |-> globals, tables |-> tables]


RECURSIVE AllProtos(_)
AllProtos(p) == {p} \cup UNION {AllProtos(p.p[j]) : j \in DOMAIN p.p}

(* No lua_assert of lcode.c and lparser.c fails: registers are freed in the *)
(* order of a stack, lists are closed where they must be, blocks balance,    *)
(* and the checker accepts what the compiler makes (close_func).             *)
AssertsHold == status = "run" /\ fr.pc = 0 => \A p \in AllProtos(proto) : p.ok /\ CheckCode(p)

RECURSIVE Stripped(_)
Stripped(p) == [p EXCEPT !.source = UnknownSource, !.locvars = <<>>, !.upvalues = <<>>,
                         !.p = [j \in DOMAIN @ |-> Stripped(@[j])]]


(* What luaV_execute asserts before each instruction: the top is the frame's *)
(* end, but between an instruction that leaves it open and the one using it. *)
TopFixed == status = "run" /\ ~fr.pending => top = fr.ctop \/ CheckOpenOp(I)

(* The variables active at the current instruction, by the debug information. *)
ActiveVars == Cardinality({j \in DOMAIN proto.locvars :
                             proto.locvars[j].startpc <= fr.pc /\ fr.pc < proto.locvars[j].endpc})

(* A captured variable whose scope has been left is closed, whichever way it *)
(* was left, so the next variable in its register is a variable of its own.  *)
ScopesClosed ==
  status = "run" /\ I.op \notin {"CLOSE", "RETURN", "TAILCALL"} =>
    \A u \in DOMAIN upvals : upvals[u].at >= fr.base => upvals[u].at - fr.base < ActiveVars
==============================================================================
