------------------------------ MODULE LuaVerify ------------------------------
(***************************************************************************)
(* The code checker, symbexec of ldebug.c as luaG_checkcode runs it on a   *)
(* whole function: every instruction's operands and jumps are inside it.   *)
(***************************************************************************)
EXTENDS LuaCode

IAsBxOps == {"JMP", "FORLOOP", "FORPREP"}
IABxOps == {"LOADK", "GETGLOBAL", "SETGLOBAL", "CLOSURE"}
ArithCodes == {"ADD", "SUB", "MUL", "MOD"}
OpCodes == TestOps \cup IAsBxOps \cup IABxOps \cup ArithCodes \cup
           {"MOVE", "LOADBOOL", "LOADNIL", "GETUPVAL", "GETTABLE", "SETUPVAL",
            "SETTABLE", "NEWTABLE", "SELF", "UNM", "NOT", "LEN", "CONCAT", "CALL",
            "TAILCALL", "RETURN", "SETLIST", "CLOSE", "VARARG"}

(* luaP_opmodes: what operands B and C are. *)
BMode(op) ==
  CASE op \in {"MOVE", "LOADNIL", "GETTABLE", "SELF", "UNM", "NOT", "LEN", "CONCAT",
               "TEST", "TESTSET"} \cup IAsBxOps -> "R"
    [] op \in {"SETTABLE", "EQ", "LT", "LE", "LOADK", "GETGLOBAL", "SETGLOBAL"}
              \cup ArithCodes -> "K"
    [] op \in {"TFORLOOP", "CLOSE"} -> "N"
    [] OTHER -> "U"

CMode(op) ==
  CASE op = "CONCAT" -> "R"
    [] op \in {"GETTABLE", "SETTABLE", "SELF", "EQ", "LT", "LE"} \cup ArithCodes -> "K"
    [] op \in {"LOADBOOL", "NEWTABLE", "TEST", "TESTSET", "CALL", "TAILCALL", "TFORLOOP",
               "SETLIST"} -> "U"
    [] OTHER -> "N"

CheckReg(p, r) == r < p.maxstack

CheckArgMode(p, r, mode) == CASE mode = "N" -> r = 0
                              [] mode = "U" -> TRUE
                              [] mode = "R" -> CheckReg(p, r)
                              [] mode = "K" -> IF IsK(r) THEN r - BitRK < Len(p.k)
                                               ELSE CheckReg(p, r)

CheckOpenOp(i) == i.op \in {"CALL", "TAILCALL", "RETURN", "SETLIST"} /\ i.b = 0

Precheck(p) == /\ p.numparams + (IF "HASARG" \in p.vararg THEN 1 ELSE 0) <= p.maxstack
               /\ "NEEDSARG" \in p.vararg => "HASARG" \in p.vararg
               /\ p.code # <<>> /\ Last(p.code).op = "RETURN"

(* A jump may not land on the word that holds a SETLIST's batch number. *)
CheckDest(p, dest) == /\ 0 <= dest /\ dest < Len(p.code)
                      /\ p.code[dest + 1].op # "COUNT"

CheckOperands(p, i) ==
  CASE i.op \in IAsBxOps -> TRUE
    [] i.op \in IABxOps -> BMode(i.op) = "K" => i.b < Len(p.k)
    [] OTHER -> CheckArgMode(p, i.b, BMode(i.op)) /\ CheckArgMode(p, i.c, CMode(i.op))

CheckOp(p, i, pc) ==
  LET size == Len(p.code)
      next == p.code[pc + 2]
      open == pc + 1 < size /\ CheckOpenOp(next)
  IN CASE i.op = "LOADBOOL" -> i.c = 1 => /\ pc + 2 < size
                                          /\ ~(next.op = "SETLIST" /\ next.c = 0)
       [] i.op \in {"GETUPVAL", "SETUPVAL"} -> i.b < p.nups
       [] i.op \in {"GETGLOBAL", "SETGLOBAL"} -> p.k[i.b + 1].t = "string"
       [] i.op = "SELF" -> CheckReg(p, i.a + 1)
       [] i.op = "CONCAT" -> i.b < i.c
       [] i.op = "TFORLOOP" -> i.c >= 1 /\ CheckReg(p, i.a + 2 + i.c)
       [] i.op \in {"FORLOOP", "FORPREP"} -> CheckReg(p, i.a + 3) /\ CheckDest(p, pc + 1 + i.b)
       [] i.op = "JMP" -> CheckDest(p, pc + 1 + i.b)
       [] i.op \in {"CALL", "TAILCALL"} ->
            /\ i.b # 0 => CheckReg(p, i.a + i.b - 1)
            /\ i.c - 1 = MultRet => open
            /\ i.c - 1 > 0 => CheckReg(p, i.a + i.c - 2)
       [] i.op = "RETURN" -> i.b - 1 > 0 => CheckReg(p, i.a + i.b - 2)
       [] i.op = "SETLIST" -> /\ i.b > 0 => CheckReg(p, i.a + i.b)
                              /\ i.c = 0 => pc + 1 < size - 1
       [] i.op = "CLOSURE" ->
            LET nup == p.p[i.b + 1].nups
            IN /\ i.b < Len(p.p)
               /\ pc + nup < size
               /\ \A j \in 1..nup : p.code[pc + j + 1].op \in {"GETUPVAL", "MOVE"}
       [] i.op = "VARARG" -> /\ "ISVARARG" \in p.vararg /\ "NEEDSARG" \notin p.vararg
                             /\ i.b - 1 = MultRet => open
                             /\ CheckReg(p, i.a + i.b - 2)
       [] OTHER -> TRUE

CheckInstruction(p, pc) ==
  LET i == At(p, pc)
  IN \/ i.op = "COUNT" /\ At(p, pc - 1).op = "SETLIST" /\ At(p, pc - 1).c = 0
     \/ /\ i.op \in OpCodes
        /\ CheckReg(p, i.a)
        /\ CheckOperands(p, i)
        /\ i.op \in TestOps => pc + 2 < Len(p.code) /\ At(p, pc + 1).op = "JMP"
        /\ CheckOp(p, i, pc)

CheckCode(p) == Precheck(p) /\ \A pc \in 0..(Len(p.code) - 1) : CheckInstruction(p, pc)
==============================================================================
