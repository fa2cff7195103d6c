---------------------------- MODULE LuaGCPending ----------------------------
(***************************************************************************)
(* One program over the collector, for a case no exhaustive search of all  *)
(* programs gets to: it takes a userdata that waits for its finalizer out  *)
(* of a table with weak keys, stores another one behind it, and collects.  *)
(***************************************************************************)
EXTENDS MCLuaGC

CONSTANTS t1, x1, x2

VARIABLE pc    \* the next statement of the program

(* Its statements; the collector runs between any two of them. *)
Statement(n) ==
  CASE n = 1 -> luaH_new(t1, 2)
    [] n = 2 -> luaS_newudata(x2, 1)
    [] n = 3 -> lua_setfenv(x2, t1)
    [] n = 4 -> Load(Registry, 2)
    [] n = 5 -> lua_setmetatable(Registry, Registry)   \* weak keys, __gc
    [] n = 6 -> lua_setmetatable(x2, Registry)
    [] n = 7 -> luaH_set(Registry, x2, Registry)
    [] n = 8 -> Load(Nil, 1)
    [] n = 9 -> Load(x2, 1)
    [] n = 10 -> luaS_newudata(x1, 3)
    [] n = 11 -> lua_setmetatable(x1, Registry)
    [] n = 12 -> Load(t1, 2)
    [] n = 13 -> luaH_set(t1, NumKey, x1)
    [] n = 14 -> Load(Nil, 3)
    [] n = 15 -> Load(Nil, 2)
    [] OTHER -> FALSE

ProgramSpec ==
  /\ Init /\ pc = 1
  /\ [][(Statement(pc) /\ pc' = pc + 1) \/ (Collector /\ UNCHANGED pc)]_<<vars, pc>>

(* lgc.c:127: luaC_separateudata moves "dead" userdata to tmudata: what the  *)
(* program can still reach by strong references is not moved.                *)
SeparateStepStrict == \A u \in tmudata' \ tmudata : u \notin StronglyReachable
SeparatesOnlyUnreachable == [][SeparateStepStrict]_vars
=============================================================================
