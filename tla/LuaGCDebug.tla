----------------------------- MODULE LuaGCDebug -----------------------------
(***************************************************************************)
(* The one mutator operation whose write barrier is misplaced:             *)
(* lua_setupvalue on a Lua closure (debug.setupvalue).                     *)
(***************************************************************************)
EXTENDS MCLuaGC

(* The value goes into the upvalue, which other closures may share, and the *)
(* barrier is put on the closure.                                           *)
lua_setupvalue(cl, u, v) ==
  /\ Mutates /\ cl \in LClosure /\ Holds(cl) /\ u \in upvals[cl]
  /\ v = Nil \/ Holds(v)
  /\ StoreUpval(u, v)
  /\ luaC_barrier(cl, v)
  /\ UNCHANGED <<alloc, objVars, uvthread, uvslot, running, basemt, collectorState>>

DebugNext ==
  \/ Next
  \/ \E cl \in LClosure, u \in UpVal, v \in Value : lua_setupvalue(cl, u, v)

DebugSpec == Init /\ [][DebugNext]_vars
=============================================================================
