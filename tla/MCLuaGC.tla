------------------------------ MODULE MCLuaGC ------------------------------
(***************************************************************************)
(* Instances of LuaGC for TLC.  Each configuration fills the pools of the  *)
(* object types whose interaction it examines and leaves the others empty. *)
(***************************************************************************)
EXTENDS LuaGC, TLC

CONSTANT Meta   \* the table used as a metatable with fields, if any

NoMode == [t \in Table |-> {}]
WeakValues == [t \in Table |-> IF t = Meta THEN {"v"} ELSE {}]
WeakKeys == [t \in Table |-> IF t = Meta THEN {"k"} ELSE {}]
MetaHasGC == Table \cap {Meta}

(* Objects of one pool are interchangeable, except those with a role. *)
Interchangeable ==
  Permutations(Table \ {Registry, Meta}) \cup Permutations(Udata)
    \cup Permutations(UpVal) \cup Permutations(LClosure)
    \cup Permutations(WhiteBits)
=============================================================================
