----------------------------- MODULE MCLuaTable -----------------------------
(* Small populations of keys for LuaTable: one that fills an array part, one *)
(* whose strings collide in every way in up to four nodes, and a mixed one.  *)
EXTENDS LuaTable, TLC

IntKeys == {1, 2, 3, 4}
HashedKeys == String \cup Object
MixedKeys == String \cup {2}
MCHashing ==
  [IntKeys -> {0, 1}] \cup [HashedKeys -> {0, 1, 3}] \cup [MixedKeys -> {0, 3}]
Symmetric == Permutations(String)
=============================================================================
