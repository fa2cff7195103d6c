------------------------------- MODULE LuaRef -------------------------------
(***************************************************************************)
(* luaL_ref and luaL_unref: a table that hands out integer references and  *)
(* chains those given back through their own slots.                        *)
(***************************************************************************)
EXTENDS Integers, Sequences, FiniteSets

CONSTANTS RefValues,  \* what callers keep
          MaxRefs     \* bound: slots of the table

VARIABLE refs  \* slots: the table's array; free: t[FREELIST_REF]; live: what callers hold

FREELIST_REF == 0
LUA_REFNIL == -1
NilValue == "nil"

RefStates == {[slots |-> <<>>, free |-> 0, live |-> {}]}

Free(r) == [value |-> NilValue, next |-> r]
Kept(v) == [value |-> v, next |-> 0]

(* luaL_ref: a slot of the free list, or a new one at the end of the table. *)
Ref(v) ==
  \/ /\ v = NilValue  \* LUA_REFNIL is returned and nothing is stored
     /\ UNCHANGED refs
  \/ /\ v # NilValue
     /\ LET ref == IF refs.free # 0 THEN refs.free ELSE Len(refs.slots) + 1
        IN /\ ref <= MaxRefs
           /\ refs' = [slots |-> IF refs.free # 0 THEN [refs.slots EXCEPT ![ref] = Kept(v)]
                                 ELSE Append(refs.slots, Kept(v)),
                       free |-> IF refs.free # 0 THEN refs.slots[ref].next ELSE 0,
                       live |-> refs.live \cup {[ref |-> ref, value |-> v]}]

(* luaL_unref: the slot is put in front of the list. *)
Chained_swapped(ref) == [refs.slots EXCEPT ![ref] = Free(ref)]  \* mutant
Chained(ref) == [refs.slots EXCEPT ![ref] = Free(refs.free)]
Unref(r) == refs' = [slots |-> Chained(r.ref), free |-> r.ref, live |-> refs.live \ {r}]

RefNext == \/ \E v \in RefValues \cup {NilValue} : Ref(v)
           \/ \E r \in refs.live : Unref(r)

RefSpec == refs \in RefStates /\ [][RefNext]_refs

------------------------------------------------------------------------------
(* The slots that are not in use, as a chain that starts at the free list. *)
Unused == DOMAIN refs.slots \ {r.ref : r \in refs.live}
FreeChain(n, order) ==
  /\ \A s \in Unused : \E k \in 1..n : order[k] = s
  /\ \A k, m \in 1..n : order[k] = order[m] => k = m
  /\ refs.free = IF n = 0 THEN 0 ELSE order[1]
  /\ \A k \in 1..n : refs.slots[order[k]].next = IF k = n THEN 0 ELSE order[k + 1]

(* References in use are different and keep their values, and every other *)
(* slot is on the free list, exactly once: none is handed out twice, none *)
(* is lost.                                                               *)
ReferencesKept ==
  /\ \A r \in refs.live : refs.slots[r.ref].value = r.value
  /\ \A r, q \in refs.live : r.ref = q.ref => r = q
  /\ \E n \in 0..Len(refs.slots) : \E order \in [1..n -> Unused] : FreeChain(n, order)
==============================================================================
