---------------------------- MODULE LuaServices ----------------------------
(***************************************************************************)
(* The services that the rest of the system calls and that share no state  *)
(* with one another: the string functions, sorting, table functions,       *)
(* string buffers, references, metatables, concatenation, the table of     *)
(* strings, and the life of a state.  A behaviour is one of them at work.  *)
(***************************************************************************)
EXTENDS LuaPatternMeaning, LuaSort, LuaList, LuaBuffer, LuaRef, LuaMeta, LuaConcat, LuaStringTable,
        LuaState

VARIABLE service

vars == <<service, str, srt, lst, buf, refs, meta, cat, strt, life>>

Services == {"strings", "sort", "list", "buffer", "refs", "meta", "concat", "interning", "state"}

(* The others stay as one of their initial states, or empty. *)
OneOf(states) == CHOOSE s \in states : TRUE
IdleStr == OneOf(StrStates(StringCalls[1]))
IdleSrt == OneOf(SortStates(Sorts))
IdleMeta == EmptyHeap({})
IdleCat == OneOf(CatStates)

Init ==
  /\ service \in Services
  /\ IF service = "strings" THEN \E j \in DOMAIN StringCalls : str \in StrStates(StringCalls[j])
     ELSE str = IdleStr
  /\ IF service = "sort" THEN srt \in SortStates(Sorts) ELSE srt = IdleSrt
  /\ IF service = "meta" THEN meta \in MetaStates ELSE meta = IdleMeta
  /\ IF service = "concat" THEN cat \in CatStates ELSE cat = IdleCat
  /\ lst \in ListStates
  /\ buf \in BufStates
  /\ refs \in RefStates
  /\ strt \in StrtStates
  /\ life \in LifeStates

Next ==
  /\ UNCHANGED service
  /\ \/ service = "strings" /\ StrNext /\ UNCHANGED <<srt, lst, buf, refs, meta, cat, strt, life>>
     \/ service = "sort" /\ SortNext /\ UNCHANGED <<str, lst, buf, refs, meta, cat, strt, life>>
     \/ service = "list" /\ ListNext /\ UNCHANGED <<str, srt, buf, refs, meta, cat, strt, life>>
     \/ service = "buffer" /\ BufNext /\ UNCHANGED <<str, srt, lst, refs, meta, cat, strt, life>>
     \/ service = "refs" /\ RefNext /\ UNCHANGED <<str, srt, lst, buf, meta, cat, strt, life>>
     \/ service = "meta" /\ MetaNext /\ UNCHANGED <<str, srt, lst, buf, refs, cat, strt, life>>
     \/ service = "concat" /\ CatNext /\ UNCHANGED <<str, srt, lst, buf, refs, meta, strt, life>>
     \/ service = "interning" /\ StrtNext /\ UNCHANGED <<str, srt, lst, buf, refs, meta, cat, life>>
     \/ service = "state" /\ LifeNext /\ UNCHANGED <<str, srt, lst, buf, refs, meta, cat, strt>>

Spec == Init /\ [][Next]_vars
==============================================================================
