------------------------------- MODULE LuaMeta -------------------------------
(***************************************************************************)
(* Metatables: how luaV_gettable, luaV_settable and luaV_equalval (lvm.c)  *)
(* look for metamethods, and the bits by which a table remembers that it   *)
(* has none (ltm.c), which every way of storing into it has to clear.      *)
(* A metamethod that is a function does nothing here but being called.     *)
(***************************************************************************)
EXTENDS Integers, Sequences, FiniteSets

CONSTANTS Tables,     \* the tables, each possibly a metatable, of itself too
          Methods,    \* function values
          Families,   \* the events of one instance: their names are keys
          MAXTAGLOOP

VARIABLE meta

Nil == "nil"
Plain == "value"  \* what an ordinary field holds
NoMeta == "none"
Field == "field"  \* an ordinary key

ASSUME MetaAssumption ==
  /\ IsFiniteSet(Tables) /\ Tables # {} /\ MAXTAGLOOP \in Nat
  /\ Tables \cap Methods = {} /\ {Nil, Plain, NoMeta} \cap (Tables \cup Methods) = {}
  /\ \A events \in Families : Field \notin events

(* fields: what the tables hold; flags: the events known to be absent. *)
EmptyTable(events) == [fields |-> [key \in events \cup {Field} |-> Nil], flags |-> {}, mt |-> NoMeta]
EmptyHeap(events) == [t \in Tables |-> EmptyTable(events)]
MetaStates == {EmptyHeap(events) : events \in Families}

Events(h) == DOMAIN h[CHOOSE t \in Tables : TRUE].fields \ {Field}
IsFunction(v) == v \in Methods

(* fasttm and luaT_gettm: the metamethod, or Nil, which is then cached. *)
fasttm(h, mt, event) ==
  IF mt = NoMeta \/ event \notin Events(h) THEN Nil
  ELSE IF event \in h[mt].flags THEN Nil ELSE h[mt].fields[event]
Cached(h, mt, event) ==
  IF mt # NoMeta /\ event \in Events(h) /\ h[mt].fields[event] = Nil
  THEN [h EXCEPT ![mt].flags = @ \cup {event}] ELSE h

(* luaH_set forgets what was cached, before the caller stores the value. *)
luaH_set(h, t) == [h EXCEPT ![t].flags = {}]

(* luaV_gettable, one turn of its loop in table t after another: r is where *)
(* it stands, h the heap it leaves.  That it still is to go on after         *)
(* MAXTAGLOOP turns is the error "loop in gettable".                         *)
SearchFrom(h, t) == [what |-> "next", v |-> Nil, t |-> t, h |-> h]
GetTurn(r, key) ==
  LET res == r.h[r.t].fields[key]
      mt == r.h[r.t].mt
      tm == fasttm(r.h, mt, "__index")
      h1 == Cached(r.h, mt, "__index")
  IN IF r.what # "next" THEN r
     ELSE IF res # Nil THEN [r EXCEPT !.what = "value", !.v = res]
     ELSE IF tm = Nil THEN [r EXCEPT !.what = "value", !.h = h1]
     ELSE IF IsFunction(tm) THEN [r EXCEPT !.what = "call", !.v = tm, !.h = h1]
     ELSE [r EXCEPT !.t = tm, !.h = h1]
luaV_gettable(h, t, key) ==
  LET r[loop \in 0..MAXTAGLOOP] == IF loop = 0 THEN SearchFrom(h, t) ELSE GetTurn(r[loop - 1], key)
  IN r[MAXTAGLOOP]

(* luaV_settable stores and clears the flags again: the table may be its own *)
(* metatable, and then the search has just cached its own key as absent.     *)
Stored_only(h, t, key, v) == [h EXCEPT ![t].fields[key] = v]  \* mutant
Stored(h, t, key, v) == [h EXCEPT ![t].fields[key] = v, ![t].flags = {}]
SetTurn(r, key, v) ==
  LET h0 == luaH_set(r.h, r.t)
      mt == r.h[r.t].mt
      tm == fasttm(h0, mt, "__newindex")
      h1 == Cached(h0, mt, "__newindex")
  IN IF r.what # "next" THEN r
     ELSE IF r.h[r.t].fields[key] # Nil THEN [r EXCEPT !.what = "stored", !.h = Stored(h0, r.t, key, v)]
     ELSE IF tm = Nil THEN [r EXCEPT !.what = "stored", !.h = Stored(h1, r.t, key, v)]
     ELSE IF IsFunction(tm) THEN [r EXCEPT !.what = "call", !.v = tm, !.h = h1]
     ELSE [r EXCEPT !.t = tm, !.h = h1]
luaV_settable(h, t, key, v) ==
  LET r[loop \in 0..MAXTAGLOOP] == IF loop = 0 THEN SearchFrom(h, t) ELSE SetTurn(r[loop - 1], key, v)
  IN r[MAXTAGLOOP]

(* get_compTM, for luaV_equalval of two different tables. *)
get_compTM(h, mt1, mt2) ==
  LET tm1 == fasttm(h, mt1, "__eq")
      h1 == Cached(h, mt1, "__eq")
      tm2 == fasttm(h1, mt2, "__eq")
      h2 == Cached(h1, mt2, "__eq")
  IN IF tm1 = Nil \/ mt1 = mt2 THEN [tm |-> tm1, h |-> h1]
     ELSE [tm |-> IF tm1 = tm2 THEN tm1 ELSE Nil, h |-> h2]

------------------------------------------------------------------------------
KeysOf == Events(meta) \cup {Field}
ValuesFor(key) == IF key = Field THEN {Plain, Nil}
                  ELSE IF key = "__eq" THEN Methods \cup {Nil} ELSE Methods \cup Tables \cup {Nil}

(* lua_rawset, and rawset of the program. *)
RawSet(t, key, v) == meta' = [luaH_set(meta, t) EXCEPT ![t].fields[key] = v]

(* t[key] = v; the value may be one that __newindex looks for. *)
SetTable(t, key, v) == meta' = luaV_settable(meta, t, key, v).h

GetTable(t, key) == meta' = luaV_gettable(meta, t, key).h
Equal(t, s) == t # s /\ meta' = get_compTM(meta, meta[t].mt, meta[s].mt).h

(* lua_setmetatable. *)
SetMetatable(t, mt) == meta' = [meta EXCEPT ![t].mt = mt]

(* The collector clears the entries of a weak table, without its flags. *)
ClearEntry(t, key) == meta[t].fields[key] \in Tables /\ meta' = [meta EXCEPT ![t].fields[key] = Nil]

MetaNext ==
  \/ \E t \in Tables, key \in KeysOf : \/ \E v \in ValuesFor(key) : RawSet(t, key, v) \/ SetTable(t, key, v)
                                       \/ GetTable(t, key) \/ ClearEntry(t, key)
  \/ \E t, s \in Tables : Equal(t, s)
  \/ \E t \in Tables, mt \in Tables \cup {NoMeta} : SetMetatable(t, mt)

MetaSpec == meta \in MetaStates /\ [][MetaNext]_meta

------------------------------------------------------------------------------
(* What an event is without any cache. *)
Handler(t, event) ==
  IF meta[t].mt = NoMeta \/ event \notin Events(meta) THEN Nil ELSE meta[meta[t].mt].fields[event]

(* A search ends where the key is or no table is to go on with; the tables it *)
(* goes through are those that follow from one another.                       *)
Stops(t, key, event) == meta[t].fields[key] # Nil \/ Handler(t, event) \notin Tables
Closed(S, key, event) == \A s \in S : Stops(s, key, event) \/ Handler(s, event) \in S
Searched(t, key, event) ==
  {e \in Tables : \A S \in SUBSET Tables : t \in S /\ Closed(S, key, event) => e \in S}
Refuses(t, key, event) ==
  \/ \A e \in Searched(t, key, event) : ~Stops(e, key, event)
  \/ Cardinality(Searched(t, key, event)) > MAXTAGLOOP

(* A bit says that a metamethod is absent only if it is, whatever stored    *)
(* into the metatable and however the search went that set the bit.         *)
CacheSound == \A t \in Tables : \A event \in meta[t].flags : meta[t].fields[event] = Nil

(* Lookup ends at the first table of the __index chain that has the key or   *)
(* no table to go on with; it is refused if the chain is a cycle or longer    *)
(* than MAXTAGLOOP, and only then.                                            *)
LookupAgrees ==
  \A t \in Tables, key \in KeysOf :
    LET r == luaV_gettable(meta, t, key)
    IN IF Refuses(t, key, "__index") THEN r.what = "next"
       ELSE \A e \in Searched(t, key, "__index") : Stops(e, key, "__index") =>
              IF meta[e].fields[key] # Nil THEN r.what = "value" /\ r.v = meta[e].fields[key]
              ELSE r.what = (IF Handler(e, "__index") = Nil THEN "value" ELSE "call") /\ r.v = Handler(e, "__index")

(* A store goes along the __newindex chain in the same way and changes one   *)
(* field of one table, or none.                                              *)
StoreAgrees ==
  \A t \in Tables, key \in KeysOf :
    LET r == luaV_settable(meta, t, key, Plain)
    IN IF Refuses(t, key, "__newindex") THEN r.what = "next" /\ \A s \in Tables : r.h[s].fields = meta[s].fields
       ELSE \A e \in Searched(t, key, "__newindex") : Stops(e, key, "__newindex") =>
              LET called == meta[e].fields[key] = Nil /\ Handler(e, "__newindex") # Nil
              IN /\ r.what = IF called THEN "call" ELSE "stored"
                 /\ \A s \in Tables : r.h[s].fields =
                      IF s = e /\ ~called THEN [meta[s].fields EXCEPT ![key] = Plain] ELSE meta[s].fields

(* Two tables are compared by a metamethod that both have. *)
EqualAgrees ==
  \A t, s \in Tables :
    t # s => get_compTM(meta, meta[t].mt, meta[s].mt).tm =
               IF Handler(t, "__eq") = Handler(s, "__eq") THEN Handler(t, "__eq") ELSE Nil

(* With its cache of absent events the lookup of metamethods agrees with one *)
(* that has none, for reading, storing and comparing.                        *)
MetamethodsAgree == CacheSound /\ LookupAgrees /\ StoreAgrees /\ EqualAgrees
==============================================================================
