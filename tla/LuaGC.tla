------------------------------- MODULE LuaGC -------------------------------
(***************************************************************************)
(* The incremental tri-colour collector of the private Lua interpreter     *)
(* (lgc.c) together with every mutator operation that must cooperate with  *)
(* it: allocation, stores and their write barriers, closures and their     *)
(* upvalues, coroutines, weak tables, finalizers.                          *)
(*                                                                         *)
(* Objects are drawn from one finite pool per collectable type.  A pool    *)
(* member outside "alloc" is memory that has not been allocated or has     *)
(* been freed.  The intrusive lists of the C code (gray, grayagain, weak,  *)
(* tmudata, the unswept rest of rootgc and of the string table) are sets:  *)
(* their order decides only which step comes next, and every order is      *)
(* explored.                                                               *)
(***************************************************************************)
EXTENDS Naturals, FiniteSets

CONSTANTS
  Table, LClosure, CClosure, Udata, Thread, UpVal, Str,
  MainThread,   \* g->mainthread
  Registry,     \* registry and table of globals, one object here
  NSlots,       \* bound: registers of each thread
  Nil,          \* a value that is not collectable
  NumKey,       \* a key of the hash part that is not collectable
  ModeOf,       \* ModeOf[m]: the letters of the __mode field of metatable m
  HasGC,        \* the metatables with a __gc field
  Metatables,   \* bound: the tables lua_setmetatable installs on objects
  BaseMetatables, \* bound: and on the basic types
  Environments, \* bound: the tables lua_setfenv installs
  Keys,         \* bound: the keys stored into tables
  MaxNode,      \* bound: entries of each table
  FullCollections, \* bound: whether collectgarbage("collect") is called
  White0, White1, \* the two white bits
  GCSWEEPMAX    \* objects swept by one step

Obj == Table \cup LClosure \cup CClosure \cup Udata \cup Thread \cup UpVal \cup Str
Value == (Obj \ UpVal) \cup {Nil}          \* what a TValue can hold
Key == (Obj \ UpVal) \cup {NumKey}
Slot == 1 .. NSlots
WhiteBits == {White0, White1}
Color == WhiteBits \cup {"gray", "black", "none"}   \* "none": not allocated
GCState == {"pause", "propagate", "sweepstring", "sweep", "finalize"}

ASSUME RootsAssumption == MainThread \in Thread /\ Registry \in Table
ASSUME NilAssumption == Nil \notin Obj /\ NumKey \notin Obj
ASSUME WhiteAssumption == White0 # White1 /\ WhiteBits \cap {"gray", "black", "none"} = {}
ASSUME ModeAssumption == ModeOf \in [Table -> SUBSET {"k", "v"}] /\ HasGC \subseteq Table
ASSUME InputAssumption ==
  /\ Metatables \subseteq Table /\ BaseMetatables \subseteq Table
  /\ Environments \subseteq Table /\ Keys \subseteq Key
  /\ FullCollections \in BOOLEAN
ASSUME BoundAssumption ==
  NSlots \in Nat \ {0} /\ MaxNode \in Nat /\ GCSWEEPMAX \in Nat \ {0}
ASSUME DisjointTable ==
  Table \cap (LClosure \cup CClosure \cup Udata \cup Thread \cup UpVal \cup Str) = {}
ASSUME DisjointLClosure ==
  LClosure \cap (CClosure \cup Udata \cup Thread \cup UpVal \cup Str) = {}
ASSUME DisjointCClosure == CClosure \cap (Udata \cup Thread \cup UpVal \cup Str) = {}
ASSUME DisjointUdata == Udata \cap (Thread \cup UpVal \cup Str) = {}
ASSUME DisjointThread == Thread \cap (UpVal \cup Str) = {}
ASSUME DisjointUpVal == UpVal \cap Str = {}

VARIABLES
  alloc,         \* the allocated objects
  color,         \* the colour bits of gch.marked
  currentwhite,  \* g->currentwhite
  metatable,     \* h->metatable, u->metatable
  env,           \* closure and userdata environments, gt(L) of a thread
  node,          \* node[t][k]: value of key k in table t, Nil when absent
  cupval,        \* the upvalue of a C closure
  upvals,        \* cl->upvals of a Lua closure
  uvthread,      \* thread whose stack an open upvalue points into, Nil if closed
  uvslot,        \* and the slot it points to
  uvvalue,       \* uv->u.value, the value of a closed upvalue
  stack,         \* stack[th][i]
  running,       \* the thread that executes (L)
  basemt,        \* g->mt: metatable of a basic type
  gcstate,       \* g->gcstate
  gray,          \* g->gray
  grayagain,     \* g->grayagain
  weak,          \* g->weak
  tmudata,       \* g->tmudata: userdata waiting for their finalizer
  finalized,     \* userdata with FINALIZEDBIT set
  called,        \* history: userdata whose __gc has been called
  sweepstr,      \* strings in the buckets from g->sweepstrgc on
  sweepgc,       \* objects of rootgc from *g->sweepgc on
  full           \* luaC_fullgc: "no", or its "sweep" (first) or "mark" (second) loop

objVars == <<metatable, env, node, cupval, upvals>>
upvalVars == <<uvthread, uvslot, uvvalue>>
listVars == <<gray, grayagain, weak>>
finVars == <<tmudata, finalized, called>>
sweepVars == <<sweepstr, sweepgc>>
vars == <<alloc, color, currentwhite, objVars, upvalVars, stack, running, basemt,
          gcstate, listVars, finVars, sweepVars, full>>

----------------------------------------------------------------------------
(* Colours (lgc.h:65-77). *)

otherwhite == IF currentwhite = White0 THEN White1 ELSE White0
iswhite(o) == color[o] \in WhiteBits
isblack(o) == color[o] = "black"
isgray(o) == color[o] = "gray"
isdead_never(o) == FALSE                             \* mutant: never dead
isdead(o) == color[o] = otherwhite

(* An object the mutator may legitimately hold. *)
Live(o) == o \in alloc /\ ~isdead(o)

----------------------------------------------------------------------------
(* The object graph. *)

IsOpen(u) == uvthread[u] # Nil
OpenUpvals == {u \in alloc \cap UpVal : IsOpen(u)}

(* uv->v: the stack slot while the upvalue is open, its own value after. *)
UpvalValue(u) == IF IsOpen(u) THEN stack[uvthread[u]][uvslot[u]] ELSE uvvalue[u]

Entries(t) == {k \in Key : node[t][k] # Nil}
Mode(t) == IF metatable[t] = Nil THEN {} ELSE ModeOf[metatable[t]]
HasFinalizer(u) == metatable[u] \in HasGC

TableRefs(t, keys, values) ==
  {metatable[t]} \cup (IF keys THEN Entries(t) ELSE {})
                 \cup (IF values THEN {node[t][k] : k \in Entries(t)} ELSE {})

NonTableRefs(o) ==
  CASE o \in LClosure -> {env[o]} \cup upvals[o]
    [] o \in CClosure -> {env[o], cupval[o]}
    [] o \in Udata -> {metatable[o], env[o]}
    [] o \in Thread -> {env[o]} \cup {stack[o][i] : i \in Slot}
    [] o \in UpVal -> {UpvalValue(o)}
    [] OTHER -> {}

(* Everything the mutator can read through o. *)
Refs(o) == Obj \cap (IF o \in Table THEN TableRefs(o, TRUE, TRUE) ELSE NonTableRefs(o))

(* What traversing o marks: a weak table withholds its keys or its values. *)
StrongRefs(o) ==
  Obj \cap (IF o \in Table
            THEN TableRefs(o, "k" \notin Mode(o), "v" \notin Mode(o))
            ELSE NonTableRefs(o))

Roots == Obj \cap {MainThread, Registry, running, basemt}

----------------------------------------------------------------------------
(* Marking. *)

(* The types reallymarkobject queues in g->gray. *)
Queued == Table \cup LClosure \cup CClosure \cup Thread

(* reallymarkobject: the white objects of S, and those it descends to at    *)
(* once, through an upvalue to its value and through a userdata to its      *)
(* metatable and environment.                                               *)
Reached(S) ==
  LET direct == {o \in S : iswhite(o)}
      values == {o \in UNION {Refs(u) : u \in direct \cap UpVal} : iswhite(o)}
      udata == Udata \cap (direct \cup values)
  IN direct \cup values \cup {o \in UNION {Refs(u) : u \in udata} : iswhite(o)}

MarkColor(o) ==
  IF o \in Udata \/ (o \in UpVal /\ ~IsOpen(o)) THEN "black" ELSE "gray"

(* The colours after marking S, starting from the colours c. *)
Marked(S, c) == [o \in Obj |-> IF o \in Reached(S) THEN MarkColor(o) ELSE c[o]]

(* What propagateall reaches when the objects of "done" are marked, those   *)
(* of "again" wait in the gray list and "extra" is marked first: the least  *)
(* set that contains them and what its unfinished members refer to.         *)
MarkAll_once(done, again, extra) ==                  \* mutant: forgets "again"
  LET closed == {S \in {done \cup X : X \in SUBSET (alloc \ done)} :
                   /\ extra \subseteq S
                   /\ \A o \in S \ done : StrongRefs(o) \subseteq S}
  IN {o \in alloc : \A S \in closed : o \in S}
MarkAll(done, again, extra) ==
  LET closed == {S \in {done \cup X : X \in SUBSET (alloc \ done)} :
                   /\ extra \subseteq S
                   /\ \A o \in again \cup (S \ done) : StrongRefs(o) \subseteq S}
  IN {o \in alloc : \A S \in closed : o \in S}

----------------------------------------------------------------------------
(* Write barriers (lgc.h:86-97, lgc.c:661-682). *)

NeedsBarrier_gray(o, v) == v \in Obj /\ isgray(o) /\ iswhite(v)   \* mutant: wrong colour
NeedsBarrier(o, v) == v \in Obj /\ isblack(o) /\ iswhite(v)

(* Forward: mark the value while propagating, else give up on the object.   *)
luaC_barrier(o, v) ==
  \/ ~NeedsBarrier(o, v) /\ UNCHANGED <<color, listVars>>
  \/ /\ NeedsBarrier(o, v) /\ gcstate = "propagate"
     /\ color' = Marked({v}, color)
     /\ gray' = gray \cup (Reached({v}) \cap Queued)
     /\ UNCHANGED <<grayagain, weak>>
  \/ /\ NeedsBarrier(o, v) /\ gcstate # "propagate"
     /\ color' = [color EXCEPT ![o] = currentwhite]
     /\ UNCHANGED listVars

(* Back: return a table to gray.  markroot empties grayagain before anybody *)
(* reads it, so an insertion outside the propagate phase is not recorded.   *)
luaC_barriert_unlinked(t, vs) ==                     \* mutant: not put on grayagain
  /\ color' = IF \E v \in vs : NeedsBarrier(t, v)
              THEN [color EXCEPT ![t] = "gray"] ELSE color
  /\ UNCHANGED listVars
luaC_barriert(t, vs) ==
  \/ (\A v \in vs : ~NeedsBarrier(t, v)) /\ UNCHANGED <<color, listVars>>
  \/ /\ \E v \in vs : NeedsBarrier(t, v)
     /\ color' = [color EXCEPT ![t] = "gray"]
     /\ grayagain' = IF gcstate = "propagate" THEN grayagain \cup {t} ELSE grayagain
     /\ UNCHANGED <<gray, weak>>

----------------------------------------------------------------------------
(* The mutator.  It runs on the registers of the running thread; a result   *)
(* is assigned to any register.                                             *)

L(i) == stack[running][i]
Holds(o) == \E i \in Slot : L(i) = o
Assign(j, v) == stack' = [stack EXCEPT ![running][j] = v]
Mutates == full = "no"

collectorState == <<currentwhite, gcstate, finVars, sweepVars, full>>

(* Environments a new object can inherit: getcurrenv, cl->env, gt(L). *)
CurrEnvs ==
  {env[running]} \cup {env[f] : f \in {c \in LClosure \cup CClosure : Holds(c)}}

(* luaC_link: a new object is current white. *)
Link(o) == alloc' = alloc \cup {o} /\ color' = [color EXCEPT ![o] = currentwhite]

luaH_new(t, j) ==
  /\ Mutates /\ t \in Table \ alloc
  /\ Link(t) /\ Assign(j, t)
  /\ UNCHANGED <<objVars, upvalVars, running, basemt, listVars, collectorState>>

luaS_newudata(u, j) ==
  /\ Mutates /\ u \in Udata \ alloc
  /\ Link(u) /\ Assign(j, u)
  /\ \E e \in CurrEnvs : env' = [env EXCEPT ![u] = e]
  /\ UNCHANGED <<metatable, node, cupval, upvals, upvalVars, running, basemt,
                 listVars, collectorState>>

luaE_newthread(th, j) ==
  /\ Mutates /\ th \in Thread \ alloc
  /\ Link(th) /\ Assign(j, th)
  /\ env' = [env EXCEPT ![th] = env[running]]
  /\ UNCHANGED <<metatable, node, cupval, upvals, upvalVars, running, basemt,
                 listVars, collectorState>>

lua_pushcclosure(c, i, j) ==
  /\ Mutates /\ c \in CClosure \ alloc
  /\ Link(c) /\ Assign(j, c)
  /\ cupval' = [cupval EXCEPT ![c] = L(i)]
  /\ \E e \in CurrEnvs : env' = [env EXCEPT ![c] = e]
  /\ UNCHANGED <<metatable, node, upvals, upvalVars, running, basemt,
                 listVars, collectorState>>

(* The open upvalue that OP_CLOSURE finds for a register. *)
luaF_findupval_live(i) ==                            \* mutant: skips dead upvalues
  {u \in OpenUpvals : uvthread[u] = running /\ uvslot[u] = i /\ ~isdead(u)}
luaF_findupval(i) == {u \in OpenUpvals : uvthread[u] = running /\ uvslot[u] = i}

(* The closure f over an upvalue found, revived when it is dead ... *)
ShareUpval(f, u) ==
  /\ alloc' = alloc \cup {f}
  /\ color' = [color EXCEPT ![f] = currentwhite, ![u] = IF isdead(u) THEN currentwhite ELSE @]
  /\ upvals' = [upvals EXCEPT ![f] = {u}]
  /\ UNCHANGED upvalVars

(* ... or over a new one for register i. *)
OpenUpval(f, u, i) ==
  /\ alloc' = alloc \cup {f, u}
  /\ color' = [color EXCEPT ![f] = currentwhite, ![u] = currentwhite]
  /\ upvals' = [upvals EXCEPT ![f] = {u}]
  /\ uvthread' = [uvthread EXCEPT ![u] = running]
  /\ uvslot' = [uvslot EXCEPT ![u] = i]
  /\ UNCHANGED uvvalue

(* OP_CLOSURE over register i. *)
OP_CLOSURE(f, i, j) ==
  /\ Mutates /\ f \in LClosure \ alloc
  /\ \E e \in CurrEnvs : env' = [env EXCEPT ![f] = e]
  /\ Assign(j, f)
  /\ \/ \E u \in luaF_findupval(i) : ShareUpval(f, u)
     \/ luaF_findupval(i) = {} /\ \E u \in UpVal \ alloc : OpenUpval(f, u, i)
  /\ UNCHANGED <<metatable, node, cupval, running, basemt, listVars, collectorState>>

(* OP_CLOSURE whose upvalues come from the enclosing closure cl. *)
OP_CLOSURE_GETUPVAL(f, cl, j) ==
  /\ Mutates /\ f \in LClosure \ alloc
  /\ cl \in LClosure /\ Holds(cl)
  /\ Link(f) /\ Assign(j, f)
  /\ env' = [env EXCEPT ![f] = env[cl]]
  /\ upvals' = [upvals EXCEPT ![f] = upvals[cl]]
  /\ UNCHANGED <<metatable, node, cupval, upvalVars, running, basemt,
                 listVars, collectorState>>

(* luaS_newlstr: an interned string may be found dead and is then revived.  *)
luaS_newlstr(s, j) ==
  /\ Mutates
  /\ alloc' = alloc \cup {s}
  /\ color' = [color EXCEPT ![s] = IF s \notin alloc \/ isdead(s) THEN currentwhite ELSE @]
  /\ Assign(j, s)
  /\ UNCHANGED <<objVars, upvalVars, running, basemt, listVars, collectorState>>

(* What the mutator can read: through an object it holds, or from a root. *)
Readable ==
  LET held == {MainThread, Registry, running} \cup {L(i) : i \in Slot}
      objs == UNION {Refs(o) : o \in (Obj \cap held) \ Thread}
  IN ({Registry, running, env[running], basemt, Nil} \cup (objs \ UpVal)
       \cup {UpvalValue(u) : u \in objs \cap UpVal} \cup {L(i) : i \in Slot}) \cap Value

(* OP_MOVE, OP_GETTABLE, OP_GETUPVAL, lua_getmetatable, lua_getfenv ... *)
Load(v, j) ==
  /\ Mutates /\ v \in Readable /\ Assign(j, v)
  /\ UNCHANGED <<alloc, color, objVars, upvalVars, running, basemt, listVars,
                 collectorState>>

(* luaH_set followed by the store and the barrier of the store (luaV_settable, *)
(* lua_rawset, OP_SETLIST); newkey adds its own barrier on the key.         *)
luaH_set(t, k, v) ==
  LET isnew == node[t][k] = Nil IN
  /\ Mutates
  /\ t \in Table /\ (Holds(t) \/ t = Registry)
  /\ k = NumKey \/ Holds(k)
  /\ v = Nil \/ Holds(v)
  /\ isnew => v # Nil /\ Cardinality(Entries(t)) < MaxNode
  /\ node' = [node EXCEPT ![t][k] = v]
  /\ luaC_barriert(t, IF isnew THEN {k, v} ELSE {v})
  /\ UNCHANGED <<alloc, metatable, env, cupval, upvals, upvalVars, stack, running,
                 basemt, collectorState>>

lua_setmetatable(o, m) ==
  /\ Mutates
  /\ Holds(o) \/ o = Registry
  /\ m \in Metatables \cup {Nil} /\ (m = Nil \/ Holds(m))
  /\ metatable' = [metatable EXCEPT ![o] = m]
  /\ \/ o \in Table /\ luaC_barriert(o, {m})
     \/ o \in Udata /\ luaC_barrier(o, m)
  /\ UNCHANGED <<alloc, env, node, cupval, upvals, upvalVars, stack, running,
                 basemt, collectorState>>

(* lua_setmetatable on a basic type: no barrier, markmt runs in atomic. *)
SetBaseMetatable(m) ==
  /\ Mutates /\ m \in BaseMetatables \cup {Nil} /\ (m = Nil \/ Holds(m))
  /\ basemt' = m
  /\ UNCHANGED <<alloc, color, objVars, upvalVars, stack, running, listVars,
                 collectorState>>

lua_setfenv(o, e) ==
  /\ Mutates
  /\ o \in LClosure \cup CClosure \cup Udata \cup Thread
  /\ Holds(o) \/ o = running
  /\ e \in Environments /\ Holds(e)
  /\ env' = [env EXCEPT ![o] = e]
  /\ luaC_barrier(o, e)
  /\ UNCHANGED <<alloc, metatable, node, cupval, upvals, upvalVars, stack, running,
                 basemt, collectorState>>

(* lua_replace on an upvalue index: store into the running C closure. *)
SetCUpvalue(c, v) ==
  /\ Mutates /\ c \in CClosure /\ Holds(c) /\ Holds(v)
  /\ cupval' = [cupval EXCEPT ![c] = v]
  /\ luaC_barrier(c, v)
  /\ UNCHANGED <<alloc, metatable, env, node, upvals, upvalVars, stack, running,
                 basemt, collectorState>>

(* Assignment through an upvalue, without the barrier. *)
StoreUpval(u, v) ==
  \/ /\ IsOpen(u)
     /\ stack' = [stack EXCEPT ![uvthread[u]][uvslot[u]] = v]
     /\ UNCHANGED uvvalue
  \/ /\ ~IsOpen(u)
     /\ uvvalue' = [uvvalue EXCEPT ![u] = v]
     /\ UNCHANGED stack

OP_SETUPVAL(cl, u, v) ==
  /\ Mutates /\ cl \in LClosure /\ Holds(cl) /\ u \in upvals[cl]
  /\ v = Nil \/ Holds(v)
  /\ StoreUpval(u, v)
  /\ luaC_barrier(u, v)
  /\ UNCHANGED <<alloc, objVars, uvthread, uvslot, running, basemt, collectorState>>

(* The fields of freed objects are reset, so that memory holds no history. *)
Reset(f, freed, default) == [o \in DOMAIN f |-> IF o \in freed THEN default ELSE f[o]]

(* luaF_close: upvalues at or above the level leave the stack.  A dead one  *)
(* is freed; luaC_linkupval blackens a gray one while propagating (with a   *)
(* barrier on its value) and whitens it while sweeping.                     *)
luaF_close(level) ==
  LET closing == {u \in OpenUpvals : uvthread[u] = running /\ uvslot[u] >= level}
      dead == {u \in closing : isdead(u)}
      regray == {u \in closing : isgray(u)}
      values == Obj \cap {UpvalValue(u) : u \in regray}
  IN
  /\ Mutates /\ closing # {}
  /\ alloc' = alloc \ dead
  /\ uvthread' = [u \in UpVal |-> IF u \in closing THEN Nil ELSE uvthread[u]]
  /\ uvslot' = [u \in UpVal |-> IF u \in closing THEN 1 ELSE uvslot[u]]
  /\ uvvalue' = [u \in UpVal |-> IF u \in closing \ dead THEN UpvalValue(u) ELSE uvvalue[u]]
  /\ \/ /\ gcstate = "propagate"
        /\ color' = [o \in Obj |-> IF o \in regray THEN "black" ELSE Marked(values, color)[o]]
        /\ gray' = gray \cup (Reached(values) \cap Queued)
     \/ /\ gcstate # "propagate"
        /\ color' = Reset([o \in Obj |-> IF o \in regray THEN currentwhite ELSE color[o]],
                          dead, "none")
        /\ UNCHANGED gray
  /\ UNCHANGED <<objVars, stack, running, basemt, grayagain, weak, collectorState>>

(* lua_resume with an argument moved from register i of the main thread to  *)
(* register j of the coroutine; nesting is bounded to one coroutine.        *)
lua_resume(th, i, j) ==
  /\ Mutates /\ running = MainThread
  /\ th \in Thread \ {MainThread} /\ Holds(th)
  /\ running' = th
  /\ stack' = [stack EXCEPT ![th][j] = L(i)]
  /\ UNCHANGED <<alloc, color, objVars, upvalVars, basemt, listVars, collectorState>>

(* lua_yield, or the end of the coroutine: a result moves to the resumer. *)
lua_yield(i, j) ==
  /\ Mutates /\ running # MainThread
  /\ running' = MainThread
  /\ stack' = [stack EXCEPT ![MainThread][j] = L(i)]
  /\ UNCHANGED <<alloc, color, objVars, upvalVars, basemt, listVars, collectorState>>

----------------------------------------------------------------------------
(* The collector: one action per singlestep, and luaC_fullgc. *)

mutatorState == <<currentwhite, running, basemt>>

(* The effect of markroot. *)
MarkRoot ==
  LET roots == Obj \cap {MainThread, Registry, env[MainThread], basemt} IN
  /\ color' = Marked(roots, color)
  /\ gray' = Reached(roots) \cap Queued
  /\ grayagain' = {} /\ weak' = {}
  /\ gcstate' = "propagate"

markroot ==
  /\ gcstate = "pause" /\ full = "no"
  /\ MarkRoot
  /\ UNCHANGED <<alloc, objVars, upvalVars, stack, mutatorState, finVars, sweepVars, full>>

(* Traverse one gray object.  A thread and a weak table stay gray, on the   *)
(* lists atomic looks at again.                                             *)
propagatemark(o) ==
  LET refs == StrongRefs(o)
      isweak == o \in Table /\ Mode(o) # {}
  IN
  /\ gcstate = "propagate" /\ o \in gray
  /\ color' = [Marked(refs, color) EXCEPT
                 ![o] = IF o \in Thread \/ isweak THEN "gray" ELSE "black"]
  /\ gray' = (gray \ {o}) \cup (Reached(refs) \cap Queued)
  /\ grayagain' = grayagain \cup ({o} \cap Thread)
  /\ weak' = IF isweak THEN weak \cup {o} ELSE weak
  /\ UNCHANGED <<alloc, objVars, upvalVars, stack, mutatorState, gcstate, finVars,
                 sweepVars, full>>

(* iscleared: strings are never cleared, a finalized userdata is kept as a  *)
(* key but not as a value.                                                  *)
iscleared(x, iskey, marked, fin) ==
  x \in Obj \ Str /\ (x \notin marked \/ (x \in Udata /\ ~iskey /\ x \in fin))

(* The tables without the entries cleared from the weak ones. *)
cleartable(weaklist, marked, fin) ==
  [t \in Table |-> [k \in Key |->
     IF t \in weaklist /\ (\/ iscleared(k, TRUE, marked, fin)
                          \/ iscleared(node[t][k], FALSE, marked, fin))
     THEN Nil ELSE node[t][k]]]

(* Userdata found unmarked for the first time. *)
luaC_separateudata_again(marked) == (alloc \cap Udata) \ (tmudata \cup marked) \* mutant: ignores the bit
luaC_separateudata_reached(marked) == (alloc \cap Udata) \ (tmudata \cup finalized) \* mutant: ignores the mark
luaC_separateudata(marked) == (alloc \cap Udata) \ (tmudata \cup finalized \cup marked)

(* The end of the mark phase, in one step: remark upvalues and weak tables, *)
(* the running thread and the lists, separate and revive userdata with      *)
(* finalizers, clear weak tables, flip the white, start the sweep.          *)
atomic ==
  LET done == {o \in alloc : ~iswhite(o)}
      remark == {UpvalValue(u) : u \in {v \in OpenUpvals : isgray(v)}} \cup {running, basemt}
      first == MarkAll(done, weak \cup grayagain, Obj \cap remark)
      separated == luaC_separateudata(first)
      tm == tmudata \cup {u \in separated : HasFinalizer(u)}
      marked == MarkAll(first \cup tm, tm, {})
      weaklist == {t \in Table \cap (weak \cup grayagain \cup (marked \ done)) : Mode(t) # {}}
      keys == UNION {Entries(t) : t \in weaklist}
      values == UNION {{node[t][k] : k \in {e \in Entries(t) :
                          ~iscleared(e, TRUE, marked, finalized')}} : t \in weaklist}
      black == marked \ (Str \cup Thread \cup OpenUpvals \cup weaklist)
  IN
  /\ gcstate = "propagate" /\ gray = {}
  /\ gcstate' = "sweepstring"
  /\ finalized' = finalized \cup separated
  /\ tmudata' = tm
  /\ node' = cleartable(weaklist, marked, finalized')
  /\ color' = [o \in Obj |-> CASE o \in black -> "black"
                               [] o \in marked \ black -> "gray"
                               [] o \in Str \cap (keys \cup values) -> "gray"
                               [] OTHER -> color[o]]
  /\ currentwhite' = otherwhite
  /\ sweepstr' = alloc \cap Str
  /\ sweepgc' = alloc \ (Str \cup OpenUpvals \cup tm)
  /\ gray' = {} /\ grayagain' = {} /\ weak' = {}
  /\ UNCHANGED <<alloc, metatable, env, cupval, upvals, upvalVars, stack, running,
                 basemt, called, full>>

(* Survivors of the sweep become current white. *)
Swept_kept(S, freed) == Reset(color, freed, "none")  \* mutant: keeps the old colour
Swept(S, freed) ==
  Reset([o \in Obj |-> IF o \in S THEN currentwhite ELSE color[o]], freed, "none")

(* Sweep one bucket of the string table. *)
SweepString(bucket) ==
  /\ gcstate = "sweepstring"
  /\ bucket \subseteq sweepstr /\ (bucket = {} => sweepstr = {})
  /\ alloc' = alloc \ {s \in bucket : isdead(s)}
  /\ color' = Swept(bucket, {s \in bucket : isdead(s)})
  /\ sweepstr' = sweepstr \ bucket
  /\ gcstate' = IF sweepstr' = {} THEN "sweep" ELSE gcstate
  /\ UNCHANGED <<objVars, upvalVars, stack, mutatorState, listVars, finVars, sweepgc, full>>

(* sweeplist over a chunk of rootgc.  A thread's open upvalues are swept    *)
(* with it; luaE_freethread closes those that survive a dead thread.        *)
sweeplist(chunk) ==
  LET upvs == {u \in OpenUpvals : uvthread[u] \in chunk}
      freed == {o \in chunk \cup upvs : isdead(o)}
      closing == {u \in upvs : uvthread[u] \in freed}
  IN
  /\ gcstate = "sweep"
  /\ chunk \subseteq sweepgc
  /\ Cardinality(chunk) = GCSWEEPMAX \/ (chunk = sweepgc /\ Cardinality(chunk) < GCSWEEPMAX)
  /\ alloc' = alloc \ freed
  /\ color' = Swept(chunk \cup upvs, freed)
  /\ sweepgc' = sweepgc \ chunk
  /\ gcstate' = IF sweepgc' = {} THEN "finalize" ELSE gcstate
  /\ metatable' = Reset(metatable, freed, Nil)
  /\ env' = Reset(env, freed, Nil)
  /\ node' = Reset(node, freed, [k \in Key |-> Nil])
  /\ cupval' = Reset(cupval, freed, Nil)
  /\ upvals' = Reset(upvals, freed, {})
  /\ stack' = Reset(stack, freed, [i \in Slot |-> Nil])
  /\ uvthread' = Reset(uvthread, closing \cup freed, Nil)
  /\ uvslot' = Reset(uvslot, closing \cup freed, 1)
  /\ uvvalue' = [u \in UpVal |-> IF u \in freed THEN Nil
                                 ELSE IF u \in closing THEN UpvalValue(u) ELSE uvvalue[u]]
  /\ finalized' = finalized \ freed
  /\ called' = called \ freed
  /\ UNCHANGED <<mutatorState, listVars, tmudata, sweepstr, full>>

(* GCTM: take a userdata off tmudata and call its finalizer, which receives *)
(* it in a register; its body is the mutator's next steps.                  *)
GCTM(u, j) ==
  /\ gcstate = "finalize" /\ full # "sweep" /\ u \in tmudata
  /\ full' = "no"
  /\ tmudata' = tmudata \ {u}
  /\ color' = [color EXCEPT ![u] = currentwhite]
  /\ IF HasFinalizer(u)
     THEN Assign(j, u) /\ called' = called \cup {u}
     ELSE UNCHANGED <<stack, called>>
  /\ UNCHANGED <<alloc, objVars, upvalVars, mutatorState, gcstate, listVars, finalized,
                 sweepVars>>

EndCycle ==
  /\ gcstate = "finalize" /\ full # "sweep" /\ tmudata = {}
  /\ gcstate' = "pause"
  /\ full' = "no"
  /\ UNCHANGED <<alloc, color, objVars, upvalVars, stack, mutatorState, listVars, finVars,
                 sweepVars>>

(* luaC_fullgc abandons a mark phase by sweeping everything back to white,  *)
(* or finishes the sweep in progress ...                                    *)
luaC_fullgc ==
  /\ FullCollections /\ full = "no"
  /\ full' = "sweep"
  /\ \/ /\ gcstate \in {"pause", "propagate"}
        /\ gcstate' = "sweepstring"
        /\ sweepstr' = alloc \cap Str
        /\ sweepgc' = alloc \ (Str \cup OpenUpvals \cup tmudata)
        /\ gray' = {} /\ grayagain' = {} /\ weak' = {}
     \/ /\ gcstate \notin {"pause", "propagate"}
        /\ UNCHANGED <<gcstate, sweepVars, listVars>>
  /\ UNCHANGED <<alloc, color, objVars, upvalVars, stack, mutatorState, finVars>>

(* ... and then marks and sweeps again, with the mutator stopped until the  *)
(* finalizers run.                                                          *)
FullMark ==
  /\ full = "sweep" /\ gcstate = "finalize"
  /\ full' = "mark"
  /\ MarkRoot
  /\ UNCHANGED <<alloc, objVars, upvalVars, stack, mutatorState, finVars, sweepVars>>

----------------------------------------------------------------------------
(* lstate.c, f_luaopen: main thread, registry and globals. *)
Init ==
  /\ alloc = {MainThread, Registry}
  /\ color = [o \in Obj |-> IF o \in {MainThread, Registry} THEN White0 ELSE "none"]
  /\ currentwhite = White0
  /\ metatable = [o \in Table \cup Udata |-> Nil]
  /\ env = [o \in LClosure \cup CClosure \cup Udata \cup Thread |->
              IF o = MainThread THEN Registry ELSE Nil]
  /\ node = [t \in Table |-> [k \in Key |-> Nil]]
  /\ cupval = [c \in CClosure |-> Nil]
  /\ upvals = [f \in LClosure |-> {}]
  /\ uvthread = [u \in UpVal |-> Nil]
  /\ uvslot = [u \in UpVal |-> 1]
  /\ uvvalue = [u \in UpVal |-> Nil]
  /\ stack = [th \in Thread |-> [i \in Slot |-> Nil]]
  /\ running = MainThread
  /\ basemt = Nil
  /\ gcstate = "pause"
  /\ gray = {} /\ grayagain = {} /\ weak = {}
  /\ tmudata = {} /\ finalized = {} /\ called = {}
  /\ sweepstr = {} /\ sweepgc = {}
  /\ full = "no"

Allocate ==
  \E j \in Slot :
    \/ \E t \in Table : luaH_new(t, j)
    \/ \E u \in Udata : luaS_newudata(u, j)
    \/ \E th \in Thread : luaE_newthread(th, j)
    \/ \E s \in Str : luaS_newlstr(s, j)
    \/ \E c \in CClosure, i \in Slot : lua_pushcclosure(c, i, j)
    \/ \E f \in LClosure, i \in Slot : OP_CLOSURE(f, i, j)
    \/ \E f, cl \in LClosure : OP_CLOSURE_GETUPVAL(f, cl, j)

Store ==
  \/ \E t \in Table, k \in Keys, v \in Value : luaH_set(t, k, v)
  \/ \E o \in Table \cup Udata, m \in Metatables \cup {Nil} : lua_setmetatable(o, m)
  \/ \E m \in BaseMetatables \cup {Nil} : SetBaseMetatable(m)
  \/ \E o \in LClosure \cup CClosure \cup Udata \cup Thread, e \in Environments :
       lua_setfenv(o, e)
  \/ \E c \in CClosure, v \in Value : SetCUpvalue(c, v)
  \/ \E cl \in LClosure, u \in UpVal, v \in Value : OP_SETUPVAL(cl, u, v)

Switch ==
  \E i, j \in Slot : lua_yield(i, j) \/ \E th \in Thread : lua_resume(th, i, j)

Mutator ==
  \/ Allocate
  \/ Store
  \/ Switch
  \/ \E v \in Value, j \in Slot : Load(v, j)
  \/ \E level \in Slot : luaF_close(level)

singlestep ==
  \/ markroot
  \/ \E o \in Queued : propagatemark(o)
  \/ atomic
  \/ \E bucket \in SUBSET sweepstr : SweepString(bucket)
  \/ \E chunk \in SUBSET sweepgc : sweeplist(chunk)
  \/ \E u \in Udata, j \in Slot : GCTM(u, j)
  \/ EndCycle

Collector == singlestep \/ luaC_fullgc \/ FullMark

Next == Mutator \/ Collector

Spec == Init /\ [][Next]_vars

(* What tells a step of the collector from a step of the mutator. *)
GCProgress ==
  gcstate' # gcstate \/ gray \ gray' # {} \/ sweepVars' # sweepVars \/ tmudata' # tmudata

(* A program that keeps allocating keeps taking collector steps (luaC_checkGC *)
(* at every allocation), and luaC_fullgc does not stop half way.             *)
FairSpec == Spec /\ []<><<GCProgress>>_vars

----------------------------------------------------------------------------
(* Properties. *)

TypeOK ==
  /\ alloc \subseteq Obj
  /\ color \in [Obj -> Color] /\ currentwhite \in WhiteBits
  /\ metatable \in [Table \cup Udata -> Table \cup {Nil}]
  /\ env \in [LClosure \cup CClosure \cup Udata \cup Thread -> Table \cup {Nil}]
  /\ node \in [Table -> [Key -> Value]]
  /\ cupval \in [CClosure -> Value]
  /\ upvals \in [LClosure -> SUBSET UpVal]
  /\ uvthread \in [UpVal -> Thread \cup {Nil}]
  /\ uvslot \in [UpVal -> Slot]
  /\ uvvalue \in [UpVal -> Value]
  /\ stack \in [Thread -> [Slot -> Value]]
  /\ running \in Thread /\ basemt \in Table \cup {Nil}
  /\ gcstate \in GCState /\ full \in {"no", "sweep", "mark"}
  /\ gray \subseteq Obj \ (Str \cup UpVal \cup Udata) /\ grayagain \subseteq Table \cup Thread /\ weak \subseteq Table
  /\ tmudata \subseteq Udata /\ finalized \subseteq Udata /\ called \subseteq Udata
  /\ sweepstr \subseteq Str /\ sweepgc \subseteq Obj \ Str

(* Nothing the program can reach has been freed or is about to be: roots are *)
(* live, and a live object refers to live objects only (the assertion        *)
(* checkliveness of every setobj, lobject.h:111).                            *)
NoDangling ==
  /\ \A o \in Roots : Live(o)
  /\ \A o \in alloc : ~isdead(o) => \A x \in Refs(o) : Live(x)

(* The invariant the write barriers keep while marking (lgc.h, luaC_barrier): *)
(* no black object refers to a white one.  Userdata left in tmudata by an     *)
(* earlier cycle are exempt, marktmu whitens and marks them again.            *)
TriColor ==
  gcstate = "propagate" =>
    \A o \in alloc \ tmudata : isblack(o) => \A x \in Refs(o) : ~iswhite(x)

(* While marking, every gray object that still has to be traversed is on     *)
(* exactly one of the lists the collector will look at, and the lists hold   *)
(* gray objects only: none is traversed twice or forgotten.                  *)
GrayListed ==
  gcstate = "propagate" =>
    /\ gray \cup grayagain \cup weak = {o \in alloc \cap Queued : isgray(o)}
    /\ gray \cap grayagain = {} /\ gray \cap weak = {} /\ grayagain \cap weak = {}

(* Closures over the same live variable share it: a register is the target   *)
(* of at most one open upvalue, and its thread is allocated (luaF_findupval  *)
(* revives a dead upvalue instead of creating a second one).                 *)
UpvalueShared ==
  \A u \in OpenUpvals :
    /\ uvthread[u] \in alloc
    /\ \A v \in OpenUpvals :
         uvthread[u] = uvthread[v] /\ uvslot[u] = uvslot[v] => u = v

(* A sweep leaves nothing behind: between sweep and mark every object has    *)
(* the current white, whatever the mutator and the barriers did meanwhile    *)
(* (the assertions on gcstate in luaC_linkupval, lgc.c:706, rest on it).      *)
CycleClean ==
  gcstate \in {"pause", "finalize"} =>
    /\ \A o \in alloc \ tmudata : color[o] = currentwhite
    /\ gcstate = "pause" => tmudata = {}

(* A finalizer is called at most once in the life of a userdata, and what is *)
(* waiting for it stays allocated and marked.                                *)
FinalizeOnce ==
  /\ tmudata \cap called = {}
  /\ \A u \in tmudata : Live(u) /\ u \in finalized

(* The objects reachable along all references, and along strong ones.        *)
Closure(R, refs(_)) ==
  LET closed == {S \in {(R \cap alloc) \cup X : X \in SUBSET (alloc \ R)} :
                   \A o \in S : refs(o) \cap alloc \subseteq S}
  IN {o \in alloc : \A S \in closed : o \in S}
Reachable == Closure(Roots, Refs)
StronglyReachable == Closure(Roots, StrongRefs)

(* A step frees a userdata that has a finalizer only after the userdata has  *)
(* been through tmudata (or was once found dead without a finalizer), and    *)
(* frees no object the program can reach.                                    *)
FreeStep ==
  LET freed == alloc \ alloc' IN
  freed # {} => /\ \A u \in freed \cap Udata : HasFinalizer(u) => u \in finalized
                /\ freed \cap Reachable = {}
FreesGarbage == [][FreeStep]_vars

(* The collector removes an entry of a table only if the table is weak and   *)
(* the key or the value is unreachable, or the value is a userdata marked    *)
(* as finalized.                                                             *)
ClearStep ==
  gcstate = "propagate" /\ gcstate' = "sweepstring" =>
    \A t \in Table : \A k \in Entries(t) :
      node'[t][k] = Nil =>
        /\ Mode(t) # {}
        /\ \/ (Obj \cap {k, node[t][k]}) \ (StronglyReachable \cup Str) # {}
           \/ node[t][k] \in finalized'
WeakCleared == [][ClearStep]_vars

(* A userdata is queued for finalization only when the program cannot reach *)
(* it any more (lgc.c:127), unless the way leads through userdata an earlier *)
(* cycle left in tmudata: those are marked only after the separation.        *)
RefsPastPending(o) == IF o \in tmudata THEN {} ELSE StrongRefs(o)
SeparateStep == \A u \in tmudata' \ tmudata : u \notin Closure(Roots, RefsPastPending)
SeparatesOnlyDead == [][SeparateStep]_vars

(* The collector keeps the promise of GCHeap: it frees garbage only, and the *)
(* program gets hold of garbage only through a finalizer or by naming an     *)
(* interned string or a register with an open upvalue.                       *)
Heap == INSTANCE GCHeap WITH
  Object <- Obj, Revivable <- Str \cup UpVal, Finalizable <- Udata,
  objs <- alloc, refs <- [o \in Obj |-> Refs(o)], roots <- Roots
ImplementsHeap == Heap!Spec

(* Garbage is collected: an object the program cannot reach is eventually    *)
(* freed, unless it becomes reachable again.                                 *)
GarbageCollected ==
  \A o \in Obj : o \in alloc \ Reachable ~> o \notin alloc \ Reachable

============================================================================
