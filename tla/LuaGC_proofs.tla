--------------------------- MODULE LuaGC_proofs ----------------------------
(***************************************************************************)
(* Theorems about LuaGC, for every choice of the object pools and bounds:  *)
(* every state is well typed and every finalizer runs once; the collector  *)
(* frees nothing the program can reach, from the invariants of its phases; *)
(* and what a step of it may take away: it frees garbage only, clears only *)
(* the entries of weak tables that it may clear, and separates only dead   *)
(* userdata.  With it, collector and mutator implement the heap of GCHeap. *)
(***************************************************************************)
EXTENDS LuaGC, TLAPS

USE NilAssumption, RootsAssumption, WhiteAssumption, InputAssumption, BoundAssumption
    DEF WhiteBits, Color, Slot

----------------------------------------------------------------------------
(* Typing of the operators. *)

(* Every pool but UpVal holds values. *)
LEMMA PoolType ==
  /\ Table \cup LClosure \cup CClosure \cup Udata \cup Thread \cup Str \subseteq Obj \cap Value
  /\ UpVal \subseteq Obj
  BY DisjointTable, DisjointLClosure, DisjointCClosure, DisjointUdata, DisjointThread,
     DisjointUpVal
     DEF Obj, Value

LEMMA RefsType == \A o : Refs(o) \subseteq Obj /\ StrongRefs(o) \subseteq Obj
  BY DEF Refs, StrongRefs

LEMMA ReachedType == ASSUME NEW S, S \subseteq Obj PROVE Reached(S) \subseteq Obj
  BY RefsType DEF Reached

LEMMA MarkedType ==
  ASSUME NEW S, NEW c \in [Obj -> Color] PROVE Marked(S, c) \in [Obj -> Color]
  BY DEF Marked, MarkColor

LEMMA CurrentWhiteType == TypeOK => currentwhite \in Color /\ otherwhite \in WhiteBits
  BY DEF TypeOK, otherwhite

LEMMA UpvalValueType == ASSUME TypeOK, NEW u \in UpVal PROVE UpvalValue(u) \in Value
  BY DEF TypeOK, UpvalValue, IsOpen

LEMMA RegisterType == ASSUME TypeOK, NEW i \in Slot PROVE L(i) \in Value
  BY DEF TypeOK, L

LEMMA AssignType ==
  ASSUME TypeOK, NEW j \in Slot, NEW v \in Value, Assign(j, v)
  PROVE  stack' \in [Thread -> [Slot -> Value]]
  BY DEF TypeOK, Assign

LEMMA LinkType ==
  ASSUME TypeOK, NEW o \in Obj, Link(o)
  PROVE  alloc' \subseteq Obj /\ color' \in [Obj -> Color]
  BY DEF TypeOK, Link

LEMMA QueuedType == Queued \subseteq Obj \ (Str \cup UpVal \cup Udata)
  BY DisjointTable, DisjointLClosure, DisjointCClosure, DisjointThread, DisjointUdata
     DEF Queued, Obj

LEMMA BarrierType ==
  ASSUME TypeOK, NEW o, NEW v, luaC_barrier(o, v)
  PROVE  /\ color' \in [Obj -> Color]
         /\ gray' \subseteq Obj \ (Str \cup UpVal \cup Udata)
         /\ grayagain' = grayagain /\ weak' = weak
  BY QueuedType, MarkedType, ReachedType DEF TypeOK, luaC_barrier, listVars

LEMMA BackBarrierType ==
  ASSUME TypeOK, NEW t \in Table, NEW vs, luaC_barriert(t, vs)
  PROVE  /\ color' \in [Obj -> Color]
         /\ gray' = gray /\ weak' = weak
         /\ grayagain' \subseteq Table \cup Thread
  BY DEF TypeOK, luaC_barriert, listVars

----------------------------------------------------------------------------
(* Type correctness, one lemma per group of actions. *)

LEMMA AllocateType == ASSUME TypeOK, Allocate PROVE TypeOK'
PROOF
<1> USE PoolType, RegisterType DEF objVars, upvalVars, listVars, finVars, sweepVars, collectorState
<1>1. CurrEnvs \subseteq Table \cup {Nil}
  BY DEF TypeOK, CurrEnvs
<1>2. ASSUME NEW j \in Slot, NEW t \in Table, luaH_new(t, j) PROVE TypeOK'
  BY <1>2, LinkType, AssignType DEF TypeOK, luaH_new
<1>3. ASSUME NEW j \in Slot, NEW u \in Udata, luaS_newudata(u, j) PROVE TypeOK'
  BY <1>1, <1>3, LinkType, AssignType DEF TypeOK, luaS_newudata
<1>4. ASSUME NEW j \in Slot, NEW th \in Thread, luaE_newthread(th, j) PROVE TypeOK'
  BY <1>4, LinkType, AssignType DEF TypeOK, luaE_newthread
<1>5. ASSUME NEW j \in Slot, NEW s \in Str, luaS_newlstr(s, j) PROVE TypeOK'
  BY <1>5, AssignType, CurrentWhiteType DEF TypeOK, luaS_newlstr
<1>6. ASSUME NEW j \in Slot, NEW c \in CClosure, NEW i \in Slot, lua_pushcclosure(c, i, j)
      PROVE  TypeOK'
  BY <1>1, <1>6, LinkType, AssignType DEF TypeOK, lua_pushcclosure
<1>7. ASSUME NEW j \in Slot, NEW f \in LClosure, NEW i \in Slot, OP_CLOSURE(f, i, j)
      PROVE  TypeOK'
  <2>1. luaF_findupval(i) \subseteq UpVal
    BY DEF luaF_findupval, OpenUpvals
  <2>2. PICK u \in UpVal : ShareUpval(f, u) \/ OpenUpval(f, u, i)
    BY <1>7, <2>1 DEF OP_CLOSURE
  <2>3. /\ alloc' \subseteq Obj /\ color' \in [Obj -> Color]
        /\ upvals' \in [LClosure -> SUBSET UpVal]
        /\ uvthread' \in [UpVal -> Thread \cup {Nil}]
        /\ uvslot' \in [UpVal -> Slot] /\ uvvalue' \in [UpVal -> Value]
    <3>1. CASE ShareUpval(f, u)
      <4>1. alloc' \subseteq Obj /\ color' \in [Obj -> Color]
        <5>1. alloc' \subseteq Obj
          BY <3>1, PoolType DEF TypeOK, ShareUpval
        <5>2. color \in [Obj -> Color] /\ currentwhite \in Color
          BY CurrentWhiteType DEF TypeOK
        <5>3. color' \in [Obj -> Color]
          BY <3>1, <5>2 DEF ShareUpval
        <5> QED
          BY <5>1, <5>3
      <4>2. upvals' \in [LClosure -> SUBSET UpVal]
        BY <3>1 DEF TypeOK, ShareUpval
      <4>3. /\ uvthread' \in [UpVal -> Thread \cup {Nil}]
            /\ uvslot' \in [UpVal -> Slot] /\ uvvalue' \in [UpVal -> Value]
        BY <3>1 DEF TypeOK, ShareUpval
      <4> QED
        BY <4>1, <4>2, <4>3
    <3>2. CASE OpenUpval(f, u, i)
      <4>1. alloc' \subseteq Obj /\ color' \in [Obj -> Color]
        <5>1. alloc' \subseteq Obj
          BY <3>2, PoolType DEF TypeOK, OpenUpval
        <5>2. color \in [Obj -> Color] /\ currentwhite \in Color
          BY CurrentWhiteType DEF TypeOK
        <5>3. color' \in [Obj -> Color]
          BY <3>2, <5>2 DEF OpenUpval
        <5> QED
          BY <5>1, <5>3
      <4>2. upvals' \in [LClosure -> SUBSET UpVal]
        BY <3>2 DEF TypeOK, OpenUpval
      <4>3. uvthread' \in [UpVal -> Thread \cup {Nil}] /\ uvvalue' \in [UpVal -> Value]
        BY <3>2 DEF TypeOK, OpenUpval
      <4>4. uvslot' \in [UpVal -> Slot]
        BY <3>2 DEF TypeOK, OpenUpval
      <4> QED
        BY <4>1, <4>2, <4>3, <4>4
    <3> QED
      BY <2>2, <3>1, <3>2
  <2>4. env' \in [LClosure \cup CClosure \cup Udata \cup Thread -> Table \cup {Nil}]
    BY <1>1, <1>7 DEF TypeOK, OP_CLOSURE
  <2>5. Assign(j, f) /\ f \in Value
    BY <1>7 DEF OP_CLOSURE
  <2> QED
    BY <1>7, <2>3, <2>4, <2>5, AssignType DEF TypeOK, OP_CLOSURE
<1>8. ASSUME NEW j \in Slot, NEW f \in LClosure, NEW cl \in LClosure,
             OP_CLOSURE_GETUPVAL(f, cl, j)
      PROVE  TypeOK'
  BY <1>8, LinkType, AssignType DEF TypeOK, OP_CLOSURE_GETUPVAL
<1> QED
  BY <1>2, <1>3, <1>4, <1>5, <1>6, <1>7, <1>8 DEF Allocate

LEMMA StoreType == ASSUME TypeOK, Store PROVE TypeOK'
PROOF
<1> USE DEF objVars, upvalVars, listVars, finVars, sweepVars, collectorState
<1>1. ASSUME NEW t \in Table, NEW k \in Keys, NEW v \in Value, luaH_set(t, k, v)
      PROVE  TypeOK'
  BY <1>1, BackBarrierType DEF TypeOK, luaH_set
<1>2. ASSUME NEW o \in Table \cup Udata, NEW m \in Metatables \cup {Nil}, lua_setmetatable(o, m)
      PROVE  TypeOK'
  BY <1>2, BackBarrierType, BarrierType DEF TypeOK, lua_setmetatable
<1>3. ASSUME NEW m \in BaseMetatables \cup {Nil}, SetBaseMetatable(m) PROVE TypeOK'
  BY <1>3 DEF TypeOK, SetBaseMetatable
<1>4. ASSUME NEW o \in LClosure \cup CClosure \cup Udata \cup Thread, NEW e \in Environments,
             lua_setfenv(o, e)
      PROVE  TypeOK'
  BY <1>4, BarrierType DEF TypeOK, lua_setfenv
<1>5. ASSUME NEW c \in CClosure, NEW v \in Value, SetCUpvalue(c, v) PROVE TypeOK'
  BY <1>5, BarrierType DEF TypeOK, SetCUpvalue
<1>6. ASSUME NEW cl \in LClosure, NEW u \in UpVal, NEW v \in Value, OP_SETUPVAL(cl, u, v)
      PROVE  TypeOK'
  <2>1. stack' \in [Thread -> [Slot -> Value]] /\ uvvalue' \in [UpVal -> Value]
    <3>1. CASE IsOpen(u)
      <4>1. uvthread[u] \in Thread /\ uvslot[u] \in Slot
        BY <3>1 DEF TypeOK, IsOpen
      <4>2. stack' = [stack EXCEPT ![uvthread[u]][uvslot[u]] = v] /\ uvvalue' = uvvalue
        BY <1>6, <3>1 DEF OP_SETUPVAL, StoreUpval
      <4> QED
        BY <4>1, <4>2 DEF TypeOK
    <3>2. CASE ~IsOpen(u)
      BY <1>6, <3>2 DEF TypeOK, OP_SETUPVAL, StoreUpval, IsOpen
    <3> QED
      BY <3>1, <3>2
  <2> QED
    BY <1>6, <2>1, BarrierType DEF TypeOK, OP_SETUPVAL
<1> QED
  BY <1>1, <1>2, <1>3, <1>4, <1>5, <1>6 DEF Store

LEMMA SwitchType == ASSUME TypeOK, Switch PROVE TypeOK'
PROOF
<1> USE RegisterType DEF objVars, upvalVars, listVars, finVars, sweepVars, collectorState
<1>1. ASSUME NEW i \in Slot, NEW j \in Slot, lua_yield(i, j) PROVE TypeOK'
  BY <1>1 DEF TypeOK, lua_yield
<1>2. ASSUME NEW i \in Slot, NEW j \in Slot, NEW th \in Thread, lua_resume(th, i, j)
      PROVE  TypeOK'
  BY <1>2 DEF TypeOK, lua_resume
<1> QED
  BY <1>1, <1>2 DEF Switch

LEMMA LoadType == ASSUME TypeOK, NEW v \in Value, NEW j \in Slot, Load(v, j) PROVE TypeOK'
  BY AssignType
     DEF TypeOK, Load, objVars, upvalVars, listVars, finVars, sweepVars, collectorState

LEMMA CloseType == ASSUME TypeOK, NEW level \in Slot, luaF_close(level) PROVE TypeOK'
PROOF
<1> DEFINE closing == {u \in OpenUpvals : uvthread[u] = running /\ uvslot[u] >= level}
           dead == {u \in closing : isdead(u)}
           regray == {u \in closing : isgray(u)}
           values == Obj \cap {UpvalValue(u) : u \in regray}
<1> USE DEF objVars, upvalVars, listVars, finVars, sweepVars, collectorState
<1>1. alloc' \subseteq Obj
  BY DEF TypeOK, luaF_close
<1>2. /\ uvthread' \in [UpVal -> Thread \cup {Nil}]
      /\ uvslot' \in [UpVal -> Slot]
  BY DEF TypeOK, luaF_close
<1>3. uvvalue' \in [UpVal -> Value]
  BY UpvalValueType DEF TypeOK, luaF_close
<1>4. /\ color' \in [Obj -> Color]
      /\ gray' \subseteq Obj \ (Str \cup UpVal \cup Udata)
  <2>1. CASE gcstate = "propagate"
    <3>1. /\ color' = [o \in Obj |-> IF o \in regray THEN "black" ELSE Marked(values, color)[o]]
          /\ gray' = gray \cup (Reached(values) \cap Queued)
      BY <2>1 DEF luaF_close
    <3>2. Marked(values, color) \in [Obj -> Color]
      BY MarkedType DEF TypeOK
    <3> HIDE DEF values
    <3> QED
      BY <3>1, <3>2, QueuedType DEF TypeOK
  <2>2. CASE gcstate # "propagate"
    <3>1. /\ color' = Reset([o \in Obj |-> IF o \in regray THEN currentwhite ELSE color[o]],
                            dead, "none")
          /\ gray' = gray
      BY <2>2 DEF luaF_close
    <3> QED
      BY <3>1, CurrentWhiteType DEF TypeOK, Reset
  <2> QED
    BY <2>1, <2>2
<1> QED
  BY <1>1, <1>2, <1>3, <1>4 DEF TypeOK, luaF_close

----------------------------------------------------------------------------
(* The collector. *)

LEMMA MarkRootType ==
  ASSUME TypeOK, MarkRoot
  PROVE  /\ color' \in [Obj -> Color]
         /\ gray' \subseteq Obj \ (Str \cup UpVal \cup Udata)
         /\ grayagain' = {} /\ weak' = {} /\ gcstate' \in GCState
  BY MarkedType, ReachedType, QueuedType DEF TypeOK, MarkRoot, GCState

LEMMA PropagateType == ASSUME TypeOK, NEW o \in Queued, propagatemark(o) PROVE TypeOK'
PROOF
<1> USE DEF objVars, upvalVars, listVars, finVars, sweepVars, mutatorState
<1>1. color' \in [Obj -> Color]
  BY MarkedType DEF TypeOK, propagatemark
<1>2. gray' \subseteq Obj \ (Str \cup UpVal \cup Udata)
  BY ReachedType, QueuedType DEF TypeOK, propagatemark
<1> QED
  BY <1>1, <1>2 DEF TypeOK, propagatemark

LEMMA AtomicType == ASSUME TypeOK, atomic PROVE TypeOK'
PROOF
<1> USE DEF objVars, upvalVars, listVars, finVars, sweepVars
<1>1. \A S : luaC_separateudata(S) \subseteq Udata
  BY DEF luaC_separateudata
<1>2. finalized' \subseteq Udata /\ tmudata' \subseteq Udata
  BY <1>1 DEF TypeOK, atomic
<1>3. node' \in [Table -> [Key -> Value]]
  <2>1. \A W, M, F : cleartable(W, M, F) \in [Table -> [Key -> Value]]
    BY DEF TypeOK, cleartable, iscleared, Value
  <2> QED
    BY <2>1 DEF atomic
<1>4. color' \in [Obj -> Color]
  BY DEF TypeOK, atomic
<1>5. sweepgc' \subseteq Obj \ Str /\ sweepstr' \subseteq Str
  BY DEF TypeOK, atomic
<1> QED
  BY <1>2, <1>3, <1>4, <1>5, CurrentWhiteType DEF TypeOK, atomic, GCState

LEMMA SweepType ==
  ASSUME TypeOK
  PROVE  /\ \A bucket \in SUBSET sweepstr : SweepString(bucket) => TypeOK'
         /\ \A chunk \in SUBSET sweepgc : sweeplist(chunk) => TypeOK'
PROOF
<1> USE DEF objVars, upvalVars, listVars, finVars, sweepVars, mutatorState
<1>1. \A S, freed : Swept(S, freed) \in [Obj -> Color]
  BY CurrentWhiteType DEF TypeOK, Swept, Reset
<1>2. ASSUME NEW bucket \in SUBSET sweepstr, SweepString(bucket) PROVE TypeOK'
  BY <1>1, <1>2 DEF TypeOK, SweepString, GCState
<1>3. ASSUME NEW chunk \in SUBSET sweepgc, sweeplist(chunk) PROVE TypeOK'
  <2>1. alloc' \subseteq Obj /\ color' \in [Obj -> Color]
    BY <1>1, <1>3 DEF TypeOK, sweeplist
  <2>2. /\ sweepgc' \subseteq Obj \ Str /\ sweepstr' \subseteq Str /\ gcstate' \in GCState
        /\ finalized' \subseteq Udata /\ called' \subseteq Udata
    BY <1>3 DEF TypeOK, sweeplist, GCState
  <2>3. /\ metatable' \in [Table \cup Udata -> Table \cup {Nil}]
        /\ env' \in [LClosure \cup CClosure \cup Udata \cup Thread -> Table \cup {Nil}]
        /\ cupval' \in [CClosure -> Value]
        /\ upvals' \in [LClosure -> SUBSET UpVal]
    BY <1>3 DEF TypeOK, sweeplist, Reset, Value
  <2>4. node' \in [Table -> [Key -> Value]] /\ stack' \in [Thread -> [Slot -> Value]]
    BY <1>3 DEF TypeOK, sweeplist, Reset, Value
  <2>5. uvthread' \in [UpVal -> Thread \cup {Nil}] /\ uvslot' \in [UpVal -> Slot]
    BY <1>3 DEF TypeOK, sweeplist, Reset
  <2>6. uvvalue' \in [UpVal -> Value]
    BY <1>3, UpvalValueType DEF TypeOK, sweeplist, Value
  <2> QED
    BY <1>3, <2>1, <2>2, <2>3, <2>4, <2>5, <2>6 DEF TypeOK, sweeplist
<1> QED
  BY <1>2, <1>3

LEMMA FinalizeType ==
  ASSUME TypeOK
  PROVE  /\ \A u \in Udata, j \in Slot : GCTM(u, j) => TypeOK'
         /\ EndCycle => TypeOK'
PROOF
<1> USE DEF objVars, upvalVars, listVars, finVars, sweepVars, mutatorState
<1>1. ASSUME NEW u \in Udata, NEW j \in Slot, GCTM(u, j) PROVE TypeOK'
  <2>1. stack' \in [Thread -> [Slot -> Value]] /\ called' \subseteq Udata
    BY <1>1, AssignType, PoolType DEF TypeOK, GCTM
  <2> QED
    BY <1>1, <2>1, CurrentWhiteType DEF TypeOK, GCTM
<1>2. ASSUME EndCycle PROVE TypeOK'
  BY <1>2 DEF TypeOK, EndCycle, GCState
<1> QED
  BY <1>1, <1>2

LEMMA FullType == ASSUME TypeOK PROVE (luaC_fullgc => TypeOK') /\ (FullMark => TypeOK')
PROOF
<1> USE DEF objVars, upvalVars, listVars, finVars, sweepVars, mutatorState
<1>1. ASSUME luaC_fullgc PROVE TypeOK'
  BY <1>1 DEF TypeOK, luaC_fullgc, GCState
<1>2. ASSUME FullMark PROVE TypeOK'
  BY <1>2, MarkRootType DEF TypeOK, FullMark
<1> QED
  BY <1>1, <1>2

LEMMA InitType == Init => TypeOK
  BY DEF Init, TypeOK, Value, GCState, Obj

LEMMA NextType == ASSUME TypeOK, [Next]_vars PROVE TypeOK'
PROOF
<1>1. CASE Mutator
  BY <1>1, AllocateType, StoreType, SwitchType, LoadType, CloseType DEF Mutator
<1>2. CASE singlestep
  <2>1. CASE markroot
    BY <2>1, MarkRootType
       DEF TypeOK, markroot, objVars, upvalVars, listVars, finVars, sweepVars, mutatorState
  <2> QED
    BY <1>2, <2>1, PropagateType, AtomicType, SweepType, FinalizeType DEF singlestep
<1>3. CASE luaC_fullgc \/ FullMark
  BY <1>3, FullType
<1>4. CASE UNCHANGED vars
  BY <1>4 DEF TypeOK, vars, objVars, upvalVars, listVars, finVars, sweepVars
<1> QED
  BY <1>1, <1>2, <1>3, <1>4 DEF Next, Collector

(* Type correctness: every list of the collector holds objects of the types  *)
(* it is made for (userdata, strings and upvalues are never queued as gray), *)
(* and every field refers to an object of the right type or to none.         *)
THEOREM TypeCorrect == Spec => []TypeOK
  BY InitType, NextType, PTL DEF Spec

----------------------------------------------------------------------------
(* Userdata with finalizers: none is finalized twice, and what waits for    *)
(* its finalizer is not freed.                                               *)

(* FinalizeOnce is not inductive: that a userdata in tmudata is not dead     *)
(* rests on its colour, black since marktmu or white again by a barrier, and *)
(* atomic can only keep finalized userdata out if called is among them.      *)
FinalInv ==
  /\ called \subseteq finalized
  /\ tmudata \subseteq alloc \cap finalized
  /\ tmudata \cap called = {}
  /\ \A u \in tmudata : color[u] \in {"black", currentwhite}

LEMMA FinalImplies == TypeOK /\ FinalInv => FinalizeOnce
PROOF
<1> SUFFICES ASSUME TypeOK, FinalInv PROVE FinalizeOnce
  OBVIOUS
<1>1. "black" \notin {White0, White1}
  <2>1. "black" \notin {White0, White1} \cap {"gray", "black", "none"}
    OBVIOUS
  <2> QED
    BY <2>1
<1>2. otherwhite \in WhiteBits /\ otherwhite # currentwhite
  BY DEF otherwhite, TypeOK
<1> QED
  BY <1>1, <1>2 DEF TypeOK, FinalInv, FinalizeOnce, Live, isdead

(* A step that leaves the three sets alone and gives no userdata in tmudata  *)
(* another colour than those two keeps the invariant.                        *)
LEMMA FinalKept ==
  ASSUME TypeOK, FinalInv,
         tmudata' = tmudata, finalized' = finalized, called' = called,
         currentwhite' = currentwhite,
         \A u \in tmudata : u \in alloc' /\ color'[u] \in {color[u], "black", currentwhite}
  PROVE  FinalInv'
  BY DEF FinalInv

(* Marking turns a userdata black or leaves it as it is. *)
LEMMA MarkedUdata ==
  \A S, u : u \in Udata => Marked(S, color)[u] \in {color[u], "black"}
  BY DEF Marked, MarkColor, Obj

LEMMA UdataApart ==
  \A u \in Udata : u \in Obj /\ u \notin Str \cup Thread \cup UpVal \cup Table \cup Queued
  BY DisjointTable, DisjointLClosure, DisjointCClosure, DisjointUdata DEF Obj, Queued

LEMMA BarrierFinal ==
  ASSUME TypeOK, NEW o, NEW v, luaC_barrier(o, v), NEW u \in Udata
  PROVE  color'[u] \in {color[u], "black", currentwhite}
  BY MarkedUdata, UdataApart DEF TypeOK, luaC_barrier

LEMMA BackBarrierFinal ==
  ASSUME TypeOK, NEW t \in Table, NEW vs, luaC_barriert(t, vs), NEW u \in Udata
  PROVE  color'[u] = color[u]
  BY UdataApart DEF TypeOK, luaC_barriert

LEMMA LinkFinal ==
  ASSUME TypeOK, NEW o \in Obj, Link(o), NEW u \in Udata \cap alloc
  PROVE  u \in alloc' /\ color'[u] \in {color[u], currentwhite}
  BY UdataApart DEF TypeOK, Link

----------------------------------------------------------------------------
(* The mutator. *)

LEMMA AllocateFinal == ASSUME TypeOK, FinalInv, Allocate PROVE FinalInv'
PROOF
<1> USE DEF collectorState, finVars
<1>1. tmudata \subseteq Udata \cap alloc
  BY DEF TypeOK, FinalInv
<1>2. /\ tmudata' = tmudata /\ finalized' = finalized /\ called' = called
      /\ currentwhite' = currentwhite
  BY DEF Allocate, luaH_new, luaS_newudata, luaE_newthread, luaS_newlstr, lua_pushcclosure,
         OP_CLOSURE, OP_CLOSURE_GETUPVAL
<1> DEFINE Fine(u) == u \in alloc' /\ color'[u] \in {color[u], "black", currentwhite}
<1>3. ASSUME NEW u \in tmudata PROVE Fine(u)
  <2> USE <1>1, UdataApart
  <2>1. ASSUME NEW o \in Obj, Link(o) PROVE Fine(u)
    BY <2>1, LinkFinal
  <2>2. ASSUME NEW s \in Str, NEW j \in Slot, luaS_newlstr(s, j) PROVE Fine(u)
    BY <2>2 DEF TypeOK, luaS_newlstr
  <2>3. ASSUME NEW f \in LClosure, NEW i \in Slot, NEW j \in Slot, OP_CLOSURE(f, i, j)
        PROVE  Fine(u)
    <3>1. f # u /\ f \in Obj
      BY <1>1, UdataApart DEF Queued, Obj
    <3>2. ASSUME NEW v \in luaF_findupval(i), ShareUpval(f, v) PROVE Fine(u)
      BY <3>1, <3>2 DEF TypeOK, ShareUpval, luaF_findupval, OpenUpvals
    <3>3. ASSUME NEW v \in UpVal \ alloc, OpenUpval(f, v, i) PROVE Fine(u)
      BY <3>1, <3>3 DEF TypeOK, OpenUpval
    <3> QED
      BY <2>3, <3>2, <3>3 DEF OP_CLOSURE
  <2> QED
    BY <2>1, <2>2, <2>3
       DEF Allocate, luaH_new, luaS_newudata, luaE_newthread, lua_pushcclosure,
           OP_CLOSURE_GETUPVAL, Obj
<1> QED
  BY <1>2, <1>3, FinalKept

LEMMA StoreFinal == ASSUME TypeOK, FinalInv, Store PROVE FinalInv'
PROOF
<1>1. tmudata \subseteq Udata \cap alloc
  BY DEF TypeOK, FinalInv
<1>2. /\ alloc' = alloc /\ tmudata' = tmudata /\ finalized' = finalized
      /\ called' = called /\ currentwhite' = currentwhite
  BY DEF Store, luaH_set, lua_setmetatable, SetBaseMetatable, lua_setfenv, SetCUpvalue,
         OP_SETUPVAL, collectorState, finVars
<1>3. \/ color' = color
      \/ \E t \in Table : \E vs : luaC_barriert(t, vs)
      \/ \E o, v : luaC_barrier(o, v)
  BY DEF Store, luaH_set, lua_setmetatable, SetBaseMetatable, lua_setfenv, SetCUpvalue,
         OP_SETUPVAL
<1>4. \A u \in tmudata : color'[u] \in {color[u], "black", currentwhite}
  BY <1>1, <1>3, BarrierFinal, BackBarrierFinal
<1> QED
  BY <1>1, <1>2, <1>4, FinalKept

LEMMA CloseFinal ==
  ASSUME TypeOK, FinalInv, NEW level \in Slot, luaF_close(level) PROVE FinalInv'
PROOF
<1> DEFINE closing == {u \in OpenUpvals : uvthread[u] = running /\ uvslot[u] >= level}
           dead == {u \in closing : isdead(u)}
           regray == {u \in closing : isgray(u)}
           values == Obj \cap {UpvalValue(u) : u \in regray}
<1>1. tmudata \subseteq Udata \cap alloc
  BY DEF TypeOK, FinalInv
<1>2. dead \subseteq UpVal /\ regray \subseteq UpVal
  BY DEF OpenUpvals
<1>3. alloc' = alloc \ dead
  BY DEF luaF_close
<1>4. /\ tmudata' = tmudata /\ finalized' = finalized
      /\ called' = called /\ currentwhite' = currentwhite
  BY DEF luaF_close, collectorState, finVars
<1>5. \A u \in tmudata : color'[u] \in {color[u], "black", currentwhite}
  <2>1. CASE gcstate = "propagate"
    <3>1. color' = [o \in Obj |-> IF o \in regray THEN "black" ELSE Marked(values, color)[o]]
      BY <2>1 DEF luaF_close
    <3> HIDE DEF values, regray
    <3> QED
      BY <1>1, <1>2, <3>1, MarkedUdata, UdataApart
  <2>2. CASE gcstate # "propagate"
    <3>1. color' = Reset([o \in Obj |-> IF o \in regray THEN currentwhite ELSE color[o]],
                         dead, "none")
      BY <2>2 DEF luaF_close
    <3> HIDE DEF dead, regray
    <3> QED
      BY <1>1, <1>2, <3>1, UdataApart DEF Reset
  <2> QED
    BY <2>1, <2>2
<1> HIDE DEF dead
<1> QED
  BY <1>1, <1>2, <1>3, <1>4, <1>5, UdataApart, FinalKept

LEMMA MutatorFinal == ASSUME TypeOK, FinalInv, Mutator PROVE FinalInv'
PROOF
<1>1. ASSUME Switch PROVE FinalInv'
  BY <1>1 DEF Switch, lua_yield, lua_resume, collectorState, finVars, FinalInv
<1>2. ASSUME NEW v \in Value, NEW j \in Slot, Load(v, j) PROVE FinalInv'
  BY <1>2 DEF Load, collectorState, finVars, FinalInv
<1> QED
  BY <1>1, <1>2, AllocateFinal, StoreFinal, CloseFinal DEF Mutator

----------------------------------------------------------------------------
(* The collector. *)

LEMMA MarkRootFinal ==
  ASSUME TypeOK, FinalInv, MarkRoot, alloc' = alloc, currentwhite' = currentwhite,
         tmudata' = tmudata, finalized' = finalized, called' = called
  PROVE  FinalInv'
PROOF
<1>1. \A u \in tmudata : u \in Udata \cap alloc
  BY DEF TypeOK, FinalInv
<1>2. \E S : color' = Marked(S, color)
  BY DEF MarkRoot
<1> QED
  BY <1>1, <1>2, MarkedUdata, FinalKept

LEMMA PropagateFinal ==
  ASSUME TypeOK, FinalInv, NEW o \in Queued, propagatemark(o) PROVE FinalInv'
PROOF
<1>1. tmudata \subseteq Udata \cap alloc
  BY DEF TypeOK, FinalInv
<1>2. /\ alloc' = alloc /\ tmudata' = tmudata /\ finalized' = finalized
      /\ called' = called /\ currentwhite' = currentwhite
  BY DEF propagatemark, finVars, mutatorState
<1>3. \E S, c : color' = [Marked(S, color) EXCEPT ![o] = c]
  BY DEF propagatemark
<1>4. \A u \in tmudata : color'[u] \in {color[u], "black"}
  BY <1>1, <1>3, MarkedUdata, MarkedType, UdataApart DEF TypeOK
<1> QED
  BY <1>1, <1>2, <1>4, FinalKept

(* What is marked includes what is done. *)
LEMMA MarkAllDone ==
  ASSUME NEW done, NEW again, NEW extra PROVE done \cap alloc \subseteq MarkAll(done, again, extra)
  BY DEF MarkAll

(* atomic: separated userdata were not finalized before, hence not called,   *)
(* and all of tmudata is marked black.                                       *)
LEMMA AtomicFinal == ASSUME TypeOK, FinalInv, atomic PROVE FinalInv'
PROOF
<1> DEFINE done == {o \in alloc : ~iswhite(o)}
           remark == {UpvalValue(u) : u \in {v \in OpenUpvals : isgray(v)}} \cup {running, basemt}
           first == MarkAll(done, weak \cup grayagain, Obj \cap remark)
           separated == luaC_separateudata(first)
           tm == tmudata \cup {u \in separated : HasFinalizer(u)}
           marked == MarkAll(first \cup tm, tm, {})
           weaklist == {t \in Table \cap (weak \cup grayagain \cup (marked \ done)) : Mode(t) # {}}
           black == marked \ (Str \cup Thread \cup OpenUpvals \cup weaklist)
<1>1. finalized' = finalized \cup separated /\ tmudata' = tm /\ alloc' = alloc /\ called' = called
  BY DEF atomic
<1>2. separated \subseteq (alloc \cap Udata) \ finalized
  BY DEF luaC_separateudata
<1>3. tm \subseteq alloc \cap Udata
  BY <1>2 DEF TypeOK, FinalInv
<1>4. tm \subseteq marked
  <2> HIDE DEF tm, first
  <2> QED
    BY <1>3, MarkAllDone
<1>5. tm \subseteq black
  <2>1. weaklist \subseteq Table /\ OpenUpvals \subseteq UpVal
    BY DEF OpenUpvals
  <2> HIDE DEF tm, marked, weaklist
  <2> QED
    BY <1>3, <1>4, <2>1, UdataApart
<1>6. \A o \in black : o \in Obj => color'[o] = "black"
  <2> DEFINE keys == UNION {Entries(t) : t \in weaklist}
             values == UNION {{node[t][k] : k \in {e \in Entries(t) :
                                  ~iscleared(e, TRUE, marked, finalized')}} : t \in weaklist}
             B == Str \cap (keys \cup values)
  <2>1. color' = [o \in Obj |-> CASE o \in black -> "black"
                                   [] o \in marked \ black -> "gray"
                                   [] o \in B -> "gray"
                                   [] OTHER -> color[o]]
    BY DEF atomic
  <2>2. black \cap Str = {}
    <3> HIDE DEF marked, weaklist
    <3> QED
      OBVIOUS
  <2>4. B \subseteq Str
    OBVIOUS
  <2> HIDE DEF black, marked, B
  <2>3. ASSUME NEW o \in black, o \in Obj PROVE color'[o] = "black"
    <3>1. o \notin B
      BY <2>2, <2>3, <2>4
    <3> QED
      BY <2>1, <2>3, <3>1
  <2> QED
    BY <2>3
<1> HIDE DEF black, separated
<1>7. \A u \in tmudata' : color'[u] \in {"black", currentwhite'}
  BY <1>1, <1>3, <1>5, <1>6, UdataApart
<1>8. tmudata' \subseteq alloc' \cap finalized' /\ tmudata' \cap called' = {}
      /\ called' \subseteq finalized'
  BY <1>1, <1>2, <1>3 DEF FinalInv
<1> QED
  BY <1>7, <1>8 DEF FinalInv

LEMMA SweepFinal ==
  ASSUME TypeOK, FinalInv
  PROVE  /\ \A bucket \in SUBSET sweepstr : SweepString(bucket) => FinalInv'
         /\ \A chunk \in SUBSET sweepgc : sweeplist(chunk) => FinalInv'
PROOF
<1> USE DEF finVars, mutatorState
<1>1. \A u \in tmudata : u \in Udata \cap alloc /\ ~isdead(u)
  BY FinalImplies DEF TypeOK, FinalInv, FinalizeOnce, Live
<1>2. ASSUME NEW S, NEW freed, NEW u \in tmudata, u \notin freed
      PROVE  Swept(S, freed)[u] \in {color[u], currentwhite}
  BY <1>1, <1>2, UdataApart DEF Swept, Reset
<1>3. ASSUME NEW bucket \in SUBSET sweepstr, SweepString(bucket) PROVE FinalInv'
  BY <1>1, <1>2, <1>3, FinalKept DEF SweepString
<1>4. ASSUME NEW chunk \in SUBSET sweepgc, sweeplist(chunk) PROVE FinalInv'
  <2>1. PICK S, freed :
          /\ \A o \in freed : isdead(o)
          /\ alloc' = alloc \ freed /\ color' = Swept(S, freed)
          /\ finalized' = finalized \ freed /\ called' = called \ freed
    BY <1>4 DEF sweeplist
  <2>2. tmudata' = tmudata /\ currentwhite' = currentwhite
    BY <1>4 DEF sweeplist
  <2>3. \A u \in tmudata : u \notin freed /\ color'[u] \in {color[u], currentwhite}
    BY <1>1, <1>2, <2>1
  <2> QED
    BY <2>1, <2>2, <2>3 DEF FinalInv
<1> QED
  BY <1>3, <1>4

LEMMA GCTMFinal ==
  ASSUME TypeOK, FinalInv, NEW u \in Udata, NEW j \in Slot, GCTM(u, j) PROVE FinalInv'
  BY UdataApart DEF TypeOK, FinalInv, GCTM, mutatorState

LEMMA CollectorFinal == ASSUME TypeOK, FinalInv, Collector PROVE FinalInv'
PROOF
<1> USE DEF finVars, mutatorState
<1>1. ASSUME markroot PROVE FinalInv'
  BY <1>1, MarkRootFinal DEF markroot
<1>2. ASSUME EndCycle \/ luaC_fullgc PROVE FinalInv'
  BY <1>2 DEF EndCycle, luaC_fullgc, FinalInv
<1>3. ASSUME FullMark PROVE FinalInv'
  BY <1>3, MarkRootFinal DEF FullMark
<1> QED
  BY <1>1, <1>2, <1>3, PropagateFinal, AtomicFinal, SweepFinal, GCTMFinal
     DEF Collector, singlestep

----------------------------------------------------------------------------
LEMMA FinalInit == Init => FinalInv
  BY DEF Init, FinalInv

LEMMA FinalNext == ASSUME TypeOK, FinalInv, [Next]_vars PROVE FinalInv'
PROOF
<1>1. CASE UNCHANGED vars
  BY <1>1 DEF vars, finVars, FinalInv
<1> QED
  BY <1>1, MutatorFinal, CollectorFinal DEF Next

(* A finalizer runs at most once in the life of a userdata, and a userdata   *)
(* that waits for it is neither freed nor about to be (luaC_separateudata,   *)
(* marktmu, GCTM), through resurrection and full collections in finalizers.  *)
THEOREM FinalizedOnce == Spec => []FinalizeOnce
PROOF
<1>1. TypeOK /\ FinalInv /\ [Next]_vars => FinalInv'
  BY FinalNext
<1> QED
  BY <1>1, FinalInit, FinalImplies, TypeCorrect, PTL DEF Spec

----------------------------------------------------------------------------
(* The inductive invariant. *)

Colored == \A o \in Obj : color[o] = "none" <=> o \notin alloc

(* Memory that is not allocated holds no references. *)
Blank == \A o \in Obj \ (alloc \cup UpVal) : Refs(o) = {}

(* What is black will not be looked at again before the end of the cycle:    *)
(* stacks are always looked at again, and so are open upvalues.              *)
Shades ==
  \A o \in Obj :
    /\ isblack(o) => o \notin Thread \cup OpenUpvals
    /\ isgray(o) => o \notin Udata /\ (o \in UpVal => IsOpen(o))

(* While sweeping, what does not have the new white is still to be swept. *)
Ahead ==
  /\ sweepstr \cup sweepgc \subseteq alloc \ OpenUpvals
  /\ gcstate = "sweep" => sweepstr = {}
  /\ gcstate \in {"sweepstring", "sweep"} =>
       \A o \in alloc \ tmudata : color[o] # currentwhite =>
          \/ o \in sweepstr \cup sweepgc
          \/ o \in OpenUpvals /\ uvthread[o] \in sweepgc

(* Dead objects exist in the sweep phases only. *)
NoneDead == gcstate \notin {"sweepstring", "sweep"} => \A o \in alloc : ~isdead(o)

(* While marking, the roots that atomic does not mark again are marked. *)
RootsMarked == gcstate = "propagate" => ~iswhite(MainThread) /\ ~iswhite(Registry)

LiveInv ==
  /\ Colored /\ Blank /\ UpvalueShared /\ Shades /\ RootsMarked
  /\ Ahead /\ NoneDead /\ CycleClean /\ TriColor /\ GrayListed
  /\ NoDangling

----------------------------------------------------------------------------
(* Colours and references. *)

LEMMA Whites ==
  ASSUME TypeOK
  PROVE  /\ otherwhite # currentwhite
         /\ \A c : c \in WhiteBits <=> c \in {currentwhite, otherwhite}
         /\ \A c \in {"gray", "black", "none"} :
              c # currentwhite /\ c # otherwhite /\ c \notin WhiteBits
PROOF
<1>1. \A c \in {"gray", "black", "none"} : c \notin {White0, White1}
  <2>1. \A c : c \notin {White0, White1} \cap {"gray", "black", "none"}
    OBVIOUS
  <2> QED
    BY <2>1
<1> QED
  BY <1>1 DEF TypeOK, otherwhite

(* References by type. *)
RefsTyped ==
  \A o \in Obj :
    /\ o \in Table => Refs(o) = Obj \cap ({metatable[o]} \cup Entries(o)
                                            \cup {node[o][k] : k \in Entries(o)})
    /\ o \in LClosure => Refs(o) = Obj \cap ({env[o]} \cup upvals[o])
    /\ o \in CClosure => Refs(o) = Obj \cap {env[o], cupval[o]}
    /\ o \in Udata => Refs(o) = Obj \cap {metatable[o], env[o]}
    /\ o \in Thread => Refs(o) = Obj \cap ({env[o]} \cup {stack[o][i] : i \in Slot})
    /\ o \in UpVal => Refs(o) = Obj \cap {UpvalValue(o)}
    /\ o \in Str => Refs(o) = {}

LEMMA RefsByType == RefsTyped
PROOF
<1> USE DisjointTable, DisjointLClosure, DisjointCClosure, DisjointUdata, DisjointThread,
        DisjointUpVal
<1> SUFFICES ASSUME NEW o \in Obj PROVE RefsTyped!(o)
  BY DEF RefsTyped
<1>1. CASE o \in Table
  BY <1>1 DEF Refs, TableRefs
<1>2. CASE o \in LClosure
  BY <1>2 DEF Refs, NonTableRefs
<1>3. CASE o \in CClosure
  BY <1>3 DEF Refs, NonTableRefs
<1>4. CASE o \in Udata
  BY <1>4 DEF Refs, NonTableRefs
<1>5. CASE o \in Thread
  BY <1>5 DEF Refs, NonTableRefs
<1>6. CASE o \in UpVal
  BY <1>6 DEF Refs, NonTableRefs
<1>7. CASE o \in Str
  BY <1>7 DEF Refs, NonTableRefs
<1> QED
  BY <1>1, <1>2, <1>3, <1>4, <1>5, <1>6, <1>7 DEF Obj

LEMMA RefsByTypeNext == RefsTyped'
  BY RefsByType, PTL

----------------------------------------------------------------------------
(* Steps and references. *)

SameFields(x) ==
  /\ x \in Table => metatable'[x] = metatable[x] /\ node'[x] = node[x]
  /\ x \in LClosure => env'[x] = env[x] /\ upvals'[x] = upvals[x]
  /\ x \in CClosure => env'[x] = env[x] /\ cupval'[x] = cupval[x]
  /\ x \in Udata => metatable'[x] = metatable[x] /\ env'[x] = env[x]
  /\ x \in Thread => env'[x] = env[x]
  /\ x \in UpVal => uvthread'[x] = uvthread[x] /\ uvslot'[x] = uvslot[x]
                     /\ uvvalue'[x] = uvvalue[x]

LEMMA UnchangedFields == UNCHANGED <<objVars, upvalVars>> => \A x : SameFields(x)
  BY DEF objVars, upvalVars, SameFields

(* What refers to other objects than before is a thread with a new value on  *)
(* its stack or an open upvalue.                                             *)
LEMMA StackRefs ==
  ASSUME TypeOK, NEW x \in Obj, SameFields(x), NEW v,
         \A th \in Thread : \A i \in Slot :
            stack'[th][i] = stack[th][i] \/ stack'[th][i] = v
  PROVE  /\ Refs(x)' \subseteq Refs(x) \cup {v}
         /\ x \notin Thread /\ ~(x \in UpVal /\ IsOpen(x)) => Refs(x)' = Refs(x)
         /\ x \in Thread /\ stack'[x] = stack[x] => Refs(x)' = Refs(x)
PROOF
<1> USE RefsByType, RefsByTypeNext DEF RefsTyped, SameFields
<1>1. CASE x \in Thread
  <2>1. Refs(x) = Obj \cap ({env[x]} \cup {stack[x][i] : i \in Slot})
    BY <1>1
  <2>2. Refs(x)' = Obj \cap ({env[x]} \cup {stack'[x][i] : i \in Slot})
    BY <1>1
  <2>3. x \notin UpVal
    BY <1>1, DisjointThread
  <2> QED
    BY <1>1, <2>1, <2>2, <2>3
<1>2. CASE x \in UpVal
  <2>1. Refs(x) = Obj \cap {UpvalValue(x)} /\ Refs(x)' = Obj \cap {UpvalValue(x)'}
    BY <1>2
  <2>2. UpvalValue(x)' = UpvalValue(x) \/ (IsOpen(x) /\ UpvalValue(x)' = v)
    BY <1>2 DEF TypeOK, UpvalValue, IsOpen
  <2>3. x \notin Thread
    BY <1>2, DisjointThread
  <2> QED
    BY <1>2, <2>1, <2>2, <2>3
<1>3. CASE x \in Table
  <2>1. Refs(x)' = Refs(x)
    <3>1. Entries(x)' = Entries(x) /\ node'[x] = node[x] /\ metatable'[x] = metatable[x]
      BY <1>3 DEF Entries
    <3>2. Refs(x) = Obj \cap ({metatable[x]} \cup Entries(x)
                                 \cup {node[x][k] : k \in Entries(x)})
      BY <1>3
    <3>3. Refs(x)' = Obj \cap ({metatable'[x]} \cup Entries(x)'
                                 \cup {node'[x][k] : k \in Entries(x)'})
      BY <1>3
    <3> QED
      BY <3>1, <3>2, <3>3
  <2> QED
    BY <1>3, <2>1, DisjointTable
<1>4. CASE x \in LClosure \cup CClosure \cup Udata \cup Str
  <2>1. Refs(x)' = Refs(x)
    <3>1. CASE x \in LClosure
      BY <3>1
    <3>2. CASE x \in CClosure
      BY <3>2
    <3>3. CASE x \in Udata
      <4>1. Refs(x) = Obj \cap {metatable[x], env[x]} /\ metatable'[x] = metatable[x] /\ env'[x] = env[x]
        BY <3>3
      <4>2. Refs(x)' = Obj \cap {metatable'[x], env'[x]}
        BY <3>3
      <4> QED
        BY <4>1, <4>2
    <3>4. CASE x \in Str
      BY <3>4
    <3> QED
      BY <1>4, <3>1, <3>2, <3>3, <3>4
  <2> QED
    BY <1>4, <2>1, DisjointLClosure, DisjointCClosure, DisjointUdata, DisjointThread
<1> QED
  BY <1>1, <1>2, <1>3, <1>4 DEF Obj

LEMMA SameRefs ==
  ASSUME TypeOK, NEW x \in Obj, SameFields(x), UNCHANGED stack PROVE Refs(x)' = Refs(x)
PROOF
<1>1. Refs(x)' \subseteq Refs(x) \cup {Nil} /\ (x \in Thread => Refs(x)' = Refs(x))
      /\ (x \notin Thread /\ ~(x \in UpVal /\ IsOpen(x)) => Refs(x)' = Refs(x))
  BY StackRefs
<1>2. ASSUME x \in UpVal PROVE Refs(x)' = Refs(x)
  <2>1. UpvalValue(x)' = UpvalValue(x)
    BY <1>2 DEF SameFields, UpvalValue, IsOpen
  <2>2. Refs(x) = Obj \cap {UpvalValue(x)} /\ Refs(x)' = Obj \cap {UpvalValue(x)'}
    BY <1>2, RefsByType, RefsByTypeNext DEF RefsTyped
  <2> QED
    BY <2>1, <2>2
<1> QED
  BY <1>1, <1>2

(* The case of one register of the running thread. *)
LEMMA AssignRefs ==
  ASSUME TypeOK, NEW x \in Obj, SameFields(x), NEW th \in Thread, NEW j \in Slot, NEW v,
         stack' = [stack EXCEPT ![th][j] = v]
  PROVE  /\ Refs(x)' \subseteq Refs(x) \cup {v}
         /\ x # th /\ ~(x \in UpVal /\ IsOpen(x)) => Refs(x)' = Refs(x)
PROOF
<1>1. \A o \in Thread : \A i \in Slot :
        stack'[o][i] = stack[o][i] \/ stack'[o][i] = v
  BY DEF TypeOK
<1>2. x \in Thread /\ x # th => stack'[x] = stack[x]
  BY DEF TypeOK
<1> QED
  BY <1>1, <1>2, StackRefs

LEMMA SmallRefs ==
  ASSUME TypeOK
  PROVE  /\ \A u \in Udata : Refs(u) \subseteq Table
         /\ \A u \in UpVal : Refs(u) \subseteq Obj \ UpVal
PROOF
<1>1. ASSUME NEW u \in Udata PROVE Refs(u) \subseteq Table
  <2>1. Refs(u) = Obj \cap {metatable[u], env[u]}
    BY RefsByType, PoolType DEF RefsTyped
  <2>2. metatable[u] \in Table \cup {Nil} /\ env[u] \in Table \cup {Nil}
    BY DEF TypeOK
  <2> QED
    BY <2>1, <2>2
<1>2. ASSUME NEW u \in UpVal PROVE Refs(u) \subseteq Obj \ UpVal
  BY UpvalValueType, RefsByType DEF RefsTyped, Value, Obj
<1> QED
  BY <1>1, <1>2

(* What marking does: white objects get the colour of their type, and what   *)
(* it turns black refers to nothing white.                                   *)
LEMMA MarkShades ==
  ASSUME TypeOK, NEW S \in SUBSET Obj, NEW o \in Obj
  PROVE  /\ o \in Reached(S) => iswhite(o) /\ Marked(S, color)[o] = MarkColor(o)
         /\ o \notin Reached(S) => Marked(S, color)[o] = color[o]
         /\ o \in S => Marked(S, color)[o] \notin WhiteBits
         /\ o \in Reached(S) /\ MarkColor(o) = "black" =>
              \A x \in Refs(o) : Marked(S, color)[x] \notin WhiteBits
PROOF
<1>1. \A x \in Obj : Marked(S, color)[x] = IF x \in Reached(S) THEN MarkColor(x) ELSE color[x]
  BY DEF Marked
<1>2. \A x \in Obj : MarkColor(x) \in {"gray", "black"} /\ MarkColor(x) \notin WhiteBits
  BY Whites DEF MarkColor
<1>3. \A x \in Reached(S) : iswhite(x)
  BY DEF Reached
<1>4. \A x \in S : iswhite(x) => x \in Reached(S)
  BY DEF Reached
<1>5. ASSUME o \in Reached(S), MarkColor(o) = "black", NEW x \in Refs(o), iswhite(x)
      PROVE  x \in Reached(S)
  <2>1. o \in Udata \/ o \in UpVal
    BY <1>5 DEF MarkColor
  <2>2. CASE o \in Udata
    <3>1. o \notin Table
      BY <2>2, DisjointTable
    <3>2. o \in S \/ o \in UNION {Refs(u) : u \in {w \in S : iswhite(w)} \cap UpVal}
      BY <1>5, <2>2, <3>1, SmallRefs DEF Reached
    <3> QED
      BY <1>3, <1>5, <2>2, <3>2 DEF Reached
  <2>3. CASE o \in UpVal
    <3>1. o \in S
      BY <1>5, <2>3, SmallRefs, DisjointTable DEF Reached
    <3> QED
      BY <1>3, <1>5, <2>3, <3>1 DEF Reached
  <2> QED
    BY <2>1, <2>2, <2>3
<1>6. \A x \in Refs(o) : x \in Obj
  BY RefsType
<1> QED
  BY <1>1, <1>2, <1>3, <1>4, <1>5, <1>6 DEF iswhite

----------------------------------------------------------------------------
(* What the program can reach. *)

(* A closed set with the roots holds what is reachable from them. *)
LEMMA ClosureIn ==
  ASSUME NEW X, NEW S \in SUBSET alloc, X \cap alloc \subseteq S,
         \A o \in S : Refs(o) \cap alloc \subseteq S
  PROVE  Closure(X, Refs) \subseteq S
PROOF
<1> DEFINE closed == {C \in {(X \cap alloc) \cup Y : Y \in SUBSET (alloc \ X)} :
                        \A o \in C : Refs(o) \cap alloc \subseteq C}
<1>1. Closure(X, Refs) = {o \in alloc : \A C \in closed : o \in C}
  BY DEF Closure
<1>2. S \in closed
  <2>1. S \ X \in SUBSET (alloc \ X) /\ S = (X \cap alloc) \cup (S \ X)
    OBVIOUS
  <2> QED
    BY <2>1
<1> HIDE DEF closed
<1> QED
  BY <1>1, <1>2

LEMMA ReachableIn ==
  ASSUME NEW S \in SUBSET alloc, Roots \cap alloc \subseteq S,
         \A o \in S : Refs(o) \cap alloc \subseteq S
  PROVE  Reachable \subseteq S
BY ClosureIn DEF Reachable

LEMMA ReachableInNext ==
  ASSUME NEW S \in SUBSET alloc', (Roots \cap alloc)' \subseteq S,
         \A o \in S : (Refs(o) \cap alloc)' \subseteq S
  PROVE  Reachable' \subseteq S
PROOF
<1> DEFINE closed == {C \in {(Roots \cap alloc)' \cup Y : Y \in SUBSET ((alloc \ Roots)')} :
                        \A o \in C : (Refs(o) \cap alloc)' \subseteq C}
<1>1. Reachable' = {o \in alloc' : \A C \in closed : o \in C}
  BY DEF Reachable, Closure
<1>2. S \in closed
  <2>1. S \ Roots' \in SUBSET ((alloc \ Roots)') /\ S = (Roots \cap alloc)' \cup (S \ Roots')
    OBVIOUS
  <2> QED
    BY <2>1
<1> HIDE DEF closed
<1> QED
  BY <1>1, <1>2

LEMMA ClosureClosed ==
  ASSUME NEW X
  PROVE  /\ Closure(X, Refs) \subseteq alloc /\ X \cap alloc \subseteq Closure(X, Refs)
         /\ \A o \in Closure(X, Refs) : Refs(o) \cap alloc \subseteq Closure(X, Refs)
PROOF
<1> DEFINE closed == {C \in {(X \cap alloc) \cup Y : Y \in SUBSET (alloc \ X)} :
                        \A o \in C : Refs(o) \cap alloc \subseteq C}
           M == {o \in alloc : \A C \in closed : o \in C}
<1>1. Closure(X, Refs) = M
  BY DEF Closure
<1>2. \A C \in closed : X \cap alloc \subseteq C /\ \A o \in C : Refs(o) \cap alloc \subseteq C
  OBVIOUS
<1>3. \A o : o \in M <=> o \in alloc /\ \A C \in closed : o \in C
  OBVIOUS
<1> HIDE DEF closed, M
<1>4. ASSUME NEW o \in M, NEW x \in Refs(o) \cap alloc PROVE x \in M
  BY <1>2, <1>3, <1>4
<1> QED
  BY <1>1, <1>2, <1>3, <1>4

LEMMA ReachableClosed ==
  ASSUME LiveInv
  PROVE  /\ Roots \subseteq Reachable
         /\ \A o \in Reachable : Live(o) /\ Refs(o) \subseteq Reachable
PROOF
<1> DEFINE S == {o \in alloc : ~isdead(o)}
<1>1. S \in SUBSET alloc /\ Roots \cap alloc \subseteq S
  BY DEF LiveInv, NoDangling, Live
<1>2. \A o \in S : Refs(o) \cap alloc \subseteq S
  BY DEF LiveInv, NoDangling, Live
<1>3. \A o \in S : Live(o)
  BY DEF Live
<1> HIDE DEF S
<1>4. Reachable \subseteq S
  BY <1>1, <1>2, ReachableIn
<1>5. /\ Roots \cap alloc \subseteq Reachable
      /\ \A o \in Reachable : Refs(o) \cap alloc \subseteq Reachable
  BY ClosureClosed DEF Reachable
<1>6. Roots \subseteq alloc /\ \A o \in Reachable : Refs(o) \subseteq alloc
  BY <1>3, <1>4 DEF LiveInv, NoDangling, Live
<1> QED
  BY <1>3, <1>4, <1>5, <1>6

(* What the program holds it can reach. *)
LEMMA HeldReachable ==
  ASSUME TypeOK, LiveInv
  PROVE  /\ running \in Reachable /\ MainThread \in Reachable /\ Registry \in Reachable
         /\ \A i \in Slot : L(i) \in Obj => L(i) \in Reachable
         /\ \A o \in Obj : Holds(o) => o \in Reachable /\ Refs(o) \subseteq Reachable
         /\ \A e \in CurrEnvs : e \in Obj => e \in Reachable
PROOF
<1>1. running \in Roots /\ MainThread \in Roots /\ Registry \in Roots
  BY PoolType DEF Roots, TypeOK
<1>2. running \in Reachable /\ MainThread \in Reachable /\ Registry \in Reachable
  BY <1>1, ReachableClosed
<1>3. \A o \in Reachable : Refs(o) \subseteq Reachable
  BY ReachableClosed
<1>4. Refs(running) = Obj \cap ({env[running]} \cup {stack[running][i] : i \in Slot})
  BY RefsByType, PoolType DEF RefsTyped, TypeOK
<1>5. \A i \in Slot : L(i) \in Obj => L(i) \in Reachable
  BY <1>2, <1>3, <1>4 DEF L
<1>6. \A o \in Obj : Holds(o) => o \in Reachable /\ Refs(o) \subseteq Reachable
  BY <1>3, <1>5 DEF Holds
<1>7. ASSUME NEW e \in CurrEnvs, e \in Obj PROVE e \in Reachable
  <2>1. CASE e = env[running]
    BY <1>2, <1>3, <1>4, <1>7, <2>1
  <2>2. ASSUME NEW f \in LClosure \cup CClosure, Holds(f), e = env[f] PROVE e \in Reachable
    <3>1. f \in Obj /\ e \in Refs(f)
      BY <1>7, <2>2, RefsByType, PoolType DEF RefsTyped
    <3> QED
      BY <1>6, <2>2, <3>1
  <2> QED
    BY <1>7, <2>1, <2>2 DEF CurrEnvs
<1> QED
  BY <1>2, <1>5, <1>6, <1>7

(* And so it is live. *)
LEMMA HeldLive ==
  ASSUME TypeOK, LiveInv
  PROVE  /\ Live(running) /\ Live(MainThread) /\ Live(Registry)
         /\ \A i \in Slot : L(i) \in Obj => Live(L(i))
         /\ \A o \in Obj : Holds(o) => Live(o) /\ \A x \in Refs(o) : Live(x)
         /\ \A e \in CurrEnvs : e \in Obj => Live(e)
BY HeldReachable, ReachableClosed

----------------------------------------------------------------------------
(* Steps of the mutator. *)

Nonwhite(S) == \A x \in S \cap Obj : color[x] \notin WhiteBits

(* How a step of the mutator colours an object: new or dead ones white,      *)
(* shaded by a forward barrier or returned to white by one, gray by a back   *)
(* barrier.                                                                  *)
Whitened(o) ==
  /\ color'[o] = currentwhite /\ o \in alloc'
  /\ o \notin alloc \/ isdead(o) \/ (isblack(o) /\ gcstate # "propagate")
Shaded(o) ==
  /\ gcstate = "propagate" /\ o \in alloc /\ iswhite(o)
  /\ color'[o] = MarkColor(o)
  /\ color'[o] = "black" => Nonwhite(Refs(o))'
Regrayed(o) == o \in Table /\ isblack(o) /\ color'[o] = "gray"

Recolored ==
  /\ alloc \subseteq alloc' /\ alloc' \subseteq Obj
  /\ \A o \in alloc' \ alloc : color'[o] = currentwhite
  /\ \A o \in Obj : color'[o] = color[o] \/ Whitened(o) \/ Shaded(o) \/ Regrayed(o)
  /\ gcstate = "propagate" =>
       /\ gray' = gray \cup {o \in Queued : iswhite(o) /\ color'[o] = "gray"}
       /\ grayagain' = grayagain \cup {o \in Obj : isblack(o) /\ color'[o] = "gray"}
       /\ weak' = weak

(* What a step may let refer to new objects: stacks, open upvalues, and an   *)
(* object whose barrier the step executes.                                   *)
Open == (Thread \cap alloc) \cup {u \in UpVal : IsOpen(u)}

LEMMA RefsTypeNext == \A o : Refs(o)' \subseteq Obj
  BY DEF Refs

LEMMA RecoloredKeepsLive ==
  ASSUME TypeOK, LiveInv, Recolored, currentwhite' = currentwhite, NEW x, Live(x)
  PROVE  Live(x)'
PROOF
<1>1. x \in Obj /\ otherwhite' = otherwhite
  BY DEF TypeOK, Live, otherwhite
<1>2. MarkColor(x) \in {"black", "gray"}
  BY DEF MarkColor
<1> QED
  BY <1>1, <1>2, Whites DEF Recolored, Whitened, Shaded, Regrayed, Live, isdead

MutatorEffect(D, V) ==
  /\ Recolored /\ UpvalueShared'
  /\ UNCHANGED <<currentwhite, gcstate, tmudata, sweepVars>>
  /\ \A u \in UpVal \cap alloc : uvthread'[u] = uvthread[u]
  /\ D \subseteq alloc
  /\ \A x \in V \cap Obj : Live(x)'
  /\ \A x \in Obj : \/ Refs(x)' \subseteq Refs(x)
                    \/ x \in D \cup Open /\ Refs(x)' \subseteq Refs(x) \cup V
                    \/ x \in alloc' \ alloc
  /\ \A x \in alloc' : x \notin alloc \/ (isdead(x) /\ color'[x] = currentwhite)
                       => Refs(x)' \subseteq V
  /\ gcstate = "propagate" => \A x \in D : color'[x] = "black" => Nonwhite(V)'
  /\ (Obj \cap {running, basemt})' \subseteq V \cup Roots

LEMMA MutatorStep ==
  ASSUME TypeOK, TypeOK', LiveInv, NEW D, NEW V, MutatorEffect(D, V)
  PROVE  LiveInv'
PROOF
<1> USE DEF sweepVars, MutatorEffect
<1>w. otherwhite' = otherwhite
  BY DEF otherwhite
<1>c. \A o \in Obj : MarkColor(o) \in {"black", "gray"}
  BY DEF MarkColor
<1>1. Colored'
  BY <1>c, Whites DEF LiveInv, Colored, Recolored, Whitened, Shaded, Regrayed, isblack
<1>2. Blank'
  <2> SUFFICES ASSUME NEW x \in Obj, x \notin alloc', x \notin UpVal PROVE Refs(x)' = {}
    BY DEF Blank
  <2>1. x \notin alloc /\ Refs(x) = {}
    BY DEF Recolored, LiveInv, Blank
  <2> QED
    BY <2>1 DEF Open
<1>3. Shades'
  <2> SUFFICES ASSUME NEW o \in Obj
               PROVE  /\ color'[o] = "black" => o \notin Thread \cup OpenUpvals'
                      /\ color'[o] = "gray" => o \notin Udata /\ (o \in UpVal => IsOpen(o)')
    BY DEF Shades, isblack, isgray
  <2>1. color'[o] \in {"black", "gray"} => o \in alloc
    BY <1>c, Whites DEF LiveInv, Colored, Recolored, Whitened, Shaded, Regrayed, isblack
  <2>2. o \in alloc /\ o \in UpVal => IsOpen(o)' = IsOpen(o)
    BY DEF IsOpen
  <2>3. MarkColor(o) = "black" => o \in Udata \/ (o \in UpVal /\ ~IsOpen(o))
    BY DEF MarkColor
  <2>4. MarkColor(o) = "gray" => o \notin Udata /\ (o \in UpVal => IsOpen(o))
    BY DEF MarkColor
  <2>5. o \in Udata => o \notin Thread \cup UpVal
    BY DisjointUdata
  <2>6. o \in UpVal => o \notin Thread
    BY DisjointThread
  <2>7. o \in Table => o \notin Udata \cup UpVal
    BY DisjointTable
  <2> QED
    BY <2>1, <2>2, <2>3, <2>4, <2>5, <2>6, <2>7, Whites
       DEF LiveInv, Shades, Recolored, Whitened, Shaded, Regrayed, isblack, isgray, OpenUpvals
<1>4. Ahead'
  <2>1. OpenUpvals \subseteq OpenUpvals' /\ OpenUpvals' \cap alloc = OpenUpvals
    BY DEF OpenUpvals, IsOpen, Recolored
  <2>2. (sweepstr \cup sweepgc)' \subseteq alloc' \ OpenUpvals'
    BY <2>1 DEF LiveInv, Ahead, Recolored
  <2>3. ASSUME gcstate \in {"sweepstring", "sweep"}, NEW o \in alloc', o \notin tmudata,
               color'[o] # currentwhite
        PROVE  \/ o \in sweepstr \cup sweepgc
               \/ o \in OpenUpvals' /\ uvthread'[o] \in sweepgc
    <3>1. o \in alloc /\ o \in Obj
      BY <2>3 DEF Recolored
    <3>2. color[o] # currentwhite
      BY <2>3, <3>1, Whites DEF Recolored, Whitened, Shaded, Regrayed, isblack
    <3> QED
      BY <2>1, <2>3, <3>1, <3>2 DEF LiveInv, Ahead, OpenUpvals
  <2> QED
    BY <2>2, <2>3 DEF LiveInv, Ahead
<1>5. NoneDead'
  BY <1>w, <1>c, Whites
     DEF LiveInv, NoneDead, Recolored, Whitened, Shaded, Regrayed, isdead
<1>6. CycleClean'
  BY <1>c, Whites, RecoloredKeepsLive
     DEF LiveInv, CycleClean, Recolored, Whitened, Shaded, Regrayed, isblack
<1>7. TriColor'
  <2> SUFFICES ASSUME gcstate = "propagate", NEW o \in alloc', o \notin tmudata,
                      color'[o] = "black"
               PROVE  Nonwhite(Refs(o))'
    BY RefsTypeNext DEF TriColor, isblack, iswhite, Nonwhite
  <2>1. o \in alloc /\ o \in Obj
    BY Whites DEF Recolored
  <2>2. CASE color[o] = "black"
    <3>1. o \notin Open
      BY <2>1, <2>2, DisjointThread DEF LiveInv, Shades, Open, OpenUpvals, isblack
    <3>2. Nonwhite(Refs(o))
      BY <2>1, <2>2 DEF LiveInv, TriColor, Nonwhite, isblack, iswhite
    <3>3. Refs(o)' \subseteq Refs(o) \/ (o \in D /\ Refs(o)' \subseteq Refs(o) \cup V)
      BY <2>1, <2>2, <3>1, Whites DEF isdead
    <3>4. \A x \in Obj : color[x] \notin WhiteBits => x \in alloc \/ color[x] = "none"
      BY DEF LiveInv, Colored
    <3>5. \A x \in Refs(o) : x \in alloc
      BY <2>1, <2>2, Whites DEF LiveInv, NoDangling, Live, isdead
    <3>6. \A x \in Obj \cap Refs(o) : color'[x] \notin WhiteBits
      BY <3>2, <3>5, <1>c, Whites
         DEF Nonwhite, Recolored, Whitened, Shaded, Regrayed, isdead
    <3> QED
      BY <3>3, <3>6 DEF Nonwhite
  <2>3. CASE color[o] # "black"
    BY <2>1, <2>3, Whites DEF Recolored, Whitened, Shaded, Regrayed
  <2> QED
    BY <2>2, <2>3
<1>8. GrayListed'
  <2> SUFFICES ASSUME gcstate = "propagate" PROVE GrayListed'
    BY DEF GrayListed
  <2>1. gray \cup grayagain \cup weak = {o \in alloc \cap Queued : isgray(o)}
    BY DEF LiveInv, GrayListed
  <2>2. gray \cap grayagain = {} /\ gray \cap weak = {} /\ grayagain \cap weak = {}
    BY DEF LiveInv, GrayListed
  <2>3. Queued \subseteq Obj /\ Table \subseteq Queued
    BY QueuedType DEF Queued
  <2>4. \A o \in Obj : isblack(o) /\ color'[o] = "gray" => o \in Table
    BY Whites DEF Recolored, Whitened, Shaded, Regrayed, isblack, iswhite
  <2>5. \A o \in Obj : isgray(o) => color'[o] = "gray"
    BY Whites DEF Recolored, Whitened, Shaded, Regrayed, isgray, isdead, isblack, iswhite,
                  LiveInv, Colored
  <2>6. \A o \in Obj : color'[o] = "gray" => o \in alloc /\ (isgray(o) \/ isblack(o) \/ iswhite(o))
    BY <1>c, Whites DEF Recolored, Whitened, Shaded, Regrayed, isgray, isblack, iswhite,
                  LiveInv, Colored
  <2>7. /\ gray' = gray \cup {o \in Queued : iswhite(o) /\ color'[o] = "gray"}
        /\ grayagain' = grayagain \cup {o \in Obj : isblack(o) /\ color'[o] = "gray"}
        /\ weak' = weak /\ alloc \subseteq alloc'
    BY DEF Recolored
  <2>8. \A o : ~(isgray(o) /\ isblack(o)) /\ ~(isgray(o) /\ iswhite(o)) /\ ~(isblack(o) /\ iswhite(o))
    BY Whites DEF isgray, isblack, iswhite
  <2>9. (gray \cup grayagain \cup weak)' = {o \in alloc' \cap Queued : color'[o] = "gray"}
    BY <2>1, <2>3, <2>4, <2>5, <2>6, <2>7, <2>8
  <2>10. /\ (gray \cap grayagain)' = {} /\ (gray \cap weak)' = {}
         /\ (grayagain \cap weak)' = {}
    BY <2>1, <2>2, <2>3, <2>7, <2>8
  <2> QED
    BY <2>9, <2>10 DEF GrayListed, isgray
<1>9. NoDangling'
  <2>1. \A x \in Roots' : Live(x)'
    <3>1. Roots' \subseteq V \cup Roots
      BY DEF Roots
    <3>2. Roots' \subseteq Obj
      BY DEF Roots
    <3> QED
      BY <3>1, <3>2, RecoloredKeepsLive DEF LiveInv, NoDangling
  <2>2. ASSUME NEW o \in alloc', ~isdead(o)', NEW x \in Refs(o)' PROVE Live(x)'
    <3>1. o \in Obj /\ x \in Obj
      BY RefsTypeNext DEF Recolored
    <3>2. CASE o \in alloc /\ ~isdead(o)
      <4>1. \A y \in Refs(o) : Live(y)'
        BY <3>2, RecoloredKeepsLive DEF LiveInv, NoDangling
      <4>2. Refs(o)' \subseteq Refs(o) \cup V
        BY <3>1, <3>2
      <4> QED
        BY <2>2, <3>1, <4>1, <4>2
    <3>3. CASE o \in alloc /\ isdead(o)
      <4>1. color'[o] = currentwhite
        BY <1>w, <1>c, <2>2, <3>1, <3>3, Whites
           DEF LiveInv, NoneDead, Recolored, Whitened, Shaded, Regrayed, isdead, isblack
      <4> QED
        BY <2>2, <3>1, <3>3, <4>1
    <3>4. CASE o \notin alloc
      BY <2>2, <3>1, <3>4
    <3> QED
      BY <3>2, <3>3, <3>4
  <2> QED
    BY <2>1, <2>2 DEF NoDangling
<1>10. RootsMarked'
  <2>1. \A o \in Obj : gcstate = "propagate" /\ o \in alloc /\ ~iswhite(o) => ~iswhite(o)'
    BY <1>c, Whites DEF Recolored, Whitened, Shaded, Regrayed, iswhite, isdead
  <2> QED
    BY <2>1, PoolType DEF LiveInv, RootsMarked, NoDangling, Roots, Live
<1> QED
  BY <1>1, <1>2, <1>3, <1>4, <1>5, <1>6, <1>7, <1>8, <1>9, <1>10 DEF LiveInv

(* Seen from the heap, such a step adds new objects and what is found without *)
(* a reference to what the program reaches.                                   *)
Grows ==
  /\ alloc \subseteq alloc'
  /\ \E R \in SUBSET (alloc \cap (Str \cup UpVal)) :
       Reachable' \subseteq Reachable \cup (alloc' \ alloc) \cup Closure(R, Refs)

LEMMA GrowStep ==
  ASSUME TypeOK, LiveInv, NEW D, NEW V, MutatorEffect(D, V),
         NEW R \in SUBSET (alloc \cap (Str \cup UpVal)),
         V \cap Obj \subseteq Reachable \cup (alloc' \ alloc) \cup R
  PROVE  Grows
PROOF
<1> DEFINE New == alloc' \ alloc
           C == Closure(R, Refs)
           W == Reachable \cup New \cup C
<1>1. /\ C \subseteq alloc /\ R \subseteq C
      /\ \A o \in C : Refs(o) \cap alloc \subseteq C
  BY ClosureClosed
<1>2. Roots \subseteq Reachable /\ \A o \in Reachable : o \in alloc /\ Refs(o) \subseteq Reachable
  BY ReachableClosed DEF Live
<1>3. alloc \subseteq alloc' /\ alloc \subseteq Obj /\ alloc' \subseteq Obj
  BY DEF TypeOK, MutatorEffect, Recolored
<1>4. V \cap Obj \subseteq W
  BY <1>1
<1>5. \A x \in alloc : Refs(x)' \subseteq Refs(x) \cup V
  BY <1>3 DEF MutatorEffect
<1>6. \A x \in New : Refs(x)' \subseteq V
  BY DEF MutatorEffect
<1>7. Roots' \subseteq V \cup Roots
  BY DEF MutatorEffect, Roots
<1> HIDE DEF C, New
<1>8. W \in SUBSET alloc'
  BY <1>1, <1>2, <1>3 DEF New
<1>9. (Roots \cap alloc)' \subseteq W
  BY <1>2, <1>3, <1>4, <1>7
<1>10. ASSUME NEW o \in W, NEW x \in (Refs(o) \cap alloc)' PROVE x \in W
  <2>1. x \in Obj /\ (x \in alloc \/ x \in New) /\ x \in Refs(o)'
    BY <1>3, <1>10 DEF New
  <2>2. CASE o \in Reachable
    BY <1>2, <1>4, <1>5, <2>1, <2>2
  <2>3. CASE o \in C
    BY <1>1, <1>4, <1>5, <2>1, <2>3
  <2>4. CASE o \in New
    BY <1>4, <1>6, <2>1, <2>4
  <2> QED
    BY <2>2, <2>3, <2>4
<1> HIDE DEF W
<1>11. Reachable' \subseteq W
  BY <1>8, <1>9, <1>10, ReachableInNext
<1> QED
  BY <1>3, <1>11 DEF W, C, New, Grows

LEMMA NothingRecolored ==
  ASSUME TypeOK, UNCHANGED <<alloc, color, listVars>> PROVE Recolored
PROOF
<1>1. \A o : ~(isblack(o) /\ color'[o] = "gray") /\ ~(iswhite(o) /\ color'[o] = "gray")
  BY Whites DEF isblack, iswhite
<1> QED
  BY <1>1 DEF TypeOK, Recolored, listVars

LEMMA LinkRecolors ==
  ASSUME TypeOK, NEW S \in SUBSET (Obj \ alloc), NEW R, UNCHANGED listVars,
         R \subseteq {o \in alloc : isdead(o)},
         alloc' = alloc \cup S,
         \A o \in Obj : color'[o] = IF o \in S \cup R THEN currentwhite ELSE color[o]
  PROVE  Recolored
PROOF
<1>1. \A o \in Obj : /\ ~(isblack(o) /\ color'[o] = "gray")
                     /\ ~(iswhite(o) /\ color'[o] = "gray")
  BY Whites DEF isblack, iswhite
<1>2. Queued \subseteq Obj
  BY QueuedType
<1> QED
  BY <1>1, <1>2 DEF TypeOK, Recolored, Whitened, listVars

(* The forward barrier of o on v. *)
LEMMA BarrierRecolors ==
  ASSUME TypeOK, LiveInv, NEW o \in Obj, NEW v, v \in Obj => Live(v),
         luaC_barrier(o, v), alloc' = alloc,
         \A x \in Obj \ {o} : x \in Udata \/ (x \in UpVal /\ ~IsOpen(x)) => Refs(x)' = Refs(x)
  PROVE  /\ Recolored
         /\ gcstate = "propagate" /\ color'[o] = "black" => Nonwhite({v})'
         /\ \A x \in Obj : isdead(x) => color'[x] # currentwhite
PROOF
<1>1. CASE ~NeedsBarrier(o, v)
  <2>1. UNCHANGED <<alloc, color, listVars>>
    BY <1>1 DEF luaC_barrier
  <2> QED
    BY <1>1, <2>1, NothingRecolored, Whites DEF NeedsBarrier, Nonwhite, isblack, iswhite, isdead
<1>2. CASE NeedsBarrier(o, v) /\ gcstate # "propagate"
  <2>1. color' = [color EXCEPT ![o] = currentwhite] /\ color \in [Obj -> Color]
    BY <1>2 DEF luaC_barrier, TypeOK
  <2>2. o \in alloc
    BY <1>2, Whites DEF NeedsBarrier, LiveInv, Colored, isblack
  <2> QED
    BY <1>2, <2>1, <2>2, Whites
       DEF Recolored, Whitened, NeedsBarrier, TypeOK, isblack, isdead
<1>3. CASE NeedsBarrier(o, v) /\ gcstate = "propagate"
  <2>1. /\ color' = Marked({v}, color)
        /\ gray' = gray \cup (Reached({v}) \cap Queued)
        /\ UNCHANGED <<grayagain, weak>>
    BY <1>3 DEF luaC_barrier
  <2>2. v \in Obj /\ isblack(o)
    BY <1>3 DEF NeedsBarrier
  <2>3. Reached({v}) \subseteq Obj
    BY <2>2, ReachedType
  <2>4. \A x \in Obj : /\ x \in Reached({v}) => iswhite(x) /\ color'[x] = MarkColor(x)
                       /\ x \notin Reached({v}) => color'[x] = color[x]
    BY <2>1, <2>2, MarkShades
  <2>5. color'[v] \notin WhiteBits
    BY <2>1, <2>2, MarkShades
  <2>6. ASSUME NEW x \in Reached({v}) PROVE Shaded(x)
    <3>1. x \in Obj /\ iswhite(x) /\ color'[x] = MarkColor(x)
      BY <2>3, <2>4
    <3>2. x \in alloc
      BY <3>1, Whites DEF LiveInv, Colored, iswhite
    <3>3. ASSUME MarkColor(x) = "black" PROVE Nonwhite(Refs(x))'
      <4>1. x # o
        BY <2>2, <3>1, Whites DEF isblack, iswhite
      <4>2. x \in Udata \/ (x \in UpVal /\ ~IsOpen(x))
        BY <3>3 DEF MarkColor
      <4>3. Refs(x)' = Refs(x)
        BY <3>1, <4>1, <4>2
      <4> QED
        BY <2>1, <2>2, <3>1, <3>3, <4>3, MarkShades DEF Nonwhite
    <3> QED
      BY <1>3, <3>1, <3>2, <3>3 DEF Shaded
  <2>7. \A x \in Queued : x \in Obj /\ MarkColor(x) = "gray"
    BY QueuedType DEF MarkColor
  <2>8. \A x \in Obj : ~(isblack(x) /\ color'[x] = "gray")
    BY <2>4, Whites DEF isblack, iswhite
  <2>9. \A x \in Queued : iswhite(x) /\ color'[x] = "gray" <=> x \in Reached({v})
    BY <2>4, <2>7, Whites DEF iswhite
  <2>10. \A x \in Obj : isdead(x) => color'[x] # currentwhite
    BY <2>4, Whites DEF isdead, MarkColor
  <2>11. alloc' = alloc /\ alloc \subseteq Obj
    BY DEF TypeOK
  <2>12. \A x \in Obj : color'[x] = color[x] \/ Shaded(x)
    BY <2>4, <2>6
  <2>13. gray' = gray \cup {x \in Queued : iswhite(x) /\ color'[x] = "gray"}
    BY <2>1, <2>9
  <2>14. grayagain' = grayagain \cup {x \in Obj : isblack(x) /\ color'[x] = "gray"}
    BY <2>1, <2>8
  <2>15. Recolored
    BY <2>1, <2>11, <2>12, <2>13, <2>14 DEF Recolored
  <2> QED
    BY <2>5, <2>10, <2>15 DEF Nonwhite
<1> QED
  BY <1>1, <1>2, <1>3

(* The back barrier of table t on the values vs. *)
LEMMA BackBarrierRecolors ==
  ASSUME TypeOK, LiveInv, NEW t \in Table, NEW vs, luaC_barriert(t, vs), alloc' = alloc
  PROVE  /\ Recolored
         /\ gcstate = "propagate" /\ color'[t] = "black" => Nonwhite(vs)'
         /\ \A x \in Obj : isdead(x) => color'[x] # currentwhite
PROOF
<1>1. CASE \A v \in vs : ~NeedsBarrier(t, v)
  <2>1. UNCHANGED <<alloc, color, listVars>>
    BY <1>1 DEF luaC_barriert
  <2> QED
    BY <1>1, <2>1, NothingRecolored, Whites DEF NeedsBarrier, Nonwhite, isblack, iswhite, isdead
<1>2. CASE \E v \in vs : NeedsBarrier(t, v)
  <2>1. /\ color' = [color EXCEPT ![t] = "gray"]
        /\ grayagain' = IF gcstate = "propagate" THEN grayagain \cup {t} ELSE grayagain
        /\ UNCHANGED <<gray, weak>>
    BY <1>2 DEF luaC_barriert
  <2>2. isblack(t) /\ t \in Obj
    BY <1>2 DEF NeedsBarrier, Obj
  <2>3. \A x \in Obj : color'[x] = IF x = t THEN "gray" ELSE color[x]
    BY <2>1 DEF TypeOK
  <2>4. \A x \in Obj : isblack(x) /\ color'[x] = "gray" <=> x = t
    BY <2>2, <2>3 DEF isblack
  <2>5. \A x \in Queued : ~(iswhite(x) /\ color'[x] = "gray")
    BY <2>2, <2>3, QueuedType, Whites DEF isblack, iswhite
  <2> QED
    BY <2>1, <2>2, <2>3, <2>4, <2>5, Whites DEF Recolored, Regrayed, TypeOK, isdead
<1> QED
  BY <1>1, <1>2

LEMMA SameUpvals ==
  ASSUME TypeOK, LiveInv, UNCHANGED upvalVars, alloc \subseteq alloc',
         alloc' \cap UpVal = alloc \cap UpVal
  PROVE  UpvalueShared' /\ \A u \in UpVal \cap alloc : uvthread'[u] = uvthread[u]
PROOF
<1>1. OpenUpvals' = OpenUpvals
  BY DEF OpenUpvals, IsOpen, upvalVars
<1> QED
  BY <1>1 DEF LiveInv, UpvalueShared, upvalVars

----------------------------------------------------------------------------
(* The actions of the mutator. *)

(* New objects of S, those of R found without a reference and revived when    *)
(* they are dead, and a value for a register.                                 *)
RegisterEffect(S, R, th, j, v) ==
  /\ UpvalueShared'
  /\ S \subseteq Obj \ alloc /\ R \subseteq alloc \cap (Str \cup UpVal)
  /\ alloc' = alloc \cup S
  /\ \A o \in Obj : color'[o] = IF o \in S \/ (o \in R /\ isdead(o)) THEN currentwhite
                                ELSE color[o]
  /\ \A x \in Obj \ S : SameFields(x)
  /\ th \in Thread \cap alloc /\ j \in Slot
  /\ stack' = [stack EXCEPT ![th][j] = v]
  /\ v \in Obj => v \in S \cup R \cup Reachable
  /\ \A x \in S \cup R : Refs(x)' \subseteq S \cup R \cup Reachable
  /\ running' \in Reachable /\ UNCHANGED <<basemt, listVars, collectorState>>

LEMMA RegisterStep ==
  ASSUME TypeOK, TypeOK', LiveInv, NEW S, NEW R, NEW th, NEW j, NEW v,
         RegisterEffect(S, R, th, j, v)
  PROVE  LiveInv' /\ Grows
PROOF
<1> USE DEF RegisterEffect
<1> DEFINE V == Reachable \cup S \cup R
<1>1. Recolored
  <2> DEFINE dead == {o \in R : isdead(o)}
  <2>1. \A o \in Obj : color'[o] = IF o \in S \cup dead THEN currentwhite ELSE color[o]
    OBVIOUS
  <2>2. dead \subseteq {o \in alloc : isdead(o)} /\ S \in SUBSET (Obj \ alloc)
    OBVIOUS
  <2> HIDE DEF dead
  <2> QED
    BY <2>1, <2>2, LinkRecolors
<1>2. \A x \in V \cap Obj : Live(x)'
  <2>1. \A x \in S \cup R : x \in alloc' /\ (color'[x] = currentwhite \/ Live(x))
    BY DEF TypeOK, Live
  <2>2. otherwhite' = otherwhite
    BY DEF otherwhite, collectorState
  <2> QED
    BY <1>1, <2>1, <2>2, ReachableClosed, RecoloredKeepsLive, Whites DEF Live, isdead, collectorState
<1>3. ASSUME NEW x \in Obj \ S
      PROVE  \/ Refs(x)' \subseteq Refs(x)
             \/ x \in Open /\ Refs(x)' \subseteq Refs(x) \cup V
  <2>1. /\ Refs(x)' \subseteq Refs(x) \cup {v}
        /\ x # th /\ ~(x \in UpVal /\ IsOpen(x)) => Refs(x)' = Refs(x)
    BY <1>3, AssignRefs
  <2> QED
    BY <2>1, RefsTypeNext DEF Open
<1>4. \A x \in S \cup R : Refs(x)' \subseteq V
  BY RefsTypeNext
<1>5. \A x \in alloc : isdead(x) /\ color'[x] = currentwhite => x \in R
  BY Whites DEF TypeOK, isdead
<1>6. \A u \in UpVal \cap alloc : uvthread'[u] = uvthread[u]
  BY PoolType DEF SameFields
<1>7. (Obj \cap {running, basemt})' \subseteq V \cup Roots
  BY DEF Roots
<1>8. UNCHANGED <<currentwhite, gcstate, tmudata, sweepVars>>
  BY DEF collectorState, finVars
<1> DEFINE D == {}
<1>9. \A x \in Obj : \/ Refs(x)' \subseteq Refs(x)
                     \/ x \in D \cup Open /\ Refs(x)' \subseteq Refs(x) \cup V
                     \/ x \in alloc' \ alloc
  BY <1>3
<1>10. \A x \in alloc' : x \notin alloc \/ (isdead(x) /\ color'[x] = currentwhite)
                          => Refs(x)' \subseteq V
  BY <1>4, <1>5
<1>11. gcstate = "propagate" => \A x \in D : color'[x] = "black" => Nonwhite(V)'
  OBVIOUS
<1>12. D \in SUBSET Obj /\ D \subseteq alloc
  OBVIOUS
<1>13. MutatorEffect(D, V)
  BY <1>1, <1>2, <1>6, <1>7, <1>8, <1>9, <1>10, <1>11, <1>12 DEF MutatorEffect
<1>14. /\ R \in SUBSET (alloc \cap (Str \cup UpVal))
       /\ V \cap Obj \subseteq Reachable \cup (alloc' \ alloc) \cup R
  OBVIOUS
<1> HIDE DEF V, D, RegisterEffect
<1> QED
  BY <1>13, <1>14, MutatorStep, GrowStep

LEMMA NewObject ==
  ASSUME TypeOK, TypeOK', LiveInv,
         NEW o \in Obj \ (alloc \cup UpVal), Link(o), NEW j \in Slot, Assign(j, o),
         \A x \in Obj \ {o} : SameFields(x),
         Refs(o)' \subseteq {o} \cup Reachable,
         UNCHANGED <<upvalVars, running, basemt, listVars, collectorState>>
  PROVE  LiveInv' /\ Grows
PROOF
<1>1. UpvalueShared'
  BY SameUpvals DEF Link
<1>2. \A x \in Obj : color'[x] = IF x \in {o} \/ (x \in {} /\ isdead(x)) THEN currentwhite
                                   ELSE color[x]
  BY DEF Link, TypeOK
<1>3. running \in Thread \cap alloc /\ running' \in Reachable
  BY HeldReachable, ReachableClosed DEF TypeOK, Live
<1>4. RegisterEffect({o}, {}, running, j, o)
  BY <1>1, <1>2, <1>3 DEF RegisterEffect, Link, Assign
<1> QED
  BY <1>4, RegisterStep

LEMMA TableLive ==
  ASSUME TypeOK, TypeOK', LiveInv, NEW t \in Table, NEW j \in Slot, luaH_new(t, j)
  PROVE  LiveInv' /\ Grows
PROOF
<1>1. t \in Obj \ (alloc \cup UpVal) /\ t # running
  BY PoolType, DisjointTable DEF luaH_new, TypeOK
<1>2. \A x : SameFields(x)
  BY UnchangedFields DEF luaH_new
<1>3. Refs(t)' = {}
  <2>1. Refs(t) = {}
    BY <1>1 DEF LiveInv, Blank
  <2>2. stack' = [stack EXCEPT ![running][j] = t]
    BY DEF luaH_new, Assign
  <2>3. running \in Thread
    BY DEF TypeOK
  <2>4. t \in Obj /\ t # running /\ ~(t \in UpVal /\ IsOpen(t)) /\ SameFields(t)
    BY <1>1, <1>2
  <2>5. Refs(t)' = Refs(t)
    BY <2>2, <2>3, <2>4, AssignRefs
  <2> QED
    BY <2>1, <2>5
<1>4. /\ Link(t) /\ Assign(j, t)
      /\ UNCHANGED <<upvalVars, running, basemt, listVars, collectorState>>
  BY DEF luaH_new
<1>5. Refs(t)' \subseteq {t} \cup Reachable
  BY <1>3
<1>6. t \in Obj \ (alloc \cup UpVal) /\ \A x \in Obj \ {t} : SameFields(x)
  BY <1>1, <1>2
<1> QED
  BY <1>4, <1>5, <1>6, NewObject

LEMMA UdataLive ==
  ASSUME TypeOK, TypeOK', LiveInv, NEW u \in Udata, NEW j \in Slot, luaS_newudata(u, j)
  PROVE  LiveInv' /\ Grows
PROOF
<1>1. u \in Obj \ (alloc \cup UpVal)
  BY PoolType, DisjointUdata DEF luaS_newudata
<1>2. PICK e \in CurrEnvs : env' = [env EXCEPT ![u] = e]
  BY DEF luaS_newudata
<1>3. \A x \in Obj \ {u} : SameFields(x)
  BY <1>2 DEF luaS_newudata, SameFields, upvalVars, TypeOK
<1>4. metatable[u] \notin Obj
  BY <1>1, RefsByType DEF RefsTyped, LiveInv, Blank
<1>5. Refs(u)' = Obj \cap {metatable[u], e}
  BY <1>1, <1>2, RefsByTypeNext DEF RefsTyped, luaS_newudata, TypeOK
<1> QED
  BY <1>1, <1>3, <1>4, <1>5, HeldReachable, NewObject DEF luaS_newudata

LEMMA ThreadLive ==
  ASSUME TypeOK, TypeOK', LiveInv, NEW th \in Thread, NEW j \in Slot,
         luaE_newthread(th, j)
  PROVE  LiveInv' /\ Grows
PROOF
<1>1. th \in Obj \ (alloc \cup UpVal) /\ th # running
  BY PoolType, DisjointThread, HeldLive DEF luaE_newthread, Live
<1>2. \A x \in Obj \ {th} : SameFields(x)
  BY DEF luaE_newthread, SameFields, upvalVars, TypeOK
<1>3. \A i \in Slot : stack'[th][i] = stack[th][i] /\ stack[th][i] \notin Obj
  <2>1. Refs(th) = {} /\ Refs(th) = Obj \cap ({env[th]} \cup {stack[th][i] : i \in Slot})
    BY <1>1, RefsByType DEF RefsTyped, LiveInv, Blank
  <2>2. stack'[th] = stack[th]
    BY <1>1 DEF luaE_newthread, Assign, TypeOK
  <2> QED
    BY <2>1, <2>2
<1>4. Refs(th)' = Obj \cap ({env'[th]} \cup {stack'[th][i] : i \in Slot})
  BY <1>1, RefsByTypeNext DEF RefsTyped
<1>5. env'[th] = env[running] /\ env[running] \in CurrEnvs
  BY DEF luaE_newthread, CurrEnvs, TypeOK
<1>6. Refs(th)' \subseteq Reachable
  BY <1>3, <1>4, <1>5, HeldReachable
<1> QED
  BY <1>1, <1>2, <1>6, NewObject DEF luaE_newthread

LEMMA CClosureLive ==
  ASSUME TypeOK, TypeOK', LiveInv, NEW c \in CClosure, NEW i \in Slot, NEW j \in Slot,
         lua_pushcclosure(c, i, j)
  PROVE  LiveInv' /\ Grows
PROOF
<1>1. c \in Obj \ (alloc \cup UpVal)
  BY PoolType, DisjointCClosure DEF lua_pushcclosure
<1>2. PICK e \in CurrEnvs : env' = [env EXCEPT ![c] = e]
  BY DEF lua_pushcclosure
<1>3. \A x \in Obj \ {c} : SameFields(x)
  BY <1>2 DEF lua_pushcclosure, SameFields, upvalVars, TypeOK
<1>4. Refs(c)' = Obj \cap {e, L(i)}
  BY <1>1, <1>2, RefsByTypeNext DEF RefsTyped, lua_pushcclosure, TypeOK
<1>5. Refs(c)' \subseteq Reachable
  BY <1>4, HeldReachable
<1> QED
  BY <1>1, <1>3, <1>5, NewObject DEF lua_pushcclosure

LEMMA GetUpvalLive ==
  ASSUME TypeOK, TypeOK', LiveInv, NEW f \in LClosure, NEW cl \in LClosure,
         NEW j \in Slot, OP_CLOSURE_GETUPVAL(f, cl, j)
  PROVE  LiveInv' /\ Grows
PROOF
<1>1. f \in Obj \ (alloc \cup UpVal)
  BY PoolType, DisjointLClosure DEF OP_CLOSURE_GETUPVAL
<1>2. \A x \in Obj \ {f} : SameFields(x)
  BY DEF OP_CLOSURE_GETUPVAL, SameFields, upvalVars, TypeOK
<1>3. Refs(f)' = Obj \cap ({env[cl]} \cup upvals[cl])
  BY <1>1, RefsByTypeNext DEF RefsTyped, OP_CLOSURE_GETUPVAL, TypeOK
<1>4. Refs(cl) = Obj \cap ({env[cl]} \cup upvals[cl]) /\ cl \in Obj
  BY RefsByType, PoolType DEF RefsTyped
<1>5. Refs(f)' \subseteq Reachable
  BY <1>3, <1>4, HeldReachable DEF OP_CLOSURE_GETUPVAL
<1> QED
  BY <1>1, <1>2, <1>5, NewObject DEF OP_CLOSURE_GETUPVAL

LEMMA StringLive ==
  ASSUME TypeOK, TypeOK', LiveInv, NEW s \in Str, NEW j \in Slot, luaS_newlstr(s, j)
  PROVE  LiveInv' /\ Grows
PROOF
<1> DEFINE S == {s} \ alloc
           R == {s} \cap alloc
<1>1. s \in Obj \ UpVal
  BY PoolType, DisjointUpVal
<1>2. \A x : SameFields(x)
  BY UnchangedFields DEF luaS_newlstr
<1>3. Refs(s)' = {}
  BY <1>1, RefsByTypeNext DEF RefsTyped
<1>4. /\ \A x \in Obj : color'[x] = IF x \in S \/ (x \in R /\ isdead(x)) THEN currentwhite
                                   ELSE color[x]
      /\ alloc' = alloc \cup S
  BY <1>1 DEF luaS_newlstr, TypeOK
<1>5. s \in S \cup R \cup Reachable
  OBVIOUS
<1>6. running \in Thread \cap alloc /\ running' \in Reachable
  BY HeldReachable, ReachableClosed DEF TypeOK, Live, luaS_newlstr
<1>7. UpvalueShared'
  BY <1>1, <1>4, SameUpvals DEF luaS_newlstr
<1>8. S \in SUBSET (Obj \ alloc) /\ R \in SUBSET (alloc \cap (Str \cup UpVal))
      /\ \A x \in S \cup R : x = s
  BY <1>1
<1> HIDE DEF S, R
<1>9. RegisterEffect(S, R, running, j, s)
  BY <1>2, <1>3, <1>4, <1>5, <1>6, <1>7, <1>8 DEF RegisterEffect, luaS_newlstr, Assign
<1> QED
  BY <1>9, RegisterStep

LEMMA ClosureLive ==
  ASSUME TypeOK, TypeOK', LiveInv, NEW f \in LClosure, NEW i \in Slot, NEW j \in Slot,
         OP_CLOSURE(f, i, j)
  PROVE  LiveInv' /\ Grows
PROOF
<1>1. f \in Obj \ (alloc \cup UpVal)
  BY PoolType, DisjointLClosure DEF OP_CLOSURE
<1>2. PICK e \in CurrEnvs : env' = [env EXCEPT ![f] = e]
  BY DEF OP_CLOSURE
<1>3. running \in Thread \cap alloc /\ running' \in Reachable /\ Assign(j, f)
  BY HeldReachable, ReachableClosed DEF TypeOK, Live, OP_CLOSURE
<1>4. UNCHANGED <<metatable, node, cupval, running, basemt, listVars, collectorState>>
  BY DEF OP_CLOSURE
<1>5. UpVal \subseteq Obj /\ alloc \subseteq Obj
  BY PoolType DEF TypeOK
<1>6. stack'[running][i] \in {L(i), f}
  BY <1>3 DEF Assign, L, TypeOK
<1>7. ASSUME NEW u \in luaF_findupval(i), ShareUpval(f, u) PROVE LiveInv' /\ Grows
  <2>1. u \in UpVal \cap alloc /\ uvthread[u] = running /\ uvslot[u] = i /\ IsOpen(u)
    BY <1>7 DEF luaF_findupval, OpenUpvals
  <2>2. upvals' = [upvals EXCEPT ![f] = {u}] /\ UNCHANGED upvalVars
    BY <1>7 DEF ShareUpval
  <2>3. \A x \in Obj \ {f} : SameFields(x)
    BY <1>2, <1>4, <2>2 DEF SameFields, upvalVars, TypeOK
  <2>4. /\ \A x \in Obj : color'[x] = IF x \in {f} \/ (x \in {u} /\ isdead(x))
                                     THEN currentwhite ELSE color[x]
        /\ alloc' = alloc \cup {f}
    BY <1>1, <1>7, <2>1 DEF ShareUpval, TypeOK
  <2>6. Refs(f)' = Obj \cap ({e} \cup {u})
    BY <1>1, <1>2, <2>2, RefsByTypeNext DEF RefsTyped, TypeOK
  <2>7. Refs(u)' = Obj \cap {stack'[running][i]}
    BY <1>5, <2>1, <2>2, RefsByTypeNext DEF RefsTyped, UpvalValue, IsOpen, upvalVars
  <2>8. \A x \in {f} \cup {u} : Refs(x)' \subseteq {f} \cup {u} \cup Reachable
    BY <1>6, <2>6, <2>7, HeldReachable
  <2>9. UpvalueShared'
    BY <1>1, <2>2, <2>4, SameUpvals
  <2>10. {u} \in SUBSET (alloc \cap (Str \cup UpVal)) /\ {f} \in SUBSET (Obj \ alloc)
    BY <1>1, <2>1
  <2>11. RegisterEffect({f}, {u}, running, j, f)
    BY <1>3, <1>4, <2>3, <2>4, <2>8, <2>9, <2>10 DEF RegisterEffect, Assign
  <2> QED
    BY <2>11, RegisterStep
<1>8. ASSUME luaF_findupval(i) = {}, NEW u \in UpVal \ alloc, OpenUpval(f, u, i) PROVE LiveInv' /\ Grows
  <2>1. /\ upvals' = [upvals EXCEPT ![f] = {u}]
        /\ uvthread' = [uvthread EXCEPT ![u] = running]
        /\ uvslot' = [uvslot EXCEPT ![u] = i]
        /\ uvvalue' = uvvalue
        /\ alloc' = alloc \cup {f, u}
    BY <1>8 DEF OpenUpval
  <2>2. u # f /\ {f, u} \in SUBSET (Obj \ alloc)
    BY <1>1, <1>5, <1>8
  <2>3. \A x \in Obj \ {f, u} : SameFields(x)
    BY <1>2, <1>4, <2>1 DEF SameFields, TypeOK
  <2>4. \A x \in Obj : color'[x] = IF x \in {f, u} \/ (x \in {} /\ isdead(x))
                                     THEN currentwhite ELSE color[x]
    BY <1>8, <2>2 DEF OpenUpval, TypeOK
  <2>5. Refs(f)' = Obj \cap ({e} \cup {u})
    BY <1>1, <1>2, <2>1, RefsByTypeNext DEF RefsTyped, TypeOK
  <2>6. uvthread'[u] = running /\ uvslot'[u] = i /\ running # Nil
    BY <1>3, <2>1, <1>8, PoolType DEF TypeOK
  <2>7. Refs(u)' = Obj \cap {stack'[running][i]}
    BY <1>5, <2>6, RefsByTypeNext DEF RefsTyped, UpvalValue, IsOpen
  <2>8. \A x \in {f, u} : Refs(x)' \subseteq {f, u} \cup Reachable
    BY <1>6, <2>5, <2>7, HeldReachable
  <2>9. OpenUpvals' = OpenUpvals \cup {u}
    BY <1>1, <1>8, <2>1, <2>6 DEF OpenUpvals, IsOpen, TypeOK
  <2>10. \A w \in OpenUpvals : w # u /\ uvthread'[w] = uvthread[w] /\ uvslot'[w] = uvslot[w]
    BY <1>8, <2>1 DEF OpenUpvals, TypeOK
  <2>11. UpvalueShared'
    BY <1>3, <1>8, <2>1, <2>6, <2>9, <2>10 DEF LiveInv, UpvalueShared, luaF_findupval
  <2>12. RegisterEffect({f, u}, {}, running, j, f)
    BY <1>3, <1>4, <2>1, <2>2, <2>3, <2>4, <2>8, <2>11 DEF RegisterEffect, Assign
  <2> QED
    BY <2>12, RegisterStep
<1> QED
  BY <1>7, <1>8 DEF OP_CLOSURE

LEMMA AllocateLive == ASSUME TypeOK, TypeOK', LiveInv, Allocate PROVE LiveInv' /\ Grows
  BY TableLive, UdataLive, ThreadLive, CClosureLive, GetUpvalLive, StringLive, ClosureLive
     DEF Allocate

----------------------------------------------------------------------------
(* Stores: the fields of the objects of D may refer to values of V. *)

StoreEffect(D, V) ==
  /\ D \subseteq alloc
  /\ Recolored /\ alloc' = alloc /\ uvthread' = uvthread /\ uvslot' = uvslot
  /\ UNCHANGED <<running, collectorState>> /\ basemt' \in V \cup {basemt}
  /\ V \cap Obj \subseteq Reachable
  /\ \A x \in Obj : \/ Refs(x)' \subseteq Refs(x)
                    \/ x \in D \cup Open /\ Refs(x)' \subseteq Refs(x) \cup V
  /\ \A x \in Obj : isdead(x) => color'[x] # currentwhite
  /\ gcstate = "propagate" => \A x \in D : color'[x] = "black" => Nonwhite(V)'

LEMMA StoreStep ==
  ASSUME TypeOK, TypeOK', LiveInv, NEW D, NEW V, StoreEffect(D, V) PROVE LiveInv' /\ Grows
PROOF
<1> USE DEF StoreEffect
<1>1. UpvalueShared'
  BY DEF LiveInv, UpvalueShared, OpenUpvals, IsOpen
<1>2. UNCHANGED <<currentwhite, gcstate, tmudata, sweepVars>>
  BY DEF collectorState, finVars
<1>3. \A x \in V \cap Obj : Live(x)'
  BY <1>2, ReachableClosed, RecoloredKeepsLive
<1>4. (Obj \cap {running, basemt})' \subseteq V \cup Roots
  BY DEF Roots
<1>5. alloc \subseteq Obj
  BY DEF TypeOK
<1>6. MutatorEffect(D, V)
  BY <1>1, <1>2, <1>3, <1>4, <1>5 DEF MutatorEffect
<1>7. /\ {} \in SUBSET (alloc \cap (Str \cup UpVal))
      /\ V \cap Obj \subseteq Reachable \cup (alloc' \ alloc) \cup {}
  OBVIOUS
<1> HIDE DEF StoreEffect
<1> QED
  BY <1>6, <1>7, MutatorStep, GrowStep

LEMMA TableStoreLive ==
  ASSUME TypeOK, TypeOK', LiveInv, NEW t \in Table, NEW k \in Keys, NEW v \in Value,
         luaH_set(t, k, v)
  PROVE  LiveInv' /\ Grows
PROOF
<1> SUFFICES ASSUME NEW V, V = IF node[t][k] = Nil THEN {k, v} ELSE {v} PROVE LiveInv' /\ Grows
  OBVIOUS
<1>1. t \in Obj /\ t \in alloc /\ k \in Key
  BY PoolType, HeldReachable, ReachableClosed DEF luaH_set, Live
<1>2. node' = [node EXCEPT ![t][k] = v] /\ UNCHANGED <<metatable, env, cupval, upvals, upvalVars, stack>>
  BY DEF luaH_set
<1>3. ASSUME NEW x \in Obj, x # t PROVE Refs(x)' = Refs(x)
  <2>1. SameFields(x)
    BY <1>2, <1>3 DEF SameFields, upvalVars, TypeOK
  <2> QED
    BY <1>2, <2>1, SameRefs
<1>4. Refs(t)' \subseteq Refs(t) \cup V
  <2>1. \A y \in Key : node'[t][y] = IF y = k THEN v ELSE node[t][y]
    BY <1>2 DEF TypeOK
  <2>2. Entries(t)' \subseteq Entries(t) \cup {k} /\ (node[t][k] # Nil => k \in Entries(t))
    BY <1>1, <2>1 DEF Entries
  <2>3. Refs(t) = Obj \cap ({metatable[t]} \cup Entries(t) \cup {node[t][y] : y \in Entries(t)})
    BY <1>1, RefsByType DEF RefsTyped
  <2>4. Refs(t)' = Obj \cap ({metatable'[t]} \cup Entries(t)' \cup {node'[t][y] : y \in Entries(t)'})
    BY <1>1, RefsByTypeNext DEF RefsTyped
  <2>5. \A y \in Entries(t)' : node'[t][y] = v \/ (y \in Entries(t) /\ node'[t][y] = node[t][y])
    BY <2>1, <2>2 DEF Entries
  <2> QED
    BY <1>2, <2>2, <2>3, <2>4, <2>5
<1>5. V \cap Obj \subseteq Reachable
  BY HeldReachable DEF luaH_set
<1>6. luaC_barriert(t, V) /\ alloc' = alloc
  BY DEF luaH_set
<1>7. /\ Recolored
      /\ gcstate = "propagate" /\ color'[t] = "black" => Nonwhite(V)'
      /\ \A x \in Obj : isdead(x) => color'[x] # currentwhite
  BY <1>6, BackBarrierRecolors
<1>8. UNCHANGED <<uvthread, uvslot, running, basemt, collectorState>>
  BY DEF luaH_set, upvalVars
<1> DEFINE D == {t}
<1>9. D \subseteq alloc
  BY <1>1
<1>10. \A x \in Obj : \/ Refs(x)' \subseteq Refs(x)
                      \/ x \in D \cup Open /\ Refs(x)' \subseteq Refs(x) \cup V
  BY <1>3, <1>4
<1>11. gcstate = "propagate" => \A x \in D : color'[x] = "black" => Nonwhite(V)'
  BY <1>7
<1>12. StoreEffect(D, V)
  BY <1>5, <1>6, <1>7, <1>8, <1>9, <1>10, <1>11 DEF StoreEffect
<1> QED
  BY <1>12, StoreStep

(* A store of a value v into one field of o, with a barrier of either kind. *)
LEMMA FieldStoreLive ==
  ASSUME TypeOK, TypeOK', LiveInv, NEW o \in Obj, o \in alloc, NEW v, v \in Obj => v \in Reachable,
         luaC_barrier(o, v) \/ (o \in Table /\ luaC_barriert(o, {v})),
         \A x \in Obj \ {o} : Refs(x)' = Refs(x),
         Refs(o)' \subseteq Refs(o) \cup {v},
         UNCHANGED <<alloc, uvthread, uvslot, running, basemt, collectorState>>
  PROVE  LiveInv' /\ Grows
PROOF
<1>1. /\ Recolored
      /\ gcstate = "propagate" /\ color'[o] = "black" => Nonwhite({v})'
      /\ \A x \in Obj : isdead(x) => color'[x] # currentwhite
  <2>1. CASE luaC_barrier(o, v)
    BY <2>1, BarrierRecolors, ReachableClosed
  <2>2. CASE o \in Table /\ luaC_barriert(o, {v})
    BY <2>2, BackBarrierRecolors
  <2> QED
    BY <2>1, <2>2
<1> DEFINE D == {o}
           V == {v}
<1>2. D \subseteq alloc /\ V \cap Obj \subseteq Reachable
  OBVIOUS
<1>3. \A x \in Obj : \/ Refs(x)' \subseteq Refs(x)
                     \/ x \in D \cup Open /\ Refs(x)' \subseteq Refs(x) \cup V
  OBVIOUS
<1>4. gcstate = "propagate" => \A x \in D : color'[x] = "black" => Nonwhite(V)'
  BY <1>1
<1>5. StoreEffect(D, V)
  BY <1>1, <1>2, <1>3, <1>4 DEF StoreEffect
<1> QED
  BY <1>5, StoreStep

LEMMA MetatableLive ==
  ASSUME TypeOK, TypeOK', LiveInv, NEW o \in Table \cup Udata, NEW m \in Metatables \cup {Nil},
         lua_setmetatable(o, m)
  PROVE  LiveInv' /\ Grows
PROOF
<1>1. o \in Obj /\ o \in alloc /\ (m \in Obj => m \in Reachable)
  BY PoolType, HeldReachable, ReachableClosed DEF lua_setmetatable, Live
<1>2. /\ metatable' = [metatable EXCEPT ![o] = m]
      /\ UNCHANGED <<alloc, env, node, cupval, upvals, upvalVars, stack, running, basemt,
                     collectorState>>
  BY DEF lua_setmetatable
<1>3. ASSUME NEW x \in Obj, x # o PROVE Refs(x)' = Refs(x)
  <2>1. SameFields(x)
    BY <1>2, <1>3 DEF SameFields, upvalVars, TypeOK
  <2> QED
    BY <1>2, <2>1, SameRefs
<1>4. Refs(o)' \subseteq Refs(o) \cup {m}
  <2>1. metatable'[o] = m
    BY <1>2 DEF TypeOK
  <2>2. CASE o \in Table
    <3>1. Refs(o) = Obj \cap ({metatable[o]} \cup Entries(o) \cup {node[o][y] : y \in Entries(o)})
      BY <1>1, <2>2, RefsByType DEF RefsTyped
    <3>2. Refs(o)' = Obj \cap ({m} \cup Entries(o)' \cup {node'[o][y] : y \in Entries(o)'})
      BY <1>1, <2>1, <2>2, RefsByTypeNext DEF RefsTyped
    <3>3. Entries(o)' = Entries(o) /\ node'[o] = node[o]
      BY <1>2 DEF Entries
    <3> QED
      BY <3>1, <3>2, <3>3
  <2>3. CASE o \in Udata
    <3>1. Refs(o) = Obj \cap {metatable[o], env[o]} /\ Refs(o)' = Obj \cap {m, env'[o]}
      BY <1>1, <2>1, <2>3, RefsByType, RefsByTypeNext DEF RefsTyped
    <3> QED
      BY <1>2, <3>1
  <2> QED
    BY <2>2, <2>3
<1>5. luaC_barrier(o, m) \/ (o \in Table /\ luaC_barriert(o, {m}))
  BY DEF lua_setmetatable
<1>6. UNCHANGED <<alloc, uvthread, uvslot, running, basemt, collectorState>>
  BY <1>2 DEF upvalVars
<1> QED
  BY <1>1, <1>3, <1>4, <1>5, <1>6, FieldStoreLive

LEMMA EnvironmentLive ==
  ASSUME TypeOK, TypeOK', LiveInv, NEW o \in LClosure \cup CClosure \cup Udata \cup Thread,
         NEW e \in Environments, lua_setfenv(o, e)
  PROVE  LiveInv' /\ Grows
PROOF
<1>1. o \in Obj /\ o \in alloc /\ (e \in Obj => e \in Reachable)
  BY PoolType, HeldReachable, ReachableClosed DEF lua_setfenv, Live
<1>2. /\ env' = [env EXCEPT ![o] = e]
      /\ UNCHANGED <<alloc, metatable, node, cupval, upvals, upvalVars, stack, running, basemt,
                     collectorState>>
  BY DEF lua_setfenv
<1>3. ASSUME NEW x \in Obj, x # o PROVE Refs(x)' = Refs(x)
  <2>1. SameFields(x)
    BY <1>2, <1>3 DEF SameFields, upvalVars, TypeOK
  <2> QED
    BY <1>2, <2>1, SameRefs
<1>4. Refs(o)' \subseteq Refs(o) \cup {e}
  <2>1. env'[o] = e
    BY <1>2 DEF TypeOK
  <2>2. CASE o \in LClosure
    BY <1>1, <1>2, <2>1, <2>2, RefsByType, RefsByTypeNext DEF RefsTyped
  <2>3. CASE o \in CClosure
    BY <1>1, <1>2, <2>1, <2>3, RefsByType, RefsByTypeNext DEF RefsTyped
  <2>4. CASE o \in Udata
    BY <1>1, <1>2, <2>1, <2>4, RefsByType, RefsByTypeNext DEF RefsTyped
  <2>5. CASE o \in Thread
    <3>1. Refs(o) = Obj \cap ({env[o]} \cup {stack[o][i] : i \in Slot})
      BY <1>1, <2>5, RefsByType DEF RefsTyped
    <3>2. Refs(o)' = Obj \cap ({e} \cup {stack[o][i] : i \in Slot})
      BY <1>1, <1>2, <2>1, <2>5, RefsByTypeNext DEF RefsTyped
    <3> QED
      BY <3>1, <3>2
  <2> QED
    BY <2>2, <2>3, <2>4, <2>5
<1>5. luaC_barrier(o, e)
  BY DEF lua_setfenv
<1>6. UNCHANGED <<alloc, uvthread, uvslot, running, basemt, collectorState>>
  BY <1>2 DEF upvalVars
<1> QED
  BY <1>1, <1>3, <1>4, <1>5, <1>6, FieldStoreLive

LEMMA CUpvalueLive ==
  ASSUME TypeOK, TypeOK', LiveInv, NEW c \in CClosure, NEW v \in Value, SetCUpvalue(c, v)
  PROVE  LiveInv' /\ Grows
PROOF
<1>1. c \in Obj /\ c \in alloc /\ (v \in Obj => v \in Reachable)
  BY PoolType, HeldReachable, ReachableClosed DEF SetCUpvalue, Live
<1>2. /\ cupval' = [cupval EXCEPT ![c] = v]
      /\ UNCHANGED <<alloc, metatable, node, env, upvals, upvalVars, stack, running, basemt,
                     collectorState>>
  BY DEF SetCUpvalue
<1>3. ASSUME NEW x \in Obj, x # c PROVE Refs(x)' = Refs(x)
  <2>1. SameFields(x)
    BY <1>2, <1>3 DEF SameFields, upvalVars, TypeOK
  <2> QED
    BY <1>2, <2>1, SameRefs
<1>4. Refs(c)' \subseteq Refs(c) \cup {v}
  <2>1. cupval'[c] = v
    BY <1>2 DEF TypeOK
  <2> QED
    BY <1>1, <1>2, <2>1, RefsByType, RefsByTypeNext DEF RefsTyped
<1>5. luaC_barrier(c, v)
  BY DEF SetCUpvalue
<1>6. UNCHANGED <<alloc, uvthread, uvslot, running, basemt, collectorState>>
  BY <1>2 DEF upvalVars
<1> QED
  BY <1>1, <1>3, <1>4, <1>5, <1>6, FieldStoreLive

LEMMA BaseMetatableLive ==
  ASSUME TypeOK, TypeOK', LiveInv, NEW m \in BaseMetatables \cup {Nil}, SetBaseMetatable(m)
  PROVE  LiveInv' /\ Grows
PROOF
<1> DEFINE D == {}
           V == {m}
<1>1. D \subseteq alloc /\ V \cap Obj \subseteq Reachable
  BY HeldReachable DEF SetBaseMetatable
<1>2. Recolored
  BY NothingRecolored DEF SetBaseMetatable
<1>3. \A x \in Obj : SameFields(x)
  BY UnchangedFields DEF SetBaseMetatable
<1>4. \A x \in Obj : Refs(x)' = Refs(x)
  BY <1>3, SameRefs DEF SetBaseMetatable
<1>5. /\ alloc' = alloc /\ uvthread' = uvthread /\ uvslot' = uvslot
      /\ UNCHANGED <<running, collectorState>> /\ basemt' \in V \cup {basemt}
      /\ color' = color
  BY DEF SetBaseMetatable, upvalVars
<1>6. \A x \in Obj : isdead(x) => color'[x] # currentwhite
  BY <1>5, Whites DEF isdead
<1>7. gcstate = "propagate" => \A x \in D : color'[x] = "black" => Nonwhite(V)'
  OBVIOUS
<1>8. StoreEffect(D, V)
  BY <1>1, <1>2, <1>4, <1>5, <1>6, <1>7 DEF StoreEffect
<1> QED
  BY <1>8, StoreStep

(* A closed upvalue is a store like the others; an open one lends its name   *)
(* to a register of its thread, which the collector looks at again.          *)
LEMMA SetUpvalLive ==
  ASSUME TypeOK, TypeOK', LiveInv, NEW cl \in LClosure, NEW u \in UpVal, NEW v \in Value,
         OP_SETUPVAL(cl, u, v)
  PROVE  LiveInv' /\ Grows
PROOF
<1>1. u \in Obj /\ u \in alloc /\ (v \in Obj => v \in Reachable)
  <2>1. cl \in Obj /\ u \in Obj /\ u \in upvals[cl] /\ Holds(cl)
    BY PoolType DEF OP_SETUPVAL
  <2>2. u \in Refs(cl)
    BY <2>1, RefsByType DEF RefsTyped
  <2> QED
    BY <2>1, <2>2, HeldReachable, ReachableClosed DEF OP_SETUPVAL, Live
<1>2. /\ UNCHANGED <<alloc, objVars, uvthread, uvslot, running, basemt, collectorState>>
      /\ luaC_barrier(u, v) /\ StoreUpval(u, v)
  BY DEF OP_SETUPVAL
<1>3. CASE ~IsOpen(u)
  <2>1. uvvalue' = [uvvalue EXCEPT ![u] = v] /\ UNCHANGED stack
    BY <1>2, <1>3 DEF StoreUpval
  <2>2. ASSUME NEW x \in Obj, x # u PROVE Refs(x)' = Refs(x)
    <3>1. SameFields(x)
      BY <1>2, <2>1, <2>2 DEF SameFields, objVars, TypeOK
    <3> QED
      BY <2>1, <3>1, SameRefs
  <2>3. Refs(u)' \subseteq Refs(u) \cup {v}
    <3>1. Refs(u)' = Obj \cap {UpvalValue(u)'}
      BY <1>1, RefsByTypeNext DEF RefsTyped
    <3>2. UpvalValue(u)' = v
      BY <1>2, <1>3, <2>1 DEF UpvalValue, IsOpen, TypeOK
    <3> QED
      BY <3>1, <3>2
  <2> QED
    BY <1>1, <1>2, <2>2, <2>3, FieldStoreLive
<1>4. CASE IsOpen(u)
  <2>1. /\ stack' = [stack EXCEPT ![uvthread[u]][uvslot[u]] = v] /\ UNCHANGED uvvalue
        /\ uvthread[u] \in Thread /\ uvslot[u] \in Slot
    BY <1>2, <1>4 DEF StoreUpval, IsOpen, TypeOK
  <2>2. \A x \in Obj : SameFields(x)
    BY <1>2, <2>1 DEF SameFields, objVars
  <2>3. uvthread[u] \in alloc
    BY <1>1, <1>4 DEF LiveInv, UpvalueShared, OpenUpvals
  <2>4. \A x \in Obj : /\ Refs(x)' \subseteq Refs(x) \cup {v}
                       /\ x # uvthread[u] /\ ~(x \in UpVal /\ IsOpen(x)) => Refs(x)' = Refs(x)
    BY <2>1, <2>2, AssignRefs
  <2>5. \A x \in Obj : x \in Udata \/ (x \in UpVal /\ ~IsOpen(x)) => Refs(x)' = Refs(x)
    BY <2>1, <2>4, DisjointUdata, DisjointThread
  <2>6. Recolored /\ \A x \in Obj : isdead(x) => color'[x] # currentwhite
    BY <1>1, <1>2, <2>5, BarrierRecolors, ReachableClosed
  <2> DEFINE D == {}
             V == {v}
  <2>7. \A x \in Obj : \/ Refs(x)' \subseteq Refs(x)
                       \/ x \in D \cup Open /\ Refs(x)' \subseteq Refs(x) \cup V
    BY <2>1, <2>3, <2>4 DEF Open
  <2>8. D \subseteq alloc /\ V \cap Obj \subseteq Reachable
    BY <1>1
  <2>9. gcstate = "propagate" => \A x \in D : color'[x] = "black" => Nonwhite(V)'
    OBVIOUS
  <2>10. basemt' \in V \cup {basemt}
    BY <1>2
  <2>11. StoreEffect(D, V)
    BY <1>2, <2>6, <2>7, <2>8, <2>9, <2>10 DEF StoreEffect
  <2> QED
    BY <2>11, StoreStep
<1> QED
  BY <1>3, <1>4

LEMMA StoreLive == ASSUME TypeOK, TypeOK', LiveInv, Store PROVE LiveInv' /\ Grows
  BY TableStoreLive, MetatableLive, EnvironmentLive, CUpvalueLive, BaseMetatableLive, SetUpvalLive
     DEF Store

----------------------------------------------------------------------------
(* Loads, coroutine switches and the closing of upvalues. *)

LEMMA LoadLive ==
  ASSUME TypeOK, TypeOK', LiveInv, NEW v \in Value, NEW j \in Slot, Load(v, j)
  PROVE  LiveInv' /\ Grows
PROOF
<1> DEFINE held == {MainThread, Registry, running} \cup {L(i) : i \in Slot}
           objs == UNION {Refs(o) : o \in (Obj \cap held) \ Thread}
<1>1. \A o \in Reachable : Refs(o) \subseteq Reachable
  BY ReachableClosed
<1>2. Obj \cap held \subseteq Reachable
  BY HeldReachable
<1>3. objs \subseteq Reachable /\ objs \subseteq Obj
  BY <1>1, <1>2, RefsType
<1>4. v \in Obj => v \in Reachable
  <2>1. \/ v \in {Registry, running, env[running], basemt, Nil} \cup (objs \ UpVal)
                   \cup {L(i) : i \in Slot}
        \/ \E u \in objs \cap UpVal : v = UpvalValue(u)
    BY DEF Load, Readable
  <2>2. basemt \in Obj => basemt \in Reachable
    BY ReachableClosed DEF Roots
  <2>3. env[running] \in CurrEnvs
    BY DEF CurrEnvs
  <2>4. ASSUME v \in Obj, NEW u \in objs \cap UpVal, v = UpvalValue(u) PROVE v \in Reachable
    <3>1. v \in Refs(u) /\ u \in Reachable
      BY <1>3, <2>4, RefsByType DEF RefsTyped
    <3> QED
      BY <1>1, <3>1
  <2> HIDE DEF objs
  <2> QED
    BY <1>3, <2>1, <2>2, <2>3, <2>4, HeldReachable
<1>5. \A x : SameFields(x)
  BY UnchangedFields DEF Load
<1>6. UpvalueShared'
  BY SameUpvals DEF Load
<1>7. running \in Thread \cap alloc /\ running' \in Reachable
  BY HeldReachable, ReachableClosed DEF TypeOK, Live, Load
<1>8. RegisterEffect({}, {}, running, j, v)
  BY <1>4, <1>5, <1>6, <1>7 DEF RegisterEffect, Load, Assign
<1> QED
  BY <1>8, RegisterStep

LEMMA SwitchLive == ASSUME TypeOK, TypeOK', LiveInv, Switch PROVE LiveInv' /\ Grows
PROOF
<1>1. ASSUME NEW i \in Slot, NEW j \in Slot, NEW th \in Thread, th \in Obj => th \in Reachable,
             running' = th, stack' = [stack EXCEPT ![th][j] = L(i)],
             UNCHANGED <<alloc, color, objVars, upvalVars, basemt, listVars, collectorState>>
      PROVE  LiveInv' /\ Grows
  <2> SUFFICES ASSUME NEW v, v = L(i) PROVE LiveInv' /\ Grows
    OBVIOUS
  <2>1. \A x : SameFields(x)
    BY <1>1, UnchangedFields
  <2>2. UpvalueShared'
    BY <1>1, SameUpvals
  <2>3. th \in Reachable /\ th \in alloc
    BY <1>1, PoolType, ReachableClosed DEF Live
  <2>4. v \in Obj => v \in Reachable
    BY HeldReachable
  <2>5. RegisterEffect({}, {}, th, j, v)
    BY <1>1, <2>1, <2>2, <2>3, <2>4 DEF RegisterEffect
  <2> QED
    BY <2>5, RegisterStep
<1>2. ASSUME NEW i \in Slot, NEW j \in Slot, lua_yield(i, j) PROVE LiveInv' /\ Grows
  BY <1>1, <1>2, HeldReachable DEF lua_yield
<1>3. ASSUME NEW i \in Slot, NEW j \in Slot, NEW th \in Thread, lua_resume(th, i, j)
      PROVE  LiveInv' /\ Grows
  BY <1>1, <1>3, HeldReachable DEF lua_resume
<1> QED
  BY <1>2, <1>3 DEF Switch

(* A step that takes objects and references away.                            *)
OnlyFrees ==
  /\ alloc' \subseteq alloc /\ Roots' = Roots
  /\ \A o \in alloc' : Refs(o)' \subseteq Refs(o)

LEMMA CloseLive ==
  ASSUME TypeOK, TypeOK', LiveInv, NEW level \in Slot, luaF_close(level)
  PROVE  LiveInv' /\ OnlyFrees
PROOF
<1> DEFINE closing == {u \in OpenUpvals : uvthread[u] = running /\ uvslot[u] >= level}
           dead == {u \in closing : isdead(u)}
           regray == {u \in closing : isgray(u)}
           values == Obj \cap {UpvalValue(u) : u \in regray}
<1>1. closing \subseteq OpenUpvals /\ OpenUpvals \subseteq alloc \cap UpVal /\ UpVal \subseteq Obj
  BY PoolType DEF OpenUpvals
<1>2. /\ alloc' = alloc \ dead
      /\ uvthread' = [u \in UpVal |-> IF u \in closing THEN Nil ELSE uvthread[u]]
      /\ uvslot' = [u \in UpVal |-> IF u \in closing THEN 1 ELSE uvslot[u]]
      /\ uvvalue' = [u \in UpVal |-> IF u \in closing \ dead THEN UpvalValue(u) ELSE uvvalue[u]]
  BY DEF luaF_close
<1>3. /\ UNCHANGED <<objVars, stack, running, basemt, grayagain, weak, collectorState>>
      /\ UNCHANGED <<currentwhite, gcstate, tmudata, sweepstr, sweepgc>> /\ otherwhite' = otherwhite
  BY DEF luaF_close, collectorState, finVars, sweepVars, otherwhite
<1>4. gcstate = "propagate" =>
        /\ color' = [o \in Obj |-> IF o \in regray THEN "black" ELSE Marked(values, color)[o]]
        /\ gray' = gray \cup (Reached(values) \cap Queued)
  BY DEF luaF_close
<1>5. gcstate # "propagate" =>
        /\ color' = Reset([o \in Obj |-> IF o \in regray THEN currentwhite ELSE color[o]],
                          dead, "none")
        /\ gray' = gray
  BY DEF luaF_close
<1>6. \A u \in closing : color[u] \in {"gray", currentwhite, otherwhite}
  <2>1. \A u \in closing : color[u] # "none" /\ color[u] # "black"
    BY <1>1 DEF LiveInv, Shades, Colored, isblack
  <2> QED
    BY <1>1, <2>1, Whites DEF TypeOK
<1>7. gcstate \notin {"sweepstring", "sweep"} => dead = {}
  BY <1>1 DEF LiveInv, NoneDead
<1>8. OpenUpvals' = OpenUpvals \ closing
  BY <1>1, <1>2 DEF OpenUpvals, IsOpen
<1>9. \A u \in regray : u \in closing /\ isgray(u)
  OBVIOUS
<1>10. \A u \in dead : u \in closing /\ isdead(u)
  OBVIOUS
<1>11. \A u \in regray : Refs(u) \subseteq values
  BY <1>1, RefsByType DEF RefsTyped
<1>12. values \subseteq Obj \ UpVal
  BY <1>1, UpvalValueType DEF Value
<1>a. \A u \in closing : (u \in dead <=> isdead(u)) /\ (u \in regray <=> isgray(u))
  OBVIOUS
<1>13. \A o \in Obj : o \notin dead => Refs(o)' = Refs(o)
  <2> SUFFICES ASSUME NEW o \in Obj, o \notin dead PROVE Refs(o)' = Refs(o)
    OBVIOUS
  <2>1. CASE o \notin closing
    <3>1. SameFields(o)
      BY <1>2, <1>3, <2>1 DEF SameFields, objVars
    <3> QED
      BY <1>3, <3>1, SameRefs
  <2>2. CASE o \in closing
    <3>1. UpvalValue(o)' = UpvalValue(o)
      <4>1. o \in UpVal /\ uvthread'[o] = Nil /\ uvvalue'[o] = UpvalValue(o)
        BY <1>1, <1>2, <2>2
      <4> QED
        BY <4>1 DEF UpvalValue, IsOpen
    <3> QED
      BY <1>1, <2>2, <3>1, RefsByType, RefsByTypeNext DEF RefsTyped
  <2> QED
    BY <2>1, <2>2
<1> DEFINE C == Marked(values, color)
<1>14. \A o \in Obj : /\ o \in Reached(values) => iswhite(o) /\ C[o] = MarkColor(o)
                      /\ o \notin Reached(values) => C[o] = color[o]
  BY <1>12, MarkShades
<1>15. \A o \in Obj : o \in values => C[o] \notin WhiteBits
  BY <1>12, MarkShades
<1>16. \A o \in Obj : o \in Reached(values) /\ MarkColor(o) = "black" =>
                        \A x \in Refs(o) : C[x] \notin WhiteBits
  BY <1>12, MarkShades
<1>17. Reached(values) \subseteq Obj \ UpVal
  <2>1. Reached(values) \subseteq Obj
    BY <1>12, ReachedType
  <2>2. \A o \in Reached(values) : o \in values \/ o \in Table
    BY <1>12, SmallRefs DEF Reached
  <2> QED
    BY <1>12, <2>1, <2>2, DisjointTable
<1> HIDE DEF closing, dead, regray, values, C
<1>18. /\ gcstate = "propagate" =>
            \A o \in Obj : color'[o] = IF o \in regray THEN "black" ELSE C[o]
       /\ gcstate # "propagate" =>
            \A o \in Obj : color'[o] = IF o \in dead THEN "none"
                                       ELSE IF o \in regray THEN currentwhite ELSE color[o]
  BY <1>4, <1>5 DEF C, Reset
<1>c. \A o \in Obj : MarkColor(o) \in {"black", "gray"}
  BY DEF MarkColor
<1>19. Colored'
  BY <1>1, <1>2, <1>6, <1>7, <1>9, <1>10, <1>14, <1>18, <1>c, Whites
     DEF LiveInv, Colored, iswhite
<1>20. Blank'
  <2> SUFFICES ASSUME NEW x \in Obj, x \notin alloc', x \notin UpVal PROVE Refs(x)' = {}
    BY DEF Blank
  <2>1. x \notin dead
    BY <1>1, <1>10
  <2> QED
    BY <1>2, <1>13, <2>1 DEF LiveInv, Blank
<1>21. UpvalueShared'
  <2>1. \A u \in OpenUpvals \ closing : uvthread'[u] = uvthread[u] /\ uvslot'[u] = uvslot[u]
    BY <1>1, <1>2
  <2>2. \A u \in OpenUpvals : uvthread[u] \in alloc /\ uvthread[u] \notin UpVal
    BY DisjointThread DEF LiveInv, UpvalueShared, TypeOK, OpenUpvals, IsOpen
  <2> QED
    BY <1>1, <1>2, <1>8, <1>10, <2>1, <2>2 DEF LiveInv, UpvalueShared
<1>22. Shades'
  <2> SUFFICES ASSUME NEW o \in Obj
               PROVE  /\ color'[o] = "black" => o \notin Thread \cup OpenUpvals'
                      /\ color'[o] = "gray" => o \notin Udata /\ (o \in UpVal => IsOpen(o)')
    BY DEF Shades, isblack, isgray
  <2>1. o \in UpVal => o \notin Thread /\ o \notin Udata
    BY DisjointThread, DisjointUdata
  <2>2. o \in Udata => o \notin Thread
    BY DisjointUdata
  <2>3. MarkColor(o) = "black" /\ o \notin UpVal => o \in Udata
    BY DEF MarkColor
  <2>4. MarkColor(o) = "gray" => o \notin Udata
    BY DEF MarkColor
  <2>5. isgray(o) /\ o \in UpVal /\ o \notin closing => IsOpen(o)'
    BY <1>2 DEF LiveInv, Shades, IsOpen
  <2>6. color[o] = "black" => o \notin Thread \cup OpenUpvals
    BY DEF LiveInv, Shades, isblack
  <2>7. isgray(o) => o \notin Udata
    BY DEF LiveInv, Shades
  <2>8. color'[o] = "black" => \/ o \in regray
                               \/ color[o] = "black"
                               \/ o \in Reached(values) /\ MarkColor(o) = "black"
    BY <1>14, <1>18, Whites
  <2>9. color'[o] = "gray" => \/ o \notin regray /\ isgray(o)
                              \/ o \in Reached(values) /\ MarkColor(o) = "gray"
    BY <1>14, <1>18, Whites DEF isgray
  <2>10. o \notin regray /\ isgray(o) => o \notin closing
    BY <1>a DEF regray
  <2> QED
    BY <1>1, <1>8, <1>9, <1>17, <2>1, <2>2, <2>3, <2>4, <2>5, <2>6, <2>7, <2>8, <2>9, <2>10
<1>23. Ahead'
  <2>1. sweepstr \cup sweepgc \subseteq alloc' \ OpenUpvals'
    BY <1>1, <1>2, <1>8, <1>10 DEF LiveInv, Ahead
  <2>2. ASSUME gcstate \in {"sweepstring", "sweep"}, NEW o \in alloc', o \notin tmudata,
               color'[o] # currentwhite
        PROVE  \/ o \in sweepstr \cup sweepgc
               \/ o \in OpenUpvals' /\ uvthread'[o] \in sweepgc
    <3>1. o \in alloc /\ o \in Obj /\ o \notin dead
      BY <1>2 DEF TypeOK
    <3>2. o \notin regray /\ color[o] # currentwhite
      BY <1>18, <2>2, <3>1
    <3>3. o \notin closing
      BY <1>6, <1>a, <3>1, <3>2 DEF isgray, isdead, regray, dead
    <3> QED
      BY <1>1, <1>2, <1>8, <2>2, <3>1, <3>2, <3>3 DEF LiveInv, Ahead
  <2> QED
    BY <1>3, <2>1, <2>2 DEF LiveInv, Ahead
<1>24. \A o \in Obj : o \notin dead => (isdead(o)' <=> isdead(o))
  BY <1>1, <1>3, <1>9, <1>14, <1>18, <1>c, Whites
     DEF isdead, isgray, iswhite, LiveInv, NoneDead, Colored
<1>25. NoneDead'
  BY <1>2, <1>3, <1>10, <1>24 DEF LiveInv, NoneDead, TypeOK
<1>26. CycleClean'
  BY <1>2, <1>3, <1>7, <1>10, <1>18 DEF LiveInv, CycleClean, TypeOK
<1>27. TriColor'
  <2> SUFFICES ASSUME gcstate = "propagate", NEW o \in alloc', o \notin tmudata,
                      color'[o] = "black", NEW x \in Refs(o)'
               PROVE  color'[x] \notin WhiteBits
    BY <1>3 DEF TriColor, isblack, iswhite
  <2>1. o \in Obj /\ o \in alloc /\ o \notin dead /\ x \in Refs(o) /\ x \in Obj
    BY <1>2, <1>13, RefsType DEF TypeOK
  <2>2. C[x] \notin WhiteBits => color'[x] \notin WhiteBits
    BY <1>18, <2>1, Whites
  <2>3. color[x] \notin WhiteBits => C[x] \notin WhiteBits
    BY <1>14, <1>c, <2>1, Whites
  <2>4. CASE o \in regray
    BY <1>11, <1>15, <2>1, <2>2, <2>4
  <2>5. CASE o \notin regray /\ o \in Reached(values)
    BY <1>14, <1>16, <1>18, <2>1, <2>2, <2>5
  <2>6. CASE o \notin regray /\ o \notin Reached(values)
    BY <1>14, <1>18, <2>1, <2>2, <2>3, <2>6 DEF LiveInv, TriColor, isblack, iswhite
  <2> QED
    BY <2>4, <2>5, <2>6
<1>28. GrayListed'
  <2> SUFFICES ASSUME gcstate = "propagate" PROVE GrayListed'
    BY <1>3 DEF GrayListed
  <2>1. /\ gray \cup grayagain \cup weak = {o \in alloc \cap Queued : isgray(o)}
        /\ gray \cap grayagain = {} /\ gray \cap weak = {} /\ grayagain \cap weak = {}
    BY DEF LiveInv, GrayListed
  <2>2. gray' = gray \cup (Reached(values) \cap Queued) /\ UNCHANGED <<grayagain, weak>>
        /\ alloc' = alloc
    BY <1>2, <1>3, <1>4, <1>7 DEF values, regray, closing, dead
  <2>3. Queued \subseteq Obj /\ Queued \cap UpVal = {}
    BY QueuedType
  <2>4. \A o \in Queued : MarkColor(o) = "gray" /\ o \notin regray
    BY <1>1, <1>9, <2>3, QueuedType DEF MarkColor
  <2>5. \A o \in Queued : color'[o] = "gray" <=> o \in Reached(values) \/ isgray(o)
    BY <1>14, <1>18, <2>3, <2>4 DEF isgray
  <2>6. \A o \in Reached(values) : iswhite(o) /\ ~isgray(o)
    BY <1>14, <1>17, Whites DEF iswhite, isgray
  <2>7. \A o \in Reached(values) : o \in alloc
    BY <1>17, <2>6, Whites DEF LiveInv, Colored, iswhite
  <2>8. (gray \cup grayagain \cup weak)' = {o \in alloc' \cap Queued : color'[o] = "gray"}
    BY <2>1, <2>2, <2>5, <2>7
  <2>9. /\ (gray \cap grayagain)' = {} /\ (gray \cap weak)' = {} /\ (grayagain \cap weak)' = {}
    BY <2>1, <2>2, <2>6
  <2> QED
    BY <2>8, <2>9 DEF GrayListed, isgray
<1>29. NoDangling'
  <2>1. \A x : Live(x) => Live(x)'
    BY <1>2, <1>10, <1>24 DEF Live, TypeOK
  <2>2. Roots' = Roots
    BY <1>3 DEF Roots
  <2>3. ASSUME NEW o \in alloc', ~isdead(o)', NEW x \in Refs(o)' PROVE Live(x)
    <3>1. o \in alloc /\ o \in Obj /\ o \notin dead
      BY <1>2 DEF TypeOK
    <3> QED
      BY <1>13, <1>24, <2>3, <3>1 DEF LiveInv, NoDangling
  <2> QED
    BY <2>1, <2>2, <2>3 DEF LiveInv, NoDangling
<1>30. RootsMarked'
  <2>1. \A o \in Obj : gcstate = "propagate" /\ ~iswhite(o) => ~iswhite(o)'
    BY <1>14, <1>18, Whites DEF iswhite
  <2> QED
    BY <1>3, <2>1, PoolType DEF LiveInv, RootsMarked
<1>31. OnlyFrees
  <2>1. Roots' = Roots
    BY <1>3 DEF Roots
  <2>2. \A o \in alloc' : o \in Obj /\ o \notin dead
    BY <1>2 DEF TypeOK
  <2> QED
    BY <1>2, <1>13, <2>1, <2>2 DEF OnlyFrees
<1> QED
  BY <1>19, <1>20, <1>21, <1>22, <1>23, <1>25, <1>26, <1>27, <1>28, <1>29, <1>30, <1>31
     DEF LiveInv

LEMMA MutatorLive ==
  ASSUME TypeOK, TypeOK', LiveInv, Mutator PROVE LiveInv' /\ (Grows \/ OnlyFrees)
  BY AllocateLive, StoreLive, SwitchLive, LoadLive, CloseLive DEF Mutator

----------------------------------------------------------------------------
(* The collector: steps that move no reference. *)

LEMMA QuietStep ==
  ASSUME TypeOK, LiveInv,
         UNCHANGED <<alloc, objVars, upvalVars, stack, running, basemt, currentwhite>>,
         \A o \in Obj : color'[o] = color[o]
                        \/ (Live(o) /\ color'[o] \in {"gray", "black", currentwhite})
  PROVE  /\ \A x \in Obj : Refs(x)' = Refs(x) /\ (isdead(x)' <=> isdead(x))
         /\ OpenUpvals' = OpenUpvals /\ (\A u : IsOpen(u)' <=> IsOpen(u))
         /\ uvthread' = uvthread
         /\ Colored' /\ Blank' /\ UpvalueShared' /\ NoDangling'
PROOF
<1>1. \A x \in Obj : Refs(x)' = Refs(x)
  BY UnchangedFields, SameRefs
<1>2. otherwhite' = otherwhite
  BY DEF otherwhite
<1>3. \A x \in Obj : isdead(x)' <=> isdead(x)
  BY <1>2, Whites DEF isdead, Live
<1>4. OpenUpvals' = OpenUpvals /\ (\A u : IsOpen(u)' <=> IsOpen(u)) /\ uvthread' = uvthread
      /\ uvslot' = uvslot
  BY DEF OpenUpvals, IsOpen, upvalVars
<1>5. Colored'
  BY Whites DEF LiveInv, Colored, Live
<1>6. Blank'
  BY <1>1 DEF LiveInv, Blank
<1>7. UpvalueShared'
  BY <1>4 DEF LiveInv, UpvalueShared
<1>8. NoDangling'
  <2>1. Roots' = Roots /\ Roots \subseteq Obj
    BY DEF Roots
  <2>2. \A x \in Obj : Live(x)' <=> Live(x)
    BY <1>3 DEF Live
  <2>3. alloc \subseteq Obj /\ alloc' = alloc
    BY DEF TypeOK
  <2>4. \A o \in Roots' : Live(o)'
    BY <2>1, <2>2 DEF LiveInv, NoDangling
  <2>5. ASSUME NEW o \in alloc', ~isdead(o)', NEW x \in Refs(o)' PROVE Live(x)'
    BY <1>1, <1>3, <2>2, <2>3, <2>5, RefsType DEF LiveInv, NoDangling
  <2> QED
    BY <2>4, <2>5 DEF NoDangling
<1> QED
  BY <1>1, <1>3, <1>4, <1>5, <1>6, <1>7, <1>8

(* markroot finds everything white, but for what an earlier cycle left in    *)
(* tmudata, and turns the roots gray.                                        *)
LEMMA MarkRootLive ==
  ASSUME TypeOK, LiveInv, FinalInv, MarkRoot, gcstate \in {"pause", "finalize"},
         UNCHANGED <<alloc, objVars, upvalVars, stack, running, basemt, currentwhite, tmudata,
                     sweepVars>>
  PROVE  LiveInv'
PROOF
<1> DEFINE roots == Obj \cap {MainThread, Registry, env[MainThread], basemt}
<1>1. /\ color' = Marked(roots, color)
      /\ gray' = Reached(roots) \cap Queued
      /\ grayagain' = {} /\ weak' = {} /\ gcstate' = "propagate"
  BY DEF MarkRoot
<1>2. roots \subseteq Obj \cap (Table \cup Thread)
  BY PoolType DEF TypeOK
<1>3. \A o \in roots : Live(o)
  <2>1. Refs(MainThread) = Obj \cap ({env[MainThread]} \cup {stack[MainThread][i] : i \in Slot})
    BY PoolType, RefsByType DEF RefsTyped
  <2>2. Live(MainThread) /\ \A x \in Refs(MainThread) : Live(x)
    BY HeldLive DEF LiveInv, NoDangling, Live
  <2>3. basemt \in Obj => Live(basemt)
    BY DEF LiveInv, NoDangling, Roots
  <2> QED
    BY <2>1, <2>2, <2>3, HeldLive
<1>4. \A o \in roots : o \notin Udata \cup UpVal
  BY <1>2, DisjointTable, DisjointUdata, DisjointThread
<1>5. \A o \in alloc \ tmudata : color[o] = currentwhite
  BY DEF LiveInv, CycleClean
<1>6. \A o \in tmudata : o \in Udata /\ color[o] \in {"black", currentwhite}
  BY DEF TypeOK, FinalInv
<1>7. Reached(roots) = roots
  <2>1. \A o \in roots : iswhite(o)
    BY <1>3, <1>4, <1>5, <1>6, Whites DEF Live, iswhite
  <2> HIDE DEF roots
  <2> QED
    BY <1>4, <2>1 DEF Reached
<1> HIDE DEF roots
<1>8. \A o \in Obj : color'[o] = IF o \in roots THEN "gray" ELSE color[o]
  <2>1. \A o \in roots : MarkColor(o) = "gray"
    BY <1>4 DEF MarkColor
  <2> QED
    BY <1>1, <1>7, <2>1 DEF Marked
<1>9. /\ \A x \in Obj : Refs(x)' = Refs(x) /\ (isdead(x)' <=> isdead(x))
      /\ OpenUpvals' = OpenUpvals /\ (\A u : IsOpen(u)' <=> IsOpen(u)) /\ uvthread' = uvthread
      /\ Colored' /\ Blank' /\ UpvalueShared' /\ NoDangling'
  BY <1>3, <1>8, QuietStep
<1>10. Shades'
  BY <1>4, <1>8, <1>9 DEF LiveInv, Shades, isblack, isgray
<1>11. Ahead'
  BY <1>1, <1>9 DEF LiveInv, Ahead, sweepVars
<1>12. NoneDead'
  BY <1>1, <1>9 DEF LiveInv, NoneDead, TypeOK
<1>13. CycleClean'
  BY <1>1 DEF CycleClean
<1>14. TriColor'
  BY <1>5, <1>8, Whites DEF TriColor, isblack, TypeOK
<1>15. GrayListed'
  <2>1. \A o \in alloc \cap Queued : isgray(o)' <=> o \in roots
    BY <1>5, <1>6, <1>8, QueuedType, Whites DEF isgray
  <2>2. roots \subseteq alloc
    BY <1>3 DEF Live
  <2> QED
    BY <1>1, <1>7, <2>1, <2>2 DEF GrayListed
<1>16. RootsMarked'
  BY <1>8, <1>2, PoolType, Whites DEF roots, RootsMarked, iswhite
<1> QED
  BY <1>9, <1>10, <1>11, <1>12, <1>13, <1>14, <1>15, <1>16 DEF LiveInv

LEMMA StrongRefsType ==
  \A o \in Obj : /\ StrongRefs(o) \subseteq Refs(o)
                 /\ ~(o \in Table /\ Mode(o) # {}) => StrongRefs(o) = Refs(o)
  BY DEF StrongRefs, Refs, TableRefs

LEMMA PropagateLive ==
  ASSUME TypeOK, LiveInv, NEW o \in Queued, propagatemark(o) PROVE LiveInv'
PROOF
<1> DEFINE isweak == o \in Table /\ Mode(o) # {}
<1>o. o \in Obj \ (Str \cup UpVal \cup Udata)
  BY QueuedType
<1> SUFFICES ASSUME NEW refs, refs = StrongRefs(o) PROVE LiveInv'
  OBVIOUS
<1>1. /\ color' = [Marked(refs, color) EXCEPT ![o] = IF o \in Thread \/ isweak THEN "gray" ELSE "black"]
      /\ gray' = (gray \ {o}) \cup (Reached(refs) \cap Queued)
      /\ grayagain' = grayagain \cup ({o} \cap Thread)
      /\ weak' = IF isweak THEN weak \cup {o} ELSE weak
      /\ gcstate = "propagate" /\ o \in gray
  BY DEF propagatemark
<1>2. /\ UNCHANGED <<alloc, objVars, upvalVars, stack, running, basemt, currentwhite>>
      /\ UNCHANGED <<gcstate, tmudata, sweepstr, sweepgc>>
  BY DEF propagatemark, mutatorState, finVars, sweepVars
<1>3. /\ gray \cup grayagain \cup weak = {x \in alloc \cap Queued : isgray(x)}
      /\ gray \cap grayagain = {} /\ gray \cap weak = {} /\ grayagain \cap weak = {}
  BY <1>1 DEF LiveInv, GrayListed
<1>4. o \in alloc /\ isgray(o)
  BY <1>1, <1>3
<1>5. refs \subseteq Refs(o) /\ (~isweak => refs = Refs(o)) /\ refs \subseteq Obj
  BY <1>o, StrongRefsType, RefsType
<1>6. \A x \in Obj : /\ x \in Reached(refs) => iswhite(x) /\ Marked(refs, color)[x] = MarkColor(x)
                     /\ x \notin Reached(refs) => Marked(refs, color)[x] = color[x]
                     /\ x \in refs => Marked(refs, color)[x] \notin WhiteBits
                     /\ x \in Reached(refs) /\ MarkColor(x) = "black" =>
                          \A y \in Refs(x) : Marked(refs, color)[y] \notin WhiteBits
  BY <1>5, MarkShades
<1>7. o \notin Reached(refs)
  BY <1>4, <1>6, <1>o, Whites DEF isgray, iswhite
<1>8. Reached(refs) \subseteq Obj
  BY <1>5, ReachedType
<1>9. \A x \in Obj : color'[x] = IF x = o THEN IF o \in Thread \/ isweak THEN "gray" ELSE "black"
                                 ELSE IF x \in Reached(refs) THEN MarkColor(x) ELSE color[x]
  BY <1>1, <1>6, MarkedType DEF TypeOK
<1>10. \A x \in Obj : color'[x] \in WhiteBits => Marked(refs, color)[x] \in WhiteBits
                                                 /\ color[x] \in WhiteBits
  <2>1. \A x \in Obj : MarkColor(x) \in {"gray", "black"}
    BY DEF MarkColor
  <2> QED
    BY <1>6, <1>9, <2>1, Whites
<1>11. \A x \in Reached(refs) : x \in alloc /\ iswhite(x) /\ ~isgray(x)
  BY <1>6, <1>8, Whites DEF LiveInv, Colored, iswhite, isgray
<1>12. \A x \in alloc : ~isdead(x)
  BY <1>1 DEF LiveInv, NoneDead
<1> HIDE DEF isweak
<1>13. /\ \A x \in Obj : Refs(x)' = Refs(x) /\ (isdead(x)' <=> isdead(x))
       /\ OpenUpvals' = OpenUpvals /\ (\A u : IsOpen(u)' <=> IsOpen(u)) /\ uvthread' = uvthread
       /\ Colored' /\ Blank' /\ UpvalueShared' /\ NoDangling'
  <2>1. \A x \in Obj : color'[x] = color[x]
                       \/ (Live(x) /\ color'[x] \in {"gray", "black", currentwhite})
    BY <1>4, <1>9, <1>11, <1>12 DEF Live, MarkColor
  <2> QED
    BY <1>2, <2>1, QuietStep
<1>14. Shades'
  <2> SUFFICES ASSUME NEW x \in Obj
               PROVE  /\ color'[x] = "black" => x \notin Thread \cup OpenUpvals
                      /\ color'[x] = "gray" => x \notin Udata /\ (x \in UpVal => IsOpen(x))
    BY <1>13 DEF Shades, isblack, isgray
  <2>1. CASE x = o
    BY <1>9, <1>o, <2>1 DEF OpenUpvals
  <2>2. CASE x # o /\ x \in Reached(refs)
    <3>1. color'[x] = MarkColor(x)
      BY <1>9, <2>2
    <3>2. x \in Udata => x \notin UpVal \cup Thread
      BY DisjointUdata
    <3>3. x \in UpVal => x \notin Thread
      BY DisjointThread
    <3> QED
      BY <3>1, <3>2, <3>3 DEF MarkColor, OpenUpvals
  <2>3. CASE x # o /\ x \notin Reached(refs)
    BY <1>9, <2>3 DEF LiveInv, Shades, isblack, isgray
  <2> QED
    BY <2>1, <2>2, <2>3
<1>15. Ahead'
  BY <1>1, <1>2, <1>13 DEF LiveInv, Ahead
<1>16. NoneDead'
  BY <1>2, <1>13 DEF LiveInv, NoneDead, TypeOK
<1>17. CycleClean'
  BY <1>1, <1>2 DEF CycleClean
<1>18. TriColor'
  <2> SUFFICES ASSUME NEW x \in alloc, x \notin tmudata, color'[x] = "black", NEW y \in Refs(x)
               PROVE  color'[y] \notin WhiteBits
    <3>1. \A x \in alloc' : Refs(x)' = Refs(x)
      BY <1>2, <1>13 DEF TypeOK
    <3> QED
      BY <1>2, <3>1 DEF TriColor, isblack, iswhite
  <2>1. x \in Obj /\ y \in Obj
    BY RefsType DEF TypeOK
  <2>2. CASE x = o
    BY <1>5, <1>6, <1>9, <1>10, <2>1, <2>2
  <2>3. CASE x # o /\ x \in Reached(refs)
    BY <1>6, <1>9, <1>10, <2>1, <2>3
  <2>4. CASE x # o /\ x \notin Reached(refs)
    BY <1>1, <1>9, <1>10, <2>1, <2>4 DEF LiveInv, TriColor, isblack, iswhite
  <2> QED
    BY <2>2, <2>3, <2>4
<1>19. GrayListed'
  <2>1. \A x \in Queued : x \in Obj /\ MarkColor(x) = "gray"
    BY QueuedType DEF MarkColor
  <2>2. \A x \in Queued : color'[x] = "gray" <=>
          IF x = o THEN o \in Thread \/ isweak ELSE x \in Reached(refs) \/ isgray(x)
    BY <1>9, <2>1 DEF isgray
  <2>3. (gray \cup grayagain \cup weak)' = {x \in alloc' \cap Queued : color'[x] = "gray"}
    BY <1>1, <1>2, <1>3, <1>4, <1>7, <1>11, <2>2
  <2>4. isweak => o \notin Thread
    BY DisjointTable DEF isweak
  <2>5. /\ (gray \cap grayagain)' = {} /\ (gray \cap weak)' = {} /\ (grayagain \cap weak)' = {}
    BY <1>1, <1>3, <1>7, <1>11, <2>4
  <2> QED
    BY <2>3, <2>5 DEF GrayListed, isgray
<1>20. RootsMarked'
  BY <1>1, <1>10, PoolType DEF LiveInv, RootsMarked, iswhite
<1> QED
  BY <1>13, <1>14, <1>15, <1>16, <1>17, <1>18, <1>19, <1>20 DEF LiveInv

LEMMA FullLive ==
  ASSUME TypeOK, LiveInv, luaC_fullgc \/ EndCycle PROVE LiveInv'
PROOF
<1>1. /\ UNCHANGED <<alloc, objVars, upvalVars, stack, running, basemt, currentwhite, tmudata>>
      /\ color' = color
  BY DEF luaC_fullgc, EndCycle, mutatorState, finVars
<1>2. /\ \A x \in Obj : Refs(x)' = Refs(x) /\ (isdead(x)' <=> isdead(x))
      /\ OpenUpvals' = OpenUpvals /\ (\A u : IsOpen(u)' <=> IsOpen(u)) /\ uvthread' = uvthread
      /\ Colored' /\ Blank' /\ UpvalueShared' /\ NoDangling'
  BY <1>1, QuietStep
<1>3. Shades'
  BY <1>1, <1>2 DEF LiveInv, Shades, isblack, isgray
<1>4. CASE EndCycle
  <2>1. gcstate = "finalize" /\ gcstate' = "pause" /\ tmudata = {} /\ UNCHANGED sweepVars
    BY <1>4 DEF EndCycle
  <2>2. Ahead'
    BY <1>1, <1>2, <2>1 DEF LiveInv, Ahead, sweepVars
  <2>3. NoneDead'
    BY <1>1, <1>2, <2>1 DEF LiveInv, NoneDead, TypeOK
  <2>4. CycleClean' /\ TriColor' /\ GrayListed' /\ RootsMarked'
    BY <1>1, <2>1 DEF LiveInv, CycleClean, TriColor, GrayListed, RootsMarked
  <2> QED
    BY <1>2, <1>3, <2>2, <2>3, <2>4 DEF LiveInv
<1>5. CASE luaC_fullgc /\ gcstate \in {"pause", "propagate"}
  <2>1. /\ gcstate' = "sweepstring" /\ sweepstr' = alloc \cap Str
        /\ sweepgc' = alloc \ (Str \cup OpenUpvals \cup tmudata)
    BY <1>5 DEF luaC_fullgc
  <2>2. Ahead'
    <3>1. OpenUpvals \cap Str = {}
      BY DisjointUpVal DEF OpenUpvals
    <3>2. \A u \in OpenUpvals : uvthread[u] \in sweepgc'
      <4>1. \A u \in OpenUpvals : uvthread[u] \in alloc \cap Thread
        BY DEF LiveInv, UpvalueShared, OpenUpvals, IsOpen, TypeOK
      <4>2. Thread \cap (Str \cup OpenUpvals \cup tmudata) = {}
        BY DisjointThread, DisjointUdata DEF OpenUpvals, TypeOK
      <4> QED
        BY <2>1, <4>1, <4>2
    <3> QED
      BY <1>1, <1>2, <2>1, <3>1, <3>2 DEF Ahead
  <2>3. NoneDead' /\ CycleClean' /\ TriColor' /\ GrayListed' /\ RootsMarked'
    BY <2>1 DEF NoneDead, CycleClean, TriColor, GrayListed, RootsMarked
  <2> QED
    BY <1>2, <1>3, <2>2, <2>3 DEF LiveInv
<1>6. CASE luaC_fullgc /\ gcstate \notin {"pause", "propagate"}
  <2>1. UNCHANGED <<gcstate, sweepVars, listVars>>
    BY <1>6 DEF luaC_fullgc
  <2>2. Ahead'
    BY <1>1, <1>2, <2>1 DEF LiveInv, Ahead, sweepVars
  <2>3. NoneDead'
    BY <1>1, <1>2, <2>1 DEF LiveInv, NoneDead, TypeOK
  <2>4. CycleClean' /\ TriColor' /\ GrayListed' /\ RootsMarked'
    BY <1>1, <1>6, <2>1 DEF LiveInv, CycleClean, TriColor, GrayListed, RootsMarked
  <2> QED
    BY <1>2, <1>3, <2>2, <2>3, <2>4 DEF LiveInv
<1> QED
  BY <1>4, <1>5, <1>6

----------------------------------------------------------------------------
(* The collector: sweeping and finalizers. *)

LEMMA SweepStringLive ==
  ASSUME TypeOK, LiveInv, NEW bucket \in SUBSET sweepstr, SweepString(bucket) PROVE LiveInv'
PROOF
<1> SUFFICES ASSUME NEW freed, freed = {s \in bucket : isdead(s)} PROVE LiveInv'
  OBVIOUS
<1>1. /\ gcstate = "sweepstring" /\ alloc' = alloc \ freed
      /\ color' = Swept(bucket, freed) /\ sweepstr' = sweepstr \ bucket
      /\ gcstate' = IF sweepstr' = {} THEN "sweep" ELSE gcstate
      /\ UNCHANGED <<objVars, upvalVars, stack, running, basemt, currentwhite, tmudata, sweepgc>>
  BY DEF SweepString, mutatorState, finVars
<1>2. /\ bucket \subseteq Str /\ freed \subseteq bucket
      /\ \A s \in Str : s \in Obj /\ s \notin UpVal \cup Thread
  BY DisjointUpVal, DisjointThread DEF TypeOK, Obj
<1>3. \A x \in Obj : color'[x] = IF x \in freed THEN "none"
                                 ELSE IF x \in bucket THEN currentwhite ELSE color[x]
  BY <1>1 DEF Swept, Reset
<1>4. \A x \in Obj : Refs(x)' = Refs(x)
  BY <1>1, UnchangedFields, SameRefs
<1>5. otherwhite' = otherwhite
  BY <1>1 DEF otherwhite
<1>6. /\ OpenUpvals' = OpenUpvals /\ (\A u : IsOpen(u)' <=> IsOpen(u))
      /\ uvthread' = uvthread /\ uvslot' = uvslot
  BY <1>1, <1>2 DEF OpenUpvals, IsOpen, upvalVars
<1>7. bucket \subseteq alloc
  BY DEF LiveInv, Ahead
<1>8. Colored'
  BY <1>1, <1>2, <1>3, <1>7, Whites DEF LiveInv, Colored, TypeOK
<1>9. Blank'
  <2>1. \A s \in freed : Refs(s) = {}
    BY <1>2, RefsByType DEF RefsTyped
  <2> QED
    BY <1>1, <1>4, <2>1 DEF LiveInv, Blank
<1>10. UpvalueShared'
  <2>1. \A u \in OpenUpvals : uvthread[u] \in Thread
    BY DEF OpenUpvals, IsOpen, TypeOK
  <2> QED
    BY <1>1, <1>2, <1>6, <2>1 DEF LiveInv, UpvalueShared
<1>11. Shades'
  BY <1>3, <1>6, Whites DEF LiveInv, Shades, isblack, isgray
<1>12. Ahead'
  <2>1. (sweepstr \cup sweepgc)' \subseteq alloc' \ OpenUpvals'
    BY <1>1, <1>2, <1>6 DEF LiveInv, Ahead, TypeOK
  <2>2. gcstate' = "sweep" => sweepstr' = {}
    BY <1>1
  <2>3. ASSUME NEW x \in alloc', x \notin tmudata, color'[x] # currentwhite
        PROVE  \/ x \in sweepstr' \cup sweepgc
               \/ x \in OpenUpvals /\ uvthread[x] \in sweepgc
    <3>1. x \in alloc /\ x \in Obj /\ x \notin freed
      BY <1>1 DEF TypeOK
    <3>2. x \notin bucket /\ color[x] # currentwhite
      BY <1>3, <2>3, <3>1
    <3> QED
      BY <1>1, <2>3, <3>1, <3>2 DEF LiveInv, Ahead
  <2> QED
    BY <1>1, <1>6, <2>1, <2>2, <2>3 DEF Ahead
<1>13. NoneDead' /\ CycleClean' /\ TriColor' /\ GrayListed' /\ RootsMarked'
  BY <1>1 DEF NoneDead, CycleClean, TriColor, GrayListed, RootsMarked
<1>14. NoDangling'
  <2>1. \A x : Live(x) => Live(x)'
    BY <1>1, <1>3, <1>5, Whites DEF Live, isdead, TypeOK
  <2>2. Roots' = Roots
    BY <1>1 DEF Roots
  <2>3. ASSUME NEW o \in alloc', ~isdead(o)', NEW x \in Refs(o)' PROVE Live(x)
    <3>1. o \in alloc /\ o \in Obj /\ o \notin freed
      BY <1>1 DEF TypeOK
    <3>2. ~isdead(o)
      BY <1>3, <1>5, <2>3, <3>1 DEF isdead
    <3> QED
      BY <1>4, <2>3, <3>1, <3>2 DEF LiveInv, NoDangling
  <2> QED
    BY <2>1, <2>2, <2>3 DEF LiveInv, NoDangling
<1> QED
  BY <1>8, <1>9, <1>10, <1>11, <1>12, <1>13, <1>14 DEF LiveInv

LEMMA SweepListLive ==
  ASSUME TypeOK, LiveInv, FinalInv, NEW chunk \in SUBSET sweepgc, sweeplist(chunk)
  PROVE  LiveInv' /\ OnlyFrees
PROOF
<1> SUFFICES ASSUME NEW upvs, upvs = {u \in OpenUpvals : uvthread[u] \in chunk},
                    NEW freed, freed = {o \in chunk \cup upvs : isdead(o)},
                    NEW closing, closing = {u \in upvs : uvthread[u] \in freed}
             PROVE  LiveInv' /\ OnlyFrees
  OBVIOUS
<1>1. /\ gcstate = "sweep" /\ alloc' = alloc \ freed
      /\ color' = Swept(chunk \cup upvs, freed) /\ sweepgc' = sweepgc \ chunk
      /\ gcstate' = IF sweepgc' = {} THEN "finalize" ELSE gcstate
      /\ UNCHANGED <<running, basemt, currentwhite, tmudata, sweepstr>>
  BY DEF sweeplist, mutatorState
<1>2. /\ metatable' = Reset(metatable, freed, Nil)
      /\ env' = Reset(env, freed, Nil)
      /\ node' = Reset(node, freed, [k \in Key |-> Nil])
      /\ cupval' = Reset(cupval, freed, Nil)
      /\ upvals' = Reset(upvals, freed, {})
      /\ stack' = Reset(stack, freed, [i \in Slot |-> Nil])
  BY DEF sweeplist
<1>3. /\ uvthread' = Reset(uvthread, closing \cup freed, Nil)
      /\ uvslot' = Reset(uvslot, closing \cup freed, 1)
      /\ uvvalue' = [u \in UpVal |-> IF u \in freed THEN Nil
                                     ELSE IF u \in closing THEN UpvalValue(u) ELSE uvvalue[u]]
  BY DEF sweeplist
<1>4. /\ chunk \subseteq Obj /\ chunk \cap Str = {} /\ chunk \cap OpenUpvals = {}
      /\ chunk \subseteq alloc /\ OpenUpvals \subseteq alloc \cap UpVal /\ UpVal \subseteq Obj
  BY PoolType DEF LiveInv, Ahead, TypeOK, OpenUpvals
<1>5. \A u \in OpenUpvals : uvthread[u] \in alloc \cap Thread /\ uvthread[u] \notin UpVal
  BY DisjointThread DEF LiveInv, UpvalueShared, OpenUpvals, IsOpen, TypeOK
<1>6. \A u \in OpenUpvals : uvthread[u] \in freed => u \in closing
  BY <1>4, <1>5
<1>7. \A x \in Obj : color'[x] = IF x \in freed THEN "none"
                                 ELSE IF x \in chunk \cup upvs THEN currentwhite ELSE color[x]
  BY <1>1 DEF Swept, Reset
<1>8. otherwhite' = otherwhite
  BY <1>1 DEF otherwhite
<1>9. OpenUpvals' = OpenUpvals \ (closing \cup freed)
  <2>1. \A u \in UpVal : uvthread'[u] = IF u \in closing \cup freed THEN Nil ELSE uvthread[u]
    BY <1>3 DEF Reset, TypeOK
  <2> QED
    BY <1>1, <1>4, <2>1 DEF OpenUpvals, IsOpen
<1>10. \A u \in OpenUpvals \ (closing \cup freed) : uvthread'[u] = uvthread[u] /\ uvslot'[u] = uvslot[u]
  BY <1>3, <1>4 DEF Reset, TypeOK
<1>11. \A x \in Obj : x \notin freed /\ (x \in alloc \/ x \notin UpVal) => Refs(x)' = Refs(x)
  <2> SUFFICES ASSUME NEW x \in Obj, x \notin freed, x \in alloc \/ x \notin UpVal
               PROVE  Refs(x)' = Refs(x)
    OBVIOUS
  <2>1. CASE x \in closing
    <3>1. x \in UpVal /\ uvthread'[x] = Nil /\ uvvalue'[x] = UpvalValue(x)
      BY <1>3, <1>4, <2>1 DEF Reset, TypeOK
    <3>2. UpvalValue(x)' = UpvalValue(x)
      BY <3>1 DEF UpvalValue, IsOpen
    <3> QED
      BY <3>1, <3>2, RefsByType, RefsByTypeNext DEF RefsTyped
  <2>2. CASE x \notin closing
    <3>1. x \in UpVal => uvthread'[x] = uvthread[x] /\ uvslot'[x] = uvslot[x] /\ uvvalue'[x] = uvvalue[x]
      BY <1>3, <2>2 DEF Reset, TypeOK
    <3>2. SameFields(x)
      BY <1>2, <3>1 DEF SameFields, Reset, TypeOK
    <3>3. \A th \in Thread : stack'[th] = IF th \in freed THEN [i \in Slot |-> Nil] ELSE stack[th]
      BY <1>2 DEF Reset, TypeOK
    <3>4. \A th \in Thread : \A i \in Slot : stack'[th][i] = stack[th][i] \/ stack'[th][i] = Nil
      BY <3>3
    <3>5. CASE x \in UpVal /\ IsOpen(x)
      <4>1. uvthread[x] \in Thread /\ uvthread[x] \notin freed
        BY <1>5, <1>6, <2>2, <3>5 DEF OpenUpvals
      <4>2. UpvalValue(x)' = UpvalValue(x)
        BY <3>1, <3>3, <3>5, <4>1 DEF UpvalValue, IsOpen
      <4> QED
        BY <3>5, <4>2, RefsByType, RefsByTypeNext DEF RefsTyped
    <3>6. CASE x \in Thread
      BY <3>2, <3>3, <3>4, <3>6, StackRefs
    <3>7. CASE x \notin Thread /\ ~(x \in UpVal /\ IsOpen(x))
      BY <3>2, <3>4, <3>7, StackRefs
    <3> QED
      BY <3>5, <3>6, <3>7
  <2> QED
    BY <2>1, <2>2
<1>12. \A x \in freed : x \notin UpVal => Refs(x)' = {}
  <2> SUFFICES ASSUME NEW x \in freed, x \notin UpVal PROVE Refs(x)' = {}
    OBVIOUS
  <2>o. x \in Obj
    BY <1>4
  <2>1. CASE x \in Table
    <3>1. metatable'[x] = Nil /\ node'[x] = [k \in Key |-> Nil]
      BY <1>2, <2>1 DEF Reset, TypeOK
    <3>2. Entries(x)' = {}
      BY <3>1 DEF Entries
    <3> QED
      BY <2>o, <2>1, <3>1, <3>2, RefsByTypeNext DEF RefsTyped
  <2>2. CASE x \in LClosure
    <3>1. env'[x] = Nil /\ upvals'[x] = {}
      BY <1>2, <2>2 DEF Reset, TypeOK
    <3> QED
      BY <2>o, <2>2, <3>1, RefsByTypeNext DEF RefsTyped
  <2>3. CASE x \in CClosure
    <3>1. env'[x] = Nil /\ cupval'[x] = Nil
      BY <1>2, <2>3 DEF Reset, TypeOK
    <3> QED
      BY <2>o, <2>3, <3>1, RefsByTypeNext DEF RefsTyped
  <2>4. CASE x \in Udata
    <3>1. env'[x] = Nil /\ metatable'[x] = Nil
      BY <1>2, <2>4 DEF Reset, TypeOK
    <3> QED
      BY <2>o, <2>4, <3>1, RefsByTypeNext DEF RefsTyped
  <2>5. CASE x \in Thread
    <3>1. env'[x] = Nil /\ stack'[x] = [i \in Slot |-> Nil]
      BY <1>2, <2>5 DEF Reset, TypeOK
    <3> QED
      BY <2>o, <2>5, <3>1, RefsByTypeNext DEF RefsTyped
  <2>6. CASE x \in Str
    BY <2>o, <2>6, RefsByTypeNext DEF RefsTyped
  <2> QED
    BY <2>o, <2>1, <2>2, <2>3, <2>4, <2>5, <2>6 DEF Obj
<1>13. freed \subseteq alloc
  BY <1>4
<1>14. Colored'
  BY <1>1, <1>4, <1>7, Whites DEF LiveInv, Colored, TypeOK
<1>15. Blank'
  BY <1>1, <1>11, <1>12 DEF LiveInv, Blank
<1>16. UpvalueShared'
  <2>1. \A u \in OpenUpvals' : uvthread[u] \in alloc'
    BY <1>1, <1>5, <1>6, <1>9
  <2> QED
    BY <1>9, <1>10, <2>1 DEF LiveInv, UpvalueShared
<1>17. Shades'
  <2> SUFFICES ASSUME NEW x \in Obj
               PROVE  /\ color'[x] = "black" => x \notin Thread \cup OpenUpvals'
                      /\ color'[x] = "gray" => x \notin Udata /\ (x \in UpVal => IsOpen(x)')
    BY DEF Shades, isblack, isgray
  <2>1. color'[x] = "black" => isblack(x)
    BY <1>7, Whites DEF isblack
  <2>2. color'[x] = "gray" => isgray(x) /\ x \notin chunk \cup upvs \cup freed
    BY <1>7, Whites DEF isgray
  <2>3. x \in UpVal /\ x \notin chunk \cup upvs \cup freed => (IsOpen(x)' <=> IsOpen(x))
    BY <1>3 DEF IsOpen, Reset, TypeOK
  <2> QED
    BY <1>9, <2>1, <2>2, <2>3 DEF LiveInv, Shades
<1>18. \A x \in alloc' : color'[x] # currentwhite => x \notin chunk \cup upvs /\ color[x] = color'[x]
  BY <1>1, <1>7 DEF TypeOK
<1>19. \A x \in alloc' \ tmudata : color'[x] # currentwhite =>
          \/ x \in sweepgc'
          \/ x \in OpenUpvals' /\ uvthread'[x] \in sweepgc'
  <2> SUFFICES ASSUME NEW x \in alloc' \ tmudata, color'[x] # currentwhite
               PROVE  \/ x \in sweepgc'
                      \/ x \in OpenUpvals' /\ uvthread'[x] \in sweepgc'
    OBVIOUS
  <2>1. x \notin chunk \cup upvs /\ color[x] # currentwhite /\ x \in alloc /\ x \notin freed
    BY <1>1, <1>18
  <2>2. x \in sweepgc \/ (x \in OpenUpvals /\ uvthread[x] \in sweepgc)
    BY <1>1, <2>1 DEF LiveInv, Ahead
  <2> QED
    BY <1>1, <1>9, <1>10, <2>1, <2>2
<1>20. Ahead'
  <2>1. (sweepstr \cup sweepgc)' \subseteq alloc' \ OpenUpvals'
    <3>1. sweepstr \cap freed = {} /\ (sweepgc \ chunk) \cap freed = {}
      <4>1. sweepstr \cap (chunk \cup OpenUpvals) = {} /\ sweepgc \cap OpenUpvals = {}
        BY <1>4 DEF LiveInv, Ahead, TypeOK
      <4> QED
        BY <4>1
    <3> QED
      BY <1>1, <1>9, <3>1 DEF LiveInv, Ahead
  <2> QED
    BY <1>1, <1>19, <2>1 DEF LiveInv, Ahead
<1>21. ASSUME gcstate' = "finalize"
       PROVE  /\ \A x \in alloc' \ tmudata : color'[x] = currentwhite
              /\ \A x \in alloc' : ~isdead(x)'
  <2>1. sweepgc' = {}
    BY <1>1, <1>21
  <2>2. \A x \in alloc' \ tmudata : color'[x] = currentwhite
    BY <1>19, <2>1
  <2>3. \A x \in tmudata : color'[x] # otherwhite
    BY <1>7, Whites DEF FinalInv, TypeOK
  <2> QED
    BY <1>8, <2>2, <2>3, Whites DEF isdead
<1>22. NoneDead' /\ CycleClean' /\ TriColor' /\ GrayListed' /\ RootsMarked'
  BY <1>1, <1>21 DEF NoneDead, CycleClean, TriColor, GrayListed, RootsMarked
<1>23. NoDangling'
  <2>1. \A x : Live(x) => Live(x)'
    BY <1>1, <1>7, <1>8, Whites DEF Live, isdead, TypeOK
  <2>2. Roots' = Roots
    BY <1>1 DEF Roots
  <2>3. ASSUME NEW o \in alloc', ~isdead(o)', NEW x \in Refs(o)' PROVE Live(x)
    <3>1. o \in alloc /\ o \in Obj /\ o \notin freed
      BY <1>1 DEF TypeOK
    <3>2. ~isdead(o)
      BY <1>7, <1>8, <2>3, <3>1 DEF isdead
    <3> QED
      BY <1>11, <2>3, <3>1, <3>2 DEF LiveInv, NoDangling
  <2> QED
    BY <2>1, <2>2, <2>3 DEF LiveInv, NoDangling
<1>24. OnlyFrees
  <2>1. Roots' = Roots
    BY <1>1 DEF Roots
  <2>2. \A o \in alloc' : o \in Obj /\ o \notin freed /\ o \in alloc
    BY <1>1 DEF TypeOK
  <2> QED
    BY <1>1, <1>11, <2>1, <2>2 DEF OnlyFrees
<1> QED
  BY <1>14, <1>15, <1>16, <1>17, <1>20, <1>22, <1>23, <1>24 DEF LiveInv

LEMMA GCTMLive ==
  ASSUME TypeOK, LiveInv, FinalInv, NEW u \in Udata, NEW j \in Slot, GCTM(u, j)
  PROVE  /\ LiveInv'
         /\ u \in alloc /\ alloc' = alloc /\ Roots' = Roots
         /\ \A x \in alloc : Refs(x)' \subseteq Refs(x) \cup {u}
PROOF
<1>1. /\ gcstate = "finalize" /\ u \in tmudata /\ tmudata' = tmudata \ {u}
      /\ color' = [color EXCEPT ![u] = currentwhite]
      /\ stack' = stack \/ stack' = [stack EXCEPT ![running][j] = u]
      /\ UNCHANGED <<alloc, objVars, upvalVars, running, basemt, currentwhite, gcstate, sweepVars>>
  BY DEF GCTM, mutatorState, Assign
<1>2. u \in Obj /\ u \in alloc /\ running \in Thread
  BY <1>1, UdataApart DEF FinalInv, TypeOK
<1>3. \A x \in Obj : color'[x] = IF x = u THEN currentwhite ELSE color[x]
  BY <1>1 DEF TypeOK
<1>4. otherwhite' = otherwhite
  BY <1>1 DEF otherwhite
<1>5. \A x : SameFields(x)
  BY <1>1, UnchangedFields
<1>6. \A x \in Obj : /\ Refs(x)' \subseteq Refs(x) \cup {u}
                     /\ x # running /\ x \notin UpVal => Refs(x)' = Refs(x)
  <2>1. CASE stack' = stack
    BY <1>5, <2>1, SameRefs
  <2>2. CASE stack' = [stack EXCEPT ![running][j] = u]
    BY <1>2, <1>5, <2>2, AssignRefs
  <2> QED
    BY <1>1, <2>1, <2>2
<1>7. /\ OpenUpvals' = OpenUpvals /\ (\A w : IsOpen(w)' <=> IsOpen(w))
      /\ uvthread' = uvthread /\ uvslot' = uvslot
  BY <1>1 DEF OpenUpvals, IsOpen, upvalVars
<1>8. Colored'
  BY <1>1, <1>2, <1>3, Whites DEF LiveInv, Colored
<1>9. Blank'
  BY <1>1, <1>6, HeldLive DEF LiveInv, Blank, Live
<1>10. UpvalueShared'
  BY <1>1, <1>7 DEF LiveInv, UpvalueShared
<1>11. Shades'
  BY <1>3, <1>7, Whites DEF LiveInv, Shades, isblack, isgray
<1>12. Ahead'
  BY <1>1, <1>7 DEF LiveInv, Ahead, sweepVars
<1>13. \A x \in alloc : ~isdead(x) /\ ~isdead(x)'
  BY <1>1, <1>3, <1>4, Whites DEF LiveInv, NoneDead, isdead, TypeOK
<1>14. NoneDead'
  BY <1>1, <1>13 DEF NoneDead
<1>15. CycleClean'
  BY <1>1, <1>3 DEF LiveInv, CycleClean, TypeOK
<1>16. TriColor' /\ GrayListed' /\ RootsMarked'
  BY <1>1 DEF TriColor, GrayListed, RootsMarked
<1>r. Roots' = Roots
  BY <1>1 DEF Roots
<1>17. NoDangling'
  <2>2. \A x : Live(x) => Live(x)'
    BY <1>1, <1>13 DEF Live
  <2>3. ASSUME NEW o \in alloc', NEW x \in Refs(o)' PROVE Live(x)
    BY <1>1, <1>2, <1>6, <1>13, <2>3 DEF LiveInv, NoDangling, Live, TypeOK
  <2> QED
    BY <1>r, <2>2, <2>3 DEF LiveInv, NoDangling
<1>18. \A x \in alloc : x \in Obj
  BY DEF TypeOK
<1> QED
  BY <1>1, <1>2, <1>6, <1>8, <1>9, <1>10, <1>11, <1>12, <1>14, <1>15, <1>16, <1>17, <1>18, <1>r
     DEF LiveInv

----------------------------------------------------------------------------
(* The collector: the atomic end of the mark phase. *)

LEMMA MarkAllCloses ==
  ASSUME NEW done \in SUBSET alloc, NEW again, NEW extra
  PROVE  /\ MarkAll(done, again, extra) \subseteq alloc
         /\ done \subseteq MarkAll(done, again, extra)
         /\ extra \cap alloc \subseteq MarkAll(done, again, extra)
         /\ \A o \in again \cup (MarkAll(done, again, extra) \ done) :
              StrongRefs(o) \cap alloc \subseteq MarkAll(done, again, extra)
PROOF
<1> DEFINE closed == {S \in {done \cup X : X \in SUBSET (alloc \ done)} :
                        /\ extra \subseteq S
                        /\ \A o \in again \cup (S \ done) : StrongRefs(o) \subseteq S}
           M == {o \in alloc : \A S \in closed : o \in S}
<1>1. MarkAll(done, again, extra) = M
  BY DEF MarkAll
<1>2. \A S \in closed : /\ done \subseteq S /\ extra \subseteq S
                        /\ \A o \in again \cup (S \ done) : StrongRefs(o) \subseteq S
  OBVIOUS
<1>3. \A o : o \in M <=> o \in alloc /\ \A S \in closed : o \in S
  OBVIOUS
<1> HIDE DEF closed, M
<1>4. ASSUME NEW o \in again \cup (M \ done), NEW x \in StrongRefs(o) \cap alloc PROVE x \in M
  BY <1>2, <1>3, <1>4
<1> QED
  BY <1>1, <1>2, <1>3, <1>4

(* What atomic computes: the objects that are marked already, what it marks  *)
(* besides the lists, what is marked before userdata are separated, the      *)
(* userdata that get on or stay in tmudata, and what is marked in the end.   *)
Done == {o \in alloc : ~iswhite(o)}
Remarked == {UpvalValue(u) : u \in {v \in OpenUpvals : isgray(v)}} \cup {running, basemt}
First == MarkAll(Done, weak \cup grayagain, Obj \cap Remarked)
Separated == luaC_separateudata(First)
Waiting == tmudata \cup {u \in Separated : HasFinalizer(u)}
AllMarked == MarkAll(First \cup Waiting, Waiting, {})

(* The mark phase ends with a set of marked objects that has the roots and is *)
(* closed under the references marking follows; before the separation all but *)
(* the userdata that wait already.                                           *)
LEMMA AtomicMarks ==
  ASSUME TypeOK, LiveInv, FinalInv, gcstate = "propagate", gray = {}
  PROVE  /\ Waiting \subseteq alloc \cap Udata
         /\ First \subseteq alloc /\ Done \subseteq First
         /\ AllMarked \subseteq alloc /\ First \cup Waiting \subseteq AllMarked
         /\ \A o \in alloc : ~isdead(o)
         /\ \A o \in alloc : \A x \in Refs(o) : x \in alloc /\ x \in Obj
         /\ weak \cup grayagain = {o \in alloc \cap Queued : isgray(o)}
         /\ \A o \in First \ tmudata : StrongRefs(o) \subseteq First
         /\ \A o \in AllMarked : StrongRefs(o) \subseteq AllMarked
         /\ Roots \subseteq First
PROOF
<1>1. /\ Done \subseteq alloc /\ alloc \subseteq Obj
      /\ Waiting \subseteq alloc \cap Udata /\ tmudata \subseteq Waiting
  BY DEF TypeOK, FinalInv, luaC_separateudata, Done, Waiting, Separated
<1>2. /\ First \subseteq alloc /\ Done \subseteq First
      /\ (Obj \cap Remarked) \cap alloc \subseteq First
      /\ \A o \in (weak \cup grayagain) \cup (First \ Done) : StrongRefs(o) \cap alloc \subseteq First
  <2> DEFINE again == weak \cup grayagain
             extra == Obj \cap Remarked
             M == MarkAll(Done, again, extra)
  <2>1. Done \in SUBSET alloc
    BY <1>1
  <2> HIDE DEF again, extra
  <2>2. /\ M \subseteq alloc /\ Done \subseteq M /\ extra \cap alloc \subseteq M
        /\ \A o \in again \cup (M \ Done) : StrongRefs(o) \cap alloc \subseteq M
    BY <2>1, MarkAllCloses, Zenon
  <2>3. First = M
    BY DEF again, extra, First
  <2> HIDE DEF M
  <2> QED
    BY <2>2, <2>3 DEF again, extra
<1>3. /\ AllMarked \subseteq alloc /\ First \cup Waiting \subseteq AllMarked
      /\ \A o \in Waiting \cup (AllMarked \ (First \cup Waiting)) : StrongRefs(o) \cap alloc \subseteq AllMarked
  <2> DEFINE D == First \cup Waiting
             M == MarkAll(D, Waiting, {})
  <2>1. D \in SUBSET alloc
    BY <1>1, <1>2
  <2> HIDE DEF D
  <2>2. /\ M \subseteq alloc /\ D \subseteq M
        /\ \A o \in Waiting \cup (M \ D) : StrongRefs(o) \cap alloc \subseteq M
    BY <2>1, MarkAllCloses, Zenon
  <2>3. AllMarked = M
    BY DEF D, AllMarked
  <2> HIDE DEF M
  <2> QED
    BY <2>2, <2>3 DEF D
<1>4. \A o \in alloc : ~isdead(o)
  BY DEF LiveInv, NoneDead
<1>5. \A o \in alloc : \A x \in Refs(o) : x \in alloc /\ x \in Obj
  BY <1>4, RefsType DEF LiveInv, NoDangling, Live
<1>6. weak \cup grayagain = {o \in alloc \cap Queued : isgray(o)}
  BY DEF LiveInv, GrayListed
<1>7. ASSUME NEW o \in First \ tmudata PROVE StrongRefs(o) \subseteq First
  <2>1. o \in alloc /\ o \in Obj /\ StrongRefs(o) \subseteq Refs(o) /\ StrongRefs(o) \subseteq alloc
    BY <1>1, <1>2, <1>5, StrongRefsType
  <2>2. CASE o \in First \ Done
    BY <1>2, <2>1, <2>2
  <2>3. CASE o \in Done
    <3>1. isblack(o) \/ isgray(o)
      <4>1. color[o] # "none" /\ ~iswhite(o)
        BY <2>1, <2>3 DEF LiveInv, Colored, Done
      <4> QED
        BY <2>1, <4>1 DEF TypeOK, isblack, isgray, iswhite
    <3>2. CASE isblack(o)
      <4>1. \A x \in Refs(o) : ~iswhite(x)
        BY <1>7, <2>1, <3>2 DEF LiveInv, TriColor
      <4> QED
        BY <1>2, <2>1, <4>1 DEF Done
    <3>3. CASE isgray(o) /\ o \in Queued
      BY <1>2, <1>6, <2>1, <3>3
    <3>4. CASE isgray(o) /\ o \notin Queued
      <4>1. o \in Str \cup UpVal
        BY <2>1, <3>4 DEF LiveInv, Shades, Obj, Queued
      <4>2. CASE o \in Str
        BY <2>1, <4>2, RefsByType DEF RefsTyped
      <4>3. CASE o \in UpVal
        <5>1. o \in OpenUpvals /\ Refs(o) = Obj \cap {UpvalValue(o)}
          BY <2>1, <3>4, <4>3, RefsByType DEF LiveInv, Shades, OpenUpvals, RefsTyped
        <5>2. Refs(o) \subseteq Obj \cap Remarked
          BY <3>4, <5>1 DEF Remarked
        <5> QED
          BY <1>2, <2>1, <5>2
      <4> QED
        BY <4>1, <4>2, <4>3
    <3> QED
      BY <3>1, <3>2, <3>3, <3>4
  <2> QED
    BY <1>7, <2>2, <2>3
<1>8. ASSUME NEW o \in AllMarked PROVE StrongRefs(o) \subseteq AllMarked
  <2>1. StrongRefs(o) \subseteq Refs(o) /\ StrongRefs(o) \subseteq alloc
    BY <1>1, <1>3, <1>5, <1>8, StrongRefsType
  <2>2. CASE o \in Waiting \cup (AllMarked \ (First \cup Waiting))
    BY <1>3, <2>1, <2>2
  <2>3. CASE o \in First \ tmudata
    BY <1>3, <1>7, <2>3
  <2> QED
    BY <1>1, <1>8, <2>2, <2>3
<1>9. Roots \subseteq First
  <2>1. MainThread \in Done /\ Registry \in Done
    BY HeldLive DEF LiveInv, RootsMarked, Live, Done
  <2>2. Obj \cap {running, basemt} \subseteq alloc
    BY DEF LiveInv, NoDangling, Roots, Live
  <2>3. Obj \cap {running, basemt} \subseteq First
    BY <1>2, <2>2 DEF Remarked
  <2> QED
    BY <1>2, <2>1, <2>3 DEF Roots
<1> QED
  BY <1>1, <1>2, <1>3, <1>4, <1>5, <1>6, <1>7, <1>8, <1>9

LEMMA AtomicLive ==
  ASSUME TypeOK, LiveInv, FinalInv, atomic PROVE LiveInv' /\ OnlyFrees
PROOF
<1> DEFINE weaklist == {t \in Table \cap (weak \cup grayagain \cup (AllMarked \ Done)) : Mode(t) # {}}
           keys == UNION {Entries(t) : t \in weaklist}
           fin == finalized'
           values == UNION {{node[t][k] : k \in {e \in Entries(t) :
                                ~iscleared(e, TRUE, AllMarked, fin)}} : t \in weaklist}
           black == AllMarked \ (Str \cup Thread \cup OpenUpvals \cup weaklist)
           kept == AllMarked \cup (Str \cap (keys \cup values))
<1>1. /\ gcstate = "propagate" /\ gray = {} /\ gcstate' = "sweepstring"
      /\ currentwhite' = otherwhite
      /\ UNCHANGED <<alloc, metatable, env, cupval, upvals, upvalVars, stack, running, basemt>>
  BY DEF atomic
<1>2. /\ tmudata' = Waiting
      /\ sweepstr' = alloc \cap Str
      /\ sweepgc' = alloc \ (Str \cup OpenUpvals \cup Waiting)
  BY DEF atomic, Done, Remarked, First, Separated, Waiting
<1>3. node' = cleartable(weaklist, AllMarked, fin)
  BY DEF atomic, Done, Remarked, First, Separated, Waiting, AllMarked
<1>4. color' = [o \in Obj |-> CASE o \in black -> "black"
                               [] o \in AllMarked \ black -> "gray"
                               [] o \in Str \cap (keys \cup values) -> "gray"
                               [] OTHER -> color[o]]
  BY DEF atomic, Done, Remarked, First, Separated, Waiting, AllMarked
<1>v. \A v : v \in values <=>
             \E t \in weaklist : \E k \in Entries(t) : ~iscleared(k, TRUE, AllMarked, fin) /\ v = node[t][k]
  <2> HIDE DEF weaklist, AllMarked, fin
  <2>1. ASSUME NEW v \in values
        PROVE  \E t \in weaklist : \E k \in Entries(t) : ~iscleared(k, TRUE, AllMarked, fin) /\ v = node[t][k]
    <3>1. PICK t \in weaklist : v \in {node[t][k] : k \in {e \in Entries(t) : ~iscleared(e, TRUE, AllMarked, fin)}}
      OBVIOUS
    <3>2. PICK k \in {e \in Entries(t) : ~iscleared(e, TRUE, AllMarked, fin)} : v = node[t][k]
      BY <3>1
    <3> QED
      BY <3>2
  <2>2. ASSUME NEW t \in weaklist, NEW k \in Entries(t), ~iscleared(k, TRUE, AllMarked, fin)
        PROVE  node[t][k] \in values
    <3>1. node[t][k] \in {node[t][e] : e \in {e \in Entries(t) : ~iscleared(e, TRUE, AllMarked, fin)}}
      BY <2>2
    <3> QED
      BY <3>1
  <2>3. ASSUME NEW v, \E t \in weaklist : \E k \in Entries(t) : ~iscleared(k, TRUE, AllMarked, fin) /\ v = node[t][k]
        PROVE  v \in values
    <3>1. PICK t \in weaklist : \E k \in Entries(t) : ~iscleared(k, TRUE, AllMarked, fin) /\ v = node[t][k]
      BY <2>3
    <3>2. PICK k \in Entries(t) : ~iscleared(k, TRUE, AllMarked, fin) /\ v = node[t][k]
      BY <3>1
    <3>3. node[t][k] \in values
      BY <2>2, <3>2
    <3> QED
      BY <3>2, <3>3
  <2> HIDE DEF values
  <2> QED
    BY <2>1, <2>3
<1> HIDE DEF weaklist, keys, fin, values, black, kept
<1>5. Done \subseteq alloc /\ Waiting \subseteq alloc \cap Udata /\ alloc \subseteq Obj /\ tmudata \subseteq Waiting
  BY DEF TypeOK, FinalInv, luaC_separateudata, Done, Waiting, Separated
<1>m. /\ First \subseteq alloc /\ Done \subseteq First
      /\ AllMarked \subseteq alloc /\ First \cup Waiting \subseteq AllMarked
      /\ \A o \in alloc : ~isdead(o)
      /\ \A o \in alloc : \A x \in Refs(o) : x \in alloc /\ x \in Obj
      /\ weak \cup grayagain = {o \in alloc \cap Queued : isgray(o)}
      /\ \A o \in AllMarked : StrongRefs(o) \subseteq AllMarked
      /\ Roots \subseteq AllMarked
  <2>1. First \subseteq AllMarked /\ Roots \subseteq First
    BY <1>1, AtomicMarks
  <2> QED
    BY <1>1, <2>1, AtomicMarks
<1>12. weaklist \subseteq alloc \cap Table /\ \A t \in weaklist : Mode(t) # {}
  BY <1>m DEF weaklist
<1>13. kept \subseteq alloc
  <2>1. ASSUME NEW t \in weaklist, NEW k \in Entries(t)
        PROVE  /\ k \in Str => k \in alloc
               /\ node[t][k] \in Str => node[t][k] \in alloc
    <3>1. Refs(t) = Obj \cap ({metatable[t]} \cup Entries(t) \cup {node[t][e] : e \in Entries(t)})
      BY <1>5, <1>12, RefsByType DEF RefsTyped
    <3>2. \A s \in Str : s \in Obj
      BY PoolType
    <3> QED
      BY <1>m, <1>12, <3>1, <3>2
  <2>2. \A x \in Str \cap keys : x \in alloc
    BY <2>1 DEF keys
  <2>3. \A x \in Str \cap values : x \in alloc
    <3> SUFFICES ASSUME NEW x \in Str \cap values PROVE x \in alloc
      OBVIOUS
    <3>1. PICK t \in weaklist : \E k \in Entries(t) : x = node[t][k]
      BY <1>v
    <3>2. PICK k \in Entries(t) : x = node[t][k]
      BY <3>1
    <3> QED
      BY <2>1, <3>2
  <2> QED
    BY <1>m, <2>2, <2>3 DEF kept
<1>14. \A t \in Table : \A k \in Key :
         node'[t][k] = IF t \in weaklist /\ (\/ iscleared(k, TRUE, AllMarked, fin)
                                            \/ iscleared(node[t][k], FALSE, AllMarked, fin))
                       THEN Nil ELSE node[t][k]
  BY <1>3 DEF cleartable
<1>15. \A x \in Obj : x \notin weaklist => Refs(x)' = Refs(x)
  <2> SUFFICES ASSUME NEW x \in Obj, x \notin weaklist PROVE Refs(x)' = Refs(x)
    OBVIOUS
  <2>1. x \in Table => node'[x] = node[x]
    BY <1>3 DEF cleartable, TypeOK
  <2>2. SameFields(x)
    BY <1>1, <2>1 DEF SameFields, upvalVars
  <2> QED
    BY <1>1, <2>2, SameRefs
<1>16. ASSUME NEW t \in weaklist
       PROVE  /\ Refs(t)' \subseteq Refs(t)
              /\ t \in AllMarked => Refs(t)' \subseteq kept
  <2>o. t \in Obj /\ t \in Table
    BY <1>5, <1>12
  <2>1. Entries(t)' \subseteq {k \in Entries(t) : /\ ~iscleared(k, TRUE, AllMarked, fin)
                                                  /\ ~iscleared(node[t][k], FALSE, AllMarked, fin)
                                                  /\ node'[t][k] = node[t][k]}
    BY <1>14, <1>16, <2>o DEF Entries
  <2>2. Refs(t) = Obj \cap ({metatable[t]} \cup Entries(t) \cup {node[t][k] : k \in Entries(t)})
    BY <2>o, RefsByType DEF RefsTyped
  <2>3. Refs(t)' = Obj \cap ({metatable[t]} \cup Entries(t)' \cup {node'[t][k] : k \in Entries(t)'})
    BY <1>1, <2>o, RefsByTypeNext DEF RefsTyped
  <2>4. Refs(t)' \subseteq Refs(t)
    BY <2>1, <2>2, <2>3
  <2>5. ASSUME t \in AllMarked PROVE Obj \cap {metatable[t]} \subseteq AllMarked
    BY <1>m, <2>5, <2>o DEF StrongRefs, TableRefs
  <2>6. \A k \in Obj \cap Entries(t)' : k \in kept
    <3>1. \A k \in Obj \cap Entries(t)' : k \in Str \/ k \in AllMarked
      BY <2>1 DEF iscleared
    <3>2. Entries(t)' \subseteq keys
      BY <2>1 DEF keys
    <3> QED
      BY <3>1, <3>2 DEF kept
  <2>7. \A k \in Entries(t)' : node'[t][k] \in Obj => node'[t][k] \in kept
    <3> SUFFICES ASSUME NEW k \in Entries(t)', node'[t][k] \in Obj PROVE node'[t][k] \in kept
      OBVIOUS
    <3>1. node'[t][k] = node[t][k] /\ k \in Entries(t) /\ ~iscleared(k, TRUE, AllMarked, fin)
      BY <2>1
    <3>2. node[t][k] \in Str \/ node[t][k] \in AllMarked
      BY <2>1, <3>1 DEF iscleared
    <3>3. node[t][k] \in values
      BY <1>v, <3>1
    <3> QED
      BY <3>1, <3>2, <3>3 DEF kept
  <2>8. AllMarked \subseteq kept
    BY DEF kept
  <2> QED
    BY <2>3, <2>4, <2>5, <2>6, <2>7, <2>8
<1>17. ASSUME NEW o \in AllMarked PROVE Refs(o)' \subseteq kept
  <2>o. o \in Obj /\ o \in alloc
    BY <1>5, <1>m
  <2>1. CASE o \in weaklist
    BY <1>16, <2>1
  <2>2. CASE o \notin weaklist /\ ~(o \in Table /\ Mode(o) # {})
    BY <1>m, <1>15, <2>o, <2>2, StrongRefsType DEF kept
  <2>3. CASE o \notin weaklist /\ o \in Table /\ Mode(o) # {}
    <3>1. o \in Done /\ o \notin weak \cup grayagain
      BY <2>3 DEF weaklist
    <3>2. isblack(o)
      <4>1. color[o] # "none" /\ ~iswhite(o) /\ ~isgray(o)
        BY <1>m, <2>o, <2>3, <3>1 DEF LiveInv, Colored, Queued, Done
      <4> QED
        BY <2>o, <4>1 DEF TypeOK, isblack, isgray, iswhite
    <3>3. o \notin tmudata
      BY <2>3, DisjointTable DEF TypeOK
    <3>4. \A x \in Refs(o) : ~iswhite(x)
      BY <1>1, <2>o, <3>2, <3>3 DEF LiveInv, TriColor
    <3> QED
      BY <1>m, <1>15, <2>o, <2>3, <3>4 DEF Done, kept
  <2> QED
    BY <2>1, <2>2, <2>3
<1>18. black \subseteq AllMarked /\ AllMarked \subseteq kept /\ (kept \ Str) \subseteq AllMarked
  BY DEF black, kept
<1>19. \A o \in Obj : /\ o \in black => color'[o] = "black"
                      /\ o \in kept \ black => color'[o] = "gray"
                      /\ o \notin kept => color'[o] = color[o]
  <2>3. black \cap Str = {}
    BY DEF black
  <2>1. \A o \in kept : o \in AllMarked \/ o \in Str \cap (keys \cup values)
    BY DEF kept
  <2>2. \A o : o \notin kept => o \notin AllMarked /\ o \notin Str \cap (keys \cup values)
    BY DEF kept
  <2> QED
    BY <1>4, <1>18, <2>1, <2>2, <2>3
<1>20. otherwhite' = currentwhite
  BY <1>1, Whites DEF otherwhite, TypeOK
<1>21. \A o \in alloc : ~isdead(o)' <=> o \in kept
  <2>1. \A o \in alloc : o \notin kept => color[o] = currentwhite
    <3>1. \A o \in alloc : o \notin kept => iswhite(o)
      BY <1>m, <1>18 DEF Done
    <3> QED
      BY <1>m, <3>1, Whites DEF iswhite, isdead
  <2> QED
    BY <1>5, <1>18, <1>19, <1>20, <2>1, Whites DEF isdead
<1>22. \A x \in kept : Live(x)'
  <2> QED
    BY <1>1, <1>13, <1>21 DEF Live
<1>23. ASSUME NEW o \in alloc, ~isdead(o)', NEW x \in Refs(o)' PROVE x \in kept
  <2>1. o \in kept /\ o \in Obj
    BY <1>5, <1>21, <1>23
  <2>2. CASE o \in AllMarked
    BY <1>17, <1>23, <2>2
  <2>3. CASE o \in Str
    BY <1>23, <2>1, <2>3, RefsByTypeNext DEF RefsTyped
  <2> QED
    BY <1>18, <2>1, <2>2, <2>3
<1>25. NoDangling'
  <2>1. Roots' = Roots
    BY <1>1 DEF Roots
  <2> QED
    BY <1>1, <1>18, <1>22, <1>23, <1>m, <2>1 DEF NoDangling
<1>26. OpenUpvals' = OpenUpvals /\ (\A u : IsOpen(u)' <=> IsOpen(u)) /\ uvthread' = uvthread
       /\ uvslot' = uvslot
  BY <1>1 DEF OpenUpvals, IsOpen, upvalVars
<1>27. Colored'
  BY <1>1, <1>5, <1>13, <1>18, <1>19 DEF LiveInv, Colored
<1>28. Blank'
  BY <1>1, <1>12, <1>15 DEF LiveInv, Blank
<1>29. UpvalueShared'
  BY <1>1, <1>26 DEF LiveInv, UpvalueShared
<1>30. Shades'
  <2> SUFFICES ASSUME NEW o \in Obj
               PROVE  /\ color'[o] = "black" => o \notin Thread \cup OpenUpvals
                      /\ color'[o] = "gray" => o \notin Udata /\ (o \in UpVal => IsOpen(o))
    BY <1>26 DEF Shades, isblack, isgray
  <2>1. CASE o \in black
    BY <1>19, <2>1 DEF black
  <2>2. CASE o \in kept \ black
    <3>1. o \in Str \cup Thread \cup OpenUpvals \cup weaklist
      BY <2>2 DEF kept, black
    <3>2. Udata \cap (Str \cup Thread \cup OpenUpvals \cup weaklist) = {}
      BY <1>12, UdataApart DEF OpenUpvals
    <3>3. UpVal \cap (Str \cup Thread \cup weaklist) = {}
      BY <1>12, DisjointTable, DisjointThread, DisjointUpVal
    <3> QED
      BY <1>19, <2>2, <3>1, <3>2, <3>3 DEF OpenUpvals
  <2>3. CASE o \notin kept
    BY <1>19, <2>3 DEF LiveInv, Shades, isblack, isgray
  <2> QED
    BY <2>1, <2>2, <2>3
<1>31. Ahead'
  <2>1. OpenUpvals \cap Str = {}
    BY DisjointUpVal DEF OpenUpvals
  <2>2. \A u \in OpenUpvals : uvthread[u] \in sweepgc'
    <3>1. \A u \in OpenUpvals : uvthread[u] \in alloc \cap Thread
      BY DEF LiveInv, UpvalueShared, OpenUpvals, IsOpen, TypeOK
    <3>2. Thread \cap (Str \cup OpenUpvals \cup Waiting) = {}
      BY <1>5, DisjointThread, DisjointUdata DEF OpenUpvals
    <3> QED
      BY <1>2, <3>1, <3>2
  <2> QED
    BY <1>1, <1>2, <1>26, <2>1, <2>2 DEF Ahead
<1>32. NoneDead' /\ CycleClean' /\ TriColor' /\ GrayListed' /\ RootsMarked'
  BY <1>1 DEF NoneDead, CycleClean, TriColor, GrayListed, RootsMarked
<1>33. OnlyFrees
  <2>1. Roots' = Roots
    BY <1>1 DEF Roots
  <2>2. \A o \in alloc' : o \in Obj /\ o \in alloc
    BY <1>1, <1>5
  <2> QED
    BY <1>1, <1>15, <1>16, <2>1, <2>2 DEF OnlyFrees
<1> QED
  BY <1>25, <1>27, <1>28, <1>29, <1>30, <1>31, <1>32, <1>33 DEF LiveInv

LEMMA CollectorLive ==
  ASSUME TypeOK, LiveInv, FinalInv, Collector PROVE LiveInv'
PROOF
<1> USE DEF mutatorState, finVars
<1>1. ASSUME markroot PROVE LiveInv'
  BY <1>1, MarkRootLive DEF markroot
<1>2. ASSUME FullMark PROVE LiveInv'
  BY <1>2, MarkRootLive DEF FullMark
<1> QED
  BY <1>1, <1>2, PropagateLive, AtomicLive, SweepStringLive, SweepListLive, GCTMLive, FullLive
     DEF Collector, singlestep

----------------------------------------------------------------------------
LEMMA LiveInit == Init => LiveInv
PROOF
<1> SUFFICES ASSUME Init PROVE LiveInv
  OBVIOUS
<1> USE InitType
<1>1. /\ alloc = {MainThread, Registry} /\ currentwhite = White0
      /\ gcstate = "pause" /\ tmudata = {} /\ sweepstr = {} /\ sweepgc = {}
      /\ running = MainThread /\ basemt = Nil
  BY DEF Init
<1>2. MainThread \in Obj /\ Registry \in Obj
  BY PoolType
<1>3. \A o \in Obj : color[o] = IF o \in {MainThread, Registry} THEN White0 ELSE "none"
  BY DEF Init
<1>4. \A u \in UpVal : uvthread[u] = Nil /\ uvvalue[u] = Nil
  BY DEF Init
<1>5. OpenUpvals = {}
  BY <1>4 DEF OpenUpvals, IsOpen
<1>6. \A o \in Obj : Refs(o) \subseteq {Registry} /\ (o # MainThread => Refs(o) = {})
  <2> SUFFICES ASSUME NEW o \in Obj
               PROVE  Refs(o) \subseteq {Registry} /\ (o # MainThread => Refs(o) = {})
    OBVIOUS
  <2>1. CASE o \in Table
    <3>1. metatable[o] = Nil /\ \A k \in Key : node[o][k] = Nil
      BY <2>1 DEF Init
    <3>2. Entries(o) = {}
      BY <3>1 DEF Entries
    <3> QED
      BY <2>1, <3>1, <3>2, RefsByType DEF RefsTyped
  <2>2. CASE o \in LClosure
    <3>1. env[o] = Nil /\ upvals[o] = {}
      BY <2>2, DisjointLClosure DEF Init
    <3> QED
      BY <2>2, <3>1, RefsByType DEF RefsTyped
  <2>3. CASE o \in CClosure
    <3>1. env[o] = Nil /\ cupval[o] = Nil
      BY <2>3, DisjointCClosure DEF Init
    <3> QED
      BY <2>3, <3>1, RefsByType DEF RefsTyped
  <2>4. CASE o \in Udata
    <3>1. env[o] = Nil /\ metatable[o] = Nil
      BY <2>4, DisjointUdata DEF Init
    <3> QED
      BY <2>4, <3>1, RefsByType DEF RefsTyped
  <2>5. CASE o \in Thread
    <3>1. env[o] = (IF o = MainThread THEN Registry ELSE Nil) /\ stack[o] = [i \in Slot |-> Nil]
      BY <2>5 DEF Init
    <3>2. Refs(o) = Obj \cap ({env[o]} \cup {stack[o][i] : i \in Slot})
      BY <2>5, RefsByType DEF RefsTyped
    <3> QED
      BY <3>1, <3>2
  <2>6. CASE o \in UpVal
    <3>1. UpvalValue(o) = Nil
      BY <1>4, <2>6 DEF UpvalValue, IsOpen
    <3> QED
      BY <2>6, <3>1, RefsByType DEF RefsTyped
  <2>7. CASE o \in Str
    BY <2>7, RefsByType DEF RefsTyped
  <2> QED
    BY <2>1, <2>2, <2>3, <2>4, <2>5, <2>6, <2>7 DEF Obj
<1>7. Colored
  BY <1>1, <1>2, <1>3, Whites DEF Colored
<1>8. Blank
  BY <1>1, <1>6 DEF Blank
<1>9. UpvalueShared
  BY <1>5 DEF UpvalueShared
<1>10. Shades
  BY <1>3, Whites DEF Shades, isblack, isgray
<1>11. Ahead /\ RootsMarked /\ TriColor /\ GrayListed
  BY <1>1 DEF Ahead, RootsMarked, TriColor, GrayListed
<1>12. \A o \in alloc : color[o] = currentwhite /\ ~isdead(o)
  BY <1>1, <1>2, <1>3, Whites DEF isdead
<1>13. NoneDead /\ CycleClean
  BY <1>1, <1>12 DEF NoneDead, CycleClean
<1>14. NoDangling
  <2>1. Roots \subseteq alloc
    BY <1>1 DEF Roots
  <2>2. \A o \in alloc : Live(o)
    BY <1>12 DEF Live
  <2>3. \A o \in alloc : \A x \in Refs(o) : x \in alloc
    BY <1>1, <1>2, <1>6
  <2> QED
    BY <2>1, <2>2, <2>3 DEF NoDangling
<1> QED
  BY <1>7, <1>8, <1>9, <1>10, <1>11, <1>13, <1>14 DEF LiveInv

LEMMA StutterLive == ASSUME TypeOK, LiveInv, UNCHANGED vars PROVE LiveInv'
PROOF
<1>1. /\ UNCHANGED <<alloc, objVars, upvalVars, stack, running, basemt, currentwhite>>
      /\ UNCHANGED <<color, gcstate, tmudata, sweepstr, sweepgc, gray, grayagain, weak>>
  BY DEF vars, finVars, sweepVars, listVars
<1>2. /\ \A x \in Obj : Refs(x)' = Refs(x) /\ (isdead(x)' <=> isdead(x))
      /\ OpenUpvals' = OpenUpvals /\ (\A u : IsOpen(u)' <=> IsOpen(u)) /\ uvthread' = uvthread
      /\ Colored' /\ Blank' /\ UpvalueShared' /\ NoDangling'
  BY <1>1, QuietStep
<1>3. Shades' /\ RootsMarked' /\ CycleClean' /\ GrayListed'
  BY <1>1, <1>2 DEF LiveInv, Shades, RootsMarked, CycleClean, GrayListed, isblack, isgray, iswhite
<1>4. Ahead'
  BY <1>1, <1>2 DEF LiveInv, Ahead
<1>5. NoneDead' /\ TriColor'
  BY <1>1, <1>2 DEF LiveInv, NoneDead, TriColor, TypeOK, isblack, iswhite
<1> QED
  BY <1>2, <1>3, <1>4, <1>5 DEF LiveInv

LEMMA LiveNext == ASSUME TypeOK, TypeOK', LiveInv, FinalInv, [Next]_vars PROVE LiveInv'
  BY MutatorLive, CollectorLive, StutterLive DEF Next

(* The inductive invariant holds in every reachable state: what each phase of *)
(* the collector promises to the next (singlestep, lgc.c:556).               *)
THEOREM LiveCorrect == Spec => []LiveInv
PROOF
<1>1. TypeOK /\ TypeOK' /\ LiveInv /\ FinalInv /\ [Next]_vars => LiveInv'
  BY LiveNext
<1>2. TypeOK /\ FinalInv /\ [Next]_vars => FinalInv'
  BY FinalNext
<1> QED
  BY <1>1, <1>2, LiveInit, FinalInit, TypeCorrect, PTL DEF Spec

(* The roots and everything reachable from a live object are allocated and   *)
(* not about to be freed (luaC_barrier, luaC_barrierback, luaC_linkupval,    *)
(* luaF_findupval, atomic, sweeplist): no incremental step frees what the    *)
(* program can still read.                                                   *)
THEOREM NothingDangles == Spec => []NoDangling
PROOF
<1>1. LiveInv => NoDangling
  BY DEF LiveInv
<1> QED
  BY <1>1, LiveCorrect, PTL

(* Between two steps of the mark phase no black object refers to a white one. *)
THEOREM BlackToNonwhite == Spec => []TriColor
PROOF
<1>1. LiveInv => TriColor
  BY DEF LiveInv
<1> QED
  BY <1>1, LiveCorrect, PTL

(* The lists of the collector hold each gray object exactly once. *)
THEOREM GraysAreListed == Spec => []GrayListed
PROOF
<1>1. LiveInv => GrayListed
  BY DEF LiveInv
<1> QED
  BY <1>1, LiveCorrect, PTL

(* No register is the target of two open upvalues, dead ones included. *)
THEOREM UpvaluesShared == Spec => []UpvalueShared
PROOF
<1>1. LiveInv => UpvalueShared
  BY DEF LiveInv
<1> QED
  BY <1>1, LiveCorrect, PTL

(* After a sweep everything has the current white. *)
THEOREM CyclesClean == Spec => []CycleClean
PROOF
<1>1. LiveInv => CycleClean
  BY DEF LiveInv
<1> QED
  BY <1>1, LiveCorrect, PTL

----------------------------------------------------------------------------
(* Dead userdata have been found dead: the atomic step has seen every one.   *)
DeadFound == \A u \in Udata \cap alloc : isdead(u) => u \in finalized

(* The other steps do not make a userdata dead, and forget FINALIZEDBIT only *)
(* with the userdata.                                                        *)
NoneDies ==
  /\ currentwhite' = currentwhite /\ finalized \cap alloc' \subseteq finalized'
  /\ \A u \in Udata \cap alloc' :
       color'[u] = currentwhite \/ (u \in alloc /\ color'[u] \in {color[u], "black"})

LEMMA NoneDiesKept == ASSUME TypeOK, DeadFound, NoneDies PROVE DeadFound'
PROOF
<1>1. otherwhite' = otherwhite
  BY DEF NoneDies, otherwhite
<1>2. ASSUME NEW u \in Udata \cap alloc', isdead(u)' PROVE u \in finalized'
  <2>1. color'[u] = otherwhite
    BY <1>1, <1>2 DEF isdead
  <2>2. u \in alloc /\ color[u] = otherwhite
    BY <2>1, Whites DEF NoneDies
  <2> QED
    BY <2>2 DEF DeadFound, NoneDies, isdead
<1> QED
  BY <1>2 DEF DeadFound

(* What is freed by a step was dead before it. *)
FreesDead == \A o \in alloc \ alloc' : isdead(o)

----------------------------------------------------------------------------
(* The mutator. *)

LEMMA AllocateDead == ASSUME TypeOK, Allocate PROVE NoneDies /\ FreesDead
PROOF
<1> USE DEF collectorState, finVars
<1>1. finalized' = finalized /\ currentwhite' = currentwhite
  BY DEF Allocate, luaH_new, luaS_newudata, luaE_newthread, luaS_newlstr, lua_pushcclosure,
         OP_CLOSURE, OP_CLOSURE_GETUPVAL
<1> DEFINE Kept(u) == color'[u] = currentwhite \/ (u \in alloc /\ color'[u] = color[u])
           Fine == alloc \subseteq alloc' /\ \A u \in Udata \cap alloc' : Kept(u)
<1>2. ASSUME NEW o \in Obj, Link(o) PROVE Fine
  BY <1>2, UdataApart DEF TypeOK, Link
<1>3. ASSUME NEW s \in Str, NEW j \in Slot, luaS_newlstr(s, j) PROVE Fine
  <2>1. alloc' = alloc \cup {s} /\ \A u \in Obj : u # s => color'[u] = color[u]
    BY <1>3 DEF TypeOK, luaS_newlstr
  <2> QED
    BY <2>1, UdataApart
<1>4. ASSUME NEW f \in LClosure, NEW i \in Slot, NEW j \in Slot, OP_CLOSURE(f, i, j)
      PROVE  Fine
  <2>1. f \in Obj \ Udata
    BY UdataApart DEF Queued, Obj
  <2>2. ASSUME NEW v \in luaF_findupval(i), ShareUpval(f, v) PROVE Fine
    <3>1. v \in UpVal
      BY DEF luaF_findupval, OpenUpvals
    <3>2. alloc' = alloc \cup {f} /\ \A u \in Obj : u \notin {f, v} => color'[u] = color[u]
      BY <2>2 DEF TypeOK, ShareUpval
    <3> QED
      BY <2>1, <3>1, <3>2, UdataApart
  <2>3. ASSUME NEW v \in UpVal \ alloc, OpenUpval(f, v, i) PROVE Fine
    <3>1. alloc' = alloc \cup {f, v} /\ \A u \in Obj : u \notin {f, v} => color'[u] = color[u]
      BY <2>3 DEF TypeOK, OpenUpval
    <3> QED
      BY <2>1, <3>1, UdataApart
  <2> QED
    BY <1>4, <2>2, <2>3 DEF OP_CLOSURE
<1>5. Fine
  BY <1>2, <1>3, <1>4
     DEF Allocate, luaH_new, luaS_newudata, luaE_newthread, lua_pushcclosure,
         OP_CLOSURE_GETUPVAL, Obj
<1> QED
  BY <1>1, <1>5 DEF NoneDies, FreesDead

LEMMA StoreDead == ASSUME TypeOK, Store PROVE NoneDies /\ FreesDead
PROOF
<1>1. alloc' = alloc /\ finalized' = finalized /\ currentwhite' = currentwhite
  BY DEF Store, luaH_set, lua_setmetatable, SetBaseMetatable, lua_setfenv, SetCUpvalue,
         OP_SETUPVAL, collectorState, finVars
<1>2. \/ color' = color
      \/ \E t \in Table : \E vs : luaC_barriert(t, vs)
      \/ \E o, v : luaC_barrier(o, v)
  BY DEF Store, luaH_set, lua_setmetatable, SetBaseMetatable, lua_setfenv, SetCUpvalue,
         OP_SETUPVAL
<1>3. \A u \in Udata \cap alloc : color'[u] \in {color[u], "black", currentwhite}
  BY <1>2, BarrierFinal, BackBarrierFinal
<1> QED
  BY <1>1, <1>3 DEF NoneDies, FreesDead

LEMMA CloseDead ==
  ASSUME TypeOK, NEW level \in Slot, luaF_close(level) PROVE NoneDies /\ FreesDead
PROOF
<1> DEFINE closing == {u \in OpenUpvals : uvthread[u] = running /\ uvslot[u] >= level}
           dead == {u \in closing : isdead(u)}
           regray == {u \in closing : isgray(u)}
           values == Obj \cap {UpvalValue(u) : u \in regray}
<1>1. dead \subseteq UpVal /\ regray \subseteq UpVal /\ \A u \in dead : isdead(u)
  BY DEF OpenUpvals
<1>2. alloc' = alloc \ dead /\ finalized' = finalized /\ currentwhite' = currentwhite
  BY DEF luaF_close, collectorState, finVars
<1>3. \A u \in Udata : color'[u] \in {color[u], "black"}
  <2>1. CASE gcstate = "propagate"
    <3>1. color' = [o \in Obj |-> IF o \in regray THEN "black" ELSE Marked(values, color)[o]]
      BY <2>1 DEF luaF_close
    <3> HIDE DEF values, regray
    <3> QED
      BY <3>1, MarkedUdata, UdataApart
  <2>2. CASE gcstate # "propagate"
    <3>1. color' = Reset([o \in Obj |-> IF o \in regray THEN currentwhite ELSE color[o]],
                         dead, "none")
      BY <2>2 DEF luaF_close
    <3> HIDE DEF dead, regray
    <3> QED
      BY <1>1, <3>1, UdataApart DEF Reset
  <2> QED
    BY <2>1, <2>2
<1> HIDE DEF dead
<1> QED
  BY <1>1, <1>2, <1>3 DEF NoneDies, FreesDead

LEMMA MutatorDead == ASSUME TypeOK, Mutator PROVE NoneDies /\ FreesDead
PROOF
<1>1. ASSUME UNCHANGED <<alloc, color, currentwhite, finalized>> PROVE NoneDies /\ FreesDead
  BY <1>1 DEF NoneDies, FreesDead
<1>2. ASSUME Switch PROVE NoneDies /\ FreesDead
  BY <1>1, <1>2 DEF Switch, lua_yield, lua_resume, collectorState, finVars
<1>3. ASSUME NEW v \in Value, NEW j \in Slot, Load(v, j) PROVE NoneDies /\ FreesDead
  BY <1>1, <1>3 DEF Load, collectorState, finVars
<1> QED
  BY <1>2, <1>3, AllocateDead, StoreDead, CloseDead DEF Mutator

----------------------------------------------------------------------------
(* The collector. *)

LEMMA MarkRootDead ==
  ASSUME TypeOK, MarkRoot, UNCHANGED <<alloc, currentwhite, finalized>>
  PROVE  NoneDies /\ FreesDead
PROOF
<1>1. \E S : color' = Marked(S, color)
  BY DEF MarkRoot
<1> QED
  BY <1>1, MarkedUdata DEF NoneDies, FreesDead

LEMMA PropagateDead ==
  ASSUME TypeOK, NEW o \in Queued, propagatemark(o) PROVE NoneDies /\ FreesDead
PROOF
<1>1. alloc' = alloc /\ finalized' = finalized /\ currentwhite' = currentwhite
  BY DEF propagatemark, finVars, mutatorState
<1>2. \E S, c : color' = [Marked(S, color) EXCEPT ![o] = c]
  BY DEF propagatemark
<1>3. \A u \in Udata : color'[u] \in {color[u], "black"}
  BY <1>2, MarkedUdata, MarkedType, UdataApart DEF TypeOK
<1> QED
  BY <1>1, <1>3 DEF NoneDies, FreesDead

LEMMA SweepDead ==
  ASSUME TypeOK
  PROVE  /\ \A bucket \in SUBSET sweepstr : SweepString(bucket) => NoneDies /\ FreesDead
         /\ \A chunk \in SUBSET sweepgc : sweeplist(chunk) => NoneDies /\ FreesDead
PROOF
<1> USE DEF finVars, mutatorState
<1>1. ASSUME NEW S, NEW freed, \A o \in freed : isdead(o), color' = Swept(S, freed),
             alloc' = alloc \ freed, finalized \ freed \subseteq finalized',
             currentwhite' = currentwhite
      PROVE  NoneDies /\ FreesDead
  <2>1. \A u \in Udata \ freed : color'[u] \in {color[u], currentwhite}
    BY <1>1, UdataApart DEF Swept, Reset
  <2> QED
    BY <1>1, <2>1 DEF NoneDies, FreesDead
<1>2. ASSUME NEW bucket \in SUBSET sweepstr, SweepString(bucket) PROVE NoneDies /\ FreesDead
  <2> DEFINE freed == {s \in bucket : isdead(s)}
  <2>1. /\ \A o \in freed : isdead(o)
        /\ color' = Swept(bucket, freed) /\ alloc' = alloc \ freed
        /\ finalized' = finalized /\ currentwhite' = currentwhite
    BY <1>2 DEF SweepString
  <2> HIDE DEF freed
  <2> QED
    BY <1>1, <2>1
<1>3. ASSUME NEW chunk \in SUBSET sweepgc, sweeplist(chunk) PROVE NoneDies /\ FreesDead
  <2>1. PICK S, freed :
          /\ \A o \in freed : isdead(o)
          /\ alloc' = alloc \ freed /\ color' = Swept(S, freed)
          /\ finalized' = finalized \ freed
    BY <1>3 DEF sweeplist
  <2>2. currentwhite' = currentwhite
    BY <1>3 DEF sweeplist
  <2> QED
    BY <1>1, <2>1, <2>2
<1> QED
  BY <1>2, <1>3

LEMMA GCTMDead ==
  ASSUME TypeOK, NEW u \in Udata, NEW j \in Slot, GCTM(u, j) PROVE NoneDies /\ FreesDead
PROOF
<1>1. /\ alloc' = alloc /\ finalized' = finalized /\ currentwhite' = currentwhite
      /\ color' = [color EXCEPT ![u] = currentwhite]
  BY DEF GCTM, mutatorState
<1> QED
  BY <1>1, UdataApart DEF TypeOK, NoneDies, FreesDead

LEMMA CollectorDead == ASSUME TypeOK, Collector, ~atomic PROVE NoneDies /\ FreesDead
PROOF
<1> USE DEF finVars, mutatorState
<1>1. ASSUME EndCycle \/ luaC_fullgc PROVE NoneDies /\ FreesDead
  BY <1>1 DEF EndCycle, luaC_fullgc, NoneDies, FreesDead
<1>2. ASSUME markroot \/ FullMark PROVE NoneDies /\ FreesDead
  BY <1>2, MarkRootDead DEF markroot, FullMark
<1> QED
  BY <1>1, <1>2, PropagateDead, SweepDead, GCTMDead DEF Collector, singlestep
(* The atomic step finds all of them: what it leaves white it separates.     *)
LEMMA AtomicDead == ASSUME TypeOK, LiveInv, FinalInv, atomic PROVE DeadFound' /\ FreesDead
PROOF
<1> DEFINE weaklist == {t \in Table \cap (weak \cup grayagain \cup (AllMarked \ Done)) : Mode(t) # {}}
           keys == UNION {Entries(t) : t \in weaklist}
           values == UNION {{node[t][k] : k \in {e \in Entries(t) :
                                ~iscleared(e, TRUE, AllMarked, finalized')}} : t \in weaklist}
           black == AllMarked \ (Str \cup Thread \cup OpenUpvals \cup weaklist)
           strings == Str \cap (keys \cup values)
<1>1. /\ gcstate = "propagate" /\ gray = {} /\ alloc' = alloc /\ currentwhite' = otherwhite
      /\ finalized' = finalized \cup Separated
  BY DEF atomic, Done, Remarked, First, Separated
<1>2. color' = [o \in Obj |-> CASE o \in black -> "black"
                               [] o \in AllMarked \ black -> "gray"
                               [] o \in strings -> "gray"
                               [] OTHER -> color[o]]
  BY DEF atomic, Done, Remarked, First, Separated, Waiting, AllMarked
<1>3. black \subseteq AllMarked /\ strings \subseteq Str
  OBVIOUS
<1> HIDE DEF black, strings
<1>4. ASSUME NEW u \in Udata \cap alloc', isdead(u)' PROVE u \in finalized'
  <2>1. otherwhite' = currentwhite
    BY <1>1, Whites DEF otherwhite, TypeOK
  <2>2. color'[u] = currentwhite /\ u \in Obj /\ u \notin Str
    BY <1>4, <2>1, UdataApart DEF isdead
  <2>3. u \notin AllMarked
    <3>1. u \in AllMarked => color'[u] \in {"black", "gray"}
      BY <1>2, <1>3, <2>2
    <3> QED
      BY <2>2, <3>1, Whites
  <2>4. u \notin First /\ u \notin Waiting
    BY <1>1, <2>3, AtomicMarks
  <2>5. u \in tmudata \cup finalized \cup Separated
    BY <1>1, <1>4, <2>4 DEF Separated, luaC_separateudata
  <2>6. u \notin tmudata
    BY <2>4 DEF Waiting
  <2> QED
    BY <1>1, <2>5, <2>6
<1> QED
  BY <1>1, <1>4 DEF DeadFound, FreesDead

LEMMA StepDead ==
  ASSUME TypeOK, LiveInv, FinalInv, DeadFound, [Next]_vars PROVE DeadFound' /\ FreesDead
PROOF
<1>1. CASE UNCHANGED vars
  BY <1>1 DEF vars, finVars, DeadFound, FreesDead, isdead, otherwhite
<1> QED
  BY <1>1, NoneDiesKept, MutatorDead, CollectorDead, AtomicDead DEF Next, Collector, singlestep

LEMMA DeadInit == Init => DeadFound
PROOF
<1> SUFFICES ASSUME Init, NEW u \in Udata \cap alloc PROVE FALSE
  BY DEF DeadFound
<1>1. u \in {MainThread, Registry}
  BY DEF Init
<1> QED
  BY <1>1, UdataApart

----------------------------------------------------------------------------
(* Freeing. *)

(* A set with the roots that strong references do not leave holds what is     *)
(* strongly reachable.                                                        *)
LEMMA StronglyReachableIn ==
  ASSUME NEW S \in SUBSET alloc, Roots \cap alloc \subseteq S,
         \A o \in S : StrongRefs(o) \cap alloc \subseteq S
  PROVE  StronglyReachable \subseteq S
PROOF
<1> DEFINE closed == {C \in {(Roots \cap alloc) \cup X : X \in SUBSET (alloc \ Roots)} :
                        \A o \in C : StrongRefs(o) \cap alloc \subseteq C}
<1>1. StronglyReachable = {o \in alloc : \A C \in closed : o \in C}
  BY DEF StronglyReachable, Closure
<1>2. S \in closed
  <2>1. S \ Roots \in SUBSET (alloc \ Roots) /\ S = (Roots \cap alloc) \cup (S \ Roots)
    OBVIOUS
  <2> QED
    BY <2>1
<1> HIDE DEF closed
<1> QED
  BY <1>1, <1>2

LEMMA FreeStepCorrect ==
  ASSUME TypeOK, LiveInv, FinalInv, DeadFound, [Next]_vars PROVE FreeStep
PROOF
<1>1. FreesDead
  BY StepDead
<1>2. \A o \in Reachable : ~isdead(o)
  BY ReachableClosed DEF Live
<1>3. \A u \in (alloc \ alloc') \cap Udata : u \in finalized
  BY <1>1 DEF DeadFound, FreesDead
<1> QED
  BY <1>1, <1>2, <1>3 DEF FreeStep, FreesDead

(* No step frees an object the program can reach, nor a userdata whose        *)
(* finalizer has not been due (sweeplist, luaF_close, luaC_separateudata).   *)
THEOREM OnlyGarbageIsFreed == Spec => FreesGarbage
PROOF
<1>1. TypeOK /\ LiveInv /\ FinalInv /\ DeadFound /\ [Next]_vars => DeadFound'
  BY StepDead
<1>2. TypeOK /\ LiveInv /\ FinalInv /\ DeadFound /\ [Next]_vars => [FreeStep]_vars
  BY FreeStepCorrect
<1>3. TypeOK /\ FinalInv /\ [Next]_vars => FinalInv'
  BY FinalNext
<1> QED
  BY <1>1, <1>2, <1>3, DeadInit, FinalInit, TypeCorrect, LiveCorrect, PTL DEF Spec, FreesGarbage

----------------------------------------------------------------------------
(* Clearing. *)

(* Only atomic clears entries on entering the sweep. *)
LEMMA EntersSweep ==
  ASSUME Next, gcstate = "propagate", gcstate' = "sweepstring" PROVE atomic \/ node' = node
PROOF
<1>1. ASSUME Mutator PROVE gcstate' = gcstate
  BY <1>1 DEF Mutator, Allocate, Store, Switch, luaH_new, luaS_newudata, luaE_newthread,
              luaS_newlstr, lua_pushcclosure, OP_CLOSURE, OP_CLOSURE_GETUPVAL, luaH_set,
              lua_setmetatable, SetBaseMetatable, lua_setfenv, SetCUpvalue, OP_SETUPVAL,
              lua_yield, lua_resume, Load, luaF_close, collectorState
<1>2. ASSUME Collector PROVE atomic \/ luaC_fullgc
  BY <1>2 DEF Collector, singlestep, markroot, propagatemark, SweepString, sweeplist, GCTM,
              EndCycle, FullMark
<1>3. ASSUME luaC_fullgc PROVE node' = node
  BY <1>3 DEF luaC_fullgc, objVars
<1> QED
  BY <1>1, <1>2, <1>3 DEF Next

LEMMA ClearStepCorrect ==
  ASSUME TypeOK, LiveInv, FinalInv, [Next]_vars PROVE ClearStep
PROOF
<1> SUFFICES ASSUME gcstate = "propagate", gcstate' = "sweepstring",
                    NEW t \in Table, NEW k \in Key, node[t][k] # Nil, node'[t][k] = Nil
             PROVE  /\ Mode(t) # {}
                    /\ \/ (Obj \cap {k, node[t][k]}) \ (StronglyReachable \cup Str) # {}
                       \/ node[t][k] \in finalized'
  BY DEF ClearStep, Entries
<1> DEFINE weaklist == {x \in Table \cap (weak \cup grayagain \cup (AllMarked \ Done)) : Mode(x) # {}}
<1>1. atomic
  BY EntersSweep DEF vars, objVars
<1>2. gray = {}
  BY <1>1 DEF atomic
<1>3. node' = cleartable(weaklist, AllMarked, finalized')
  BY <1>1 DEF atomic, Done, Remarked, First, Separated, Waiting, AllMarked
<1>4. /\ Mode(t) # {}
      /\ \/ iscleared(k, TRUE, AllMarked, finalized')
         \/ iscleared(node[t][k], FALSE, AllMarked, finalized')
  <2>1. t \in weaklist => Mode(t) # {}
    OBVIOUS
  <2> HIDE DEF weaklist
  <2>2. node'[t][k] = IF t \in weaklist /\ (\/ iscleared(k, TRUE, AllMarked, finalized')
                                             \/ iscleared(node[t][k], FALSE, AllMarked, finalized'))
                      THEN Nil ELSE node[t][k]
    BY <1>3 DEF cleartable
  <2> QED
    BY <2>1, <2>2
<1>5. StronglyReachable \subseteq AllMarked
  <2>1. /\ AllMarked \in SUBSET alloc /\ Roots \cap alloc \subseteq AllMarked
        /\ \A o \in AllMarked : StrongRefs(o) \cap alloc \subseteq AllMarked
    <3>1. First \subseteq AllMarked /\ Roots \subseteq First
      BY <1>2, AtomicMarks
    <3> QED
      BY <1>2, <3>1, AtomicMarks
  <2> QED
    BY <2>1, StronglyReachableIn
<1> QED
  BY <1>4, <1>5 DEF iscleared

(* What the collector removes from a table, the table held weakly and the     *)
(* program cannot get otherwise, or it is a userdata being finalized          *)
(* (cleartable, iscleared, atomic).                                          *)
THEOREM OnlyWeakIsCleared == Spec => WeakCleared
PROOF
<1>1. TypeOK /\ LiveInv /\ FinalInv /\ [Next]_vars => [ClearStep]_vars
  BY ClearStepCorrect
<1>2. TypeOK /\ FinalInv /\ [Next]_vars => FinalInv'
  BY FinalNext
<1> QED
  BY <1>1, <1>2, FinalInit, TypeCorrect, LiveCorrect, PTL DEF Spec, WeakCleared

----------------------------------------------------------------------------
(* Separating. *)

(* The same of the references that do not lead through waiting userdata.      *)
LEMMA PastPendingIn ==
  ASSUME NEW S \in SUBSET alloc, Roots \cap alloc \subseteq S,
         \A o \in S \ tmudata : StrongRefs(o) \cap alloc \subseteq S
  PROVE  Closure(Roots, RefsPastPending) \subseteq S
PROOF
<1> DEFINE closed == {C \in {(Roots \cap alloc) \cup X : X \in SUBSET (alloc \ Roots)} :
                        \A o \in C : RefsPastPending(o) \cap alloc \subseteq C}
<1>1. Closure(Roots, RefsPastPending) = {o \in alloc : \A C \in closed : o \in C}
  BY DEF Closure
<1>2. S \in closed
  <2>1. S \ Roots \in SUBSET (alloc \ Roots) /\ S = (Roots \cap alloc) \cup (S \ Roots)
    OBVIOUS
  <2>2. \A o \in S : RefsPastPending(o) \cap alloc \subseteq S
    BY DEF RefsPastPending
  <2> QED
    BY <2>1, <2>2
<1> HIDE DEF closed
<1> QED
  BY <1>1, <1>2

(* Only atomic puts userdata on tmudata. *)
LEMMA Separates == ASSUME Next PROVE atomic \/ tmudata' \subseteq tmudata
PROOF
<1>1. ASSUME Mutator PROVE tmudata' = tmudata
  BY <1>1 DEF Mutator, Allocate, Store, Switch, luaH_new, luaS_newudata, luaE_newthread,
              luaS_newlstr, lua_pushcclosure, OP_CLOSURE, OP_CLOSURE_GETUPVAL, luaH_set,
              lua_setmetatable, SetBaseMetatable, lua_setfenv, SetCUpvalue, OP_SETUPVAL,
              lua_yield, lua_resume, Load, luaF_close, collectorState, finVars
<1>2. ASSUME Collector PROVE atomic \/ tmudata' \subseteq tmudata
  BY <1>2 DEF Collector, singlestep, markroot, propagatemark, SweepString, sweeplist, GCTM,
              EndCycle, luaC_fullgc, FullMark, finVars
<1> QED
  BY <1>1, <1>2 DEF Next

LEMMA SeparateStepCorrect ==
  ASSUME TypeOK, LiveInv, FinalInv, [Next]_vars PROVE SeparateStep
PROOF
<1> SUFFICES ASSUME NEW u \in tmudata' \ tmudata
             PROVE  u \notin Closure(Roots, RefsPastPending)
  BY DEF SeparateStep
<1>1. atomic
  BY Separates DEF vars, finVars
<1>2. gcstate = "propagate" /\ gray = {}
  BY <1>1 DEF atomic
<1>3. tmudata' = Waiting
  BY <1>1 DEF atomic, Done, Remarked, First, Separated, Waiting
<1>4. u \notin First
  BY <1>3 DEF Waiting, Separated, luaC_separateudata
<1>5. /\ First \in SUBSET alloc /\ Roots \cap alloc \subseteq First
      /\ \A o \in First \ tmudata : StrongRefs(o) \cap alloc \subseteq First
  BY <1>2, AtomicMarks
<1> QED
  BY <1>4, <1>5, PastPendingIn

(* A userdata is queued for its finalizer only when the program cannot reach  *)
(* it, but through userdata that wait already (luaC_separateudata, atomic).   *)
THEOREM OnlyDeadIsSeparated == Spec => SeparatesOnlyDead
PROOF
<1>1. TypeOK /\ LiveInv /\ FinalInv /\ [Next]_vars => [SeparateStep]_vars
  BY SeparateStepCorrect
<1>2. TypeOK /\ FinalInv /\ [Next]_vars => FinalInv'
  BY FinalNext
<1> QED
  BY <1>1, <1>2, FinalInit, TypeCorrect, LiveCorrect, PTL DEF Spec, SeparatesOnlyDead

----------------------------------------------------------------------------
(* The heap.  What the two modules call reachable is the same.               *)

SameReach ==
  /\ Heap!Reach = Reachable
  /\ \A R : Heap!ReachFrom(R) = Closure(R, Refs)

LEMMA HeapReach == TypeOK => SameReach
PROOF
<1> DEFINE refs == [o \in Obj |-> Refs(o)]
<1> SUFFICES ASSUME TypeOK PROVE SameReach
  OBVIOUS
<1>1. ASSUME NEW R PROVE Heap!ReachFrom(R) = Closure(R, Refs)
  <2> DEFINE sets == {(R \cap alloc) \cup X : X \in SUBSET (alloc \ R)}
             closed == {S \in sets : \A o \in S : refs[o] \cap alloc \subseteq S}
             same == {S \in sets : \A o \in S : Refs(o) \cap alloc \subseteq S}
  <2>1. \A S \in sets : \A o \in S : refs[o] = Refs(o)
    BY DEF TypeOK
  <2>2. closed = same
    BY <2>1
  <2>3. Heap!ReachFrom(R) = {o \in alloc : \A S \in closed : o \in S}
    BY DEF Heap!ReachFrom
  <2>4. Closure(R, Refs) = {o \in alloc : \A S \in same : o \in S}
    BY DEF Closure
  <2> HIDE DEF closed, same
  <2> QED
    BY <2>2, <2>3, <2>4
<1> QED
  BY <1>1 DEF Heap!Reach, Reachable, SameReach

LEMMA HeapReachNext == TypeOK' => SameReach'
  BY HeapReach, PTL

(* The collector's steps that take objects and references away.              *)
LEMMA ShrinkStep ==
  ASSUME TypeOK, TypeOK', LiveInv, FreeStep, OnlyFrees PROVE Heap!Collect
PROOF
<1>1. Reachable \subseteq alloc'
  BY ReachableClosed DEF Live, FreeStep
<1>2. Roots' = Roots /\ Roots \subseteq Reachable
  BY ReachableClosed DEF OnlyFrees
<1>3. \A o \in Reachable : Refs(o)' \subseteq Reachable
  BY <1>1, ReachableClosed DEF OnlyFrees
<1>4. Reachable \in SUBSET alloc'
  BY <1>1
<1>5. Reachable' \subseteq Reachable
  BY <1>2, <1>3, <1>4, ReachableInNext
<1>6. Heap!Reach = Reachable /\ (Heap!Reach)' = Reachable'
  BY HeapReach, HeapReachNext DEF SameReach
<1> QED
  BY <1>1, <1>2, <1>5, <1>6 DEF Heap!Collect, OnlyFrees

(* The program's.                                                            *)
LEMMA MutateStep ==
  ASSUME TypeOK, TypeOK', LiveInv', Grows PROVE Heap!Mutate
PROOF
<1>1. Roots' \subseteq alloc'
  BY DEF LiveInv, NoDangling, Live
<1>2. PICK R \in SUBSET (alloc \cap (Str \cup UpVal)) :
        Reachable' \subseteq Reachable \cup (alloc' \ alloc) \cup Closure(R, Refs)
  BY DEF Grows
<1>3. Heap!Reach = Reachable /\ (Heap!Reach)' = Reachable'
      /\ Heap!ReachFrom(R) = Closure(R, Refs)
  BY HeapReach, HeapReachNext DEF SameReach
<1>4. alloc \subseteq alloc'
  BY DEF Grows
<1> QED
  BY <1>1, <1>2, <1>3, <1>4 DEF Heap!Mutate

(* The call of a finalizer.                                                  *)
LEMMA FinalizeStep ==
  ASSUME TypeOK, TypeOK', LiveInv, FinalInv, NEW u \in Udata, NEW j \in Slot, GCTM(u, j)
  PROVE  Heap!Finalize(u)
PROOF
<1> DEFINE C == Closure({u}, Refs)
           W == Reachable \cup C
<1>1. /\ u \in alloc /\ alloc' = alloc /\ Roots' = Roots
      /\ \A x \in alloc : Refs(x)' \subseteq Refs(x) \cup {u}
  BY GCTMLive
<1>2. /\ C \subseteq alloc /\ u \in C
      /\ \A o \in C : Refs(o) \cap alloc \subseteq C
  BY <1>1, ClosureClosed
<1>3. Roots \subseteq Reachable /\ \A o \in Reachable : o \in alloc /\ Refs(o) \subseteq Reachable
  BY ReachableClosed DEF Live
<1> HIDE DEF C
<1>4. W \in SUBSET alloc' /\ (Roots \cap alloc)' \subseteq W
  BY <1>1, <1>2, <1>3
<1>5. \A o \in W : (Refs(o) \cap alloc)' \subseteq W
  BY <1>1, <1>2, <1>3
<1> HIDE DEF W
<1>6. Reachable' \subseteq W
  BY <1>4, <1>5, ReachableInNext
<1>7. Heap!Reach = Reachable /\ (Heap!Reach)' = Reachable' /\ Heap!ReachFrom({u}) = C
  BY HeapReach, HeapReachNext DEF C, SameReach
<1> QED
  BY <1>1, <1>6, <1>7 DEF Heap!Finalize, W

LEMMA CollectorHeap ==
  ASSUME TypeOK, TypeOK', LiveInv, FinalInv, FreeStep, Collector PROVE Heap!Next
PROOF
<1>1. ASSUME alloc' \subseteq alloc,
             UNCHANGED <<objVars, upvalVars, stack, running, basemt>>
      PROVE  OnlyFrees
  <2>1. \A o \in Obj : Refs(o)' = Refs(o)
    BY <1>1, UnchangedFields, SameRefs
  <2>2. Roots' = Roots /\ alloc' \subseteq Obj
    BY <1>1 DEF Roots, TypeOK
  <2> QED
    BY <1>1, <2>1, <2>2 DEF OnlyFrees
<1>2. ASSUME NEW u \in Udata, NEW j \in Slot, GCTM(u, j) PROVE Heap!Next
  BY <1>2, FinalizeStep DEF Heap!Next
<1>3. ASSUME markroot \/ FullMark \/ luaC_fullgc \/ EndCycle PROVE OnlyFrees
  BY <1>1, <1>3 DEF markroot, FullMark, luaC_fullgc, EndCycle, mutatorState
<1>4. ASSUME NEW o \in Queued, propagatemark(o) PROVE OnlyFrees
  BY <1>1, <1>4 DEF propagatemark, mutatorState
<1>5. ASSUME NEW bucket \in SUBSET sweepstr, SweepString(bucket) PROVE OnlyFrees
  <2>1. alloc' \subseteq alloc
    BY <1>5 DEF SweepString
  <2> QED
    BY <1>1, <1>5, <2>1 DEF SweepString, mutatorState
<1>6. ASSUME OnlyFrees PROVE Heap!Next
  BY <1>6, ShrinkStep DEF Heap!Next
<1> QED
  BY <1>2, <1>3, <1>4, <1>5, <1>6, AtomicLive, SweepListLive DEF Collector, singlestep

LEMMA HeapNext ==
  ASSUME TypeOK, TypeOK', LiveInv, LiveInv', FinalInv, DeadFound, [Next]_vars
  PROVE  [Heap!Next]_(Heap!vars)
PROOF
<1>1. FreeStep
  BY FreeStepCorrect
<1>2. ASSUME UNCHANGED vars PROVE UNCHANGED Heap!vars
  <2>1. \A o \in Obj : Refs(o)' = Refs(o)
    BY <1>2, UnchangedFields, SameRefs DEF vars
  <2>2. Roots' = Roots /\ alloc' = alloc
    BY <1>2 DEF vars, Roots
  <2>3. [o \in Obj |-> Refs(o)]' = [o \in Obj |-> Refs(o)]
    BY <2>1
  <2> QED
    BY <2>2, <2>3 DEF Heap!vars
<1>3. ASSUME Mutator PROVE Heap!Next
  <2>1. Grows \/ OnlyFrees
    BY <1>3, MutatorLive
  <2> QED
    BY <1>1, <2>1, MutateStep, ShrinkStep DEF Heap!Next
<1>4. ASSUME Collector PROVE Heap!Next
  BY <1>1, <1>4, CollectorHeap
<1> QED
  BY <1>2, <1>3, <1>4 DEF Next

LEMMA HeapInit == Init => Heap!Init
PROOF
<1> SUFFICES ASSUME Init PROVE Heap!Init
  OBVIOUS
<1>1. TypeOK /\ LiveInv
  BY InitType, LiveInit
<1>2. alloc \subseteq Roots
  BY PoolType DEF Init, Roots
<1>3. Roots \subseteq Reachable /\ \A o \in Reachable : o \in alloc
  BY <1>1, ReachableClosed DEF Live
<1>4. Reachable = alloc /\ Roots \subseteq alloc
  BY <1>2, <1>3
<1>5. Heap!Reach = Reachable
  BY <1>1, HeapReach DEF SameReach
<1>6. [o \in Obj |-> Refs(o)] \in [Obj -> SUBSET Obj]
  BY RefsType
<1> QED
  BY <1>1, <1>4, <1>5, <1>6 DEF Heap!Init, TypeOK

(* The collector and the program over it implement the heap of GCHeap: only   *)
(* garbage is collected, and garbage comes back only through a finalizer, an  *)
(* interned string or a register with an open upvalue (lgc.c, lstring.c:75,   *)
(* lfunc.c:53).                                                              *)
THEOREM HeapImplemented == Spec => ImplementsHeap
PROOF
<1>1. /\ TypeOK /\ TypeOK' /\ LiveInv /\ LiveInv' /\ FinalInv /\ DeadFound /\ [Next]_vars
      => [Heap!Next]_(Heap!vars)
  BY HeapNext
<1>2. TypeOK /\ LiveInv /\ FinalInv /\ DeadFound /\ [Next]_vars => DeadFound'
  BY StepDead
<1>3. TypeOK /\ FinalInv /\ [Next]_vars => FinalInv'
  BY FinalNext
<1> QED
  BY <1>1, <1>2, <1>3, HeapInit, DeadInit, FinalInit, TypeCorrect, LiveCorrect, PTL
     DEF Spec, ImplementsHeap, Heap!Spec
============================================================================
