---------------------------- MODULE LuaDo_proofs ----------------------------
(***************************************************************************)
(* Proofs about LuaDo: every action keeps the inductive invariant that      *)
(* relates the C stack to the threads; the safety properties and the        *)
(* refinement of Coroutines follow from it.                                 *)
(***************************************************************************)
EXTENDS LuaDoStack_proofs

----------------------------------------------------------------------------
(* luaV_execute. *)

(* The count of the record on top. *)
LEMMA Counted ==
  ASSUME NEW cs \in Stack, Len(cs) > 0, cs[Len(cs)].f = "luaV_execute", NEW w \in Nat
  PROVE  [cs EXCEPT ![Len(cs)].nexeccalls = w]
           = Append(Cut(cs, Len(cs) - 1), Execute(cs[Len(cs)].th, w))
<1> DEFINE n == Len(cs)
           r == cs[n]
           es == [cs EXCEPT ![n].nexeccalls = w]
           q == Execute(r.th, w)
           ds == Append(Cut(cs, n - 1), q)
<1>1. n \in Nat /\ cs \in Seq(Record) /\ DOMAIN cs = 1 .. n /\ n \in 1 .. n
  BY StackParts DEF Stack
<1>2. r \in Record
  BY <1>1, StackParts
<1>3. r.nexeccalls \in Nat /\ r = Execute(r.th, r.nexeccalls) /\ r.th \in Thread
  BY <1>2, RecordParts
<1>4. [r EXCEPT !.nexeccalls = w] = q
  BY <1>3 DEF Execute
<1>5. q \in Record
  BY <1>3, RecordTypes
<1>6. es = [cs EXCEPT ![n] = q]
  BY <1>4, <1>1
<1> HIDE DEF q, r
<1>7. n - 1 \in 0 .. n /\ n - 1 + 1 = n /\ (\A i \in 1 .. n : i = n \/ i \in 1 .. n - 1)
  <2>1. n \in Nat /\ n > 0
    BY <1>1
  <2> HIDE DEF n, es, ds
  <2>2. n - 1 \in 0 .. n
    BY <2>1
  <2>3. n - 1 + 1 = n
    BY <2>1
  <2>4. \A i \in 1 .. n : i = n \/ i \in 1 .. n - 1
    BY <2>1
  <2> QED BY <2>2, <2>3, <2>4
<1>8. /\ Cut(cs, n - 1) \in Stack /\ Len(Cut(cs, n - 1)) = n - 1
      /\ \A i \in 1 .. n - 1 : Cut(cs, n - 1)[i] = cs[i]
  BY <1>7, CutParts
<1>9. /\ ds \in Stack /\ Len(ds) = n - 1 + 1 /\ ds[n - 1 + 1] = q
      /\ \A i \in 1 .. n - 1 : ds[i] = Cut(cs, n - 1)[i]
  BY <1>5, <1>8, PushParts
<1> HIDE DEF ds
<1>10. ds \in Seq(Record) /\ Len(ds) = n /\ ds[n] = q /\ \A i \in 1 .. n - 1 : ds[i] = cs[i]
  BY <1>7, <1>8, <1>9 DEF Stack
<1>11. /\ es \in Seq(Record) /\ Len(es) = n /\ es[n] = q /\ \A i \in 1 .. n - 1 : es[i] = cs[i]
  <2>1. es \in Seq(Record) /\ Len(es) = n /\ \A i \in 1 .. n : es[i] = IF i = n THEN q ELSE cs[i]
    BY <1>1, <1>5, <1>6, ExceptSeq
  <2> HIDE DEF n, es
  <2>2. \A i \in 1 .. n - 1 : i \in 1 .. n /\ i # n
    BY <1>1, Below, Zenon
  <2> QED BY <1>1, <2>1, <2>2
<1>12. \A i \in 1 .. n : es[i] = ds[i]
  BY <1>7, <1>10, <1>11
<1> HIDE DEF es
<1>13. es = ds
  BY <1>10, <1>11, <1>12, SeqEqual
<1> QED BY <1>13 DEF es, ds, q, r, n

(* A step of the running thread that has not used the C stack. *)
LEMMA StackKept ==
  ASSUME IInv, raised = "no", Len(cstack) > 1, Top.f \notin {"luaD_pcall", "luaG_errormsg"},
         cstack' = cstack
  PROVE  Settled' /\ Reserve' /\ Near(cstack, cstack', L)
<1>1. Shape(cstack) /\ L = cstack[Len(cstack)].th /\ Top = cstack[Len(cstack)]
      /\ nCcalls[L] = CallsTo(cstack, Len(cstack)) /\ nCcalls[L] \in Nat
  BY Running
<1>2. Settled'
  BY <1>1 DEF Settled
<1>3. Reserve'
  <2>1. Reserve
    BY DEF IInv
  <2>2. CallsTo(cstack, Len(cstack)) < MaxCalls /\ CallsTo(cstack, Len(cstack)) <= MaxCalls
    BY <2>1 DEF Reserve
  <2> QED BY <2>2 DEF Reserve
<1>4. Near(cstack, cstack', L)
  BY <1>1, NearSelf
<1> QED BY <1>2, <1>3, <1>4

LEMMA OneMore ==
  ASSUME NEW fs \in Seq(FrameKind), NEW v \in Nat
  PROVE  Recounted(fs, v, Append(fs, "Lua"), v + 1) /\ Len(Append(fs, "Lua")) \in Nat
         /\ v + 1 \in Nat /\ v + 1 > 0
<1>1. "Lua" \in FrameKind
  BY DEF FrameKind
<1>2. /\ Len(fs) \in Nat /\ Len(Append(fs, "Lua")) = Len(fs) + 1
      /\ Append(fs, "Lua")[Len(fs) + 1] = "Lua"
      /\ \A k \in 1 .. Len(fs) : Append(fs, "Lua")[k] = fs[k]
  BY <1>1, GrownFrames
<1>3. ASSUME NEW k \in 1 .. Len(Append(fs, "Lua"))
      PROVE  Append(fs, "Lua")[k] = IF k <= Len(fs) THEN fs[k] ELSE "Lua"
  <2>1. CASE k <= Len(fs)
    BY <1>2, <1>3, <2>1
  <2>2. CASE ~(k <= Len(fs))
    <3>1. k = Len(fs) + 1
      BY <1>2, <1>3, <2>2
    <3> QED BY <1>2, <2>2, <3>1
  <2> QED BY <2>1, <2>2
<1>4. Len(Append(fs, "Lua")) + v = Len(fs) + (v + 1)
  BY <1>2
<1> QED BY <1>2, <1>3, <1>4 DEF Recounted

LEMMA OP_CALLInv ==
  ASSUME IInv, OP_CALL
  PROVE  IInv' /\ Near(cstack, cstack', L) /\ ThreadsKept
<1> DEFINE n == Len(cstack)
           r == cstack[n]
           v == r.nexeccalls
           longer == [cstack EXCEPT ![n].nexeccalls = @ + 1]
<1>1. raised = "no" /\ Top.f = "luaV_execute"
  BY DEF OP_CALL, Doing
<1>2. Core(cstack, status, ci, baseCcalls, nCcalls, errfunc) /\ TypeOK
  BY DEF IInv
<1>3. /\ Shape(cstack) /\ Top = r /\ L = r.th /\ status[L] = "ok" /\ L \in Thread
      /\ cstack \in Stack /\ ci[L] \in Seq(FrameKind) /\ r \in Record /\ n \in Nat
  BY <1>1, Running
<1>4. r.f = "luaV_execute" /\ n > 1 /\ n > 2
  BY <1>1, <1>3, AboveHost
<1>5. v \in Nat
  BY <1>3, <1>4, RecordParts
<1>6. ThreadsKept /\ openup' = openup /\ errfunc' = errfunc /\ nCcalls' = nCcalls
  BY DEF OP_CALL, ThreadsKept
<1>7. \/ luaD_precall(L, "Lua", longer, cstack)
      \/ luaD_precall(L, "C", Append(cstack, CFunction(L)), cstack)
  BY DEF OP_CALL
<1> HIDE DEF longer
<1>8. PICK kind \in FrameKind, entered \in {longer, Append(cstack, CFunction(L))} :
        /\ luaD_precall(L, kind, entered, cstack)
        /\ \/ kind = "Lua" /\ entered = longer
           \/ kind = "C" /\ entered = Append(cstack, CFunction(L))
  BY <1>7 DEF FrameKind
<1>9. /\ size_ci' \in [Thread -> Nat] /\ ci' \in [Thread -> Seq(FrameKind)]
      /\ raised' \in {"no", "runerror", "throw"} /\ FramesFit' /\ Grows
      /\ Elsewhere(L, ci, ci')
      /\ \/ raised' = "no" /\ cstack' = entered /\ ci'[L] = Append(ci[L], kind)
         \/ raised' # "no" /\ cstack' = cstack /\ ci' = ci
  BY <1>3, <1>8, PrecallParts
<1>10. UpvaluesOnStack' /\ Typed
  <2>1. UpvaluesOnStack'
    BY <1>6, <1>9, UpvaluesGrow
  <2> QED BY <1>2, <1>6, <1>9, <2>1 DEF TypeOK, Typed
<1>11. CASE raised' # "no" /\ cstack' = cstack /\ ci' = ci
  <2>1. Settled' /\ Reserve' /\ Near(cstack, cstack', L)
    BY <1>1, <1>4, <1>11, StackKept
  <2>2. Core(cstack', status, ci', baseCcalls, nCcalls', errfunc')
    BY <1>2, <1>6, <1>11
  <2> QED BY <1>3, <1>6, <1>9, <1>10, <2>1, <2>2, StepDone
<1>12. CASE raised' = "no" /\ cstack' = entered /\ kind = "Lua" /\ ci'[L] = Append(ci[L], "Lua")
  <2> DEFINE low == Cut(cstack, n - 1)
             q == Execute(L, v + 1)
  <2>1. longer = Append(low, q)
    <3>1. longer = [cstack EXCEPT ![n].nexeccalls = v + 1]
      BY DEF longer
    <3>2. v + 1 \in Nat /\ n > 0
      BY <1>4, <1>5, AboveOne, Successor
    <3> QED BY <1>3, <1>4, <3>1, <3>2, Counted
  <2>2. Recounted(ci[L], v, ci'[L], v + 1) /\ Len(ci'[L]) \in Nat /\ v + 1 \in Nat /\ v + 1 > 0
    BY <1>3, <1>5, <1>12, OneMore
  <2>3. Core(Append(low, q), status, ci', baseCcalls, nCcalls, errfunc)
    BY <1>2, <1>3, <1>4, <1>9, <2>2, Recount
  <2>4. cstack' = Append(low, q)
    BY <1>8, <1>12, <2>1
  <2>5. /\ low \in Stack /\ Near(cstack, low, L) /\ Len(low) = n - 1
    <3>1. n - 1 \in 1 .. n /\ n - 1 \in 0 .. n
      BY <1>3, <1>4, Inside, Zenon
    <3>2. cstack[n - 1].th = L
      <4>1. Over(cstack[n - 1], cstack[n])
        <5>1. n \in 2 .. n
          BY <1>3, <1>4, Inside, Zenon
        <5> QED BY <1>3, <5>1 DEF Shape
      <4> QED BY <1>3, <1>4, <4>1 DEF Over
    <3>3. low \in Stack /\ Len(low) = n - 1
      BY <1>3, <3>1, CutParts, Zenon
    <3>4. Near(cstack, low, cstack[n - 1].th)
      BY <1>3, <3>1, <3>2, NearCut, Zenon
    <3> QED BY <3>2, <3>3, <3>4
  <2>6. q \in Record /\ q.th = L /\ q.f = "luaV_execute"
    <3>1. q \in Record
      BY <1>3, <2>2, RecordTypes
    <3> QED BY <3>1 DEF Execute
  <2> HIDE DEF q
  <2>7. Near(cstack, Append(low, q), L)
    <3>1. q.f # "lua_resume"
      BY <2>6
    <3> QED BY <1>3, <2>5, <2>6, <3>1, NearPush, Zenon
  <2>8. cstack'[Len(cstack')] = q
    BY <2>4, <2>5, <2>6, PushParts
  <2>9. Core(cstack', status, ci', baseCcalls, nCcalls', errfunc') /\ Near(cstack, cstack', L)
    BY <1>6, <2>3, <2>4, <2>7
  <2>10. nCcalls'[L] <= nCcalls[L]
    <3>1. nCcalls[L] \in Nat
      BY Running
    <3> QED BY <1>6, <3>1
  <2>11. Settled' /\ Reserve'
    <3>1. Settled'
      BY <1>12, <2>6, <2>8 DEF Settled
    <3>2. cstack'[Len(cstack')].th = L
      BY <2>6, <2>8
    <3>3. Reserve'
      BY <1>1, <2>9, <2>10, <3>2, ReserveKept
    <3> QED BY <3>1, <3>3
  <2> QED BY <1>3, <1>6, <1>9, <1>10, <2>9, <2>11, StepDone
<1>13. CASE raised' = "no" /\ cstack' = entered /\ kind = "C" /\ ci'[L] = Append(ci[L], "C")
  <2> DEFINE q == CFunction(L)
  <2>1. q \in Record /\ q.th = L /\ q.f = "C function" /\ Frames(q) = 1 /\ Kind(q) = "C"
    <3>1. q \in Record
      BY <1>3, RecordTypes
    <3> QED BY <3>1 DEF CFunction, Frames, Kind
  <2>2. cstack' = Append(cstack, q)
    BY <1>8, <1>13
  <2> HIDE DEF q
  <2>3. Extends(ci[L], q, ci'[L])
    BY <1>3, <1>13, <2>1, ExtendsOne DEF FrameKind
  <2>4. nCcalls[L] = nCcalls[L] + IF q.f = "luaD_call" THEN 1 ELSE 0
    <3>1. nCcalls[L] \in Nat
      BY Running
    <3>2. nCcalls[L] = nCcalls[L] + 0
      BY <3>1
    <3> QED BY <2>1, <3>2
  <2>5. Over(cstack[n], q) /\ q.f \notin {"luaD_pcall", "lua_resume"} /\ q.f # "lua_resume"
    BY <1>3, <1>4, <2>1 DEF Over, Under
  <2>6. Elsewhere(L, nCcalls, nCcalls)
    BY DEF Elsewhere
  <2>7. Core(Append(cstack, q), status, ci', baseCcalls, nCcalls, errfunc)
    BY <1>2, <1>3, <1>4, <1>9, <2>1, <2>3, <2>4, <2>5, <2>6, PushSame
  <2>8. Near(cstack, cstack', L)
    <3>1. Near(cstack, cstack, L)
      BY <1>3, NearSelf
    <3> QED BY <1>3, <2>1, <2>2, <2>5, <3>1, NearPush, Zenon
  <2>9. cstack'[Len(cstack')] = q
    BY <1>3, <2>1, <2>2, PushTop
  <2>10. nCcalls'[L] <= nCcalls[L]
    <3>1. nCcalls[L] \in Nat
      BY Running
    <3> QED BY <1>6, <3>1
  <2>11. Core(cstack', status, ci', baseCcalls, nCcalls', errfunc')
    BY <1>6, <2>2, <2>7
  <2>12. Settled' /\ Reserve'
    <3>1. Settled'
      BY <1>13, <2>1, <2>9 DEF Settled
    <3>2. cstack'[Len(cstack')].th = L
      BY <2>1, <2>9
    <3>3. Reserve'
      BY <1>1, <2>10, <2>11, <3>2, ReserveKept
    <3> QED BY <3>1, <3>3
  <2> QED BY <1>3, <1>6, <1>9, <1>10, <2>8, <2>11, <2>12, StepDone
<1> QED BY <1>8, <1>9, <1>11, <1>12, <1>13

(* Of open upvalues, some may go. *)
LEMMA UpvaluesFewer ==
  ASSUME IInv, ci' = ci, \A t \in Thread : openup'[t] \subseteq openup[t]
  PROVE  UpvaluesOnStack'
BY DEF IInv, UpvaluesOnStack

LEMMA ClosedParts ==
  ASSUME IInv
  PROVE  /\ ClosedFrame \in [Thread -> SUBSET Nat] /\ Len(ci[L]) \notin ClosedFrame[L]
         /\ \A t \in Thread : ClosedFrame[t] \subseteq openup[t]
<1>1. openup \in [Thread -> SUBSET Nat] /\ L \in Thread
  BY Running DEF IInv, TypeOK
<1> QED BY <1>1 DEF ClosedFrame

LEMMA OP_TAILCALLInv ==
  ASSUME IInv, OP_TAILCALL
  PROVE  IInv' /\ Near(cstack, cstack', L) /\ ThreadsKept
<1>1. raised = "no" /\ Top.f = "luaV_execute" /\ inc_ci(L)
  BY DEF OP_TAILCALL, Doing
<1>2. Core(cstack, status, ci, baseCcalls, nCcalls, errfunc) /\ TypeOK
  BY DEF IInv
<1>3. /\ Shape(cstack) /\ Top = cstack[Len(cstack)] /\ status[L] = "ok" /\ L \in Thread
  BY <1>1, Running
<1>4. Len(cstack) > 1
  BY <1>1, <1>3, AboveHost
<1>5. /\ ThreadsKept /\ ci' = ci /\ nCcalls' = nCcalls /\ errfunc' = errfunc /\ cstack' = cstack
      /\ openup' \in {openup, ClosedFrame}
  BY DEF OP_TAILCALL, ThreadsKept
<1>6. /\ size_ci' \in [Thread -> Nat] /\ raised' \in {"no", "runerror", "throw"}
      /\ \A t \in Thread : size_ci[t] <= size_ci'[t]
  BY <1>1, <1>3, IncCi
<1>7. /\ openup' \in [Thread -> SUBSET Nat] /\ \A t \in Thread : openup'[t] \subseteq openup[t]
  BY <1>2, <1>5, ClosedParts DEF TypeOK
<1>8. UpvaluesOnStack' /\ Typed
  <2>1. UpvaluesOnStack'
    BY <1>5, <1>7, UpvaluesFewer
  <2> QED BY <1>2, <1>5, <1>6, <1>7, <2>1 DEF TypeOK, Typed
<1>9. FramesFit'
  <2>1. ASSUME NEW t \in Thread
        PROVE  Len(ci[t]) + 1 <= size_ci'[t]
    <3>1. Len(ci[t]) + 1 <= size_ci[t] /\ size_ci[t] <= size_ci'[t]
      BY <1>6 DEF IInv, FramesFit
    <3>2. size_ci[t] \in Nat /\ size_ci'[t] \in Nat /\ ci[t] \in Seq(FrameKind)
      BY <1>2, <1>6 DEF TypeOK
    <3>3. Len(ci[t]) \in Nat
      BY <3>2, LenProperties
    <3> QED BY <3>1, <3>2, <3>3
  <2> QED BY <1>5, <2>1 DEF FramesFit
<1>10. Settled' /\ Reserve' /\ Near(cstack, cstack', L)
  <2>1. Top.f \notin {"luaD_pcall", "luaG_errormsg"}
    BY <1>1
  <2> QED BY <1>1, <1>4, <1>5, <2>1, StackKept
<1>11. Core(cstack', status, ci', baseCcalls, nCcalls', errfunc') /\ Elsewhere(L, ci, ci')
  BY <1>2, <1>5 DEF Elsewhere
<1> QED BY <1>3, <1>5, <1>8, <1>9, <1>10, <1>11, StepDone

LEMMA FrameOfC ==
  ASSUME NEW r, r.f = "C function"
  PROVE  Frames(r) = 1 /\ Frames(r) \in Nat /\ Frames(r) > 0 /\ Kind(r) = "C"
<1>1. Frames(r) = 1 /\ Kind(r) = "C"
  BY DEF Frames, Kind
<1> QED BY <1>1, One, Zenon

(* The frame of the record on top. *)
LEMMA TopFrame ==
  ASSUME IInv, Top.f \in {"luaV_execute", "C function"}, Len(cstack) > 1
  PROVE  /\ Len(ci[L]) \in Nat /\ Len(ci[L]) > 0 /\ ci[L][Len(ci[L])] = Kind(Top)
         /\ Len(cstack) > 2 /\ cstack[Len(cstack) - 1].th = L
         /\ cstack[Len(cstack) - 1].f \in Under(Top.f)
         /\ Frames(Top) \in Nat /\ Frames(Top) > 0
<1>1. /\ Shape(cstack) /\ Top = cstack[Len(cstack)] /\ status[L] = "ok" /\ L \in Thread
      /\ L = cstack[Len(cstack)].th /\ Owned(cstack, L, ci[L]) /\ cstack \in Stack
      /\ Top \in Record /\ Len(cstack) \in Nat
  BY Running
<1>2. Len(cstack) \in 2 .. Len(cstack)
  BY <1>1, Inside, Zenon
<1>3. Over(cstack[Len(cstack) - 1], Top)
  BY <1>1, <1>2 DEF Shape
<1>4. Frames(Top) \in Nat /\ Frames(Top) > 0
  <2>1. Frames(Top) \in Nat
    BY <1>1, RecordParts
  <2>2. CASE Top.f = "luaV_execute"
    BY <1>3, <2>1, <2>2 DEF Frames, Over
  <2>3. CASE Top.f = "C function"
    BY <2>3, FrameOfC
  <2> QED BY <2>1, <2>2, <2>3
<1>5. Len(ci[L]) \in Nat /\ Len(ci[L]) > 0 /\ ci[L][Len(ci[L])] = Kind(Top)
  <2>1. Frames(cstack[Len(cstack)]) > 0
    BY <1>1, <1>4
  <2> QED BY <1>1, <2>1, OwnedTop
<1>6. Len(cstack) > 2
  <2>1. Len(cstack) # 2
    <3>1. Len(cstack) = 2 => cstack[Len(cstack)].f = "luaD_pcall"
      BY <1>1, ShapeTwo
    <3> QED BY <1>1, <3>1
  <2>2. Len(cstack) > 0 /\ Len(cstack) # 1
    BY <1>1, AboveOne, Zenon
  <2> QED BY <1>1, <2>1, <2>2, AboveTwo, Zenon
<1>7. cstack[Len(cstack) - 1].th = L /\ cstack[Len(cstack) - 1].f \in Under(Top.f)
  BY <1>1, <1>3 DEF Over
<1> QED BY <1>4, <1>5, <1>6, <1>7, Zenon

LEMMA OP_CLOSUREInv ==
  ASSUME IInv, OP_CLOSURE
  PROVE  IInv' /\ Near(cstack, cstack', L) /\ ThreadsKept
<1>1. raised = "no" /\ Top.f = "luaV_execute"
  BY DEF OP_CLOSURE, Doing
<1>2. Core(cstack, status, ci, baseCcalls, nCcalls, errfunc) /\ TypeOK
  BY DEF IInv
<1>3. /\ Shape(cstack) /\ Top = cstack[Len(cstack)] /\ status[L] = "ok" /\ L \in Thread
  BY <1>1, Running
<1>4. Len(cstack) > 1
  BY <1>1, <1>3, AboveHost
<1>5. /\ ThreadsKept /\ ci' = ci /\ nCcalls' = nCcalls /\ errfunc' = errfunc /\ cstack' = cstack
      /\ size_ci' = size_ci /\ raised' = raised
      /\ openup' = [openup EXCEPT ![L] = @ \cup {Len(ci[L])}]
  BY DEF OP_CLOSURE, ThreadsKept
<1>6. Len(ci[L]) \in Nat /\ Len(ci[L]) > 0 /\ ci[L][Len(ci[L])] = "Lua"
  BY <1>1, <1>4, TopFrame DEF Kind
<1>7. UpvaluesOnStack' /\ Typed
  <2>1. openup' \in [Thread -> SUBSET Nat] /\ openup'[L] = openup[L] \cup {Len(ci[L])}
        /\ \A t \in Thread \ {L} : openup'[t] = openup[t]
    BY <1>2, <1>3, <1>5, <1>6 DEF TypeOK
  <2>2. Len(ci[L]) \in DOMAIN ci[L]
    <3>1. ci[L] \in Seq(FrameKind)
      BY <1>2, <1>3 DEF TypeOK
    <3>2. DOMAIN ci[L] = 1 .. Len(ci[L])
      BY <3>1, LenProperties
    <3> QED BY <1>6, <3>2
  <2>3. ASSUME NEW t \in Thread, NEW i \in openup'[t]
        PROVE  i \in DOMAIN ci[t] /\ ci[t][i] = "Lua"
    BY <1>6, <2>1, <2>2 DEF IInv, UpvaluesOnStack
  <2> QED BY <1>2, <1>5, <2>1, <2>3 DEF TypeOK, Typed, UpvaluesOnStack
<1>8. FramesFit'
  BY <1>5 DEF IInv, FramesFit
<1>9. Settled' /\ Reserve' /\ Near(cstack, cstack', L)
  <2>1. Top.f \notin {"luaD_pcall", "luaG_errormsg"}
    BY <1>1
  <2> QED BY <1>1, <1>4, <1>5, <2>1, StackKept
<1>10. Core(cstack', status, ci', baseCcalls, nCcalls', errfunc') /\ Elsewhere(L, ci, ci')
  BY <1>2, <1>5 DEF Elsewhere
<1> QED BY <1>3, <1>5, <1>7, <1>8, <1>9, <1>10, StepDone

LEMMA FirstFrames ==
  ASSUME NEW fs \in Seq(FrameKind), NEW m \in Nat, m <= Len(fs)
  PROVE  /\ SubSeq(fs, 1, m) \in Seq(FrameKind) /\ Len(SubSeq(fs, 1, m)) = m
         /\ \A k \in 1 .. m : SubSeq(fs, 1, m)[k] = fs[k] /\ k \in 1 .. Len(fs)
<1>1. Len(fs) \in Nat
  BY LenProperties
<1>2. m \in 1 - 1 .. Len(fs) /\ 1 \in 1 .. Len(fs) + 1 /\ \A k \in 1 .. m : k \in 1 .. Len(fs)
  BY <1>1
<1>3. /\ SubSeq(fs, 1, m) \in Seq(FrameKind)
      /\ Len(SubSeq(fs, 1, m)) = IF 1 <= m THEN m - 1 + 1 ELSE 0
      /\ \A k \in 1 .. m - 1 + 1 : SubSeq(fs, 1, m)[k] = fs[1 + k - 1]
  BY <1>2, SubSeqProperties
<1>4. \A k \in 1 .. m : k \in 1 .. m - 1 + 1 /\ 1 + k - 1 = k
  OBVIOUS
<1>5. Len(SubSeq(fs, 1, m)) = m
  BY <1>3
<1> QED BY <1>2, <1>3, <1>4, <1>5

(* luaD_poscall. *)
LEMMA Popped ==
  ASSUME NEW fs \in Seq(FrameKind), Len(fs) > 0
  PROVE  /\ Front(fs) \in Seq(FrameKind) /\ Len(Front(fs)) \in Nat /\ Len(fs) \in Nat
         /\ Len(Front(fs)) + 1 = Len(fs)
         /\ \A k \in 1 .. Len(Front(fs)) : Front(fs)[k] = fs[k] /\ k \in 1 .. Len(fs)
         /\ \A k \in 1 .. Len(fs) : k # Len(fs) => k \in 1 .. Len(Front(fs))
<1> DEFINE n == Len(fs)
<1>1. n \in Nat
  BY LenProperties
<1>2. n - 1 \in Nat /\ n - 1 <= n /\ (n - 1) + 1 = n
  BY <1>1
<1>3. Front(fs) \in Seq(FrameKind) /\ Len(Front(fs)) = n - 1
      /\ \A k \in 1 .. n - 1 : Front(fs)[k] = fs[k]
  BY <1>2, FirstFrames DEF Front
<1>4. \A k \in 1 .. n : k # n => k \in 1 .. n - 1
  BY <1>1
<1>5. \A k \in 1 .. n - 1 : k \in 1 .. n
  BY <1>1
<1> QED BY <1>1, <1>2, <1>3, <1>4, <1>5

LEMMA UpvaluesPopped ==
  ASSUME IInv, NEW th \in Thread, Len(ci[th]) > 0, luaD_poscall(th), size_ci' = size_ci,
         openup' \in [Thread -> SUBSET Nat], Len(ci[th]) \notin openup'[th],
         \A t \in Thread : openup'[t] \subseteq openup[t]
  PROVE  /\ ci' \in [Thread -> Seq(FrameKind)] /\ ci'[th] = Front(ci[th]) /\ Elsewhere(th, ci, ci')
         /\ UpvaluesOnStack' /\ FramesFit'
<1>1. ci \in [Thread -> Seq(FrameKind)] /\ size_ci \in [Thread -> Nat]
      /\ ci[th] \in Seq(FrameKind)
  BY DEF IInv, TypeOK
<1>2. /\ Front(ci[th]) \in Seq(FrameKind) /\ Len(Front(ci[th])) \in Nat /\ Len(ci[th]) \in Nat
      /\ Len(Front(ci[th])) + 1 = Len(ci[th])
      /\ \A k \in 1 .. Len(Front(ci[th])) : Front(ci[th])[k] = ci[th][k] /\ k \in 1 .. Len(ci[th])
      /\ \A k \in 1 .. Len(ci[th]) : k # Len(ci[th]) => k \in 1 .. Len(Front(ci[th]))
  BY <1>1, Popped
<1>3. ci' = [ci EXCEPT ![th] = Front(ci[th])]
  BY DEF luaD_poscall
<1>4. ci' \in [Thread -> Seq(FrameKind)] /\ ci'[th] = Front(ci[th]) /\ Elsewhere(th, ci, ci')
  BY <1>1, <1>2, <1>3 DEF Elsewhere
<1>5. UpvaluesOnStack'
  <2>1. ASSUME NEW t \in Thread, NEW k \in openup'[t]
        PROVE  k \in DOMAIN ci'[t] /\ ci'[t][k] = "Lua"
    <3>1. k \in DOMAIN ci[t] /\ ci[t][k] = "Lua"
      BY DEF IInv, UpvaluesOnStack
    <3>2. CASE t # th
      BY <1>4, <3>1, <3>2 DEF Elsewhere
    <3>3. CASE t = th
      <4>1. k \in 1 .. Len(ci[th]) /\ k # Len(ci[th])
        <5>1. DOMAIN ci[th] = 1 .. Len(ci[th])
          BY <1>1, LenProperties
        <5> QED BY <3>1, <3>3, <5>1
      <4>2. k \in 1 .. Len(Front(ci[th])) /\ Front(ci[th])[k] = ci[th][k]
        BY <1>2, <4>1
      <4>3. DOMAIN Front(ci[th]) = 1 .. Len(Front(ci[th]))
        BY <1>2, LenProperties
      <4> QED BY <1>4, <3>1, <3>3, <4>2, <4>3
    <3> QED BY <3>2, <3>3
  <2> QED BY <2>1 DEF UpvaluesOnStack
<1>6. FramesFit'
  <2>1. ASSUME NEW t \in Thread
        PROVE  Len(ci'[t]) + 1 <= size_ci[t]
    <3>1. Len(ci[t]) + 1 <= size_ci[t]
      BY DEF IInv, FramesFit
    <3>2. CASE t # th
      BY <1>4, <3>1, <3>2 DEF Elsewhere
    <3>3. CASE t = th
      <4>1. Len(ci'[t]) = Len(Front(ci[th])) /\ size_ci[t] \in Nat
        BY <1>1, <1>4, <3>3
      <4> QED BY <1>2, <3>1, <3>3, <4>1
    <3> QED BY <3>2, <3>3
  <2> QED BY <2>1 DEF FramesFit
<1> QED BY <1>4, <1>5, <1>6

LEMMA FrontCut ==
  ASSUME NEW cs
  PROVE  Front(cs) = Cut(cs, Len(cs) - 1)
BY DEF Front, Cut

LEMMA CutTop ==
  ASSUME NEW cs \in Stack, Len(cs) > 1
  PROVE  /\ Front(cs) \in Stack /\ Len(Front(cs)) = Len(cs) - 1 /\ Len(Front(cs)) \in Nat
         /\ Front(cs)[Len(Front(cs))] = cs[Len(cs) - 1]
         /\ Len(cs) - 1 \in 1 .. Len(cs)
<1>1. Len(cs) \in Nat
  BY StackParts
<1>2. Len(cs) - 1 \in 1 .. Len(cs) /\ Len(cs) - 1 \in 0 .. Len(cs) /\ Len(cs) - 1 \in Nat
  BY <1>1, Inside, Zenon
<1>3. Len(cs) - 1 \in 1 .. Len(cs) - 1
  BY <1>2
<1>4. /\ Cut(cs, Len(cs) - 1) \in Stack /\ Len(Cut(cs, Len(cs) - 1)) = Len(cs) - 1
      /\ \A i \in 1 .. Len(cs) - 1 : Cut(cs, Len(cs) - 1)[i] = cs[i]
  BY <1>2, CutParts, Zenon
<1> QED BY <1>2, <1>3, <1>4, FrontCut, Zenon

(* The record on top leaves with the last frame of its thread. *)
LEMMA PopTop ==
  ASSUME IInv, raised = "no", Len(cstack) > 1, Top.f \in {"luaV_execute", "C function"},
         Frames(Top) = 1, luaD_poscall(L), cstack' = Front(cstack),
         ThreadsKept, size_ci' = size_ci, nCcalls' = nCcalls, errfunc' = errfunc,
         raised' = "no",
         openup' \in [Thread -> SUBSET Nat], Len(ci[L]) \notin openup'[L],
         \A t \in Thread : openup'[t] \subseteq openup[t]
  PROVE  IInv' /\ Near(cstack, cstack', L)
<1> DEFINE n == Len(cstack)
<1>1. /\ Shape(cstack) /\ L \in Thread /\ L = cstack[n].th /\ cstack \in Stack /\ n \in Nat
      /\ ci[L] \in Seq(FrameKind) /\ nCcalls[L] \in Nat /\ Top = cstack[n] /\ status[L] = "ok"
  BY Running
<1>2. Core(cstack, status, ci, baseCcalls, nCcalls, errfunc) /\ TypeOK
  BY DEF IInv
<1>3. /\ Len(ci[L]) \in Nat /\ Len(ci[L]) > 0 /\ ci[L][Len(ci[L])] = Kind(Top)
      /\ n > 2 /\ cstack[n - 1].th = L /\ cstack[n - 1].f \in Under(Top.f)
  BY TopFrame
<1>4. /\ ci' \in [Thread -> Seq(FrameKind)] /\ ci'[L] = Front(ci[L]) /\ Elsewhere(L, ci, ci')
      /\ UpvaluesOnStack' /\ FramesFit'
  BY <1>1, <1>3, UpvaluesPopped
<1>5. /\ Len(ci'[L]) \in Nat /\ Len(ci'[L]) + 1 = Len(ci[L])
      /\ \A k \in 1 .. Len(ci'[L]) : ci'[L][k] = ci[L][k]
  BY <1>1, <1>3, <1>4, Popped
<1>6. Extends(ci'[L], Top, ci[L])
  <2>1. \A k \in 1 .. 1 : k = 1
    BY One, Zenon
  <2> QED BY <1>3, <1>5, <2>1 DEF Extends
<1>7. nCcalls'[L] = nCcalls[L] - IF Top.f = "luaD_call" THEN 1 ELSE 0
  <2>1. nCcalls[L] = nCcalls[L] - 0
    BY <1>1, Same, Zenon
  <2>2. Top.f # "luaD_call"
    OBVIOUS
  <2> QED BY <2>1, <2>2, Zenon
<1>8. errfunc'[L] = IF Top.f = "luaD_pcall" THEN Top.old_errfunc ELSE errfunc[L]
  OBVIOUS
<1>9. Elsewhere(L, nCcalls, nCcalls') /\ Elsewhere(L, errfunc, errfunc')
  BY DEF Elsewhere
<1>10. Top.f # "lua_resume"
  OBVIOUS
<1>11. Core(Cut(cstack, n - 1), status, ci', baseCcalls, nCcalls', errfunc')
  BY <1>1, <1>2, <1>4, <1>5, <1>6, <1>7, <1>8, <1>9, <1>10, DropTop
<1>12. /\ Front(cstack) = Cut(cstack, n - 1) /\ cstack'[Len(cstack')] = cstack[n - 1]
       /\ n - 1 \in 1 .. n
  BY <1>1, FrontCut, CutTop
<1>13. Core(cstack', status, ci', baseCcalls, nCcalls', errfunc')
  BY <1>11, <1>12
<1>14. Near(cstack, cstack', L)
  <2>1. cstack[n - 1].th = cstack[n].th
    BY <1>1, <1>3
  <2>2. Near(cstack, Cut(cstack, n - 1), cstack[n - 1].th)
    BY <1>1, <1>12, <2>1, NearCut, Zenon
  <2> QED BY <1>3, <1>12, <2>2
<1>15. Settled'
  BY <1>3, <1>12 DEF Settled, Under
<1>16. Reserve'
  <2>1. nCcalls'[L] <= nCcalls[L]
    BY <1>1, Same, Zenon
  <2>2. cstack'[Len(cstack')].th = L
    BY <1>3, <1>12
  <2> QED BY <1>13, <2>1, <2>2, ReserveKept
<1>17. Typed
  BY <1>2, <1>4 DEF TypeOK, Typed
<1> QED BY <1>1, <1>4, <1>13, <1>14, <1>15, <1>16, <1>17, StepDone

LEMMA ReturnFromCInv ==
  ASSUME IInv, ReturnFromC
  PROVE  IInv' /\ Near(cstack, cstack', L) /\ ThreadsKept
<1>1. raised = "no" /\ Top.f = "C function" /\ Len(cstack) > 1
  BY DEF ReturnFromC, InFunction, Doing
<1>2. Frames(Top) = 1 /\ Kind(Top) = "C"
  BY <1>1, FrameOfC
<1>3. /\ ThreadsKept /\ size_ci' = size_ci /\ nCcalls' = nCcalls /\ errfunc' = errfunc
      /\ raised' = "no" /\ openup' = openup /\ luaD_poscall(L) /\ cstack' = Front(cstack)
  BY <1>1 DEF ReturnFromC, ThreadsKept
<1>4. ci[L][Len(ci[L])] = "C" /\ L \in Thread
  BY <1>1, <1>2, TopFrame, Running
<1>5. openup \in [Thread -> SUBSET Nat] /\ Len(ci[L]) \notin openup[L]
  BY <1>4 DEF IInv, TypeOK, UpvaluesOnStack
<1> QED BY <1>1, <1>2, <1>3, <1>5, PopTop

LEMMA OneLess ==
  ASSUME NEW fs \in Seq(FrameKind), Len(fs) > 0, NEW v \in Nat, v > 0, v # 1
  PROVE  /\ Recounted(fs, v, Front(fs), v - 1) /\ Len(Front(fs)) \in Nat
         /\ v - 1 \in Nat /\ v - 1 > 0
<1> DEFINE gs == Front(fs)
<1>1. /\ gs \in Seq(FrameKind) /\ Len(gs) \in Nat /\ Len(fs) \in Nat /\ Len(gs) + 1 = Len(fs)
      /\ \A k \in 1 .. Len(gs) : gs[k] = fs[k] /\ k \in 1 .. Len(fs)
  BY Popped
<1> HIDE DEF gs
<1>2. v - 1 \in Nat /\ v - 1 > 0
  OBVIOUS
<1>3. Len(gs) + v = Len(fs) + (v - 1)
  BY <1>1
<1>4. ASSUME NEW k \in 1 .. Len(gs)
      PROVE  gs[k] = IF k <= Len(fs) THEN fs[k] ELSE "Lua"
  <2>1. k <= Len(fs)
    BY <1>1
  <2> QED BY <1>1, <2>1
<1>5. Recounted(fs, v, gs, v - 1)
  BY <1>3, <1>4 DEF Recounted
<1> QED BY <1>1, <1>2, <1>5 DEF gs

LEMMA OP_RETURNInv ==
  ASSUME IInv, OP_RETURN
  PROVE  IInv' /\ Near(cstack, cstack', L) /\ ThreadsKept
<1> DEFINE n == Len(cstack)
           r == cstack[n]
           v == r.nexeccalls
           low == Cut(cstack, n - 1)
           q == Execute(L, v - 1)
<1>1. raised = "no" /\ Top.f = "luaV_execute"
  BY DEF OP_RETURN, Doing
<1>2. Core(cstack, status, ci, baseCcalls, nCcalls, errfunc) /\ TypeOK
  BY DEF IInv
<1>3. /\ Shape(cstack) /\ Top = r /\ L = r.th /\ status[L] = "ok" /\ L \in Thread
      /\ cstack \in Stack /\ ci[L] \in Seq(FrameKind) /\ r \in Record /\ n \in Nat
      /\ nCcalls[L] \in Nat
  BY <1>1, Running
<1>4. r.f = "luaV_execute" /\ n > 1 /\ n > 2
  BY <1>1, <1>3, AboveHost
<1>5. v \in Nat /\ Frames(r) = v
  BY <1>3, <1>4, RecordParts DEF Frames
<1>6. /\ ThreadsKept /\ size_ci' = size_ci /\ nCcalls' = nCcalls /\ errfunc' = errfunc
      /\ raised' = "no" /\ openup' = ClosedFrame /\ luaD_poscall(L)
      /\ v = 1 => cstack' = Front(cstack)
      /\ v # 1 => cstack' = [cstack EXCEPT ![n].nexeccalls = v - 1]
  BY <1>1, <1>3 DEF OP_RETURN, ThreadsKept
<1>7. /\ openup' \in [Thread -> SUBSET Nat] /\ Len(ci[L]) \notin openup'[L]
      /\ \A t \in Thread : openup'[t] \subseteq openup[t]
  BY <1>6, ClosedParts
<1>8. /\ Len(ci[L]) > 0 /\ v > 0 /\ cstack[n - 1].th = L
  <2>1. Top.f \in {"luaV_execute", "C function"}
    BY <1>1
  <2> QED BY <1>3, <1>4, <1>5, <2>1, TopFrame
<1>9. CASE v = 1
  BY <1>1, <1>3, <1>4, <1>5, <1>6, <1>7, <1>9, PopTop
<1>10. CASE v # 1
  <2>1. /\ ci' \in [Thread -> Seq(FrameKind)] /\ ci'[L] = Front(ci[L]) /\ Elsewhere(L, ci, ci')
        /\ UpvaluesOnStack' /\ FramesFit'
    BY <1>3, <1>6, <1>7, <1>8, UpvaluesPopped
  <2>2. Recounted(ci[L], v, ci'[L], v - 1) /\ Len(ci'[L]) \in Nat /\ v - 1 \in Nat /\ v - 1 > 0
    BY <1>3, <1>5, <1>8, <1>10, <2>1, OneLess
  <2>3. cstack' = Append(low, q)
    <3>1. n > 0
      BY <1>3, <1>4, AboveOne, Zenon
    <3> QED BY <1>3, <1>4, <1>6, <1>10, <2>2, <3>1, Counted
  <2>4. Core(Append(low, q), status, ci', baseCcalls, nCcalls, errfunc)
    BY <1>2, <1>3, <1>4, <2>1, <2>2, Recount
  <2>5. /\ low \in Stack /\ Near(cstack, low, L) /\ Len(low) = n - 1
    <3>1. n - 1 \in 1 .. n /\ n - 1 \in 0 .. n
      BY <1>3, <1>4, Inside, Zenon
    <3>2. low \in Stack /\ Len(low) = n - 1
      BY <1>3, <3>1, CutParts, Zenon
    <3>3. Near(cstack, low, cstack[n - 1].th)
      BY <1>3, <1>8, <3>1, NearCut, Zenon
    <3> QED BY <1>8, <3>2, <3>3
  <2>6. q \in Record /\ q.th = L /\ q.f = "luaV_execute"
    <3>1. q \in Record
      BY <1>3, <2>2, RecordTypes
    <3> QED BY <3>1 DEF Execute
  <2> HIDE DEF q
  <2>7. Near(cstack, cstack', L)
    <3>1. q.f # "lua_resume"
      BY <2>6
    <3>2. Near(cstack, Append(low, q), L)
      BY <1>3, <2>5, <2>6, <3>1, NearPush, Zenon
    <3> QED BY <2>3, <3>2
  <2>8. cstack'[Len(cstack')] = q
    BY <2>3, <2>5, <2>6, PushTop
  <2>9. Core(cstack', status, ci', baseCcalls, nCcalls', errfunc')
    BY <1>6, <2>3, <2>4
  <2>10. Settled' /\ Reserve'
    <3>1. Settled'
      BY <1>6, <2>6, <2>8 DEF Settled
    <3>2. cstack'[Len(cstack')].th = L
      BY <2>6, <2>8
    <3>3. nCcalls'[L] <= nCcalls[L]
      BY <1>3, <1>6, Same, Zenon
    <3>4. Reserve'
      BY <1>1, <2>9, <3>2, <3>3, ReserveKept
    <3> QED BY <3>1, <3>4
  <2>11. Typed
    BY <1>2, <1>6, <1>7, <2>1 DEF TypeOK, Typed
  <2> QED BY <1>3, <1>6, <2>1, <2>7, <2>9, <2>10, <2>11, StepDone
<1> QED BY <1>6, <1>9, <1>10

LEMMA CutCut ==
  ASSUME NEW cs \in Stack, Len(cs) > 2
  PROVE  /\ Front(Front(cs)) = Cut(cs, Len(cs) - 2) /\ Len(cs) - 2 \in 1 .. Len(cs)
         /\ Front(Front(cs))[Len(Front(Front(cs)))] = cs[Len(cs) - 2]
         /\ Len(Front(Front(cs))) = Len(cs) - 2
<1> DEFINE n == Len(cs)
           low == Front(cs)
           ds == Cut(low, n - 2)
           es == Cut(cs, n - 2)
<1>1. n \in Nat
  BY StackParts
<1>2. n > 1 /\ n - 2 \in 0 .. n /\ n - 2 \in 1 .. n /\ n - 2 \in 0 .. n - 1 /\ (n - 1) - 1 = n - 2
      /\ n - 1 \in 0 .. n /\ n - 2 \in 1 .. n - 2 /\ n - 2 \in Nat
      /\ \A i \in 1 .. n - 2 : i \in 1 .. n - 1
  <2> HIDE DEF n
  <2>1. n > 2
    BY DEF n
  <2> QED BY <1>1, <2>1
<1>3. low = Cut(cs, n - 1) /\ low \in Stack /\ Len(low) = n - 1
      /\ \A i \in 1 .. n - 1 : low[i] = cs[i]
  BY <1>2, FrontCut, CutParts
<1>4. Front(low) = ds
  BY <1>2, <1>3, FrontCut
<1> HIDE DEF low
<1>5. ds \in Stack /\ Len(ds) = n - 2 /\ \A i \in 1 .. n - 2 : ds[i] = low[i]
  BY <1>2, <1>3, CutParts
<1>6. es \in Stack /\ Len(es) = n - 2 /\ \A i \in 1 .. n - 2 : es[i] = cs[i]
  BY <1>2, CutParts
<1> HIDE DEF ds, es
<1>7. ds \in Seq(Record) /\ es \in Seq(Record) /\ Len(ds) = Len(es)
      /\ \A i \in 1 .. Len(ds) : ds[i] = es[i]
  BY <1>2, <1>3, <1>5, <1>6 DEF Stack
<1>8. ds = es
  BY <1>7, SeqEqual
<1>9. es[Len(es)] = cs[n - 2]
  BY <1>2, <1>6
<1> QED BY <1>2, <1>4, <1>6, <1>8, <1>9 DEF low, es, n

LEMMA DepthNat ==
  ASSUME NEW cs, NEW st, NEW c, NEW base, NEW calls, NEW ef, Core(cs, st, c, base, calls, ef),
         NEW th, th = cs[Len(cs)].th
  PROVE  calls[th] \in Nat
<1>1. Shape(cs)
  BY DEF Core
<1>2. calls[th] = CallsTo(cs, Len(cs))
  BY CoreTop
<1>3. Len(cs) \in Nat
  BY <1>1, ShapeParts
<1> QED BY <1>2, <1>3, CallsNat

(* The record of luaD_call on top. *)
LEMMA CallLeft ==
  ASSUME IInv, raised = "no", Top.f = "luaD_call", nCcalls' = [nCcalls EXCEPT ![L] = @ - 1]
  PROVE  /\ Core(Front(cstack), status, ci, baseCcalls, nCcalls', errfunc)
         /\ Len(cstack) > 2 /\ Len(cstack) - 1 \in 1 .. Len(cstack)
         /\ Front(cstack) \in Stack /\ Len(Front(cstack)) > 1
         /\ Last(Front(cstack)) = cstack[Len(cstack) - 1]
         /\ Front(cstack)[Len(Front(cstack))] = cstack[Len(cstack) - 1]
         /\ cstack[Len(cstack) - 1] \in Record /\ cstack[Len(cstack) - 1].th = L
         /\ cstack[Len(cstack) - 1].f \in Under("luaD_call")
         /\ nCcalls' \in [Thread -> Nat] /\ nCcalls'[L] <= nCcalls[L]
<1> DEFINE n == Len(cstack)
           low == Front(cstack)
<1>1. /\ Shape(cstack) /\ L \in Thread /\ L = cstack[n].th /\ cstack \in Stack /\ n \in Nat
      /\ ci[L] \in Seq(FrameKind) /\ nCcalls[L] \in Nat /\ Top = cstack[n] /\ status[L] = "ok"
      /\ Len(ci[L]) \in Nat
  BY Running
<1>2. Core(cstack, status, ci, baseCcalls, nCcalls, errfunc) /\ TypeOK
  BY DEF IInv
<1>3. n > 2 /\ n > 1
  BY <1>1, AboveHost
<1>4. n - 1 \in 1 .. n /\ n \in 2 .. n /\ n - 1 \in Nat
  BY <1>1, <1>3, Inside, Zenon
<1>5. Over(cstack[n - 1], Top)
  BY <1>1, <1>4 DEF Shape
<1>6. cstack[n - 1].th = L /\ cstack[n - 1].f \in Under("luaD_call")
  BY <1>1, <1>5 DEF Over
<1>7. cstack[n - 1] \in Record
  BY <1>1, <1>4, StackParts
<1>8. low = Cut(cstack, n - 1) /\ low \in Stack /\ Len(low) = n - 1 /\ low[Len(low)] = cstack[n - 1]
  BY <1>1, <1>3, FrontCut, CutTop
<1>9. nCcalls \in [Thread -> Nat] /\ nCcalls'[L] = nCcalls[L] - 1 /\ Elsewhere(L, nCcalls, nCcalls')
  BY <1>1, <1>2 DEF TypeOK, Elsewhere
<1>10. Core(low, status, ci, baseCcalls, nCcalls', errfunc)
  <2>1. Frames(Top) = 0 /\ Top.f # "lua_resume"
    BY DEF Frames
  <2>2. Extends(ci[L], Top, ci[L])
    BY <1>1, <2>1, ExtendsNone
  <2>3. nCcalls'[L] = nCcalls[L] - IF Top.f = "luaD_call" THEN 1 ELSE 0
    BY <1>9
  <2>4. errfunc[L] = IF Top.f = "luaD_pcall" THEN Top.old_errfunc ELSE errfunc[L]
    OBVIOUS
  <2>5. Elsewhere(L, ci, ci) /\ Elsewhere(L, errfunc, errfunc)
    BY DEF Elsewhere
  <2>6. Core(Cut(cstack, n - 1), status, ci, baseCcalls, nCcalls', errfunc)
    BY <1>1, <1>2, <1>3, <1>9, <2>1, <2>2, <2>3, <2>4, <2>5, DropTop
  <2> QED BY <1>8, <2>6
<1>11. nCcalls'[L] \in Nat
  <2>1. L = low[Len(low)].th
    BY <1>6, <1>8
  <2> HIDE DEF low
  <2> QED BY <1>10, <2>1, DepthNat
<1>12. nCcalls' \in [Thread -> Nat] /\ nCcalls'[L] <= nCcalls[L]
  <2>1. nCcalls' = [nCcalls EXCEPT ![L] = nCcalls'[L]]
    BY <1>9
  <2>2. nCcalls' \in [Thread -> Nat]
    BY <1>9, <1>11, <2>1
  <2>3. nCcalls[L] - 1 <= nCcalls[L]
    BY <1>1, StepDown, Zenon
  <2> QED BY <1>9, <2>2, <2>3
<1>13. Len(low) > 1
  <2>1. n - 1 > 1
    BY <1>1, <1>3, StepDown, Zenon
  <2> QED BY <1>8, <2>1
<1>14. Last(low) = low[Len(low)]
  BY DEF Last
<1> QED BY <1>3, <1>4, <1>6, <1>7, <1>8, <1>10, <1>12, <1>13, <1>14, Zenon

(* The record below the call on top leaves with it. *)
LEMMA CallerLeft ==
  ASSUME IInv, raised = "no", Top.f = "luaD_call", nCcalls' = [nCcalls EXCEPT ![L] = @ - 1],
         NEW q, q = cstack[Len(cstack) - 1], q.f \in {"luaD_pcall", "luaG_errormsg"},
         NEW ef, ef = IF q.f = "luaD_pcall" THEN [errfunc EXCEPT ![L] = q.old_errfunc]
                      ELSE errfunc
  PROVE  /\ Core(Front(Front(cstack)), status, ci, baseCcalls, nCcalls', ef)
         /\ Near(cstack, Front(Front(cstack)), L) /\ ef \in [Thread -> Handler]
         /\ Front(Front(cstack))[Len(Front(Front(cstack)))].th = L
         /\ Front(Front(cstack))[Len(Front(Front(cstack)))].f \in Under(q.f)
         /\ q.f = "luaG_errormsg" => Len(Front(Front(cstack))) > 1
<1> DEFINE n == Len(cstack)
           low == Front(cstack)
           ds == Front(low)
<1>1. /\ Shape(cstack) /\ L \in Thread /\ L = cstack[n].th /\ cstack \in Stack /\ n \in Nat
      /\ ci[L] \in Seq(FrameKind) /\ Len(ci[L]) \in Nat /\ status[L] = "ok" /\ Top = cstack[n]
  BY Running
<1>2. errfunc \in [Thread -> Handler]
  BY DEF IInv, TypeOK
<1>3. /\ Core(low, status, ci, baseCcalls, nCcalls', errfunc)
      /\ n > 2 /\ low \in Stack /\ Len(low) > 1 /\ low[Len(low)] = q
      /\ q \in Record /\ q.th = L /\ nCcalls' \in [Thread -> Nat]
  BY CallLeft
<1>4. q.f = "luaD_pcall" => q.old_errfunc \in Handler
  BY <1>3, RecordParts
<1>5. /\ ef \in [Thread -> Handler] /\ Elsewhere(L, errfunc, ef)
      /\ ef[L] = IF q.f = "luaD_pcall" THEN q.old_errfunc ELSE errfunc[L]
  <2>1. CASE q.f = "luaD_pcall"
    BY <1>1, <1>2, <1>4, <2>1 DEF Elsewhere
  <2>2. CASE q.f # "luaD_pcall"
    BY <1>1, <1>2, <2>2 DEF Elsewhere
  <2> QED BY <2>1, <2>2
<1>6. Core(ds, status, ci, baseCcalls, nCcalls', ef)
  <2>1. Frames(q) = 0 /\ q.f # "lua_resume"
    BY DEF Frames
  <2>2. Extends(ci[L], q, ci[L])
    BY <1>1, <2>1, ExtendsNone
  <2>3. nCcalls'[L] = nCcalls'[L] - IF q.f = "luaD_call" THEN 1 ELSE 0
    <3>1. nCcalls'[L] \in Nat
      BY <1>1, <1>3
    <3>2. nCcalls'[L] = nCcalls'[L] - 0
      BY <3>1, Same, Zenon
    <3>3. q.f # "luaD_call"
      OBVIOUS
    <3> QED BY <3>2, <3>3, Zenon
  <2>4. Elsewhere(L, ci, ci) /\ Elsewhere(L, nCcalls', nCcalls')
    BY DEF Elsewhere
  <2>5. Core(Cut(low, Len(low) - 1), status, ci, baseCcalls, nCcalls', ef)
    <3> HIDE DEF low, n
    <3>1. status[q.th] = "ok" /\ Elsewhere(q.th, ci, ci) /\ Elsewhere(q.th, nCcalls', nCcalls')
          /\ Elsewhere(q.th, errfunc, ef) /\ Len(ci[q.th]) \in Nat /\ Extends(ci[q.th], q, ci[q.th])
      BY <1>1, <1>3, <1>5, <2>2, <2>4
    <3>2. /\ nCcalls'[q.th] = nCcalls'[q.th] - IF q.f = "luaD_call" THEN 1 ELSE 0
          /\ ef[q.th] = IF q.f = "luaD_pcall" THEN q.old_errfunc ELSE errfunc[q.th]
      BY <1>3, <1>5, <2>3, Zenon
    <3>3. q = low[Len(low)] /\ Len(low) > 1
      BY <1>3
    <3> QED BY <1>3, <2>1, <3>1, <3>2, <3>3, DropTop
  <2> QED BY <2>5, FrontCut
<1>7. /\ ds = Cut(cstack, n - 2) /\ n - 2 \in 1 .. n /\ ds[Len(ds)] = cstack[n - 2]
      /\ Len(ds) = n - 2
  BY <1>1, <1>3, CutCut
<1>8. cstack[n - 2].th = L /\ cstack[n - 2].f \in Under(q.f)
  <2>1. n - 1 \in 2 .. n /\ (n - 1) - 1 = n - 2
    BY <1>1, <1>3, StepDown, Zenon
  <2>2. Over(cstack[n - 2], q)
    BY <1>1, <2>1 DEF Shape
  <2> QED BY <1>3, <2>2 DEF Over
<1>9. Near(cstack, ds, L)
  <2>1. cstack[n - 2].th = cstack[n].th
    BY <1>1, <1>8
  <2>2. Near(cstack, Cut(cstack, n - 2), cstack[n - 2].th)
    BY <1>1, <1>7, <2>1, NearCut, Zenon
  <2> QED BY <1>7, <1>8, <2>2
<1>10. q.f = "luaG_errormsg" => Len(ds) > 1
  <2>1. ASSUME q.f = "luaG_errormsg"
        PROVE  n - 1 # 2
    <3>1. n - 1 \in 2 .. n
      BY <1>1, <1>3, StepDown, Zenon
    <3>2. n - 1 = 2 => cstack[n - 1].f = "luaD_pcall"
      BY <1>1, <3>1 DEF Shape
    <3> QED BY <2>1, <3>2
  <2>2. n - 1 # 2 => n - 2 > 1
    BY <1>1, <1>3, StepDown, Zenon
  <2> QED BY <1>7, <2>1, <2>2
<1> QED BY <1>5, <1>6, <1>7, <1>8, <1>9, <1>10

LEMMA ReturnFromCallInv ==
  ASSUME IInv, ReturnFromCall
  PROVE  IInv' /\ Near(cstack, cstack', L) /\ ThreadsKept
<1> DEFINE n == Len(cstack)
           q == cstack[n - 1]
<1>1. /\ raised = "no" /\ Top.f = "luaD_call" /\ nCcalls' = [nCcalls EXCEPT ![L] = @ - 1]
      /\ ThreadsKept /\ ci' = ci /\ size_ci' = size_ci /\ openup' = openup
  BY DEF ReturnFromCall, Doing, ThreadsKept, threadVars
<1>2. TypeOK
  BY DEF IInv
<1>3. /\ Core(Front(cstack), status, ci, baseCcalls, nCcalls', errfunc)
      /\ n > 2 /\ n - 1 \in 1 .. n /\ Front(cstack) \in Stack /\ Len(Front(cstack)) > 1
      /\ Last(Front(cstack)) = q /\ Front(cstack)[Len(Front(cstack))] = q
      /\ q.th = L /\ q.f \in Under("luaD_call")
      /\ nCcalls' \in [Thread -> Nat] /\ nCcalls'[L] <= nCcalls[L]
  BY <1>1, CallLeft
<1>4. /\ Shape(cstack) /\ cstack \in Stack /\ L = cstack[n].th /\ status[L] = "ok"
  BY <1>1, Running
<1>5. UpvaluesOnStack' /\ FramesFit' /\ Elsewhere(L, ci, ci')
  BY <1>1 DEF IInv, UpvaluesOnStack, FramesFit, Elsewhere
<1>6. \/ q.f = "luaD_pcall" /\ cstack' = Front(Front(cstack)) /\ raised' = "no"
         /\ errfunc' = [errfunc EXCEPT ![L] = q.old_errfunc]
      \/ q.f = "luaG_errormsg" /\ cstack' = Front(Front(cstack)) /\ raised' = "throw"
         /\ errfunc' = errfunc
      \/ q.f \in {"luaV_execute", "C function"} /\ cstack' = Front(cstack) /\ raised' = "no"
         /\ errfunc' = errfunc
  BY <1>1, <1>3 DEF ReturnFromCall
<1>7. CASE q.f \in {"luaD_pcall", "luaG_errormsg"}
  <2>1. /\ cstack' = Front(Front(cstack)) /\ raised' \in {"no", "throw"}
        /\ errfunc' = IF q.f = "luaD_pcall" THEN [errfunc EXCEPT ![L] = q.old_errfunc]
                      ELSE errfunc
        /\ raised' # "no" => q.f = "luaG_errormsg"
    BY <1>6, <1>7
  <2>2. /\ Core(cstack', status, ci, baseCcalls, nCcalls', errfunc')
        /\ Near(cstack, cstack', L) /\ errfunc' \in [Thread -> Handler]
        /\ cstack'[Len(cstack')].th = L /\ cstack'[Len(cstack')].f \in Under(q.f)
        /\ q.f = "luaG_errormsg" => Len(cstack') > 1
    BY <1>1, <1>7, <2>1, CallerLeft
  <2>3. Settled'
    BY <1>7, <2>1, <2>2 DEF Settled, Under
  <2>4. Reserve'
    BY <1>1, <1>3, <2>2, ReserveKept
  <2>5. Typed
    BY <1>1, <1>2, <1>3, <2>1, <2>2 DEF TypeOK, Typed
  <2>6. Core(cstack', status, ci', baseCcalls, nCcalls', errfunc')
    BY <1>1, <2>2
  <2> QED BY <1>1, <1>4, <1>5, <2>2, <2>3, <2>4, <2>5, <2>6, StepDone
<1>8. CASE q.f \in {"luaV_execute", "C function"}
  <2>1. cstack' = Front(cstack) /\ raised' = "no" /\ errfunc' = errfunc
    BY <1>6, <1>8
  <2>2. Core(cstack', status, ci', baseCcalls, nCcalls', errfunc') /\ cstack'[Len(cstack')] = q
    BY <1>1, <1>3, <2>1
  <2>3. Near(cstack, cstack', L)
    <3>1. q.th = cstack[n].th
      BY <1>3, <1>4
    <3>2. Near(cstack, Cut(cstack, n - 1), q.th)
      BY <1>3, <1>4, <3>1, NearCut, Zenon
    <3> QED BY <1>3, <2>1, <3>2, FrontCut
  <2>4. Settled'
    BY <1>8, <2>1, <2>2 DEF Settled
  <2>5. Reserve'
    BY <1>1, <1>3, <2>2, ReserveKept
  <2>6. Typed
    BY <1>1, <1>2, <1>3, <2>1 DEF TypeOK, Typed
  <2> QED BY <1>1, <1>4, <1>5, <2>2, <2>3, <2>4, <2>5, <2>6, StepDone
<1> QED BY <1>6, <1>7, <1>8

----------------------------------------------------------------------------
(* Errors. *)

LEMMA FailInv ==
  ASSUME IInv, Fail
  PROVE  IInv' /\ Near(cstack, cstack', L) /\ ThreadsKept
<1>1. raised = "no" /\ Top.f \in {"C function", "luaV_execute"}
      /\ (Top.f = "C function" => Len(cstack) > 1)
  BY DEF Fail, InFunction, Doing
<1>2. Core(cstack, status, ci, baseCcalls, nCcalls, errfunc) /\ TypeOK
  BY DEF IInv
<1>3. /\ Shape(cstack) /\ Top = cstack[Len(cstack)] /\ status[L] = "ok" /\ L \in Thread
  BY <1>1, Running
<1>4. Len(cstack) > 1
  BY <1>1, <1>3, AboveHost
<1>5. /\ ThreadsKept /\ ci' = ci /\ nCcalls' = nCcalls /\ errfunc' = errfunc /\ cstack' = cstack
      /\ size_ci' = size_ci /\ openup' = openup /\ raised' \in {"runerror", "throw"}
  BY DEF Fail, ThreadsKept, threadVars
<1>6. UpvaluesOnStack' /\ FramesFit' /\ Elsewhere(L, ci, ci')
  BY <1>5 DEF IInv, UpvaluesOnStack, FramesFit, Elsewhere
<1>7. Typed
  BY <1>2, <1>5 DEF TypeOK, Typed
<1>8. Settled' /\ Reserve' /\ Near(cstack, cstack', L)
  <2>1. Top.f \notin {"luaD_pcall", "luaG_errormsg"}
    BY <1>1
  <2> QED BY <1>1, <1>4, <1>5, <2>1, StackKept
<1>9. Core(cstack', status, ci', baseCcalls, nCcalls', errfunc')
  BY <1>2, <1>5
<1> QED BY <1>3, <1>5, <1>6, <1>7, <1>8, <1>9, StepDone

LEMMA luaG_errormsgInv ==
  ASSUME IInv, NEW kind \in FrameKind, luaG_errormsg(kind)
  PROVE  IInv' /\ Near(cstack, cstack', L) /\ ThreadsKept
<1> DEFINE r == ErrorMsg(L)
           cs == Append(cstack, r)
           n == Len(cstack)
<1>1. raised = "runerror" /\ Settled
  BY DEF luaG_errormsg, IInv
<1>2. Core(cstack, status, ci, baseCcalls, nCcalls, errfunc) /\ TypeOK
  BY DEF IInv
<1>3. /\ Shape(cstack) /\ Top = cstack[n] /\ L = cstack[n].th /\ n \in Nat
      /\ status[L] = "ok" /\ L \in Thread /\ cstack \in Stack /\ Top \in Record
      /\ ci[L] \in Seq(FrameKind) /\ Len(ci[L]) \in Nat /\ nCcalls[L] \in Nat
  BY <1>1, Running
<1>4. n > 1 /\ Top.f \notin {"luaD_pcall", "luaG_errormsg"}
  BY <1>1, <1>3 DEF Settled
<1>5. ThreadsKept /\ openup' = openup /\ errfunc' = errfunc
  BY DEF luaG_errormsg, ThreadsKept
<1>6. Near(cstack, cstack, L)
  BY <1>3, NearSelf
<1>7. CASE raised' = "throw" /\ UNCHANGED <<ci, size_ci, nCcalls, cstack>>
  <2>1. UpvaluesOnStack' /\ FramesFit' /\ Elsewhere(L, ci, ci')
    BY <1>5, <1>7 DEF IInv, UpvaluesOnStack, FramesFit, Elsewhere
  <2>2. Typed
    BY <1>2, <1>5, <1>7 DEF TypeOK, Typed
  <2>3. Settled' /\ Reserve' /\ Near(cstack, cstack', L)
    BY <1>3, <1>4, <1>6, <1>7 DEF IInv, Settled, Reserve
  <2>4. Core(cstack', status, ci', baseCcalls, nCcalls', errfunc')
    BY <1>2, <1>5, <1>7
  <2> QED BY <1>3, <1>5, <2>1, <2>2, <2>3, <2>4, StepDone
<1>8. CASE luaD_call(L, kind, cs)
  <2>1. r \in Record /\ r.th = L /\ r.f = "luaG_errormsg" /\ Frames(r) = 0
    <3>1. r \in Record
      BY <1>3, RecordTypes
    <3> QED BY <3>1 DEF ErrorMsg, Frames
  <2> HIDE DEF r
  <2>2. Over(cstack[n], r) /\ r.f \notin {"luaD_pcall", "lua_resume"} /\ r.f # "lua_resume"
    <3>1. Top.f \in Under("luaG_errormsg")
      <4>1. Top.f \in {"luaV_execute", "C function", "luaD_call", "luaG_errormsg", "lua_resume",
                       "luaD_pcall"}
        BY <1>3, RecordParts
      <4> QED BY <1>4, <4>1 DEF Under
    <3> QED BY <1>3, <2>1, <3>1 DEF Over
  <2>3. Core(cs, status, ci, baseCcalls, nCcalls, errfunc)
    <3>1. Extends(ci[L], r, ci[L])
      BY <1>3, <2>1, ExtendsNone
    <3>2. nCcalls[L] = nCcalls[L] + IF r.f = "luaD_call" THEN 1 ELSE 0
      <4>1. nCcalls[L] = nCcalls[L] + 0
        BY <1>3, Same, Zenon
      <4>2. r.f # "luaD_call"
        BY <2>1
      <4> QED BY <4>1, <4>2, Zenon
    <3>3. Elsewhere(L, ci, ci) /\ Elsewhere(L, nCcalls, nCcalls)
      BY DEF Elsewhere
    <3> QED BY <1>2, <1>3, <1>4, <2>1, <2>2, <3>1, <3>2, <3>3, PushSame
  <2>4. Len(cs) > 1 /\ cs[Len(cs)] = r
    <3>1. Len(cs) = n + 1 /\ cs[Len(cs)] = r
      BY <1>3, <2>1, PushParts
    <3>2. n + 1 > 1
      BY <1>3, <1>4, OneUp, Zenon
    <3> QED BY <3>1, <3>2, Zenon
  <2>5. Near(cstack, cs, L)
    BY <1>3, <1>6, <2>1, <2>2, NearPush, Zenon
  <2>6. cs[Len(cs)].th = L /\ cs[Len(cs)].f \in Under("luaD_call") /\ raised # "throw"
    BY <1>1, <2>1, <2>4 DEF Under
  <2> HIDE DEF cs
  <2>7. /\ Core(cstack', status, ci', baseCcalls, nCcalls', errfunc)
        /\ Settled' /\ Reserve' /\ FramesFit' /\ Grows
        /\ ci' \in [Thread -> Seq(FrameKind)] /\ size_ci' \in [Thread -> Nat]
        /\ nCcalls' \in [Thread -> Nat] /\ raised' \in {"no", "runerror", "throw"}
        /\ Near(cstack, cstack', L) /\ Elsewhere(L, ci, ci')
    BY <1>3, <1>8, <2>3, <2>4, <2>5, <2>6, CallDone
  <2>8. UpvaluesOnStack'
    BY <1>5, <2>7, UpvaluesGrow
  <2>9. Typed
    BY <1>2, <1>5, <2>7 DEF TypeOK, Typed
  <2>10. Core(cstack', status, ci', baseCcalls, nCcalls', errfunc')
    BY <1>5, <2>7
  <2> QED BY <1>3, <1>5, <2>7, <2>8, <2>9, <2>10, StepDone
<1> QED BY <1>7, <1>8 DEF luaG_errormsg

(* luaD_throw jumps to the innermost protected call or resumption, which is  *)
(* the running thread's.                                                     *)
LEMMA Thrown ==
  ASSUME IInv, raised # "no"
  PROVE  CatchesAt(cstack, L, errorJmp)
<1> DEFINE n == Len(cstack)
           P(i) == /\ cstack[i].th = L /\ cstack[i].f \in {"luaD_pcall", "lua_resume"}
                   /\ \A j \in i + 1 .. n :
                        ~(cstack[j].th = L /\ cstack[j].f \in {"luaD_pcall", "lua_resume"})
<1>1. Shape(cstack) /\ L = cstack[n].th /\ n \in Nat /\ cstack \in Stack
  BY Running
<1>2. n > 1
  BY DEF IInv, Settled
<1>3. PICK e \in 2 .. n : CatchesAt(cstack, L, e)
  BY <1>1, <1>2, Catcher
<1>4. DOMAIN cstack = 1 .. n
  BY <1>1, StackParts
<1>5. P(e) /\ e \in DOMAIN cstack
  <2>1. e \in DOMAIN cstack
    BY <1>3, <1>4
  <2> QED BY <1>3, <2>1 DEF CatchesAt, Boundary
<1>6. errorJmp = CHOOSE i \in DOMAIN cstack : P(i)
  BY DEF errorJmp
<1> HIDE DEF P
<1>7. errorJmp \in DOMAIN cstack /\ P(errorJmp)
  BY <1>5, <1>6
<1>8. errorJmp = e
  <2> HIDE DEF n
  <2>1. errorJmp < e \/ errorJmp = e \/ e < errorJmp
    BY <1>1, <1>3, <1>4, <1>7
  <2>2. errorJmp < e => e \in errorJmp + 1 .. n
    BY <1>1, <1>3, <1>4, <1>7
  <2>3. e < errorJmp => errorJmp \in e + 1 .. n
    BY <1>1, <1>3, <1>4, <1>7
  <2> QED BY <1>5, <1>7, <2>1, <2>2, <2>3 DEF P
<1> QED BY <1>3, <1>8

LEMMA Within ==
  ASSUME NEW n \in Nat, NEW e \in 2 .. n
  PROVE  /\ e \in Nat /\ e \in 1 .. n /\ e - 1 \in 1 .. n /\ e - 1 \in 0 .. n /\ e - 1 \in Nat
         /\ (e - 1) + 1 = e /\ e \in (e - 1) + 1 .. n /\ e \in e .. n
         /\ e - 1 \in 0 .. e /\ e \in 0 .. n
         /\ \A i \in (e - 1) + 1 .. n : i \in e .. n
         /\ e # n => e + 1 \in 2 .. n /\ e + 1 \in (e - 1) + 1 .. n /\ (e + 1) - 1 = e
OBVIOUS

LEMMA CaughtParts ==
  ASSUME IInv, raised = "throw"
  PROVE  /\ errorJmp \in 2 .. Len(cstack) /\ Len(cstack) \in Nat
         /\ cstack[errorJmp].th = L /\ cstack[errorJmp] \in Record
         /\ OnlyOf(cstack, errorJmp - 1, L)
         /\ Over(cstack[errorJmp - 1], cstack[errorJmp])
         /\ cstack[errorJmp].f \in {"luaD_pcall", "lua_resume"}
         /\ cstack[errorJmp - 1].f = "C function"
         /\ cstack' = SubSeq(cstack, 1, errorJmp - 1) =>
              /\ cstack' = Cut(cstack, errorJmp - 1) /\ cstack' \in Stack
              /\ cstack'[Len(cstack')] = cstack[errorJmp - 1]
              /\ Len(cstack') = errorJmp - 1
<1> DEFINE n == Len(cstack)
           e == errorJmp
<1>1. CatchesAt(cstack, L, e)
  BY Thrown
<1>2. Shape(cstack) /\ n \in Nat /\ cstack \in Stack
  BY Running
<1> HIDE DEF n, e
<1>3. /\ e \in 2 .. n /\ cstack[e].th = L /\ cstack[e].f \in {"luaD_pcall", "lua_resume"}
      /\ \A j \in e .. n : cstack[j].th = L
  BY <1>1 DEF CatchesAt, Boundary, n
<1>4. /\ e \in 1 .. n /\ e - 1 \in 0 .. n /\ \A i \in (e - 1) + 1 .. n : i \in e .. n
  BY <1>2, <1>3, Within
<1>5. cstack[e] \in Record
  BY <1>2, <1>4, StackParts DEF n
<1>6. OnlyOf(cstack, e - 1, L)
  BY <1>3, <1>4 DEF OnlyOf, n
<1>7. Over(cstack[e - 1], cstack[e])
  BY <1>2, <1>3 DEF Shape, n
<1>8. cstack[e - 1].f = "C function"
  BY <1>3, <1>7 DEF Over, Under
<1>9. ASSUME cstack' = SubSeq(cstack, 1, e - 1)
      PROVE  /\ cstack' = Cut(cstack, e - 1) /\ cstack' \in Stack
             /\ cstack'[Len(cstack')] = cstack[e - 1] /\ Len(cstack') = e - 1
  <2>1. cstack' = Cut(cstack, e - 1)
    BY <1>9 DEF Cut
  <2>2. e - 1 \in 1 .. e - 1
    BY <1>3
  <2>3. /\ Cut(cstack, e - 1) \in Stack /\ Len(Cut(cstack, e - 1)) = e - 1
        /\ \A i \in 1 .. e - 1 : Cut(cstack, e - 1)[i] = cstack[i]
    BY <1>2, <1>4, CutParts DEF n
  <2> QED BY <2>1, <2>2, <2>3
<1> QED BY <1>2, <1>3, <1>5, <1>6, <1>7, <1>8, <1>9 DEF n, e

(* luaD_pcall goes back to what it saved. *)
LEMMA SavedParts ==
  ASSUME IInv, raised = "throw", cstack[errorJmp].f = "luaD_pcall"
  PROVE  LET saved == cstack[errorJmp]
             m == errorJmp - 1
         IN
         /\ saved.oldnCcalls = CallsTo(cstack, m) /\ saved.oldnCcalls \in Nat
         /\ saved.oldnCcalls + 1 <= CallsTo(cstack, Len(cstack))
         /\ saved.old_ci = FramesTo(cstack, L, m) /\ saved.old_ci \in Nat
         /\ saved.old_ci <= Len(ci[L])
         /\ HandlerAt(cstack, L, m, saved.old_errfunc) /\ saved.old_errfunc \in Handler
         /\ cstack[m].th = L /\ cstack[m].f = "C function"
<1> DEFINE n == Len(cstack)
           e == errorJmp
           saved == cstack[e]
<1>1. /\ e \in 2 .. n /\ n \in Nat /\ saved.th = L /\ saved \in Record
      /\ Over(cstack[e - 1], saved) /\ cstack[e - 1].f = "C function"
  BY CaughtParts
<1>2. /\ Shape(cstack) /\ cstack \in Stack /\ Top = cstack[n] /\ status[L] = "ok"
      /\ Owned(cstack, L, ci[L])
  BY Running
<1>3. Saved(cstack) /\ Settled
  BY DEF IInv, Core
<1>4. cstack[e - 1].th = L
  BY <1>1 DEF Over
<1> HIDE DEF e, n
<1>5. /\ e \in Nat /\ e \in 1 .. n /\ e - 1 \in 1 .. n /\ e - 1 \in 0 .. n /\ e - 1 \in Nat
      /\ e # n => e + 1 \in 2 .. n /\ e + 1 \in (e - 1) + 1 .. n /\ (e + 1) - 1 = e
  BY <1>1, Within, Zenon
<1>6. SavedBy(cstack, saved, e - 1)
  BY <1>3, <1>5 DEF Saved, n
<1>7. /\ saved.oldnCcalls = CallsTo(cstack, e - 1) /\ saved.old_ci = FramesTo(cstack, L, e - 1)
      /\ HandlerAt(cstack, L, e - 1, saved.old_errfunc)
  BY <1>1, <1>6 DEF SavedBy, e
<1>8. /\ saved.old_errfunc \in Handler /\ saved.oldnCcalls \in Nat /\ saved.old_ci \in Nat
  BY <1>1, RecordParts DEF e
<1>9. saved.old_ci <= Len(ci[L])
  <2>1. Len(ci[L]) = FramesTo(cstack, L, n)
    BY <1>2 DEF Owned, n
  <2>0. n \in 0 .. n /\ e - 1 \in 0 .. n
    BY <1>1, <1>5, Same, Zenon
  <2>2. n \in 0 .. Len(cstack) /\ e - 1 \in 0 .. n
    BY <2>0 DEF n
  <2>3. FramesTo(cstack, L, e - 1) <= FramesTo(cstack, L, n)
    BY <1>2, <2>2, FramesMono
  <2> QED BY <1>7, <2>1, <2>3
<1>10. saved.oldnCcalls + 1 <= CallsTo(cstack, n)
  <2>1. e # n
    BY <1>3 DEF Settled, n, e
  <2>2. Over(cstack[e], cstack[e + 1])
    BY <1>2, <1>5, <2>1 DEF Shape, n
  <2>3. cstack[e + 1].f = "luaD_call"
    <3>1. cstack[e].f = "luaD_pcall"
      BY DEF e
    <3> DEFINE q == cstack[e + 1]
    <3>2. q \in Record
      BY <1>2, <1>5, <2>1, StackParts, AtLeastTwo DEF n
    <3> HIDE DEF q
    <3>3. q.f \in {"luaV_execute", "C function", "luaD_call", "luaG_errormsg", "lua_resume",
                   "luaD_pcall"}
      BY <3>2, RecordParts
    <3>4. "luaD_pcall" \in Under(q.f)
      BY <2>2, <3>1 DEF Over, q
    <3>5. q.f = "luaD_call"
      BY <3>3, <3>4 DEF Under
    <3> QED BY <3>5 DEF q
  <2>4. CallsTo(cstack, e - 1) + 1 <= CallsTo(cstack, n)
    BY <1>1, <1>5, <2>1, <2>3, CallsStrict
  <2> QED BY <1>7, <2>4
<1> QED BY <1>1, <1>4, <1>7, <1>8, <1>9, <1>10 DEF e, n

LEMMA DepthBound ==
  ASSUME IInv
  PROVE  /\ CallsTo(cstack, Len(cstack)) <= MaxCalls /\ CallsTo(cstack, Len(cstack)) \in Nat
         /\ MaxCalls \in Nat
<1>1. Len(cstack) \in Nat
  BY Running
<1>2. CallsTo(cstack, Len(cstack)) \in Nat
  BY <1>1, CallsNat
<1>3. CallsTo(cstack, Len(cstack)) <= MaxCalls
  BY DEF IInv, Reserve
<1>4. MaxCalls \in Nat
  BY LimitAssumption DEF MaxCalls
<1> QED BY <1>2, <1>3, <1>4

LEMMA CatchInPcallInv ==
  ASSUME IInv, CatchInPcall
  PROVE  IInv' /\ Near(cstack, cstack', L) /\ ThreadsKept
<1> DEFINE n == Len(cstack)
           m == errorJmp - 1
           saved == cstack[errorJmp]
           frames == SubSeq(ci[L], 1, saved.old_ci)
<1>1. raised = "throw" /\ saved.f = "luaD_pcall"
  BY DEF CatchInPcall
<1>2. /\ cstack' = Cut(cstack, m) /\ cstack' \in Stack /\ cstack'[Len(cstack')] = cstack[m]
      /\ Len(cstack') = m /\ OnlyOf(cstack, m, L) /\ errorJmp \in 2 .. n /\ n \in Nat
  BY <1>1, CaughtParts DEF CatchInPcall
<1>3. /\ saved.oldnCcalls = CallsTo(cstack, m) /\ saved.oldnCcalls \in Nat
      /\ saved.oldnCcalls + 1 <= CallsTo(cstack, n)
      /\ saved.old_ci = FramesTo(cstack, L, m) /\ saved.old_ci \in Nat
      /\ saved.old_ci <= Len(ci[L])
      /\ HandlerAt(cstack, L, m, saved.old_errfunc) /\ saved.old_errfunc \in Handler
      /\ cstack[m].th = L /\ cstack[m].f = "C function"
  BY <1>1, SavedParts
<1>4. /\ Shape(cstack) /\ cstack \in Stack /\ L \in Thread /\ L = cstack[n].th
      /\ status[L] = "ok" /\ Owned(cstack, L, ci[L]) /\ ci[L] \in Seq(FrameKind)
      /\ Len(ci[L]) \in Nat
  BY <1>1, Running
<1>5. Core(cstack, status, ci, baseCcalls, nCcalls, errfunc) /\ TypeOK
  BY DEF IInv
<1>6. /\ nCcalls' = [nCcalls EXCEPT ![L] = saved.oldnCcalls]
      /\ errfunc' = [errfunc EXCEPT ![L] = saved.old_errfunc]
      /\ ci' = [ci EXCEPT ![L] = frames]
      /\ size_ci' = [size_ci EXCEPT ![L] = restore_stack_limit(@, saved.old_ci)]
      /\ openup' = [openup EXCEPT ![L] = openup[L] \cap 1 .. saved.old_ci]
      /\ raised' = "no" /\ ThreadsKept
  BY DEF CatchInPcall, ThreadsKept, RestoredFrames, ClosedAbove
<1>7. m \in 1 .. n /\ m \in 0 .. n
  BY <1>2, Within, Zenon
<1>8. /\ frames \in Seq(FrameKind) /\ Len(frames) = saved.old_ci
      /\ \A k \in 1 .. saved.old_ci : frames[k] = ci[L][k] /\ k \in 1 .. Len(ci[L])
  BY <1>3, <1>4, FirstFrames
<1>9. /\ ci' \in [Thread -> Seq(FrameKind)] /\ ci'[L] = frames /\ Elsewhere(L, ci, ci')
      /\ nCcalls' \in [Thread -> Nat] /\ nCcalls'[L] = saved.oldnCcalls
      /\ Elsewhere(L, nCcalls, nCcalls')
      /\ errfunc' \in [Thread -> Handler] /\ errfunc'[L] = saved.old_errfunc
      /\ Elsewhere(L, errfunc, errfunc')
  BY <1>3, <1>4, <1>5, <1>6, <1>8 DEF TypeOK, Elsewhere
<1> HIDE DEF saved, frames, m, n
<1>10. Owned(Cut(cstack, m), L, frames)
  BY <1>3, <1>4, <1>7, <1>8, OwnedCut DEF n
<1>11. Fits(Cut(cstack, m), L, status[L], ci'[L], nCcalls'[L], errfunc'[L])
  <2>1. status[L] # "error"
    BY <1>4
  <2> QED BY <1>3, <1>4, <1>7, <1>9, <1>10, <2>1, FitsStays DEF n
<1>12. Core(Cut(cstack, m), status, ci', baseCcalls, nCcalls', errfunc')
  <2>1. Elsewhere(L, status, status)
    BY DEF Elsewhere
  <2> QED BY <1>2, <1>5, <1>7, <1>9, <1>11, <2>1, CoreCut DEF n
<1>13. Near(cstack, cstack', L)
  <2>1. cstack[m].th = cstack[Len(cstack)].th
    BY <1>3, <1>4 DEF n
  <2>2. Near(cstack, Cut(cstack, m), cstack[m].th)
    BY <1>4, <1>7, <2>1, NearCut, Zenon DEF n
  <2> QED BY <1>2, <1>3, <2>2
<1>14. Settled'
  BY <1>2, <1>3, <1>6 DEF Settled
<1>15. Reserve'
  <2>1. CallsTo(cstack', Len(cstack')) = saved.oldnCcalls
    BY <1>2, <1>3, <1>4, <1>7, CallsCut DEF n
  <2>2. CallsTo(cstack, n) <= MaxCalls /\ CallsTo(cstack, n) \in Nat /\ MaxCalls \in Nat
    BY DepthBound DEF n
  <2>3. saved.oldnCcalls < MaxCalls /\ saved.oldnCcalls <= MaxCalls
    BY <1>3, <2>2, Room, Zenon
  <2> QED BY <2>1, <2>3 DEF Reserve
<1>16. openup' \in [Thread -> SUBSET Nat] /\ UpvaluesOnStack'
  <2>1. /\ openup' \in [Thread -> SUBSET Nat]
        /\ openup'[L] = openup[L] \cap 1 .. saved.old_ci
        /\ \A t \in Thread \ {L} : openup'[t] = openup[t]
    BY <1>4, <1>5, <1>6 DEF TypeOK
  <2>2. ASSUME NEW t \in Thread, NEW k \in openup'[t]
        PROVE  k \in DOMAIN ci'[t] /\ ci'[t][k] = "Lua"
    <3>1. k \in openup[t]
      BY <2>1
    <3>2. k \in DOMAIN ci[t] /\ ci[t][k] = "Lua"
      BY <3>1 DEF IInv, UpvaluesOnStack
    <3>3. CASE t # L
      BY <1>9, <3>2, <3>3 DEF Elsewhere
    <3>4. CASE t = L
      <4>1. k \in 1 .. saved.old_ci
        BY <2>1, <3>4
      <4>2. DOMAIN frames = 1 .. saved.old_ci
        BY <1>8, LenProperties
      <4> QED BY <1>8, <1>9, <3>2, <3>4, <4>1, <4>2
    <3> QED BY <3>3, <3>4
  <2> QED BY <2>1, <2>2 DEF UpvaluesOnStack
<1>17. size_ci' \in [Thread -> Nat] /\ FramesFit'
  <2> DEFINE old == saved.old_ci
             s == size_ci[L]
             new == restore_stack_limit(s, old)
  <2>1. size_ci \in [Thread -> Nat] /\ s \in Nat /\ \A t \in Thread : Len(ci[t]) + 1 <= size_ci[t]
    BY <1>4, <1>5 DEF TypeOK, IInv, FramesFit
  <2>2. size_ci' = [size_ci EXCEPT ![L] = new]
    BY <1>6
  <2>3. new \in Nat /\ old + 1 <= new
    <3>1. new = IF s > LUAI_MAXCALLS /\ old + 1 < LUAI_MAXCALLS THEN LUAI_MAXCALLS ELSE s
      BY DEF restore_stack_limit
    <3>2. LUAI_MAXCALLS \in Nat /\ old \in Nat /\ old <= Len(ci[L]) /\ Len(ci[L]) + 1 <= s
          /\ Len(ci[L]) \in Nat /\ s \in Nat
      BY <1>3, <1>4, <2>1, LimitAssumption
    <3> HIDE DEF new, old, s
    <3> QED BY <3>1, <3>2
  <2> HIDE DEF new
  <2>4. size_ci' \in [Thread -> Nat] /\ size_ci'[L] = new
        /\ \A t \in Thread \ {L} : size_ci'[t] = size_ci[t]
    BY <1>4, <2>1, <2>2, <2>3
  <2>5. Len(ci'[L]) = old
    BY <1>8, <1>9
  <2> HIDE DEF old
  <2>6. ASSUME NEW t \in Thread
        PROVE  Len(ci'[t]) + 1 <= size_ci'[t]
    <3>1. CASE t = L
      BY <2>3, <2>4, <2>5, <3>1
    <3>2. CASE t # L
      BY <1>9, <2>1, <2>4, <3>2 DEF Elsewhere
    <3> QED BY <3>1, <3>2
  <2> QED BY <2>4, <2>6 DEF FramesFit
<1>18. Typed
  BY <1>6, <1>9, <1>16, <1>17 DEF Typed
<1>19. Core(cstack', status, ci', baseCcalls, nCcalls', errfunc')
  BY <1>2, <1>12
<1> QED BY <1>4, <1>6, <1>9, <1>13, <1>14, <1>15, <1>16, <1>17, <1>18, <1>19, StepDone

----------------------------------------------------------------------------
(* Coroutines. *)

(* The running coroutine leaves the stack of its resumption.                 *)
LEMMA Alone ==
  ASSUME NEW cs, Shape(cs), NEW e \in 2 .. Len(cs), cs[e].f = "lua_resume"
  PROVE  /\ ~In(Cut(cs, e - 1), cs[e].th) /\ cs[e - 1].th # cs[e].th
         /\ cs[e - 1].f = "C function"
<1> DEFINE n == Len(cs)
           m == e - 1
<1>1. n \in Nat /\ cs \in Stack /\ Together(cs) /\ e \in 2 .. n
  BY ShapeParts DEF Shape
<1>2. /\ e \in 1 .. n /\ m \in 1 .. n /\ m \in 0 .. n /\ m \in Nat
  BY <1>1, Within, Zenon
<1>3. \A i \in 1 .. m : i \in 1 .. n /\ i < e /\ e \in i + 1 .. e
  <2> HIDE DEF n
  <2> QED BY <1>1
<1>4. ASSUME NEW i \in 1 .. m
      PROVE  cs[i].th # cs[e].th
  <2> HIDE DEF m
  <2>1. i \in 1 .. n /\ e \in 1 .. n /\ i < e /\ e \in i + 1 .. e
    BY <1>2, <1>3
  <2>2. cs[i].th = cs[e].th => \A k \in i + 1 .. e : cs[k].f # "lua_resume"
    BY <1>1, <2>1, Zenon DEF Together
  <2> QED BY <2>1, <2>2
<1>5. Len(Cut(cs, m)) = m /\ \A i \in 1 .. m : Cut(cs, m)[i] = cs[i]
  BY <1>1, <1>2, CutParts
<1>6. ~In(Cut(cs, m), cs[e].th)
  BY <1>4, <1>5 DEF In
<1>7. Over(cs[m], cs[e])
  BY <1>1 DEF Shape
<1>8. cs[m].f = "C function"
  BY <1>7 DEF Over, Under
<1>9. m \in 1 .. m
  BY <1>1
<1> QED BY <1>4, <1>6, <1>8, <1>9

(* The threads of the calls below are threads of the stack. *)
LEMMA CutIn ==
  ASSUME NEW cs \in Stack, NEW m \in 0 .. Len(cs), NEW t, In(Cut(cs, m), t)
  PROVE  In(cs, t)
<1>1. Len(Cut(cs, m)) = m /\ \A i \in 1 .. m : Cut(cs, m)[i] = cs[i]
  BY CutParts
<1>2. PICK i \in 1 .. m : cs[i].th = t
  BY <1>1 DEF In
<1>3. Len(cs) \in Nat
  BY StackParts
<1>4. i \in 1 .. Len(cs)
  BY <1>2, <1>3
<1> QED BY <1>2, <1>4 DEF In

LEMMA CatchInResumeInv ==
  ASSUME IInv, CatchInResume
  PROVE  IInv'
<1> DEFINE n == Len(cstack)
           e == errorJmp
           m == e - 1
<1>1. raised = "throw" /\ cstack[e].f = "lua_resume"
  BY DEF CatchInResume
<1>2. /\ cstack' = Cut(cstack, m) /\ cstack' \in Stack /\ cstack'[Len(cstack')] = cstack[m]
      /\ Len(cstack') = m /\ OnlyOf(cstack, m, L) /\ e \in 2 .. n /\ n \in Nat
      /\ cstack[e].th = L /\ cstack[m].f = "C function"
  BY <1>1, CaughtParts DEF CatchInResume
<1>3. /\ Shape(cstack) /\ cstack \in Stack /\ L \in Thread /\ L \in created
      /\ nCcalls[L] = CallsTo(cstack, n) /\ nCcalls[L] \in Nat
  BY <1>1, Running
<1>4. Core(cstack, status, ci, baseCcalls, nCcalls, errfunc) /\ TypeOK
  BY DEF IInv
<1>5. /\ status' = [status EXCEPT ![L] = "error"] /\ nCcalls' = [nCcalls EXCEPT ![L] = @ - 1]
      /\ raised' = "no" /\ created' = created /\ ci' = ci /\ size_ci' = size_ci
      /\ openup' = openup /\ pending' = pending /\ baseCcalls' = baseCcalls
      /\ errfunc' = errfunc
  BY DEF CatchInResume
<1>6. m \in 1 .. n /\ m \in 0 .. n /\ e \in m + 1 .. n /\ m \in Nat
  BY <1>2, Within, Zenon
<1>7. ~In(Cut(cstack, m), L)
  BY <1>1, <1>2, <1>3, Alone
<1> HIDE DEF m, n, e
<1>8. CallsTo(cstack, m) + 1 <= CallsTo(cstack, n) /\ CallsTo(cstack, m) \in Nat
  <2>1. cstack[e].f \in {"luaD_call", "lua_resume"}
    BY <1>1
  <2> QED BY <1>2, <1>6, <2>1, CallsStrict, CallsNat
<1>9. /\ nCcalls' \in [Thread -> Nat] /\ Elsewhere(L, nCcalls, nCcalls')
  <2>1. nCcalls[L] - 1 \in Nat
    BY <1>3, <1>8
  <2> QED BY <1>4, <1>5, <2>1 DEF TypeOK, Elsewhere
<1>10. /\ status' \in [Thread -> {"ok", "yield", "error"}] /\ status'[L] = "error"
       /\ Elsewhere(L, status, status')
  BY <1>3, <1>4, <1>5 DEF TypeOK, Elsewhere
<1>11. Core(cstack', status', ci', baseCcalls', nCcalls', errfunc')
  <2>1. Fits(Cut(cstack, m), L, status'[L], ci[L], nCcalls'[L], errfunc[L])
    BY <1>3, <1>6, <1>7, <1>10, FitsGone DEF n
  <2>2. Elsewhere(L, ci, ci) /\ Elsewhere(L, errfunc, errfunc)
    BY DEF Elsewhere
  <2>3. Core(Cut(cstack, m), status', ci, baseCcalls, nCcalls', errfunc)
    BY <1>2, <1>4, <1>6, <1>9, <1>10, <2>1, <2>2, CoreCut DEF n
  <2> QED BY <1>2, <1>5, <2>3
<1>12. TypeOK'
  BY <1>2, <1>4, <1>5, <1>9, <1>10 DEF TypeOK, Stack
<1>13. Settled'
  BY <1>2, <1>5 DEF Settled
<1>14. Reserve'
  <2>1. CallsTo(cstack', Len(cstack')) = CallsTo(cstack, m)
    BY <1>2, <1>3, <1>6, CallsCut DEF n
  <2>2. CallsTo(cstack, n) <= MaxCalls /\ CallsTo(cstack, n) \in Nat /\ MaxCalls \in Nat
    BY DepthBound DEF n
  <2>3. CallsTo(cstack, m) < MaxCalls /\ CallsTo(cstack, m) <= MaxCalls
    BY <1>8, <2>2, Room, Zenon
  <2> QED BY <2>1, <2>3 DEF Reserve
<1>15. States'
  <2>1. States
    BY DEF IInv
  <2>2. \A t : In(cstack', t) => In(cstack, t)
    BY <1>2, <1>3, <1>6, CutIn DEF n
  <2>3. \A t \in Thread : status'[t] # "error" => status'[t] = status[t]
    BY <1>10 DEF Elsewhere
  <2>4. ASSUME NEW t \in Thread, status'[t] = "yield"
        PROVE  Yielded(ci'[t]) /\ ~In(cstack', t)
    <3>1. status[t] = "yield"
      BY <2>3, <2>4
    <3> QED BY <1>1, <1>5, <2>1, <2>2, <3>1 DEF States
  <2>5. \A t \in Thread \ created' : status'[t] = "ok"
    BY <1>3, <1>5, <1>10, <2>1 DEF States, Elsewhere
  <2> QED BY <1>5, <2>1, <2>2, <2>4, <2>5 DEF States
<1>16. UpvaluesOnStack' /\ FramesFit'
  BY <1>5 DEF IInv, UpvaluesOnStack, FramesFit
<1> QED BY <1>11, <1>12, <1>13, <1>14, <1>15, <1>16 DEF IInv

LEMMA luaB_cocreateInv ==
  ASSUME IInv, NEW co \in Thread, luaB_cocreate(co)
  PROVE  IInv'
<1>1. /\ created' = created \cup {co} /\ pending' = [pending EXCEPT ![co] = TRUE]
      /\ status' = status /\ ci' = ci /\ size_ci' = size_ci /\ openup' = openup
      /\ nCcalls' = nCcalls /\ baseCcalls' = baseCcalls /\ errfunc' = errfunc
      /\ cstack' = cstack /\ raised' = raised
  BY DEF luaB_cocreate, threadVars
<1>2. Core(cstack, status, ci, baseCcalls, nCcalls, errfunc) /\ TypeOK
  BY DEF IInv
<1>3. Core(cstack', status', ci', baseCcalls', nCcalls', errfunc')
  BY <1>1, <1>2
<1>4. TypeOK'
  BY <1>1, <1>2 DEF TypeOK
<1>5. Settled' /\ Reserve' /\ UpvaluesOnStack' /\ FramesFit'
  BY <1>1 DEF IInv, Settled, Reserve, UpvaluesOnStack, FramesFit
<1>6. States'
  <2>1. States
    BY DEF IInv
  <2>2. \A t : In(cstack', t) <=> In(cstack, t)
    BY <1>1
  <2> QED BY <1>1, <2>1, <2>2 DEF States
<1> QED BY <1>3, <1>4, <1>5, <1>6 DEF IInv

(* A suspended coroutine has nothing on the C stack. *)
LEMMA SuspendedOut ==
  ASSUME IInv, raised = "no", Top.f = "C function", NEW co \in Thread,
         costatus(L, co) = "suspended"
  PROVE  /\ co # L /\ ~In(cstack, co) /\ status[co] \in {"ok", "yield"}
         /\ status[co] = "ok" => ci[co] = <<>> /\ pending[co]
<1>1. co # L
  BY DEF costatus
<1>2. status[co] \in {"ok", "yield"} /\ (status[co] = "ok" => ci[co] = <<>> /\ pending[co])
  <2>1. status[co] \in {"ok", "yield", "error"}
    BY DEF IInv, TypeOK
  <2>2. CASE status[co] = "yield"
    BY <2>2
  <2>3. CASE status[co] = "ok"
    BY <1>1, <2>3 DEF costatus
  <2>4. CASE status[co] = "error"
    BY <1>1, <2>4 DEF costatus
  <2> QED BY <2>1, <2>2, <2>3, <2>4
<1>3. /\ Shape(cstack) /\ L = cstack[Len(cstack)].th /\ Top = cstack[Len(cstack)]
  BY Running
<1>4. CASE status[co] = "yield"
  <2>1. In(cstack, co) => Top = Resume(co)
    BY <1>3, <1>4 DEF IInv, States
  <2>2. Resume(co).f = "lua_resume"
    BY DEF Resume
  <2>3. ~In(cstack, co)
    BY <2>1, <2>2
  <2> QED BY <1>1, <1>2, <2>3
<1>5. CASE status[co] = "ok"
  <2>1. Owned(cstack, co, ci[co])
    BY <1>5 DEF IInv, Core, Fits
  <2>2. In(cstack, co) => Len(ci[co]) > 0
    BY <1>1, <1>3, <2>1, Normal
  <2>3. ~(Len(<<>>) > 0)
    BY NoFrames, Zenon
  <2> QED BY <1>1, <1>2, <1>5, <2>2, <2>3, Zenon
<1> QED BY <1>2, <1>4, <1>5

(* The call depth of a thread without calls matters to nobody. *)
LEMMA CoreOut ==
  ASSUME NEW cs, NEW st, NEW c, NEW base, NEW calls, NEW ef, Core(cs, st, c, base, calls, ef),
         NEW co, ~In(cs, co), NEW calls2, Elsewhere(co, calls, calls2)
  PROVE  Core(cs, st, c, base, calls2, ef)
<1>1. ASSUME NEW t \in Thread
      PROVE  Fits(cs, t, st[t], c[t], calls2[t], ef[t])
  <2>1. Fits(cs, t, st[t], c[t], calls[t], ef[t])
    BY DEF Core
  <2>2. CASE t = co
    <3>1. \A i \in 1 .. Len(cs) : ~LastOf(cs, t, i)
      BY <2>2 DEF LastOf, In
    <3> QED BY <2>1, <3>1 DEF Fits
  <2>3. CASE t # co
    BY <2>1, <2>3 DEF Elsewhere
  <2> QED BY <2>2, <2>3
<1> QED BY <1>1 DEF Core

LEMMA ResumeErrorInv ==
  ASSUME IInv, NEW co \in Thread, ResumeError(co)
  PROVE  IInv'
<1>1. raised = "no" /\ Top.f = "C function" /\ costatus(L, co) = "suspended"
  BY DEF ResumeError, InFunction, Doing
<1>2. /\ nCcalls' = [nCcalls EXCEPT ![co] = nCcalls[L]] /\ pending' = [pending EXCEPT ![co] = FALSE]
      /\ status' = status /\ ci' = ci /\ size_ci' = size_ci /\ openup' = openup
      /\ created' = created /\ baseCcalls' = baseCcalls /\ errfunc' = errfunc
      /\ cstack' = cstack /\ raised' = raised
  BY DEF ResumeError, threadVars
<1>3. Core(cstack, status, ci, baseCcalls, nCcalls, errfunc) /\ TypeOK
  BY DEF IInv
<1>4. ~In(cstack, co) /\ L \in Thread
  BY <1>1, SuspendedOut, Running
<1>5. nCcalls' \in [Thread -> Nat] /\ Elsewhere(co, nCcalls, nCcalls')
  BY <1>2, <1>3, <1>4 DEF TypeOK, Elsewhere
<1>6. Core(cstack', status', ci', baseCcalls', nCcalls', errfunc')
  <2>1. Core(cstack, status, ci, baseCcalls, nCcalls', errfunc)
    BY <1>3, <1>4, <1>5, CoreOut
  <2> QED BY <1>2, <2>1
<1>7. TypeOK'
  BY <1>2, <1>3, <1>5 DEF TypeOK
<1>8. Settled' /\ Reserve' /\ UpvaluesOnStack' /\ FramesFit'
  BY <1>2 DEF IInv, Settled, Reserve, UpvaluesOnStack, FramesFit
<1>9. States'
  BY <1>2 DEF IInv, States
<1> QED BY <1>6, <1>7, <1>8, <1>9 DEF IInv

(* The record of lua_resume alone, with the new call depth of the coroutine; *)
(* its frames are settled by what lua_resume does next.                      *)
LEMMA Resumed ==
  ASSUME IInv, NEW co \in Thread, lua_resume(co)
  PROVE  LET n == Len(cstack)
             resumed == Append(cstack, Resume(co))
         IN
         /\ n > 2 /\ n \in Nat /\ cstack \in Stack /\ Shape(cstack) /\ cstack[n].f = "C function"
         /\ co # L /\ ~In(cstack, co) /\ status[co] \in {"ok", "yield"} /\ co \in created
         /\ status[co] = "ok" => ci[co] = <<>>
         /\ Resume(co) \in Record
         /\ resumed \in Stack /\ Len(resumed) = n + 1 /\ Len(resumed) > 1
         /\ resumed[Len(resumed)] = Resume(co)
         /\ FramesTo(resumed, co, Len(resumed)) = 0
         /\ CallsTo(resumed, Len(resumed)) < MaxCalls
         /\ nCcalls' \in [Thread -> Nat] /\ baseCcalls' \in [Thread -> Nat]
         /\ pending' \in [Thread -> BOOLEAN] /\ created' = created
         /\ openup' = openup /\ errfunc' = errfunc
         /\ \A st2, c2 :
              /\ Elsewhere(co, status, st2) /\ Elsewhere(co, ci, c2) /\ st2[co] # "error"
              /\ st2[co] = "ok" => c2[co] = <<>>
              => Core(resumed, st2, c2, baseCcalls', nCcalls', errfunc')
<1> DEFINE n == Len(cstack)
           r == Resume(co)
           resumed == Append(cstack, r)
           d == nCcalls[L] + 1
<1>1. /\ raised = "no" /\ Top.f = "C function" /\ n > 1 /\ costatus(L, co) = "suspended"
      /\ co \in created /\ nCcalls[L] < LUAI_MAXCCALLS
      /\ nCcalls' = [nCcalls EXCEPT ![co] = d] /\ baseCcalls' = [baseCcalls EXCEPT ![co] = d]
      /\ pending' = [pending EXCEPT ![co] = FALSE]
      /\ created' = created /\ openup' = openup /\ errfunc' = errfunc
  BY DEF lua_resume, InFunction, Doing
<1>2. /\ Shape(cstack) /\ Top = cstack[n] /\ L = cstack[n].th /\ n \in Nat /\ L \in Thread
      /\ cstack \in Stack /\ nCcalls[L] \in Nat /\ nCcalls[L] = CallsTo(cstack, n)
  BY Running
<1>3. Core(cstack, status, ci, baseCcalls, nCcalls, errfunc) /\ TypeOK
  BY DEF IInv
<1>4. /\ co # L /\ ~In(cstack, co) /\ status[co] \in {"ok", "yield"}
      /\ status[co] = "ok" => ci[co] = <<>>
  BY <1>1, SuspendedOut
<1>5. n > 2
  BY <1>1, TopFrame
<1>6. r \in Record /\ r.th = co /\ r.f = "lua_resume" /\ Frames(r) = 0
  <2>1. r \in Record
    BY RecordTypes
  <2> QED BY <2>1 DEF Resume, Frames
<1> HIDE DEF r
<1>7. /\ resumed \in Stack /\ Len(resumed) = n + 1 /\ resumed[n + 1] = r
      /\ resumed[Len(resumed)] = r /\ Agree(resumed, cstack, n)
  BY <1>2, <1>6, PushParts
<1>8. n + 1 > 1 /\ n \in Nat /\ n \in 1 .. n + 1 /\ n < n + 1 /\ n \in 0 .. n
  BY <1>1, <1>2, Grown, Zenon
<1> HIDE DEF n, resumed
<1>9. FramesTo(resumed, co, n + 1) = 0
  <2>1. FramesTo(cstack, co, n) = 0
    BY <1>2, <1>4, NotIn DEF n
  <2>2. FramesTo(resumed, co, n) = FramesTo(cstack, co, n)
    BY <1>7, <1>8, FramesAgree
  <2>3. FramesTo(resumed, co, n + 1) = FramesTo(resumed, co, n)
          + IF resumed[n + 1].th = co THEN Frames(resumed[n + 1]) ELSE 0
    BY <1>7, <1>8, FramesStep
  <2> QED BY <1>6, <1>7, <2>1, <2>2, <2>3
<1>10. nCcalls' \in [Thread -> Nat] /\ baseCcalls' \in [Thread -> Nat]
       /\ pending' \in [Thread -> BOOLEAN]
       /\ nCcalls'[co] = d /\ baseCcalls'[co] = d
       /\ Elsewhere(co, nCcalls, nCcalls') /\ Elsewhere(co, baseCcalls, baseCcalls')
  <2>1. d \in Nat
    BY <1>2
  <2> HIDE DEF d
  <2> QED BY <1>1, <1>3, <2>1 DEF TypeOK, Elsewhere
<1>11. CallsTo(cstack, n) + 1 = d /\ d <= LUAI_MAXCCALLS /\ d < MaxCalls
  <2>1. LUAI_MAXCCALLS \in Nat /\ CCALLS_SLACK \in Nat /\ CCALLS_SLACK > 0
    BY LimitAssumption
  <2>2. d <= LUAI_MAXCCALLS
    BY <1>1, <1>2, <2>1, LessAndMore, Zenon
  <2>3. d < MaxCalls
    BY <1>1, <1>2, <2>1, LessAndMore, Zenon DEF MaxCalls
  <2> QED BY <1>2, <2>2, <2>3
<1>12. CallsTo(resumed, Len(resumed)) = d
  <2>1. CallsTo(resumed, Len(resumed))
          = CallsTo(cstack, Len(cstack)) + IF r.f \in {"luaD_call", "lua_resume"} THEN 1 ELSE 0
    BY <1>2, <1>6, CallsPush DEF resumed
  <2>2. CallsTo(resumed, Len(resumed)) = CallsTo(cstack, n) + 1
    BY <1>6, <2>1 DEF n
  <2> QED BY <1>11, <2>2, Zenon
<1>13. Bases(cstack, r, baseCcalls, baseCcalls')
  BY <1>6, <1>10, <1>11 DEF Bases, n
<1> HIDE DEF d
<1>14. ASSUME NEW st2, NEW c2, Elsewhere(co, status, st2), Elsewhere(co, ci, c2),
              st2[co] # "error", st2[co] = "ok" => c2[co] = <<>>
       PROVE  Core(resumed, st2, c2, baseCcalls', nCcalls', errfunc')
  <2>1. st2[co] = "ok" => Owned(cstack, co, c2[co])
    BY <1>2, <1>4, <1>14, OwnedNone
  <2>2. Ends(cstack, "C function") /\ Len(cstack) > 1 /\ status[co] # "error"
    BY <1>1, <1>2, <1>4 DEF Ends, n
  <2>3. nCcalls'[co] = CallsTo(cstack, Len(cstack)) + 1
    BY <1>10, <1>11 DEF n
  <2>4. Core(Append(cstack, Resume(co)), st2, c2, baseCcalls', nCcalls', errfunc)
    BY <1>3, <1>4, <1>10, <1>13, <1>14, <2>1, <2>2, <2>3, PushResume DEF r
  <2> QED BY <1>1, <2>4 DEF resumed, r
<1>15. FramesTo(resumed, co, Len(resumed)) = 0 /\ Len(resumed) > 1
  BY <1>7, <1>8, <1>9
<1> QED BY <1>1, <1>2, <1>4, <1>5, <1>6, <1>7, <1>10, <1>11, <1>12, <1>14, <1>15 DEF resumed, r, n

(* A coroutine that has been resumed: the records that the step has pushed   *)
(* are its own.                                                              *)
LEMMA ResumedStates ==
  ASSUME IInv, NEW co \in Thread, lua_resume(co), status'[co] = "ok",
         Elsewhere(co, status, status'), Elsewhere(co, ci, ci'),
         \A t : In(cstack', t) => In(cstack, t) \/ t = co
  PROVE  States'
<1>1. cstack[Len(cstack)].f = "C function" /\ created' = created /\ co \in created
  BY Resumed
<1>2. States
  BY DEF IInv
<1>3. ASSUME NEW t \in Thread, status'[t] = "yield"
      PROVE  Yielded(ci'[t]) /\ ~In(cstack', t)
  <2>1. t # co /\ status[t] = "yield" /\ ci'[t] = ci[t]
    BY <1>3 DEF Elsewhere
  <2>2. In(cstack, t) => cstack[Len(cstack)] = Resume(t)
    BY <1>2, <2>1 DEF States
  <2>3. Resume(t).f = "lua_resume"
    BY DEF Resume
  <2>4. ~In(cstack, t)
    BY <1>1, <2>2, <2>3
  <2> QED BY <1>2, <2>1, <2>4 DEF States
<1>4. \A t \in Thread \ created : t # co /\ status'[t] = "ok"
  BY <1>1, <1>2 DEF States, Elsewhere
<1> QED BY <1>1, <1>2, <1>3, <1>4 DEF States

LEMMA PushedIn ==
  ASSUME NEW cs \in Stack, NEW r \in Record, NEW t, In(Append(cs, r), t)
  PROVE  In(cs, t) \/ t = r.th
<1>1. /\ Len(Append(cs, r)) = Len(cs) + 1 /\ Append(cs, r)[Len(cs) + 1] = r
      /\ \A i \in 1 .. Len(cs) : Append(cs, r)[i] = cs[i]
  BY PushParts
<1>2. PICK i \in 1 .. Len(cs) + 1 : Append(cs, r)[i].th = t
  BY <1>1 DEF In
<1>3. Len(cs) \in Nat
  BY StackParts
<1>4. i = Len(cs) + 1 \/ i \in 1 .. Len(cs)
  BY <1>2, <1>3
<1> QED BY <1>1, <1>2, <1>4 DEF In

(* The coroutine's call frames that run, all of them of Lua functions.       *)
LEMMA ResumedRuns ==
  ASSUME IInv, NEW co \in Thread, lua_resume(co),
         Elsewhere(co, status, status'), Elsewhere(co, ci, ci'), status'[co] = "ok",
         ci' \in [Thread -> Seq(FrameKind)], Len(ci'[co]) > 0,
         \A k \in 1 .. Len(ci'[co]) : ci'[co][k] = "Lua",
         raised' = "no",
         cstack' = Append(Append(cstack, Resume(co)), Execute(co, Len(ci'[co])))
  PROVE  /\ Core(cstack', status', ci', baseCcalls', nCcalls', errfunc')
         /\ Settled' /\ Reserve' /\ States' /\ cstack' \in Stack
<1> DEFINE resumed == Append(cstack, Resume(co))
           v == Len(ci'[co])
           q == Execute(co, v)
           st == [status EXCEPT ![co] = "yield"]
<1>1. /\ Len(cstack) \in Nat /\ cstack \in Stack /\ Resume(co) \in Record
      /\ resumed \in Stack /\ Len(resumed) > 1 /\ resumed[Len(resumed)] = Resume(co)
      /\ FramesTo(resumed, co, Len(resumed)) = 0 /\ CallsTo(resumed, Len(resumed)) < MaxCalls
      /\ \A st2, c2 :
           /\ Elsewhere(co, status, st2) /\ Elsewhere(co, ci, c2) /\ st2[co] # "error"
           /\ st2[co] = "ok" => c2[co] = <<>>
           => Core(resumed, st2, c2, baseCcalls', nCcalls', errfunc')
  BY Resumed
<1>2. status \in [Thread -> {"ok", "yield", "error"}]
  BY DEF IInv, TypeOK
<1>3. st[co] = "yield" /\ Elsewhere(co, status, st) /\ Elsewhere(co, st, status')
  BY <1>2 DEF Elsewhere
<1> HIDE DEF st, resumed
<1>4. Core(resumed, st, ci', baseCcalls', nCcalls', errfunc')
  <2>1. st[co] # "error" /\ st[co] # "ok"
    BY <1>3
  <2> QED BY <1>1, <1>3, <2>1
<1>5. v \in Nat
  BY LenProperties
<1>6. Core(Append(resumed, q), status', ci', baseCcalls', nCcalls', errfunc')
  BY <1>1, <1>3, <1>4, <1>5, PushResumed
<1>7. cstack' = Append(resumed, q)
  BY DEF resumed
<1>8. q \in Record /\ q.th = co /\ q.f = "luaV_execute"
  <2>1. q \in Record
    BY <1>5, RecordTypes
  <2> QED BY <2>1 DEF Execute
<1> HIDE DEF q
<1>9. cstack' \in Stack /\ cstack'[Len(cstack')] = q
  BY <1>1, <1>7, <1>8, PushParts, PushTop
<1>10. Settled'
  BY <1>8, <1>9 DEF Settled
<1>11. Reserve'
  <2>1. CallsTo(cstack', Len(cstack')) = CallsTo(resumed, Len(resumed)) + 0
    BY <1>1, <1>7, <1>8, CallsPush
  <2>2. CallsTo(resumed, Len(resumed)) \in Nat
    <3>1. Len(resumed) \in Nat
      BY <1>1, StackParts
    <3> QED BY <3>1, CallsNat
  <2>3. CallsTo(cstack', Len(cstack')) = CallsTo(resumed, Len(resumed))
    BY <2>1, <2>2, Same, Zenon
  <2>4. MaxCalls \in Nat
    BY LimitAssumption DEF MaxCalls
  <2>5. CallsTo(resumed, Len(resumed)) < MaxCalls => CallsTo(resumed, Len(resumed)) <= MaxCalls
    BY <2>2, <2>4, LessOrEqual, Zenon
  <2> QED BY <1>1, <2>3, <2>5 DEF Reserve
<1>12. States'
  <2>1. Resume(co).th = co
    BY DEF Resume
  <2>2. ASSUME NEW t, In(cstack', t)
        PROVE  In(cstack, t) \/ t = co
    <3>1. In(resumed, t) \/ t = co
      BY <1>1, <1>7, <1>8, <2>2, PushedIn
    <3>2. In(resumed, t) => In(cstack, t) \/ t = co
      BY <1>1, <2>1, PushedIn DEF resumed
    <3> QED BY <3>1, <3>2
  <2> QED BY <2>2, ResumedStates
<1> QED BY <1>6, <1>7, <1>9, <1>10, <1>11, <1>12

LEMMA lua_resumeInv ==
  ASSUME IInv, NEW co \in Thread, lua_resume(co)
  PROVE  /\ IInv'
         /\ \/ cstack' = Append(cstack, Resume(co))
            \/ \E v \in Nat : cstack' = Append(Append(cstack, Resume(co)), Execute(co, v))
<1> DEFINE n == Len(cstack)
           resumed == Append(cstack, Resume(co))
<1>1. /\ n > 2 /\ n \in Nat /\ cstack \in Stack /\ co # L /\ status[co] \in {"ok", "yield"}
      /\ status[co] = "ok" => ci[co] = <<>>
      /\ Resume(co) \in Record /\ resumed \in Stack /\ Len(resumed) > 1
      /\ resumed[Len(resumed)] = Resume(co) /\ CallsTo(resumed, Len(resumed)) < MaxCalls
      /\ nCcalls' \in [Thread -> Nat] /\ baseCcalls' \in [Thread -> Nat]
      /\ pending' \in [Thread -> BOOLEAN] /\ created' = created
      /\ openup' = openup /\ errfunc' = errfunc
      /\ \A st2, c2 :
           /\ Elsewhere(co, status, st2) /\ Elsewhere(co, ci, c2) /\ st2[co] # "error"
           /\ st2[co] = "ok" => c2[co] = <<>>
           => Core(resumed, st2, c2, baseCcalls', nCcalls', errfunc')
  BY Resumed
<1>2. TypeOK /\ raised = "no"
  BY DEF IInv, lua_resume, InFunction, Doing
<1>3. \/ /\ status[co] = "ok" /\ status' = status
         /\ luaD_precall(co, "Lua", Append(resumed, Execute(co, 1)), resumed)
      \/ /\ status[co] = "yield" /\ status' = [status EXCEPT ![co] = "ok"]
         /\ luaD_poscall(co) /\ cstack' = Append(resumed, Execute(co, Len(ci[co]) - 1))
         /\ size_ci' = size_ci /\ raised' = raised
  BY DEF lua_resume
<1> HIDE DEF resumed
<1>4. CASE /\ status[co] = "ok" /\ status' = status
           /\ luaD_precall(co, "Lua", Append(resumed, Execute(co, 1)), resumed)
  <2>1. /\ size_ci' \in [Thread -> Nat] /\ ci' \in [Thread -> Seq(FrameKind)]
        /\ raised' \in {"no", "runerror", "throw"} /\ FramesFit' /\ Grows
        /\ Elsewhere(co, ci, ci')
        /\ \/ raised' = "no" /\ cstack' = Append(resumed, Execute(co, 1))
              /\ ci'[co] = Append(ci[co], "Lua")
           \/ raised' # "no" /\ cstack' = resumed /\ ci' = ci
    <3>1. "Lua" \in FrameKind
      BY DEF FrameKind
    <3> QED BY <1>4, <3>1, PrecallParts
  <2>2. UpvaluesOnStack'
    BY <1>1, <2>1, UpvaluesGrow
  <2>3. Elsewhere(co, status, status') /\ status'[co] = "ok"
    BY <1>4 DEF Elsewhere
  <2>4. CASE raised' = "no" /\ cstack' = Append(resumed, Execute(co, 1))
             /\ ci'[co] = Append(ci[co], "Lua")
    <3>1. /\ Len(ci'[co]) = 1 /\ Len(ci'[co]) > 0
          /\ \A k \in 1 .. Len(ci'[co]) : ci'[co][k] = "Lua"
      <4>1. ci'[co] = Append(<<>>, "Lua")
        BY <1>1, <1>4, <2>4
      <4> QED BY <4>1, OneFrame
    <3>2. /\ Core(cstack', status', ci', baseCcalls', nCcalls', errfunc')
          /\ Settled' /\ Reserve' /\ States' /\ cstack' \in Stack
      BY <2>1, <2>3, <2>4, <3>1, ResumedRuns DEF resumed
    <3>3. TypeOK'
      BY <1>1, <1>2, <1>4, <2>1, <3>2 DEF TypeOK, Stack
    <3> QED BY <2>1, <2>2, <2>4, <3>2, <3>3 DEF IInv, resumed
  <2>5. CASE raised' # "no" /\ cstack' = resumed /\ ci' = ci
    <3>1. Core(cstack', status', ci', baseCcalls', nCcalls', errfunc')
      <4>1. Elsewhere(co, ci, ci) /\ ci[co] = <<>> /\ status[co] # "error"
        BY <1>1, <1>4 DEF Elsewhere
      <4> QED BY <1>1, <1>4, <2>3, <2>5, <4>1
    <3>2. Settled'
      <4>1. Resume(co).f = "lua_resume"
        BY DEF Resume
      <4> QED BY <1>1, <2>5, <4>1 DEF Settled
    <3>3. Reserve'
      <4>1. CallsTo(resumed, Len(resumed)) \in Nat
        <5>1. Len(resumed) \in Nat
          BY <1>1, StackParts
        <5> QED BY <5>1, CallsNat
      <4>2. MaxCalls \in Nat
        BY LimitAssumption DEF MaxCalls
      <4>3. CallsTo(resumed, Len(resumed)) <= MaxCalls
        BY <1>1, <4>1, <4>2, LessOrEqual, Zenon
      <4> QED BY <1>1, <2>5, <4>3 DEF Reserve
    <3>4. States'
      <4>1. Resume(co).th = co
        BY DEF Resume
      <4>2. \A t : In(cstack', t) => In(cstack, t) \/ t = co
        BY <1>1, <2>5, <4>1, PushedIn DEF resumed
      <4> QED BY <2>1, <2>3, <4>2, ResumedStates
    <3>5. TypeOK'
      BY <1>1, <1>2, <1>4, <2>1, <2>5 DEF TypeOK, Stack
    <3> QED BY <2>1, <2>2, <2>5, <3>1, <3>2, <3>3, <3>4, <3>5 DEF IInv, resumed
  <2> QED BY <2>1, <2>4, <2>5
<1>5. CASE /\ status[co] = "yield" /\ status' = [status EXCEPT ![co] = "ok"]
           /\ luaD_poscall(co) /\ cstack' = Append(resumed, Execute(co, Len(ci[co]) - 1))
           /\ size_ci' = size_ci /\ raised' = raised
  <2>1. Yielded(ci[co]) /\ ci[co] \in Seq(FrameKind)
    BY <1>2, <1>5 DEF IInv, States, TypeOK
  <2>2. /\ Len(ci[co]) > 1 /\ ci[co][Len(ci[co])] = "C" /\ Len(ci[co]) \in Nat
        /\ \A k \in 1 .. Len(ci[co]) - 1 : ci[co][k] = "Lua"
    BY <2>1, LenProperties DEF Yielded
  <2>3. Len(ci[co]) > 0
    BY <2>2, AboveOne, Zenon
  <2>4. openup \in [Thread -> SUBSET Nat] /\ Len(ci[co]) \notin openup[co]
    BY <1>2, <2>2 DEF IInv, TypeOK, UpvaluesOnStack
  <2>5. /\ ci' \in [Thread -> Seq(FrameKind)] /\ ci'[co] = Front(ci[co]) /\ Elsewhere(co, ci, ci')
        /\ UpvaluesOnStack' /\ FramesFit'
    BY <1>1, <1>5, <2>3, <2>4, UpvaluesPopped
  <2>6. /\ Len(ci'[co]) = Len(ci[co]) - 1 /\ Len(ci'[co]) > 0
        /\ \A k \in 1 .. Len(ci'[co]) : ci'[co][k] = "Lua"
    <3>1. /\ Len(Front(ci[co])) \in Nat /\ Len(Front(ci[co])) + 1 = Len(ci[co])
          /\ \A k \in 1 .. Len(Front(ci[co])) : Front(ci[co])[k] = ci[co][k]
      BY <2>1, <2>3, Popped
    <3>2. Len(Front(ci[co])) = Len(ci[co]) - 1 /\ Len(Front(ci[co])) > 0
      BY <2>2, <3>1, Lessened, Zenon
    <3> QED BY <2>2, <2>5, <3>1, <3>2
  <2>7. status'[co] = "ok" /\ Elsewhere(co, status, status')
        /\ status' \in [Thread -> {"ok", "yield", "error"}]
    BY <1>2, <1>5 DEF TypeOK, Elsewhere
  <2>8. /\ Core(cstack', status', ci', baseCcalls', nCcalls', errfunc')
        /\ Settled' /\ Reserve' /\ States' /\ cstack' \in Stack
    BY <1>2, <1>5, <2>5, <2>6, <2>7, ResumedRuns DEF resumed
  <2>9. TypeOK'
    BY <1>1, <1>2, <1>5, <2>5, <2>7, <2>8 DEF TypeOK, Stack
  <2>10. Len(ci[co]) - 1 \in Nat
    BY <2>2, Inside, Zenon
  <2> QED BY <1>5, <2>5, <2>8, <2>9, <2>10 DEF IInv, resumed
<1> QED BY <1>3, <1>4, <1>5

(* A yield finds luaV_execute below the C function and lua_resume below that. *)
LEMMA YieldParts ==
  ASSUME IInv, InFunction, CanYield
  PROVE  LET n == Len(cstack) IN
         /\ n > 3 /\ n - 2 \in 2 .. n /\ n \in Nat
         /\ cstack[n].f = "C function"
         /\ cstack[n - 1].f = "luaV_execute" /\ cstack[n - 1].th = L
         /\ cstack[n - 2].f = "lua_resume" /\ cstack[n - 2].th = L
         /\ nCcalls[L] <= CallsTo(cstack, n - 2)
<1> DEFINE n == Len(cstack)
           S == {i \in 1 .. n : cstack[i].th = L}
<1>1. /\ raised = "no" /\ Top.f = "C function" /\ n > 1 /\ nCcalls[L] <= baseCcalls[L]
  BY DEF InFunction, Doing, CanYield
<1>2. /\ Shape(cstack) /\ cstack \in Stack /\ n \in Nat /\ n \in 1 .. n /\ L \in Thread
      /\ Top = cstack[n] /\ L = cstack[n].th /\ nCcalls[L] = CallsTo(cstack, n)
      /\ nCcalls[L] \in Nat
  BY Running
<1>3. n > 2 /\ cstack[n - 1].th = L /\ cstack[n - 1].f \in {"luaD_call", "luaV_execute"}
  BY <1>1, TopFrame DEF Under
<1>4. /\ cstack[1].th = MainThread /\ Based(cstack, baseCcalls) /\ baseCcalls[MainThread] = 0
  <2>1. cstack[1].th = MainThread
    BY <1>2, ShapeParts
  <2> QED BY <2>1 DEF IInv, Core
<1>5. S \in SUBSET Nat /\ S # {}
  BY <1>2
<1>6. PICK b \in S : \A k \in S : b <= k
  <2> HIDE DEF S
  <2> QED BY <1>5, LeastNatural
<1>7. b \in 1 .. n /\ cstack[b].th = L
  BY <1>6
<1>8. b # 1 => cstack[b].f = "lua_resume" /\ b \in 2 .. n
  <2>1. ASSUME b # 1
        PROVE  cstack[b].f = "lua_resume" /\ b \in 2 .. n
    <3> HIDE DEF n
    <3>1. b \in 2 .. n /\ b - 1 \in 1 .. n /\ ~(b <= b - 1)
      BY <1>2, <1>7, <2>1, FromTwo, Zenon
    <3>2. cstack[b - 1].th # L
      BY <1>6, <3>1
    <3>3. Over(cstack[b - 1], cstack[b])
      BY <1>2, <3>1 DEF Shape, n
    <3> QED BY <1>7, <3>1, <3>2, <3>3 DEF Over
  <2> QED BY <2>1
<1>9. \A j \in b + 1 .. n : cstack[j].f \notin {"luaD_call", "lua_resume"}
  <2>1. CASE b = 1
    <3>1. nCcalls[L] <= 0
      BY <1>1, <1>4, <1>7, <2>1
    <3>2. ASSUME NEW j \in b + 1 .. n, cstack[j].f \in {"luaD_call", "lua_resume"}
          PROVE  FALSE
      <4>1. 0 \in 0 .. n /\ j \in 0 + 1 .. n
        <5> HIDE DEF n
        <5> QED BY <1>2, <2>1, <3>2
      <4>2. CallsTo(cstack, 0) + 1 <= CallsTo(cstack, n) /\ CallsTo(cstack, 0) \in Nat
        BY <1>2, <3>2, <4>1, CallsStrict, CallsNat
      <4> QED BY <1>2, <3>1, <4>2, NotBelow, Zenon
    <3> QED BY <3>2
  <2>2. CASE b # 1
    <3>1. baseCcalls[L] = CallsTo(cstack, b)
      BY <1>4, <1>7, <1>8, <2>2 DEF Based
    <3>2. ASSUME NEW j \in b + 1 .. n, cstack[j].f \in {"luaD_call", "lua_resume"}
          PROVE  FALSE
      <4>1. b \in 0 .. n /\ b \in Nat
        <5> HIDE DEF n
        <5> QED BY <1>2, <1>7
      <4>2. CallsTo(cstack, b) + 1 <= CallsTo(cstack, n) /\ CallsTo(cstack, b) \in Nat
        BY <1>2, <3>2, <4>1, CallsStrict, CallsNat
      <4> QED BY <1>1, <1>2, <3>1, <4>2, NotBelow, Zenon
    <3> QED BY <3>2
  <2> QED BY <2>1, <2>2
<1>10. /\ b <= n - 1 /\ (b # n - 1 => n - 1 \in b + 1 .. n) /\ n - 1 \in 2 .. n
       /\ (n - 1) - 1 = n - 2
       /\ (n - 2 \in 1 .. n /\ (n - 2 # 1 => n - 2 \in 2 .. n /\ n > 3))
       /\ (b # n - 1 /\ b # n - 2 => n - 2 \in b + 1 .. n)
  <2>1. n - 1 \in S
    <3>1. n - 1 \in 1 .. n
      BY <1>1, <1>2, Inside, Zenon
    <3> QED BY <1>3, <3>1
  <2>2. b <= n - 1
    BY <1>6, <2>1
  <2> HIDE DEF n, S
  <2> QED BY <1>2, <1>3, <1>7, <2>2, YieldIndex, Zenon
<1>11. b # n - 1
  <2>1. ASSUME b = n - 1
        PROVE  FALSE
    <3>1. b # 1
      <4> HIDE DEF n
      <4> QED BY <1>10, <2>1, AtLeastTwo, NotOne, Zenon
    <3>2. cstack[n - 1].f = "lua_resume"
      BY <1>8, <2>1, <3>1
    <3> QED BY <1>3, <3>2
  <2> QED BY <2>1
<1>12. cstack[n - 1].f = "luaV_execute"
  BY <1>3, <1>9, <1>10, <1>11
<1>13. Over(cstack[n - 2], cstack[n - 1])
  BY <1>2, <1>10 DEF Shape
<1>14. cstack[n - 2].th = L /\ cstack[n - 2].f \in {"luaD_call", "lua_resume"}
  BY <1>3, <1>12, <1>13 DEF Over, Under
<1>15. b = n - 2
  BY <1>9, <1>10, <1>11, <1>14
<1>16. n - 2 # 1
  <2>1. cstack[1].f = "C function"
    BY <1>2, ShapeParts
  <2> QED BY <1>14, <2>1
<1>17. cstack[n - 2].f = "lua_resume" /\ n - 2 \in 2 .. n /\ n > 3
  BY <1>8, <1>10, <1>15, <1>16
<1>18. nCcalls[L] <= CallsTo(cstack, n - 2)
  BY <1>1, <1>4, <1>7, <1>10, <1>15, <1>17 DEF Based
<1> QED BY <1>1, <1>2, <1>3, <1>12, <1>14, <1>17, <1>18

(* The frames of a coroutine that yields. *)
LEMMA YieldFrames ==
  ASSUME IInv, InFunction, CanYield
  PROVE  Yielded(ci[L])
<1> DEFINE n == Len(cstack)
           q == cstack[n - 1]
           fs == ci[L]
           v == Frames(q)
<1>1. /\ n > 3 /\ n - 2 \in 2 .. n /\ n \in Nat /\ cstack[n].f = "C function"
      /\ q.f = "luaV_execute" /\ q.th = L
      /\ cstack[n - 2].f = "lua_resume" /\ cstack[n - 2].th = L
  BY YieldParts
<1>2. /\ raised = "no" /\ Top.f = "C function" /\ n > 1
  BY DEF InFunction, Doing
<1>3. /\ Shape(cstack) /\ cstack \in Stack /\ L \in Thread /\ L = cstack[n].th /\ Top = cstack[n]
      /\ Owned(cstack, L, fs) /\ status[L] = "ok"
  BY <1>2, Running
<1>4. /\ Len(fs) \in Nat /\ Len(fs) > 0 /\ fs[Len(fs)] = "C"
  BY <1>2, TopFrame, FrameOfC
<1> HIDE DEF n, fs
<1>5. /\ n - 2 \in 1 .. n /\ n - 2 < n /\ n - 2 \in 0 .. n /\ n - 2 \in Nat
      /\ n - 3 \in 1 .. n /\ n - 3 \in 0 .. n /\ n - 3 < n /\ n - 3 \in Nat
      /\ n - 1 \in 1 .. n /\ n - 1 < n /\ n - 1 \in 2 .. n /\ n \in 0 .. n /\ n \in 2 .. n
      /\ (n - 3) + 1 = n - 2 /\ (n - 2) + 1 = n - 1 /\ (n - 1) + 1 = n
      /\ (n - 2) - 1 = n - 3 /\ (n - 1) - 1 = n - 2
  BY <1>1, TopThree, Zenon
<1>6. FramesTo(cstack, L, n - 3) = 0
  <2>1. ~In(Cut(cstack, n - 3), L)
    <3>1. ~In(Cut(cstack, (n - 2) - 1), cstack[n - 2].th)
      BY <1>1, <1>3, Alone DEF n
    <3> QED BY <1>1, <1>5, <3>1
  <2>2. /\ Cut(cstack, n - 3) \in Stack /\ Len(Cut(cstack, n - 3)) = n - 3
        /\ Agree(Cut(cstack, n - 3), cstack, n - 3)
    BY <1>3, <1>5, CutParts DEF n
  <2>3. FramesTo(Cut(cstack, n - 3), L, n - 3) = 0
    BY <2>1, <2>2, NotIn
  <2> QED BY <1>5, <2>2, <2>3, FramesAgree
<1>7. FramesTo(cstack, L, n - 2) = 0
  <2>1. Frames(cstack[n - 2]) = 0
    BY <1>1 DEF Frames
  <2>2. n - 3 \in 1 .. Len(cstack) /\ n - 3 < Len(cstack)
    BY <1>5 DEF n
  <2>3. FramesTo(cstack, L, (n - 3) + 1) = FramesTo(cstack, L, n - 3)
          + IF cstack[(n - 3) + 1].th = L THEN Frames(cstack[(n - 3) + 1]) ELSE 0
    BY <1>3, <2>2, FramesStep
  <2>4. FramesTo(cstack, L, n - 2) = FramesTo(cstack, L, n - 3)
          + IF cstack[n - 2].th = L THEN Frames(cstack[n - 2]) ELSE 0
    BY <1>5, <2>3, Zenon
  <2>5. FramesTo(cstack, L, n - 2) = 0 + 0
    BY <1>1, <1>6, <2>1, <2>4, Zenon
  <2> QED BY <2>5
<1>8. v \in Nat /\ v > 0
  <2>1. q \in Record
    BY <1>3, <1>5, StackParts DEF n
  <2>2. Over(cstack[n - 2], q)
    BY <1>3, <1>5 DEF Shape, n
  <2>3. Frames(q) \in Nat
    BY <2>1, RecordParts
  <2> QED BY <1>1, <2>2, <2>3 DEF Over, Frames
<1>9. FramesTo(cstack, L, n - 1) = v
  <2>1. n - 2 \in 1 .. Len(cstack) /\ n - 2 < Len(cstack)
    BY <1>5 DEF n
  <2>2. FramesTo(cstack, L, (n - 2) + 1) = FramesTo(cstack, L, n - 2)
          + IF cstack[(n - 2) + 1].th = L THEN Frames(cstack[(n - 2) + 1]) ELSE 0
    BY <1>3, <2>1, FramesStep
  <2>3. FramesTo(cstack, L, n - 1) = 0 + v
    BY <1>1, <1>5, <1>7, <2>2
  <2> HIDE DEF v
  <2> QED BY <1>8, <2>3
<1>10. Len(fs) = v + 1
  <2>1. n - 1 \in 1 .. Len(cstack) /\ n - 1 < Len(cstack)
    BY <1>5 DEF n
  <2>2. FramesTo(cstack, L, (n - 1) + 1) = FramesTo(cstack, L, n - 1)
          + IF cstack[(n - 1) + 1].th = L THEN Frames(cstack[(n - 1) + 1]) ELSE 0
    BY <1>3, <2>1, FramesStep
  <2>3. Frames(cstack[n]) = 1 /\ cstack[n].th = L
    BY <1>1, <1>3, FrameOfC
  <2>4. FramesTo(cstack, L, n) = v + 1
    BY <1>5, <1>9, <2>2, <2>3
  <2> QED BY <1>3, <2>4 DEF Owned, n
<1>11. \A k \in 1 .. v : fs[k] = "Lua"
  <2>1. \A k \in 1 .. v : fs[FramesTo(cstack, L, n - 2) + k] = Kind(q)
    <3>1. n - 1 \in 2 .. Len(cstack)
      BY <1>5 DEF n
    <3>2. \A k \in 1 .. v : fs[FramesTo(cstack, L, (n - 1) - 1) + k] = Kind(q)
      BY <1>1, <1>3, <3>1 DEF Owned
    <3> QED BY <1>5, <3>2
  <2>2. Kind(q) = "Lua"
    BY <1>1 DEF Kind
  <2> HIDE DEF v, q
  <2>3. \A k \in 1 .. v : 0 + k = k
    BY <1>8
  <2> QED BY <1>7, <2>1, <2>2, <2>3
<1> HIDE DEF v
<1>12. Len(fs) > 1 /\ Len(fs) - 1 = v
  BY <1>8, <1>10, MoreThanOne, Zenon
<1>13. Yielded(fs)
  BY <1>4, <1>11, <1>12 DEF Yielded
<1> QED BY <1>13 DEF fs

LEMMA lua_yieldInv ==
  ASSUME IInv, lua_yield
  PROVE  IInv' /\ Near(cstack, cstack', L) /\ created' = created /\ pending' = pending
         /\ Elsewhere(L, status, status') /\ Elsewhere(L, ci, ci')
<1> DEFINE n == Len(cstack)
           m == n - 2
<1>1. /\ InFunction /\ raised = "no" /\ Top.f = "C function" /\ n > 1
      /\ created' = created /\ ci' = ci /\ size_ci' = size_ci /\ openup' = openup
      /\ pending' = pending /\ nCcalls' = nCcalls /\ baseCcalls' = baseCcalls
      /\ errfunc' = errfunc
  BY DEF lua_yield, InFunction, Doing
<1>2. Core(cstack, status, ci, baseCcalls, nCcalls, errfunc) /\ TypeOK /\ States
  BY DEF IInv
<1>3. /\ Shape(cstack) /\ Top = cstack[n] /\ L = cstack[n].th /\ n \in Nat
      /\ status[L] = "ok" /\ L \in Thread /\ cstack \in Stack /\ nCcalls[L] \in Nat
      /\ HandlerAt(cstack, L, n, errfunc[L]) /\ nCcalls[L] = CallsTo(cstack, n)
      /\ L \in created
  BY <1>1, Running
<1>4. UpvaluesOnStack' /\ FramesFit' /\ Elsewhere(L, ci, ci')
  BY <1>1 DEF IInv, UpvaluesOnStack, FramesFit, Elsewhere
<1>5. CASE raised' = "runerror" /\ status' = status /\ cstack' = cstack
  <2>1. ThreadsKept
    BY <1>1, <1>5 DEF ThreadsKept
  <2>2. Typed
    BY <1>1, <1>2, <1>5 DEF TypeOK, Typed
  <2>3. Settled' /\ Reserve' /\ Near(cstack, cstack', L)
    <3>1. Top.f \notin {"luaD_pcall", "luaG_errormsg"}
      BY <1>1
    <3> QED BY <1>1, <1>5, <3>1, StackKept
  <2>4. Core(cstack', status, ci', baseCcalls, nCcalls', errfunc')
    BY <1>1, <1>2, <1>5
  <2>5. IInv'
    BY <1>3, <1>4, <2>1, <2>2, <2>3, <2>4, StepDone
  <2> QED BY <1>1, <1>4, <1>5, <2>3, <2>5 DEF Elsewhere
<1>6. CASE /\ CanYield /\ status' = [status EXCEPT ![L] = "yield"] /\ raised' = raised
           /\ cstack' = IF Last(Front(cstack)).f = "luaV_execute" THEN Front(Front(cstack))
                        ELSE Front(cstack)
  <2>1. /\ n > 3 /\ m \in 2 .. n
        /\ cstack[n - 1].f = "luaV_execute" /\ cstack[n - 1].th = L
        /\ cstack[m].f = "lua_resume" /\ cstack[m].th = L
        /\ nCcalls[L] <= CallsTo(cstack, m)
    BY <1>1, <1>6, YieldParts
  <2>2. n > 2 /\ m \in 1 .. n /\ m \in 0 .. n /\ m \in Nat
        /\ \A i \in m + 1 .. n : i = n - 1 \/ i = n
    BY <1>3, <2>1, TwoDown, Zenon
  <2>3. /\ cstack' = Cut(cstack, m) /\ cstack'[Len(cstack')] = cstack[m] /\ Len(cstack') = m
        /\ cstack' \in Stack
    <3>1. Last(Front(cstack)) = cstack[n - 1]
      BY <1>1, <1>3, CutTop DEF Last
    <3>2. cstack' = Front(Front(cstack))
      BY <1>6, <2>1, <3>1
    <3>3. Cut(cstack, m) \in Stack
      BY <1>3, <2>2, CutParts
    <3> QED BY <1>3, <2>2, <3>2, <3>3, CutCut
  <2>4. Near(cstack, cstack', L) /\ OnlyOf(cstack, m, L)
    <3>1. cstack[m].th = cstack[Len(cstack)].th /\ m \in 1 .. Len(cstack)
      BY <1>3, <2>1, <2>2
    <3>2. Near(cstack, Cut(cstack, m), cstack[m].th) /\ OnlyOf(cstack, m, cstack[m].th)
      BY <1>3, <3>1, NearCut, Zenon
    <3> QED BY <2>1, <2>3, <3>2
  <2>5. /\ status' \in [Thread -> {"ok", "yield", "error"}] /\ status'[L] = "yield"
        /\ Elsewhere(L, status, status')
    BY <1>2, <1>3, <1>6 DEF TypeOK, Elsewhere
  <2> HIDE DEF m
  <2>6. nCcalls[L] = CallsTo(cstack, m)
    <3>1. CallsTo(cstack, m) <= CallsTo(cstack, n) /\ CallsTo(cstack, m) \in Nat
      BY <1>3, <2>2, CallsMono, CallsNat
    <3> QED BY <1>3, <2>1, <3>1, BothWays, Zenon
  <2>7. HandlerAt(cstack, L, m, errfunc[L])
    <3>1. \A i \in m + 1 .. n : ~PcallOf(cstack, L, i)
      BY <1>1, <1>3, <2>1, <2>2 DEF PcallOf
    <3> HIDE DEF n
    <3> QED BY <1>3, <2>2, <3>1, HandlerSkip
  <2>8. Fits(Cut(cstack, m), L, status'[L], ci[L], nCcalls[L], errfunc[L])
    <3>1. status'[L] # "error" /\ status'[L] # "ok"
      BY <2>5
    <3> QED BY <1>3, <2>1, <2>2, <2>6, <2>7, <3>1, FitsStays
  <2>9. Core(cstack', status', ci', baseCcalls', nCcalls', errfunc')
    <3>1. Elsewhere(L, ci, ci) /\ Elsewhere(L, nCcalls, nCcalls) /\ Elsewhere(L, errfunc, errfunc)
      BY DEF Elsewhere
    <3>2. Core(Cut(cstack, m), status', ci, baseCcalls, nCcalls, errfunc)
      BY <1>2, <2>2, <2>4, <2>5, <2>8, <3>1, CoreCut
    <3> QED BY <1>1, <2>3, <3>2
  <2>10. Settled'
    BY <1>1, <1>6, <2>1, <2>3 DEF Settled
  <2>11. Reserve'
    <3>1. cstack'[Len(cstack')].th = L
      BY <2>1, <2>3
    <3>2. nCcalls'[L] <= nCcalls[L]
      BY <1>1, <1>3, Same, Zenon
    <3> QED BY <1>1, <2>9, <3>1, <3>2, ReserveKept
  <2>12. TypeOK'
    BY <1>1, <1>2, <1>6, <2>3, <2>5 DEF TypeOK, Stack
  <2>13. States'
    <3>1. \A t : In(cstack', t) => In(cstack, t)
      BY <1>3, <2>2, <2>3, CutIn
    <3>2. ASSUME NEW t \in Thread, status'[t] = "yield"
          PROVE  Yielded(ci'[t]) /\ (In(cstack', t) =>
                   cstack'[Len(cstack')] = Resume(t) /\ raised' = "no")
      <4>1. CASE t = L
        <5>1. Yielded(ci'[t])
          BY <1>1, <1>6, <4>1, YieldFrames
        <5>2. cstack[m] \in Record
          BY <1>3, <2>2, StackParts
        <5>3. cstack[m] = Resume(L)
          BY <2>1, <5>2, RecordParts
        <5> QED BY <1>1, <1>6, <2>3, <4>1, <5>1, <5>3
      <4>2. CASE t # L
        <5>1. status[t] = "yield"
          BY <2>5, <3>2, <4>2 DEF Elsewhere
        <5>2. In(cstack, t) => cstack[n] = Resume(t)
          BY <1>2, <5>1 DEF States
        <5>3. Resume(t).f = "lua_resume"
          BY DEF Resume
        <5>4. ~In(cstack, t)
          BY <1>1, <1>3, <5>2, <5>3
        <5> QED BY <1>1, <1>2, <3>1, <5>1, <5>4 DEF States
      <4> QED BY <4>1, <4>2
    <3>3. \A t \in Thread \ created : t # L /\ status'[t] = "ok"
      BY <1>2, <1>3, <2>5 DEF States, Elsewhere
    <3> QED BY <1>1, <1>2, <3>1, <3>2, <3>3 DEF States
  <2> QED BY <1>1, <1>4, <2>4, <2>5, <2>9, <2>10, <2>11, <2>12, <2>13 DEF IInv
<1> QED BY <1>5, <1>6 DEF lua_yield

LEMMA ReturnFromResumeInv ==
  ASSUME IInv, ReturnFromResume
  PROVE  IInv'
<1> DEFINE n == Len(cstack)
           m == n - 1
           fs == ci[L]
<1>1. /\ raised = "no" /\ Top.f = "lua_resume" /\ cstack' = Front(cstack)
      /\ nCcalls' = [nCcalls EXCEPT ![L] = @ - 1] /\ raised' \in {"no", "runerror"}
      /\ pending' = pending \/ pending' = [pending EXCEPT ![L] = TRUE]
      /\ created' = created /\ status' = status /\ ci' = ci /\ size_ci' = size_ci
      /\ openup' = openup /\ baseCcalls' = baseCcalls /\ errfunc' = errfunc
  BY DEF ReturnFromResume, Doing, threadVars
<1>2. Core(cstack, status, ci, baseCcalls, nCcalls, errfunc) /\ TypeOK /\ States
  BY DEF IInv
<1>3. /\ Shape(cstack) /\ cstack \in Stack /\ L \in Thread /\ L = cstack[n].th /\ Top = cstack[n]
      /\ n \in Nat /\ nCcalls[L] = CallsTo(cstack, n) /\ nCcalls[L] \in Nat
      /\ HandlerAt(cstack, L, n, errfunc[L]) /\ fs \in Seq(FrameKind)
      /\ status[L] = "ok" => Owned(cstack, L, fs)
  BY Running
<1>4. n > 2 /\ n > 1
  BY <1>1, <1>3, AboveHost
<1>5. /\ cstack' = Cut(cstack, m) /\ cstack'[Len(cstack')] = cstack[m] /\ cstack' \in Stack
      /\ Len(cstack') = m
  BY <1>1, <1>3, <1>4, FrontCut, CutTop
<1>6. /\ m \in 1 .. n /\ m \in 0 .. n /\ n \in m + 1 .. n /\ n \in 2 .. n /\ m > 1 /\ m \in Nat
      /\ m < n /\ m + 1 = n /\ n \in 0 .. n /\ \A i \in m + 1 .. n : i = n
  BY <1>3, <1>4, OneDown, Zenon
<1>7. ~In(Cut(cstack, m), L) /\ cstack[m].f = "C function"
  BY <1>1, <1>3, <1>6, Alone
<1> HIDE DEF m, fs
<1>8. FramesTo(cstack, L, n) = 0
  <2>1. Len(Cut(cstack, m)) = m /\ Agree(Cut(cstack, m), cstack, m) /\ Cut(cstack, m) \in Stack
    BY <1>3, <1>6, CutParts
  <2>2. FramesTo(Cut(cstack, m), L, m) = 0
    BY <1>7, <2>1, NotIn
  <2>3. FramesTo(cstack, L, m) = 0
    BY <1>6, <2>1, <2>2, FramesAgree
  <2>4. Frames(cstack[n]) = 0
    BY <1>1, <1>3 DEF Frames
  <2>5. FramesTo(cstack, L, m + 1) = FramesTo(cstack, L, m)
          + IF cstack[m + 1].th = L THEN Frames(cstack[m + 1]) ELSE 0
    BY <1>3, <1>6, FramesStep
  <2>6. FramesTo(cstack, L, n) = 0 + 0
    BY <1>3, <1>6, <2>3, <2>4, <2>5, Zenon
  <2> HIDE DEF n
  <2> QED BY <2>6
<1>9. status[L] = "ok" => fs = <<>>
  <2>1. status[L] = "ok" => Len(fs) = 0
    BY <1>3, <1>8 DEF Owned
  <2> QED BY <1>3, <2>1, EmptySeq
<1>10. HandlerAt(cstack, L, m, errfunc[L])
  <2>1. \A i \in m + 1 .. n : ~PcallOf(cstack, L, i)
    BY <1>1, <1>3, <1>6 DEF PcallOf
  <2> HIDE DEF n
  <2> QED BY <1>3, <1>6, <2>1, HandlerSkip
<1>11. CallsTo(cstack, m) + 1 <= CallsTo(cstack, n) /\ CallsTo(cstack, m) \in Nat
  <2>1. cstack[n].f \in {"luaD_call", "lua_resume"}
    BY <1>1, <1>3
  <2> QED BY <1>3, <1>6, <2>1, CallsStrict, CallsNat
<1> HIDE DEF n
<1>12. nCcalls' \in [Thread -> Nat] /\ Elsewhere(L, nCcalls, nCcalls')
  <2>1. nCcalls[L] - 1 \in Nat
    BY <1>3, <1>11
  <2> QED BY <1>1, <1>2, <2>1 DEF TypeOK, Elsewhere
<1>13. Core(cstack', status', ci', baseCcalls', nCcalls', errfunc')
  <2>1. Fits(Cut(cstack, m), L, status[L], ci[L], nCcalls'[L], errfunc[L])
    BY <1>3, <1>6, <1>7, <1>9, <1>10, FitsGone DEF n, fs
  <2>2. Elsewhere(L, ci, ci) /\ Elsewhere(L, errfunc, errfunc) /\ Elsewhere(L, status, status)
    BY DEF Elsewhere
  <2>3. OnlyOf(cstack, m, L)
    BY <1>3, <1>6 DEF OnlyOf, n
  <2>4. Core(Cut(cstack, m), status, ci, baseCcalls, nCcalls', errfunc)
    BY <1>2, <1>6, <1>12, <2>1, <2>2, <2>3, CoreCut DEF n
  <2> QED BY <1>1, <1>5, <2>4
<1>14. TypeOK'
  BY <1>1, <1>2, <1>5, <1>12 DEF TypeOK, Stack
<1>15. Settled'
  BY <1>5, <1>6, <1>7 DEF Settled
<1>16. Reserve'
  <2>1. CallsTo(cstack', Len(cstack')) = CallsTo(cstack, m)
    BY <1>3, <1>5, <1>6, CallsCut DEF n
  <2>2. CallsTo(cstack, n) <= MaxCalls /\ CallsTo(cstack, n) \in Nat /\ MaxCalls \in Nat
    BY DepthBound DEF n
  <2>3. CallsTo(cstack, m) < MaxCalls /\ CallsTo(cstack, m) <= MaxCalls
    BY <1>11, <2>2, Room, Zenon
  <2> QED BY <2>1, <2>3 DEF Reserve
<1>17. States'
  <2>1. \A t : In(cstack', t) => In(cstack, t)
    BY <1>3, <1>5, <1>6, CutIn DEF n
  <2>2. ASSUME NEW t \in Thread, status[t] = "yield"
        PROVE  ~In(cstack', t)
    <3>1. Resume(t).th = t
      BY DEF Resume
    <3>2. In(cstack, t) => t = L
      BY <1>2, <1>3, <2>2, <3>1 DEF States, n
    <3> QED BY <1>5, <1>7, <2>1, <3>2
  <2> QED BY <1>1, <1>2, <2>1, <2>2 DEF States
<1>18. UpvaluesOnStack' /\ FramesFit'
  BY <1>1 DEF IInv, UpvaluesOnStack, FramesFit
<1> QED BY <1>13, <1>14, <1>15, <1>16, <1>17, <1>18 DEF IInv

----------------------------------------------------------------------------
(* The invariant. *)

(* One step of the machine, or none. *)
LEMMA NextInv ==
  ASSUME IInv, [Next]_vars
  PROVE  IInv'
<1>1. CASE LuaStep
  BY <1>1, OP_CALLInv, OP_TAILCALLInv, OP_CLOSUREInv, OP_RETURNInv DEF LuaStep
<1>2. CASE CallStep
  BY <1>2, lua_callInv, lua_pcallInv, ReturnFromCInv, ReturnFromCallInv DEF CallStep
<1>3. CASE ErrorStep
  BY <1>3, FailInv, luaG_errormsgInv, CatchInPcallInv, CatchInResumeInv DEF ErrorStep
<1>4. CASE CoroutineStep
  BY <1>4, luaB_cocreateInv, lua_resumeInv, ResumeErrorInv, lua_yieldInv, ReturnFromResumeInv
     DEF CoroutineStep
<1>5. CASE UNCHANGED vars
  <2>1. /\ created' = created /\ status' = status /\ pending' = pending /\ ci' = ci
        /\ size_ci' = size_ci /\ nCcalls' = nCcalls /\ baseCcalls' = baseCcalls
        /\ errfunc' = errfunc /\ openup' = openup /\ cstack' = cstack /\ raised' = raised
    BY <1>5 DEF vars, threadVars
  <2> QED BY <2>1 DEF IInv, TypeOK, Settled, Reserve, States, UpvaluesOnStack, FramesFit
<1> QED BY <1>1, <1>2, <1>3, <1>4, <1>5 DEF Next

(* The invariant holds of every reachable state: the records of the C stack  *)
(* are ordered as their callers require, what luaD_pcall and lua_resume save *)
(* agrees with the records below, and so does what every thread has.         *)
THEOREM Invariant == Spec => []IInv
<1>1. Init => IInv
  BY InitInv
<1>2. IInv /\ [Next]_vars => IInv'
  BY NextInv
<1> QED BY <1>1, <1>2, PTL DEF Spec

----------------------------------------------------------------------------
(* The safety properties. *)

(* Every variable keeps its type. *)
THEOREM TypeCorrect == Spec => []TypeOK
<1>1. IInv => TypeOK
  BY DEF IInv
<1> QED BY <1>1, Invariant, PTL

(* What the invariant says of a thread that waits for another, or runs. *)
LEMMA ActiveParts ==
  ASSUME IInv, NEW th \in Active
  PROVE  th \in Thread /\ Fits(cstack, th, "ok", ci[th], nCcalls[th], errfunc[th])
<1>1. th \in Thread /\ status[th] = "ok"
  BY DEF Active
<1>2. Fits(cstack, th, status[th], ci[th], nCcalls[th], errfunc[th])
  BY <1>1 DEF IInv, Core
<1> QED BY <1>1, <1>2

(* The frames of an active thread are those of the C calls that run them:    *)
(* luaV_execute leaves exactly with the frame it was entered with, whatever  *)
(* the thread has called, thrown or resumed since (nexeccalls in lvm.c).     *)
THEOREM FramesAreOwned == Spec => []FramesOwned
<1>1. IInv => FramesOwned
  <2> SUFFICES ASSUME IInv PROVE FramesOwned
    OBVIOUS
  <2>1. TypeOK
    BY DEF IInv
  <2>2. \A th \in Active : Owned(cstack, th, ci[th])
    BY ActiveParts DEF Fits
  <2> QED BY <2>1, <2>2 DEF FramesOwned
<1> QED BY <1>1, Invariant, PTL

(* nCcalls of an active thread is the number of C calls up to its last       *)
(* record, and the C stack never grows beyond the reserve of luaD_call.      *)
THEOREM CcallsAreCounted == Spec => []CcallsCounted
<1>1. IInv => CcallsCounted
  <2> SUFFICES ASSUME IInv, NEW th \in Active, NEW i \in DOMAIN cstack, LastOf(cstack, th, i)
               PROVE  /\ nCcalls[th] = CallsTo(cstack, i)
                      /\ nCcalls[th] <= LUAI_MAXCCALLS + CCALLS_SLACK
    BY DEF CcallsCounted
  <2> DEFINE n == Len(cstack)
  <2>1. cstack \in Stack /\ n \in Nat
    BY Running
  <2>2. i \in 1 .. n
    BY <2>1, StackParts
  <2>3. nCcalls[th] = CallsTo(cstack, i)
    BY <2>2, ActiveParts DEF Fits
  <2>4. CallsTo(cstack, n) <= MaxCalls /\ CallsTo(cstack, n) \in Nat /\ MaxCalls \in Nat
    BY DepthBound
  <2> HIDE DEF n
  <2>5. i \in 0 .. n /\ i \in Nat
    BY <2>1, <2>2
  <2>6. CallsTo(cstack, i) <= CallsTo(cstack, n) /\ CallsTo(cstack, i) \in Nat
    BY <2>1, <2>5, CallsMono, CallsNat
  <2>7. CallsTo(cstack, i) <= MaxCalls
    BY <2>4, <2>6
  <2> QED BY <2>3, <2>7 DEF MaxCalls
<1> QED BY <1>1, Invariant, PTL

(* A suspended coroutine has nothing on the C stack but the lua_resume that  *)
(* is about to return, and Lua frames below the C function that yielded: no  *)
(* C function and no protected call was abandoned (lua_yield).               *)
THEOREM NothingIsAbandoned == Spec => []NothingAbandoned
<1>1. IInv => NothingAbandoned
  <2> SUFFICES ASSUME IInv, NEW th \in Thread, status[th] = "yield"
               PROVE  /\ \A i \in DOMAIN cstack : cstack[i].th = th => cstack[i].f = "lua_resume"
                      /\ Len(ci[th]) > 1 /\ Last(ci[th]) = "C" /\ ToSet(Front(ci[th])) = {"Lua"}
    BY DEF NothingAbandoned
  <2> DEFINE n == Len(cstack)
             fs == ci[th]
  <2>1. Yielded(fs) /\ (In(cstack, th) => cstack[n] = Resume(th))
    BY DEF IInv, States
  <2>2. Shape(cstack) /\ cstack \in Stack /\ n \in Nat /\ n \in 1 .. n
    BY Running
  <2>3. ASSUME NEW i \in DOMAIN cstack, cstack[i].th = th
        PROVE  cstack[i].f = "lua_resume"
    <3>1. i \in 1 .. n
      BY <2>2, StackParts
    <3>2. cstack[n] = Resume(th)
      BY <2>1, <2>3, <3>1 DEF In
    <3>3. cstack[n].th = th /\ cstack[n].f = "lua_resume"
      BY <3>2 DEF Resume
    <3>4. n \notin i + 1 .. n
      BY <2>2, <2>3, <3>1, <3>3, Above
    <3> HIDE DEF n
    <3>5. i = n
      BY <2>2, <3>1, <3>4
    <3> QED BY <3>3, <3>5
  <2>4. fs \in Seq(FrameKind)
    BY DEF IInv, TypeOK
  <2> HIDE DEF fs
  <2>5. Len(fs) > 1 /\ fs[Len(fs)] = "C" /\ \A k \in 1 .. Len(fs) - 1 : fs[k] = "Lua"
    BY <2>1 DEF Yielded
  <2>6. Len(fs) \in Nat /\ Len(fs) > 0 /\ 1 \in 1 .. Len(fs) - 1
    BY <2>4, <2>5, LenProperties
  <2>7. /\ Front(fs) \in Seq(FrameKind) /\ Len(Front(fs)) + 1 = Len(fs) /\ Len(Front(fs)) \in Nat
        /\ \A k \in 1 .. Len(Front(fs)) : Front(fs)[k] = fs[k]
    BY <2>4, <2>6, Popped
  <2>8. DOMAIN Front(fs) = 1 .. Len(fs) - 1 /\ Len(Front(fs)) = Len(fs) - 1
    BY <2>6, <2>7, LenProperties
  <2>9. \A k \in 1 .. Len(fs) - 1 : Front(fs)[k] = "Lua"
    BY <2>5, <2>7, <2>8
  <2>10. ToSet(Front(fs)) = {"Lua"}
    BY <2>6, <2>8, <2>9 DEF ToSet
  <2>11. Last(fs) = "C"
    BY <2>5 DEF Last
  <2> QED BY <2>3, <2>5, <2>10, <2>11 DEF fs
<1> QED BY <1>1, Invariant, PTL

(* An error that has been raised is caught by its own thread, in a protected *)
(* call or in the lua_resume that runs it (luaD_throw, L->errorJmp).         *)
THEOREM ErrorsAreContained == Spec => []ErrorContained
<1>1. IInv => ErrorContained
  <2> SUFFICES ASSUME IInv, raised # "no"
               PROVE  \E i \in DOMAIN cstack :
                        /\ cstack[i].f \in {"luaD_pcall", "lua_resume"}
                        /\ \A j \in i .. Len(cstack) : cstack[j].th = L
    BY DEF ErrorContained
  <2>1. CatchesAt(cstack, L, errorJmp)
    BY Thrown
  <2>2. DOMAIN cstack = 1 .. Len(cstack) /\ Len(cstack) \in Nat
    BY Running, StackParts
  <2>3. errorJmp \in DOMAIN cstack
    BY <2>1, <2>2 DEF CatchesAt
  <2> QED BY <2>1, <2>3 DEF CatchesAt, Boundary
<1> QED BY <1>1, Invariant, PTL

(* The error handler in force is that of the innermost protected call of the *)
(* thread, however the calls above it have ended (old_errfunc).              *)
THEOREM HandlerIsInForce == Spec => []HandlerInForce
<1>1. IInv => HandlerInForce
  BY ActiveParts DEF HandlerInForce, Fits
<1> QED BY <1>1, Invariant, PTL

(* Every open upvalue names a register of a Lua frame that still exists      *)
(* (luaF_close).                                                             *)
THEOREM UpvaluesStayOnStack == Spec => []UpvaluesOnStack
<1>1. IInv => UpvaluesOnStack
  BY DEF IInv
<1> QED BY <1>1, Invariant, PTL

----------------------------------------------------------------------------
(* Fresh frames. *)

(* A step opens an upvalue only when it leaves the frames alone. *)
LEMMA UpvaluesOrFrames ==
  ASSUME IInv, Next
  PROVE  ci' = ci \/ \A th \in Thread : openup'[th] \subseteq openup[th]
<1>1. CASE LuaStep
  <2>1. OP_CALL => openup' = openup
    BY DEF OP_CALL
  <2>2. OP_TAILCALL => ci' = ci
    BY DEF OP_TAILCALL
  <2>3. OP_CLOSURE => ci' = ci
    BY DEF OP_CLOSURE
  <2>4. OP_RETURN => \A th \in Thread : openup'[th] \subseteq openup[th]
    BY ClosedParts DEF OP_RETURN
  <2> QED BY <1>1, <2>1, <2>2, <2>3, <2>4 DEF LuaStep
<1>2. CASE CallStep
  <2>1. \A kind \in FrameKind : lua_call(kind) => openup' = openup
    BY DEF lua_call
  <2>2. \A kind \in FrameKind, ef \in Handler : lua_pcall(kind, ef) => openup' = openup
    BY DEF lua_pcall
  <2>3. ReturnFromC => openup' = openup
    BY DEF ReturnFromC
  <2>4. ReturnFromCall => openup' = openup
    BY DEF ReturnFromCall, threadVars
  <2> QED BY <1>2, <2>1, <2>2, <2>3, <2>4 DEF CallStep
<1>3. CASE ErrorStep
  <2>1. Fail => openup' = openup
    BY DEF Fail, threadVars
  <2>2. \A kind \in FrameKind : luaG_errormsg(kind) => openup' = openup
    BY DEF luaG_errormsg
  <2>3. ASSUME CatchInPcall
        PROVE  \A th \in Thread : openup'[th] \subseteq openup[th]
    <3>1. openup' = [openup EXCEPT ![L] = ClosedAbove(cstack[errorJmp])]
      BY <2>3 DEF CatchInPcall
    <3>2. ClosedAbove(cstack[errorJmp]) \subseteq openup[L]
      BY DEF ClosedAbove
    <3>3. openup \in [Thread -> SUBSET Nat]
      BY DEF IInv, TypeOK
    <3> QED BY <3>1, <3>2, <3>3
  <2>4. CatchInResume => openup' = openup
    BY DEF CatchInResume
  <2> QED BY <1>3, <2>1, <2>2, <2>3, <2>4 DEF ErrorStep
<1>4. CASE CoroutineStep
  <2>1. \A co \in Thread : luaB_cocreate(co) => openup' = openup
    BY DEF luaB_cocreate, threadVars
  <2>2. \A co \in Thread : lua_resume(co) => openup' = openup
    BY DEF lua_resume
  <2>3. \A co \in Thread : ResumeError(co) => openup' = openup
    BY DEF ResumeError, threadVars
  <2>4. lua_yield => openup' = openup
    BY DEF lua_yield
  <2>5. ReturnFromResume => openup' = openup
    BY DEF ReturnFromResume, threadVars
  <2> QED BY <1>4, <2>1, <2>2, <2>3, <2>4, <2>5 DEF CoroutineStep
<1> QED BY <1>1, <1>2, <1>3, <1>4 DEF Next

(* A frame that is entered, or that a tail call takes over, has no open      *)
(* upvalues: those of the frame that was there before are closed.            *)
THEOREM FramesAreFresh == Spec => FreshFrames
<1>1. ASSUME IInv, IInv', Next
      PROVE  FreshFrameStep
  <2> SUFFICES ASSUME NEW th \in Thread,
                      \/ Len(ci'[th]) > Len(ci[th])
                      \/ th = L /\ OP_TAILCALL /\ raised' = "no"
               PROVE  Len(ci'[th]) \notin openup'[th]
    BY DEF FreshFrameStep
  <2>1. CASE Len(ci'[th]) > Len(ci[th])
    <3>1. ci[th] \in Seq(FrameKind) /\ ci'[th] \in Seq(FrameKind)
      BY <1>1 DEF IInv, TypeOK
    <3>2. Len(ci[th]) \in Nat /\ Len(ci'[th]) \in Nat /\ DOMAIN ci[th] = 1 .. Len(ci[th])
      BY <3>1, LenProperties
    <3>3. Len(ci'[th]) \notin DOMAIN ci[th]
      BY <2>1, <3>2
    <3>4. openup[th] \subseteq DOMAIN ci[th]
      BY <1>1 DEF IInv, UpvaluesOnStack
    <3>5. ci'[th] # ci[th]
      BY <2>1, <3>2
    <3>6. openup'[th] \subseteq openup[th]
      BY <1>1, <3>5, UpvaluesOrFrames
    <3> QED BY <3>3, <3>4, <3>6
  <2>2. CASE th = L /\ OP_TAILCALL /\ raised' = "no"
    <3>1. openup' = ClosedFrame /\ ci' = ci
      BY <2>2 DEF OP_TAILCALL
    <3> QED BY <1>1, <2>2, <3>1, ClosedParts
  <2> QED BY <2>1, <2>2
<1>2. IInv /\ IInv' /\ [Next]_vars => [FreshFrameStep]_vars
  BY <1>1
<1> QED BY <1>2, Invariant, PTL DEF Spec, FreshFrames

----------------------------------------------------------------------------
(* The refinement of Coroutines. *)

(* The state of coroutine th as costatus computes it, and as the C stack     *)
(* shows it: it runs when the last record is its own, waits when an earlier  *)
(* one is, and otherwise can go on if it has yielded or not begun.           *)
CoStates == [th \in Thread |-> IF th \in created THEN costatus(L, th) ELSE "none"]
AtRest(th) == IF status[th] = "yield" \/ (status[th] = "ok" /\ pending[th])
              THEN "suspended" ELSE "dead"
StateIs(th) ==
  CoStates[th] = IF th \notin created THEN "none"
                 ELSE IF th = L THEN "running"
                 ELSE IF In(cstack, th) THEN "normal" ELSE AtRest(th)

(* The two agree. *)
LEMMA StateShown == IInv => \A th \in Thread : StateIs(th)
<1> SUFFICES ASSUME IInv, NEW th \in Thread PROVE StateIs(th)
  OBVIOUS
<1>1. CASE th \notin created
  BY <1>1 DEF StateIs, CoStates
<1>2. CASE th \in created /\ th = L
  BY <1>2 DEF StateIs, CoStates, costatus
<1>3. /\ Fits(cstack, th, status[th], ci[th], nCcalls[th], errfunc[th])
      /\ status[th] \in {"ok", "yield", "error"} /\ ci[th] \in Seq(FrameKind)
  BY DEF IInv, Core, TypeOK
<1>4. cstack \in Stack /\ Shape(cstack) /\ L = cstack[Len(cstack)].th
  BY Running
<1>5. ASSUME th # L, In(cstack, th)
      PROVE  status[th] = "ok" /\ ci[th] # <<>>
  <2>1. status[th] # "error"
    BY <1>3, <1>5 DEF Fits
  <2>2. status[th] # "yield"
    <3>1. status[th] = "yield" => cstack[Len(cstack)] = Resume(th)
      BY <1>5 DEF IInv, States
    <3>2. Resume(th).th = th
      BY DEF Resume
    <3> QED BY <1>4, <1>5, <3>1, <3>2
  <2>3. status[th] = "ok"
    BY <1>3, <2>1, <2>2
  <2>4. Owned(cstack, th, ci[th])
    BY <1>3, <2>3 DEF Fits
  <2>5. Len(ci[th]) > 0
    BY <1>4, <1>5, <2>4, Normal
  <2>6. ~(Len(<<>>) > 0)
    BY NoFrames, Zenon
  <2>7. ci[th] # <<>>
    BY <2>5, <2>6, Zenon
  <2> QED BY <2>3, <2>7
<1>6. ASSUME status[th] = "ok", ~In(cstack, th)
      PROVE  ci[th] = <<>>
  <2>1. Owned(cstack, th, ci[th])
    BY <1>3, <1>6 DEF Fits
  <2>2. Len(ci[th]) = 0
    BY <1>4, <1>6, <2>1, NotIn DEF Owned
  <2> QED BY <1>3, <2>2, EmptySeq
<1>7. CASE th \in created /\ th # L
  <2>1. CoStates[th] = costatus(L, th)
    BY <1>7 DEF CoStates
  <2>2. CASE In(cstack, th)
    <3>1. costatus(L, th) = "normal"
      BY <1>5, <1>7, <2>2 DEF costatus
    <3> QED BY <1>7, <2>1, <2>2, <3>1 DEF StateIs
  <2>3. CASE ~In(cstack, th)
    <3>1. costatus(L, th) = AtRest(th)
      <4>1. CASE status[th] = "ok"
        BY <1>6, <1>7, <2>3, <4>1 DEF costatus, AtRest
      <4>2. CASE status[th] = "yield"
        BY <1>7, <4>2 DEF costatus, AtRest
      <4>3. CASE status[th] = "error"
        BY <1>7, <4>3 DEF costatus, AtRest
      <4> QED BY <1>3, <4>1, <4>2, <4>3
    <3> QED BY <1>7, <2>1, <2>3, <3>1 DEF StateIs
  <2> QED BY <2>2, <2>3
<1> QED BY <1>1, <1>2, <1>7

LEMMA StateShownNext == IInv' => \A th \in Thread : StateIs(th)'
<1>1. IInv => \A th \in Thread : StateIs(th)
  BY StateShown
<1>2. IInv' => (\A th \in Thread : StateIs(th))'
  BY <1>1, PTL
<1> QED BY <1>2

(* The running coroutine, before and after a step, and the records of the    *)
(* stack after it.                                                           *)
LEMMA RunningNext == IInv' => L' = cstack'[Len(cstack')].th /\ L' \in Thread /\ L' \in created'
<1>1. IInv => L = cstack[Len(cstack)].th /\ L \in Thread /\ L \in created
  BY Running
<1>2. IInv' => (L = cstack[Len(cstack)].th /\ L \in Thread /\ L \in created)'
  BY <1>1, PTL
<1> QED BY <1>2

LEMMA CoStateParts ==
  /\ CoStates = [th \in Thread |-> CoStates[th]]
  /\ CoStates' = [th \in Thread |-> CoStates'[th]]
BY DEF CoStates

(* A step that changes only the last records of the running thread shows     *)
(* nothing to the program.                                                   *)
LEMMA Unseen ==
  ASSUME IInv, IInv', Near(cstack, cstack', L), created' = created, pending' = pending,
         Elsewhere(L, status, status')
  PROVE  CoStates' = CoStates /\ Resumptions(cstack') = Resumptions(cstack)
<1>1. cstack \in Stack /\ cstack' \in Stack
  BY Running DEF IInv, TypeOK, Stack
<1>2. /\ \A t : In(cstack, t) <=> In(cstack', t)
      /\ Resumptions(cstack) = Resumptions(cstack')
      /\ L' = L
  BY <1>1, NearParts, RunningNext
<1>3. ASSUME NEW th \in Thread
      PROVE  CoStates'[th] = CoStates[th]
  <2>1. StateIs(th) /\ StateIs(th)'
    BY StateShown, StateShownNext
  <2>2. th # L => AtRest(th)' = AtRest(th)
    BY DEF AtRest, Elsewhere
  <2>3. In(cstack, th) <=> In(cstack', th)
    BY <1>2
  <2> QED BY <1>2, <2>1, <2>2, <2>3 DEF StateIs
<1>4. CoStates' = CoStates
  BY <1>3, CoStateParts
<1> QED BY <1>2, <1>4

(* lua_newthread makes a coroutine that can be resumed. *)
LEMMA SeesCreate ==
  ASSUME IInv, IInv', NEW co \in Thread, luaB_cocreate(co)
  PROVE  Promise!Create(co)
<1>1. /\ co \notin created /\ created' = created \cup {co} /\ cstack' = cstack
      /\ pending' = [pending EXCEPT ![co] = TRUE] /\ status' = status
  BY DEF luaB_cocreate, threadVars
<1>2. status[co] = "ok" /\ ~In(cstack, co) /\ pending \in [Thread -> BOOLEAN]
  BY <1>1 DEF IInv, States, TypeOK
<1>3. L' = L /\ L # co
  BY <1>1, Running, RunningNext
<1>4. CoStates[co] = "none"
  BY <1>1, StateShown DEF StateIs
<1>5. CoStates'[co] = "suspended"
  <2>1. StateIs(co)'
    BY StateShownNext
  <2>2. AtRest(co)' = "suspended"
    BY <1>1, <1>2 DEF AtRest
  <2> QED BY <1>1, <1>2, <1>3, <2>1, <2>2 DEF StateIs
<1>6. ASSUME NEW th \in Thread, th # co
      PROVE  CoStates'[th] = CoStates[th]
  <2>1. StateIs(th) /\ StateIs(th)'
    BY StateShown, StateShownNext
  <2>2. AtRest(th)' = AtRest(th)
    BY <1>1, <1>2, <1>6 DEF AtRest
  <2> QED BY <1>1, <1>3, <1>6, <2>1, <2>2 DEF StateIs
<1>7. CoStates' = [CoStates EXCEPT ![co] = "suspended"]
  BY <1>5, <1>6, CoStateParts
<1>8. Resumptions(cstack') = Resumptions(cstack)
  BY <1>1
<1> QED BY <1>4, <1>7, <1>8 DEF Promise!Create, CoStates

(* The resumptions that a new record adds. *)
LEMMA ResumptionsPush ==
  ASSUME NEW cs \in Stack, Len(cs) > 0, NEW r \in Record
  PROVE  Resumptions(Append(cs, r)) =
           IF r.f = "lua_resume" THEN Resumptions(cs) \cup {<<cs[Len(cs)].th, r.th>>}
           ELSE Resumptions(cs)
<1> DEFINE n == Len(cs)
           ds == Append(cs, r)
<1>1. /\ n \in Nat /\ Len(ds) = n + 1 /\ ds[n + 1] = r /\ \A i \in 1 .. n : ds[i] = cs[i]
  BY PushParts, StackParts
<1> HIDE DEF ds
<1>2. n > 0 /\ n \in 1 .. n
  BY <1>1
<1> HIDE DEF n
<1>3. 2 .. n + 1 = 2 .. n \cup {n + 1} /\ (n + 1) - 1 = n
  BY <1>1, <1>2
<1>4. \A i \in 2 .. n : i \in 1 .. n /\ i - 1 \in 1 .. n
  BY <1>1
<1>5. \A i \in 2 .. n : ds[i] = cs[i] /\ ds[i - 1] = cs[i - 1]
  BY <1>1, <1>4
<1>6. ds[(n + 1) - 1] = cs[n]
  BY <1>1, <1>2, <1>3
<1>7. ASSUME NEW p
      PROVE  p \in Resumptions(ds) <=>
               p \in Resumptions(cs) \/ (r.f = "lua_resume" /\ p = <<cs[n].th, r.th>>)
  <2>1. p \in Resumptions(ds) <=>
          \E i \in 2 .. n + 1 : ds[i].f = "lua_resume" /\ p = <<ds[i - 1].th, ds[i].th>>
    BY <1>1, Zenon DEF Resumptions
  <2>2. p \in Resumptions(cs) <=>
          \E i \in 2 .. n : cs[i].f = "lua_resume" /\ p = <<cs[i - 1].th, cs[i].th>>
    BY Zenon DEF Resumptions, n
  <2>3. (\E i \in 2 .. n : ds[i].f = "lua_resume" /\ p = <<ds[i - 1].th, ds[i].th>>)
          <=> p \in Resumptions(cs)
    BY <1>5, <2>2
  <2>4. (ds[n + 1].f = "lua_resume" /\ p = <<ds[(n + 1) - 1].th, ds[n + 1].th>>)
          <=> (r.f = "lua_resume" /\ p = <<cs[n].th, r.th>>)
    BY <1>1, <1>6, Zenon
  <2>5. n + 1 \in 2 .. n + 1 /\ \A i \in 2 .. n + 1 : i \in 2 .. n \/ i = n + 1
    BY <1>3
  <2>6. \A i \in 2 .. n : i \in 2 .. n + 1
    BY <1>3
  <2> QED BY <2>1, <2>3, <2>4, <2>5, <2>6, Zenon
<1> QED BY <1>7 DEF ds, n

(* lua_resume: the resumer waits for the coroutine, which runs. *)
LEMMA SeesResume ==
  ASSUME IInv, IInv', NEW co \in Thread, lua_resume(co)
  PROVE  Promise!Resume(L, co)
<1> DEFINE n == Len(cstack)
           ds == Append(cstack, Resume(co))
<1>1. /\ co \in created /\ costatus(L, co) = "suspended" /\ created' = created
      /\ pending' = [pending EXCEPT ![co] = FALSE]
      /\ status' = status \/ status' = [status EXCEPT ![co] = "ok"]
      /\ raised = "no" /\ Top.f = "C function"
  BY DEF lua_resume, InFunction, Doing
<1>2. /\ cstack \in Stack /\ n > 0 /\ n \in Nat /\ n \in 1 .. n /\ L = cstack[n].th
      /\ L \in Thread /\ L \in created
  BY Running
<1>3. co # L /\ ~In(cstack, co)
  BY <1>1, SuspendedOut
<1>4. Resume(co) \in Record /\ Resume(co).th = co /\ Resume(co).f = "lua_resume"
  <2>1. Resume(co) \in Record
    BY RecordTypes
  <2> QED BY <2>1 DEF Resume
<1>5. /\ ds \in Stack /\ Len(ds) = n + 1 /\ ds[n + 1] = Resume(co)
      /\ \A i \in 1 .. n : ds[i] = cstack[i]
  BY <1>2, <1>4, PushParts
<1>6. Resumptions(ds) = Resumptions(cstack) \cup {<<L, co>>}
  BY <1>2, <1>4, ResumptionsPush
<1>7. \A t : In(ds, t) => In(cstack, t) \/ t = co
  BY <1>2, <1>4, PushedIn
<1>8. \A t : In(cstack, t) => In(ds, t)
  BY <1>2, <1>5 DEF In
<1>9. Len(ds) > 0 /\ Len(ds) \in Nat
  BY <1>2, <1>5
<1> HIDE DEF ds, n
<1>10. /\ Resumptions(cstack') = Resumptions(cstack) \cup {<<L, co>>}
       /\ \A t : In(cstack', t) => In(cstack, t) \/ t = co
       /\ \A t : In(cstack, t) => In(cstack', t)
       /\ L' = co
  <2>1. cstack' = ds \/ \E v \in Nat : cstack' = Append(ds, Execute(co, v))
    BY lua_resumeInv DEF ds
  <2>2. CASE cstack' = ds
    <3>1. L' = co
      BY <1>4, <1>5, <2>2, RunningNext
    <3> QED BY <1>6, <1>7, <1>8, <2>2, <3>1
  <2>3. ASSUME NEW v \in Nat, cstack' = Append(ds, Execute(co, v))
        PROVE  /\ Resumptions(cstack') = Resumptions(cstack) \cup {<<L, co>>}
               /\ \A t : In(cstack', t) => In(cstack, t) \/ t = co
               /\ \A t : In(cstack, t) => In(cstack', t)
               /\ L' = co
    <3>1. Execute(co, v) \in Record /\ Execute(co, v).th = co /\ Execute(co, v).f # "lua_resume"
      <4>1. Execute(co, v) \in Record
        BY RecordTypes
      <4> QED BY <4>1 DEF Execute
    <3>2. Resumptions(cstack') = Resumptions(ds)
      BY <1>5, <1>9, <2>3, <3>1, ResumptionsPush
    <3>3. \A t : In(cstack', t) => In(ds, t) \/ t = co
      BY <1>5, <2>3, <3>1, PushedIn
    <3>4. /\ Len(cstack') = Len(ds) + 1 /\ cstack'[Len(ds) + 1] = Execute(co, v)
          /\ \A i \in 1 .. Len(ds) : cstack'[i] = ds[i]
      BY <1>5, <2>3, <3>1, PushParts
    <3>5. L' = co
      BY <3>1, <3>4, RunningNext
    <3>6. \A i \in 1 .. Len(ds) : i \in 1 .. Len(cstack')
      BY <1>9, <3>4
    <3>7. \A t : In(ds, t) => In(cstack', t)
      BY <3>4, <3>6 DEF In
    <3> QED BY <1>6, <1>7, <1>8, <3>2, <3>3, <3>5, <3>7
  <2> QED BY <2>1, <2>2, <2>3
<1>11. CoStates[L] = "running" /\ CoStates[co] = "suspended"
  <2>1. CoStates[L] = "running"
    BY <1>2, StateShown DEF StateIs
  <2> QED BY <1>1, <2>1 DEF CoStates
<1>12. CoStates'[L] = "normal" /\ CoStates'[co] = "running"
  <2>1. PICK l \in Thread : l = L
    BY <1>2
  <2>2. StateIs(l)' /\ StateIs(co)'
    BY StateShownNext
  <2>3. In(cstack, l)
    BY <1>2, <2>1 DEF In, n
  <2>4. In(cstack', l)
    BY <1>10, <2>3
  <2>5. CoStates'[l] = "normal"
    BY <1>1, <1>2, <1>3, <1>10, <2>1, <2>2, <2>4 DEF StateIs
  <2>6. CoStates'[co] = "running"
    BY <1>1, <1>10, <2>2 DEF StateIs
  <2> QED BY <2>1, <2>5, <2>6
<1>13. ASSUME NEW th \in Thread, th # co, th # L
       PROVE  CoStates'[th] = CoStates[th]
  <2>1. StateIs(th) /\ StateIs(th)'
    BY StateShown, StateShownNext
  <2>2. AtRest(th)' = AtRest(th)
    BY <1>1, <1>13 DEF AtRest, IInv, TypeOK
  <2>3. In(cstack, th) <=> In(cstack', th)
    BY <1>10, <1>13
  <2> QED BY <1>1, <1>10, <1>13, <2>1, <2>2, <2>3 DEF StateIs
<1>14. CoStates' = [CoStates EXCEPT ![L] = "normal", ![co] = "running"]
  BY <1>2, <1>3, <1>12, <1>13, CoStateParts
<1> QED BY <1>10, <1>11, <1>14 DEF Promise!Resume, CoStates

(* resume_error on a full C stack drops a coroutine that has not begun; one  *)
(* that has yielded stays as it is.                                          *)
LEMMA SeesDrop ==
  ASSUME IInv, IInv', NEW co \in Thread, ResumeError(co)
  PROVE  /\ Resumptions(cstack') = Resumptions(cstack)
         /\ Promise!Drop(co) \/ CoStates' = CoStates
<1>1. /\ co \in created /\ costatus(L, co) = "suspended" /\ created' = created
      /\ pending' = [pending EXCEPT ![co] = FALSE] /\ status' = status /\ cstack' = cstack
      /\ raised = "no" /\ Top.f = "C function"
  BY DEF ResumeError, InFunction, Doing, threadVars
<1>2. co # L /\ ~In(cstack, co) /\ status[co] \in {"ok", "yield"}
  BY <1>1, SuspendedOut
<1>3. L' = L /\ pending \in [Thread -> BOOLEAN]
  BY <1>1, Running, RunningNext DEF IInv, TypeOK
<1>4. CoStates[co] = "suspended"
  BY <1>1 DEF CoStates
<1>5. CoStates'[co] = IF status[co] = "yield" THEN "suspended" ELSE "dead"
  <2>1. StateIs(co)'
    BY StateShownNext
  <2>2. AtRest(co)' = IF status[co] = "yield" THEN "suspended" ELSE "dead"
    BY <1>1, <1>3 DEF AtRest
  <2> QED BY <1>1, <1>2, <1>3, <2>1, <2>2 DEF StateIs
<1>6. ASSUME NEW th \in Thread, th # co
      PROVE  CoStates'[th] = CoStates[th]
  <2>1. StateIs(th) /\ StateIs(th)'
    BY StateShown, StateShownNext
  <2>2. AtRest(th)' = AtRest(th)
    BY <1>1, <1>3, <1>6 DEF AtRest
  <2> QED BY <1>1, <1>3, <2>1, <2>2 DEF StateIs
<1>7. Resumptions(cstack') = Resumptions(cstack)
  BY <1>1
<1>8. CASE status[co] = "yield"
  <2>1. CoStates' = CoStates
    BY <1>4, <1>5, <1>6, <1>8, CoStateParts
  <2> QED BY <1>7, <2>1
<1>9. CASE status[co] # "yield"
  <2>1. CoStates' = [CoStates EXCEPT ![co] = "dead"]
    BY <1>5, <1>6, <1>9, CoStateParts
  <2>2. Promise!Drop(co)
    BY <1>4, <1>7, <2>1 DEF Promise!Drop, CoStates
  <2> QED BY <1>7, <2>2
<1> QED BY <1>8, <1>9

(* The resumptions that are left when the innermost one goes. *)
LEMMA ResumptionsCut ==
  ASSUME NEW cs, Shape(cs), NEW e \in 2 .. Len(cs), cs[e].f = "lua_resume",
         cs[e].th = cs[Len(cs)].th
  PROVE  /\ Resumptions(Cut(cs, e - 1)) = Resumptions(cs) \ {<<cs[e - 1].th, cs[e].th>>}
         /\ <<cs[e - 1].th, cs[e].th>> \in Resumptions(cs)
         /\ \A t : In(Cut(cs, e - 1), t) <=> In(cs, t) /\ t # cs[e].th
<1> DEFINE n == Len(cs)
           m == e - 1
           ds == Cut(cs, m)
           pair == <<cs[m].th, cs[e].th>>
<1>1. n \in Nat /\ cs \in Stack /\ e \in 2 .. n
  BY ShapeParts
<1>2. /\ e \in Nat /\ e \in 1 .. n /\ m \in 1 .. n /\ m \in 0 .. n /\ m \in Nat /\ m + 1 = e
  BY <1>1, Within, Zenon
<1>3. Len(ds) = m /\ \A i \in 1 .. m : ds[i] = cs[i]
  BY <1>1, <1>2, CutParts
<1>4. ~In(ds, cs[e].th)
  BY Alone
<1>5. /\ \A j \in e .. n : cs[j].th = cs[e].th
      /\ \A j \in e + 1 .. n : cs[j].f # "lua_resume"
  BY <1>2, Above
<1>6. pair \in Resumptions(cs)
  BY <1>1 DEF Resumptions
<1> HIDE DEF n, ds
<1>7. /\ \A i \in 1 .. n : i \in 1 .. m \/ i \in e .. n
      /\ \A i \in 2 .. n : i \in 2 .. m \/ i = e \/ i \in e + 1 .. n
      /\ \A i \in 2 .. m : i \in 2 .. n /\ i \in 1 .. m /\ i - 1 \in 1 .. m
      /\ \A i \in 1 .. m : i \in 1 .. n
  BY <1>1, <1>2
<1> HIDE DEF m
<1>8. \A t : In(ds, t) <=> In(cs, t) /\ t # cs[e].th
  <2>1. \A t : In(ds, t) => In(cs, t)
    BY <1>3, <1>7 DEF In, n
  <2>2. \A t : In(ds, t) => t # cs[e].th
    BY <1>4
  <2>3. ASSUME NEW t, NEW i \in 1 .. n, cs[i].th = t, t # cs[e].th
        PROVE  In(ds, t)
    <3>1. i \in 1 .. m
      BY <1>5, <1>7, <2>3
    <3> QED BY <1>3, <2>3, <3>1 DEF In
  <2> QED BY <2>1, <2>2, <2>3 DEF In, n
<1>9. ASSUME NEW p
      PROVE  p \in Resumptions(ds) <=> p \in Resumptions(cs) /\ p # pair
  <2>1. p \in Resumptions(ds) <=>
          \E i \in 2 .. m : ds[i].f = "lua_resume" /\ p = <<ds[i - 1].th, ds[i].th>>
    BY <1>3, Zenon DEF Resumptions
  <2>2. p \in Resumptions(cs) <=>
          \E i \in 2 .. n : cs[i].f = "lua_resume" /\ p = <<cs[i - 1].th, cs[i].th>>
    BY Zenon DEF Resumptions, n
  <2>3. \A i \in 2 .. m : ds[i] = cs[i] /\ ds[i - 1] = cs[i - 1] /\ i \in 2 .. n
    BY <1>3, <1>7
  <2>4. p \in Resumptions(ds) => p \in Resumptions(cs)
    BY <2>1, <2>2, <2>3
  <2>5. p \in Resumptions(ds) => p # pair
    <3>1. \A i \in 2 .. m : cs[i].th # cs[e].th
      <4>1. \A i \in 1 .. m : cs[i].th # cs[e].th
        BY <1>3, <1>4 DEF In
      <4> QED BY <1>7, <4>1
    <3>2. ASSUME NEW i \in 2 .. m, p = <<ds[i - 1].th, ds[i].th>>, p = pair
          PROVE  FALSE
      <4>1. ds[i].th = cs[e].th
        BY <3>2
      <4> QED BY <2>3, <3>1, <4>1
    <3> QED BY <2>1, <3>2
  <2>6. ASSUME p \in Resumptions(cs), p # pair
        PROVE  p \in Resumptions(ds)
    <3>1. PICK i \in 2 .. n : cs[i].f = "lua_resume" /\ p = <<cs[i - 1].th, cs[i].th>>
      BY <2>2, <2>6
    <3>2. i # e
      BY <2>6, <3>1 DEF m
    <3>3. i \in 2 .. m
      BY <1>5, <1>7, <3>1, <3>2
    <3> QED BY <2>1, <2>3, <3>1, <3>3
  <2> QED BY <2>4, <2>5, <2>6
<1>10. Resumptions(ds) = Resumptions(cs) \ {pair}
  BY <1>9
<1> QED BY <1>6, <1>8, <1>10 DEF ds, m

(* The running coroutine yields, returns or fails: its resumer goes on. *)
LEMMA SeesGiveBack ==
  ASSUME IInv, IInv', NEW e \in 2 .. Len(cstack), cstack[e].f = "lua_resume",
         cstack[e].th = L, cstack' = Cut(cstack, e - 1), created' = created,
         Elsewhere(L, status, status'), Elsewhere(L, pending, pending')
  PROVE  \E r, c \in Thread : Promise!GiveBack(r, c)
<1> DEFINE m == e - 1
<1>1. Shape(cstack) /\ L = cstack[Len(cstack)].th /\ L \in Thread /\ Len(cstack) \in Nat
      /\ cstack \in Stack /\ L \in created
  BY Running
<1>2. PICK l \in Thread : l = L
  BY <1>1
<1>3. m \in 1 .. Len(cstack) /\ m \in 0 .. Len(cstack) /\ m \in 1 .. m
  BY <1>1
<1>4. Len(cstack') = m /\ cstack'[m] = cstack[m]
  BY <1>1, <1>3, CutParts
<1>5. PICK r \in Thread : r = cstack[m].th
  BY <1>1, <1>3, ShapeParts
<1>6. /\ Resumptions(cstack') = Resumptions(cstack) \ {<<r, l>>}
      /\ <<r, l>> \in Resumptions(cstack)
      /\ \A t : In(cstack', t) <=> In(cstack, t) /\ t # l
  <2>1. cstack[e].th = cstack[Len(cstack)].th /\ cstack[e].th = l
    BY <1>1, <1>2
  <2>2. /\ Resumptions(Cut(cstack, m)) = Resumptions(cstack) \ {<<cstack[m].th, cstack[e].th>>}
        /\ <<cstack[m].th, cstack[e].th>> \in Resumptions(cstack)
        /\ \A t : In(Cut(cstack, m), t) <=> In(cstack, t) /\ t # cstack[e].th
    BY <1>1, <2>1, ResumptionsCut
  <2>3. cstack' = Cut(cstack, m)
    OBVIOUS
  <2> HIDE DEF m
  <2> QED BY <1>5, <2>1, <2>2, <2>3
<1>7. L' = r
  BY <1>4, <1>5, RunningNext
<1>8. r # l
  BY <1>1, <1>2, <1>5, Alone
<1>9. In(cstack, r) /\ In(cstack, l)
  BY <1>1, <1>2, <1>3, <1>5, ShapeParts DEF In
<1> HIDE DEF m
<1>10. \A th \in Thread : StateIs(th) /\ StateIs(th)'
  BY StateShown, StateShownNext
<1>11. r \in created
  BY <1>9 DEF IInv, States
<1>12. CoStates[l] = "running" /\ CoStates'[r] = "running"
  BY <1>1, <1>2, <1>7, <1>10, <1>11 DEF StateIs
<1>13. CoStates'[l] \in {"suspended", "dead"}
  <2>1. AtRest(l)' \in {"suspended", "dead"}
    BY DEF AtRest
  <2>2. ~In(cstack', l)
    BY <1>6
  <2> QED BY <1>1, <1>2, <1>7, <1>8, <1>10, <2>1, <2>2 DEF StateIs
<1>14. ASSUME NEW th \in Thread, th # l, th # r
       PROVE  CoStates'[th] = CoStates[th]
  <2>1. AtRest(th)' = AtRest(th)
    BY <1>2, <1>14 DEF AtRest, Elsewhere
  <2>2. In(cstack', th) <=> In(cstack, th)
    BY <1>6, <1>14
  <2> QED BY <1>2, <1>7, <1>10, <1>14, <2>1, <2>2 DEF StateIs
<1>15. CoStates' = [CoStates EXCEPT ![l] = CoStates'[l], ![r] = "running"]
  BY <1>12, <1>14, CoStateParts
<1>16. \E end \in {"suspended", "dead"} :
         CoStates' = [CoStates EXCEPT ![l] = end, ![r] = "running"]
  BY <1>13, <1>15
<1>17. Promise!GiveBack(r, l)
  BY <1>6, <1>12, <1>16 DEF Promise!GiveBack, CoStates
<1> QED BY <1>17

(* One step of the machine is a step of Coroutines, or shows nothing of them. *)
LEMMA SeesNext ==
  ASSUME IInv, IInv', Next
  PROVE  Promise!Next \/ (CoStates' = CoStates /\ Resumptions(cstack') = Resumptions(cstack))
<1> DEFINE Goal == \/ Promise!Next
                   \/ CoStates' = CoStates /\ Resumptions(cstack') = Resumptions(cstack)
<1>1. ASSUME Near(cstack, cstack', L), ThreadsKept
      PROVE  Goal
  <2>1. /\ created' = created /\ pending' = pending /\ Elsewhere(L, status, status')
    BY <1>1 DEF ThreadsKept, Elsewhere
  <2> QED BY <1>1, <2>1, Unseen
<1>2. CASE LuaStep
  <2>1. Near(cstack, cstack', L) /\ ThreadsKept
    BY <1>2, OP_CALLInv, OP_TAILCALLInv, OP_CLOSUREInv, OP_RETURNInv DEF LuaStep
  <2> QED BY <1>1, <2>1
<1>3. CASE CallStep
  <2>1. Near(cstack, cstack', L) /\ ThreadsKept
    BY <1>3, lua_callInv, lua_pcallInv, ReturnFromCInv, ReturnFromCallInv DEF CallStep
  <2> QED BY <1>1, <2>1
<1>4. CASE CatchInResume
  <2>1. /\ raised = "throw" /\ cstack[errorJmp].f = "lua_resume"
        /\ cstack' = SubSeq(cstack, 1, errorJmp - 1) /\ created' = created /\ pending' = pending
        /\ status' = [status EXCEPT ![L] = "error"]
    BY <1>4 DEF CatchInResume
  <2>2. /\ errorJmp \in 2 .. Len(cstack) /\ cstack[errorJmp].th = L
        /\ cstack' = Cut(cstack, errorJmp - 1)
    BY <2>1, CaughtParts
  <2>3. Elsewhere(L, status, status') /\ Elsewhere(L, pending, pending')
    BY <2>1 DEF Elsewhere, IInv, TypeOK
  <2>4. \E r, c \in Thread : Promise!GiveBack(r, c)
    BY <2>1, <2>2, <2>3, SeesGiveBack
  <2> QED BY <2>4 DEF Promise!Next
<1>5. CASE ErrorStep
  <2>1. CatchInResume \/ (Near(cstack, cstack', L) /\ ThreadsKept)
    BY <1>5, FailInv, luaG_errormsgInv, CatchInPcallInv DEF ErrorStep
  <2> QED BY <1>1, <1>4, <2>1
<1>6. ASSUME NEW co \in Thread, luaB_cocreate(co)
      PROVE  Goal
  <2>1. Promise!Create(co)
    BY <1>6, SeesCreate
  <2> QED BY <2>1 DEF Promise!Next
<1>7. ASSUME NEW co \in Thread, lua_resume(co)
      PROVE  Goal
  <2>1. Promise!Resume(L, co) /\ L \in Thread
    BY <1>7, SeesResume, Running
  <2>2. \E r, c \in Thread : Promise!Resume(r, c)
    BY <2>1
  <2> QED BY <2>2 DEF Promise!Next
<1>8. ASSUME NEW co \in Thread, ResumeError(co)
      PROVE  Goal
  <2>1. /\ Resumptions(cstack') = Resumptions(cstack)
        /\ Promise!Drop(co) \/ CoStates' = CoStates
    BY <1>8, SeesDrop
  <2>2. Promise!Drop(co) => Promise!Next
    BY DEF Promise!Next
  <2> QED BY <2>1, <2>2
<1>9. CASE lua_yield
  <2>1. /\ Near(cstack, cstack', L) /\ created' = created /\ pending' = pending
        /\ Elsewhere(L, status, status')
    BY <1>9, lua_yieldInv
  <2> QED BY <2>1, Unseen
<1>10. CASE ReturnFromResume
  <2> DEFINE n == Len(cstack)
  <2>1. /\ raised = "no" /\ Top.f = "lua_resume" /\ cstack' = Front(cstack)
        /\ pending' = pending \/ pending' = [pending EXCEPT ![L] = TRUE]
        /\ created' = created /\ status' = status
    BY <1>10 DEF ReturnFromResume, Doing, threadVars
  <2>2. /\ Shape(cstack) /\ cstack \in Stack /\ L = cstack[n].th /\ Top = cstack[n] /\ n \in Nat
    BY Running
  <2>3. n > 1
    BY <2>1, <2>2, AboveHost
  <2>4. cstack' = Cut(cstack, n - 1)
    BY <2>1, <2>2, <2>3, FrontCut
  <2>5. n \in 2 .. n
    <3> HIDE DEF n
    <3> QED BY <2>2, <2>3
  <2>6. Elsewhere(L, status, status') /\ Elsewhere(L, pending, pending')
    BY <2>1 DEF Elsewhere, IInv, TypeOK
  <2>7. \E r, c \in Thread : Promise!GiveBack(r, c)
    BY <2>1, <2>2, <2>4, <2>5, <2>6, SeesGiveBack
  <2> QED BY <2>7 DEF Promise!Next
<1>11. CASE CoroutineStep
  BY <1>6, <1>7, <1>8, <1>9, <1>10, <1>11 DEF CoroutineStep
<1> QED BY <1>2, <1>3, <1>5, <1>11 DEF Next

(* The threads are the coroutines that Coroutines promises: one runs, those  *)
(* that have resumed others wait for them, what a resumed one ends with goes *)
(* to the one that resumed it, and an ended one is never resumed again       *)
(* (luaB_costatus, lua_resume, lua_yield, resume_error).                     *)
THEOREM CoroutinesAreImplemented == Spec => ImplementsCoroutines
<1>1. Init => Promise!Init
  <2> SUFFICES ASSUME Init PROVE Promise!Init
    OBVIOUS
  <2>1. /\ created = {MainThread} /\ cstack = <<CFunction(MainThread)>>
    BY DEF Init
  <2>2. CFunction(MainThread) \in Record /\ CFunction(MainThread).th = MainThread
    <3>1. CFunction(MainThread) \in Record
      BY MainAssumption, RecordTypes
    <3> QED BY <3>1 DEF CFunction
  <2>3. Len(cstack) = 1 /\ cstack[1].th = MainThread
    BY <2>1, <2>2, Single
  <2>4. Resumptions(cstack) = {}
    <3>1. 2 .. 1 = {}
      OBVIOUS
    <3> QED BY <2>3, <3>1 DEF Resumptions
  <2>5. L = MainThread
    BY <2>3 DEF L, Top, Last
  <2>6. \A th \in Thread :
          (IF th \in created THEN costatus(L, th) ELSE "none")
            = IF th = MainThread THEN "running" ELSE "none"
    BY <2>1, <2>5 DEF costatus
  <2> QED BY <2>4, <2>6 DEF Promise!Init
<1>2. IInv /\ IInv' /\ [Next]_vars => [Promise!Next]_Promise!vars
  <2> SUFFICES ASSUME IInv, IInv', [Next]_vars PROVE [Promise!Next]_Promise!vars
    OBVIOUS
  <2>1. CASE Next
    <3>1. Promise!Next \/ (CoStates' = CoStates /\ Resumptions(cstack') = Resumptions(cstack))
      BY <2>1, SeesNext
    <3> QED BY <3>1 DEF Promise!vars, CoStates
  <2>2. CASE UNCHANGED vars
    <3>1. /\ cstack' = cstack /\ created' = created /\ status' = status /\ pending' = pending
          /\ ci' = ci
      BY <2>2 DEF vars, threadVars
    <3>2. L' = L
      BY <3>1 DEF L, Top
    <3>3. CoStates' = CoStates /\ Resumptions(cstack') = Resumptions(cstack)
      BY <3>1, <3>2 DEF CoStates, costatus
    <3> QED BY <3>3 DEF Promise!vars, CoStates
  <2> QED BY <2>1, <2>2
<1> QED BY <1>1, <1>2, Invariant, PTL DEF Spec, ImplementsCoroutines, Promise!Spec
=============================================================================
