--------------------------- MODULE LuaDoStack_proofs ---------------------------
(***************************************************************************)
(* Facts about C stacks that the proofs of LuaDo rest on: what a pushed or  *)
(* a dropped record changes of the calls and the frames a stack counts, of  *)
(* the handler in force and of the order of the records.  Then the          *)
(* inductive invariant of LuaDo, which relates the C stack to the threads,  *)
(* its base case, and what a call does to it.                               *)
(***************************************************************************)
EXTENDS LuaDo, Induction, SequenceTheorems

Stack == Seq(Record)

(* Two stacks have the same first n records. *)
Agree(cs, ds, n) == \A i \in 1 .. n : cs[i] = ds[i]
Cut(cs, m) == SubSeq(cs, 1, m)
In(cs, th) == \E i \in 1 .. Len(cs) : cs[i].th = th

LEMMA RecordParts ==
  ASSUME NEW r \in Record
  PROVE  /\ r.th \in Thread
         /\ r.f \in {"luaV_execute", "C function", "luaD_call", "luaG_errormsg", "lua_resume",
                     "luaD_pcall"}
         /\ r.f = "luaV_execute" => r.nexeccalls \in Nat /\ r = Execute(r.th, r.nexeccalls)
         /\ r.f = "lua_resume" => r = Resume(r.th)
         /\ r.f = "luaD_pcall" => /\ r.ef \in Handler /\ r.old_errfunc \in Handler
                                  /\ r.old_ci \in Nat /\ r.oldnCcalls \in Nat
         /\ Frames(r) \in Nat
<1>1. CASE r \in [f : {"luaV_execute"}, th : Thread, nexeccalls : Nat]
  BY <1>1 DEF Execute, Frames
<1>2. CASE r \in [f : {"C function", "luaD_call", "luaG_errormsg", "lua_resume"}, th : Thread]
  BY <1>2 DEF Resume, Frames
<1>3. CASE r \in [f : {"luaD_pcall"}, th : Thread, ef : Handler, old_errfunc : Handler,
                  old_ci : Nat, oldnCcalls : Nat]
  BY <1>3 DEF Frames
<1> QED BY <1>1, <1>2, <1>3 DEF Record

LEMMA StackParts ==
  ASSUME NEW cs \in Stack
  PROVE  /\ Len(cs) \in Nat /\ DOMAIN cs = 1 .. Len(cs)
         /\ \A i \in 1 .. Len(cs) : cs[i] \in Record
BY LenProperties DEF Stack

LEMMA CutParts ==
  ASSUME NEW cs \in Stack, NEW m \in 0 .. Len(cs)
  PROVE  /\ Cut(cs, m) \in Stack /\ Len(Cut(cs, m)) = m /\ Agree(Cut(cs, m), cs, m)
         /\ \A i \in 1 .. m : Cut(cs, m)[i] = cs[i]
<1>1. \A i \in 1 .. m : cs[i] \in Record
  BY StackParts
<1>2. /\ SubSeq(cs, 1, m) \in Seq(Record)
      /\ Len(SubSeq(cs, 1, m)) = IF 1 <= m THEN m - 1 + 1 ELSE 0
      /\ \A i \in 1 .. m - 1 + 1 : SubSeq(cs, 1, m)[i] = cs[1 + i - 1]
  BY <1>1, SubSeqProperties
<1>3. m \in Nat
  BY StackParts
<1>4. /\ Len(SubSeq(cs, 1, m)) = m
      /\ \A i \in 1 .. m : SubSeq(cs, 1, m)[i] = cs[i]
  BY <1>2, <1>3
<1> QED BY <1>2, <1>4 DEF Stack, Cut, Agree

LEMMA PushParts ==
  ASSUME NEW cs \in Stack, NEW r \in Record
  PROVE  /\ Append(cs, r) \in Stack /\ Len(Append(cs, r)) = Len(cs) + 1
         /\ Agree(Append(cs, r), cs, Len(cs)) /\ Append(cs, r)[Len(cs) + 1] = r
         /\ \A i \in 1 .. Len(cs) : Append(cs, r)[i] = cs[i]
BY AppendProperties DEF Stack, Agree

(* The records of the model are records of a stack. *)
LEMMA RecordTypes ==
  ASSUME NEW th \in Thread
  PROVE  /\ CFunction(th) \in Record /\ Call(th) \in Record /\ ErrorMsg(th) \in Record
         /\ Resume(th) \in Record
         /\ \A n \in Nat : Execute(th, n) \in Record
         /\ TypeOK => \A h \in Handler : Pcall(th, h) \in Record
<1>1. \A n \in Nat : Execute(th, n) \in Record
  BY DEF Execute, Record
<1>2. /\ CFunction(th) \in Record /\ Call(th) \in Record /\ ErrorMsg(th) \in Record
      /\ Resume(th) \in Record
  BY DEF CFunction, Call, ErrorMsg, Resume, Record
<1>3. ASSUME TypeOK, NEW h \in Handler
      PROVE  Pcall(th, h) \in Record
  <2>1. errfunc[th] \in Handler /\ nCcalls[th] \in Nat /\ ci[th] \in Seq(FrameKind)
    BY <1>3 DEF TypeOK
  <2>2. Len(ci[th]) \in Nat
    BY <2>1, LenProperties
  <2> QED BY <2>1, <2>2 DEF Pcall, Record
<1> QED BY <1>1, <1>2, <1>3

----------------------------------------------------------------------------
(* The C calls on a stack. *)

LEMMA CallsNat ==
  ASSUME NEW cs, NEW n \in Nat
  PROVE  CallsTo(cs, n) \in Nat /\ IsFiniteSet({i \in 1 .. n : cs[i].f \in {"luaD_call", "lua_resume"}})
<1>1. IsFiniteSet(1 .. n)
  BY FS_Interval
<1>2. IsFiniteSet({i \in 1 .. n : cs[i].f \in {"luaD_call", "lua_resume"}})
  BY <1>1, FS_Subset
<1> QED BY <1>2, FS_CardinalityType DEF CallsTo

LEMMA CallsStep ==
  ASSUME NEW cs, NEW n \in Nat
  PROVE  CallsTo(cs, n + 1) = CallsTo(cs, n)
           + IF cs[n + 1].f \in {"luaD_call", "lua_resume"} THEN 1 ELSE 0
<1> DEFINE S(k) == {i \in 1 .. k : cs[i].f \in {"luaD_call", "lua_resume"}}
<1>1. IsFiniteSet(S(n)) /\ Cardinality(S(n)) \in Nat
  BY CallsNat DEF CallsTo
<1>2. 1 .. n + 1 = 1 .. n \cup {n + 1} /\ n + 1 \notin 1 .. n
  OBVIOUS
<1>3. CASE cs[n + 1].f \in {"luaD_call", "lua_resume"}
  <2>1. S(n + 1) = S(n) \cup {n + 1} /\ n + 1 \notin S(n)
    BY <1>2, <1>3
  <2>2. Cardinality(S(n) \cup {n + 1}) = Cardinality(S(n)) + 1
    <3> HIDE DEF S
    <3> QED BY <1>1, <2>1, FS_AddElement
  <2> QED BY <1>3, <2>1, <2>2 DEF CallsTo
<1>4. CASE cs[n + 1].f \notin {"luaD_call", "lua_resume"}
  <2>1. S(n + 1) = S(n)
    BY <1>2, <1>4
  <2>2. CallsTo(cs, n + 1) = CallsTo(cs, n) /\ CallsTo(cs, n) \in Nat
    BY <1>1, <2>1 DEF CallsTo
  <2> QED BY <1>4, <2>2
<1> QED BY <1>3, <1>4

LEMMA CallsAgree ==
  ASSUME NEW cs, NEW ds, NEW n \in Nat, Agree(cs, ds, n)
  PROVE  CallsTo(cs, n) = CallsTo(ds, n)
<1>1. {i \in 1 .. n : cs[i].f \in {"luaD_call", "lua_resume"}}
      = {i \in 1 .. n : ds[i].f \in {"luaD_call", "lua_resume"}}
  BY DEF Agree
<1> QED BY <1>1 DEF CallsTo

LEMMA CallsMono ==
  ASSUME NEW cs, NEW n \in Nat, NEW m \in 0 .. n
  PROVE  CallsTo(cs, m) <= CallsTo(cs, n)
<1> DEFINE S(k) == {i \in 1 .. k : cs[i].f \in {"luaD_call", "lua_resume"}}
<1>1. S(m) \in SUBSET S(n)
  OBVIOUS
<1>2. IsFiniteSet(S(n))
  BY CallsNat
<1> HIDE DEF S
<1>3. Cardinality(S(m)) <= Cardinality(S(n))
  BY <1>1, <1>2, FS_Subset
<1> QED BY <1>3 DEF CallsTo, S

----------------------------------------------------------------------------
(* The frames that the records of a stack stand for. *)

Row(cs, i) == {i} \X (1 .. Frames(cs[i]))

LEMMA InSlots ==
  ASSUME NEW cs, NEW th, NEW n \in Nat, NEW p
  PROVE  p \in Slots(cs, th, n) <=> \E i \in 2 .. n : cs[i].th = th /\ p \in Row(cs, i)
BY Zenon DEF Slots, Row

LEMMA SlotsStep ==
  ASSUME NEW cs, NEW th, NEW n \in Nat, n > 0
  PROVE  /\ cs[n + 1].th = th => Slots(cs, th, n + 1) = Slots(cs, th, n) \cup Row(cs, n + 1)
         /\ cs[n + 1].th # th => Slots(cs, th, n + 1) = Slots(cs, th, n)
<1>1. 2 .. n + 1 = 2 .. n \cup {n + 1} /\ n + 1 \in Nat
  OBVIOUS
<1>2. ASSUME NEW p
      PROVE  p \in Slots(cs, th, n + 1)
               <=> p \in Slots(cs, th, n) \/ (cs[n + 1].th = th /\ p \in Row(cs, n + 1))
  <2>1. p \in Slots(cs, th, n) <=> \E i \in 2 .. n : cs[i].th = th /\ p \in Row(cs, i)
    BY InSlots
  <2>2. p \in Slots(cs, th, n + 1) <=> \E i \in 2 .. n + 1 : cs[i].th = th /\ p \in Row(cs, i)
    BY <1>1, InSlots
  <2> QED BY <1>1, <2>1, <2>2, Zenon
<1>3. CASE cs[n + 1].th = th
  BY <1>2, <1>3
<1>4. CASE cs[n + 1].th # th
  BY <1>2, <1>4
<1> QED BY <1>3, <1>4

LEMMA RowParts ==
  ASSUME NEW cs, NEW i \in Nat, Frames(cs[i]) \in Nat
  PROVE  /\ IsFiniteSet(Row(cs, i)) /\ Cardinality(Row(cs, i)) = Frames(cs[i])
         /\ \A p \in Row(cs, i) : p[1] = i
<1>1. IsFiniteSet({i}) /\ Cardinality({i}) = 1
  BY FS_Singleton
<1>2. IsFiniteSet(1 .. Frames(cs[i])) /\ Cardinality(1 .. Frames(cs[i])) = Frames(cs[i])
  BY FS_Interval
<1>3. IsFiniteSet(Row(cs, i))
      /\ Cardinality(Row(cs, i)) = Cardinality({i}) * Cardinality(1 .. Frames(cs[i]))
  BY <1>1, <1>2, FS_Product DEF Row
<1>4. \A p \in Row(cs, i) : p[1] = i
  BY DEF Row
<1> QED BY <1>1, <1>2, <1>3, <1>4

LEMMA SlotsIn ==
  ASSUME NEW cs, NEW th, NEW n \in Nat
  PROVE  \A p \in Slots(cs, th, n) : p[1] \in 2 .. n
BY DEF Slots

LEMMA SlotsFinite ==
  ASSUME NEW cs \in Stack, NEW th, NEW n \in 0 .. Len(cs)
  PROVE  IsFiniteSet(Slots(cs, th, n))
<1> DEFINE P == {k \in Nat : k <= Len(cs) => IsFiniteSet(Slots(cs, th, k))}
<1>1. ASSUME NEW k \in {0, 1}
      PROVE  Slots(cs, th, k) = {}
  BY <1>1, 2 .. k = {} DEF Slots
<1>2. 0 \in P /\ 1 \in P
  BY <1>1, FS_EmptySet
<1>3. ASSUME NEW k \in Nat, k \in P
      PROVE  k + 1 \in P
  <2>1. CASE k = 0
    BY <1>2, <2>1
  <2>2. CASE k > 0 /\ k + 1 <= Len(cs)
    <3>1. IsFiniteSet(Slots(cs, th, k))
      BY <1>3, <2>2, StackParts
    <3>2. cs[k + 1] \in Record
      BY <2>2, StackParts
    <3>3. Frames(cs[k + 1]) \in Nat
      BY <3>2, RecordParts
    <3>4. IsFiniteSet(Row(cs, k + 1))
      BY <3>3, RowParts
    <3>5. IsFiniteSet(Slots(cs, th, k) \cup Row(cs, k + 1))
      BY <3>1, <3>4, FS_Union
    <3>6. \/ Slots(cs, th, k + 1) = Slots(cs, th, k) \cup Row(cs, k + 1)
          \/ Slots(cs, th, k + 1) = Slots(cs, th, k)
      BY <2>2, SlotsStep
    <3>7. IsFiniteSet(Slots(cs, th, k + 1))
      BY <3>1, <3>5, <3>6
    <3> QED BY <3>7
  <2>3. CASE ~(k + 1 <= Len(cs))
    BY <2>3
  <2> QED BY <2>1, <2>2, <2>3
<1> HIDE DEF P
<1>4. n \in P
  <2>1. n \in Nat
    BY StackParts
  <2> QED BY <1>2, <1>3, <2>1, SetInduction
<1> QED BY <1>4, StackParts DEF P

LEMMA FramesNat ==
  ASSUME NEW cs \in Stack, NEW th, NEW n \in 0 .. Len(cs)
  PROVE  FramesTo(cs, th, n) \in Nat
BY SlotsFinite, FS_CardinalityType DEF FramesTo

LEMMA FramesNone ==
  ASSUME NEW cs, NEW th, NEW n \in {0, 1}
  PROVE  FramesTo(cs, th, n) = 0
<1>1. Slots(cs, th, n) = {}
  BY 2 .. n = {} DEF Slots
<1> QED BY <1>1, FS_EmptySet DEF FramesTo

LEMMA FramesStep ==
  ASSUME NEW cs \in Stack, NEW th, NEW n \in 1 .. Len(cs), n < Len(cs)
  PROVE  FramesTo(cs, th, n + 1) = FramesTo(cs, th, n)
           + IF cs[n + 1].th = th THEN Frames(cs[n + 1]) ELSE 0
<1>1. n \in Nat /\ n > 0 /\ n + 1 \in 1 .. Len(cs) /\ n \in 0 .. Len(cs)
  BY StackParts
<1>2. Frames(cs[n + 1]) \in Nat
  BY <1>1, StackParts, RecordParts
<1>3. IsFiniteSet(Slots(cs, th, n)) /\ FramesTo(cs, th, n) \in Nat
  BY <1>1, SlotsFinite, FramesNat
<1>4. CASE cs[n + 1].th = th
  <2>1. /\ IsFiniteSet(Row(cs, n + 1)) /\ Cardinality(Row(cs, n + 1)) = Frames(cs[n + 1])
        /\ \A p \in Row(cs, n + 1) : p[1] = n + 1
    BY <1>1, <1>2, RowParts
  <2>2. Slots(cs, th, n) \cap Row(cs, n + 1) = {}
    BY <1>1, <2>1, SlotsIn
  <2>3. Cardinality(Slots(cs, th, n) \cup Row(cs, n + 1))
        = Cardinality(Slots(cs, th, n)) + Cardinality(Row(cs, n + 1)) - Cardinality({})
    BY <1>3, <2>1, <2>2, FS_Union
  <2>4. Slots(cs, th, n + 1) = Slots(cs, th, n) \cup Row(cs, n + 1)
    BY <1>1, <1>4, SlotsStep
  <2>5. FramesTo(cs, th, n + 1) = FramesTo(cs, th, n) + Frames(cs[n + 1]) - 0
    BY <2>1, <2>3, <2>4, FS_EmptySet DEF FramesTo
  <2> QED BY <1>2, <1>3, <1>4, <2>5
<1>5. CASE cs[n + 1].th # th
  <2>1. Slots(cs, th, n + 1) = Slots(cs, th, n)
    BY <1>1, <1>5, SlotsStep
  <2>2. FramesTo(cs, th, n + 1) = FramesTo(cs, th, n)
    BY <2>1 DEF FramesTo
  <2> QED BY <1>3, <1>5, <2>2
<1> QED BY <1>4, <1>5

LEMMA FramesAgree ==
  ASSUME NEW cs, NEW ds, NEW th, NEW n \in Nat, Agree(cs, ds, n)
  PROVE  FramesTo(cs, th, n) = FramesTo(ds, th, n)
<1>1. \A i \in 2 .. n : cs[i] = ds[i]
  BY DEF Agree
<1>2. Slots(cs, th, n) = Slots(ds, th, n)
  BY <1>1 DEF Slots
<1> QED BY <1>2 DEF FramesTo

LEMMA FramesMono ==
  ASSUME NEW cs \in Stack, NEW th, NEW n \in 0 .. Len(cs), NEW m \in 0 .. n
  PROVE  FramesTo(cs, th, m) <= FramesTo(cs, th, n)
<1>1. 2 .. m \subseteq 2 .. n
  BY StackParts
<1>2. Slots(cs, th, m) \in SUBSET Slots(cs, th, n)
  BY <1>1 DEF Slots
<1>3. IsFiniteSet(Slots(cs, th, n))
  BY SlotsFinite
<1> QED BY <1>2, <1>3, FS_Subset DEF FramesTo

(* Records of other threads stand for no frames of this one. *)
LEMMA FramesOthers ==
  ASSUME NEW cs, NEW th, NEW n \in Nat, NEW m \in 0 .. n,
         \A i \in m + 1 .. n : cs[i].th # th
  PROVE  FramesTo(cs, th, m) = FramesTo(cs, th, n)
<1>1. \A i \in 2 .. n : i \in 2 .. m \/ i \in m + 1 .. n
  OBVIOUS
<1>2. \A i \in 2 .. m : i \in 2 .. n
  OBVIOUS
<1>3. {j \in 2 .. m : cs[j].th = th} = {j \in 2 .. n : cs[j].th = th}
  BY <1>1, <1>2
<1> QED BY <1>3 DEF FramesTo, Slots

(* Each record's frames end where those of the stack up to it end. *)
LEMMA FramesUpTo ==
  ASSUME NEW cs \in Stack, NEW th, NEW n \in 1 .. Len(cs), NEW i \in 2 .. n, cs[i].th = th
  PROVE  /\ FramesTo(cs, th, i - 1) \in Nat /\ Frames(cs[i]) \in Nat
         /\ FramesTo(cs, th, i - 1) + Frames(cs[i]) <= FramesTo(cs, th, n)
<1>1. /\ i - 1 \in 1 .. Len(cs) /\ i - 1 < Len(cs) /\ i \in 1 .. Len(cs) /\ i \in 0 .. n
      /\ i - 1 \in 0 .. Len(cs) /\ n \in 0 .. Len(cs) /\ (i - 1) + 1 = i
  BY StackParts
<1>2. Frames(cs[i]) \in Nat
  BY <1>1, StackParts, RecordParts
<1>3. FramesTo(cs, th, i) = FramesTo(cs, th, i - 1) + Frames(cs[i])
  <2> DEFINE k == i - 1
  <2>1. k \in 1 .. Len(cs) /\ k < Len(cs) /\ k + 1 = i
    BY <1>1
  <2> HIDE DEF k
  <2>2. FramesTo(cs, th, i) = FramesTo(cs, th, k) + Frames(cs[i])
    BY <2>1, FramesStep
  <2> QED BY <2>2 DEF k
<1>4. FramesTo(cs, th, i) <= FramesTo(cs, th, n)
  BY <1>1, FramesMono
<1> QED BY <1>1, <1>2, <1>3, <1>4, FramesNat

----------------------------------------------------------------------------
(* The frames of a thread when records are pushed and dropped. *)

LEMMA OwnedPush ==
  ASSUME NEW cs \in Stack, Len(cs) > 0, NEW r \in Record, NEW th, r.th = th,
         NEW fs, NEW fs2, Owned(cs, th, fs),
         Len(fs2) = Len(fs) + Frames(r),
         \A k \in 1 .. Len(fs) : fs2[k] = fs[k],
         \A k \in 1 .. Frames(r) : fs2[Len(fs) + k] = Kind(r)
  PROVE  Owned(Append(cs, r), th, fs2)
<1> DEFINE n == Len(cs)
           ds == Append(cs, r)
<1>1. /\ ds \in Stack /\ Len(ds) = n + 1 /\ Agree(ds, cs, n) /\ ds[n + 1] = r /\ n \in Nat
      /\ n \in 1 .. n /\ n \in 1 .. Len(ds) /\ n < Len(ds)
      /\ \A i \in 1 .. n : ds[i] = cs[i]
  BY PushParts, StackParts
<1> HIDE DEF ds
<1>2. \A k \in 0 .. n : FramesTo(ds, th, k) = FramesTo(cs, th, k)
  <2>1. \A k \in 0 .. n : k \in Nat /\ Agree(ds, cs, k)
    BY <1>1 DEF Agree
  <2> QED BY <2>1, FramesAgree
<1>3. Len(fs) = FramesTo(cs, th, n)
  BY DEF Owned
<1>4. FramesTo(ds, th, n + 1) = FramesTo(ds, th, n) + Frames(r)
  BY <1>1, FramesStep
<1>5. Len(fs2) = FramesTo(ds, th, Len(ds))
  BY <1>1, <1>2, <1>3, <1>4
<1>6. ASSUME NEW i \in 2 .. Len(ds), ds[i].th = th, NEW k \in 1 .. Frames(ds[i])
      PROVE  fs2[FramesTo(ds, th, i - 1) + k] = Kind(ds[i])
  <2>1. CASE i = n + 1
    <3>1. FramesTo(ds, th, i - 1) = Len(fs) /\ ds[i] = r
      BY <1>1, <1>2, <1>3, <2>1
    <3> QED BY <1>6, <3>1
  <2>2. CASE i \in 2 .. n
    <3>1. /\ ds[i] = cs[i] /\ cs[i].th = th /\ k \in 1 .. Frames(cs[i]) /\ i \in 2 .. Len(cs)
          /\ FramesTo(ds, th, i - 1) = FramesTo(cs, th, i - 1)
      BY <1>1, <1>2, <1>6, <2>2
    <3>2. fs[FramesTo(cs, th, i - 1) + k] = Kind(cs[i])
      BY <3>1 DEF Owned
    <3>3. FramesTo(cs, th, i - 1) + k \in 1 .. Len(fs)
      <4>1. /\ FramesTo(cs, th, i - 1) \in Nat /\ Frames(cs[i]) \in Nat
            /\ FramesTo(cs, th, i - 1) + Frames(cs[i]) <= FramesTo(cs, th, n)
        BY <1>1, <2>2, <3>1, FramesUpTo
      <4>2. FramesTo(cs, th, n) \in Nat
        BY <1>1, FramesNat
      <4> QED BY <1>3, <3>1, <4>1, <4>2
    <3> QED BY <3>1, <3>2, <3>3
  <2> QED BY <1>1, <2>1, <2>2
<1> QED BY <1>5, <1>6 DEF Owned, ds

LEMMA OwnedOther ==
  ASSUME NEW cs \in Stack, Len(cs) > 0, NEW r \in Record, NEW th, r.th # th, NEW fs,
         Owned(cs, th, fs)
  PROVE  Owned(Append(cs, r), th, fs)
<1> DEFINE n == Len(cs)
           ds == Append(cs, r)
<1>1. /\ Len(ds) = n + 1 /\ ds[n + 1] = r /\ n \in Nat
      /\ \A i \in 1 .. n : ds[i] = cs[i]
  BY PushParts, StackParts
<1> HIDE DEF ds
<1>2. \A k \in 0 .. n : FramesTo(ds, th, k) = FramesTo(cs, th, k)
  <2>1. \A k \in 0 .. n : k \in Nat /\ Agree(ds, cs, k)
    BY <1>1 DEF Agree
  <2> QED BY <2>1, FramesAgree
<1>3. FramesTo(ds, th, n) = FramesTo(ds, th, n + 1)
  <2>1. /\ n + 1 \in Nat /\ n \in 0 .. n + 1
        /\ \A i \in n + 1 .. n + 1 : ds[i].th # th
    BY <1>1
  <2> QED BY <2>1, FramesOthers
<1>4. Len(fs) = FramesTo(ds, th, Len(ds))
  BY <1>1, <1>2, <1>3 DEF Owned
<1>5. ASSUME NEW i \in 2 .. Len(ds), ds[i].th = th, NEW k \in 1 .. Frames(ds[i])
      PROVE  fs[FramesTo(ds, th, i - 1) + k] = Kind(ds[i])
  <2>1. i \in 2 .. n /\ ds[i] = cs[i] /\ i - 1 \in 0 .. n
    BY <1>1, <1>5
  <2> QED BY <1>2, <1>5, <2>1 DEF Owned
<1> QED BY <1>4, <1>5 DEF Owned, ds

LEMMA OwnedCut ==
  ASSUME NEW cs \in Stack, NEW m \in 1 .. Len(cs), NEW th, NEW fs, NEW fs2,
         Owned(cs, th, fs), Len(fs2) = FramesTo(cs, th, m),
         \A k \in 1 .. Len(fs2) : fs2[k] = fs[k]
  PROVE  Owned(Cut(cs, m), th, fs2)
<1> DEFINE ds == Cut(cs, m)
<1>1. /\ m \in 0 .. Len(cs) /\ m \in Nat /\ \A i \in 2 .. m : i \in 2 .. Len(cs)
      /\ m \in 1 .. Len(cs)
  BY StackParts
<1>2. Len(ds) = m /\ \A i \in 1 .. m : ds[i] = cs[i]
  BY <1>1, CutParts
<1> HIDE DEF ds
<1>3. \A k \in 0 .. m : FramesTo(ds, th, k) = FramesTo(cs, th, k)
  <2>1. \A k \in 0 .. m : k \in Nat /\ Agree(ds, cs, k)
    BY <1>1, <1>2 DEF Agree
  <2> QED BY <2>1, FramesAgree
<1>4. Len(fs2) = FramesTo(ds, th, Len(ds))
  BY <1>1, <1>2, <1>3
<1>5. ASSUME NEW i \in 2 .. m, cs[i].th = th, NEW k \in 1 .. Frames(cs[i])
      PROVE  fs2[FramesTo(ds, th, i - 1) + k] = Kind(cs[i])
  <2>1. fs[FramesTo(cs, th, i - 1) + k] = Kind(cs[i])
    BY <1>1, <1>5 DEF Owned
  <2>2. /\ FramesTo(cs, th, i - 1) \in Nat /\ Frames(cs[i]) \in Nat
        /\ FramesTo(cs, th, i - 1) + Frames(cs[i]) <= FramesTo(cs, th, m)
    BY <1>1, <1>5, FramesUpTo
  <2>3. FramesTo(cs, th, m) \in Nat /\ FramesTo(ds, th, i - 1) = FramesTo(cs, th, i - 1)
    BY <1>1, <1>3, FramesNat
  <2>4. FramesTo(cs, th, i - 1) + k \in 1 .. Len(fs2)
    BY <2>2, <2>3
  <2> QED BY <2>1, <2>3, <2>4
<1> QED BY <1>1, <1>2, <1>4, <1>5 DEF Owned, ds

(* The last frame of a thread is that of its last record, if it has frames.  *)
LEMMA OwnedTop ==
  ASSUME NEW cs \in Stack, NEW th, NEW fs, Owned(cs, th, fs),
         Len(cs) > 1, cs[Len(cs)].th = th, Frames(cs[Len(cs)]) > 0
  PROVE  /\ Len(fs) = FramesTo(cs, th, Len(cs) - 1) + Frames(cs[Len(cs)])
         /\ Len(fs) \in Nat /\ Len(fs) > 0 /\ fs[Len(fs)] = Kind(cs[Len(cs)])
<1> DEFINE n == Len(cs)
           k == n - 1
<1>1. /\ k \in 1 .. n /\ k < n /\ k + 1 = n /\ n \in 1 .. n /\ n \in 2 .. n /\ n \in Nat
      /\ k \in 0 .. n
  BY StackParts
<1>2. Frames(cs[n]) \in Nat /\ FramesTo(cs, th, k) \in Nat
  BY <1>1, StackParts, RecordParts, FramesNat
<1>3. FramesTo(cs, th, n) = FramesTo(cs, th, k) + Frames(cs[n])
  <2> HIDE DEF k
  <2> QED BY <1>1, FramesStep
<1>4. Len(fs) = FramesTo(cs, th, n)
  BY DEF Owned
<1>5. fs[FramesTo(cs, th, n - 1) + Frames(cs[n])] = Kind(cs[n])
  <2>1. Frames(cs[n]) \in 1 .. Frames(cs[n])
    BY <1>2
  <2> QED BY <1>1, <2>1 DEF Owned
<1> QED BY <1>2, <1>3, <1>4, <1>5

----------------------------------------------------------------------------
(* The order of the records of a C stack. *)

(* What can have called what. *)
Under(f) ==
  CASE f = "luaV_execute" -> {"luaD_call", "lua_resume"}
    [] f = "C function" -> {"luaD_call", "luaV_execute"}
    [] f = "luaD_call" -> {"luaV_execute", "C function", "luaD_pcall", "luaG_errormsg"}
    [] f = "luaD_pcall" -> {"C function"}
    [] f = "lua_resume" -> {"C function"}
    [] f = "luaG_errormsg" -> {"luaV_execute", "C function", "luaD_call", "lua_resume"}

(* Record r directly above record q: only lua_resume goes on with another    *)
(* thread.                                                                   *)
Over(q, r) ==
  /\ q.f \in Under(r.f)
  /\ r.f # "lua_resume" => r.th = q.th
  /\ r.f = "luaV_execute" => r.nexeccalls > 0

(* The records of a thread are consecutive, and it has been resumed once.    *)
Together(cs) ==
  \A i, j \in 1 .. Len(cs) : i < j /\ cs[i].th = cs[j].th =>
    \A k \in i + 1 .. j : cs[k].th = cs[j].th /\ cs[k].f # "lua_resume"

(* At the bottom is the host's loop, which only calls lua_pcall.             *)
Shape(cs) ==
  /\ cs \in Stack /\ Len(cs) > 0 /\ cs[1] = CFunction(MainThread)
  /\ \A i \in 2 .. Len(cs) : Over(cs[i - 1], cs[i]) /\ (i = 2 => cs[i].f = "luaD_pcall")
  /\ Together(cs)

LEMMA ShapePush ==
  ASSUME NEW cs, Shape(cs), NEW r \in Record, Over(cs[Len(cs)], r),
         Len(cs) = 1 => r.f = "luaD_pcall",
         r.f = "lua_resume" => ~In(cs, r.th)
  PROVE  Shape(Append(cs, r))
<1> DEFINE n == Len(cs)
           ds == Append(cs, r)
<1>1. /\ ds \in Stack /\ Len(ds) = n + 1 /\ ds[n + 1] = r /\ n \in Nat /\ n > 0
      /\ \A i \in 1 .. n : ds[i] = cs[i]
  BY PushParts, StackParts DEF Shape
<1> HIDE DEF ds
<1>2. ASSUME NEW i \in 2 .. n + 1
      PROVE  Over(ds[i - 1], ds[i]) /\ (i = 2 => ds[i].f = "luaD_pcall")
  <2>1. CASE i = n + 1
    <3>1. i - 1 = n /\ n \in 1 .. n /\ (i = 2 => n = 1)
      <4>1. n \in Nat /\ n > 0
        BY <1>1
      <4>2. i - 1 = n
        BY <2>1, <4>1
      <4>3. n \in 1 .. n
        BY <4>1
      <4>4. i = 2 => n = 1
        BY <2>1, <4>1
      <4> QED BY <4>2, <4>3, <4>4
    <3>2. ds[i - 1] = cs[n] /\ ds[i] = r
      BY <1>1, <2>1, <3>1
    <3> QED BY <3>1, <3>2
  <2>2. CASE i # n + 1
    <3>1. i \in 2 .. n /\ i \in 1 .. n /\ i - 1 \in 1 .. n
      BY <1>1, <2>2
    <3> QED BY <1>1, <3>1 DEF Shape
  <2> QED BY <2>1, <2>2
<1>3. ASSUME NEW i \in 1 .. n + 1, NEW j \in 1 .. n + 1, i < j, ds[i].th = ds[j].th,
             NEW k \in i + 1 .. j
      PROVE  ds[k].th = ds[j].th /\ ds[k].f # "lua_resume"
  <2>1. i \in 1 .. n /\ ds[i] = cs[i] /\ k \in Nat /\ k > 1
    BY <1>1, <1>3
  <2>2. CASE j \in 1 .. n
    <3>1. k \in 1 .. n /\ ds[k] = cs[k] /\ ds[j] = cs[j]
      BY <1>1, <2>1, <2>2
    <3> QED BY <1>3, <2>1, <2>2, <3>1 DEF Shape, Together
  <2>3. CASE j = n + 1
    <3>1. ds[j] = r /\ r.th = cs[i].th
      BY <1>1, <1>3, <2>1, <2>3
    <3>2. r.f # "lua_resume"
      BY <2>1, <3>1 DEF In
    <3>3. r.th = cs[n].th
      BY <3>2 DEF Over
    <3>4. CASE k = n + 1
      BY <1>1, <2>3, <3>1, <3>2, <3>4
    <3>5. CASE k \in i + 1 .. n
      <4>1. n \in 1 .. n /\ k \in 1 .. n /\ i < n /\ cs[i].th = cs[n].th
        BY <1>1, <2>1, <3>1, <3>3, <3>5
      <4>2. cs[k].th = cs[n].th /\ cs[k].f # "lua_resume"
        BY <2>1, <3>5, <4>1 DEF Shape, Together
      <4> QED BY <1>1, <3>1, <3>3, <4>1, <4>2
    <3> QED BY <1>1, <2>1, <2>3, <3>4, <3>5
  <2> QED BY <1>1, <2>2, <2>3
<1>4. ds[1] = CFunction(MainThread)
  BY <1>1 DEF Shape
<1> QED BY <1>1, <1>2, <1>3, <1>4 DEF Shape, Together, ds

LEMMA ShapeCut ==
  ASSUME NEW cs, Shape(cs), NEW m \in 1 .. Len(cs)
  PROVE  Shape(Cut(cs, m))
<1> DEFINE ds == Cut(cs, m)
<1>1. cs \in Stack /\ m \in 0 .. Len(cs) /\ m \in Nat /\ Len(cs) \in Nat
  BY StackParts DEF Shape
<1>2. ds \in Stack /\ Len(ds) = m /\ \A i \in 1 .. m : ds[i] = cs[i] /\ i \in 1 .. Len(cs)
  BY <1>1, CutParts
<1> HIDE DEF ds
<1>3. \A i \in 2 .. m : Over(ds[i - 1], ds[i]) /\ (i = 2 => ds[i].f = "luaD_pcall")
  <2>1. \A i \in 2 .. m : i \in 2 .. Len(cs) /\ ds[i - 1] = cs[i - 1] /\ ds[i] = cs[i]
    BY <1>1, <1>2
  <2> QED BY <2>1 DEF Shape
<1>4. ASSUME NEW i \in 1 .. m, NEW j \in 1 .. m, i < j, ds[i].th = ds[j].th,
             NEW k \in i + 1 .. j
      PROVE  ds[k].th = ds[j].th /\ ds[k].f # "lua_resume"
  <2>1. /\ ds[k] = cs[k] /\ ds[i] = cs[i] /\ ds[j] = cs[j]
        /\ i \in 1 .. Len(cs) /\ j \in 1 .. Len(cs)
    BY <1>1, <1>2
  <2> QED BY <1>4, <2>1 DEF Shape, Together
<1>5. ds[1] = CFunction(MainThread)
  BY <1>1, <1>2 DEF Shape
<1> QED BY <1>1, <1>2, <1>3, <1>4, <1>5 DEF Shape, Together, ds

----------------------------------------------------------------------------
(* What the records save, and what each thread has of its records. *)

(* luaD_pcall saves the state that its caller has.                           *)
SavedBy(cs, r, n) ==
  r.f = "luaD_pcall" => /\ r.oldnCcalls = CallsTo(cs, n)
                        /\ r.old_ci = FramesTo(cs, r.th, n)
                        /\ HandlerAt(cs, r.th, n, r.old_errfunc)
Saved(cs) == \A i \in 1 .. Len(cs) : SavedBy(cs, cs[i], i - 1)

(* baseCcalls of a coroutine is its call depth where it was resumed.         *)
Based(cs, base) ==
  \A i \in 1 .. Len(cs) : cs[i].f = "lua_resume" =>
    base[cs[i].th] = CallsTo(cs, i) /\ CallsTo(cs, i) <= LUAI_MAXCCALLS

(* The thread th with this state and these frames, call depth and handler    *)
(* agrees with the C stack.                                                  *)
Fits(cs, th, state, frames, calls, handler) ==
  /\ \A i \in 1 .. Len(cs) : LastOf(cs, th, i) => calls = CallsTo(cs, i)
  /\ state # "error" => HandlerAt(cs, th, Len(cs), handler)
  /\ state = "ok" => Owned(cs, th, frames)
  /\ state = "error" => ~In(cs, th)

LEMMA HandlerAgree ==
  ASSUME NEW cs, NEW ds, NEW n \in Nat, Agree(cs, ds, n), NEW th, NEW h
  PROVE  HandlerAt(cs, th, n, h) <=> HandlerAt(ds, th, n, h)
<1>1. \A i \in 1 .. n : PcallOf(cs, th, i) <=> PcallOf(ds, th, i)
  BY DEF PcallOf, Agree
<1>2. \A i \in 1 .. n : \A j \in i + 1 .. n : j \in 1 .. n
  OBVIOUS
<1>3. \A i \in 1 .. n : cs[i] = ds[i]
  BY DEF Agree
<1> QED BY <1>1, <1>2, <1>3 DEF HandlerAt

(* Records above that are no protected calls of th leave its handler. *)
LEMMA HandlerSkip ==
  ASSUME NEW cs, NEW th, NEW h, NEW n \in Nat, NEW m \in 0 .. n,
         \A i \in m + 1 .. n : ~PcallOf(cs, th, i)
  PROVE  HandlerAt(cs, th, m, h) <=> HandlerAt(cs, th, n, h)
<1>1. \A i \in 1 .. n : i \in 1 .. m \/ i \in m + 1 .. n
  OBVIOUS
<1>2. \A i \in 1 .. m : /\ i \in 1 .. n
                        /\ \A j \in i + 1 .. n : j \in i + 1 .. m \/ j \in m + 1 .. n
                        /\ \A j \in i + 1 .. m : j \in i + 1 .. n
  OBVIOUS
<1> QED BY <1>1, <1>2 DEF HandlerAt

LEMMA SavedAgree ==
  ASSUME NEW cs, NEW ds, NEW n \in Nat, Agree(cs, ds, n), NEW r, SavedBy(cs, r, n)
  PROVE  SavedBy(ds, r, n)
<1>1. CallsTo(cs, n) = CallsTo(ds, n) /\ FramesTo(cs, r.th, n) = FramesTo(ds, r.th, n)
  BY CallsAgree, FramesAgree
<1>2. \A h : HandlerAt(cs, r.th, n, h) <=> HandlerAt(ds, r.th, n, h)
  BY HandlerAgree
<1> QED BY <1>1, <1>2 DEF SavedBy

LEMMA SavedPush ==
  ASSUME NEW cs \in Stack, Saved(cs), NEW r \in Record, SavedBy(cs, r, Len(cs))
  PROVE  Saved(Append(cs, r))
<1> DEFINE n == Len(cs)
           ds == Append(cs, r)
<1>1. /\ Len(ds) = n + 1 /\ ds[n + 1] = r /\ n \in Nat
      /\ \A i \in 1 .. n : ds[i] = cs[i]
  BY PushParts, StackParts
<1> HIDE DEF ds
<1>2. \A k \in 0 .. n : k \in Nat /\ Agree(cs, ds, k)
  BY <1>1 DEF Agree
<1>3. ASSUME NEW i \in 1 .. n + 1
      PROVE  SavedBy(ds, ds[i], i - 1)
  <2>1. CASE i = n + 1
    <3>1. n \in 0 .. n /\ i - 1 = n /\ ds[i] = r
      BY <1>1, <2>1
    <3> QED BY <1>2, <3>1, SavedAgree
  <2>2. CASE i # n + 1
    <3>1. i \in 1 .. n /\ ds[i] = cs[i] /\ i - 1 \in 0 .. n
      BY <1>1, <2>2
    <3>2. SavedBy(cs, cs[i], i - 1)
      BY <3>1 DEF Saved
    <3> QED BY <1>2, <3>1, <3>2, SavedAgree
  <2> QED BY <2>1, <2>2
<1> QED BY <1>1, <1>3 DEF Saved, ds

LEMMA SavedCut ==
  ASSUME NEW cs \in Stack, Saved(cs), NEW m \in 1 .. Len(cs)
  PROVE  Saved(Cut(cs, m))
<1> DEFINE ds == Cut(cs, m)
<1>1. m \in 0 .. Len(cs) /\ m \in Nat /\ Len(cs) \in Nat
  BY StackParts
<1>2. Len(ds) = m /\ \A i \in 1 .. m : ds[i] = cs[i] /\ i \in 1 .. Len(cs)
  BY <1>1, CutParts
<1> HIDE DEF ds
<1>3. ASSUME NEW i \in 1 .. m
      PROVE  SavedBy(ds, ds[i], i - 1)
  <2>1. i - 1 \in Nat /\ Agree(cs, ds, i - 1)
    BY <1>1, <1>2 DEF Agree
  <2>2. SavedBy(cs, cs[i], i - 1)
    BY <1>2 DEF Saved
  <2> QED BY <1>2, <2>1, <2>2, SavedAgree
<1> QED BY <1>2, <1>3 DEF Saved, ds

LEMMA BasedPush ==
  ASSUME NEW cs \in Stack, NEW base, NEW base2, Based(cs, base), NEW r \in Record,
         \A th : In(cs, th) => base2[th] = base[th],
         r.f = "lua_resume" => base2[r.th] = CallsTo(cs, Len(cs)) + 1
                               /\ CallsTo(cs, Len(cs)) + 1 <= LUAI_MAXCCALLS
  PROVE  Based(Append(cs, r), base2)
<1> DEFINE n == Len(cs)
           ds == Append(cs, r)
<1>1. /\ Len(ds) = n + 1 /\ ds[n + 1] = r /\ n \in Nat
      /\ \A i \in 1 .. n : ds[i] = cs[i]
  BY PushParts, StackParts
<1> HIDE DEF ds
<1>2. \A k \in 0 .. n : CallsTo(cs, k) = CallsTo(ds, k)
  <2>1. \A k \in 0 .. n : k \in Nat /\ Agree(cs, ds, k)
    BY <1>1 DEF Agree
  <2> QED BY <2>1, CallsAgree
<1>3. ASSUME NEW i \in 1 .. n + 1, ds[i].f = "lua_resume"
      PROVE  base2[ds[i].th] = CallsTo(ds, i) /\ CallsTo(ds, i) <= LUAI_MAXCCALLS
  <2>1. CASE i = n + 1
    <3>1. n \in 0 .. n /\ ds[n + 1] = r /\ r.f = "lua_resume"
      BY <1>1, <1>3, <2>1
    <3>2. CallsTo(ds, n + 1) = CallsTo(ds, n) + 1
      BY <1>1, <3>1, CallsStep
    <3> QED BY <1>2, <2>1, <3>1, <3>2
  <2>2. CASE i # n + 1
    <3>1. i \in 1 .. n /\ ds[i] = cs[i] /\ i \in 0 .. n
      BY <1>1, <2>2
    <3>2. base2[cs[i].th] = base[cs[i].th]
      BY <3>1 DEF In
    <3> QED BY <1>2, <1>3, <3>1, <3>2 DEF Based
  <2> QED BY <2>1, <2>2
<1> QED BY <1>1, <1>3 DEF Based, ds

LEMMA BasedCut ==
  ASSUME NEW cs \in Stack, NEW base, Based(cs, base), NEW m \in 1 .. Len(cs)
  PROVE  Based(Cut(cs, m), base)
<1> DEFINE ds == Cut(cs, m)
<1>1. m \in 0 .. Len(cs) /\ m \in Nat /\ Len(cs) \in Nat
  BY StackParts
<1>2. Len(ds) = m /\ \A i \in 1 .. m : ds[i] = cs[i] /\ i \in 1 .. Len(cs)
  BY <1>1, CutParts
<1> HIDE DEF ds
<1>3. \A i \in 1 .. m : CallsTo(cs, i) = CallsTo(ds, i)
  <2>1. \A i \in 1 .. m : i \in Nat /\ Agree(cs, ds, i)
    BY <1>1, <1>2 DEF Agree
  <2> QED BY <2>1, CallsAgree
<1> QED BY <1>2, <1>3 DEF Based, ds

(* A record of another thread, or several dropped, leave a thread as it was. *)
LEMMA FitsOther ==
  ASSUME NEW cs \in Stack, Len(cs) > 0, NEW r \in Record, NEW th, r.th # th,
         NEW state, NEW frames, NEW calls, NEW handler,
         Fits(cs, th, state, frames, calls, handler)
  PROVE  Fits(Append(cs, r), th, state, frames, calls, handler)
<1> DEFINE n == Len(cs)
           ds == Append(cs, r)
<1>1. /\ Len(ds) = n + 1 /\ ds[n + 1] = r /\ n \in Nat /\ n \in 0 .. n + 1
      /\ \A i \in 1 .. n : ds[i] = cs[i]
  BY PushParts, StackParts
<1>2. state = "ok" => Owned(ds, th, frames)
  BY OwnedOther DEF Fits
<1> HIDE DEF ds
<1>3. \A k \in 0 .. n : k \in Nat /\ Agree(cs, ds, k)
  BY <1>1 DEF Agree
<1>4. ASSUME NEW i \in 1 .. n + 1, LastOf(ds, th, i)
      PROVE  calls = CallsTo(ds, i)
  <2>1. i # n + 1
    BY <1>1, <1>4 DEF LastOf
  <2>2. i \in 1 .. n /\ i \in 0 .. n
    BY <1>1, <2>1
  <2>3. LastOf(cs, th, i)
    <3>1. \A j \in i + 1 .. n : j \in i + 1 .. n + 1 /\ j \in 1 .. n
      BY <1>1, <2>2
    <3> QED BY <1>1, <1>4, <2>2, <3>1 DEF LastOf
  <2>4. calls = CallsTo(cs, i)
    BY <2>2, <2>3 DEF Fits
  <2> QED BY <1>3, <2>2, <2>4, CallsAgree
<1>5. ASSUME state # "error"
      PROVE  HandlerAt(ds, th, n + 1, handler)
  <2>1. HandlerAt(cs, th, n, handler)
    BY <1>5 DEF Fits
  <2>2. n \in Nat /\ Agree(cs, ds, n)
    BY <1>1, <1>3
  <2>3. HandlerAt(ds, th, n, handler)
    BY <2>1, <2>2, HandlerAgree
  <2>4. n + 1 \in Nat /\ \A i \in n + 1 .. n + 1 : ~PcallOf(ds, th, i)
    BY <1>1 DEF PcallOf
  <2> QED BY <1>1, <2>3, <2>4, HandlerSkip
<1>6. state = "error" => ~In(ds, th)
  BY <1>1 DEF Fits, In
<1> QED BY <1>1, <1>2, <1>4, <1>5, <1>6 DEF Fits, ds

LEMMA FitsCut ==
  ASSUME NEW cs \in Stack, NEW m \in 1 .. Len(cs), NEW th,
         \A i \in m + 1 .. Len(cs) : cs[i].th # th,
         NEW state, NEW frames, NEW calls, NEW handler,
         Fits(cs, th, state, frames, calls, handler)
  PROVE  Fits(Cut(cs, m), th, state, frames, calls, handler)
<1> DEFINE n == Len(cs)
           ds == Cut(cs, m)
<1>1. m \in 0 .. n /\ m \in Nat /\ n \in Nat
  BY StackParts
<1>2. Len(ds) = m /\ \A i \in 1 .. m : ds[i] = cs[i] /\ i \in 1 .. n
  BY <1>1, CutParts
<1>3. \A k \in 0 .. m : k \in Nat /\ Agree(cs, ds, k)
  BY <1>1, <1>2 DEF Agree
<1>4. state = "ok" => Owned(ds, th, frames)
  <2>1. FramesTo(cs, th, m) = FramesTo(cs, th, n)
    BY <1>1, FramesOthers
  <2>2. state = "ok" => Owned(cs, th, frames) /\ Len(frames) = FramesTo(cs, th, m)
    BY <2>1 DEF Fits, Owned
  <2> QED BY <2>2, OwnedCut
<1> HIDE DEF ds
<1>5. ASSUME NEW i \in 1 .. m, LastOf(ds, th, i)
      PROVE  calls = CallsTo(ds, i)
  <2>1. i \in 1 .. n /\ i \in 0 .. m
    BY <1>2, <1>5, <1>1
  <2>2. LastOf(cs, th, i)
    <3>1. \A j \in i + 1 .. n : (j \in i + 1 .. m /\ j \in 1 .. m) \/ j \in m + 1 .. n
      BY <1>1, <1>5
    <3> QED BY <1>2, <1>5, <3>1 DEF LastOf
  <2>3. calls = CallsTo(cs, i)
    BY <2>1, <2>2 DEF Fits
  <2> QED BY <1>3, <2>1, <2>3, CallsAgree
<1>6. ASSUME state # "error"
      PROVE  HandlerAt(ds, th, m, handler)
  <2>1. HandlerAt(cs, th, n, handler)
    BY <1>6 DEF Fits
  <2>2. \A i \in m + 1 .. n : ~PcallOf(cs, th, i)
    BY DEF PcallOf
  <2>3. HandlerAt(cs, th, m, handler)
    BY <1>1, <2>1, <2>2, HandlerSkip
  <2>4. m \in Nat /\ Agree(cs, ds, m)
    BY <1>1, <1>3
  <2> QED BY <2>3, <2>4, HandlerAgree
<1>7. state = "error" => ~In(ds, th)
  BY <1>2 DEF Fits, In
<1> QED BY <1>2, <1>4, <1>5, <1>6, <1>7 DEF Fits, ds

----------------------------------------------------------------------------
(* The C stack and the threads together, as values: cs is the stack, and of  *)
(* each thread st is its status, c its frames, base its baseCcalls, calls    *)
(* its nCcalls and ef its errfunc.                                           *)
Core(cs, st, c, base, calls, ef) ==
  /\ Shape(cs) /\ Saved(cs)
  /\ Based(cs, base) /\ base[MainThread] = 0
  /\ \A th \in Thread : Fits(cs, th, st[th], c[th], calls[th], ef[th])

LEMMA ShapeParts ==
  ASSUME NEW cs, Shape(cs)
  PROVE  /\ cs \in Stack /\ Len(cs) \in Nat /\ Len(cs) > 0 /\ Len(cs) \in 1 .. Len(cs)
         /\ DOMAIN cs = 1 .. Len(cs)
         /\ \A i \in 1 .. Len(cs) : cs[i] \in Record /\ cs[i].th \in Thread
         /\ cs[1].th = MainThread /\ cs[1].f = "C function"
<1>1. cs \in Stack /\ Len(cs) > 0
  BY DEF Shape
<1>2. Len(cs) \in Nat /\ DOMAIN cs = 1 .. Len(cs)
  BY <1>1, StackParts
<1>3. ASSUME NEW i \in 1 .. Len(cs)
      PROVE  cs[i] \in Record /\ cs[i].th \in Thread
  <2>1. cs[i] \in Record
    BY <1>1, StackParts
  <2> QED BY <2>1, RecordParts
<1>4. cs[1].th = MainThread /\ cs[1].f = "C function"
  <2>1. CFunction(MainThread).th = MainThread /\ CFunction(MainThread).f = "C function"
    BY DEF CFunction
  <2>2. cs[1] = CFunction(MainThread)
    BY DEF Shape
  <2> QED BY <2>1, <2>2
<1>5. Len(cs) \in 1 .. Len(cs)
  BY <1>1, <1>2
<1> QED BY <1>1, <1>2, <1>3, <1>4, <1>5, Zenon

(* The thread of the last record. *)
LEMMA FitsTop ==
  ASSUME NEW cs \in Stack, Len(cs) > 0, NEW th, th = cs[Len(cs)].th,
         NEW st, NEW fs, NEW calls, NEW h, Fits(cs, th, st, fs, calls, h)
  PROVE  /\ calls = CallsTo(cs, Len(cs)) /\ st # "error"
         /\ HandlerAt(cs, th, Len(cs), h)
         /\ st = "ok" => Owned(cs, th, fs)
<1>1. Len(cs) \in 1 .. Len(cs) /\ LastOf(cs, th, Len(cs)) /\ In(cs, th)
  BY StackParts DEF LastOf, In
<1> QED BY <1>1 DEF Fits

LEMMA FitsPush ==
  ASSUME NEW cs \in Stack, Len(cs) > 0, NEW r \in Record,
         NEW st, NEW fs, NEW calls, NEW h, st # "error",
         calls = CallsTo(cs, Len(cs)) + IF r.f \in {"luaD_call", "lua_resume"} THEN 1 ELSE 0,
         HandlerAt(Append(cs, r), r.th, Len(cs) + 1, h),
         st = "ok" => Owned(Append(cs, r), r.th, fs)
  PROVE  Fits(Append(cs, r), r.th, st, fs, calls, h)
<1> DEFINE n == Len(cs)
           ds == Append(cs, r)
<1>1. /\ Len(ds) = n + 1 /\ ds[n + 1] = r /\ n \in Nat
      /\ Agree(ds, cs, n)
  BY PushParts, StackParts
<1> HIDE DEF ds
<1>2. calls = CallsTo(ds, n + 1)
  <2>1. CallsTo(ds, n) = CallsTo(cs, n)
    BY <1>1, CallsAgree
  <2> QED BY <1>1, <2>1, CallsStep
<1>3. ASSUME NEW i \in 1 .. n + 1, LastOf(ds, r.th, i)
      PROVE  i = n + 1
  <2>1. i # n + 1 => n + 1 \in i + 1 .. n + 1
    BY <1>1
  <2> QED BY <1>1, <1>3, <2>1 DEF LastOf
<1> QED BY <1>1, <1>2, <1>3 DEF Fits, ds

(* What a step does to thread th alone. *)
Elsewhere(th, f, g) == \A t \in Thread \ {th} : g[t] = f[t]

(* A resumed coroutine starts at the call depth of its resumer plus one. *)
Bases(cs, r, base, base2) ==
  IF r.f = "lua_resume" THEN /\ base2[r.th] = CallsTo(cs, Len(cs)) + 1
                             /\ CallsTo(cs, Len(cs)) + 1 <= LUAI_MAXCCALLS
                        ELSE base2[r.th] = base[r.th]

LEMMA CorePush ==
  ASSUME NEW cs, NEW st, NEW c, NEW base, NEW calls, NEW ef, Core(cs, st, c, base, calls, ef),
         NEW r \in Record, Over(cs[Len(cs)], r), Len(cs) = 1 => r.f = "luaD_pcall",
         r.f = "lua_resume" => ~In(cs, r.th), SavedBy(cs, r, Len(cs)),
         NEW st2, NEW c2, NEW base2, NEW calls2, NEW ef2,
         Elsewhere(r.th, st, st2), Elsewhere(r.th, c, c2), Elsewhere(r.th, base, base2),
         Elsewhere(r.th, calls, calls2), Elsewhere(r.th, ef, ef2),
         Bases(cs, r, base, base2),
         Fits(Append(cs, r), r.th, st2[r.th], c2[r.th], calls2[r.th], ef2[r.th])
  PROVE  Core(Append(cs, r), st2, c2, base2, calls2, ef2)
<1>1. /\ cs \in Stack /\ Len(cs) > 0 /\ Len(cs) \in Nat
      /\ \A i \in 1 .. Len(cs) : cs[i].th \in Thread
      /\ In(cs, MainThread)
  <2>1. Shape(cs)
    BY DEF Core
  <2>2. /\ cs \in Stack /\ Len(cs) > 0 /\ Len(cs) \in Nat /\ cs[1].th = MainThread
        /\ \A i \in 1 .. Len(cs) : cs[i].th \in Thread
    BY <2>1, ShapeParts
  <2>3. In(cs, MainThread)
    BY <2>2 DEF In
  <2> QED BY <2>2, <2>3
<1>2. Shape(Append(cs, r))
  BY ShapePush DEF Core
<1>3. Saved(Append(cs, r))
  BY <1>1, SavedPush DEF Core
<1>4. ASSUME NEW th, In(cs, th)
      PROVE  base2[th] = base[th]
  <2>1. th \in Thread
    BY <1>1, <1>4 DEF In
  <2>2. CASE th # r.th
    BY <2>1, <2>2 DEF Elsewhere
  <2>3. CASE th = r.th
    BY <1>4, <2>3 DEF Bases
  <2> QED BY <2>2, <2>3
<1>5. Based(Append(cs, r), base2)
  BY <1>1, <1>4, BasedPush DEF Core, Bases
<1>6. base2[MainThread] = 0
  BY <1>1, <1>4 DEF Core
<1>7. ASSUME NEW th \in Thread
      PROVE  Fits(Append(cs, r), th, st2[th], c2[th], calls2[th], ef2[th])
  <2>1. CASE th = r.th
    BY <2>1
  <2>2. CASE th # r.th
    <3>1. Fits(cs, th, st[th], c[th], calls[th], ef[th])
      BY DEF Core
    <3>2. Fits(Append(cs, r), th, st[th], c[th], calls[th], ef[th])
      BY <1>1, <2>2, <3>1, FitsOther
    <3>3. /\ st2[th] = st[th] /\ c2[th] = c[th] /\ calls2[th] = calls[th]
          /\ ef2[th] = ef[th]
      BY <2>2 DEF Elsewhere
    <3> QED BY <3>2, <3>3
  <2> QED BY <2>1, <2>2
<1> QED BY <1>2, <1>3, <1>5, <1>6, <1>7 DEF Core

(* What the thread on top of the stack has of its records. *)
LEMMA CoreTop ==
  ASSUME NEW cs, NEW st, NEW c, NEW base, NEW calls, NEW ef, Core(cs, st, c, base, calls, ef),
         NEW th, th = cs[Len(cs)].th
  PROVE  /\ th \in Thread /\ st[th] # "error" /\ calls[th] = CallsTo(cs, Len(cs))
         /\ HandlerAt(cs, th, Len(cs), ef[th])
         /\ st[th] = "ok" => Owned(cs, th, c[th])
<1>1. Shape(cs)
  BY DEF Core
<1>2. cs \in Stack /\ Len(cs) > 0 /\ th \in Thread
  BY <1>1, ShapeParts
<1>3. Fits(cs, th, st[th], c[th], calls[th], ef[th])
  BY <1>2 DEF Core
<1>4. /\ calls[th] = CallsTo(cs, Len(cs)) /\ st[th] # "error"
      /\ HandlerAt(cs, th, Len(cs), ef[th])
      /\ st[th] = "ok" => Owned(cs, th, c[th])
  BY <1>2, <1>3, FitsTop
<1> QED BY <1>2, <1>4

(* The thread's frames are those of fs and, above them, those of r. *)
Extends(fs, r, fs2) ==
  /\ Len(fs2) = Len(fs) + Frames(r)
  /\ \A k \in 1 .. Len(fs) : fs2[k] = fs[k]
  /\ \A k \in 1 .. Frames(r) : fs2[Len(fs) + k] = Kind(r)

(* The last call on a stack. *)
Ends(cs, f) == cs[Len(cs)].f = f

(* Facts about a natural number that the provers do not find in a context of *)
(* records and stacks.                                                       *)
LEMMA Successor ==
  ASSUME NEW n \in Nat
  PROVE  /\ n + 1 \in Nat /\ n \in 0 .. n + 1 /\ n + 1 \in 1 .. n + 1 /\ n + 0 = n
         /\ \A j \in (n + 1) + 1 .. n + 1 : FALSE
         /\ \A j \in n + 1 .. n + 1 : j = n + 1
OBVIOUS

LEMMA AboveOne ==
  ASSUME NEW n \in Nat, n > 1
  PROVE  n > 0 /\ n # 1 /\ n \in 0 .. n /\ n \in 1 .. n
OBVIOUS

LEMMA ExtendsNone ==
  ASSUME NEW fs, Len(fs) \in Nat, NEW r, Frames(r) = 0
  PROVE  Extends(fs, r, fs)
BY DEF Extends

LEMMA HandlerPush ==
  ASSUME NEW cs \in Stack, NEW th, NEW h, HandlerAt(cs, th, Len(cs), h), NEW r \in Record,
         r.f # "luaD_pcall" \/ r.th # th
  PROVE  HandlerAt(Append(cs, r), th, Len(cs) + 1, h)
<1> DEFINE n == Len(cs)
           ds == Append(cs, r)
<1>1. Agree(ds, cs, n) /\ ds[n + 1] = r /\ n \in Nat
  BY PushParts, StackParts
<1> HIDE DEF ds, n
<1>2. HandlerAt(ds, th, n, h)
  <2>1. HandlerAt(cs, th, n, h)
    BY DEF n
  <2> QED BY <1>1, <2>1, HandlerAgree
<1>3. ~PcallOf(ds, th, n + 1)
  BY <1>1 DEF PcallOf
<1>4. /\ n + 1 \in Nat /\ n \in 0 .. n + 1
      /\ \A i \in n + 1 .. n + 1 : ~PcallOf(ds, th, i)
  BY <1>1, <1>3
<1>5. HandlerAt(ds, th, n + 1, h)
  BY <1>2, <1>4, HandlerSkip
<1> QED BY <1>5 DEF ds, n

(* A record that the running thread pushes, with the frames it stands for:   *)
(* luaV_execute, a C function, luaD_call or luaG_errormsg.                   *)
LEMMA PushSame ==
  ASSUME NEW cs, NEW st, NEW c, NEW base, NEW calls, NEW ef, Core(cs, st, c, base, calls, ef),
         NEW r \in Record, Over(cs[Len(cs)], r), r.f \notin {"luaD_pcall", "lua_resume"},
         st[r.th] = "ok", Len(cs) > 1,
         NEW c2, NEW calls2, Elsewhere(r.th, c, c2), Elsewhere(r.th, calls, calls2),
         calls2[r.th] = calls[r.th] + IF r.f = "luaD_call" THEN 1 ELSE 0,
         Extends(c[r.th], r, c2[r.th])
  PROVE  Core(Append(cs, r), st, c2, base, calls2, ef)
<1>1. cs \in Stack /\ Len(cs) > 0 /\ Len(cs) # 1
  <2>1. Shape(cs)
    BY DEF Core
  <2>2. cs \in Stack /\ Len(cs) \in Nat
    BY <2>1, ShapeParts
  <2>3. Len(cs) > 0 /\ Len(cs) # 1
    BY <2>2
  <2> QED BY <2>2, <2>3
<1>2. r.th = cs[Len(cs)].th
  BY DEF Over
<1>3. /\ calls[r.th] = CallsTo(cs, Len(cs)) /\ HandlerAt(cs, r.th, Len(cs), ef[r.th])
      /\ Owned(cs, r.th, c[r.th])
  BY <1>2, CoreTop
<1>4. Owned(Append(cs, r), r.th, c2[r.th])
  BY <1>1, <1>3, OwnedPush DEF Extends
<1>5. HandlerAt(Append(cs, r), r.th, Len(cs) + 1, ef[r.th])
  BY <1>1, <1>3, HandlerPush
<1>6. calls2[r.th] = CallsTo(cs, Len(cs)) + IF r.f \in {"luaD_call", "lua_resume"} THEN 1 ELSE 0
  BY <1>3
<1>7. Fits(Append(cs, r), r.th, st[r.th], c2[r.th], calls2[r.th], ef[r.th])
  BY <1>1, <1>4, <1>5, <1>6, FitsPush
<1>8. SavedBy(cs, r, Len(cs))
  BY DEF SavedBy
<1>9. Bases(cs, r, base, base) /\ Elsewhere(r.th, st, st) /\ Elsewhere(r.th, base, base)
      /\ Elsewhere(r.th, ef, ef)
  BY DEF Bases, Elsewhere
<1>10. /\ Len(cs) = 1 => r.f = "luaD_pcall"
       /\ r.f = "lua_resume" => ~In(cs, r.th)
  BY <1>1
<1> QED BY <1>7, <1>8, <1>9, <1>10, CorePush

(* What luaD_pcall saves of its thread. *)
Saves(r, frames, calls, handler) ==
  /\ r.f = "luaD_pcall" /\ r.old_errfunc = handler
  /\ r.old_ci = Len(frames) /\ r.oldnCcalls = calls

(* luaD_pcall, with the handler that its caller has installed. *)
LEMMA PushPcall ==
  ASSUME NEW cs, NEW st, NEW c, NEW base, NEW calls, NEW ef, Core(cs, st, c, base, calls, ef),
         NEW r \in Record, Over(cs[Len(cs)], r), Saves(r, c[r.th], calls[r.th], ef[r.th]),
         st[r.th] = "ok",
         NEW ef2, Elsewhere(r.th, ef, ef2), ef2[r.th] = r.ef
  PROVE  Core(Append(cs, r), st, c, base, calls, ef2)
<1>1. cs \in Stack /\ Len(cs) > 0 /\ Len(cs) \in Nat /\ Len(cs) \in 0 .. Len(cs)
  <2>1. Shape(cs)
    BY DEF Core
  <2>2. cs \in Stack /\ Len(cs) > 0 /\ Len(cs) \in Nat
    BY <2>1, ShapeParts
  <2> QED BY <2>2
<1>2. r.th = cs[Len(cs)].th /\ r.f = "luaD_pcall"
  BY DEF Over, Saves
<1>3. /\ calls[r.th] = CallsTo(cs, Len(cs)) /\ HandlerAt(cs, r.th, Len(cs), ef[r.th])
      /\ Owned(cs, r.th, c[r.th])
  BY <1>2, CoreTop
<1>4. Len(c[r.th]) = FramesTo(cs, r.th, Len(cs)) /\ Len(c[r.th]) \in Nat
  <2>1. Len(c[r.th]) = FramesTo(cs, r.th, Len(cs))
    BY <1>3 DEF Owned
  <2> QED BY <1>1, <2>1, FramesNat
<1>5. Extends(c[r.th], r, c[r.th])
  <2>1. Frames(r) = 0
    BY <1>2 DEF Frames
  <2> QED BY <1>4, <2>1, ExtendsNone
<1>6. Owned(Append(cs, r), r.th, c[r.th])
  BY <1>1, <1>3, <1>5, OwnedPush DEF Extends
<1>7. HandlerAt(Append(cs, r), r.th, Len(cs) + 1, ef2[r.th])
  <2> DEFINE n == Len(cs)
             ds == Append(cs, r)
  <2>1. ds[n + 1] = r /\ n \in Nat
    BY <1>1, PushParts
  <2> HIDE DEF ds, n
  <2>2. PcallOf(ds, r.th, n + 1) /\ ds[n + 1].ef = ef2[r.th]
    BY <1>2, <2>1 DEF PcallOf
  <2>3. n + 1 \in 1 .. n + 1 /\ \A j \in (n + 1) + 1 .. n + 1 : FALSE
    BY <2>1, Successor
  <2>4. HandlerAt(ds, r.th, n + 1, ef2[r.th])
    BY <2>2, <2>3, Zenon DEF HandlerAt
  <2> QED BY <2>4 DEF ds, n
<1>8. calls[r.th] = CallsTo(cs, Len(cs)) + IF r.f \in {"luaD_call", "lua_resume"} THEN 1 ELSE 0
  <2>1. CallsTo(cs, Len(cs)) \in Nat
    BY <1>1, CallsNat
  <2>2. CallsTo(cs, Len(cs)) = CallsTo(cs, Len(cs)) + 0
    BY <2>1, Successor
  <2> QED BY <1>2, <1>3, <2>2, Zenon
<1>9. Fits(Append(cs, r), r.th, st[r.th], c[r.th], calls[r.th], ef2[r.th])
  BY <1>1, <1>6, <1>7, <1>8, FitsPush
<1>10. SavedBy(cs, r, Len(cs))
  BY <1>3, <1>4 DEF SavedBy, Saves
<1>11. Bases(cs, r, base, base) /\ Elsewhere(r.th, st, st) /\ Elsewhere(r.th, base, base)
       /\ Elsewhere(r.th, c, c) /\ Elsewhere(r.th, calls, calls)
  BY <1>2 DEF Bases, Elsewhere
<1>12. /\ Len(cs) = 1 => r.f = "luaD_pcall"
       /\ r.f = "lua_resume" => ~In(cs, r.th)
  BY <1>2
<1> QED BY <1>9, <1>10, <1>11, <1>12, CorePush

(* A coroutine that is not on the stack has no frames there. *)
LEMMA NotIn ==
  ASSUME NEW cs \in Stack, NEW th, ~In(cs, th)
  PROVE  FramesTo(cs, th, Len(cs)) = 0
<1>1. Len(cs) \in Nat /\ 0 \in 0 .. Len(cs) /\ \A i \in 0 + 1 .. Len(cs) : cs[i].th # th
  BY StackParts DEF In
<1>2. FramesTo(cs, th, 0) = FramesTo(cs, th, Len(cs))
  BY <1>1, FramesOthers
<1> QED BY <1>2, FramesNone

LEMMA OwnedNone ==
  ASSUME NEW cs \in Stack, NEW th, ~In(cs, th)
  PROVE  Owned(cs, th, <<>>)
<1>1. Len(<<>>) = 0
  OBVIOUS
<1>2. Len(<<>>) = FramesTo(cs, th, Len(cs))
  BY <1>1, NotIn
<1>3. ASSUME NEW i \in 2 .. Len(cs), cs[i].th = th
      PROVE  FALSE
  <2>1. i \in 1 .. Len(cs)
    BY StackParts
  <2> QED BY <1>3, <2>1 DEF In
<1> QED BY <1>2, <1>3 DEF Owned

(* lua_resume: the coroutine is marked as still suspended until it has all   *)
(* its frames, unless it has none.                                           *)
LEMMA PushResume ==
  ASSUME NEW cs, NEW st, NEW c, NEW base, NEW calls, NEW ef, Core(cs, st, c, base, calls, ef),
         NEW co \in Thread, ~In(cs, co), Ends(cs, "C function"), Len(cs) > 1,
         st[co] # "error",
         NEW st2, NEW c2, NEW base2, NEW calls2,
         Elsewhere(co, st, st2), Elsewhere(co, c, c2), Elsewhere(co, base, base2),
         Elsewhere(co, calls, calls2),
         st2[co] # "error", st2[co] = "ok" => Owned(cs, co, c2[co]),
         calls2[co] = CallsTo(cs, Len(cs)) + 1, Bases(cs, Resume(co), base, base2)
  PROVE  Core(Append(cs, Resume(co)), st2, c2, base2, calls2, ef)
<1> DEFINE r == Resume(co)
<1>1. r \in Record /\ r.th = co /\ r.f = "lua_resume" /\ Frames(r) = 0
  <2>1. r \in Record
    BY RecordTypes
  <2> QED BY <2>1 DEF Resume, Frames
<1> HIDE DEF r
<1>2. cs \in Stack /\ Len(cs) \in Nat
  <2>1. Shape(cs)
    BY DEF Core
  <2> QED BY <2>1, ShapeParts
<1>3. Len(cs) > 0 /\ Len(cs) # 1 /\ Len(cs) \in 0 .. Len(cs)
  BY <1>2, AboveOne, Zenon
<1>4. HandlerAt(Append(cs, r), co, Len(cs) + 1, ef[co])
  <2>1. Fits(cs, co, st[co], c[co], calls[co], ef[co])
    BY DEF Core
  <2>2. HandlerAt(cs, co, Len(cs), ef[co])
    BY <2>1 DEF Fits
  <2>3. r.f # "luaD_pcall"
    BY <1>1
  <2> QED BY <1>1, <1>2, <2>2, <2>3, HandlerPush
<1>5. ASSUME st2[co] = "ok"
      PROVE  Owned(Append(cs, r), co, c2[co])
  <2>1. Owned(cs, co, c2[co])
    BY <1>5
  <2>2. Len(c2[co]) \in Nat
    <3>1. Len(c2[co]) = FramesTo(cs, co, Len(cs))
      BY <2>1 DEF Owned
    <3> QED BY <1>2, <1>3, <3>1, FramesNat
  <2>3. Extends(c2[co], r, c2[co])
    BY <1>1, <2>2, ExtendsNone
  <2> QED BY <1>1, <1>2, <1>3, <2>1, <2>3, OwnedPush DEF Extends
<1>6. Fits(Append(cs, r), co, st2[co], c2[co], calls2[co], ef[co])
  <2>1. calls2[co] = CallsTo(cs, Len(cs)) + IF r.f \in {"luaD_call", "lua_resume"} THEN 1 ELSE 0
    BY <1>1
  <2>2. st2[co] # "error"
    OBVIOUS
  <2>3. Fits(Append(cs, r), r.th, st2[co], c2[co], calls2[co], ef[co])
    BY <1>1, <1>2, <1>3, <1>4, <1>5, <2>1, <2>2, FitsPush
  <2> QED BY <1>1, <2>3
<1>7. Over(cs[Len(cs)], r)
  BY <1>1 DEF Over, Under, Ends
<1>8. /\ SavedBy(cs, r, Len(cs)) /\ Elsewhere(co, ef, ef) /\ Bases(cs, r, base, base2)
  BY <1>1 DEF SavedBy, Elsewhere, r
<1>9. Core(Append(cs, r), st2, c2, base2, calls2, ef)
  <2>1. /\ Len(cs) = 1 => r.f = "luaD_pcall"
        /\ r.f = "lua_resume" => ~In(cs, r.th)
    BY <1>1, <1>3
  <2> QED BY <1>1, <1>6, <1>7, <1>8, <2>1, CorePush
<1> QED BY <1>9 DEF r

(* luaV_execute of the coroutine that was resumed. *)
LEMMA PushResumed ==
  ASSUME NEW cs, NEW st, NEW c, NEW base, NEW calls, NEW ef, Core(cs, st, c, base, calls, ef),
         NEW co \in Thread, cs[Len(cs)] = Resume(co), FramesTo(cs, co, Len(cs)) = 0,
         Len(cs) > 1,
         NEW st2, Elsewhere(co, st, st2), st2[co] = "ok",
         Len(c[co]) \in Nat, Len(c[co]) > 0, \A k \in 1 .. Len(c[co]) : c[co][k] = "Lua"
  PROVE  Core(Append(cs, Execute(co, Len(c[co]))), st2, c, base, calls, ef)
<1> DEFINE r == Execute(co, Len(c[co]))
<1>1. /\ r \in Record /\ r.th = co /\ r.f = "luaV_execute" /\ Frames(r) = Len(c[co])
      /\ r.nexeccalls > 0 /\ Kind(r) = "Lua"
  <2>1. r \in Record
    BY RecordTypes
  <2> QED BY <2>1 DEF Execute, Frames, Kind
<1> HIDE DEF r
<1>2. cs \in Stack /\ Len(cs) \in Nat
  <2>1. Shape(cs)
    BY DEF Core
  <2> QED BY <2>1, ShapeParts
<1>3. Len(cs) > 0 /\ Len(cs) # 1 /\ Len(cs) \in 0 .. Len(cs)
  BY <1>2, AboveOne, Zenon
<1>4. cs[Len(cs)].th = co /\ cs[Len(cs)].f = "lua_resume"
  <2>1. Resume(co).th = co /\ Resume(co).f = "lua_resume"
    BY DEF Resume
  <2> QED BY <2>1
<1>5. calls[co] = CallsTo(cs, Len(cs)) /\ HandlerAt(cs, co, Len(cs), ef[co])
  BY <1>4, CoreTop
<1>6. HandlerAt(Append(cs, r), co, Len(cs) + 1, ef[co])
  <2>1. r.f # "luaD_pcall"
    BY <1>1
  <2> QED BY <1>1, <1>2, <1>5, <2>1, HandlerPush
<1>7. Owned(Append(cs, r), co, c[co])
  <2> DEFINE n == Len(cs)
             ds == Append(cs, r)
  <2>1. /\ Len(ds) = n + 1 /\ ds[n + 1] = r /\ Agree(ds, cs, n) /\ ds \in Stack /\ n \in Nat
        /\ \A i \in 1 .. n : ds[i] = cs[i]
    BY <1>1, <1>2, PushParts
  <2>2. n > 0 /\ n \in 1 .. n
    BY <1>2, <1>3
  <2>3. FramesTo(cs, co, n) = 0
    OBVIOUS
  <2> HIDE DEF ds, n
  <2>4. FramesTo(ds, co, n) = 0
    BY <2>1, <2>3, FramesAgree
  <2>5. n \in 1 .. Len(ds) /\ n < Len(ds)
    BY <2>1, <2>2
  <2>6. FramesTo(ds, co, n + 1) = Len(c[co])
    BY <1>1, <2>1, <2>4, <2>5, FramesStep
  <2>7. ASSUME NEW i \in 2 .. n, cs[i].th = co
        PROVE  Frames(cs[i]) = 0 /\ FramesTo(cs, co, i - 1) = 0
    <3>1. cs \in Stack /\ n \in 1 .. Len(cs)
      BY <1>2, <2>2 DEF n
    <3>2. /\ FramesTo(cs, co, i - 1) \in Nat /\ Frames(cs[i]) \in Nat
          /\ FramesTo(cs, co, i - 1) + Frames(cs[i]) <= FramesTo(cs, co, n)
      BY <2>7, <3>1, FramesUpTo
    <3> QED BY <2>3, <3>2
  <2>8. ASSUME NEW i \in 2 .. n + 1, ds[i].th = co, NEW k \in 1 .. Frames(ds[i])
        PROVE  c[co][FramesTo(ds, co, i - 1) + k] = Kind(ds[i])
    <3>1. CASE i = n + 1
      <4>1. FramesTo(ds, co, i - 1) = 0 /\ ds[i] = r /\ k \in 1 .. Len(c[co])
        <5>1. i - 1 = n
          BY <2>1, <3>1
        <5>2. ds[i] = r
          BY <2>1, <3>1
        <5> QED BY <1>1, <2>4, <2>8, <5>1, <5>2
      <4>2. 0 + k = k
        BY <4>1
      <4> QED BY <1>1, <4>1, <4>2
    <3>2. CASE i # n + 1
      <4>1. i \in 2 .. n /\ i \in 1 .. n
        BY <2>1, <3>2
      <4>2. ds[i] = cs[i]
        BY <2>1, <4>1
      <4>3. Frames(ds[i]) = 0
        BY <2>7, <2>8, <4>1, <4>2
      <4> QED BY <2>8, <4>3
    <3> QED BY <3>1, <3>2
  <2>9. Owned(ds, co, c[co])
    BY <2>1, <2>6, <2>8 DEF Owned
  <2> QED BY <2>9 DEF ds
<1>8. Fits(Append(cs, r), r.th, st2[r.th], c[r.th], calls[r.th], ef[r.th])
  <2>1. calls[co] = CallsTo(cs, Len(cs)) + IF r.f \in {"luaD_call", "lua_resume"} THEN 1 ELSE 0
    <3>1. CallsTo(cs, Len(cs)) \in Nat
      BY <1>2, CallsNat
    <3>2. CallsTo(cs, Len(cs)) = CallsTo(cs, Len(cs)) + 0
      BY <3>1, Successor
    <3>3. r.f \notin {"luaD_call", "lua_resume"}
      BY <1>1
    <3> QED BY <1>5, <3>2, <3>3, Zenon
  <2>2. st2[co] # "error"
    OBVIOUS
  <2> QED BY <1>1, <1>2, <1>3, <1>6, <1>7, <2>1, <2>2, FitsPush
<1>9. Over(cs[Len(cs)], r)
  BY <1>1, <1>4 DEF Over, Under
<1>10. /\ SavedBy(cs, r, Len(cs)) /\ Elsewhere(co, ef, ef) /\ Elsewhere(co, base, base)
       /\ Elsewhere(co, c, c) /\ Elsewhere(co, calls, calls) /\ Bases(cs, r, base, base)
  BY <1>1 DEF SavedBy, Elsewhere, Bases
<1>11. Core(Append(cs, r), st2, c, base, calls, ef)
  <2>1. /\ Len(cs) = 1 => r.f = "luaD_pcall"
        /\ r.f = "lua_resume" => ~In(cs, r.th)
    BY <1>1, <1>3
  <2> QED BY <1>1, <1>8, <1>9, <1>10, <2>1, CorePush
<1> QED BY <1>11 DEF r

----------------------------------------------------------------------------
(* Records that are dropped: those of thread th above the first m. *)

OnlyOf(cs, m, th) == \A i \in m + 1 .. Len(cs) : cs[i].th = th

(* The thread still has a record at the top of what is left. *)
LEMMA FitsStays ==
  ASSUME NEW cs \in Stack, NEW m \in 1 .. Len(cs), NEW th, cs[m].th = th,
         NEW state, NEW frames, NEW calls, NEW handler,
         state # "error", calls = CallsTo(cs, m), HandlerAt(cs, th, m, handler),
         state = "ok" => Owned(Cut(cs, m), th, frames)
  PROVE  Fits(Cut(cs, m), th, state, frames, calls, handler)
<1> DEFINE ds == Cut(cs, m)
<1>1. m \in 0 .. Len(cs) /\ m \in Nat
  BY StackParts
<1>2. Len(ds) = m /\ Agree(cs, ds, m) /\ ds[m] = cs[m]
  <2>1. m \in 1 .. m
    BY <1>1
  <2>2. Len(ds) = m /\ Agree(ds, cs, m)
    BY <1>1, CutParts
  <2> QED BY <2>1, <2>2 DEF Agree
<1> HIDE DEF ds
<1>3. ASSUME NEW i \in 1 .. m, LastOf(ds, th, i)
      PROVE  i = m
  <2>1. i # m => m \in i + 1 .. m
    BY <1>1
  <2> QED BY <1>2, <1>3, <2>1 DEF LastOf
<1>4. calls = CallsTo(ds, m)
  BY <1>1, <1>2, CallsAgree
<1>5. HandlerAt(ds, th, m, handler)
  BY <1>1, <1>2, HandlerAgree
<1> QED BY <1>2, <1>3, <1>4, <1>5 DEF Fits, ds

(* The thread has no record left: it has been resumed at m + 1. *)
LEMMA FitsGone ==
  ASSUME NEW cs \in Stack, NEW m \in 1 .. Len(cs), NEW th, ~In(Cut(cs, m), th),
         NEW state, NEW frames, NEW calls, NEW handler,
         state # "error" => HandlerAt(cs, th, m, handler),
         state = "ok" => frames = <<>>
  PROVE  Fits(Cut(cs, m), th, state, frames, calls, handler)
<1> DEFINE ds == Cut(cs, m)
<1>1. m \in 0 .. Len(cs) /\ m \in Nat
  BY StackParts
<1>2. Len(ds) = m /\ Agree(cs, ds, m) /\ ds \in Stack
  <2>1. Len(ds) = m /\ Agree(ds, cs, m) /\ ds \in Stack
    BY <1>1, CutParts
  <2> QED BY <2>1 DEF Agree
<1>3. ~In(ds, th)
  OBVIOUS
<1> HIDE DEF ds
<1>4. \A i \in 1 .. m : ~LastOf(ds, th, i)
  BY <1>2, <1>3 DEF LastOf, In
<1>5. state # "error" => HandlerAt(ds, th, m, handler)
  BY <1>1, <1>2, HandlerAgree
<1>6. state = "ok" => Owned(ds, th, frames)
  BY <1>2, <1>3, OwnedNone
<1> QED BY <1>2, <1>3, <1>4, <1>5, <1>6 DEF Fits, ds

LEMMA CoreCut ==
  ASSUME NEW cs, NEW st, NEW c, NEW base, NEW calls, NEW ef, Core(cs, st, c, base, calls, ef),
         NEW m \in 1 .. Len(cs), NEW th, OnlyOf(cs, m, th),
         NEW st2, NEW c2, NEW calls2, NEW ef2,
         Elsewhere(th, st, st2), Elsewhere(th, c, c2), Elsewhere(th, calls, calls2),
         Elsewhere(th, ef, ef2),
         Fits(Cut(cs, m), th, st2[th], c2[th], calls2[th], ef2[th])
  PROVE  Core(Cut(cs, m), st2, c2, base, calls2, ef2)
<1>1. Shape(cs) /\ cs \in Stack
  BY ShapeParts DEF Core
<1>2. Shape(Cut(cs, m))
  BY <1>1, ShapeCut
<1>3. Saved(Cut(cs, m))
  BY <1>1, SavedCut DEF Core
<1>4. Based(Cut(cs, m), base) /\ base[MainThread] = 0
  BY <1>1, BasedCut DEF Core
<1>5. ASSUME NEW t \in Thread
      PROVE  Fits(Cut(cs, m), t, st2[t], c2[t], calls2[t], ef2[t])
  <2>1. CASE t = th
    BY <2>1
  <2>2. CASE t # th
    <3>1. Fits(cs, t, st[t], c[t], calls[t], ef[t])
      BY DEF Core
    <3>2. \A i \in m + 1 .. Len(cs) : cs[i].th # t
      BY <2>2 DEF OnlyOf
    <3>3. Fits(Cut(cs, m), t, st[t], c[t], calls[t], ef[t])
      BY <1>1, <3>1, <3>2, FitsCut
    <3>4. st2[t] = st[t] /\ c2[t] = c[t] /\ calls2[t] = calls[t] /\ ef2[t] = ef[t]
      BY <2>2 DEF Elsewhere
    <3> QED BY <3>3, <3>4
  <2> QED BY <2>1, <2>2
<1> QED BY <1>2, <1>3, <1>4, <1>5 DEF Core

(* The frames of the last record are the last frames of its thread. *)
LEMMA TopFrames ==
  ASSUME NEW cs \in Stack, NEW th, NEW fs \in Seq(FrameKind), Owned(cs, th, fs),
         Len(cs) > 1, cs[Len(cs)].th = th
  PROVE  LET low == SubSeq(fs, 1, Len(fs) - Frames(cs[Len(cs)])) IN
         /\ low \in Seq(FrameKind) /\ Extends(low, cs[Len(cs)], fs)
         /\ Len(low) = FramesTo(cs, th, Len(cs) - 1)
<1> DEFINE n == Len(cs)
           k == n - 1
           f == Frames(cs[n])
           m == Len(fs) - f
           low == SubSeq(fs, 1, m)
<1>1. /\ k \in 1 .. n /\ k < n /\ k + 1 = n /\ n \in 1 .. n /\ n \in 2 .. n /\ n \in Nat
      /\ k \in 0 .. n
  BY StackParts
<1>2. f \in Nat /\ FramesTo(cs, th, k) \in Nat /\ Len(fs) \in Nat
  BY <1>1, StackParts, RecordParts, FramesNat, LenProperties
<1>3. FramesTo(cs, th, n) = FramesTo(cs, th, k) + f
  <2> HIDE DEF k
  <2> QED BY <1>1, FramesStep
<1>4. Len(fs) = FramesTo(cs, th, n)
  BY DEF Owned
<1>5. m = FramesTo(cs, th, k) /\ m \in Nat /\ m <= Len(fs) /\ Len(fs) = m + f
  <2> HIDE DEF k, f, n
  <2> QED BY <1>2, <1>3, <1>4
<1>6. \A j \in 1 .. f : fs[m + j] = Kind(cs[n])
  <2>1. \A j \in 1 .. Frames(cs[n]) : fs[FramesTo(cs, th, n - 1) + j] = Kind(cs[n])
    BY <1>1 DEF Owned
  <2> QED BY <1>5, <2>1
<1> HIDE DEF m, f, k, n
<1>7. /\ low \in Seq(FrameKind) /\ Len(low) = m
      /\ \A j \in 1 .. m : low[j] = fs[j]
  <2>1. \A j \in 1 .. m : fs[j] \in FrameKind
    BY <1>2, <1>5, ElementOfSeq
  <2>2. /\ SubSeq(fs, 1, m) \in Seq(FrameKind)
        /\ Len(SubSeq(fs, 1, m)) = IF 1 <= m THEN m - 1 + 1 ELSE 0
        /\ \A i \in 1 .. m - 1 + 1 : SubSeq(fs, 1, m)[i] = fs[1 + i - 1]
    BY <1>5, <2>1, SubSeqProperties
  <2>3. Len(SubSeq(fs, 1, m)) = m
    BY <1>5, <2>2
  <2>4. \A j \in 1 .. m : SubSeq(fs, 1, m)[j] = fs[j]
    BY <1>5, <2>2
  <2> QED BY <2>2, <2>3, <2>4
<1> HIDE DEF low
<1>8. Extends(low, cs[n], fs)
  BY <1>5, <1>6, <1>7 DEF Extends, f
<1> QED BY <1>5, <1>7, <1>8 DEF low, m, f, n, k

(* The running thread drops its last record and the frames it stands for.    *)
LEMMA DropTop ==
  ASSUME NEW cs, NEW st, NEW c, NEW base, NEW calls, NEW ef, Core(cs, st, c, base, calls, ef),
         NEW r, r = cs[Len(cs)], r.f # "lua_resume", Len(cs) > 1, st[r.th] = "ok",
         NEW c2, NEW calls2, NEW ef2,
         Elsewhere(r.th, c, c2), Elsewhere(r.th, calls, calls2), Elsewhere(r.th, ef, ef2),
         calls2[r.th] = calls[r.th] - IF r.f = "luaD_call" THEN 1 ELSE 0,
         ef2[r.th] = IF r.f = "luaD_pcall" THEN r.old_errfunc ELSE ef[r.th],
         Len(c2[r.th]) \in Nat, Extends(c2[r.th], r, c[r.th])
  PROVE  Core(Cut(cs, Len(cs) - 1), st, c2, base, calls2, ef2)
<1> DEFINE n == Len(cs)
           m == n - 1
           th == r.th
<1>1. Shape(cs) /\ cs \in Stack /\ n \in Nat
  BY ShapeParts DEF Core
<1>2. m \in Nat /\ m \in 1 .. n /\ m < n /\ m + 1 = n /\ n \in 2 .. n /\ m \in 0 .. n
      /\ n \in 1 .. n /\ \A i \in m + 1 .. n : i = n
  <2>1. n > 1
    OBVIOUS
  <2> HIDE DEF n
  <2> QED BY <1>1, <2>1
<1>3. Over(cs[m], r) /\ cs[m].th = th /\ r \in Record
  <2>1. Over(cs[n - 1], cs[n])
    BY <1>1, <1>2 DEF Shape
  <2>2. cs[n] \in Record
    BY <1>1, <1>2, StackParts
  <2> QED BY <2>1, <2>2 DEF Over
<1>4. calls[th] = CallsTo(cs, n) /\ HandlerAt(cs, th, n, ef[th]) /\ Owned(cs, th, c[th])
  BY CoreTop
<1>5. calls2[th] = CallsTo(cs, m)
  <2>1. CallsTo(cs, m + 1) = CallsTo(cs, m)
           + IF cs[m + 1].f \in {"luaD_call", "lua_resume"} THEN 1 ELSE 0
    <3> HIDE DEF m
    <3> QED BY <1>2, CallsStep
  <2>2. CallsTo(cs, m) \in Nat
    BY <1>2, CallsNat
  <2> HIDE DEF m, n
  <2>3. calls2[th] = CallsTo(cs, n) - IF r.f = "luaD_call" THEN 1 ELSE 0
    BY <1>4
  <2>4. cs[m + 1] = r /\ m + 1 = n
    BY <1>2 DEF n
  <2>5. CASE r.f = "luaD_call"
    BY <2>1, <2>2, <2>3, <2>4, <2>5
  <2>6. CASE r.f # "luaD_call"
    BY <2>1, <2>2, <2>3, <2>4, <2>6
  <2> QED BY <2>5, <2>6
<1>6. HandlerAt(cs, th, m, ef2[th])
  <2>1. CASE r.f = "luaD_pcall"
    <3>1. SavedBy(cs, cs[n], n - 1)
      BY <1>2 DEF Core, Saved
    <3> QED BY <2>1, <3>1 DEF SavedBy
  <2>2. CASE r.f # "luaD_pcall"
    <3>1. \A i \in m + 1 .. n : ~PcallOf(cs, th, i)
      BY <1>2, <2>2 DEF PcallOf
    <3>2. HandlerAt(cs, th, m, ef[th])
      <4> HIDE DEF m, n
      <4> QED BY <1>1, <1>2, <1>4, <3>1, HandlerSkip
    <3> QED BY <2>2, <3>2
  <2> QED BY <2>1, <2>2
<1>7. Owned(Cut(cs, m), th, c2[th])
  <2>1. FramesTo(cs, th, n) = FramesTo(cs, th, m) + Frames(r)
    <3>1. FramesTo(cs, th, m + 1) = FramesTo(cs, th, m)
           + IF cs[m + 1].th = th THEN Frames(cs[m + 1]) ELSE 0
      <4> HIDE DEF m
      <4> QED BY <1>1, <1>2, FramesStep
    <3>2. cs[m + 1] = r /\ m + 1 = n
      BY <1>2
    <3> QED BY <3>1, <3>2
  <2>2. FramesTo(cs, th, m) \in Nat /\ Frames(r) \in Nat
    BY <1>1, <1>2, <1>3, FramesNat, RecordParts
  <2>3. Len(c[th]) = FramesTo(cs, th, n)
    BY <1>4 DEF Owned
  <2>4. Len(c[th]) = Len(c2[th]) + Frames(r) /\ \A j \in 1 .. Len(c2[th]) : c2[th][j] = c[th][j]
    BY DEF Extends
  <2>5. Len(c2[th]) = FramesTo(cs, th, m)
    <3> HIDE DEF m, n
    <3> QED BY <2>1, <2>2, <2>3, <2>4
  <2> QED BY <1>1, <1>2, <1>4, <2>4, <2>5, OwnedCut
<1>8. Fits(Cut(cs, m), th, st[th], c2[th], calls2[th], ef2[th])
  <2>1. st[th] # "error"
    OBVIOUS
  <2> HIDE DEF m, n, th
  <2> QED BY <1>1, <1>2, <1>3, <1>5, <1>6, <1>7, <2>1, FitsStays DEF n
<1>9. OnlyOf(cs, m, th) /\ Elsewhere(th, st, st)
  BY <1>2 DEF OnlyOf, Elsewhere
<1> HIDE DEF m
<1>10. Core(Cut(cs, m), st, c2, base, calls2, ef2)
  BY <1>2, <1>8, <1>9, CoreCut
<1> QED BY <1>10 DEF m

(* luaV_execute counts another frame, or one less.                           *)
Recounted(fs, v, fs2, w) ==
  /\ Len(fs2) + v = Len(fs) + w
  /\ \A k \in 1 .. Len(fs2) : fs2[k] = IF k <= Len(fs) THEN fs[k] ELSE "Lua"

LEMMA Recount ==
  ASSUME NEW cs, NEW st, NEW c, NEW base, NEW calls, NEW ef, Core(cs, st, c, base, calls, ef),
         NEW r, r = cs[Len(cs)], r.f = "luaV_execute", Len(cs) > 2, st[r.th] = "ok",
         c[r.th] \in Seq(FrameKind), NEW w \in Nat, w > 0,
         NEW c2, Elsewhere(r.th, c, c2), Recounted(c[r.th], r.nexeccalls, c2[r.th], w),
         Len(c2[r.th]) \in Nat
  PROVE  Core(Append(Cut(cs, Len(cs) - 1), Execute(r.th, w)), st, c2, base, calls, ef)
<1> DEFINE n == Len(cs)
           m == n - 1
           th == r.th
           low == SubSeq(c[th], 1, Len(c[th]) - Frames(cs[n]))
           mid == [t \in Thread |-> IF t = th THEN low ELSE c[t]]
           q == Execute(th, w)
           v == r.nexeccalls
<1>1. Shape(cs) /\ cs \in Stack /\ n \in Nat
  BY ShapeParts DEF Core
<1>2. /\ m \in Nat /\ m \in 1 .. n /\ m + 1 = n /\ n \in 2 .. n /\ m \in 0 .. n
      /\ n \in 1 .. n /\ n > 1 /\ m > 1 /\ m \in 1 .. m
  <2>1. n > 2
    OBVIOUS
  <2> HIDE DEF n
  <2> QED BY <1>1, <2>1
<1>3. /\ r \in Record /\ th \in Thread /\ v \in Nat /\ Frames(r) = v /\ Kind(r) = "Lua"
      /\ cs[n] = r
  <2>1. cs[n] \in Record
    BY <1>1, <1>2, StackParts
  <2>2. r \in Record
    BY <2>1
  <2> QED BY <2>2, RecordParts DEF Frames, Kind
<1>4. cs[m].f \in Under("luaV_execute") /\ cs[m].th = th
  <2>1. Over(cs[n - 1], cs[n])
    BY <1>1, <1>2 DEF Shape
  <2> QED BY <2>1 DEF Over
<1>5. Owned(cs, th, c[th])
  BY CoreTop
<1>6. low \in Seq(FrameKind) /\ Extends(low, r, c[th])
  BY <1>1, <1>2, <1>3, <1>5, TopFrames
<1>7. Len(low) \in Nat
  BY <1>6, LenProperties
<1> HIDE DEF low, v
<1>8. Core(Cut(cs, n - 1), st, mid, base, calls, ef)
  <2>1. /\ Elsewhere(th, c, mid) /\ Elsewhere(th, calls, calls) /\ Elsewhere(th, ef, ef)
        /\ mid[th] = low
    BY <1>3 DEF Elsewhere
  <2>2. calls[th] = calls[th] - IF r.f = "luaD_call" THEN 1 ELSE 0
    <3>1. calls[th] = CallsTo(cs, Len(cs))
      BY CoreTop
    <3>2. calls[th] \in Nat
      BY <1>1, <3>1, CallsNat
    <3>3. calls[th] = calls[th] - 0
      BY <3>2
    <3>4. r.f # "luaD_call"
      OBVIOUS
    <3> QED BY <3>3, <3>4, Zenon
  <2>3. ef[th] = IF r.f = "luaD_pcall" THEN r.old_errfunc ELSE ef[th]
    OBVIOUS
  <2>4. n > 1 /\ r.f # "lua_resume"
    BY <1>2
  <2> HIDE DEF mid
  <2> QED BY <1>6, <1>7, <2>1, <2>2, <2>3, <2>4, DropTop
<1>9. q \in Record /\ q.f = "luaV_execute" /\ q.th = th /\ q.nexeccalls = w /\ Frames(q) = w
      /\ Kind(q) = "Lua"
  <2>1. q \in Record
    BY <1>3, RecordTypes
  <2> QED BY <2>1 DEF Execute, Frames, Kind
<1>10. Extends(low, q, c2[th])
  <2> DEFINE l == Len(low)
             t == Len(c[th])
             t2 == Len(c2[th])
  <2>1. l \in Nat /\ t2 \in Nat /\ v \in Nat /\ w \in Nat
    BY <1>3, <1>7
  <2>2. t = l + v /\ \A k \in 1 .. l : c[th][k] = low[k]
    BY <1>3, <1>6 DEF Extends
  <2>3. \A k \in 1 .. v : c[th][l + k] = "Lua"
    BY <1>3, <1>6 DEF Extends
  <2>4. t2 + v = t + w
    BY DEF Recounted, v
  <2>5. \A k \in 1 .. t2 : c2[th][k] = IF k <= t THEN c[th][k] ELSE "Lua"
    BY DEF Recounted
  <2> HIDE DEF l, t, t2
  <2>6. t2 = l + w
    BY <2>1, <2>2, <2>4
  <2>7. ASSUME NEW k \in 1 .. l
        PROVE  c2[th][k] = low[k]
    <3>1. k \in 1 .. t2 /\ k <= t
      BY <2>1, <2>2, <2>6
    <3>2. c2[th][k] = c[th][k]
      BY <2>5, <3>1
    <3> QED BY <2>2, <3>2
  <2>8. ASSUME NEW k \in 1 .. w
        PROVE  c2[th][l + k] = "Lua"
    <3>1. l + k \in 1 .. t2 /\ (l + k <= t => k \in 1 .. v)
      BY <2>1, <2>2, <2>6
    <3>2. l + k <= t => c[th][l + k] = "Lua"
      BY <2>3, <3>1
    <3> QED BY <2>5, <3>1, <3>2
  <2> QED BY <1>9, <2>6, <2>7, <2>8 DEF Extends, l, t2
<1> DEFINE ds == Cut(cs, m)
<1>11. ds[Len(ds)] = cs[m] /\ Len(ds) > 1 /\ Core(ds, st, mid, base, calls, ef)
  <2>1. Len(ds) = m /\ \A i \in 1 .. m : ds[i] = cs[i]
    BY <1>1, <1>2, CutParts
  <2> QED BY <1>2, <1>8, <2>1
<1>12. Over(ds[Len(ds)], q)
  BY <1>4, <1>9, <1>11 DEF Over
<1>13. /\ Elsewhere(th, mid, c2) /\ Elsewhere(th, calls, calls) /\ mid[th] = low
  BY <1>3 DEF Elsewhere
<1>14. calls[th] = calls[th] + IF q.f = "luaD_call" THEN 1 ELSE 0
  <2>1. calls[th] = CallsTo(cs, Len(cs))
    BY CoreTop
  <2>2. calls[th] \in Nat
    BY <1>1, <2>1, CallsNat
  <2>3. calls[th] = calls[th] + 0
    BY <2>2
  <2>4. q.f # "luaD_call"
    BY <1>9
  <2> QED BY <2>3, <2>4, Zenon
<1>15. st[q.th] = "ok" /\ q.f \notin {"luaD_pcall", "lua_resume"}
  BY <1>9
<1> HIDE DEF ds, mid, q
<1>16. Core(Append(ds, q), st, c2, base, calls, ef)
  BY <1>9, <1>10, <1>11, <1>12, <1>13, <1>14, <1>15, PushSame
<1> QED BY <1>16 DEF ds, m, q, n

----------------------------------------------------------------------------
(* Steps that leave the resumptions alone: above a record of thread th, they *)
(* change only records of th, none of them of lua_resume.                    *)

TailOf(cs, m, th) == \A i \in m + 1 .. Len(cs) : cs[i].th = th /\ cs[i].f # "lua_resume"
Shares(cs, ds, m, th) ==
  /\ m \in 1 .. Len(cs) /\ m \in 1 .. Len(ds) /\ Agree(cs, ds, m)
  /\ cs[m].th = th /\ TailOf(cs, m, th) /\ TailOf(ds, m, th)
Near(cs, ds, th) == \E m \in Nat : Shares(cs, ds, m, th)

LEMMA SharesSwap ==
  ASSUME NEW cs \in Stack, NEW ds \in Stack, NEW th, NEW m, Shares(cs, ds, m, th)
  PROVE  Shares(ds, cs, m, th)
<1>1. m \in 1 .. m /\ Agree(ds, cs, m)
  BY StackParts DEF Shares, Agree
<1>2. ds[m] = cs[m]
  BY <1>1 DEF Agree
<1> QED BY <1>1, <1>2 DEF Shares

LEMMA SharesIn ==
  ASSUME NEW cs \in Stack, NEW ds \in Stack, NEW th, NEW m, Shares(cs, ds, m, th)
  PROVE  /\ \A t : In(cs, t) => In(ds, t)
         /\ Resumptions(cs) \subseteq Resumptions(ds)
<1>1. Len(cs) \in Nat /\ Len(ds) \in Nat /\ m \in 1 .. Len(cs) /\ m \in 1 .. Len(ds)
  BY StackParts DEF Shares
<1>2. \A i \in 1 .. m : cs[i] = ds[i]
  BY DEF Shares, Agree
<1>3. ASSUME NEW t, NEW i \in 1 .. Len(cs), cs[i].th = t
      PROVE  In(ds, t)
  <2>1. CASE i \in 1 .. m
    <3>1. i \in 1 .. Len(ds) /\ ds[i].th = t
      BY <1>1, <1>2, <1>3, <2>1
    <3> QED BY <3>1 DEF In
  <2>2. CASE i \in m + 1 .. Len(cs)
    <3>1. t = th
      BY <1>3, <2>2 DEF Shares, TailOf
    <3>2. m \in 1 .. m
      BY <1>1
    <3>3. cs[m].th = th /\ ds[m] = cs[m]
      BY <1>2, <3>2 DEF Shares
    <3> QED BY <1>1, <3>1, <3>3 DEF In
  <2> QED BY <1>1, <2>1, <2>2
<1>4. ASSUME NEW i \in 2 .. Len(cs), cs[i].f = "lua_resume"
      PROVE  <<cs[i - 1].th, cs[i].th>> \in Resumptions(ds)
  <2>1. i \in 1 .. m
    <3>1. i \notin m + 1 .. Len(cs)
      BY <1>4 DEF Shares, TailOf
    <3> QED BY <1>1, <3>1
  <2>2. i \in 2 .. Len(ds) /\ i \in 1 .. m /\ i - 1 \in 1 .. m
    BY <1>1, <2>1
  <2>3. ds[i] = cs[i] /\ ds[i - 1] = cs[i - 1]
    BY <1>2, <2>2
  <2> QED BY <1>4, <2>2, <2>3 DEF Resumptions
<1> QED BY <1>3, <1>4 DEF In, Resumptions

LEMMA NearParts ==
  ASSUME NEW cs \in Stack, NEW ds \in Stack, NEW th, Near(cs, ds, th)
  PROVE  /\ \A t : In(cs, t) <=> In(ds, t)
         /\ Resumptions(cs) = Resumptions(ds)
         /\ ds[Len(ds)].th = th
<1>1. PICK m \in Nat : Shares(cs, ds, m, th)
  BY DEF Near
<1>2. Shares(ds, cs, m, th)
  BY <1>1, SharesSwap
<1>3. ds[Len(ds)].th = th
  <2>1. Len(ds) \in Nat /\ m \in 1 .. Len(ds)
    BY <1>2, StackParts DEF Shares
  <2>2. CASE m = Len(ds)
    BY <1>2, <2>2 DEF Shares
  <2>3. CASE m # Len(ds)
    <3>1. Len(ds) \in m + 1 .. Len(ds)
      BY <2>1, <2>3
    <3> QED BY <1>2, <3>1 DEF Shares, TailOf
  <2> QED BY <2>2, <2>3
<1>4. /\ \A t : In(cs, t) => In(ds, t)
      /\ Resumptions(cs) \subseteq Resumptions(ds)
  BY <1>1, SharesIn
<1>5. /\ \A t : In(ds, t) => In(cs, t)
      /\ Resumptions(ds) \subseteq Resumptions(cs)
  BY <1>2, SharesIn
<1> QED BY <1>3, <1>4, <1>5

LEMMA NearPush ==
  ASSUME NEW cs \in Stack, NEW ds \in Stack, NEW r \in Record, Near(cs, ds, r.th),
         r.f # "lua_resume"
  PROVE  Near(cs, Append(ds, r), r.th)
<1>1. PICK m \in Nat : Shares(cs, ds, m, r.th)
  BY DEF Near
<1> DEFINE es == Append(ds, r)
           n == Len(ds)
<1>2. /\ n \in Nat /\ Len(es) = n + 1 /\ es[n + 1] = r
      /\ \A i \in 1 .. n : es[i] = ds[i]
  BY PushParts, StackParts
<1>3. m \in 1 .. n
  BY <1>1 DEF Shares
<1> HIDE DEF es, n
<1>4. m \in 1 .. Len(es)
  BY <1>2, <1>3
<1>5. Agree(cs, es, m)
  <2>1. \A i \in 1 .. m : i \in 1 .. n
    BY <1>2, <1>3
  <2>2. Agree(cs, ds, m)
    BY <1>1 DEF Shares
  <2> QED BY <1>2, <2>1, <2>2 DEF Agree
<1>6. TailOf(es, m, r.th)
  <2>1. ASSUME NEW i \in m + 1 .. n + 1
        PROVE  es[i].th = r.th /\ es[i].f # "lua_resume"
    <3>1. CASE i = n + 1
      BY <1>2, <3>1
    <3>2. CASE i # n + 1
      <4>1. i \in m + 1 .. n /\ i \in 1 .. n
        BY <1>2, <1>3, <3>2
      <4>2. ds[i].th = r.th /\ ds[i].f # "lua_resume"
        BY <1>1, <4>1 DEF Shares, TailOf, n
      <4> QED BY <1>2, <4>1, <4>2
    <3> QED BY <3>1, <3>2
  <2> QED BY <1>2, <2>1 DEF TailOf
<1>7. Shares(cs, es, m, r.th)
  BY <1>1, <1>4, <1>5, <1>6 DEF Shares
<1> QED BY <1>7 DEF Near, es

LEMMA NearCut ==
  ASSUME NEW cs, Shape(cs), NEW m \in 1 .. Len(cs), cs[m].th = cs[Len(cs)].th
  PROVE  Near(cs, Cut(cs, m), cs[m].th) /\ OnlyOf(cs, m, cs[m].th)
<1> DEFINE n == Len(cs)
<1>1. cs \in Stack /\ n \in Nat /\ m \in Nat /\ m \in 0 .. n /\ n \in 1 .. n /\ m \in 1 .. m
  <2>1. cs \in Stack /\ n \in Nat
    BY ShapeParts
  <2>2. m \in 1 .. n
    OBVIOUS
  <2> HIDE DEF n
  <2> QED BY <2>1, <2>2
<1>2. /\ Len(Cut(cs, m)) = m /\ Agree(cs, Cut(cs, m), m)
  <2>1. Len(Cut(cs, m)) = m /\ Agree(Cut(cs, m), cs, m)
    BY <1>1, CutParts
  <2> QED BY <2>1 DEF Agree
<1>3. ASSUME NEW i \in m + 1 .. n
      PROVE  cs[i].th = cs[m].th /\ cs[i].f # "lua_resume"
  <2>1. m < n /\ i \in m + 1 .. n
    BY <1>1, <1>3
  <2> QED BY <1>1, <2>1 DEF Shape, Together
<1>4. TailOf(cs, m, cs[m].th) /\ OnlyOf(cs, m, cs[m].th)
  BY <1>3 DEF TailOf, OnlyOf
<1>5. TailOf(Cut(cs, m), m, cs[m].th)
  <2>1. m + 1 .. m = {}
    BY <1>1
  <2> QED BY <1>2, <2>1 DEF TailOf
<1>6. Shares(cs, Cut(cs, m), m, cs[m].th)
  BY <1>1, <1>2, <1>4, <1>5 DEF Shares
<1> QED BY <1>1, <1>4, <1>6 DEF Near

LEMMA NearSelf ==
  ASSUME NEW cs, Shape(cs)
  PROVE  Near(cs, cs, cs[Len(cs)].th)
<1> DEFINE n == Len(cs)
<1>1. n \in Nat /\ n \in 1 .. n /\ n + 1 .. n = {}
  <2>1. n \in Nat /\ n \in 1 .. n
    BY ShapeParts
  <2> HIDE DEF n
  <2> QED BY <2>1
<1>2. Shares(cs, cs, n, cs[n].th)
  BY <1>1 DEF Shares, TailOf, Agree
<1> QED BY <1>1, <1>2 DEF Near

(* More calls are counted above a call. *)
LEMMA CallsStrict ==
  ASSUME NEW cs, NEW n \in Nat, NEW i \in 0 .. n, NEW j \in i + 1 .. n,
         cs[j].f \in {"luaD_call", "lua_resume"}
  PROVE  CallsTo(cs, i) + 1 <= CallsTo(cs, n)
<1> DEFINE k == j - 1
<1>1. k \in Nat /\ k + 1 = j /\ j \in 0 .. n /\ i \in 0 .. k /\ j \in Nat /\ i \in Nat
  OBVIOUS
<1> HIDE DEF k
<1>2. CallsTo(cs, k + 1) = CallsTo(cs, k) + 1
  BY <1>1, CallsStep
<1>3. CallsTo(cs, i) <= CallsTo(cs, k)
  BY <1>1, CallsMono
<1>4. CallsTo(cs, j) <= CallsTo(cs, n)
  BY <1>1, CallsMono
<1>5. CallsTo(cs, i) \in Nat /\ CallsTo(cs, k) \in Nat /\ CallsTo(cs, j) \in Nat
      /\ CallsTo(cs, n) \in Nat
  BY <1>1, CallsNat
<1>6. CallsTo(cs, j) = CallsTo(cs, k) + 1
  BY <1>1, <1>2
<1> QED BY <1>3, <1>4, <1>5, <1>6

(* The running thread has a protected call or has been resumed, and nobody   *)
(* else's records are above that.                                            *)
Boundary == {"luaD_pcall", "lua_resume"}
CatchesAt(cs, th, e) ==
  /\ e \in 2 .. Len(cs) /\ cs[e].th = th /\ cs[e].f \in Boundary
  /\ \A j \in e .. Len(cs) : cs[j].th = th
  /\ \A j \in e + 1 .. Len(cs) : cs[j].f \notin Boundary

LEMMA Above ==
  ASSUME NEW cs, Shape(cs), NEW th, th = cs[Len(cs)].th,
         NEW e \in 1 .. Len(cs), cs[e].th = th
  PROVE  /\ \A j \in e .. Len(cs) : cs[j].th = th
         /\ \A j \in e + 1 .. Len(cs) : cs[j].f # "lua_resume"
<1> DEFINE n == Len(cs)
<1>1. n \in Nat /\ n \in 1 .. n
  BY ShapeParts
<1>2. e \in 1 .. n /\ Together(cs)
  BY DEF Shape
<1> HIDE DEF n
<1>3. ASSUME NEW j \in e + 1 .. n
      PROVE  cs[j].th = th /\ cs[j].f # "lua_resume"
  <2>1. e < n /\ cs[e].th = cs[n].th
    BY <1>1, <1>2, <1>3 DEF n
  <2> QED BY <1>1, <1>2, <1>3, <2>1 DEF Together, n
<1>4. \A j \in e .. n : j = e \/ j \in e + 1 .. n
  BY <1>1, <1>2
<1> QED BY <1>3, <1>4 DEF n

LEMMA Catcher ==
  ASSUME NEW cs, Shape(cs), Len(cs) > 1, NEW th, th = cs[Len(cs)].th
  PROVE  \E e \in 2 .. Len(cs) : CatchesAt(cs, th, e)
<1> DEFINE n == Len(cs)
           E == {i \in 2 .. n : cs[i].th = th /\ cs[i].f \in Boundary}
           S == {i \in 1 .. n : cs[i].th = th}
<1>1. n \in Nat /\ n \in 1 .. n /\ n \in 2 .. n /\ n > 1
  <2>1. n \in Nat
    BY ShapeParts
  <2>2. n > 1
    OBVIOUS
  <2> HIDE DEF n
  <2> QED BY <2>1, <2>2
<1>2. E # {}
  <2>1. S \in SUBSET Nat /\ S # {}
    BY <1>1
  <2>2. PICK i \in S : \A k \in S : i <= k
    <3> HIDE DEF S
    <3> QED BY <2>1, LeastNatural
  <2>3. CASE i = 1
    <3>1. 2 \in 2 .. n /\ 2 \in 1 .. n /\ 2 \in i .. n
      BY <1>1, <2>3
    <3>2. cs[2].th = th
      BY <2>2, <3>1, Above
    <3>3. cs[2].f = "luaD_pcall"
      BY <3>1 DEF Shape
    <3> QED BY <3>1, <3>2, <3>3 DEF Boundary
  <2>4. CASE i # 1
    <3>1. i \in 2 .. n /\ i - 1 \in 1 .. n /\ ~(i <= i - 1)
      BY <1>1, <2>4
    <3>2. cs[i - 1].th # th
      BY <2>2, <3>1
    <3>3. cs[i].f = "lua_resume"
      <4>1. Over(cs[i - 1], cs[i])
        BY <3>1 DEF Shape
      <4> QED BY <3>2, <4>1 DEF Over
    <3> QED BY <3>1, <3>3 DEF Boundary
  <2> QED BY <2>3, <2>4
<1>3. PICK e \in E : \A k \in E : k <= e
  <2>1. E \in SUBSET (0 .. n)
    BY <1>1
  <2> HIDE DEF E
  <2> QED BY <1>1, <1>2, <2>1, GreatestNatural
<1>4. e \in 1 .. n /\ e \in 2 .. n /\ cs[e].th = th /\ cs[e].f \in Boundary
  BY <1>1, <1>3
<1>5. \A j \in e .. n : cs[j].th = th
  BY <1>4, Above
<1>6. ASSUME NEW j \in e + 1 .. n, cs[j].f \in Boundary
      PROVE  FALSE
  <2>1. j \in 2 .. n /\ j \in e .. n /\ ~(j <= e)
    BY <1>1, <1>4
  <2>2. j \in E
    BY <1>5, <1>6, <2>1
  <2> QED BY <1>3, <2>1, <2>2
<1> QED BY <1>4, <1>5, <1>6 DEF CatchesAt

(* A thread below the running one has called lua_resume from a C function.   *)
LEMMA Normal ==
  ASSUME NEW cs, Shape(cs), NEW th, In(cs, th), th # cs[Len(cs)].th,
         NEW fs, Owned(cs, th, fs)
  PROVE  Len(fs) \in Nat /\ Len(fs) > 0
<1> DEFINE n == Len(cs)
           S == {i \in 1 .. n : cs[i].th = th}
<1>1. n \in Nat /\ n \in 1 .. n /\ cs \in Stack
  BY ShapeParts
<1>2. S \in SUBSET (0 .. n) /\ S # {}
  BY <1>1 DEF In
<1>3. PICK j \in S : \A k \in S : k <= j
  <2> HIDE DEF S
  <2> QED BY <1>1, <1>2, GreatestNatural
<1>4. j \in 1 .. n /\ j + 1 \in 2 .. n /\ (j + 1) - 1 = j /\ j + 1 \in 1 .. n /\ ~(j + 1 <= j)
      /\ n \in 0 .. n
  <2>1. j # n
    BY <1>3
  <2> HIDE DEF n
  <2> QED BY <1>1, <1>3, <2>1
<1>5. cs[j + 1].th # th
  BY <1>3, <1>4
<1>6. Over(cs[j], cs[j + 1]) /\ (j + 1 = 2 => cs[j + 1].f = "luaD_pcall")
  BY <1>4 DEF Shape
<1>7. cs[j + 1].f = "lua_resume" /\ cs[j].th = th
  BY <1>3, <1>5, <1>6 DEF Over
<1>8. cs[j].f = "C function"
  <2>1. cs[j].f \in Under("lua_resume")
    BY <1>6, <1>7 DEF Over
  <2> QED BY <2>1 DEF Under
<1>9. j \in 2 .. n /\ Frames(cs[j]) = 1
  <2>1. Frames(cs[j]) = 1
    BY <1>8 DEF Frames
  <2>2. j + 1 # 2
    BY <1>6, <1>7
  <2>3. n \in Nat /\ j \in 1 .. n
    BY <1>1, <1>4
  <2> HIDE DEF n, S
  <2>4. j \in 2 .. n
    BY <2>2, <2>3
  <2> QED BY <2>1, <2>4
<1>10. /\ FramesTo(cs, th, j - 1) \in Nat
       /\ FramesTo(cs, th, j - 1) + Frames(cs[j]) <= FramesTo(cs, th, n)
  BY <1>1, <1>7, <1>9, FramesUpTo
<1>11. Len(fs) = FramesTo(cs, th, n) /\ FramesTo(cs, th, n) \in Nat
  BY <1>1, <1>4, FramesNat DEF Owned
<1> HIDE DEF n
<1> QED BY <1>9, <1>10, <1>11

----------------------------------------------------------------------------
(* The invariant. *)

(* The records that the machine can be between two steps with.               *)
Settled ==
  /\ cstack[Len(cstack)].f \notin {"luaD_pcall", "luaG_errormsg"}
  /\ raised # "no" => Len(cstack) > 1

(* Above LUAI_MAXCCALLS there is room for the error handlers alone.          *)
MaxCalls == LUAI_MAXCCALLS + CCALLS_SLACK
Reserve ==
  /\ CallsTo(cstack, Len(cstack)) <= MaxCalls
  /\ raised # "throw" => CallsTo(cstack, Len(cstack)) < MaxCalls

(* The frames of a suspended coroutine.                                      *)
Yielded(frames) ==
  /\ Len(frames) > 1 /\ frames[Len(frames)] = "C"
  /\ \A k \in 1 .. Len(frames) - 1 : frames[k] = "Lua"
States ==
  /\ \A th \in Thread : In(cstack, th) => th \in created
  /\ \A th \in Thread \ created : status[th] = "ok"
  /\ \A th \in Thread : status[th] = "yield" =>
       /\ Yielded(ci[th])
       /\ In(cstack, th) => cstack[Len(cstack)] = Resume(th) /\ raised = "no"

(* The array of call frames has room for the next one.                       *)
FramesFit == \A th \in Thread : Len(ci[th]) + 1 <= size_ci[th]

IInv ==
  /\ TypeOK
  /\ Core(cstack, status, ci, baseCcalls, nCcalls, errfunc)
  /\ Settled /\ Reserve /\ States /\ UpvaluesOnStack /\ FramesFit

----------------------------------------------------------------------------
(* The initial state. *)

LEMMA Single ==
  ASSUME NEW r \in Record
  PROVE  /\ <<r>> \in Stack /\ Len(<<r>>) = 1 /\ <<r>>[1] = r
         /\ \A i \in 1 .. Len(<<r>>) : i = 1 /\ <<r>>[i] = r
<1>1. <<r>> \in Seq(Record)
  OBVIOUS
<1>2. Len(<<r>>) = 1
  OBVIOUS
<1>3. <<r>>[1] = r
  OBVIOUS
<1>4. \A i \in 1 .. 1 : i = 1
  OBVIOUS
<1> QED BY <1>1, <1>2, <1>3, <1>4, Zenon DEF Stack

LEMMA InitCore ==
  ASSUME Init
  PROVE  Core(cstack, status, ci, baseCcalls, nCcalls, errfunc)
<1> DEFINE r == CFunction(MainThread)
           cs == <<r>>
<1>1. /\ r \in Record /\ r.th = MainThread /\ r.f = "C function"
  <2>1. r \in Record
    BY MainAssumption, RecordTypes
  <2> QED BY <2>1 DEF CFunction
<1> HIDE DEF r
<1>2. /\ cs \in Stack /\ Len(cs) = 1 /\ cs[1] = r
      /\ \A i \in 1 .. Len(cs) : i = 1 /\ cs[i] = r
  BY <1>1, Single
<1> HIDE DEF cs
<1>3. Shape(cs)
  <2>1. \A i, j \in 1 .. 1 : ~(i < j)
    OBVIOUS
  <2>2. 2 .. 1 = {}
    OBVIOUS
  <2> QED BY <1>2, <2>1, <2>2 DEF Shape, Together, r
<1>4. \A i \in 1 .. Len(cs) : cs[i].f = "C function" /\ i = 1
  BY <1>1, <1>2
<1>5. Saved(cs) /\ Based(cs, baseCcalls)
  BY <1>4 DEF Saved, SavedBy, Based
<1>6. ASSUME NEW th \in Thread
      PROVE  Fits(cs, th, "ok", <<>>, 0, "none")
  <2>1. CallsTo(cs, 1) = 0
    <3>1. {i \in 1 .. 1 : cs[i].f \in {"luaD_call", "lua_resume"}} = {}
      BY <1>2, <1>4
    <3> QED BY <3>1, FS_EmptySet DEF CallsTo
  <2>2. \A i \in 1 .. Len(cs) : CallsTo(cs, i) = 0
    BY <1>4, <2>1
  <2>3. HandlerAt(cs, th, Len(cs), "none")
    BY <1>4 DEF HandlerAt, PcallOf
  <2>4. Owned(cs, th, <<>>)
    <3>1. Len(<<>>) = 0
      OBVIOUS
    <3>2. FramesTo(cs, th, Len(cs)) = 0
      BY <1>2, FramesNone
    <3>3. 2 .. Len(cs) = {}
      BY <1>2
    <3> QED BY <3>1, <3>2, <3>3 DEF Owned
  <2> QED BY <2>2, <2>3, <2>4 DEF Fits
<1>7. /\ cstack = cs /\ \A th \in Thread : /\ status[th] = "ok" /\ ci[th] = <<>> /\ nCcalls[th] = 0
                                           /\ errfunc[th] = "none" /\ baseCcalls[th] = 0
  BY DEF Init, cs, r
<1> QED BY <1>3, <1>5, <1>6, <1>7, MainAssumption DEF Core

LEMMA InitInv == Init => IInv
<1> SUFFICES ASSUME Init PROVE IInv
  OBVIOUS
<1>1. CFunction(MainThread) \in Record /\ CFunction(MainThread).f = "C function"
      /\ CFunction(MainThread).th = MainThread
  <2>1. CFunction(MainThread) \in Record
    BY MainAssumption, RecordTypes
  <2> QED BY <2>1 DEF CFunction
<1>2. /\ Len(cstack) = 1 /\ cstack[1] = CFunction(MainThread) /\ cstack \in Stack
      /\ \A i \in 1 .. Len(cstack) : i = 1 /\ cstack[i] = CFunction(MainThread)
      /\ raised = "no" /\ created = {MainThread}
  <2>1. cstack = <<CFunction(MainThread)>> /\ raised = "no" /\ created = {MainThread}
    BY DEF Init
  <2> QED BY <1>1, <2>1, Single
<1>3. TypeOK
  <2>1. <<>> \in Seq(FrameKind)
    OBVIOUS
  <2>2. /\ created \subseteq Thread /\ cstack \in Seq(Record) /\ raised \in {"no", "runerror", "throw"}
    BY <1>2, MainAssumption DEF Stack
  <2>3. /\ status \in [Thread -> {"ok", "yield", "error"}] /\ pending \in [Thread -> BOOLEAN]
        /\ errfunc \in [Thread -> Handler] /\ openup \in [Thread -> SUBSET Nat]
    BY DEF Init, Handler
  <2>4. /\ ci \in [Thread -> Seq(FrameKind)] /\ size_ci \in [Thread -> Nat]
        /\ nCcalls \in [Thread -> Nat] /\ baseCcalls \in [Thread -> Nat]
    BY <2>1, LimitAssumption DEF Init
  <2> QED BY <2>2, <2>3, <2>4 DEF TypeOK
<1>4. Settled
  BY <1>1, <1>2 DEF Settled
<1>5. Reserve
  <2>1. CallsTo(cstack, 1) = 0
    <3>1. \A i \in 1 .. 1 : cstack[i].f = "C function"
      BY <1>1, <1>2
    <3>2. {i \in 1 .. 1 : cstack[i].f \in {"luaD_call", "lua_resume"}} = {}
      BY <3>1
    <3> QED BY <3>2, FS_EmptySet DEF CallsTo
  <2>2. MaxCalls > 0 /\ MaxCalls \in Nat
    BY LimitAssumption DEF MaxCalls
  <2> QED BY <1>2, <2>1, <2>2 DEF Reserve
<1>6. States
  <2>1. \A th \in Thread : status[th] = "ok"
    BY DEF Init
  <2>2. \A th \in Thread : In(cstack, th) => th \in created
    <3>1. \A i \in 1 .. Len(cstack) : cstack[i].th = MainThread
      BY <1>1, <1>2
    <3> QED BY <1>2, <3>1 DEF In
  <2> QED BY <2>1, <2>2 DEF States
<1>7. UpvaluesOnStack
  BY DEF Init, UpvaluesOnStack
<1>8. FramesFit
  <2>1. \A th \in Thread : ci[th] = <<>> /\ size_ci[th] = BASIC_CI_SIZE
    BY DEF Init
  <2>2. Len(<<>>) + 1 <= BASIC_CI_SIZE
    BY LimitAssumption
  <2> QED BY <2>1, <2>2 DEF FramesFit
<1> QED BY <1>3, <1>4, <1>5, <1>6, <1>7, <1>8, InitCore DEF IInv

----------------------------------------------------------------------------
(* What the invariant says of the running thread and its records. *)

LEMMA Running ==
  ASSUME IInv
  PROVE  /\ cstack \in Stack /\ Shape(cstack) /\ Len(cstack) \in Nat /\ Len(cstack) > 0
         /\ Len(cstack) \in 1 .. Len(cstack)
         /\ Top = cstack[Len(cstack)] /\ L = cstack[Len(cstack)].th /\ Top \in Record
         /\ L \in Thread /\ L \in created /\ status[L] \in {"ok", "yield"}
         /\ nCcalls[L] = CallsTo(cstack, Len(cstack)) /\ nCcalls[L] \in Nat
         /\ HandlerAt(cstack, L, Len(cstack), errfunc[L])
         /\ ci[L] \in Seq(FrameKind) /\ Len(ci[L]) \in Nat
         /\ status[L] = "ok" => Owned(cstack, L, ci[L])
         /\ (raised # "no" \/ Top.f # "lua_resume") => status[L] = "ok"
<1>1. Core(cstack, status, ci, baseCcalls, nCcalls, errfunc) /\ TypeOK
  BY DEF IInv
<1>2. Shape(cstack)
  BY <1>1 DEF Core
<1>3. /\ cstack \in Stack /\ Len(cstack) \in Nat /\ Len(cstack) > 0
      /\ Len(cstack) \in 1 .. Len(cstack)
      /\ \A i \in 1 .. Len(cstack) : cstack[i] \in Record /\ cstack[i].th \in Thread
  BY <1>2, ShapeParts
<1>4. Top = cstack[Len(cstack)] /\ L = cstack[Len(cstack)].th
  BY DEF Top, Last, L
<1>5. L \in Thread /\ Top \in Record
  BY <1>3, <1>4
<1>6. /\ status[L] # "error" /\ nCcalls[L] = CallsTo(cstack, Len(cstack))
      /\ HandlerAt(cstack, L, Len(cstack), errfunc[L])
      /\ status[L] = "ok" => Owned(cstack, L, ci[L])
  BY <1>1, <1>4, CoreTop
<1>7. /\ status[L] \in {"ok", "yield", "error"} /\ nCcalls[L] \in Nat
      /\ ci[L] \in Seq(FrameKind)
  BY <1>1, <1>5 DEF TypeOK
<1>8. In(cstack, L)
  BY <1>3, <1>4 DEF In
<1>9. L \in created
  BY <1>5, <1>8 DEF IInv, States
<1>10. status[L] = "yield" => Top = Resume(L) /\ raised = "no"
  BY <1>4, <1>5, <1>8 DEF IInv, States
<1>11. status[L] = "yield" => Top.f = "lua_resume" /\ raised = "no"
  <2>1. Resume(L).f = "lua_resume"
    BY DEF Resume
  <2> QED BY <1>10, <2>1
<1>12. Len(ci[L]) \in Nat
  BY <1>7, LenProperties
<1>13. (raised # "no" \/ Top.f # "lua_resume") => status[L] = "ok"
  BY <1>6, <1>7, <1>11
<1>14. status[L] \in {"ok", "yield"}
  BY <1>6, <1>7
<1> QED BY <1>2, <1>3, <1>4, <1>5, <1>6, <1>7, <1>9, <1>12, <1>13, <1>14, Zenon

----------------------------------------------------------------------------
(* Frames. *)

(* The frames of every thread stay, with others above them perhaps.          *)
Grows == \A t \in Thread : \A k \in 1 .. Len(ci[t]) :
           k \in 1 .. Len(ci'[t]) /\ ci'[t][k] = ci[t][k]

LEMMA GrownFrames ==
  ASSUME NEW fs \in Seq(FrameKind), NEW kind \in FrameKind
  PROVE  /\ Append(fs, kind) \in Seq(FrameKind) /\ Len(fs) \in Nat
         /\ Len(Append(fs, kind)) = Len(fs) + 1 /\ Append(fs, kind)[Len(fs) + 1] = kind
         /\ \A k \in 1 .. Len(fs) : Append(fs, kind)[k] = fs[k]
         /\ \A k \in 1 .. Len(fs) : k \in 1 .. Len(Append(fs, kind))
BY AppendProperties, LenProperties

LEMMA IncCi ==
  ASSUME IInv, NEW th \in Thread, inc_ci(th)
  PROVE  /\ size_ci' \in [Thread -> Nat] /\ raised' \in {"no", "runerror", "throw"}
         /\ \A t \in Thread : size_ci[t] <= size_ci'[t]
         /\ raised' = "no" => Len(ci[th]) + 2 <= size_ci'[th]
<1> DEFINE n == Len(ci[th])
           s == size_ci[th]
           new == IF n + 1 < s \/ s > LUAI_MAXCALLS THEN s ELSE 2 * s
<1>1. /\ size_ci \in [Thread -> Nat] /\ ci[th] \in Seq(FrameKind)
      /\ \A t \in Thread : size_ci[t] \in Nat
  BY DEF IInv, TypeOK
<1>2. n \in Nat /\ s \in Nat /\ n + 1 <= s
  BY <1>1, LenProperties DEF IInv, FramesFit
<1>3. size_ci' = [size_ci EXCEPT ![th] = new] /\ raised' = FrameError(th)
  BY DEF inc_ci
<1>4. LUAI_MAXCALLS \in Nat
  BY LimitAssumption
<1>5. raised' \in {"no", "runerror", "throw"}
       /\ (raised' = "no" => n + 1 < s \/ ~(s > LUAI_MAXCALLS))
  <2>1. FrameError(th) = CASE n + 1 < s -> "no"
                           [] n + 1 >= s /\ s > LUAI_MAXCALLS -> "throw"
                           [] OTHER -> IF 2 * s > LUAI_MAXCALLS THEN "runerror" ELSE "no"
    BY DEF FrameError
  <2> HIDE DEF n, s
  <2>2. CASE n + 1 < s
    <3>1. ~(n + 1 >= s)
      BY <1>2, <2>2
    <3> QED BY <1>3, <2>1, <2>2, <3>1
  <2>3. CASE ~(n + 1 < s)
    <3>1. n + 1 >= s
      BY <1>2, <2>3
    <3>2. CASE s > LUAI_MAXCALLS
      BY <1>3, <2>1, <2>3, <3>1, <3>2
    <3>3. CASE ~(s > LUAI_MAXCALLS)
      BY <1>3, <2>1, <2>3, <3>3
    <3> QED BY <3>2, <3>3
  <2> QED BY <2>2, <2>3
<1> HIDE DEF n, s
<1>6. new \in Nat /\ s <= new /\ (n + 1 < s \/ ~(s > LUAI_MAXCALLS) => n + 2 <= new)
  <2>1. CASE n + 1 < s \/ s > LUAI_MAXCALLS
    BY <1>2, <1>4, <2>1
  <2>2. CASE ~(n + 1 < s \/ s > LUAI_MAXCALLS)
    BY <1>2, <1>4, <2>2
  <2> QED BY <2>1, <2>2
<1> HIDE DEF new
<1>7. size_ci' \in [Thread -> Nat] /\ size_ci'[th] = new
  BY <1>1, <1>3, <1>6
<1>8. ASSUME NEW t \in Thread
      PROVE  size_ci[t] <= size_ci'[t]
  <2>1. CASE t = th
    BY <1>6, <1>7, <2>1 DEF s
  <2>2. CASE t # th
    BY <1>1, <1>3, <2>2
  <2> QED BY <2>1, <2>2
<1> QED BY <1>5, <1>6, <1>7, <1>8 DEF n

LEMMA PrecallParts ==
  ASSUME IInv, NEW th \in Thread, NEW kind \in FrameKind, NEW entered, NEW failed,
         luaD_precall(th, kind, entered, failed)
  PROVE  /\ size_ci' \in [Thread -> Nat] /\ ci' \in [Thread -> Seq(FrameKind)]
         /\ raised' \in {"no", "runerror", "throw"} /\ FramesFit' /\ Grows
         /\ Elsewhere(th, ci, ci')
         /\ \/ raised' = "no" /\ cstack' = entered /\ ci'[th] = Append(ci[th], kind)
            \/ raised' # "no" /\ cstack' = failed /\ ci' = ci
<1>1. inc_ci(th)
  BY DEF luaD_precall
<1>2. /\ size_ci' \in [Thread -> Nat] /\ raised' \in {"no", "runerror", "throw"}
      /\ \A t \in Thread : size_ci[t] <= size_ci'[t]
      /\ raised' = "no" => Len(ci[th]) + 2 <= size_ci'[th]
  BY <1>1, IncCi
<1>3. /\ ci \in [Thread -> Seq(FrameKind)] /\ size_ci \in [Thread -> Nat]
      /\ \A t \in Thread : ci[t] \in Seq(FrameKind) /\ Len(ci[t]) \in Nat
  <2>1. ci \in [Thread -> Seq(FrameKind)] /\ size_ci \in [Thread -> Nat]
    BY DEF IInv, TypeOK
  <2> QED BY <2>1, LenProperties
<1>4. \A t \in Thread : Len(ci[t]) + 1 <= size_ci'[t]
  <2>1. ASSUME NEW t \in Thread
        PROVE  Len(ci[t]) + 1 <= size_ci'[t]
    <3>1. Len(ci[t]) + 1 <= size_ci[t] /\ size_ci[t] <= size_ci'[t]
      BY <1>2 DEF IInv, FramesFit
    <3>2. Len(ci[t]) \in Nat /\ size_ci[t] \in Nat /\ size_ci'[t] \in Nat
      BY <1>2, <1>3
    <3> QED BY <3>1, <3>2
  <2> QED BY <2>1
<1>5. CASE raised' = "no"
  <2>1. ci' = [ci EXCEPT ![th] = Append(ci[th], kind)] /\ cstack' = entered
    BY <1>5 DEF luaD_precall
  <2>2. /\ Append(ci[th], kind) \in Seq(FrameKind)
        /\ Len(Append(ci[th], kind)) = Len(ci[th]) + 1
        /\ \A k \in 1 .. Len(ci[th]) : /\ Append(ci[th], kind)[k] = ci[th][k]
                                        /\ k \in 1 .. Len(Append(ci[th], kind))
    BY <1>3, GrownFrames
  <2>3. /\ ci' \in [Thread -> Seq(FrameKind)] /\ ci'[th] = Append(ci[th], kind)
        /\ \A t \in Thread \ {th} : ci'[t] = ci[t]
    BY <1>3, <2>1, <2>2
  <2>4. Grows
    <3>1. ASSUME NEW t \in Thread, NEW k \in 1 .. Len(ci[t])
          PROVE  k \in 1 .. Len(ci'[t]) /\ ci'[t][k] = ci[t][k]
      BY <2>2, <2>3
    <3> QED BY <3>1 DEF Grows
  <2>5. FramesFit'
    <3>1. ASSUME NEW t \in Thread
          PROVE  Len(ci'[t]) + 1 <= size_ci'[t]
      <4>1. CASE t = th
        <5>1. Len(ci'[t]) = Len(ci[th]) + 1 /\ Len(ci[th]) + 2 <= size_ci'[th]
          BY <1>2, <1>5, <2>2, <2>3, <4>1
        <5>2. Len(ci[th]) \in Nat /\ size_ci'[th] \in Nat
          BY <1>2, <1>3
        <5> QED BY <4>1, <5>1, <5>2
      <4>2. CASE t # th
        BY <1>4, <2>3, <4>2
      <4> QED BY <4>1, <4>2
    <3> QED BY <3>1 DEF FramesFit
  <2> QED BY <1>2, <1>5, <2>1, <2>3, <2>4, <2>5 DEF Elsewhere
<1>6. CASE raised' # "no"
  <2>1. ci' = ci /\ cstack' = failed
    BY <1>3, <1>6 DEF luaD_precall
  <2>2. FramesFit' /\ Grows
    BY <1>4, <2>1 DEF FramesFit, Grows
  <2> QED BY <1>2, <1>3, <1>6, <2>1, <2>2 DEF Elsewhere
<1> QED BY <1>5, <1>6

(* The open upvalues stay in frames that stay. *)
LEMMA UpvaluesGrow ==
  ASSUME IInv, openup' = openup, ci' \in [Thread -> Seq(FrameKind)], Grows
  PROVE  UpvaluesOnStack'
<1>1. ASSUME NEW t \in Thread, NEW k \in openup[t]
      PROVE  k \in DOMAIN ci'[t] /\ ci'[t][k] = "Lua"
  <2>1. k \in DOMAIN ci[t] /\ ci[t][k] = "Lua"
    BY DEF IInv, UpvaluesOnStack
  <2>2. ci[t] \in Seq(FrameKind) /\ ci'[t] \in Seq(FrameKind)
    BY DEF IInv, TypeOK
  <2>3. DOMAIN ci[t] = 1 .. Len(ci[t]) /\ DOMAIN ci'[t] = 1 .. Len(ci'[t])
    BY <2>2, LenProperties
  <2> QED BY <2>1, <2>3 DEF Grows
<1> QED BY <1>1 DEF UpvaluesOnStack

----------------------------------------------------------------------------
(* Calls. *)

LEMMA CallsPush ==
  ASSUME NEW cs \in Stack, NEW r \in Record
  PROVE  CallsTo(Append(cs, r), Len(Append(cs, r)))
           = CallsTo(cs, Len(cs)) + IF r.f \in {"luaD_call", "lua_resume"} THEN 1 ELSE 0
<1> DEFINE n == Len(cs)
           ds == Append(cs, r)
<1>1. Len(ds) = n + 1 /\ ds[n + 1] = r /\ n \in Nat /\ Agree(ds, cs, n)
  BY PushParts, StackParts
<1> HIDE DEF ds, n
<1>2. CallsTo(ds, n) = CallsTo(cs, n)
  BY <1>1, CallsAgree
<1>3. CallsTo(ds, n + 1) = CallsTo(ds, n) + IF r.f \in {"luaD_call", "lua_resume"} THEN 1 ELSE 0
  BY <1>1, CallsStep
<1> QED BY <1>1, <1>2, <1>3 DEF ds, n

LEMMA PushTop ==
  ASSUME NEW cs \in Stack, NEW r \in Record
  PROVE  Append(cs, r)[Len(Append(cs, r))] = r
BY PushParts

LEMMA CallsCut ==
  ASSUME NEW cs \in Stack, NEW m \in 0 .. Len(cs)
  PROVE  CallsTo(Cut(cs, m), Len(Cut(cs, m))) = CallsTo(cs, m) /\ CallsTo(cs, m) \in Nat
         /\ CallsTo(cs, m) <= CallsTo(cs, Len(cs)) /\ CallsTo(cs, Len(cs)) \in Nat
<1> DEFINE n == Len(cs)
           ds == Cut(cs, m)
<1>1. n \in Nat /\ m \in Nat /\ m \in 0 .. n
  BY StackParts
<1>2. Len(ds) = m /\ Agree(ds, cs, m)
  BY CutParts
<1> HIDE DEF n, ds
<1>3. CallsTo(ds, m) = CallsTo(cs, m)
  BY <1>1, <1>2, CallsAgree
<1>4. CallsTo(cs, m) <= CallsTo(cs, n) /\ CallsTo(cs, m) \in Nat /\ CallsTo(cs, n) \in Nat
  BY <1>1, CallsMono, CallsNat
<1> QED BY <1>2, <1>3, <1>4 DEF n, ds

(* What luaD_precall enters for a callee. *)
Body(th, kind) == IF kind = "Lua" THEN Execute(th, 1) ELSE CFunction(th)

LEMMA OverCall ==
  ASSUME NEW q, NEW r, q.f = "luaD_call", r.th = q.th, r.f \in {"luaV_execute", "C function"},
         r.f = "luaV_execute" => r.nexeccalls > 0
  PROVE  Over(q, r)
<1>1. CASE r.f = "luaV_execute"
  BY <1>1 DEF Over, Under
<1>2. CASE r.f = "C function"
  BY <1>2 DEF Over, Under
<1> QED BY <1>1, <1>2

LEMMA BodyParts ==
  ASSUME NEW th \in Thread, NEW kind \in FrameKind
  PROVE  /\ Body(th, kind) \in Record /\ Body(th, kind).th = th
         /\ Frames(Body(th, kind)) = 1 /\ Kind(Body(th, kind)) = kind
         /\ Body(th, kind).f \in {"luaV_execute", "C function"}
         /\ Over(Call(th), Body(th, kind))
<1>0. Call(th).f = "luaD_call" /\ Call(th).th = th
  BY DEF Call
<1>1. CASE kind = "Lua"
  <2>1. Body(th, kind) = Execute(th, 1)
    BY <1>1 DEF Body
  <2>2. Execute(th, 1) \in Record
    BY RecordTypes
  <2>3. /\ Execute(th, 1).f = "luaV_execute" /\ Execute(th, 1).th = th
        /\ Execute(th, 1).nexeccalls = 1
    BY DEF Execute
  <2>4. Over(Call(th), Execute(th, 1))
    <3> DEFINE q == Call(th)
               r == Execute(th, 1)
    <3>1. /\ q.f = "luaD_call" /\ r.th = q.th /\ r.f = "luaV_execute"
          /\ r.nexeccalls = 1
      BY <1>0, <2>3
    <3> HIDE DEF q, r
    <3>2. r.nexeccalls > 0
      BY <3>1
    <3> QED BY <3>1, <3>2, OverCall DEF q, r
  <2> QED BY <1>1, <2>1, <2>2, <2>3, <2>4 DEF Frames, Kind
<1>2. CASE kind = "C"
  <2>1. Body(th, kind) = CFunction(th)
    BY <1>2 DEF Body
  <2>2. CFunction(th) \in Record
    BY RecordTypes
  <2>3. CFunction(th).f = "C function" /\ CFunction(th).th = th
    BY DEF CFunction
  <2>4. Over(Call(th), CFunction(th))
    BY <1>0, <2>3, OverCall
  <2> QED BY <1>2, <2>1, <2>2, <2>3, <2>4 DEF Frames, Kind
<1> QED BY <1>1, <1>2 DEF FrameKind

LEMMA ExtendsOne ==
  ASSUME NEW fs \in Seq(FrameKind), NEW r, Frames(r) = 1, Kind(r) \in FrameKind
  PROVE  Extends(fs, r, Append(fs, Kind(r)))
<1>1. /\ Len(fs) \in Nat
      /\ Len(Append(fs, Kind(r))) = Len(fs) + 1 /\ Append(fs, Kind(r))[Len(fs) + 1] = Kind(r)
      /\ \A k \in 1 .. Len(fs) : Append(fs, Kind(r))[k] = fs[k]
  BY GrownFrames
<1>2. \A k \in 1 .. 1 : k = 1
  OBVIOUS
<1> QED BY <1>1, <1>2 DEF Extends

(* luaD_call of the running thread on the stack cs, which its caller has     *)
(* pushed at most one record on.                                             *)
LEMMA CallDone ==
  ASSUME IInv, raised # "throw", status[L] = "ok",
         NEW cs, NEW ef, Core(cs, status, ci, baseCcalls, nCcalls, ef),
         Len(cs) > 1, cs[Len(cs)].th = L, cs[Len(cs)].f \in Under("luaD_call"),
         Near(cstack, cs, L),
         NEW kind \in FrameKind, luaD_call(L, kind, cs)
  PROVE  /\ Core(cstack', status, ci', baseCcalls, nCcalls', ef)
         /\ Settled' /\ Reserve' /\ FramesFit' /\ Grows
         /\ ci' \in [Thread -> Seq(FrameKind)] /\ size_ci' \in [Thread -> Nat]
         /\ nCcalls' \in [Thread -> Nat] /\ raised' \in {"no", "runerror", "throw"}
         /\ Near(cstack, cstack', L) /\ Elsewhere(L, ci, ci')
<1> DEFINE r == Call(L)
           called == Append(cs, r)
           body == Body(L, kind)
           n == nCcalls[L] + 1
<1>1. /\ L \in Thread /\ nCcalls[L] = CallsTo(cstack, Len(cstack)) /\ nCcalls[L] \in Nat
      /\ ci[L] \in Seq(FrameKind) /\ Len(ci[L]) \in Nat /\ cstack \in Stack
  BY Running
<1>2. /\ nCcalls \in [Thread -> Nat] /\ ci \in [Thread -> Seq(FrameKind)]
      /\ size_ci \in [Thread -> Nat] /\ Reserve /\ FramesFit
  BY DEF IInv, TypeOK
<1>3. nCcalls' = [nCcalls EXCEPT ![L] = n]
  BY DEF luaD_call, CallDepth
<1>4. /\ nCcalls' \in [Thread -> Nat] /\ nCcalls'[L] = n /\ Elsewhere(L, nCcalls, nCcalls')
  BY <1>1, <1>2, <1>3 DEF Elsewhere
<1>5. r \in Record /\ r.f = "luaD_call" /\ r.th = L /\ Frames(r) = 0
  <2>1. r \in Record
    BY <1>1, RecordTypes
  <2> QED BY <2>1 DEF Call, Frames
<1>6. cs \in Stack /\ Shape(cs)
  <2>1. Shape(cs)
    BY DEF Core
  <2> QED BY <2>1, ShapeParts
<1>7. called \in Stack /\ called[Len(called)] = r /\ Len(called) > 1
  <2>1. Len(called) = Len(cs) + 1 /\ called \in Stack /\ called[Len(cs) + 1] = r
    BY <1>5, <1>6, PushParts
  <2>2. Len(cs) \in Nat
    BY <1>6, StackParts
  <2>3. Len(cs) + 1 > 1
    BY <2>2
  <2> QED BY <2>1, <2>3
<1>8. Core(called, status, ci, baseCcalls, nCcalls', ef)
  <2>1. Extends(ci[L], r, ci[L])
    BY <1>1, <1>5, ExtendsNone
  <2>2. nCcalls'[L] = nCcalls[L] + IF r.f = "luaD_call" THEN 1 ELSE 0
    BY <1>4, <1>5
  <2>3. Over(cs[Len(cs)], r) /\ r.f \notin {"luaD_pcall", "lua_resume"}
    BY <1>5 DEF Over
  <2>4. Elsewhere(L, ci, ci)
    BY DEF Elsewhere
  <2> HIDE DEF r
  <2> QED BY <1>4, <1>5, <2>1, <2>2, <2>3, <2>4, PushSame
<1>9. CallsTo(called, Len(called)) = n
  <2>1. Shape(called) /\ called[Len(called)].th = L
    BY <1>5, <1>7, <1>8 DEF Core
  <2> HIDE DEF r, called
  <2>2. nCcalls'[L] = CallsTo(called, Len(called))
    BY <1>8, <2>1, CoreTop
  <2> QED BY <1>4, <2>2
<1>10. n <= MaxCalls /\ MaxCalls \in Nat /\ LUAI_MAXCCALLS < MaxCalls /\ n \in Nat
  <2>1. MaxCalls \in Nat /\ LUAI_MAXCCALLS < MaxCalls
    BY LimitAssumption DEF MaxCalls
  <2>2. nCcalls[L] < MaxCalls
    BY <1>1, <1>2 DEF Reserve
  <2> QED BY <1>1, <2>1, <2>2
<1>11. Near(cstack, called, L)
  <2> HIDE DEF r
  <2> QED BY <1>1, <1>5, <1>6, NearPush
<1>12. CASE /\ n = LUAI_MAXCCALLS \/ n >= MaxCalls
            /\ raised' = IF n = LUAI_MAXCCALLS THEN "runerror" ELSE "throw"
            /\ cstack' = called
            /\ UNCHANGED <<ci, size_ci>>
  <2>1. Core(cstack', status, ci', baseCcalls, nCcalls', ef) /\ Near(cstack, cstack', L)
    BY <1>8, <1>11, <1>12
  <2>2. Settled'
    <3>1. cstack'[Len(cstack')] = r /\ Len(cstack') > 1
      BY <1>7, <1>12
    <3> HIDE DEF r
    <3> QED BY <1>5, <3>1 DEF Settled
  <2>3. Reserve'
    <3>1. CallsTo(cstack', Len(cstack')) = n
      BY <1>9, <1>12
    <3>2. raised' # "throw" => n < MaxCalls
      BY <1>10, <1>12
    <3> HIDE DEF n
    <3> QED BY <1>10, <3>1, <3>2 DEF Reserve
  <2>4. FramesFit' /\ Grows /\ Elsewhere(L, ci, ci')
    BY <1>2, <1>12 DEF FramesFit, Grows, Elsewhere
  <2> QED BY <1>2, <1>4, <1>12, <2>1, <2>2, <2>3, <2>4
<1>13. CASE /\ n < MaxCalls
            /\ luaD_precall(L, kind, Append(called, body), called)
  <2>1. /\ size_ci' \in [Thread -> Nat] /\ ci' \in [Thread -> Seq(FrameKind)]
        /\ raised' \in {"no", "runerror", "throw"} /\ FramesFit' /\ Grows
        /\ Elsewhere(L, ci, ci')
        /\ \/ raised' = "no" /\ cstack' = Append(called, body) /\ ci'[L] = Append(ci[L], kind)
           \/ raised' # "no" /\ cstack' = called /\ ci' = ci
    BY <1>1, <1>13, PrecallParts
  <2>2. CASE raised' = "no" /\ cstack' = Append(called, body) /\ ci'[L] = Append(ci[L], kind)
    <3>1. /\ body \in Record /\ body.th = L /\ Frames(body) = 1 /\ Kind(body) = kind
          /\ body.f \in {"luaV_execute", "C function"} /\ Over(r, body)
      BY <1>1, BodyParts
    <3> HIDE DEF body, r
    <3>2. Extends(ci[L], body, ci'[L])
      BY <1>1, <2>2, <3>1, ExtendsOne
    <3>3. nCcalls'[L] = nCcalls'[L] + IF body.f = "luaD_call" THEN 1 ELSE 0
      <4>1. nCcalls'[L] = nCcalls'[L] + 0
        BY <1>4, <1>10
      <4>2. body.f # "luaD_call"
        BY <3>1
      <4> QED BY <4>1, <4>2, Zenon
    <3>4. body.f \notin {"luaD_pcall", "lua_resume"} /\ Elsewhere(L, nCcalls', nCcalls')
      BY <3>1 DEF Elsewhere
    <3>5. Over(called[Len(called)], body)
      BY <1>7, <3>1
    <3> HIDE DEF called
    <3>6. Core(Append(called, body), status, ci', baseCcalls, nCcalls', ef)
      BY <1>7, <1>8, <2>1, <3>1, <3>2, <3>3, <3>4, <3>5, PushSame
    <3>7. Near(cstack, Append(called, body), L)
      BY <1>1, <1>7, <1>11, <3>1, <3>4, NearPush
    <3>8. CallsTo(cstack', Len(cstack')) = n
      <4>1. CallsTo(Append(called, body), Len(Append(called, body)))
            = CallsTo(called, Len(called)) + 0
        BY <1>7, <3>1, CallsPush
      <4>2. CallsTo(called, Len(called)) + 0 = n
        BY <1>9, <1>10
      <4> QED BY <2>2, <4>1, <4>2
    <3>9. Reserve'
      <4> HIDE DEF n
      <4> QED BY <1>10, <1>13, <3>8 DEF Reserve
    <3>10. Settled'
      <4> DEFINE es == Append(called, body)
      <4>0. Len(es) = Len(called) + 1 /\ es[Len(called) + 1] = body
        BY <1>7, <3>1, PushParts
      <4>1. cstack'[Len(cstack')] = body
        BY <2>2, <4>0
      <4> QED BY <2>2, <3>1, <4>1 DEF Settled
    <3> QED BY <1>4, <2>1, <2>2, <3>6, <3>7, <3>9, <3>10
  <2>3. CASE raised' # "no" /\ cstack' = called /\ ci' = ci
    <3>1. Core(cstack', status, ci', baseCcalls, nCcalls', ef) /\ Near(cstack, cstack', L)
      BY <1>8, <1>11, <2>3
    <3>2. Settled'
      <4>1. cstack'[Len(cstack')] = r /\ Len(cstack') > 1
        BY <1>7, <2>3
      <4> HIDE DEF r
      <4> QED BY <1>5, <4>1 DEF Settled
    <3>3. Reserve'
      <4>1. CallsTo(cstack', Len(cstack')) = n
        BY <1>9, <2>3
      <4> HIDE DEF n
      <4> QED BY <1>10, <1>13, <4>1 DEF Reserve
    <3> QED BY <1>4, <2>1, <3>1, <3>2, <3>3
  <2> QED BY <2>1, <2>2, <2>3
<1> QED BY <1>12, <1>13 DEF luaD_call, CallDepth, MaxCalls, Body

----------------------------------------------------------------------------
(* Steps that leave the states of all threads alone. *)

(* Facts about small numbers. *)
LEMMA AboveTwo ==
  ASSUME NEW n \in Nat, n > 0, n # 1
  PROVE  n > 1 /\ (n # 2 => n > 2)
OBVIOUS

LEMMA TwoOnly == 2 \in 2 .. 2 /\ 1 \in 1 .. 1
OBVIOUS

LEMMA One == 1 \in Nat /\ 1 > 0 /\ \A k \in 1 .. 1 : k = 1
OBVIOUS

LEMMA Same ==
  ASSUME NEW n \in Nat
  PROVE  n <= n /\ n - 0 = n /\ n + 0 = n /\ n \in 0 .. n
OBVIOUS

LEMMA StepDown ==
  ASSUME NEW n \in Nat
  PROVE  /\ n - 1 <= n
         /\ n > 2 => /\ n - 1 > 1 /\ n - 1 \in 2 .. n /\ (n - 1) - 1 = n - 2
                     /\ (n - 1 # 2 => n - 2 > 1)
OBVIOUS

LEMMA OneUp ==
  ASSUME NEW n \in Nat, n > 1
  PROVE  n + 1 > 1
OBVIOUS

LEMMA AtLeastTwo ==
  ASSUME NEW n, NEW i \in 2 .. n
  PROVE  i \in 1 .. n
OBVIOUS

LEMMA Room ==
  ASSUME NEW a \in Nat, NEW b \in Nat, NEW c \in Nat, a + 1 <= b, b <= c
  PROVE  a < c /\ a <= c
OBVIOUS

LEMMA NoFrames == Len(<<>>) = 0 /\ ~(Len(<<>>) > 0)
OBVIOUS

LEMMA Grown ==
  ASSUME NEW n \in Nat, n > 1
  PROVE  n + 1 > 1 /\ n \in Nat /\ n \in 1 .. n + 1 /\ n < n + 1 /\ n \in 0 .. n
OBVIOUS

LEMMA LessAndMore ==
  ASSUME NEW a \in Nat, NEW b \in Nat, NEW c \in Nat, a < b, c > 0
  PROVE  a + 1 <= b /\ a + 1 < b + c
OBVIOUS

LEMMA LessOrEqual ==
  ASSUME NEW a \in Nat, NEW b \in Nat, a < b
  PROVE  a <= b
OBVIOUS

LEMMA Lessened ==
  ASSUME NEW n \in Nat, n > 1, NEW m \in Nat, m + 1 = n
  PROVE  m = n - 1 /\ m > 0
OBVIOUS

LEMMA OneFrame ==
  ASSUME NEW kind
  PROVE  LET fs == Append(<<>>, kind) IN
         Len(fs) = 1 /\ Len(fs) > 0 /\ \A k \in 1 .. Len(fs) : fs[k] = kind
OBVIOUS

LEMMA NotBelow ==
  ASSUME NEW a \in Nat, NEW b \in Nat, NEW c, a + 1 <= b, b <= c, c \in {0, a}
  PROVE  FALSE
OBVIOUS

LEMMA NotOne ==
  ASSUME NEW n, NEW i \in 2 .. n
  PROVE  i # 1
OBVIOUS

LEMMA YieldIndex ==
  ASSUME NEW n \in Nat, n > 2, NEW b \in 1 .. n, b <= n - 1
  PROVE  /\ b <= n - 1 /\ (b # n - 1 => n - 1 \in b + 1 .. n) /\ n - 1 \in 2 .. n
         /\ (n - 1) - 1 = n - 2
         /\ (n - 2 \in 1 .. n /\ (n - 2 # 1 => n - 2 \in 2 .. n /\ n > 3))
         /\ (b # n - 1 /\ b # n - 2 => n - 2 \in b + 1 .. n)
OBVIOUS

LEMMA FromTwo ==
  ASSUME NEW n \in Nat, NEW i \in 1 .. n, i # 1
  PROVE  i \in 2 .. n /\ i - 1 \in 1 .. n /\ ~(i <= i - 1)
OBVIOUS

LEMMA TopThree ==
  ASSUME NEW n \in Nat, n > 3
  PROVE  /\ n - 2 \in 1 .. n /\ n - 2 < n /\ n - 2 \in 0 .. n /\ n - 2 \in Nat
         /\ n - 3 \in 1 .. n /\ n - 3 \in 0 .. n /\ n - 3 < n /\ n - 3 \in Nat
         /\ n - 1 \in 1 .. n /\ n - 1 < n /\ n - 1 \in 2 .. n /\ n \in 0 .. n /\ n \in 2 .. n
         /\ (n - 3) + 1 = n - 2 /\ (n - 2) + 1 = n - 1 /\ (n - 1) + 1 = n
         /\ (n - 2) - 1 = n - 3 /\ (n - 1) - 1 = n - 2
OBVIOUS

LEMMA TwoDown ==
  ASSUME NEW n \in Nat, n > 3
  PROVE  /\ n > 2 /\ n - 2 \in 1 .. n /\ n - 2 \in 0 .. n /\ n - 2 \in Nat
         /\ \A i \in (n - 2) + 1 .. n : i = n - 1 \/ i = n
OBVIOUS

LEMMA MoreThanOne ==
  ASSUME NEW v \in Nat, v > 0, NEW n, n = v + 1
  PROVE  n > 1 /\ n - 1 = v
OBVIOUS

LEMMA BothWays ==
  ASSUME NEW a \in Nat, NEW b \in Nat, a <= b, b <= a
  PROVE  a = b
OBVIOUS

LEMMA OneDown ==
  ASSUME NEW n \in Nat, n > 2
  PROVE  /\ n - 1 \in 1 .. n /\ n - 1 \in 0 .. n /\ n \in (n - 1) + 1 .. n /\ n \in 2 .. n
         /\ n - 1 > 1 /\ n - 1 \in Nat /\ n - 1 < n /\ (n - 1) + 1 = n /\ n \in 0 .. n
         /\ \A i \in (n - 1) + 1 .. n : i = n
OBVIOUS

LEMMA Below ==
  ASSUME NEW n \in Nat
  PROVE  \A i \in 1 .. n - 1 : i \in 1 .. n /\ i # n
OBVIOUS

LEMMA Inside ==
  ASSUME NEW n \in Nat, n > 1
  PROVE  n - 1 \in 1 .. n /\ n - 1 \in 0 .. n /\ n \in 2 .. n /\ n - 1 \in Nat
OBVIOUS

LEMMA ShapeTwo ==
  ASSUME NEW cs, Shape(cs), Len(cs) = 2
  PROVE  cs[2].f = "luaD_pcall"
<1>1. \A i \in 2 .. Len(cs) : i = 2 => cs[i].f = "luaD_pcall"
  BY DEF Shape
<1>2. 2 \in 2 .. Len(cs)
  BY TwoOnly
<1> QED BY <1>1, <1>2

LEMMA AboveHost ==
  ASSUME NEW cs, Shape(cs), NEW r, r = cs[Len(cs)], r.f # "C function"
  PROVE  Len(cs) > 1 /\ (r.f # "luaD_pcall" => Len(cs) > 2)
<1>1. Len(cs) \in Nat /\ Len(cs) > 0 /\ cs[1].f = "C function"
  BY ShapeParts, Zenon
<1>2. Len(cs) # 1
  BY <1>1, Zenon
<1>3. r.f # "luaD_pcall" => Len(cs) # 2
  BY ShapeTwo, Zenon
<1>4. Len(cs) > 1 /\ (Len(cs) # 2 => Len(cs) > 2)
  BY <1>1, <1>2, AboveTwo, Zenon
<1> QED BY <1>3, <1>4, Zenon

LEMMA StatesKept ==
  ASSUME IInv, status[L] = "ok", status' = status, created' = created,
         cstack' \in Stack, Near(cstack, cstack', L), Elsewhere(L, ci, ci')
  PROVE  States'
<1>1. \A t : In(cstack, t) <=> In(cstack', t)
  BY Running, NearParts
<1>2. States
  BY DEF IInv
<1>3. ASSUME NEW t \in Thread, status[t] = "yield"
      PROVE  ~In(cstack, t) /\ ci'[t] = ci[t]
  <2>1. t # L
    BY <1>3
  <2>2. cstack[Len(cstack)] = Resume(t) => L = t
    <3>1. Resume(t).th = t
      BY DEF Resume
    <3> QED BY <3>1, Running
  <2>3. ~In(cstack, t)
    BY <1>2, <1>3, <2>1, <2>2 DEF States
  <2> QED BY <2>1, <2>3 DEF Elsewhere
<1> QED BY <1>1, <1>2, <1>3 DEF States

(* What a step may do to the variables of the threads. *)
Typed ==
  /\ ci' \in [Thread -> Seq(FrameKind)] /\ size_ci' \in [Thread -> Nat]
  /\ nCcalls' \in [Thread -> Nat] /\ errfunc' \in [Thread -> Handler]
  /\ openup' \in [Thread -> SUBSET Nat] /\ raised' \in {"no", "runerror", "throw"}
ThreadsKept == created' = created /\ status' = status /\ pending' = pending /\ baseCcalls' = baseCcalls

LEMMA StepDone ==
  ASSUME IInv, status[L] = "ok", ThreadsKept, Typed, Elsewhere(L, ci, ci'),
         Core(cstack', status, ci', baseCcalls, nCcalls', errfunc'),
         Near(cstack, cstack', L), Settled', Reserve', UpvaluesOnStack', FramesFit'
  PROVE  IInv'
<1>1. cstack' \in Stack
  <2>1. Shape(cstack')
    BY DEF Core
  <2> QED BY <2>1, ShapeParts
<1>2. States'
  BY <1>1, StatesKept DEF ThreadsKept
<1>3. TypeOK'
  <2>1. /\ created \subseteq Thread /\ status \in [Thread -> {"ok", "yield", "error"}]
        /\ pending \in [Thread -> BOOLEAN] /\ baseCcalls \in [Thread -> Nat]
    BY DEF IInv, TypeOK
  <2> QED BY <1>1, <2>1 DEF TypeOK, Typed, ThreadsKept, Stack
<1>4. Core(cstack', status', ci', baseCcalls', nCcalls', errfunc')
  BY DEF ThreadsKept
<1> QED BY <1>2, <1>3, <1>4 DEF IInv

(* The reserve is not used up when the call depth does not grow. *)
LEMMA ReserveKept ==
  ASSUME IInv, raised = "no", NEW st, NEW c, NEW base,
         Core(cstack', st, c, base, nCcalls', errfunc'),
         cstack'[Len(cstack')].th = L, nCcalls'[L] <= nCcalls[L]
  PROVE  Reserve'
<1>1. nCcalls'[L] = CallsTo(cstack', Len(cstack'))
  BY CoreTop
<1>2. Reserve /\ nCcalls[L] = CallsTo(cstack, Len(cstack)) /\ nCcalls[L] \in Nat
  BY Running DEF IInv
<1>3. MaxCalls \in Nat
  BY LimitAssumption DEF MaxCalls
<1>4. nCcalls'[L] \in Nat
  <2>1. Shape(cstack')
    BY DEF Core
  <2>2. Len(cstack') \in Nat
    BY <2>1, ShapeParts
  <2> QED BY <1>1, <2>2, CallsNat
<1>5. nCcalls[L] < MaxCalls
  BY <1>2 DEF Reserve
<1>6. nCcalls'[L] <= MaxCalls /\ nCcalls'[L] < MaxCalls
  BY <1>2, <1>3, <1>4, <1>5
<1> QED BY <1>1, <1>6 DEF Reserve

LEMMA lua_callInv ==
  ASSUME IInv, NEW kind \in FrameKind, lua_call(kind)
  PROVE  IInv' /\ Near(cstack, cstack', L) /\ ThreadsKept
<1>1. raised = "no" /\ Top.f \in {"C function", "luaV_execute"}
      /\ (Top.f = "C function" => Len(cstack) > 1)
  BY DEF lua_call, InFunction, Doing
<1>2. Core(cstack, status, ci, baseCcalls, nCcalls, errfunc) /\ TypeOK
  BY DEF IInv
<1>3. /\ Shape(cstack) /\ Top = cstack[Len(cstack)] /\ L = cstack[Len(cstack)].th
      /\ status[L] = "ok"
  BY <1>1, Running
<1>4. Len(cstack) > 1
  BY <1>1, <1>3, AboveHost
<1>5. cstack[Len(cstack)].f \in Under("luaD_call")
  BY <1>1, <1>3 DEF Under
<1>6. Near(cstack, cstack, L)
  BY <1>3, NearSelf
<1>7. luaD_call(L, kind, cstack) /\ ThreadsKept /\ openup' = openup /\ errfunc' = errfunc
  BY DEF lua_call, ThreadsKept
<1>8. /\ Core(cstack', status, ci', baseCcalls, nCcalls', errfunc)
      /\ Settled' /\ Reserve' /\ FramesFit' /\ Grows
      /\ ci' \in [Thread -> Seq(FrameKind)] /\ size_ci' \in [Thread -> Nat]
      /\ nCcalls' \in [Thread -> Nat] /\ raised' \in {"no", "runerror", "throw"}
      /\ Near(cstack, cstack', L) /\ Elsewhere(L, ci, ci')
  BY <1>1, <1>2, <1>3, <1>4, <1>5, <1>6, <1>7, CallDone
<1>9. UpvaluesOnStack'
  BY <1>7, <1>8, UpvaluesGrow
<1>10. Typed
  BY <1>2, <1>7, <1>8 DEF TypeOK, Typed
<1> QED BY <1>3, <1>7, <1>8, <1>9, <1>10, StepDone

LEMMA PcallParts ==
  ASSUME IInv, NEW ef \in Handler
  PROVE  LET r == Pcall(L, ef) IN
         /\ r \in Record /\ r.th = L /\ r.f = "luaD_pcall" /\ r.ef = ef
         /\ Saves(r, ci[L], nCcalls[L], errfunc[L])
<1>1. L \in Thread /\ TypeOK
  BY Running DEF IInv
<1>2. Pcall(L, ef) \in Record
  BY <1>1, RecordTypes
<1> QED BY <1>2 DEF Pcall, Saves

LEMMA lua_pcallInv ==
  ASSUME IInv, NEW kind \in FrameKind, NEW ef \in Handler, lua_pcall(kind, ef)
  PROVE  IInv' /\ Near(cstack, cstack', L) /\ ThreadsKept
<1> DEFINE r == Pcall(L, ef)
           cs == Append(cstack, r)
<1>1. raised = "no" /\ Top.f = "C function"
  BY DEF lua_pcall, Doing
<1>2. Core(cstack, status, ci, baseCcalls, nCcalls, errfunc) /\ TypeOK
  BY DEF IInv
<1>3. /\ Shape(cstack) /\ Top = cstack[Len(cstack)] /\ L = cstack[Len(cstack)].th
      /\ status[L] = "ok" /\ L \in Thread /\ cstack \in Stack
  BY <1>1, Running
<1>4. /\ r \in Record /\ r.th = L /\ r.f = "luaD_pcall" /\ r.ef = ef
      /\ Saves(r, ci[L], nCcalls[L], errfunc[L])
  BY PcallParts
<1>5. /\ luaD_call(L, kind, cs) /\ ThreadsKept /\ openup' = openup
      /\ errfunc' = [errfunc EXCEPT ![L] = ef]
  BY DEF lua_pcall, ThreadsKept
<1>6. /\ errfunc' \in [Thread -> Handler] /\ errfunc'[L] = ef /\ Elsewhere(L, errfunc, errfunc')
  BY <1>2, <1>3, <1>5 DEF TypeOK, Elsewhere
<1> HIDE DEF r
<1>7. Over(cstack[Len(cstack)], r)
  BY <1>1, <1>3, <1>4 DEF Over, Under
<1>8. Core(cs, status, ci, baseCcalls, nCcalls, errfunc')
  BY <1>2, <1>3, <1>4, <1>6, <1>7, PushPcall
<1>9. Len(cs) > 1 /\ cs[Len(cs)] = r
  <2>1. Len(cs) = Len(cstack) + 1 /\ cs[Len(cstack) + 1] = r
    BY <1>3, <1>4, PushParts
  <2>2. Len(cstack) \in Nat /\ Len(cstack) > 0
    BY <1>3, ShapeParts
  <2>3. Len(cstack) + 1 > 1
    BY <2>2
  <2> QED BY <2>1, <2>3, Zenon
<1>10. Near(cstack, cs, L)
  <2>1. Near(cstack, cstack, L)
    BY <1>3, NearSelf
  <2>2. r.f # "lua_resume"
    BY <1>4
  <2> QED BY <1>3, <1>4, <2>1, <2>2, NearPush, Zenon
<1>11. cs[Len(cs)].th = L /\ cs[Len(cs)].f \in Under("luaD_call")
  BY <1>4, <1>9 DEF Under
<1> HIDE DEF cs
<1>12. /\ Core(cstack', status, ci', baseCcalls, nCcalls', errfunc')
       /\ Settled' /\ Reserve' /\ FramesFit' /\ Grows
       /\ ci' \in [Thread -> Seq(FrameKind)] /\ size_ci' \in [Thread -> Nat]
       /\ nCcalls' \in [Thread -> Nat] /\ raised' \in {"no", "runerror", "throw"}
       /\ Near(cstack, cstack', L) /\ Elsewhere(L, ci, ci')
  BY <1>1, <1>3, <1>5, <1>8, <1>9, <1>10, <1>11, CallDone
<1>13. UpvaluesOnStack'
  BY <1>5, <1>12, UpvaluesGrow
<1>14. Typed
  BY <1>2, <1>5, <1>6, <1>12 DEF TypeOK, Typed
<1> QED BY <1>3, <1>5, <1>12, <1>13, <1>14, StepDone
=============================================================================
