------------------------- MODULE LuaServices_proofs -------------------------
(***************************************************************************)
(* What services of the libraries promise, for every value of the          *)
(* constants.                                                              *)
(*                                                                         *)
(* table.sort sorts, arrays of any length with any order: what an exchange *)
(* does to an array, and to the order among parts that are still unsorted; *)
(* auxsort from one comparison to the next; the bound of its recursion.    *)
(*                                                                         *)
(* A buffer of the auxiliary library keeps its text within its bounds, and *)
(* a table of references hands out none that is held.                      *)
(***************************************************************************)
EXTENDS TLAPS, LuaSort, Induction, SequenceTheorems, LuaBuffer, LuaRef
LOCAL INSTANCE SequencesExt

SwapOf(b, x, y) == [b EXCEPT ![x] = b[y], ![y] = b[x]]

ArrayType(n) == [0..n + 1 -> 0..n]

(* Each element has one position. *)
Unique(n, b) == \A e \in 1..n : \E k \in 0..n + 1 : \A m \in 0..n + 1 : b[m] = e <=> m = k

LEMMA SwapType ==
  ASSUME NEW n \in Nat, NEW b \in ArrayType(n), NEW x \in 0..n + 1, NEW y \in 0..n + 1
  PROVE  /\ SwapOf(b, x, y) \in ArrayType(n)
         /\ \A m \in 0..n + 1 : SwapOf(b, x, y)[m] = IF m = y THEN b[x] ELSE IF m = x THEN b[y] ELSE b[m]
BY DEF SwapOf, ArrayType

LEMMA SwapUnique ==
  ASSUME NEW n \in Nat, NEW b \in ArrayType(n), NEW x \in 0..n + 1, NEW y \in 0..n + 1, Unique(n, b)
  PROVE  Unique(n, SwapOf(b, x, y))
<1> DEFINE c == SwapOf(b, x, y)
<1>1. \A m \in 0..n + 1 : c[m] = IF m = y THEN b[x] ELSE IF m = x THEN b[y] ELSE b[m]
  BY SwapType
<1> HIDE DEF c
<1>2. ASSUME NEW e \in 1..n
      PROVE  \E k \in 0..n + 1 : \A m \in 0..n + 1 : c[m] = e <=> m = k
  <2>1. PICK k \in 0..n + 1 : \A m \in 0..n + 1 : b[m] = e <=> m = k
    BY DEF Unique
  <2>2. CASE k = x
    <3>1. \A m \in 0..n + 1 : c[m] = e <=> m = y
      BY <1>1, <2>1, <2>2
    <3> QED BY <3>1
  <2>3. CASE k = y
    <3>1. \A m \in 0..n + 1 : c[m] = e <=> m = x
      BY <1>1, <2>1, <2>3
    <3> QED BY <3>1
  <2>4. CASE k # x /\ k # y
    <3>1. \A m \in 0..n + 1 : c[m] = e <=> m = k
      BY <1>1, <2>1, <2>4
    <3> QED BY <3>1
  <2> QED BY <2>2, <2>3, <2>4
<1> QED BY <1>2 DEF Unique, c

------------------------------------------------------------------------------
(* Elements within the array proper, nil beside it, and the order between two *)
(* positions.                                                                *)
Inner(n, b) == (\A k \in 1..n : b[k] \in 1..n) /\ b[0] = Absent /\ b[n + 1] = Absent
Upto(rk, b, x, y) == rk[b[x]] <= rk[b[y]]

LEMMA UptoTransitive ==
  ASSUME NEW rk, NEW b, NEW x, NEW v, NEW y, rk[b[x]] \in Int, rk[b[v]] \in Int, rk[b[y]] \in Int,
         Upto(rk, b, x, v), Upto(rk, b, v, y)
  PROVE  Upto(rk, b, x, y)
BY DEF Upto

(* The parts on the stack, none of which meets another or the current one. *)
Apart(p, l, u) == p.u < l \/ u < p.l
Stack == Seq([l : Int, u : Int])
Separate(st, l, u) ==
  /\ \A d \in DOMAIN st : Apart(st[d], l, u)
  /\ \A d, e \in DOMAIN st : d # e => Apart(st[d], st[e].l, st[e].u)
Waits(st, x, y) == \E d \in DOMAIN st : st[d].l <= x /\ y <= st[d].u

(* Two positions are in order unless one part that is to be sorted has both. *)
OrderedBut(n, rk, b, st, l, u) ==
  \A x, y \in 1..n : x < y => Upto(rk, b, x, y) \/ (l <= x /\ y <= u) \/ Waits(st, x, y)

LEMMA StackParts ==
  ASSUME NEW st \in Stack, NEW d \in DOMAIN st
  PROVE  st[d].l \in Int /\ st[d].u \in Int
<1>1. st[d] \in [l : Int, u : Int]
  BY ElementOfSeq, LenProperties DEF Stack
<1> QED BY <1>1

LEMMA SwapInner ==
  ASSUME NEW n \in Nat, NEW b \in ArrayType(n), Inner(n, b), NEW x \in 1..n, NEW y \in 1..n
  PROVE  Inner(n, SwapOf(b, x, y))
<1>1. x \in 0..n + 1 /\ y \in 0..n + 1 /\ \A k \in 1..n : k \in 0..n + 1
  OBVIOUS
<1>2. \A k \in 1..n : SwapOf(b, x, y)[k] = IF k = y THEN b[x] ELSE IF k = x THEN b[y] ELSE b[k]
  BY <1>1, SwapType
<1>3. SwapOf(b, x, y)[0] = b[0] /\ SwapOf(b, x, y)[n + 1] = b[n + 1]
  <2>1. 0 \in 0..n + 1 /\ n + 1 \in 0..n + 1 /\ x # 0 /\ y # 0 /\ x # n + 1 /\ y # n + 1
    OBVIOUS
  <2> QED BY <1>1, <2>1, SwapType
<1> QED BY <1>2, <1>3 DEF Inner

LEMMA SwapOrdered ==
  ASSUME NEW n \in Nat, NEW rk \in [1..n -> Int], NEW b \in ArrayType(n), Inner(n, b),
         NEW st \in Stack, NEW l \in Int, NEW u \in Int, 1 <= l, u <= n,
         Separate(st, l, u), OrderedBut(n, rk, b, st, l, u),
         NEW v \in l..u, NEW w \in l..u
  PROVE  OrderedBut(n, rk, SwapOf(b, v, w), st, l, u)
<1> DEFINE c == SwapOf(b, v, w)
<1>1. \A m \in 1..n : c[m] = IF m = w THEN b[v] ELSE IF m = v THEN b[w] ELSE b[m]
  <2>1. v \in 0..n + 1 /\ w \in 0..n + 1
    OBVIOUS
  <2>2. \A m \in 1..n : m \in 0..n + 1
    OBVIOUS
  <2> QED BY <2>1, <2>2, SwapType
<1> HIDE DEF c
<1>2. SUFFICES ASSUME NEW x \in 1..n, NEW y \in 1..n, x < y, ~(l <= x /\ y <= u), ~Waits(st, x, y)
               PROVE  Upto(rk, c, x, y)
  BY DEF OrderedBut, c
<1>3. \A d \in DOMAIN st : st[d].l \in Int /\ st[d].u \in Int
  BY StackParts
<1>4. CASE x \in l..u
  <2>1. PICK x1 \in l..u : c[x] = b[x1]
    BY <1>1, <1>4
  <2>2. y \notin l..u /\ y > u /\ c[y] = b[y] /\ x1 \in 1..n /\ x1 < y
    BY <1>1, <1>2, <1>4
  <2>3. ~Waits(st, x1, y)
    BY <1>3, <2>2 DEF Waits, Separate, Apart
  <2> QED BY <2>1, <2>2, <2>3 DEF OrderedBut, Upto
<1>5. CASE y \in l..u
  <2>1. PICK y1 \in l..u : c[y] = b[y1]
    BY <1>1, <1>5
  <2>2. x \notin l..u /\ x < l /\ c[x] = b[x] /\ y1 \in 1..n /\ x < y1
    BY <1>1, <1>2, <1>5
  <2>3. ~Waits(st, x, y1)
    BY <1>3, <2>2 DEF Waits, Separate, Apart
  <2> QED BY <2>1, <2>2, <2>3 DEF OrderedBut, Upto
<1>6. CASE x \notin l..u /\ y \notin l..u
  <2>1. c[x] = b[x] /\ c[y] = b[y]
    BY <1>1, <1>6
  <2> QED BY <1>2, <2>1 DEF OrderedBut, Upto
<1> QED BY <1>4, <1>5, <1>6

LEMMA Pop ==
  ASSUME NEW st \in Stack, st # <<>>
  PROVE  LET rest == SubSeq(st, 1, Len(st) - 1)
         IN /\ Len(st) \in DOMAIN st
            /\ rest \in Stack
            /\ DOMAIN rest = DOMAIN st \ {Len(st)}
            /\ \A d \in DOMAIN rest : rest[d] = st[d]
<1> DEFINE rest == SubSeq(st, 1, Len(st) - 1)
<1>1. Len(st) \in Nat /\ DOMAIN st = 1..Len(st) /\ Len(st) # 0
  BY LenProperties, EmptySeq DEF Stack
<1>2. \A d \in 1..Len(st) - 1 : st[d] \in [l : Int, u : Int]
  <2>1. \A d \in 1..Len(st) : st[d] \in [l : Int, u : Int]
    BY ElementOfSeq DEF Stack
  <2> QED BY <1>1, <2>1
<1>3. /\ rest \in Stack
      /\ Len(rest) = Len(st) - 1
      /\ \A d \in 1..Len(st) - 1 : rest[d] = st[d]
  <2> DEFINE S == [l : Int, u : Int]
             m == Len(st) - 1
  <2>1. m \in Int /\ 1 \in Int /\ \A d \in 1..m : st[d] \in S
    BY <1>1, <1>2
  <2> HIDE DEF S, m
  <2>2. /\ SubSeq(st, 1, m) \in Seq(S)
        /\ Len(SubSeq(st, 1, m)) = IF 1 <= m THEN m - 1 + 1 ELSE 0
        /\ \A i \in 1..m - 1 + 1 : SubSeq(st, 1, m)[i] = st[1 + i - 1]
    BY <2>1, SubSeqProperties
  <2>3. rest = SubSeq(st, 1, m) /\ Stack = Seq(S) /\ m \in Nat
    BY <1>1 DEF S, m, Stack
  <2> HIDE DEF rest
  <2>4. rest \in Stack /\ Len(rest) = m /\ \A d \in 1..m : rest[d] = st[d]
    BY <2>2, <2>3
  <2> QED BY <2>4 DEF m, rest
<1>4. DOMAIN rest = 1..Len(rest)
  BY <1>3, LenProperties DEF Stack
<1> QED BY <1>1, <1>3, <1>4

LEMMA Push ==
  ASSUME NEW st \in Stack, NEW part \in [l : Int, u : Int]
  PROVE  LET more == Append(st, part)
         IN /\ more \in Stack
            /\ DOMAIN more = DOMAIN st \cup {Len(st) + 1}
            /\ \A d \in DOMAIN st : more[d] = st[d]
            /\ more[Len(st) + 1] = part
            /\ Len(st) + 1 \notin DOMAIN st
<1> DEFINE more == Append(st, part)
<1>1. Len(st) \in Nat /\ DOMAIN st = 1..Len(st)
  BY LenProperties DEF Stack
<1>2. /\ more \in Stack
      /\ Len(more) = Len(st) + 1
      /\ \A d \in 1..Len(st) : more[d] = st[d]
      /\ more[Len(st) + 1] = part
  BY AppendProperties DEF Stack
<1>3. DOMAIN more = 1..Len(more)
  BY <1>2, LenProperties DEF Stack
<1> QED BY <1>1, <1>2, <1>3

(* A part in which every pair is in order need not be sorted any more. *)
LEMMA PopOrdered ==
  ASSUME NEW n \in Nat, NEW rk, NEW b, NEW st \in Stack, NEW l \in Int, NEW u \in Int,
         Separate(st, l, u), OrderedBut(n, rk, b, st, l, u),
         \A x, y \in l..u : x < y => Upto(rk, b, x, y), st # <<>>
  PROVE  LET rest == SubSeq(st, 1, Len(st) - 1)
             part == st[Len(st)]
         IN Separate(rest, part.l, part.u) /\ OrderedBut(n, rk, b, rest, part.l, part.u)
<1> DEFINE rest == SubSeq(st, 1, Len(st) - 1)
           part == st[Len(st)]
<1>1. /\ Len(st) \in DOMAIN st
      /\ DOMAIN rest = DOMAIN st \ {Len(st)}
      /\ \A d \in DOMAIN rest : rest[d] = st[d]
  BY Pop
<1> HIDE DEF rest
<1>2. Separate(rest, part.l, part.u)
  BY <1>1 DEF Separate
<1>3. ASSUME NEW x \in 1..n, NEW y \in 1..n, x < y, ~Upto(rk, b, x, y)
      PROVE  (part.l <= x /\ y <= part.u) \/ Waits(rest, x, y)
  <2>1. ~(l <= x /\ y <= u)
    BY <1>3
  <2>2. PICK d \in DOMAIN st : st[d].l <= x /\ y <= st[d].u
    BY <1>3, <2>1 DEF OrderedBut, Waits
  <2> QED BY <1>1, <2>2 DEF Waits
<1>4. OrderedBut(n, rk, b, rest, part.l, part.u)
  BY <1>3 DEF OrderedBut
<1> QED BY <1>2, <1>4 DEF rest

LEMMA LastOrdered ==
  ASSUME NEW n \in Nat, NEW rk, NEW b, NEW l \in Int, NEW u \in Int, OrderedBut(n, rk, b, <<>>, l, u),
         \A x, y \in l..u : x < y => Upto(rk, b, x, y)
  PROVE  \A x, y \in 1..n : x < y => Upto(rk, b, x, y)
BY DEF OrderedBut, Waits

(* The pivot in place, both sides of it become parts of their own. *)
LEMMA SplitOrdered ==
  ASSUME NEW n \in Nat, NEW rk \in [1..n -> Int], NEW b \in ArrayType(n), Inner(n, b),
         NEW st \in Stack, NEW l \in Int, NEW u \in Int, 1 <= l, u <= n,
         Separate(st, l, u), OrderedBut(n, rk, b, st, l, u),
         NEW v \in l..u,
         \A k \in l..v - 1 : Upto(rk, b, k, v),
         \A k \in v + 1..u : Upto(rk, b, v, k),
         NEW p \in [l : Int, u : Int], NEW q \in [l : Int, u : Int],
         \/ p = [l |-> l, u |-> v - 1] /\ q = [l |-> v + 1, u |-> u]
         \/ q = [l |-> l, u |-> v - 1] /\ p = [l |-> v + 1, u |-> u]
  PROVE  Separate(Append(st, q), p.l, p.u) /\ OrderedBut(n, rk, b, Append(st, q), p.l, p.u)
<1> DEFINE more == Append(st, q)
<1>1. /\ DOMAIN more = DOMAIN st \cup {Len(st) + 1}
      /\ \A d \in DOMAIN st : more[d] = st[d]
      /\ more[Len(st) + 1] = q
      /\ Len(st) + 1 \notin DOMAIN st
  BY Push
<1> HIDE DEF more
<1>2. \A d \in DOMAIN st : st[d].l \in Int /\ st[d].u \in Int
  BY StackParts
<1>3. /\ \/ p.l = l /\ p.u = v - 1 /\ q.l = v + 1 /\ q.u = u
         \/ q.l = l /\ q.u = v - 1 /\ p.l = v + 1 /\ p.u = u
      /\ p.l \in Int /\ p.u \in Int /\ q.l \in Int /\ q.u \in Int
  OBVIOUS
<1>4. Separate(more, p.l, p.u)
  <2>1. \A d \in DOMAIN st : Apart(st[d], l, u)
    BY DEF Separate
  <2>2. \A d \in DOMAIN st : Apart(st[d], p.l, p.u) /\ Apart(st[d], q.l, q.u) /\ Apart(q, st[d].l, st[d].u)
    <3> SUFFICES ASSUME NEW d \in DOMAIN st
                 PROVE  Apart(st[d], p.l, p.u) /\ Apart(st[d], q.l, q.u) /\ Apart(q, st[d].l, st[d].u)
      OBVIOUS
    <3>1. st[d].u < l \/ u < st[d].l
      BY <2>1 DEF Apart
    <3>2. st[d].l \in Int /\ st[d].u \in Int
      BY <1>2
    <3>3. l <= p.l /\ p.u <= u /\ l <= q.l /\ q.u <= u
      BY <1>3
    <3>4. p.l \in Int /\ p.u \in Int /\ q.l \in Int /\ q.u \in Int
      BY <1>3
    <3>5. st[d].u < p.l \/ p.u < st[d].l
      BY <3>1, <3>2, <3>3, <3>4
    <3>6. st[d].u < q.l \/ q.u < st[d].l
      BY <3>1, <3>2, <3>3, <3>4
    <3> QED BY <3>5, <3>6 DEF Apart
  <2>3. Apart(q, p.l, p.u)
    BY <1>3 DEF Apart
  <2>4. \A d \in DOMAIN more : Apart(more[d], p.l, p.u)
    BY <1>1, <2>2, <2>3
  <2>5. \A d, e \in DOMAIN st : d # e => Apart(st[d], st[e].l, st[e].u)
    BY DEF Separate
  <2>6. \A d, e \in DOMAIN more : d # e => Apart(more[d], more[e].l, more[e].u)
    BY <1>1, <2>2, <2>5
  <2> QED BY <2>4, <2>6 DEF Separate
<1>5. ASSUME NEW x \in 1..n, NEW y \in 1..n, x < y, ~Upto(rk, b, x, y)
      PROVE  (p.l <= x /\ y <= p.u) \/ Waits(more, x, y)
  <2>1. CASE Waits(st, x, y)
    BY <1>1, <2>1 DEF Waits
  <2>2. CASE l <= x /\ y <= u
    <3>1. ~(x <= v /\ v <= y)
      <4>1. \A k \in 1..n : b[k] \in 1..n /\ rk[b[k]] \in Int
        BY DEF Inner
      <4>2. x <= v /\ v <= y => (x = v \/ x \in l..v - 1) /\ (y = v \/ y \in v + 1..u)
        BY <2>2
      <4>3. v \in 1..n
        OBVIOUS
      <4>4. x <= v /\ v <= y => (x = v \/ Upto(rk, b, x, v)) /\ (y = v \/ Upto(rk, b, v, y))
        BY <4>2
      <4>5. x <= v /\ v <= y => Upto(rk, b, x, y)
        <5>1. rk[b[x]] \in Int /\ rk[b[y]] \in Int /\ rk[b[v]] \in Int
          BY <4>1, <4>3
        <5>2. Upto(rk, b, x, v) /\ Upto(rk, b, v, y) => Upto(rk, b, x, y)
          BY <5>1, UptoTransitive
        <5> QED BY <1>5, <4>4, <5>2
      <4> QED BY <1>5, <4>5
    <3>2. y <= v - 1 \/ v + 1 <= x
      BY <3>1
    <3>3. (p.l <= x /\ y <= p.u) \/ (q.l <= x /\ y <= q.u)
      BY <1>3, <2>2, <3>2
    <3> QED BY <1>1, <3>3 DEF Waits
  <2> QED BY <1>5, <2>1, <2>2 DEF OrderedBut
<1>6. OrderedBut(n, rk, b, more, p.l, p.u)
  BY <1>5 DEF OrderedBut
<1> QED BY <1>4, <1>6 DEF more

------------------------------------------------------------------------------
(* Types, bounds, and no element lost: whatever the order function answers. *)
TypeInv ==
  srt \in [call : Sorts, a : ArrayType(size), l : Int, u : Int, i : Int, j : Int, p : Int,
           stack : Stack, pc : {"ends", "low", "high", "up", "down"}, status : {"run", "done", "error"}]

Bounds ==
  /\ 1 <= srt.l /\ srt.u <= size
  /\ \A d \in DOMAIN srt.stack : 1 <= srt.stack[d].l /\ srt.stack[d].u <= size
  /\ srt.pc # "ends" => srt.l + 1 <= srt.i
  /\ srt.pc \in {"low", "high"} => srt.l + 2 <= srt.u /\ srt.i <= srt.u - 1
  /\ srt.pc \in {"up", "down"} => srt.l + 3 <= srt.u /\ srt.i <= srt.u + 1 /\ srt.j <= srt.u - 1
  /\ srt.pc = "up" => srt.l + 1 <= srt.j
  /\ srt.pc = "down" => srt.l - 1 <= srt.j /\ srt.j <= srt.u - 2

SafeInv == TypeInv /\ Bounds /\ Unique(size, arr)

LEMMA Sizes == ASSUME TypeInv PROVE size \in Nat
BY SortsAssumption DEF TypeInv, size

LEMMA InitialSafe == ASSUME srt \in SortStates(Sorts) PROVE SafeInv
<1>1. PICK c \in Sorts : srt = [call |-> c, a |-> InitialArray(c.n), l |-> 1, u |-> c.n, i |-> 0, j |-> 0,
                                p |-> Absent, stack |-> <<>>, pc |-> "ends", status |-> "run"]
  BY DEF SortStates
<1>2. size = c.n /\ size \in Nat /\ arr = InitialArray(size)
  BY <1>1, SortsAssumption DEF size, arr
<1>3. InitialArray(size) \in ArrayType(size)
  BY <1>2 DEF InitialArray, ArrayType, Elements, Absent
<1>4. <<>> \in Stack
  BY EmptySeq DEF Stack
<1>5. TypeInv
  BY <1>1, <1>2, <1>3, <1>4 DEF TypeInv, Absent
<1>6. Bounds
  <2>1. DOMAIN srt.stack = {}
    BY <1>1
  <2> QED BY <1>1, <1>2, <2>1 DEF Bounds
<1>7. Unique(size, arr)
  <2>1. ASSUME NEW e \in 1..size
        PROVE  \A m \in 0..size + 1 : arr[m] = e <=> m = e
    BY <1>2 DEF InitialArray, Elements, Absent
  <2> QED BY <1>2, <2>1 DEF Unique
<1> QED BY <1>5, <1>6, <1>7 DEF SafeInv

(* What Return leaves, for any array that it is given. *)
LEMMA ReturnSafe ==
  ASSUME SafeInv, NEW b \in ArrayType(size), Unique(size, b), Return(b)
  PROVE  SafeInv'
<1> USE DEF size, arr
<1>1. CASE srt.stack = <<>>
  <2>1. srt' = [srt EXCEPT !.a = b, !.status = "done"]
    BY <1>1 DEF Return
  <2>2. TypeInv'
    BY <2>1 DEF SafeInv, TypeInv
  <2>3. Bounds'
    BY <2>1 DEF SafeInv, TypeInv, Bounds
  <2>4. Unique(size, arr)'
    BY <2>1 DEF SafeInv, TypeInv
  <2> QED BY <2>2, <2>3, <2>4 DEF SafeInv
<1>2. CASE srt.stack # <<>>
  <2> DEFINE part == srt.stack[Len(srt.stack)]
             rest == SubSeq(srt.stack, 1, Len(srt.stack) - 1)
  <2>1. srt' = [srt EXCEPT !.a = b, !.l = part.l, !.u = part.u, !.stack = rest, !.pc = "ends"]
    BY <1>2 DEF Return
  <2>2. /\ Len(srt.stack) \in DOMAIN srt.stack
        /\ rest \in Stack
        /\ DOMAIN rest = DOMAIN srt.stack \ {Len(srt.stack)}
        /\ \A d \in DOMAIN rest : rest[d] = srt.stack[d]
    BY <1>2, Pop DEF SafeInv, TypeInv
  <2>3. part.l \in Int /\ part.u \in Int /\ 1 <= part.l /\ part.u <= size
    BY <2>2, StackParts DEF SafeInv, TypeInv, Bounds
  <2> HIDE DEF part, rest
  <2>4. /\ srt'.call = srt.call /\ srt'.a = b /\ srt'.l = part.l /\ srt'.u = part.u
        /\ srt'.stack = rest /\ srt'.pc = "ends"
    BY <2>1 DEF SafeInv, TypeInv
  <2>5. TypeInv'
    BY <2>1, <2>2, <2>3 DEF SafeInv, TypeInv
  <2>6. Bounds'
    BY <2>2, <2>3, <2>4 DEF SafeInv, Bounds
  <2>7. Unique(size, arr)'
    BY <2>4
  <2> QED BY <2>5, <2>6, <2>7 DEF SafeInv
<1> QED BY <1>1, <1>2

(* An array that an action leaves, by its exchange or without one. *)
LEMMA ExchangeSafe ==
  ASSUME SafeInv, NEW x \in 0..size + 1, NEW y \in 0..size + 1
  PROVE  Swap(x, y) \in ArrayType(size) /\ Unique(size, Swap(x, y))
<1>1. Swap(x, y) = SwapOf(arr, x, y) /\ arr \in ArrayType(size) /\ size \in Nat
  BY Sizes DEF Swap, SwapOf, SafeInv, TypeInv, arr
<1> QED BY <1>1, SwapType, SwapUnique DEF SafeInv

LEMMA PivotSafe ==
  ASSUME SafeInv, srt.pc \in {"low", "high"}, NEW b \in ArrayType(size), Unique(size, b), Pivot(b)
  PROVE  SafeInv'
<1>0. size \in Nat /\ srt.l \in Int /\ srt.u \in Int /\ srt.i \in Int
  BY Sizes DEF SafeInv, TypeInv
<1>1. CASE srt.u - srt.l = 2
  BY <1>1, ReturnSafe DEF Pivot
<1>2. CASE srt.u - srt.l # 2
  <2> DEFINE c == SwapOf(b, srt.i, srt.u - 1)
  <2>1. srt.i \in 0..size + 1 /\ srt.u - 1 \in 0..size + 1 /\ srt.l + 3 <= srt.u
    BY <1>0, <1>2 DEF SafeInv, Bounds
  <2>2. c \in ArrayType(size) /\ Unique(size, c)
    <3>1. c \in ArrayType(size)
      BY <1>0, <2>1 DEF SwapOf, ArrayType
    <3>2. Unique(size, c)
      BY <1>0, <2>1, SwapUnique
    <3> QED BY <3>1, <3>2
  <2>3. srt' = [srt EXCEPT !.a = c, !.p = b[srt.i], !.i = srt.l + 1, !.j = srt.u - 1, !.pc = "up"]
    BY <1>2 DEF Pivot, Partition, SwapOf
  <2>4. b[srt.i] \in Int
    <3>1. b[srt.i] \in 0..size
      BY <2>1 DEF ArrayType
    <3> QED BY <1>0, <3>1
  <2> HIDE DEF c
  <2>5. /\ srt'.call = srt.call /\ srt'.a = c /\ srt'.l = srt.l /\ srt'.u = srt.u
        /\ srt'.i = srt.l + 1 /\ srt'.j = srt.u - 1 /\ srt'.stack = srt.stack /\ srt'.pc = "up"
    BY <2>3 DEF SafeInv, TypeInv
  <2>9. size' = size
    BY <2>5 DEF size
  <2>6. TypeInv'
    <3> DEFINE i == srt.l + 1
               j == srt.u - 1
               p == b[srt.i]
    <3>1. i \in Int /\ j \in Int /\ p \in Int
      BY <1>0, <2>4
    <3>2. srt' = [srt EXCEPT !.a = c, !.p = p, !.i = i, !.j = j, !.pc = "up"]
      BY <2>3
    <3> HIDE DEF i, j, p
    <3> QED BY <2>2, <2>9, <3>1, <3>2 DEF SafeInv, TypeInv
  <2>7. Bounds'
    BY <1>0, <2>1, <2>5 DEF SafeInv, Bounds, size
  <2>8. Unique(size, arr)'
    BY <2>2, <2>5 DEF size, arr
  <2> QED BY <2>6, <2>7, <2>8 DEF SafeInv
<1> QED BY <1>1, <1>2

LEMMA EndsSafe == ASSUME SafeInv, SortEnds PROVE SafeInv'
<1>0. size \in Nat /\ srt.l \in Int /\ srt.u \in Int /\ arr \in ArrayType(size) /\ Unique(size, arr)
  BY Sizes DEF SafeInv, TypeInv, arr
<1>1. CASE srt.l >= srt.u
  BY <1>0, <1>1, ReturnSafe DEF SortEnds
<1>2. CASE ~(srt.l >= srt.u)
  <2>1. PICK less \in sort_comp(arr[srt.u], arr[srt.l]) :
          LET b == IF less THEN Swap(srt.l, srt.u) ELSE arr
          IN IF srt.u - srt.l = 1 THEN Return(b)
             ELSE srt' = [srt EXCEPT !.a = b, !.i = (srt.l + srt.u) \div 2, !.pc = "low"]
    BY <1>2 DEF SortEnds
  <2> DEFINE b == IF less THEN Swap(srt.l, srt.u) ELSE arr
  <2>2. srt.l \in 0..size + 1 /\ srt.u \in 0..size + 1
    BY <1>0, <1>2 DEF SafeInv, Bounds
  <2>3. b \in ArrayType(size) /\ Unique(size, b)
    BY <1>0, <2>2, ExchangeSafe
  <2> HIDE DEF b
  <2>4. CASE srt.u - srt.l = 1
    <3>1. Return(b)
      BY <2>1, <2>4 DEF b
    <3> QED BY <2>3, <3>1, ReturnSafe
  <2>5. CASE srt.u - srt.l # 1
    <3> DEFINE m == (srt.l + srt.u) \div 2
    <3>1. srt' = [srt EXCEPT !.a = b, !.i = m, !.pc = "low"]
      BY <2>1, <2>5 DEF b
    <3>2. m \in Int /\ srt.l + 2 <= srt.u /\ srt.l + 1 <= m /\ m <= srt.u - 1
      BY <1>0, <1>2, <2>5
    <3> HIDE DEF m
    <3>3. /\ srt'.call = srt.call /\ srt'.a = b /\ srt'.l = srt.l /\ srt'.u = srt.u
          /\ srt'.i = m /\ srt'.stack = srt.stack /\ srt'.pc = "low"
      BY <3>1 DEF SafeInv, TypeInv
    <3>4. TypeInv'
      BY <2>3, <3>1, <3>2 DEF SafeInv, TypeInv, size
    <3>5. Bounds'
      BY <3>2, <3>3 DEF SafeInv, Bounds, size
    <3>6. Unique(size, arr)'
      BY <2>3, <3>3 DEF size, arr
    <3> QED BY <3>4, <3>5, <3>6 DEF SafeInv
  <2> QED BY <2>4, <2>5
<1> QED BY <1>1, <1>2

LEMMA LowSafe == ASSUME SafeInv, SortLow PROVE SafeInv'
<1>0. /\ size \in Nat /\ srt.l \in Int /\ srt.u \in Int /\ srt.i \in Int /\ srt.pc = "low"
      /\ srt.i \in 0..size + 1 /\ srt.l \in 0..size + 1
  <2>1. size \in Nat /\ srt.l \in Int /\ srt.u \in Int /\ srt.i \in Int /\ srt.pc = "low"
    BY Sizes DEF SafeInv, TypeInv, SortLow, AtLabel
  <2> QED BY <2>1 DEF SafeInv, Bounds
<1>1. PICK less \in sort_comp(arr[srt.i], arr[srt.l]) :
        IF less THEN Pivot(Swap(srt.i, srt.l)) ELSE srt' = [srt EXCEPT !.pc = "high"]
  BY DEF SortLow
<1>2. CASE less
  <2>1. Swap(srt.i, srt.l) \in ArrayType(size) /\ Unique(size, Swap(srt.i, srt.l))
    BY <1>0, ExchangeSafe
  <2>2. Pivot(Swap(srt.i, srt.l))
    BY <1>1, <1>2
  <2> QED BY <1>0, <2>1, <2>2, PivotSafe
<1>3. CASE ~less
  <2>1. srt' = [srt EXCEPT !.pc = "high"]
    BY <1>1, <1>3
  <2>2. TypeInv' /\ size' = size /\ arr' = arr
    BY <2>1 DEF SafeInv, TypeInv, size, arr
  <2>3. Bounds'
    BY <1>0, <2>1 DEF SafeInv, TypeInv, Bounds, size
  <2> QED BY <2>2, <2>3 DEF SafeInv
<1> QED BY <1>2, <1>3

LEMMA HighSafe == ASSUME SafeInv, SortHigh PROVE SafeInv'
<1>0. /\ size \in Nat /\ srt.pc = "high" /\ arr \in ArrayType(size)
      /\ srt.i \in 0..size + 1 /\ srt.u \in 0..size + 1
  <2>1. size \in Nat /\ srt.l \in Int /\ srt.u \in Int /\ srt.i \in Int /\ srt.pc = "high" /\ arr \in ArrayType(size)
    BY Sizes DEF SafeInv, TypeInv, SortHigh, AtLabel, arr
  <2> QED BY <2>1 DEF SafeInv, Bounds
<1>1. PICK less \in sort_comp(arr[srt.u], arr[srt.i]) : Pivot(IF less THEN Swap(srt.i, srt.u) ELSE arr)
  BY DEF SortHigh
<1> DEFINE b == IF less THEN Swap(srt.i, srt.u) ELSE arr
<1>2. b \in ArrayType(size) /\ Unique(size, b)
  BY <1>0, ExchangeSafe DEF SafeInv
<1> HIDE DEF b
<1>3. Pivot(b)
  BY <1>1 DEF b
<1> QED BY <1>0, <1>2, <1>3, PivotSafe

LEMMA UpSafe == ASSUME SafeInv, SortUp PROVE SafeInv'
<1>0. size \in Nat /\ srt.l \in Int /\ srt.u \in Int /\ srt.i \in Int /\ srt.j \in Int /\ srt.pc = "up"
  BY Sizes DEF SafeInv, TypeInv, SortUp, AtLabel
<1>1. \/ srt' = [srt EXCEPT !.j = srt.j - 1, !.pc = "down"]
      \/ srt' = [srt EXCEPT !.status = "error"]
      \/ srt' = [srt EXCEPT !.i = srt.i + 1] /\ ~(srt.i > srt.u)
  BY DEF SortUp, InvalidOrder
<1>2. TypeInv' /\ size' = size /\ arr' = arr
  <2>1. srt'.call = srt.call /\ srt'.a = srt.a
    BY <1>1 DEF SafeInv, TypeInv
  <2>2. size' = size /\ arr' = arr
    BY <2>1 DEF size, arr
  <2>3. CASE srt' = [srt EXCEPT !.j = srt.j - 1, !.pc = "down"]
    <3> DEFINE j == srt.j - 1
    <3>1. j \in Int
      BY <1>0
    <3>2. srt' = [srt EXCEPT !.j = j, !.pc = "down"]
      BY <2>3
    <3> HIDE DEF j
    <3> QED BY <2>2, <3>1, <3>2 DEF SafeInv, TypeInv
  <2>4. CASE srt' = [srt EXCEPT !.status = "error"]
    BY <1>0, <2>2, <2>4 DEF SafeInv, TypeInv
  <2>5. CASE srt' = [srt EXCEPT !.i = srt.i + 1]
    <3> DEFINE i == srt.i + 1
    <3>1. i \in Int
      BY <1>0
    <3>2. srt' = [srt EXCEPT !.i = i]
      BY <2>5
    <3> HIDE DEF i
    <3> QED BY <2>2, <3>1, <3>2 DEF SafeInv, TypeInv
  <2> QED BY <1>1, <2>2, <2>3, <2>4, <2>5
<1>3. Bounds'
  <2>1. CASE srt' = [srt EXCEPT !.j = srt.j - 1, !.pc = "down"]
    BY <1>0, <2>1 DEF SafeInv, TypeInv, Bounds, size
  <2>2. CASE srt' = [srt EXCEPT !.status = "error"]
    BY <1>0, <2>2 DEF SafeInv, TypeInv, Bounds, size
  <2>3. CASE srt' = [srt EXCEPT !.i = srt.i + 1] /\ ~(srt.i > srt.u)
    BY <1>0, <2>3 DEF SafeInv, TypeInv, Bounds, size
  <2> QED BY <1>1, <2>1, <2>2, <2>3
<1> QED BY <1>2, <1>3 DEF SafeInv

LEMMA DownSafe == ASSUME SafeInv, SortDown PROVE SafeInv'
<1>0. /\ size \in Nat /\ srt.l \in Int /\ srt.u \in Int /\ srt.i \in Int /\ srt.j \in Int /\ srt.pc = "down"
      /\ srt.stack \in Stack
  BY Sizes DEF SafeInv, TypeInv, SortDown, AtLabel
<1>1. PICK less \in sort_comp(srt.p, arr[srt.j]) :
        IF less THEN IF srt.j < srt.l THEN InvalidOrder ELSE srt' = [srt EXCEPT !.j = srt.j - 1]
        ELSE IF srt.j >= srt.i THEN srt' = [srt EXCEPT !.a = Swap(srt.i, srt.j), !.i = srt.i + 1, !.pc = "up"]
        ELSE srt' = [srt EXCEPT !.a = Swap(srt.u - 1, srt.i), !.l = Smaller(srt.i).l, !.u = Smaller(srt.i).u,
                                !.stack = Append(srt.stack, Larger(srt.i)), !.pc = "ends"]
  BY DEF SortDown
<1>2. CASE less /\ srt.j < srt.l
  <2>1. srt' = [srt EXCEPT !.status = "error"]
    BY <1>1, <1>2 DEF InvalidOrder
  <2>2. TypeInv' /\ size' = size /\ arr' = arr
    BY <2>1 DEF SafeInv, TypeInv, size, arr
  <2>3. Bounds'
    BY <1>0, <2>1 DEF SafeInv, TypeInv, Bounds, size
  <2> QED BY <2>2, <2>3 DEF SafeInv
<1>3. CASE less /\ ~(srt.j < srt.l)
  <2>1. srt' = [srt EXCEPT !.j = srt.j - 1]
    BY <1>1, <1>3
  <2>2. TypeInv' /\ size' = size /\ arr' = arr
    BY <1>0, <2>1 DEF SafeInv, TypeInv, size, arr
  <2>3. Bounds'
    BY <1>0, <1>3, <2>1 DEF SafeInv, TypeInv, Bounds, size
  <2> QED BY <2>2, <2>3 DEF SafeInv
<1>4. CASE ~less /\ srt.j >= srt.i
  <2> DEFINE b == Swap(srt.i, srt.j)
  <2>1. srt' = [srt EXCEPT !.a = b, !.i = srt.i + 1, !.pc = "up"]
    BY <1>1, <1>4
  <2>2. srt.i \in 0..size + 1 /\ srt.j \in 0..size + 1 /\ srt.l + 1 <= srt.j /\ srt.i + 1 <= srt.u + 1
    BY <1>0, <1>4 DEF SafeInv, Bounds
  <2>3. b \in ArrayType(size) /\ Unique(size, b)
    BY <2>2, ExchangeSafe
  <2> HIDE DEF b
  <2>6. srt'.call = srt.call /\ srt'.a = b
    BY <2>1 DEF SafeInv, TypeInv
  <2>7. size' = size /\ arr' = b
    BY <2>6 DEF size, arr
  <2>8. TypeInv'
    <3> DEFINE i == srt.i + 1
    <3>1. i \in Int
      BY <1>0
    <3>2. srt' = [srt EXCEPT !.a = b, !.i = i, !.pc = "up"]
      BY <2>1
    <3> HIDE DEF i
    <3> QED BY <2>3, <2>7, <3>1, <3>2 DEF SafeInv, TypeInv
  <2>4. TypeInv' /\ size' = size /\ arr' = b
    BY <2>7, <2>8
  <2>5. Bounds'
    BY <1>0, <2>1, <2>2 DEF SafeInv, TypeInv, Bounds, size
  <2> QED BY <2>3, <2>4, <2>5 DEF SafeInv
<1>5. CASE ~less /\ ~(srt.j >= srt.i)
  <2> DEFINE b == Swap(srt.u - 1, srt.i)
             s == Smaller(srt.i)
             q == Larger(srt.i)
  <2>1. srt' = [srt EXCEPT !.a = b, !.l = s.l, !.u = s.u, !.stack = Append(srt.stack, q), !.pc = "ends"]
    BY <1>1, <1>5
  <2>2. srt.u - 1 \in 0..size + 1 /\ srt.i \in 0..size + 1
    BY <1>0 DEF SafeInv, Bounds
  <2>3. b \in ArrayType(size) /\ Unique(size, b)
    BY <2>2, ExchangeSafe
  <2>4. /\ s \in [l : Int, u : Int] /\ q \in [l : Int, u : Int]
        /\ 1 <= s.l /\ 1 <= q.l
    BY <1>0 DEF SafeInv, Bounds, Smaller, Larger
  <2>5. s.u <= size /\ q.u <= size
    BY <1>0 DEF SafeInv, Bounds, Smaller, Larger
  <2> HIDE DEF b, s, q
  <2> DEFINE more == Append(srt.stack, q)
  <2>6. /\ more \in Stack
        /\ DOMAIN more = DOMAIN srt.stack \cup {Len(srt.stack) + 1}
        /\ \A d \in DOMAIN srt.stack : more[d] = srt.stack[d]
        /\ more[Len(srt.stack) + 1] = q
    BY <1>0, <2>4, Push
  <2> HIDE DEF more
  <2>7. srt' = [srt EXCEPT !.a = b, !.l = s.l, !.u = s.u, !.stack = more, !.pc = "ends"]
    BY <2>1 DEF more
  <2>8. /\ srt'.call = srt.call /\ srt'.a = b /\ srt'.l = s.l /\ srt'.u = s.u
        /\ srt'.stack = more /\ srt'.pc = "ends" /\ size' = size /\ arr' = b
    BY <2>7 DEF SafeInv, TypeInv, size, arr
  <2>9. TypeInv'
    BY <2>3, <2>4, <2>6, <2>7, <2>8 DEF SafeInv, TypeInv
  <2>10. Bounds'
    BY <2>4, <2>5, <2>6, <2>8 DEF SafeInv, Bounds
  <2> QED BY <2>3, <2>8, <2>9, <2>10 DEF SafeInv
<1> QED BY <1>2, <1>3, <1>4, <1>5

LEMMA SafeStep == SafeInv /\ [SortNext]_srt => SafeInv'
<1> SUFFICES ASSUME SafeInv, [SortNext]_srt PROVE SafeInv'
  OBVIOUS
<1>1. CASE UNCHANGED srt
  BY <1>1 DEF SafeInv, TypeInv, Bounds, size, arr
<1> QED BY <1>1, EndsSafe, LowSafe, HighSafe, UpSafe, DownSafe DEF SortNext

(* Whatever the order function answers, and between any two of its calls,  *)
(* every element of the array that table.sort was given is at exactly one  *)
(* position: auxsort only ever exchanges two.                              *)
THEOREM NothingIsLost == SortSpec => []NothingLost
<1>1. SafeInv => NothingLost
  <2> SUFFICES ASSUME SafeInv, NEW e \in 1..size PROVE \E k : {m \in DOMAIN arr : arr[m] = e} = {k}
    BY OneElement DEF NothingLost, Elements
  <2>1. DOMAIN arr = 0..size + 1
    BY DEF SafeInv, TypeInv, ArrayType, arr
  <2>2. PICK k \in 0..size + 1 : \A m \in 0..size + 1 : arr[m] = e <=> m = k
    BY DEF SafeInv, Unique
  <2>3. {m \in DOMAIN arr : arr[m] = e} = {k}
    BY <2>1, <2>2
  <2> QED BY <2>3
<1> QED BY <1>1, InitialSafe, SafeStep, PTL DEF SortSpec

------------------------------------------------------------------------------
(* What is in order already, when the order function is an order. *)
Ranks == srt.call.rank
AtMost(x, y) == Upto(Ranks, arr, x, y)
AllBelow(n, rk, b) == \A x, y \in 1..n : x < y => Upto(rk, b, x, y)

Progress ==
  /\ Separate(srt.stack, srt.l, srt.u)
  /\ OrderedBut(size, Ranks, arr, srt.stack, srt.l, srt.u)
  /\ srt.pc \in {"low", "high"} => AtMost(srt.l, srt.u)
  /\ srt.pc = "high" => AtMost(srt.l, srt.i)
  /\ srt.pc \in {"up", "down"} =>
       /\ srt.p = arr[srt.u - 1]
       /\ AtMost(srt.l, srt.u - 1) /\ AtMost(srt.u - 1, srt.u)
       /\ srt.i <= srt.u - 1
       /\ \A k \in srt.l..srt.i - 1 : AtMost(k, srt.u - 1)
  /\ srt.pc = "up" => \A k \in srt.j..srt.u : AtMost(srt.u - 1, k)
  /\ srt.pc = "down" =>
       /\ srt.l <= srt.j
       /\ AtMost(srt.u - 1, srt.i)
       /\ \A k \in srt.j + 1..srt.u : AtMost(srt.u - 1, k)

OrderInv ==
  /\ Inner(size, arr)
  /\ srt.status # "error"
  /\ srt.status = "run" => Progress
  /\ srt.status = "done" => AllBelow(size, Ranks, arr)

Inv == SafeInv /\ (Consistent => OrderInv)

LEMMA Facts ==
  ASSUME SafeInv, Consistent
  PROVE  /\ size \in Nat /\ Ranks \in [1..size -> Int] /\ arr \in ArrayType(size) /\ srt.stack \in Stack
         /\ srt.l \in Int /\ srt.u \in Int /\ srt.i \in Int /\ srt.j \in Int
BY SortsAssumption DEF SafeInv, TypeInv, Consistent, Ranks, size, arr

LEMMA Ranked ==
  ASSUME SafeInv, Consistent, NEW b, Inner(size, b), NEW k \in 1..size
  PROVE  Ranks[b[k]] \in Int
BY Facts DEF Inner

LEMMA Compare ==
  ASSUME Consistent, NEW x, NEW y, Ranks[x] \in Int, Ranks[y] \in Int, NEW less \in sort_comp(x, y)
  PROVE  (less => Ranks[x] < Ranks[y]) /\ (~less => Ranks[y] <= Ranks[x])
BY DEF sort_comp, Ranks

LEMMA InitialOrder == ASSUME srt \in SortStates(Sorts) PROVE Inv
<1>1. PICK c \in Sorts : srt = [call |-> c, a |-> InitialArray(c.n), l |-> 1, u |-> c.n, i |-> 0, j |-> 0,
                                p |-> Absent, stack |-> <<>>, pc |-> "ends", status |-> "run"]
  BY DEF SortStates
<1>2. size = c.n /\ size \in Nat /\ arr = InitialArray(size) /\ DOMAIN srt.stack = {}
  BY <1>1, SortsAssumption DEF size, arr
<1>3. Inner(size, arr)
  BY <1>2 DEF Inner, InitialArray, Elements, Absent
<1>4. Separate(srt.stack, srt.l, srt.u)
  BY <1>2 DEF Separate
<1>5. OrderedBut(size, Ranks, arr, srt.stack, srt.l, srt.u)
  BY <1>1, <1>2 DEF OrderedBut
<1>6. OrderInv
  BY <1>1, <1>3, <1>4, <1>5 DEF OrderInv, Progress
<1> QED BY <1>6, InitialSafe DEF Inv

(* Every step keeps the call. *)
LEMMA ReturnCall == ASSUME SafeInv, NEW b, Return(b) PROVE srt'.call = srt.call
BY DEF SafeInv, TypeInv, Return

LEMMA CallKept == ASSUME SafeInv, SortNext PROVE srt'.call = srt.call
<1>1. ASSUME NEW b, Pivot(b) PROVE srt'.call = srt.call
  BY <1>1, ReturnCall DEF SafeInv, TypeInv, Pivot, Partition
<1>2. CASE SortEnds
  BY <1>2, ReturnCall DEF SafeInv, TypeInv, SortEnds
<1>3. CASE SortLow
  BY <1>1, <1>3 DEF SafeInv, TypeInv, SortLow
<1>4. CASE SortHigh
  BY <1>1, <1>4 DEF SafeInv, TypeInv, SortHigh
<1>5. CASE SortUp
  BY <1>5 DEF SafeInv, TypeInv, SortUp, InvalidOrder
<1>6. CASE SortDown
  BY <1>6 DEF SafeInv, TypeInv, SortDown, InvalidOrder
<1> QED BY <1>2, <1>3, <1>4, <1>5, <1>6 DEF SortNext

(* A part that is in order is left; what waits on the stack comes next. *)
LEMMA ReturnOrder ==
  ASSUME SafeInv, Consistent, NEW b \in ArrayType(size), Inner(size, b),
         Separate(srt.stack, srt.l, srt.u), OrderedBut(size, Ranks, b, srt.stack, srt.l, srt.u),
         \A x, y \in srt.l..srt.u : x < y => Upto(Ranks, b, x, y),
         srt.status = "run", Return(b)
  PROVE  OrderInv'
<1>0. size \in Nat /\ srt.l \in Int /\ srt.u \in Int /\ srt.stack \in Stack
  BY Facts
<1>1. CASE srt.stack = <<>>
  <2>1. AllBelow(size, Ranks, b)
    BY <1>0, <1>1, LastOrdered DEF AllBelow
  <2>2. srt' = [srt EXCEPT !.a = b, !.status = "done"]
    BY <1>1 DEF Return
  <2>3. srt'.call = srt.call /\ srt'.a = b /\ srt'.status = "done"
    BY <2>2 DEF SafeInv, TypeInv
  <2>4. size' = size /\ Ranks' = Ranks /\ arr' = b
    BY <2>3 DEF size, Ranks, arr
  <2> QED BY <2>1, <2>3, <2>4 DEF OrderInv
<1>2. CASE srt.stack # <<>>
  <2> DEFINE part == srt.stack[Len(srt.stack)]
             rest == SubSeq(srt.stack, 1, Len(srt.stack) - 1)
  <2>1. Separate(rest, part.l, part.u) /\ OrderedBut(size, Ranks, b, rest, part.l, part.u)
    BY <1>0, <1>2, PopOrdered
  <2>2. srt' = [srt EXCEPT !.a = b, !.l = part.l, !.u = part.u, !.stack = rest, !.pc = "ends"]
    BY <1>2 DEF Return
  <2> HIDE DEF part, rest
  <2>3. /\ srt'.call = srt.call /\ srt'.a = b /\ srt'.l = part.l /\ srt'.u = part.u
        /\ srt'.stack = rest /\ srt'.pc = "ends" /\ srt'.status = "run"
    BY <2>2 DEF SafeInv, TypeInv
  <2>4. size' = size /\ Ranks' = Ranks /\ arr' = b
    BY <2>3 DEF size, Ranks, arr
  <2> QED BY <2>1, <2>3, <2>4 DEF OrderInv, Progress
<1> QED BY <1>1, <1>2

(* An exchange within the part that is being sorted. *)
LEMMA ExchangeOrder ==
  ASSUME SafeInv, Consistent, NEW b \in ArrayType(size), Inner(size, b),
         Separate(srt.stack, srt.l, srt.u), OrderedBut(size, Ranks, b, srt.stack, srt.l, srt.u),
         NEW x \in srt.l..srt.u, NEW y \in srt.l..srt.u
  PROVE  /\ SwapOf(b, x, y) \in ArrayType(size)
         /\ Inner(size, SwapOf(b, x, y))
         /\ OrderedBut(size, Ranks, SwapOf(b, x, y), srt.stack, srt.l, srt.u)
         /\ \A m \in srt.l..srt.u : SwapOf(b, x, y)[m] = IF m = y THEN b[x] ELSE IF m = x THEN b[y] ELSE b[m]
<1>1. /\ size \in Nat /\ Ranks \in [1..size -> Int] /\ srt.stack \in Stack /\ srt.l \in Int /\ srt.u \in Int
      /\ 1 <= srt.l /\ srt.u <= size
  BY Facts DEF SafeInv, Bounds
<1>2. x \in 1..size /\ y \in 1..size /\ x \in 0..size + 1 /\ y \in 0..size + 1
  BY <1>1
<1>3. \A m \in srt.l..srt.u : m \in 0..size + 1
  BY <1>1
<1>4. SwapOf(b, x, y) \in ArrayType(size)
  BY <1>1, <1>2, SwapType
<1>5. \A m \in srt.l..srt.u : SwapOf(b, x, y)[m] = IF m = y THEN b[x] ELSE IF m = x THEN b[y] ELSE b[m]
  <2>1. \A m \in 0..size + 1 : SwapOf(b, x, y)[m] = IF m = y THEN b[x] ELSE IF m = x THEN b[y] ELSE b[m]
    BY <1>1, <1>2, SwapType
  <2> QED BY <1>3, <2>1
<1>6. Inner(size, SwapOf(b, x, y))
  BY <1>1, <1>2, SwapInner
<1>7. OrderedBut(size, Ranks, SwapOf(b, x, y), srt.stack, srt.l, srt.u)
  BY <1>1, SwapOrdered
<1> QED BY <1>4, <1>5, <1>6, <1>7

LEMMA PivotOrder ==
  ASSUME SafeInv, Consistent, srt.pc \in {"low", "high"}, srt.status = "run",
         NEW b \in ArrayType(size), Inner(size, b),
         Separate(srt.stack, srt.l, srt.u), OrderedBut(size, Ranks, b, srt.stack, srt.l, srt.u),
         Upto(Ranks, b, srt.l, srt.i), Upto(Ranks, b, srt.i, srt.u), Pivot(b)
  PROVE  OrderInv'
<1>0. /\ size \in Nat /\ srt.l \in Int /\ srt.u \in Int /\ srt.i \in Int
      /\ 1 <= srt.l /\ srt.u <= size /\ srt.l + 1 <= srt.i /\ srt.i <= srt.u - 1
  BY Facts DEF SafeInv, Bounds
<1>1. Upto(Ranks, b, srt.l, srt.u)
  <2>1. srt.l \in 1..size /\ srt.i \in 1..size /\ srt.u \in 1..size
    BY <1>0
  <2>2. Ranks[b[srt.l]] \in Int /\ Ranks[b[srt.i]] \in Int /\ Ranks[b[srt.u]] \in Int
    BY <2>1, Ranked
  <2> QED BY <2>2, UptoTransitive
<1>2. CASE srt.u - srt.l = 2
  <2>1. \A x, y \in srt.l..srt.u : x < y => Upto(Ranks, b, x, y)
    <3>1. srt.i = srt.l + 1 /\ srt.u = srt.l + 2
      BY <1>0, <1>2
    <3>2. \A x, y \in srt.l..srt.u : x < y =>
            (x = srt.l /\ y = srt.i) \/ (x = srt.l /\ y = srt.u) \/ (x = srt.i /\ y = srt.u)
      BY <1>0, <3>1
    <3> QED BY <1>1, <3>2
  <2>2. Return(b)
    BY <1>2 DEF Pivot
  <2> QED BY <2>1, <2>2, ReturnOrder
<1>3. CASE srt.u - srt.l # 2
  <2> DEFINE c == SwapOf(b, srt.i, srt.u - 1)
             i == srt.l + 1
             j == srt.u - 1
             p == b[srt.i]
  <2>1. srt.l + 3 <= srt.u /\ srt.i \in srt.l..srt.u /\ j \in srt.l..srt.u
    BY <1>0, <1>3
  <2>2. /\ Inner(size, c)
        /\ OrderedBut(size, Ranks, c, srt.stack, srt.l, srt.u)
        /\ \A m \in srt.l..srt.u : c[m] = IF m = j THEN b[srt.i] ELSE IF m = srt.i THEN b[j] ELSE b[m]
    <3> HIDE DEF j
    <3> SUFFICES /\ Inner(size, SwapOf(b, srt.i, j))
                 /\ OrderedBut(size, Ranks, SwapOf(b, srt.i, j), srt.stack, srt.l, srt.u)
                 /\ \A m \in srt.l..srt.u : SwapOf(b, srt.i, j)[m] =
                      IF m = j THEN b[srt.i] ELSE IF m = srt.i THEN b[j] ELSE b[m]
      BY DEF j
    <3> QED BY <2>1, ExchangeOrder
  <2>3. srt' = [srt EXCEPT !.a = c, !.p = p, !.i = i, !.j = j, !.pc = "up"]
    BY <1>3 DEF Pivot, Partition, SwapOf
  <2>4. c[srt.l] = b[srt.l] /\ c[srt.u] = b[srt.u] /\ c[j] = p
    BY <1>0, <2>1, <2>2
  <2> HIDE DEF c, p
  <2>5. Upto(Ranks, c, srt.l, j) /\ Upto(Ranks, c, j, srt.u)
    BY <2>4 DEF Upto, p
  <2>6. \A k \in srt.l..i - 1 : Upto(Ranks, c, k, j)
    BY <1>0, <2>5
  <2>7. \A k \in j..srt.u : Upto(Ranks, c, j, k)
    <3>1. Upto(Ranks, c, j, j)
      <4>1. j \in 1..size
        BY <1>0, <2>1
      <4>2. Ranks[c[j]] \in Int
        BY <2>2, <4>1, Ranked
      <4> QED BY <4>2 DEF Upto
    <3>2. \A k \in j..srt.u : k = j \/ k = srt.u
      BY <1>0
    <3> QED BY <2>5, <3>1, <3>2
  <2>8. i <= srt.u - 1
    BY <1>0, <2>1
  <2> HIDE DEF i, j
  <2>9. /\ srt'.call = srt.call /\ srt'.a = c /\ srt'.l = srt.l /\ srt'.u = srt.u /\ srt'.i = i /\ srt'.j = j
        /\ srt'.p = p /\ srt'.stack = srt.stack /\ srt'.pc = "up" /\ srt'.status = "run"
    BY <2>3 DEF SafeInv, TypeInv
  <2>10. size' = size /\ Ranks' = Ranks /\ arr' = c /\ srt'.u - 1 = j
    BY <2>9 DEF size, Ranks, arr, j
  <2>11. Progress'
    BY <2>2, <2>4, <2>5, <2>6, <2>7, <2>8, <2>9, <2>10 DEF Progress, AtMost, j
  <2> QED BY <2>2, <2>9, <2>10, <2>11 DEF OrderInv
<1> QED BY <1>2, <1>3

LEMMA EndsOrder == ASSUME SafeInv, Consistent, OrderInv, SortEnds PROVE OrderInv'
<1>0. /\ size \in Nat /\ srt.l \in Int /\ srt.u \in Int /\ arr \in ArrayType(size)
      /\ 1 <= srt.l /\ srt.u <= size /\ srt.status = "run" /\ Inner(size, arr)
      /\ Separate(srt.stack, srt.l, srt.u) /\ OrderedBut(size, Ranks, arr, srt.stack, srt.l, srt.u)
  BY Facts DEF SafeInv, Bounds, SortEnds, AtLabel, OrderInv, Progress
<1>1. CASE srt.l >= srt.u
  <2>1. \A x, y \in srt.l..srt.u : x < y => Upto(Ranks, arr, x, y)
    BY <1>0, <1>1
  <2>2. Return(arr)
    BY <1>1 DEF SortEnds
  <2> QED BY <1>0, <2>1, <2>2, ReturnOrder
<1>2. CASE ~(srt.l >= srt.u)
  <2>1. PICK less \in sort_comp(arr[srt.u], arr[srt.l]) :
          LET b == IF less THEN Swap(srt.l, srt.u) ELSE arr
          IN IF srt.u - srt.l = 1 THEN Return(b)
             ELSE srt' = [srt EXCEPT !.a = b, !.i = (srt.l + srt.u) \div 2, !.pc = "low"]
    BY <1>2 DEF SortEnds
  <2> DEFINE b == IF less THEN Swap(srt.l, srt.u) ELSE arr
  <2>2. srt.l \in srt.l..srt.u /\ srt.u \in srt.l..srt.u /\ srt.l \in 1..size /\ srt.u \in 1..size /\ srt.l # srt.u
    BY <1>0, <1>2
  <2>3. Ranks[arr[srt.l]] \in Int /\ Ranks[arr[srt.u]] \in Int
    BY <1>0, <2>2, Ranked
  <2>4. /\ b \in ArrayType(size) /\ Inner(size, b)
        /\ OrderedBut(size, Ranks, b, srt.stack, srt.l, srt.u)
        /\ Upto(Ranks, b, srt.l, srt.u)
    <3>1. CASE less
      <4>1. b = SwapOf(arr, srt.l, srt.u)
        BY <3>1 DEF Swap, SwapOf
      <4>2. /\ b \in ArrayType(size) /\ Inner(size, b)
            /\ OrderedBut(size, Ranks, b, srt.stack, srt.l, srt.u)
            /\ b[srt.l] = arr[srt.u] /\ b[srt.u] = arr[srt.l]
        BY <1>0, <2>2, <4>1, ExchangeOrder
      <4>3. Ranks[arr[srt.u]] < Ranks[arr[srt.l]]
        BY <2>3, <3>1, Compare
      <4> HIDE DEF b
      <4> QED BY <2>3, <4>2, <4>3 DEF Upto
    <3>2. CASE ~less
      <4>1. Ranks[arr[srt.l]] <= Ranks[arr[srt.u]]
        BY <2>3, <3>2, Compare
      <4> QED BY <1>0, <3>2, <4>1 DEF Upto
    <3> QED BY <3>1, <3>2
  <2>5. CASE srt.u - srt.l = 1
    <3>1. Return(b)
      BY <2>1, <2>5
    <3> HIDE DEF b
    <3>2. \A x, y \in srt.l..srt.u : x < y => x = srt.l /\ y = srt.u
      BY <1>0, <2>5
    <3> QED BY <1>0, <2>4, <3>1, <3>2, ReturnOrder
  <2>6. CASE srt.u - srt.l # 1
    <3> DEFINE m == (srt.l + srt.u) \div 2
    <3>1. srt' = [srt EXCEPT !.a = b, !.i = m, !.pc = "low"]
      BY <2>1, <2>6
    <3> HIDE DEF m, b
    <3>2. /\ srt'.call = srt.call /\ srt'.a = b /\ srt'.l = srt.l /\ srt'.u = srt.u
          /\ srt'.stack = srt.stack /\ srt'.pc = "low" /\ srt'.status = "run"
      BY <1>0, <3>1 DEF SafeInv, TypeInv
    <3>3. size' = size /\ Ranks' = Ranks /\ arr' = b
      BY <3>2 DEF size, Ranks, arr
    <3>4. Progress'
      BY <1>0, <2>4, <3>2, <3>3 DEF Progress, AtMost
    <3> QED BY <2>4, <3>2, <3>3, <3>4 DEF OrderInv
  <2> QED BY <2>5, <2>6
<1> QED BY <1>1, <1>2

LEMMA LowOrder == ASSUME SafeInv, Consistent, OrderInv, SortLow PROVE OrderInv'
<1>0. /\ size \in Nat /\ srt.l \in Int /\ srt.u \in Int /\ srt.i \in Int /\ arr \in ArrayType(size)
      /\ 1 <= srt.l /\ srt.u <= size /\ srt.l + 1 <= srt.i /\ srt.i <= srt.u - 1
      /\ srt.pc = "low" /\ srt.status = "run" /\ Inner(size, arr)
      /\ Separate(srt.stack, srt.l, srt.u) /\ OrderedBut(size, Ranks, arr, srt.stack, srt.l, srt.u)
      /\ Upto(Ranks, arr, srt.l, srt.u)
  BY Facts DEF SafeInv, Bounds, SortLow, AtLabel, OrderInv, Progress, AtMost
<1>1. PICK less \in sort_comp(arr[srt.i], arr[srt.l]) :
        IF less THEN Pivot(Swap(srt.i, srt.l)) ELSE srt' = [srt EXCEPT !.pc = "high"]
  BY DEF SortLow
<1>2. /\ srt.l \in srt.l..srt.u /\ srt.i \in srt.l..srt.u /\ srt.u \in srt.l..srt.u
      /\ srt.l \in 1..size /\ srt.i \in 1..size /\ srt.u \in 1..size /\ srt.l # srt.i /\ srt.i # srt.u /\ srt.l # srt.u
  BY <1>0
<1>3. Ranks[arr[srt.l]] \in Int /\ Ranks[arr[srt.i]] \in Int /\ Ranks[arr[srt.u]] \in Int
  BY <1>0, <1>2, Ranked
<1>4. CASE less
  <2> DEFINE b == SwapOf(arr, srt.i, srt.l)
  <2>1. Pivot(b)
    BY <1>1, <1>4 DEF Swap, SwapOf
  <2>2. /\ b \in ArrayType(size) /\ Inner(size, b)
        /\ OrderedBut(size, Ranks, b, srt.stack, srt.l, srt.u)
        /\ b[srt.l] = arr[srt.i] /\ b[srt.i] = arr[srt.l] /\ b[srt.u] = arr[srt.u]
    <3>0. /\ srt.i \in srt.l..srt.u /\ srt.l \in srt.l..srt.u /\ arr \in ArrayType(size) /\ Inner(size, arr)
          /\ Separate(srt.stack, srt.l, srt.u) /\ OrderedBut(size, Ranks, arr, srt.stack, srt.l, srt.u)
      BY <1>0, <1>2
    <3>1. b \in ArrayType(size)
      BY <3>0, ExchangeOrder
    <3>2. Inner(size, b)
      BY <3>0, ExchangeOrder
    <3>3. OrderedBut(size, Ranks, b, srt.stack, srt.l, srt.u)
      BY <3>0, ExchangeOrder
    <3>4. DOMAIN arr = 0..size + 1 /\ \A m \in 1..size : m \in 0..size + 1
      BY <1>0 DEF ArrayType
    <3>5. b[srt.l] = arr[srt.i] /\ b[srt.i] = arr[srt.l] /\ b[srt.u] = arr[srt.u]
      BY <1>2, <3>4 DEF SwapOf
    <3> QED BY <3>1, <3>2, <3>3, <3>5
  <2>3. Ranks[arr[srt.i]] < Ranks[arr[srt.l]]
    BY <1>3, <1>4, Compare
  <2> HIDE DEF b
  <2>4. Upto(Ranks, b, srt.l, srt.i) /\ Upto(Ranks, b, srt.i, srt.u)
    BY <1>0, <1>3, <2>2, <2>3 DEF Upto
  <2> QED BY <1>0, <2>1, <2>2, <2>4, PivotOrder
<1>5. CASE ~less
  <2>1. srt' = [srt EXCEPT !.pc = "high"]
    BY <1>1, <1>5
  <2>2. /\ srt'.call = srt.call /\ srt'.a = srt.a /\ srt'.l = srt.l /\ srt'.u = srt.u /\ srt'.i = srt.i
        /\ srt'.stack = srt.stack /\ srt'.pc = "high" /\ srt'.status = "run"
    BY <1>0, <2>1 DEF SafeInv, TypeInv
  <2>3. size' = size /\ Ranks' = Ranks /\ arr' = arr
    BY <2>2 DEF size, Ranks, arr
  <2>4. Upto(Ranks, arr, srt.l, srt.i)
    BY <1>3, <1>5, Compare DEF Upto
  <2>5. Progress'
    BY <1>0, <2>2, <2>3, <2>4 DEF Progress, AtMost
  <2> QED BY <1>0, <2>2, <2>3, <2>5 DEF OrderInv
<1> QED BY <1>4, <1>5

LEMMA HighOrder == ASSUME SafeInv, Consistent, OrderInv, SortHigh PROVE OrderInv'
<1>0. /\ size \in Nat /\ srt.l \in Int /\ srt.u \in Int /\ srt.i \in Int /\ arr \in ArrayType(size)
      /\ 1 <= srt.l /\ srt.u <= size /\ srt.l + 1 <= srt.i /\ srt.i <= srt.u - 1
      /\ srt.pc = "high" /\ srt.status = "run" /\ Inner(size, arr)
      /\ Separate(srt.stack, srt.l, srt.u) /\ OrderedBut(size, Ranks, arr, srt.stack, srt.l, srt.u)
      /\ Upto(Ranks, arr, srt.l, srt.u) /\ Upto(Ranks, arr, srt.l, srt.i)
  BY Facts DEF SafeInv, Bounds, SortHigh, AtLabel, OrderInv, Progress, AtMost
<1>1. PICK less \in sort_comp(arr[srt.u], arr[srt.i]) : Pivot(IF less THEN Swap(srt.i, srt.u) ELSE arr)
  BY DEF SortHigh
<1>2. /\ srt.l \in srt.l..srt.u /\ srt.i \in srt.l..srt.u /\ srt.u \in srt.l..srt.u
      /\ srt.l \in 1..size /\ srt.i \in 1..size /\ srt.u \in 1..size /\ srt.l # srt.i /\ srt.i # srt.u /\ srt.l # srt.u
  BY <1>0
<1>3. Ranks[arr[srt.i]] \in Int /\ Ranks[arr[srt.u]] \in Int
  BY <1>0, <1>2, Ranked
<1>4. CASE less
  <2> DEFINE b == SwapOf(arr, srt.i, srt.u)
  <2>1. Pivot(b)
    BY <1>1, <1>4 DEF Swap, SwapOf
  <2>2. /\ b \in ArrayType(size) /\ Inner(size, b)
        /\ OrderedBut(size, Ranks, b, srt.stack, srt.l, srt.u)
        /\ b[srt.l] = arr[srt.l] /\ b[srt.i] = arr[srt.u] /\ b[srt.u] = arr[srt.i]
    <3>0. /\ srt.i \in srt.l..srt.u /\ srt.u \in srt.l..srt.u /\ arr \in ArrayType(size) /\ Inner(size, arr)
          /\ Separate(srt.stack, srt.l, srt.u) /\ OrderedBut(size, Ranks, arr, srt.stack, srt.l, srt.u)
      BY <1>0, <1>2
    <3>1. b \in ArrayType(size)
      BY <3>0, ExchangeOrder
    <3>2. Inner(size, b)
      BY <3>0, ExchangeOrder
    <3>3. OrderedBut(size, Ranks, b, srt.stack, srt.l, srt.u)
      BY <3>0, ExchangeOrder
    <3>4. DOMAIN arr = 0..size + 1 /\ \A m \in 1..size : m \in 0..size + 1
      BY <1>0 DEF ArrayType
    <3>5. b[srt.l] = arr[srt.l] /\ b[srt.i] = arr[srt.u] /\ b[srt.u] = arr[srt.i]
      BY <1>2, <3>4 DEF SwapOf
    <3> QED BY <3>1, <3>2, <3>3, <3>5
  <2>3. Ranks[arr[srt.u]] < Ranks[arr[srt.i]]
    BY <1>3, <1>4, Compare
  <2> HIDE DEF b
  <2>4. Upto(Ranks, b, srt.l, srt.i) /\ Upto(Ranks, b, srt.i, srt.u)
    BY <1>0, <1>3, <2>2, <2>3 DEF Upto
  <2> QED BY <1>0, <2>1, <2>2, <2>4, PivotOrder
<1>5. CASE ~less
  <2>1. Pivot(arr)
    BY <1>1, <1>5
  <2>2. Upto(Ranks, arr, srt.i, srt.u)
    BY <1>3, <1>5, Compare DEF Upto
  <2> QED BY <1>0, <2>1, <2>2, PivotOrder
<1> QED BY <1>4, <1>5

(* What holds while the pointers move; the pivot p waits at position w. *)
LEMMA Partitioning ==
  ASSUME SafeInv, Consistent, OrderInv, srt.status = "run", srt.pc \in {"up", "down"}, NEW w, w = srt.u - 1
  PROVE  /\ size \in Nat /\ srt.l \in Int /\ srt.u \in Int /\ srt.i \in Int /\ srt.j \in Int /\ w \in 1..size
         /\ arr \in ArrayType(size) /\ srt.stack \in Stack
         /\ 1 <= srt.l /\ srt.u <= size /\ srt.l + 3 <= srt.u /\ srt.l + 1 <= srt.i /\ srt.i <= w /\ srt.j <= w
         /\ Inner(size, arr) /\ Separate(srt.stack, srt.l, srt.u)
         /\ OrderedBut(size, Ranks, arr, srt.stack, srt.l, srt.u)
         /\ srt.p = arr[w] /\ AtMost(srt.l, w) /\ AtMost(w, srt.u)
         /\ \A k \in srt.l..srt.i - 1 : AtMost(k, w)
<1>1. /\ size \in Nat /\ srt.l \in Int /\ srt.u \in Int /\ srt.i \in Int /\ srt.j \in Int
      /\ arr \in ArrayType(size) /\ srt.stack \in Stack
  BY Facts
<1>2. /\ 1 <= srt.l /\ srt.u <= size /\ srt.l + 3 <= srt.u /\ srt.l + 1 <= srt.i /\ srt.i <= w /\ srt.j <= w
      /\ w \in 1..size
  BY <1>1 DEF SafeInv, Bounds, OrderInv, Progress
<1> QED BY <1>1, <1>2 DEF OrderInv, Progress

LEMMA UpOrder == ASSUME SafeInv, Consistent, OrderInv, SortUp PROVE OrderInv'
<1> DEFINE w == srt.u - 1
<1>0. srt.status = "run" /\ srt.pc = "up" /\ w = srt.u - 1
  BY DEF SortUp, AtLabel
<1> HIDE DEF w
<1>1. /\ size \in Nat /\ srt.l \in Int /\ srt.u \in Int /\ srt.i \in Int /\ srt.j \in Int /\ w \in 1..size
      /\ arr \in ArrayType(size) /\ 1 <= srt.l /\ srt.u <= size /\ srt.l + 3 <= srt.u
      /\ srt.l + 1 <= srt.i /\ srt.i <= w
      /\ Inner(size, arr) /\ Separate(srt.stack, srt.l, srt.u)
      /\ OrderedBut(size, Ranks, arr, srt.stack, srt.l, srt.u)
      /\ srt.p = arr[w] /\ Upto(Ranks, arr, srt.l, w) /\ Upto(Ranks, arr, w, srt.u)
      /\ \A k \in srt.l..srt.i - 1 : Upto(Ranks, arr, k, w)
  BY <1>0, Partitioning DEF AtMost
<1>2. srt.l + 1 <= srt.j /\ \A k \in srt.j..srt.u : Upto(Ranks, arr, w, k)
  BY <1>0 DEF SafeInv, Bounds, OrderInv, Progress, AtMost
<1>3. PICK less \in sort_comp(arr[srt.i], srt.p) :
        IF ~less THEN srt' = [srt EXCEPT !.j = srt.j - 1, !.pc = "down"]
        ELSE IF srt.i > srt.u THEN InvalidOrder
        ELSE srt' = [srt EXCEPT !.i = srt.i + 1]
  BY DEF SortUp
<1>4. srt.i \in 1..size
  BY <1>1
<1>5. Ranks[arr[srt.i]] \in Int /\ Ranks[arr[w]] \in Int
  BY <1>1, <1>4, Ranked
<1>6. CASE ~less
  <2> DEFINE j == srt.j - 1
  <2>1. srt' = [srt EXCEPT !.j = j, !.pc = "down"]
    BY <1>3, <1>6
  <2>2. srt.l <= j /\ \A k \in j + 1..srt.u : Upto(Ranks, arr, w, k)
    BY <1>1, <1>2
  <2>3. Upto(Ranks, arr, w, srt.i)
    BY <1>1, <1>5, <1>6, Compare DEF Upto
  <2> HIDE DEF j
  <2>4. /\ srt'.call = srt.call /\ srt'.a = srt.a /\ srt'.l = srt.l /\ srt'.u = srt.u /\ srt'.i = srt.i
        /\ srt'.j = j /\ srt'.p = srt.p /\ srt'.stack = srt.stack /\ srt'.pc = "down" /\ srt'.status = "run"
    BY <1>0, <2>1 DEF SafeInv, TypeInv
  <2>5. size' = size /\ Ranks' = Ranks /\ arr' = arr /\ srt'.u - 1 = w
    BY <1>0, <2>4 DEF size, Ranks, arr
  <2>6. Progress'
    BY <1>1, <2>2, <2>3, <2>4, <2>5 DEF Progress, AtMost
  <2> QED BY <1>1, <2>4, <2>5, <2>6 DEF OrderInv
<1>7. CASE less
  <2> DEFINE i == srt.i + 1
  <2>1. Ranks[arr[srt.i]] < Ranks[arr[w]]
    BY <1>1, <1>5, <1>7, Compare
  <2>2. srt.i # w /\ ~(srt.i > srt.u)
    BY <1>0, <1>1, <1>5, <2>1
  <2>3. srt' = [srt EXCEPT !.i = i]
    BY <1>3, <1>7, <2>2
  <2>4. i <= w /\ \A k \in srt.l..i - 1 : Upto(Ranks, arr, k, w)
    <3>1. Upto(Ranks, arr, srt.i, w)
      BY <1>5, <2>1 DEF Upto
    <3>2. i <= w /\ \A k \in srt.l..i - 1 : k = srt.i \/ k \in srt.l..srt.i - 1
      BY <1>1, <2>2
    <3> QED BY <1>1, <3>1, <3>2
  <2> HIDE DEF i
  <2>5. /\ srt'.call = srt.call /\ srt'.a = srt.a /\ srt'.l = srt.l /\ srt'.u = srt.u /\ srt'.i = i
        /\ srt'.j = srt.j /\ srt'.p = srt.p /\ srt'.stack = srt.stack /\ srt'.pc = "up" /\ srt'.status = "run"
    BY <1>0, <2>3 DEF SafeInv, TypeInv
  <2>6. size' = size /\ Ranks' = Ranks /\ arr' = arr /\ srt'.u - 1 = w
    BY <1>0, <2>5 DEF size, Ranks, arr
  <2>7. Progress'
    BY <1>1, <1>2, <2>4, <2>5, <2>6 DEF Progress, AtMost
  <2> QED BY <1>1, <2>5, <2>6, <2>7 DEF OrderInv
<1> QED BY <1>6, <1>7

LEMMA DownOrder == ASSUME SafeInv, Consistent, OrderInv, SortDown PROVE OrderInv'
<1> DEFINE w == srt.u - 1
<1>0. srt.status = "run" /\ srt.pc = "down" /\ w = srt.u - 1
  BY DEF SortDown, AtLabel
<1> HIDE DEF w
<1>1. /\ size \in Nat /\ srt.l \in Int /\ srt.u \in Int /\ srt.i \in Int /\ srt.j \in Int /\ w \in 1..size
      /\ arr \in ArrayType(size) /\ srt.stack \in Stack
      /\ 1 <= srt.l /\ srt.u <= size /\ srt.l + 3 <= srt.u /\ srt.l + 1 <= srt.i /\ srt.i <= w
      /\ Inner(size, arr) /\ Separate(srt.stack, srt.l, srt.u)
      /\ OrderedBut(size, Ranks, arr, srt.stack, srt.l, srt.u)
      /\ srt.p = arr[w] /\ Upto(Ranks, arr, srt.l, w) /\ Upto(Ranks, arr, w, srt.u)
      /\ \A k \in srt.l..srt.i - 1 : Upto(Ranks, arr, k, w)
  BY <1>0, Partitioning DEF AtMost
<1>2. /\ srt.l <= srt.j /\ srt.j <= w - 1
      /\ Upto(Ranks, arr, w, srt.i)
      /\ \A k \in srt.j + 1..srt.u : Upto(Ranks, arr, w, k)
  <2>1. srt.l <= srt.j /\ srt.j <= w - 1
    BY <1>0, <1>1 DEF SafeInv, Bounds, OrderInv, Progress
  <2> QED BY <1>0, <2>1 DEF OrderInv, Progress, AtMost
<1>3. PICK less \in sort_comp(srt.p, arr[srt.j]) :
        IF less THEN IF srt.j < srt.l THEN InvalidOrder ELSE srt' = [srt EXCEPT !.j = srt.j - 1]
        ELSE IF srt.j >= srt.i THEN srt' = [srt EXCEPT !.a = Swap(srt.i, srt.j), !.i = srt.i + 1, !.pc = "up"]
        ELSE srt' = [srt EXCEPT !.a = Swap(srt.u - 1, srt.i), !.l = Smaller(srt.i).l, !.u = Smaller(srt.i).u,
                                !.stack = Append(srt.stack, Larger(srt.i)), !.pc = "ends"]
  BY DEF SortDown
<1>4. /\ srt.i \in 1..size /\ srt.j \in 1..size /\ srt.l \in 1..size
      /\ srt.i \in srt.l..srt.u /\ srt.j \in srt.l..srt.u /\ w \in srt.l..srt.u
  BY <1>0, <1>1, <1>2
<1>5. Ranks[arr[srt.i]] \in Int /\ Ranks[arr[srt.j]] \in Int /\ Ranks[arr[w]] \in Int /\ Ranks[arr[srt.l]] \in Int
  BY <1>1, <1>4, Ranked
<1>6. CASE less
  <2> DEFINE j == srt.j - 1
  <2>1. Ranks[arr[w]] < Ranks[arr[srt.j]]
    BY <1>1, <1>5, <1>6, Compare
  <2>2. srt.j # srt.l
    BY <1>1, <1>5, <2>1 DEF Upto
  <2>3. srt' = [srt EXCEPT !.j = j]
    BY <1>1, <1>2, <1>3, <1>6
  <2>4. srt.l <= j /\ \A k \in j + 1..srt.u : Upto(Ranks, arr, w, k)
    <3>1. Upto(Ranks, arr, w, srt.j)
      BY <1>5, <2>1 DEF Upto
    <3>2. srt.l <= j /\ \A k \in j + 1..srt.u : k = srt.j \/ k \in srt.j + 1..srt.u
      BY <1>1, <1>2, <2>2
    <3> QED BY <1>2, <3>1, <3>2
  <2> HIDE DEF j
  <2>5. /\ srt'.call = srt.call /\ srt'.a = srt.a /\ srt'.l = srt.l /\ srt'.u = srt.u /\ srt'.i = srt.i
        /\ srt'.j = j /\ srt'.p = srt.p /\ srt'.stack = srt.stack /\ srt'.pc = "down" /\ srt'.status = "run"
    BY <1>0, <2>3 DEF SafeInv, TypeInv
  <2>6. size' = size /\ Ranks' = Ranks /\ arr' = arr /\ srt'.u - 1 = w
    BY <1>0, <2>5 DEF size, Ranks, arr
  <2>7. Progress'
    BY <1>1, <1>2, <2>4, <2>5, <2>6 DEF Progress, AtMost
  <2> QED BY <1>1, <2>5, <2>6, <2>7 DEF OrderInv
<1>7. CASE ~less /\ srt.j >= srt.i
  <2> DEFINE b == SwapOf(arr, srt.i, srt.j)
             i == srt.i + 1
  <2>1. srt' = [srt EXCEPT !.a = b, !.i = i, !.pc = "up"]
    BY <1>3, <1>7 DEF Swap, SwapOf
  <2>2. Inner(size, b)
    BY <1>1, <1>4, ExchangeOrder
  <2>3. OrderedBut(size, Ranks, b, srt.stack, srt.l, srt.u)
    BY <1>1, <1>4, ExchangeOrder
  <2>4. \A m \in 1..size : b[m] = IF m = srt.j THEN arr[srt.i] ELSE IF m = srt.i THEN arr[srt.j] ELSE arr[m]
    <3>1. DOMAIN arr = 0..size + 1 /\ \A m \in 1..size : m \in 0..size + 1
      BY <1>1 DEF ArrayType
    <3> QED BY <1>4, <3>1 DEF SwapOf
  <2> HIDE DEF b
  <2>5. b[w] = arr[w] /\ b[srt.u] = arr[srt.u] /\ b[srt.l] = arr[srt.l]
        /\ b[srt.i] = arr[srt.j] /\ b[srt.j] = arr[srt.i]
    BY <1>0, <1>1, <1>2, <1>4, <1>7, <2>4
  <2>6. Upto(Ranks, b, srt.l, w) /\ Upto(Ranks, b, w, srt.u)
    BY <1>1, <2>5 DEF Upto
  <2>7. i <= w /\ \A k \in srt.l..i - 1 : Upto(Ranks, b, k, w)
    <3>1. Upto(Ranks, b, srt.i, w)
      BY <1>1, <1>5, <1>7, <2>5, Compare DEF Upto
    <3>2. i <= w /\ \A k \in srt.l..i - 1 :
            k = srt.i \/ (k \in srt.l..srt.i - 1 /\ k \in 1..size /\ k # srt.i /\ k # srt.j)
      BY <1>1, <1>2, <1>7
    <3>3. \A k \in srt.l..srt.i - 1 : k \in 1..size /\ k # srt.i /\ k # srt.j => Upto(Ranks, b, k, w)
      BY <1>1, <2>4, <2>5 DEF Upto
    <3> QED BY <3>1, <3>2, <3>3
  <2>8. \A k \in srt.j..srt.u : Upto(Ranks, b, w, k)
    <3>1. Upto(Ranks, b, w, srt.j)
      BY <1>2, <2>5 DEF Upto
    <3>2. \A k \in srt.j..srt.u :
            k = srt.j \/ (k \in srt.j + 1..srt.u /\ k \in 1..size /\ k # srt.i /\ k # srt.j)
      BY <1>1, <1>2, <1>7
    <3>3. \A k \in srt.j + 1..srt.u : k \in 1..size /\ k # srt.i /\ k # srt.j => Upto(Ranks, b, w, k)
      BY <1>2, <2>4, <2>5 DEF Upto
    <3> QED BY <3>1, <3>2, <3>3
  <2> HIDE DEF i
  <2>9. /\ srt'.call = srt.call /\ srt'.a = b /\ srt'.l = srt.l /\ srt'.u = srt.u /\ srt'.i = i
        /\ srt'.j = srt.j /\ srt'.p = srt.p /\ srt'.stack = srt.stack /\ srt'.pc = "up" /\ srt'.status = "run"
    BY <1>0, <2>1 DEF SafeInv, TypeInv
  <2>10. size' = size /\ Ranks' = Ranks /\ arr' = b /\ srt'.u - 1 = w
    BY <1>0, <2>9 DEF size, Ranks, arr
  <2>11. Progress'
    BY <1>1, <2>3, <2>5, <2>6, <2>7, <2>8, <2>9, <2>10 DEF Progress, AtMost
  <2> QED BY <2>2, <2>9, <2>10, <2>11 DEF OrderInv
<1>8. CASE ~less /\ ~(srt.j >= srt.i)
  <2> DEFINE b == SwapOf(arr, w, srt.i)
             s == Smaller(srt.i)
             q == Larger(srt.i)
             more == Append(srt.stack, q)
  <2>1. srt' = [srt EXCEPT !.a = b, !.l = s.l, !.u = s.u, !.stack = more, !.pc = "ends"]
    BY <1>0, <1>3, <1>8 DEF Swap, SwapOf
  <2>2. b \in ArrayType(size)
    BY <1>1, <1>4, ExchangeOrder
  <2>3. Inner(size, b)
    BY <1>1, <1>4, ExchangeOrder
  <2>4. OrderedBut(size, Ranks, b, srt.stack, srt.l, srt.u)
    BY <1>1, <1>4, ExchangeOrder
  <2>5. \A m \in 1..size : b[m] = IF m = srt.i THEN arr[w] ELSE IF m = w THEN arr[srt.i] ELSE arr[m]
    <3>1. DOMAIN arr = 0..size + 1 /\ \A m \in 1..size : m \in 0..size + 1
      BY <1>1 DEF ArrayType
    <3> QED BY <1>1, <1>4, <3>1 DEF SwapOf
  <2> HIDE DEF b
  <2>6. \A k \in srt.l..srt.i - 1 : Upto(Ranks, b, k, srt.i)
    <3>1. b[srt.i] = arr[w] /\ \A k \in srt.l..srt.i - 1 : b[k] = arr[k]
      BY <1>1, <1>4, <2>5
    <3> QED BY <1>1, <3>1 DEF Upto
  <2>7. \A k \in srt.i + 1..srt.u : Upto(Ranks, b, srt.i, k)
    <3>1. b[srt.i] = arr[w] /\ \A k \in srt.i + 1..srt.u : b[k] = IF k = w THEN arr[srt.i] ELSE arr[k]
      BY <1>1, <1>4, <2>5
    <3>2. \A k \in srt.i + 1..srt.u : k \in srt.j + 1..srt.u
      BY <1>1, <1>2, <1>8
    <3> QED BY <1>2, <3>1, <3>2 DEF Upto
  <2>8. /\ s \in [l : Int, u : Int] /\ q \in [l : Int, u : Int]
        /\ \/ s = [l |-> srt.l, u |-> srt.i - 1] /\ q = [l |-> srt.i + 1, u |-> srt.u]
           \/ q = [l |-> srt.l, u |-> srt.i - 1] /\ s = [l |-> srt.i + 1, u |-> srt.u]
    <3>1. \/ s = [l |-> srt.l, u |-> srt.i - 1] /\ q = [l |-> srt.i + 1, u |-> srt.u]
          \/ q = [l |-> srt.l, u |-> srt.i - 1] /\ s = [l |-> srt.i + 1, u |-> srt.u]
      BY <1>1 DEF Smaller, Larger
    <3> HIDE DEF s, q
    <3> QED BY <1>1, <3>1
  <2> HIDE DEF s, q
  <2>9. Separate(more, s.l, s.u) /\ OrderedBut(size, Ranks, b, more, s.l, s.u)
    <3>1. Ranks \in [1..size -> Int]
      BY Facts
    <3> QED BY <1>1, <1>4, <2>2, <2>3, <2>4, <2>6, <2>7, <2>8, <3>1, SplitOrdered
  <2> HIDE DEF more
  <2>10. /\ srt'.call = srt.call /\ srt'.a = b /\ srt'.l = s.l /\ srt'.u = s.u
         /\ srt'.stack = more /\ srt'.pc = "ends" /\ srt'.status = "run"
    BY <1>0, <2>1 DEF SafeInv, TypeInv
  <2>11. size' = size /\ Ranks' = Ranks /\ arr' = b
    BY <2>10 DEF size, Ranks, arr
  <2> QED BY <2>3, <2>9, <2>10, <2>11 DEF OrderInv, Progress
<1> QED BY <1>6, <1>7, <1>8

LEMMA InvStep == Inv /\ [SortNext]_srt => Inv'
<1> SUFFICES ASSUME Inv, [SortNext]_srt PROVE Inv'
  OBVIOUS
<1>1. SafeInv'
  BY SafeStep DEF Inv
<1>2. CASE UNCHANGED srt
  BY <1>1, <1>2 DEF Inv, OrderInv, Progress, AtMost, Consistent, Ranks, size, arr
<1>3. CASE SortNext
  <2>1. Consistent' <=> Consistent
    BY <1>3, CallKept DEF Inv, Consistent
  <2>2. Consistent => OrderInv'
    BY <1>3, EndsOrder, LowOrder, HighOrder, UpOrder, DownOrder DEF Inv, SortNext
  <2> QED BY <1>1, <2>1, <2>2 DEF Inv
<1> QED BY <1>2, <1>3

(* table.sort with a function that is an order sorts: when auxsort is      *)
(* through, no element is less than one before it, for an array of any     *)
(* length, any ranks and any duplicates among them.                        *)
THEOREM SortCorrect == SortSpec => []Sorted
<1>1. Inv => Sorted
  <2> SUFFICES ASSUME Inv, srt.status = "done", Consistent, NEW x \in 1..size, NEW y \in x + 1..size
               PROVE  rank(arr[x]) <= rank(arr[y])
    BY DEF Sorted
  <2>1. size \in Nat
    BY Facts DEF Inv
  <2>2. y \in 1..size /\ x < y
    BY <2>1
  <2>3. Upto(Ranks, arr, x, y)
    BY <2>2 DEF Inv, OrderInv, AllBelow
  <2> QED BY <2>3 DEF Upto, Ranks, rank
<1> QED BY <1>1, InitialOrder, InvStep, PTL DEF SortSpec

------------------------------------------------------------------------------
(* A part of k elements may be at depth d of the recursion. *)
Allowed(k, d, n) == k * 2 ^ d <= n

LEMMA AllowedLess ==
  ASSUME NEW n \in Nat, NEW d \in Nat, NEW m \in Int, NEW k \in Int, k <= m, Allowed(m, d, n)
  PROVE  Allowed(k, d, n)
<1> DEFINE p == 2 ^ d
<1>1. p \in Nat /\ m * p <= n
  BY PowerIsNat DEF Allowed
<1> HIDE DEF p
<1>2. k * p <= m * p
  BY <1>1
<1>3. k * p <= n
  BY <1>1, <1>2
<1> QED BY <1>3 DEF Allowed, p

LEMMA AllowedHalf ==
  ASSUME NEW n \in Nat, NEW d \in Nat, NEW m \in Int, NEW k \in Int, k + k <= m, Allowed(m, d, n)
  PROVE  Allowed(k, d + 1, n)
<1> DEFINE p == 2 ^ d
<1>1. p \in Nat /\ m * p <= n /\ 2 ^ (d + 1) = p + p
  BY PowerIsNat, PowerDoubles DEF Allowed
<1> HIDE DEF p
<1>2. (k + k) * p <= m * p
  BY <1>1
<1>3. k * (p + p) = (k + k) * p
  BY <1>1
<1>4. k * (p + p) <= n
  BY <1>1, <1>2, <1>3
<1> QED BY <1>1, <1>4 DEF Allowed

(* The current part and those that wait, each as small as its depth says. *)
Depths ==
  /\ srt.status = "done" => srt.pc \notin {"up", "down"}
  /\ Allowed(srt.u - srt.l + 1, Len(srt.stack), size)
  /\ \A d \in DOMAIN srt.stack : Allowed(srt.stack[d].u - srt.stack[d].l + 1, d - 1, size)

(* What a step may do to the parts: nothing, drop the current one, split it. *)
Dropped ==
  /\ srt.stack # <<>>
  /\ srt'.l = srt.stack[Len(srt.stack)].l /\ srt'.u = srt.stack[Len(srt.stack)].u
  /\ srt'.stack = SubSeq(srt.stack, 1, Len(srt.stack) - 1)
Split ==
  /\ srt.l + 1 <= srt.i /\ srt.i <= srt.u + 1
  /\ srt'.l = Smaller(srt.i).l /\ srt'.u = Smaller(srt.i).u
  /\ srt'.stack = Append(srt.stack, Larger(srt.i))

LEMMA PartsStep ==
  ASSUME SafeInv, SortNext
  PROVE  /\ srt'.call = srt.call /\ (srt'.status = "done" => srt'.pc \notin {"up", "down"})
         /\ \/ srt'.l = srt.l /\ srt'.u = srt.u /\ srt'.stack = srt.stack
            \/ Dropped
            \/ Split
<1> DEFINE Parts == /\ srt'.call = srt.call /\ (srt'.status = "done" => srt'.pc \notin {"up", "down"})
                    /\ \/ srt'.l = srt.l /\ srt'.u = srt.u /\ srt'.stack = srt.stack
                       \/ Dropped
                       \/ Split
<1> DEFINE Compared == srt.pc \notin {"up", "down"}
<1>7. srt.status = "run"
  BY DEF SortNext, SortEnds, SortLow, SortHigh, SortUp, SortDown, AtLabel
<1>0. \A b : Compared /\ Return(b) => Parts
  <2> SUFFICES ASSUME NEW b, Compared, Return(b) PROVE Parts
    OBVIOUS
  <2>1. CASE srt.stack = <<>>
    BY <1>7, <2>1 DEF Return, SafeInv, TypeInv
  <2>2. CASE srt.stack # <<>>
    BY <1>7, <2>2 DEF Return, SafeInv, TypeInv, Dropped
  <2> QED BY <2>1, <2>2
<1>1. \A b : Compared /\ Pivot(b) => Parts
  <2> SUFFICES ASSUME NEW b, Compared, Pivot(b) PROVE Parts
    OBVIOUS
  <2>1. CASE srt.u - srt.l = 2
    BY <1>0, <2>1 DEF Pivot
  <2>2. CASE srt.u - srt.l # 2
    BY <1>7, <2>2 DEF Pivot, Partition, SafeInv, TypeInv
  <2> QED BY <2>1, <2>2
<1>2. CASE SortEnds
  <2>1. \/ \E b : Return(b)
        \/ \E b, m : srt' = [srt EXCEPT !.a = b, !.i = m, !.pc = "low"]
    BY <1>2 DEF SortEnds
  <2>2. ASSUME NEW b, NEW m, srt' = [srt EXCEPT !.a = b, !.i = m, !.pc = "low"] PROVE Parts
    BY <1>7, <2>2 DEF SafeInv, TypeInv
  <2>3. Compared
    BY <1>2 DEF SortEnds, AtLabel
  <2> QED BY <1>0, <2>1, <2>2, <2>3
<1>3. CASE SortLow
  <2>1. (\E b : Pivot(b)) \/ srt' = [srt EXCEPT !.pc = "high"]
    BY <1>3 DEF SortLow
  <2>2. ASSUME srt' = [srt EXCEPT !.pc = "high"] PROVE Parts
    BY <1>7, <2>2 DEF SafeInv, TypeInv
  <2>3. Compared
    BY <1>3 DEF SortLow, AtLabel
  <2> QED BY <1>1, <2>1, <2>2, <2>3
<1>4. CASE SortHigh
  <2>1. \E b : Pivot(b)
    BY <1>4 DEF SortHigh
  <2>2. Compared
    BY <1>4 DEF SortHigh, AtLabel
  <2> QED BY <1>1, <2>1, <2>2
<1>5. CASE SortUp
  <2>1. \/ \E j : srt' = [srt EXCEPT !.j = j, !.pc = "down"]
        \/ srt' = [srt EXCEPT !.status = "error"]
        \/ \E i : srt' = [srt EXCEPT !.i = i]
    BY <1>5 DEF SortUp, InvalidOrder
  <2>2. ASSUME NEW j, srt' = [srt EXCEPT !.j = j, !.pc = "down"] PROVE Parts
    BY <1>7, <2>2 DEF SafeInv, TypeInv
  <2>3. ASSUME srt' = [srt EXCEPT !.status = "error"] PROVE Parts
    BY <1>7, <2>3 DEF SafeInv, TypeInv
  <2>4. ASSUME NEW i, srt' = [srt EXCEPT !.i = i] PROVE Parts
    BY <1>7, <2>4 DEF SafeInv, TypeInv
  <2> QED BY <2>1, <2>2, <2>3, <2>4
<1>6. CASE SortDown
  <2>1. \/ srt' = [srt EXCEPT !.status = "error"]
        \/ \E j : srt' = [srt EXCEPT !.j = j]
        \/ \E b, i : srt' = [srt EXCEPT !.a = b, !.i = i, !.pc = "up"]
        \/ \E b : srt' = [srt EXCEPT !.a = b, !.l = Smaller(srt.i).l, !.u = Smaller(srt.i).u,
                                     !.stack = Append(srt.stack, Larger(srt.i)), !.pc = "ends"]
    BY <1>6 DEF SortDown, InvalidOrder
  <2>2. ASSUME srt' = [srt EXCEPT !.status = "error"] PROVE Parts
    BY <1>7, <2>2 DEF SafeInv, TypeInv
  <2>3. ASSUME NEW j, srt' = [srt EXCEPT !.j = j] PROVE Parts
    BY <1>7, <2>3 DEF SafeInv, TypeInv
  <2>4. ASSUME NEW b, NEW i, srt' = [srt EXCEPT !.a = b, !.i = i, !.pc = "up"] PROVE Parts
    BY <1>7, <2>4 DEF SafeInv, TypeInv
  <2>5. ASSUME NEW b, srt' = [srt EXCEPT !.a = b, !.l = Smaller(srt.i).l, !.u = Smaller(srt.i).u,
                                         !.stack = Append(srt.stack, Larger(srt.i)), !.pc = "ends"]
        PROVE  Parts
    <3> DEFINE s == Smaller(srt.i)
               more == Append(srt.stack, Larger(srt.i))
    <3>1. srt' = [srt EXCEPT !.a = b, !.l = s.l, !.u = s.u, !.stack = more, !.pc = "ends"]
      BY <2>5
    <3> HIDE DEF s, more
    <3>2. srt'.call = srt.call /\ srt'.l = s.l /\ srt'.u = s.u /\ srt'.stack = more
         /\ srt'.status = "run"
      BY <1>7, <3>1 DEF SafeInv, TypeInv
    <3>3. srt.l + 1 <= srt.i /\ srt.i <= srt.u + 1
      BY <1>6 DEF SortDown, AtLabel, SafeInv, Bounds
    <3> QED BY <3>2, <3>3 DEF Split, s, more
  <2> QED BY <2>1, <2>2, <2>3, <2>4, <2>5
<1> QED BY <1>2, <1>3, <1>4, <1>5, <1>6 DEF SortNext

(* Of two parts of one, the smaller has at most half of its elements. *)
LEMMA SplitSizes ==
  ASSUME NEW l \in Int, NEW u \in Int, NEW i \in Int, l + 1 <= i, i <= u + 1,
         NEW s, NEW q,
         \/ i - l < u - i /\ s = [l |-> l, u |-> i - 1] /\ q = [l |-> i + 1, u |-> u]
         \/ ~(i - l < u - i) /\ q = [l |-> l, u |-> i - 1] /\ s = [l |-> i + 1, u |-> u]
  PROVE  /\ s \in [l : Int, u : Int] /\ q \in [l : Int, u : Int]
         /\ (s.u - s.l + 1) + (s.u - s.l + 1) <= u - l + 1
         /\ q.u - q.l + 1 <= u - l + 1
<1>1. \/ i - l < u - i /\ s.l = l /\ s.u = i - 1 /\ q.l = i + 1 /\ q.u = u
      \/ ~(i - l < u - i) /\ q.l = l /\ q.u = i - 1 /\ s.l = i + 1 /\ s.u = u
  OBVIOUS
<1>2. s \in [l : Int, u : Int] /\ q \in [l : Int, u : Int]
  OBVIOUS
<1> DEFINE a == s.l
           b == s.u
           c == q.l
           d == q.u
<1>3. \/ i - l < u - i /\ a = l /\ b = i - 1 /\ c = i + 1 /\ d = u
      \/ ~(i - l < u - i) /\ c = l /\ d = i - 1 /\ a = i + 1 /\ b = u
  BY <1>1
<1> HIDE DEF a, b, c, d
<1>4. (b - a + 1) + (b - a + 1) <= u - l + 1 /\ d - c + 1 <= u - l + 1
  BY <1>3
<1> QED BY <1>2, <1>4 DEF a, b, c, d

LEMMA DepthStep == ASSUME SafeInv, Depths, SortNext PROVE Depths'
<1>1. size' = size /\ size \in Nat
  BY PartsStep, Sizes DEF size, SafeInv
<1>6. srt'.status = "done" => srt'.pc \notin {"up", "down"}
  BY PartsStep
<1>2. /\ srt.l \in Int /\ srt.u \in Int /\ srt.i \in Int /\ srt.stack \in Stack
      /\ Len(srt.stack) \in Nat /\ DOMAIN srt.stack = 1..Len(srt.stack)
  BY LenProperties DEF SafeInv, TypeInv, Stack
<1>3. CASE srt'.l = srt.l /\ srt'.u = srt.u /\ srt'.stack = srt.stack
  BY <1>1, <1>3, <1>6 DEF Depths
<1>4. CASE Dropped
  <2> DEFINE rest == SubSeq(srt.stack, 1, Len(srt.stack) - 1)
             part == srt.stack[Len(srt.stack)]
  <2>1. /\ Len(srt.stack) \in DOMAIN srt.stack
        /\ rest \in Stack
        /\ DOMAIN rest = DOMAIN srt.stack \ {Len(srt.stack)}
        /\ \A d \in DOMAIN rest : rest[d] = srt.stack[d]
    BY <1>2, <1>4, Pop DEF Dropped
  <2>2. srt'.l = part.l /\ srt'.u = part.u /\ srt'.stack = rest
    BY <1>4 DEF Dropped
  <2>3. Allowed(part.u - part.l + 1, Len(srt.stack) - 1, size)
    BY <2>1 DEF Depths
  <2> HIDE DEF part, rest
  <2>4. Len(rest) = Len(srt.stack) - 1
    <3>1. Len(rest) \in Nat /\ DOMAIN rest = 1..Len(rest)
      BY <2>1, LenProperties DEF Stack
    <3> QED BY <1>2, <2>1, <3>1
  <2> QED BY <1>1, <1>6, <2>1, <2>2, <2>3, <2>4 DEF Depths
<1>5. CASE Split
  <2> DEFINE s == Smaller(srt.i)
             q == Larger(srt.i)
             more == Append(srt.stack, q)
  <2>1. /\ s \in [l : Int, u : Int] /\ q \in [l : Int, u : Int]
        /\ (s.u - s.l + 1) + (s.u - s.l + 1) <= srt.u - srt.l + 1
        /\ q.u - q.l + 1 <= srt.u - srt.l + 1
    <3>1. srt.l + 1 <= srt.i /\ srt.i <= srt.u + 1
      BY <1>5 DEF Split
    <3>2. CASE srt.i - srt.l < srt.u - srt.i
      <4>1. s = [l |-> srt.l, u |-> srt.i - 1] /\ q = [l |-> srt.i + 1, u |-> srt.u]
        BY <3>2 DEF Smaller, Larger
      <4> HIDE DEF s, q
      <4> QED BY <1>2, <3>1, <3>2, <4>1, SplitSizes
    <3>3. CASE ~(srt.i - srt.l < srt.u - srt.i)
      <4>1. s = [l |-> srt.i + 1, u |-> srt.u]
        BY <3>3 DEF Smaller
      <4>2. s.l # srt.l
        BY <1>2, <3>1, <4>1
      <4>3. q = [l |-> srt.l, u |-> srt.i - 1]
        BY <4>2 DEF Larger
      <4> HIDE DEF s, q
      <4> QED BY <1>2, <3>1, <3>3, <4>1, <4>3, SplitSizes
    <3> QED BY <3>2, <3>3
  <2>2. srt'.l = s.l /\ srt'.u = s.u /\ srt'.stack = more
    BY <1>5 DEF Split
  <2> HIDE DEF s, q
  <2>3. /\ more \in Stack
        /\ DOMAIN more = DOMAIN srt.stack \cup {Len(srt.stack) + 1}
        /\ \A d \in DOMAIN srt.stack : more[d] = srt.stack[d]
        /\ more[Len(srt.stack) + 1] = q
    BY <1>2, <2>1, Push
  <2>7. Len(more) = Len(srt.stack) + 1
    BY <1>2, <2>1, AppendProperties DEF Stack
  <2> HIDE DEF more
  <2>4. Allowed(s.u - s.l + 1, Len(srt.stack) + 1, size)
    <3> DEFINE m == srt.u - srt.l + 1
               k == s.u - s.l + 1
    <3>3. Allowed(m, Len(srt.stack), size) /\ k + k <= m
      BY <2>1, Zenon DEF Depths
    <3>4. s.l \in Int /\ s.u \in Int
      BY <2>1
    <3>1. m \in Int /\ k \in Int /\ k + k <= m /\ Allowed(m, Len(srt.stack), size)
      BY <1>2, <3>3, <3>4
    <3> HIDE DEF m, k
    <3>2. Allowed(k, Len(srt.stack) + 1, size)
      BY <1>1, <1>2, <3>1, AllowedHalf, Zenon
    <3> QED BY <3>2 DEF k
  <2>5. Allowed(q.u - q.l + 1, Len(srt.stack), size)
    BY <1>1, <1>2, <2>1, AllowedLess DEF Depths
  <2>6. \A d \in DOMAIN more : Allowed(more[d].u - more[d].l + 1, d - 1, size)
    <3>1. ASSUME NEW d \in DOMAIN srt.stack PROVE Allowed(more[d].u - more[d].l + 1, d - 1, size)
      BY <2>3 DEF Depths
    <3>2. Allowed(q.u - q.l + 1, (Len(srt.stack) + 1) - 1, size)
      <4>1. (Len(srt.stack) + 1) - 1 = Len(srt.stack)
        BY <1>2
      <4> QED BY <2>5, <4>1
    <3> QED BY <2>3, <3>1, <3>2
  <2> QED BY <1>1, <1>6, <2>2, <2>4, <2>6, <2>7 DEF Depths
<1> QED BY <1>3, <1>4, <1>5, PartsStep

LEMMA InitialDepth == ASSUME srt \in SortStates(Sorts) PROVE Depths
<1>1. PICK c \in Sorts : srt = [call |-> c, a |-> InitialArray(c.n), l |-> 1, u |-> c.n, i |-> 0, j |-> 0,
                                p |-> Absent, stack |-> <<>>, pc |-> "ends", status |-> "run"]
  BY DEF SortStates
<1>2. /\ size = c.n /\ size \in Nat /\ srt.l = 1 /\ srt.u = size
      /\ srt.status = "run" /\ Len(srt.stack) = 0 /\ DOMAIN srt.stack = {}
  BY <1>1, SortsAssumption DEF size
<1>3. Allowed(srt.u - srt.l + 1, 0, size)
  BY <1>2, PowerOfZero DEF Allowed
<1> QED BY <1>2, <1>3 DEF Depths


(* Whatever the order function answers, the pointers of auxsort stay next to *)
(* the part it sorts, and a part at depth d of the recursion has at most     *)
(* n / 2^d elements, which keeps it within the C stack; with an order, they  *)
(* stay in the array, and sort does not complain of it.                      *)
THEOREM AuxsortIsBounded == SortSpec => []AuxsortBounded
<1>1. Inv /\ Depths => AuxsortBounded
  <2> SUFFICES ASSUME Inv, Depths PROVE AuxsortBounded
    OBVIOUS
  <2>1. /\ size \in Nat /\ srt.l \in Int /\ srt.u \in Int /\ srt.i \in Int /\ srt.j \in Int
        /\ arr \in ArrayType(size)
    BY Sizes DEF Inv, SafeInv, TypeInv, arr
  <2>2. srt.pc \in {"up", "down"} => srt.i <= srt.u + 1 /\ srt.j >= srt.l - 1
    BY <2>1 DEF Inv, SafeInv, Bounds
  <2>3. ASSUME Consistent
        PROVE  /\ srt.status # "error"
               /\ srt.pc \in {"up", "down"} => srt.i \in 1..size /\ (srt.pc = "down" => srt.j \in 1..size)
               /\ \A k \in (DOMAIN arr) \ Elements(size) : arr[k] = Absent
    <3>1. OrderInv
      BY <2>3 DEF Inv
    <3>2. srt.pc \in {"up", "down"} => srt.i \in 1..size /\ (srt.pc = "down" => srt.j \in 1..size)
      <4> SUFFICES ASSUME srt.pc \in {"up", "down"}
                   PROVE  srt.i \in 1..size /\ (srt.pc = "down" => srt.j \in 1..size)
        OBVIOUS
      <4>1. srt.status = "run"
        BY <3>1 DEF Inv, OrderInv, SafeInv, TypeInv, Depths
      <4>2. Progress
        BY <3>1, <4>1 DEF OrderInv
      <4>3. /\ 1 <= srt.l /\ srt.u <= size /\ srt.l + 1 <= srt.i /\ srt.i <= srt.u - 1
            /\ srt.pc = "down" => srt.l <= srt.j /\ srt.j <= srt.u - 2
        BY <4>2 DEF Inv, SafeInv, Bounds, Progress
      <4> QED BY <2>1, <4>3
    <3>3. \A k \in (DOMAIN arr) \ Elements(size) : arr[k] = Absent
      <4>1. arr[0] = Absent /\ arr[size + 1] = Absent
        BY <3>1 DEF OrderInv, Inner
      <4>2. \A k \in (DOMAIN arr) \ Elements(size) : k = 0 \/ k = size + 1
        BY <2>1 DEF Elements, ArrayType
      <4> QED BY <4>1, <4>2
    <3> QED BY <3>1, <3>2, <3>3 DEF OrderInv
  <2>4. DepthLogarithmic
    BY DEF Depths, DepthLogarithmic, Allowed
  <2> QED BY <2>2, <2>3, <2>4 DEF AuxsortBounded, PointersBounded
<1>2. SafeInv /\ Depths /\ [SortNext]_srt => Depths'
  <2>1. ASSUME Depths, UNCHANGED srt PROVE Depths'
    BY <2>1 DEF Depths, size
  <2> QED BY <2>1, DepthStep
<1>3. Inv => SafeInv
  BY DEF Inv
<1>4. srt \in SortStates(Sorts) => Depths
  BY InitialDepth
<1> QED BY <1>1, <1>2, <1>3, <1>4, InitialOrder, InvStep, PTL DEF SortSpec

------------------------------------------------------------------------------
(* Texts, and their concatenation.  FlattenSeq is defined by recursion over  *)
(* the positions; Joins says that g is this recursion up to n.               *)
Text == Seq(Int)
Joins(ps, n, g) == g = [i \in 1..n |-> IF i = 1 THEN ps[i] ELSE g[i - 1] \o ps[i]]

LEMMA FlattenJoins ==
  ASSUME NEW ps, Len(ps) # 0
  PROVE  FlattenSeq(ps) = (CHOOSE g : Joins(ps, Len(ps), g))[Len(ps)]
BY Zenon DEF FlattenSeq, Joins

LEMMA TextConcat ==
  ASSUME NEW s \in Text, NEW t \in Text
  PROVE  s \o t \in Text /\ Len(s \o t) = Len(s) + Len(t)
BY ConcatProperties DEF Text

LEMMA JoinsValues ==
  ASSUME NEW ps \in Seq(Text), NEW n \in 1..Len(ps), NEW g, Joins(ps, n, g)
  PROVE  \A i \in 1..n : g[i] \in Text /\ g[i] = IF i = 1 THEN ps[i] ELSE g[i - 1] \o ps[i]
<1>1. Len(ps) \in Nat /\ \A i \in 1..n : ps[i] \in Text
  <2>1. \A i \in 1..Len(ps) : ps[i] \in Text
    BY ElementOfSeq
  <2>2. Len(ps) \in Nat
    BY LenProperties
  <2> QED BY <2>1, <2>2
<1>2. \A i \in 1..n : g[i] = IF i = 1 THEN ps[i] ELSE g[i - 1] \o ps[i]
  BY DEF Joins
<1> DEFINE S == {k \in Nat : k + 1 \in 1..n => g[k + 1] \in Text}
<1>3. 0 \in S
  BY <1>1, <1>2
<1>4. ASSUME NEW k \in Nat, k \in S PROVE k + 1 \in S
  <2> SUFFICES ASSUME (k + 1) + 1 \in 1..n PROVE g[(k + 1) + 1] \in Text
    OBVIOUS
  <2>1. k + 1 \in 1..n /\ (k + 1) + 1 # 1 /\ ((k + 1) + 1) - 1 = k + 1
    OBVIOUS
  <2>2. g[k + 1] \in Text
    BY <1>4, <2>1
  <2>3. g[(k + 1) + 1] = g[k + 1] \o ps[(k + 1) + 1]
    BY <1>2, <2>1
  <2> QED BY <1>1, <2>2, <2>3, TextConcat
<1> HIDE DEF S
<1>5. \A k \in Nat : k \in S
  BY <1>3, <1>4, SetInduction
<1>6. ASSUME NEW i \in 1..n PROVE g[i] \in Text
  <2>1. i - 1 \in Nat /\ (i - 1) + 1 = i
    OBVIOUS
  <2>2. i - 1 \in S
    BY <1>5, <2>1
  <2> QED BY <2>1, <2>2 DEF S
<1> QED BY <1>2, <1>6

LEMMA JoinsExists ==
  ASSUME NEW ps \in Seq(Text), Len(ps) # 0
  PROVE  \E g : Joins(ps, Len(ps), g)
<1> DEFINE S == {k \in Nat : \E g : Joins(ps, k + 1, g)}
<1>1. 0 \in S
  <2> DEFINE g == [i \in 1..0 + 1 |-> ps[i]]
  <2>1. Joins(ps, 0 + 1, g)
    BY DEF Joins
  <2> QED BY <2>1
<1>2. ASSUME NEW k \in Nat, k \in S PROVE k + 1 \in S
  <2>1. PICK g : Joins(ps, k + 1, g)
    BY <1>2
  <2> DEFINE n == k + 1
             h == [i \in 1..n + 1 |-> IF i = n + 1 THEN g[n] \o ps[n + 1] ELSE g[i]]
  <2>2. n \in Nat /\ n # 0
    OBVIOUS
  <2>3. \A i \in 1..n : g[i] = IF i = 1 THEN ps[i] ELSE g[i - 1] \o ps[i]
    BY <2>1 DEF Joins
  <2> HIDE DEF n
  <2>4. ASSUME NEW i \in 1..n + 1 PROVE h[i] = IF i = 1 THEN ps[i] ELSE h[i - 1] \o ps[i]
    <3>1. CASE i = n + 1
      <4>1. i # 1 /\ i - 1 = n /\ n \in 1..n + 1 /\ n # n + 1
        BY <2>2, <3>1
      <4>2. h[i] = g[n] \o ps[n + 1] /\ h[n] = g[n]
        BY <3>1, <4>1
      <4> QED BY <3>1, <4>1, <4>2
    <3>2. CASE i # n + 1
      <4>1. i \in 1..n /\ h[i] = g[i]
        BY <2>2, <3>2
      <4>2. i # 1 => i - 1 \in 1..n + 1 /\ i - 1 # n + 1
        BY <2>2, <4>1
      <4>3. i # 1 => h[i - 1] = g[i - 1]
        BY <4>2
      <4> QED BY <2>3, <4>1, <4>3
    <3> QED BY <3>1, <3>2
  <2>5. h = [i \in 1..n + 1 |-> h[i]]
    OBVIOUS
  <2> HIDE DEF h
  <2>6. Joins(ps, n + 1, h)
    BY <2>4, <2>5, Zenon DEF Joins
  <2> QED BY <2>6 DEF n
<1> HIDE DEF S
<1>3. \A k \in Nat : k \in S
  BY <1>1, <1>2, SetInduction
<1>4. Len(ps) - 1 \in Nat /\ (Len(ps) - 1) + 1 = Len(ps)
  BY LenProperties
<1>5. Len(ps) - 1 \in S
  BY <1>3, <1>4
<1> QED BY <1>4, <1>5 DEF S

(* The recursion does not look beyond the position it is asked for. *)
LEMMA JoinsUnique ==
  ASSUME NEW ps, NEW qs, NEW n \in Nat, NEW m \in Nat, NEW g, NEW h,
         Joins(ps, n, g), Joins(qs, m, h), n <= m, \A i \in 1..n : ps[i] = qs[i]
  PROVE  \A i \in 1..n : g[i] = h[i]
<1>1. /\ \A i \in 1..n : g[i] = IF i = 1 THEN ps[i] ELSE g[i - 1] \o ps[i]
      /\ \A i \in 1..m : h[i] = IF i = 1 THEN qs[i] ELSE h[i - 1] \o qs[i]
  BY DEF Joins
<1> DEFINE S == {k \in Nat : k + 1 \in 1..n => g[k + 1] = h[k + 1]}
<1>2. 0 \in S
  BY <1>1
<1>3. ASSUME NEW k \in Nat, k \in S PROVE k + 1 \in S
  <2> SUFFICES ASSUME (k + 1) + 1 \in 1..n PROVE g[(k + 1) + 1] = h[(k + 1) + 1]
    OBVIOUS
  <2>1. k + 1 \in 1..n /\ (k + 1) + 1 # 1 /\ ((k + 1) + 1) - 1 = k + 1 /\ (k + 1) + 1 \in 1..m
    OBVIOUS
  <2>2. g[(k + 1) + 1] = g[k + 1] \o ps[(k + 1) + 1] /\ h[(k + 1) + 1] = h[k + 1] \o qs[(k + 1) + 1]
    BY <1>1, <2>1
  <2> QED BY <1>3, <2>1, <2>2
<1> HIDE DEF S
<1>4. \A k \in Nat : k \in S
  BY <1>2, <1>3, SetInduction
<1>5. ASSUME NEW i \in 1..n PROVE g[i] = h[i]
  <2>1. i - 1 \in Nat /\ (i - 1) + 1 = i
    OBVIOUS
  <2> QED BY <1>4, <2>1 DEF S
<1> QED BY <1>5

LEMMA FlattenType == ASSUME NEW ps \in Seq(Text) PROVE FlattenSeq(ps) \in Text
<1>1. CASE Len(ps) = 0
  <2>1. ps = <<>>
    BY <1>1, EmptySeq
  <2> QED BY <1>1, <2>1, EmptySeq DEF FlattenSeq, Text
<1>2. CASE Len(ps) # 0
  <2> DEFINE g == CHOOSE g : Joins(ps, Len(ps), g)
  <2>1. Joins(ps, Len(ps), g)
    BY <1>2, JoinsExists, Zenon
  <2>2. Len(ps) \in 1..Len(ps)
    BY <1>2, LenProperties
  <2>3. FlattenSeq(ps) = g[Len(ps)]
    BY <1>2, FlattenJoins, Zenon
  <2> HIDE DEF g
  <2> QED BY <2>1, <2>2, <2>3, JoinsValues
<1> QED BY <1>1, <1>2

LEMMA FlattenAppend ==
  ASSUME NEW ps \in Seq(Text), NEW t \in Text
  PROVE  FlattenSeq(Append(ps, t)) = FlattenSeq(ps) \o t
<1> DEFINE qs == Append(ps, t)
           n == Len(ps)
<1>1. /\ n \in Nat /\ qs \in Seq(Text) /\ Len(qs) = n + 1 /\ qs[n + 1] = t
      /\ \A i \in 1..n : ps[i] = qs[i]
  BY LenProperties, AppendProperties
<1> HIDE DEF qs, n
<1> DEFINE h == CHOOSE h : Joins(qs, Len(qs), h)
<1>2. Joins(qs, Len(qs), h) /\ FlattenSeq(qs) = h[Len(qs)]
  <2>1. Len(qs) # 0
    BY <1>1
  <2> QED BY <1>1, <2>1, JoinsExists, FlattenJoins, Zenon
<1> HIDE DEF h
<1>3. \A i \in 1..n + 1 : h[i] = IF i = 1 THEN qs[i] ELSE h[i - 1] \o qs[i]
  <2>1. n + 1 \in 1..Len(qs)
    BY <1>1
  <2> QED BY <1>1, <1>2, <2>1, JoinsValues
<1>4. CASE n = 0
  <2>1. ps = <<>> /\ FlattenSeq(ps) = <<>>
    BY <1>4, EmptySeq DEF FlattenSeq, n
  <2>2. FlattenSeq(qs) = t
    BY <1>1, <1>2, <1>3, <1>4
  <2> QED BY <2>1, <2>2, ConcatEmptySeq DEF qs, Text
<1>5. CASE n # 0
  <2> DEFINE g == CHOOSE g : Joins(ps, Len(ps), g)
  <2>1. Joins(ps, n, g) /\ FlattenSeq(ps) = g[n]
    BY <1>5, JoinsExists, FlattenJoins, Zenon DEF n
  <2> HIDE DEF g
  <2>2. n \in 1..n /\ n + 1 \in 1..n + 1 /\ n + 1 # 1 /\ (n + 1) - 1 = n /\ n <= n + 1
    BY <1>1, <1>5
  <2>3. g[n] = h[n]
    BY <1>1, <1>2, <2>1, <2>2, JoinsUnique
  <2>4. h[n + 1] = h[n] \o t
    BY <1>1, <1>3, <2>2
  <2> QED BY <1>1, <1>2, <2>1, <2>3, <2>4 DEF qs
<1> QED BY <1>4, <1>5

LEMMA Associates ==
  ASSUME NEW T, NEW s \in Seq(T), NEW t \in Seq(T), NEW u \in Seq(T)
  PROVE  (s \o t) \o u = s \o (t \o u)
BY ConcatAssociative

LEMMA PiecesAssociate == \A s, t, u \in Seq(Text) : (s \o t) \o u = s \o (t \o u)
BY Associates

LEMMA TextAssociates == \A s, t, u \in Text : (s \o t) \o u = s \o (t \o u)
<1> SUFFICES ASSUME NEW s \in Text, NEW t \in Text, NEW u \in Text
             PROVE  (s \o t) \o u = s \o (t \o u)
  BY Zenon
<1>1. s \in Seq(Int) /\ t \in Seq(Int) /\ u \in Seq(Int)
  BY DEF Text
<1> QED BY <1>1, Associates

LEMMA FlattenConcat ==
  ASSUME NEW ps \in Seq(Text), NEW qs \in Seq(Text)
  PROVE  FlattenSeq(ps \o qs) = FlattenSeq(ps) \o FlattenSeq(qs)
<1> DEFINE Q(k) == SubSeq(qs, 1, k)
           S == {k \in Nat : k <= Len(qs) => FlattenSeq(ps \o Q(k)) = FlattenSeq(ps) \o FlattenSeq(Q(k))}
<1>1. Len(qs) \in Nat /\ \A i \in 1..Len(qs) : qs[i] \in Text
  BY LenProperties, ElementOfSeq
<1>2. \A k \in Nat : k <= Len(qs) => Q(k) \in Seq(Text)
  <2> SUFFICES ASSUME NEW k \in Nat, k <= Len(qs) PROVE Q(k) \in Seq(Text)
    OBVIOUS
  <2>1. \A i \in 1..k : qs[i] \in Text
    BY <1>1
  <2> QED BY <2>1, SubSeqProperties
<1>3. 0 \in S
  <2>1. Q(0) = <<>>
    BY SubSeqEmpty
  <2>2. FlattenSeq(<<>>) = <<>>
    BY EmptySeq DEF FlattenSeq
  <2>3. ps \o <<>> = ps /\ FlattenSeq(ps) \o <<>> = FlattenSeq(ps)
    BY FlattenType, ConcatEmptySeq DEF Text
  <2> QED BY <2>1, <2>2, <2>3
<1>4. ASSUME NEW k \in Nat, k \in S PROVE k + 1 \in S
  <2> SUFFICES ASSUME k + 1 <= Len(qs)
               PROVE  FlattenSeq(ps \o Q(k + 1)) = FlattenSeq(ps) \o FlattenSeq(Q(k + 1))
    OBVIOUS
  <2> DEFINE t == qs[k + 1]
  <2>1. k <= Len(qs) /\ k + 1 \in 1..Len(qs) /\ (k + 1) - 1 = k
    BY <1>1
  <2>2. Q(k) \in Seq(Text) /\ t \in Text
    BY <1>1, <1>2, <2>1
  <2>3. Q(k + 1) = Append(Q(k), t)
    <3>1. 1 \in 1..Len(qs) /\ k + 1 \in 1..Len(qs)
      BY <2>1
    <3>2. Q(k + 1) = SubSeq(qs, 1, (k + 1) - 1) \o << t >>
      BY <3>1, SubSeqRecursiveSecond
    <3>3. Append(Q(k), t) = Q(k) \o << t >>
      BY <2>2, AppendIsConcat
    <3> QED BY <2>1, <3>2, <3>3
  <2>4. FlattenSeq(ps \o Q(k)) = FlattenSeq(ps) \o FlattenSeq(Q(k))
    BY <1>4, <2>1
  <2> HIDE DEF t, Q
  <2>5. ps \o Append(Q(k), t) = Append(ps \o Q(k), t) /\ ps \o Q(k) \in Seq(Text)
    <3>1. /\ << t >> \in Seq(Text) /\ Append(Q(k), t) = Q(k) \o << t >>
          /\ ps \o Q(k) \in Seq(Text) /\ Append(ps \o Q(k), t) = (ps \o Q(k)) \o << t >>
      BY <2>2, ConcatProperties, AppendIsConcat
    <3>2. (ps \o Q(k)) \o << t >> = ps \o (Q(k) \o << t >>)
      <4> DEFINE r == Q(k)
                 w == << t >>
      <4>1. r \in Seq(Text) /\ w \in Seq(Text) /\ ps \in Seq(Text)
        BY <2>2, <3>1
      <4> HIDE DEF r, w
      <4>2. (ps \o r) \o w = ps \o (r \o w)
        BY <4>1, PiecesAssociate, Zenon
      <4> QED BY <4>2 DEF r, w
    <3> QED BY <3>1, <3>2
  <2>6. FlattenSeq(Append(ps \o Q(k), t)) = FlattenSeq(ps \o Q(k)) \o t
    BY <2>2, <2>5, FlattenAppend
  <2>7. FlattenSeq(Append(Q(k), t)) = FlattenSeq(Q(k)) \o t
    BY <2>2, FlattenAppend
  <2>8. (FlattenSeq(ps) \o FlattenSeq(Q(k))) \o t = FlattenSeq(ps) \o (FlattenSeq(Q(k)) \o t)
    <3>1. FlattenSeq(ps) \in Text /\ FlattenSeq(Q(k)) \in Text /\ t \in Text
      BY <2>2, FlattenType
    <3> QED BY <3>1, TextAssociates, Zenon
  <2> QED BY <2>3, <2>4, <2>5, <2>6, <2>7, <2>8
<1> HIDE DEF S
<1>5. Len(qs) \in S
  BY <1>1, <1>3, <1>4, SetInduction
<1>6. Q(Len(qs)) = qs
  BY SubSeqFull
<1>7. Len(qs) <= Len(qs) => FlattenSeq(ps \o Q(Len(qs))) = FlattenSeq(ps) \o FlattenSeq(Q(Len(qs)))
  BY <1>5, Zenon DEF S
<1>8. Len(qs) <= Len(qs)
  BY <1>1
<1> QED BY <1>6, <1>7, <1>8

------------------------------------------------------------------------------
Numbers(from, k) == [b \in 1..k |-> from + b]

LEMMA NumbersType == ASSUME NEW a \in Nat, NEW k \in Nat PROVE Numbers(a, k) \in Text /\ Len(Numbers(a, k)) = k
<1>1. \A b \in 1..k : a + b \in Int
  OBVIOUS
<1>2. Numbers(a, k) \in [1..k -> Int]
  BY <1>1 DEF Numbers
<1> QED BY <1>2 DEF Text

LEMMA NumbersConcat ==
  ASSUME NEW a \in Nat, NEW k \in Nat
  PROVE  Numbers(0, a) \o Numbers(a, k) = Numbers(0, a + k)
<1> DEFINE s == Numbers(0, a)
           t == Numbers(a, k)
           n == Numbers(0, a + k)
<1>1. s \in Seq(Int) /\ t \in Seq(Int) /\ n \in Seq(Int) /\ Len(s) = a /\ Len(t) = k /\ Len(n) = a + k
  BY NumbersType DEF Text
<1>2. /\ \A b \in 1..a : s[b] = 0 + b
      /\ \A b \in 1..k : t[b] = a + b
      /\ \A b \in 1..a + k : n[b] = 0 + b
  BY DEF Numbers
<1> HIDE DEF s, t, n
<1>3. /\ s \o t \in Seq(Int) /\ Len(s \o t) = a + k
      /\ \A b \in 1..a + k : (s \o t)[b] = IF b <= a THEN s[b] ELSE t[b - a]
  BY <1>1, ConcatProperties
<1>4. \A b \in 1..a + k : (s \o t)[b] = n[b]
  <2> SUFFICES ASSUME NEW b \in 1..a + k PROVE (s \o t)[b] = n[b]
    OBVIOUS
  <2>1. CASE b <= a
    BY <1>2, <1>3, <2>1
  <2>2. CASE ~(b <= a)
    <3>1. b - a \in 1..k /\ a + (b - a) = b
      BY <2>2
    <3> QED BY <1>2, <1>3, <2>2, <3>1
  <2> QED BY <2>1, <2>2
<1>5. s \o t = n
  BY <1>1, <1>3, <1>4, SeqEqual
<1> QED BY <1>5 DEF s, t, n

(* adjuststack keeps the text and leaves fewer than LIMIT pieces. *)
LEMMA ToGetExists ==
  ASSUME NEW ps \in Seq(Text), Len(ps) > 1
  PROVE  /\ ToGet(ps) \in 1..Len(ps)
         /\ ToGet(ps) < Len(ps) => ~Merges(ps, ToGet(ps))
<1> DEFINE n == Len(ps)
           T == {t \in 1..n : t < n => ~Merges(ps, t)}
<1>1. n \in Nat /\ n \in T
  BY LenProperties
<1>2. T \in SUBSET Nat /\ T # {}
  BY <1>1
<1>3. PICK x \in T : \A y \in T : x <= y
  <2> HIDE DEF T
  <2> QED BY <1>2, LeastNatural
<1>4. x \in 1..n /\ (x < n => ~Merges(ps, x)) /\ \A s \in 1..x - 1 : Merges(ps, s)
  <2>1. x \in 1..n /\ (x < n => ~Merges(ps, x))
    BY <1>3
  <2>2. ASSUME NEW s \in 1..x - 1, ~Merges(ps, s) PROVE FALSE
    <3>1. s \in 1..n /\ ~(x <= s)
      BY <1>1, <2>1
    <3> QED BY <1>3, <2>2, <3>1
  <2> QED BY <2>1, <2>2
<1>5. \E t \in 1..n : (\A s \in 1..t - 1 : Merges(ps, s)) /\ (t < n => ~Merges(ps, t))
  BY <1>4
<1> QED BY <1>5, Zenon DEF ToGet

LEMMA AdjustKeeps ==
  ASSUME NEW ps \in Seq(Text)
  PROVE  /\ AdjustStack(ps) \in Seq(Text)
         /\ FlattenSeq(AdjustStack(ps)) = FlattenSeq(ps)
         /\ Len(AdjustStack(ps)) < LIMIT
<1>1. Len(ps) \in Nat /\ \A i \in 1..Len(ps) : ps[i] \in Text
  BY LenProperties, ElementOfSeq
<1>2. CASE Len(ps) <= 1
  BY <1>1, <1>2, BufferAssumption DEF AdjustStack
<1>3. CASE ~(Len(ps) <= 1)
  <2> DEFINE n == Len(ps)
             m == n - ToGet(ps)
             low == SubSeq(ps, 1, m)
             high == SubSeq(ps, m + 1, n)
  <2>1. ToGet(ps) \in 1..n /\ (ToGet(ps) < n => ~Merges(ps, ToGet(ps)))
    BY <1>1, <1>3, ToGetExists
  <2>2. m \in 0..n - 1 /\ n \in Nat /\ m + 1 \in 1..n /\ m \in Nat /\ m + 1 \in Int
    BY <1>1, <2>1
  <2>3. AdjustStack(ps) = Append(low, FlattenSeq(high))
    BY <1>3 DEF AdjustStack
  <2>4. ~Merges(ps, ToGet(ps)) => m + 1 < LIMIT
    BY <1>1, <2>1, BufferAssumption DEF Merges
  <2>5. ToGet(ps) = n => m + 1 < LIMIT
    BY <1>1, BufferAssumption
  <2>6. m + 1 < LIMIT
    BY <1>1, <2>1, <2>4, <2>5
  <2> HIDE DEF m, n
  <2>7. low \in Seq(Text) /\ Len(low) = m
    <3>1. \A i \in 1..m : ps[i] \in Text
      BY <1>1, <2>2 DEF n
    <3> QED BY <2>2, <3>1, SubSeqProperties
  <2>8. high \in Seq(Text)
    <3>1. \A i \in m + 1..n : ps[i] \in Text
      BY <1>1, <2>2 DEF n
    <3> QED BY <2>2, <3>1, SubSeqProperties
  <2>9. low \o high = ps
    <3>1. 1 \in 1..Len(ps) + 1 /\ m \in 1 - 1..Len(ps) /\ n \in m..Len(ps)
      BY <1>1, <2>2 DEF n
    <3>2. low \o high = SubSeq(ps, 1, n)
      BY <3>1, ConcatAdjacentSubSeq, Zenon
    <3> QED BY <3>2, SubSeqFull DEF n
  <2> HIDE DEF low, high
  <2>10. FlattenSeq(high) \in Text
    BY <2>8, FlattenType
  <2>11. Append(low, FlattenSeq(high)) \in Seq(Text) /\ Len(Append(low, FlattenSeq(high))) = m + 1
    BY <2>7, <2>10, AppendProperties
  <2>12. FlattenSeq(Append(low, FlattenSeq(high))) = FlattenSeq(low) \o FlattenSeq(high)
    BY <2>7, <2>10, FlattenAppend
  <2>13. FlattenSeq(low \o high) = FlattenSeq(low) \o FlattenSeq(high)
    BY <2>7, <2>8, FlattenConcat
  <2> QED BY <2>3, <2>6, <2>9, <2>11, <2>12, <2>13
<1> QED BY <1>2, <1>3

BufType == buf \in [buffer : Text, pieces : Seq(Text), added : Nat, status : {"open", "done"}]

BufInv == BufType /\ BufferKept

(* What pieces and buffer hold, as one text. *)
LEMMA EmptiedKeeps ==
  ASSUME BufInv
  PROVE  /\ Emptied \in Seq(Text)
         /\ FlattenSeq(Emptied) = FlattenSeq(buf.pieces) \o buf.buffer
<1>1. buf.pieces \in Seq(Text) /\ buf.buffer \in Text
  BY DEF BufInv, BufType
<1>2. CASE buf.buffer = <<>>
  <2>1. FlattenSeq(buf.pieces) \in Seq(Int)
    BY <1>1, FlattenType DEF Text
  <2> QED BY <1>1, <1>2, <2>1, ConcatEmptySeq DEF Emptied, Pieces
<1>3. CASE buf.buffer # <<>>
  BY <1>1, <1>3, AppendProperties, FlattenAppend DEF Emptied, Pieces
<1> QED BY <1>2, <1>3

(* Pieces and array that hold the text so far, and k bytes after it. *)
LEMMA Added ==
  ASSUME BufInv, NEW k \in Nat, NEW ps \in Seq(Text), NEW b \in Text,
         FlattenSeq(ps) \o b = Numbers(0, buf.added) \o Numbers(buf.added, k),
         Len(ps) < LIMIT, Len(b) <= LUAL_BUFFERSIZE,
         buf' = [buffer |-> b, pieces |-> ps, added |-> buf.added + k, status |-> buf.status]
  PROVE  BufInv'
<1>1. buf.added \in Nat /\ buf.status \in {"open", "done"}
  BY DEF BufInv, BufType
<1>2. buf'.buffer = b /\ buf'.pieces = ps /\ buf'.added = buf.added + k
  OBVIOUS
<1>3. buf.added + k \in Nat
  BY <1>1
<1>4. BufType'
  BY <1>1, <1>3 DEF BufType
<1>5. FlattenSeq(ps) \o b = Numbers(0, buf.added + k)
  BY <1>1, NumbersConcat
<1>6. Numbers(0, buf.added + k) = [x \in 1..buf.added + k |-> x]
  <2>1. \A x \in 1..buf.added + k : 0 + x = x
    OBVIOUS
  <2> QED BY <2>1 DEF Numbers
<1>7. TextKept'
  BY <1>2, <1>5, <1>6 DEF TextKept
<1>8. PiecesBounded'
  BY <1>2 DEF PiecesBounded
<1> QED BY <1>4, <1>7, <1>8 DEF BufInv, BufferKept

LEMMA HeldText ==
  ASSUME BufInv
  PROVE  /\ FlattenSeq(buf.pieces) \o buf.buffer = Numbers(0, buf.added)
         /\ buf.pieces \in Seq(Text) /\ buf.buffer \in Text /\ buf.added \in Nat
         /\ Len(buf.pieces) < LIMIT /\ Len(buf.buffer) <= LUAL_BUFFERSIZE
<1>1. FlattenSeq(buf.pieces) \o buf.buffer = [x \in 1..buf.added |-> x]
  BY DEF BufInv, BufferKept, TextKept
<1>2. Numbers(0, buf.added) = [x \in 1..buf.added |-> x]
  <2>1. \A x \in 1..buf.added : 0 + x = x
    OBVIOUS
  <2> QED BY <2>1 DEF Numbers
<1> QED BY <1>1, <1>2 DEF BufInv, BufType, BufferKept, PiecesBounded

(* luaL_prepbuffer leaves the array empty and the text on the stack. *)
LEMMA PrepKeeps ==
  ASSUME BufInv
  PROVE  \E ps \in Seq(Text) :
           /\ PrepBuffer = [buffer |-> <<>>, pieces |-> ps, added |-> buf.added, status |-> buf.status]
           /\ Len(ps) < LIMIT
           /\ FlattenSeq(ps) = Numbers(0, buf.added)
<1> DEFINE ps == IF buf.buffer = <<>> THEN Pieces ELSE AdjustStack(Emptied)
<1>1. PrepBuffer = [buffer |-> <<>>, pieces |-> ps, added |-> buf.added, status |-> buf.status]
  <2>1. buf = [buffer |-> buf.buffer, pieces |-> buf.pieces, added |-> buf.added, status |-> buf.status]
    BY DEF BufInv, BufType
  <2>2. PrepBuffer = [buf EXCEPT !.buffer = <<>>, !.pieces = ps]
    BY DEF PrepBuffer
  <2> HIDE DEF ps
  <2> QED BY <2>1, <2>2
<1>2. CASE buf.buffer = <<>>
  <2>1. ps = buf.pieces
    BY <1>2 DEF Pieces
  <2>2. FlattenSeq(buf.pieces) \o <<>> = FlattenSeq(buf.pieces)
    BY HeldText, FlattenType, ConcatEmptySeq DEF Text
  <2>3. FlattenSeq(buf.pieces) = Numbers(0, buf.added)
    BY <1>2, <2>2, HeldText
  <2> QED BY <1>1, <2>1, <2>3, HeldText
<1>3. CASE buf.buffer # <<>>
  <2>1. ps = AdjustStack(Emptied)
    BY <1>3
  <2>2. ps \in Seq(Text) /\ Len(ps) < LIMIT /\ FlattenSeq(ps) = FlattenSeq(Emptied)
    BY <2>1, EmptiedKeeps, AdjustKeeps
  <2>3. FlattenSeq(Emptied) = Numbers(0, buf.added)
    BY EmptiedKeeps, HeldText
  <2> QED BY <1>1, <2>2, <2>3
<1> QED BY <1>2, <1>3

LEMMA OneByte ==
  ASSUME NEW a \in Nat, NEW b \in Text
  PROVE  /\ Append(b, a + 1) = b \o Numbers(a, 1)
         /\ Append(b, a + 1) \in Text /\ Len(Append(b, a + 1)) = Len(b) + 1
<1>1. a + 1 \in Int
  OBVIOUS
<1>2. Append(b, a + 1) = b \o << a + 1 >>
  BY <1>1, AppendIsConcat DEF Text
<1>3. << a + 1 >> = Numbers(a, 1)
  <2>1. 1..1 = {1}
    OBVIOUS
  <2>2. Numbers(a, 1) \in Seq(Int) /\ Len(Numbers(a, 1)) = 1
    BY NumbersType DEF Text
  <2>3. Numbers(a, 1)[1] = a + 1
    BY <2>1 DEF Numbers
  <2>4. << a + 1 >> \in Seq(Int) /\ Len(<< a + 1 >>) = 1 /\ << a + 1 >>[1] = a + 1
    BY <1>1
  <2> HIDE DEF Numbers
  <2> QED BY <2>1, <2>2, <2>3, <2>4, SeqEqual
<1> QED BY <1>1, <1>2, <1>3, AppendProperties DEF Text

LEMMA BytesAreNumbers == ASSUME NEW k PROVE Bytes(k) = Numbers(buf.added, k)
BY DEF Bytes, Numbers

LEMMA AddCharStep == ASSUME BufInv, AddChar PROVE BufInv'
<1>1. Append(buf.buffer, buf.added + 1) = buf.buffer \o Numbers(buf.added, 1)
  BY HeldText, OneByte
<1>2. CASE Len(buf.buffer) < LUAL_BUFFERSIZE
  <2> DEFINE b == Append(buf.buffer, buf.added + 1)
  <2>1. buf' = [buffer |-> b, pieces |-> buf.pieces, added |-> buf.added + 1, status |-> buf.status]
    BY <1>2 DEF AddChar, BufInv, BufType
  <2>2. FlattenSeq(buf.pieces) \o b = Numbers(0, buf.added) \o Numbers(buf.added, 1)
    <3>1. (FlattenSeq(buf.pieces) \o buf.buffer) \o Numbers(buf.added, 1)
            = FlattenSeq(buf.pieces) \o (buf.buffer \o Numbers(buf.added, 1))
      <4>1. FlattenSeq(buf.pieces) \in Text /\ buf.buffer \in Text /\ Numbers(buf.added, 1) \in Text
        BY HeldText, FlattenType, NumbersType
      <4> QED BY <4>1, TextAssociates, Zenon
    <3> QED BY <1>1, <3>1, HeldText
  <2>3. b \in Text /\ Len(b) <= LUAL_BUFFERSIZE
    <3>1. b \in Text /\ Len(b) = Len(buf.buffer) + 1 /\ Len(buf.buffer) \in Nat
      BY HeldText, OneByte, LenProperties DEF Text
    <3> HIDE DEF b
    <3> QED BY <1>2, <3>1, BufferAssumption
  <2> HIDE DEF b
  <2> QED BY <2>1, <2>2, <2>3, HeldText, Added
<1>3. CASE ~(Len(buf.buffer) < LUAL_BUFFERSIZE)
  <2>1. PICK ps \in Seq(Text) :
          /\ PrepBuffer = [buffer |-> <<>>, pieces |-> ps, added |-> buf.added, status |-> buf.status]
          /\ Len(ps) < LIMIT /\ FlattenSeq(ps) = Numbers(0, buf.added)
    BY PrepKeeps
  <2> DEFINE b == Append(<<>>, buf.added + 1)
  <2>2. buf' = [buffer |-> b, pieces |-> ps, added |-> buf.added + 1, status |-> buf.status]
    BY <1>3, <2>1 DEF AddChar
  <2>3. <<>> \in Text /\ Len(<<>>) = 0
    BY EmptySeq DEF Text
  <2>4. b \in Text /\ Len(b) = 1 /\ b = <<>> \o Numbers(buf.added, 1)
    <3>1. buf.added \in Nat
      BY HeldText
    <3>2. b \in Text /\ Len(b) = Len(<<>>) + 1 /\ b = <<>> \o Numbers(buf.added, 1)
      BY <2>3, <3>1, OneByte, Zenon
    <3>3. 0 + 1 = 1
      OBVIOUS
    <3> QED BY <2>3, <3>2, <3>3, Zenon
  <2>5. b = Numbers(buf.added, 1)
    BY <2>4, HeldText, NumbersType, ConcatEmptySeq DEF Text
  <2> HIDE DEF b
  <2>6. FlattenSeq(ps) \o b = Numbers(0, buf.added) \o Numbers(buf.added, 1)
    BY <2>1, <2>5
  <2>7. Len(b) <= LUAL_BUFFERSIZE
    BY <2>4, BufferAssumption
  <2> QED BY <2>1, <2>2, <2>4, <2>6, <2>7, Added
<1> QED BY <1>2, <1>3

LEMMA AddPreparedStep == ASSUME BufInv, NEW k \in Nat, AddPrepared(k) PROVE BufInv'
<1>1. PICK ps \in Seq(Text) :
        /\ PrepBuffer = [buffer |-> <<>>, pieces |-> ps, added |-> buf.added, status |-> buf.status]
        /\ Len(ps) < LIMIT /\ FlattenSeq(ps) = Numbers(0, buf.added)
  BY PrepKeeps
<1>2. buf' = [buffer |-> Bytes(k), pieces |-> ps, added |-> buf.added + k, status |-> buf.status]
  BY <1>1 DEF AddPrepared
<1>3. Bytes(k) \in Text /\ Len(Bytes(k)) = k
  BY HeldText, BytesAreNumbers, NumbersType
<1>4. FlattenSeq(ps) \o Bytes(k) = Numbers(0, buf.added) \o Numbers(buf.added, k)
  BY <1>1, BytesAreNumbers
<1>5. k <= LUAL_BUFFERSIZE
  BY DEF AddPrepared
<1> QED BY <1>1, <1>2, <1>3, <1>4, <1>5, Added

LEMMA AddValueStep == ASSUME BufInv, NEW k \in Nat, AddValue(k) PROVE BufInv'
<1>1. Bytes(k) \in Text /\ Len(Bytes(k)) = k /\ Bytes(k) = Numbers(buf.added, k)
  BY HeldText, BytesAreNumbers, NumbersType
<1>2. CASE Len(buf.buffer) + k <= LUAL_BUFFERSIZE
  <2> DEFINE b == buf.buffer \o Bytes(k)
  <2>1. buf' = [buffer |-> b, pieces |-> buf.pieces, added |-> buf.added + k, status |-> buf.status]
    BY <1>2 DEF AddValue, BufInv, BufType
  <2>2. b \in Text /\ Len(b) = Len(buf.buffer) + k
    BY <1>1, HeldText, TextConcat
  <2>3. FlattenSeq(buf.pieces) \o b = Numbers(0, buf.added) \o Numbers(buf.added, k)
    <3>1. FlattenSeq(buf.pieces) \in Text
      BY HeldText, FlattenType
    <3>2. (FlattenSeq(buf.pieces) \o buf.buffer) \o Bytes(k) = FlattenSeq(buf.pieces) \o (buf.buffer \o Bytes(k))
      BY <1>1, <3>1, HeldText, TextAssociates, Zenon
    <3> QED BY <1>1, <3>2, HeldText
  <2>4. Len(b) <= LUAL_BUFFERSIZE
    BY <1>2, <2>2
  <2> HIDE DEF b
  <2> QED BY <2>1, <2>2, <2>3, <2>4, HeldText, Added
<1>3. CASE ~(Len(buf.buffer) + k <= LUAL_BUFFERSIZE)
  <2> DEFINE ps == AdjustStack(Below(Bytes(k)))
  <2>1. buf' = [buffer |-> <<>>, pieces |-> ps, added |-> buf.added + k, status |-> buf.status]
    BY <1>3 DEF AddValue, BufInv, BufType
  <2>2. Below(Bytes(k)) \in Seq(Text) /\ FlattenSeq(Below(Bytes(k))) = FlattenSeq(Emptied) \o Bytes(k)
    BY <1>1, EmptiedKeeps, AppendProperties, FlattenAppend DEF Below
  <2>3. ps \in Seq(Text) /\ Len(ps) < LIMIT /\ FlattenSeq(ps) = FlattenSeq(Emptied) \o Bytes(k)
    BY <2>2, AdjustKeeps
  <2> HIDE DEF ps
  <2>4. FlattenSeq(ps) = Numbers(0, buf.added) \o Numbers(buf.added, k)
    BY <1>1, <2>3, EmptiedKeeps, HeldText
  <2>5. FlattenSeq(ps) \o <<>> = FlattenSeq(ps)
    BY <2>3, FlattenType, ConcatEmptySeq DEF Text
  <2>6. <<>> \in Text /\ Len(<<>>) <= LUAL_BUFFERSIZE
    BY EmptySeq, BufferAssumption DEF Text
  <2> QED BY <2>1, <2>3, <2>4, <2>5, <2>6, Added
<1> QED BY <1>2, <1>3

LEMMA OnePiece ==
  ASSUME NEW t \in Text
  PROVE  << t >> \in Seq(Text) /\ Len(<< t >>) = 1 /\ FlattenSeq(<< t >>) = t
<1>1. << t >> = Append(<<>>, t) /\ <<>> \in Seq(Text) /\ << t >> \in Seq(Text) /\ Len(<< t >>) = 1
  BY EmptySeq
<1>2. FlattenSeq(Append(<<>>, t)) = FlattenSeq(<<>>) \o t
  BY <1>1, FlattenAppend
<1>3. FlattenSeq(<<>>) = <<>>
  BY EmptySeq DEF FlattenSeq
<1>4. <<>> \o t = t
  BY ConcatEmptySeq DEF Text
<1> QED BY <1>1, <1>2, <1>3, <1>4

LEMMA PushResultStep == ASSUME BufInv, PushResult PROVE BufInv'
<1> DEFINE t == FlattenSeq(Emptied)
<1>1. buf' = [buffer |-> <<>>, pieces |-> << t >>, added |-> buf.added, status |-> "done"]
  BY DEF PushResult, BufInv, BufType
<1>2. t \in Text /\ t = Numbers(0, buf.added)
  BY EmptiedKeeps, HeldText, FlattenType
<1> HIDE DEF t
<1>3. << t >> \in Seq(Text) /\ Len(<< t >>) = 1 /\ FlattenSeq(<< t >>) = t
  BY <1>2, OnePiece
<1>4. t \o <<>> = t /\ <<>> \in Text /\ Len(<<>>) = 0
  BY <1>2, ConcatEmptySeq, EmptySeq DEF Text
<1>5. buf'.buffer = <<>> /\ buf'.pieces = << t >> /\ buf'.added = buf.added
  BY <1>1
<1>6. BufType'
  BY <1>1, <1>3, <1>4, HeldText DEF BufType
<1>7. Numbers(0, buf.added) = [x \in 1..buf.added |-> x]
  <2>1. \A x \in 1..buf.added : 0 + x = x
    BY HeldText
  <2> QED BY <2>1 DEF Numbers
<1>8. TextKept'
  BY <1>2, <1>3, <1>4, <1>5, <1>7 DEF TextKept
<1>9. PiecesBounded'
  BY <1>3, <1>4, <1>5, BufferAssumption DEF PiecesBounded
<1> QED BY <1>6, <1>8, <1>9 DEF BufInv, BufferKept

LEMMA BufInitial == buf \in BufStates => BufInv
<1> SUFFICES ASSUME buf \in BufStates PROVE BufInv
  OBVIOUS
<1>1. buf = [buffer |-> <<>>, pieces |-> <<>>, added |-> 0, status |-> "open"]
  BY DEF BufStates
<1>2. buf.buffer = <<>> /\ buf.pieces = <<>> /\ buf.added = 0
  BY <1>1
<1>3. <<>> \in Text /\ <<>> \in Seq(Text) /\ Len(<<>>) = 0
  BY EmptySeq DEF Text
<1>4. BufType
  BY <1>1, <1>3 DEF BufType
<1>5. FlattenSeq(<<>>) \o <<>> = <<>>
  BY EmptySeq, ConcatEmptySeq DEF FlattenSeq
<1>6. [x \in 1..0 |-> x] = <<>>
  <2>1. [x \in 1..0 |-> x] \in Seq(Int) /\ Len([x \in 1..0 |-> x]) = 0
    OBVIOUS
  <2> QED BY <2>1, EmptySeq
<1>7. TextKept
  BY <1>2, <1>5, <1>6 DEF TextKept
<1>8. PiecesBounded
  BY <1>2, <1>3, BufferAssumption DEF PiecesBounded
<1> QED BY <1>4, <1>7, <1>8 DEF BufInv, BufferKept

(* A buffer holds what was added, in order, in an array of LUAL_BUFFERSIZE     *)
(* bytes and fewer than LIMIT pieces on the stack (luaL_prepbuffer,            *)
(* luaL_addvalue, adjuststack, luaL_pushresult), for any sizes of both and any *)
(* text.                                                                       *)
THEOREM BufferIsKept == BufSpec => []BufferKept
<1>1. BufInv /\ [BufNext]_buf => BufInv'
  <2>1. ASSUME BufInv, UNCHANGED buf PROVE BufInv'
    BY <2>1 DEF BufInv, BufType, BufferKept, TextKept, PiecesBounded
  <2>2. \A k \in 0..LUAL_BUFFERSIZE + 2 : k \in Nat
    BY BufferAssumption
  <2> QED BY <2>1, <2>2, AddCharStep, AddPreparedStep, AddValueStep, PushResultStep DEF BufNext
<1>2. BufInv => BufferKept
  BY DEF BufInv
<1> QED BY <1>1, <1>2, BufInitial, PTL DEF BufSpec

------------------------------------------------------------------------------
(* The free list of references. *)

(* FreeChain of any slots U in any array. *)
Links(free, slots, U, n, order) ==
  /\ \A s \in U : \E k \in 1..n : order[k] = s
  /\ \A k, m \in 1..n : order[k] = order[m] => k = m
  /\ free = IF n = 0 THEN 0 ELSE order[1]
  /\ \A k \in 1..n : slots[order[k]].next = IF k = n THEN 0 ELSE order[k + 1]

Linked(free, slots, U) == \E n \in Nat : \E order \in [1..n -> U] : Links(free, slots, U, n, order)

LEMMA LinksKept ==
  ASSUME NEW free, NEW slots, NEW more, NEW U, \A s \in U : more[s].next = slots[s].next,
         Linked(free, slots, U)
  PROVE  Linked(free, more, U)
<1>0. PICK n \in Nat : \E order \in [1..n -> U] : Links(free, slots, U, n, order)
  BY DEF Linked
<1>1. PICK order \in [1..n -> U] : Links(free, slots, U, n, order)
  BY <1>0
<1>2. Links(free, more, U, n, order)
  BY <1>1 DEF Links
<1> QED BY <1>2 DEF Linked

(* The first slot of the chain is taken off. *)
LEMMA LinksPop ==
  ASSUME NEW free, NEW slots, NEW more, NEW U, 0 \notin U, free # 0, Linked(free, slots, U),
         \A s \in U \ {free} : more[s].next = slots[s].next
  PROVE  free \in U /\ Linked(slots[free].next, more, U \ {free})
<1>0. PICK n \in Nat : \E order \in [1..n -> U] : Links(free, slots, U, n, order)
  BY DEF Linked
<1>1. PICK order \in [1..n -> U] : Links(free, slots, U, n, order)
  BY <1>0
<1>2. n # 0 /\ n - 1 \in Nat /\ free = order[1] /\ 1 \in 1..n /\ free \in U
  BY <1>1 DEF Links
<1> DEFINE rest == [k \in 1..n - 1 |-> order[k + 1]]
<1>3. \A k \in 1..n - 1 : k + 1 \in 1..n /\ k + 1 # 1 /\ rest[k] = order[k + 1]
  BY <1>2
<1>4. rest \in [1..n - 1 -> U \ {free}]
  BY <1>1, <1>2, <1>3 DEF Links
<1> HIDE DEF rest
<1>5. ASSUME NEW s \in U \ {free} PROVE \E k \in 1..n - 1 : rest[k] = s
  <2>1. PICK k \in 1..n : order[k] = s
    BY <1>1 DEF Links
  <2>2. k # 1
    BY <1>2, <2>1
  <2>3. k - 1 \in 1..n - 1 /\ (k - 1) + 1 = k
    BY <2>2
  <2> QED BY <1>3, <2>1, <2>3
<1>6. \A k, m \in 1..n - 1 : rest[k] = rest[m] => k = m
  <2> SUFFICES ASSUME NEW k \in 1..n - 1, NEW m \in 1..n - 1, rest[k] = rest[m] PROVE k = m
    OBVIOUS
  <2>1. k + 1 = m + 1
    BY <1>1, <1>3 DEF Links
  <2> QED BY <2>1
<1>7. slots[free].next = IF n - 1 = 0 THEN 0 ELSE rest[1]
  <2>1. slots[free].next = IF 1 = n THEN 0 ELSE order[1 + 1]
    BY <1>1, <1>2 DEF Links
  <2>2. n - 1 # 0 => 1 \in 1..n - 1
    BY <1>2
  <2>3. n - 1 = 0 <=> 1 = n
    BY <1>2
  <2> QED BY <1>3, <2>1, <2>2, <2>3
<1>8. \A k \in 1..n - 1 : more[rest[k]].next = IF k = n - 1 THEN 0 ELSE rest[k + 1]
  <2> SUFFICES ASSUME NEW k \in 1..n - 1 PROVE more[rest[k]].next = IF k = n - 1 THEN 0 ELSE rest[k + 1]
    OBVIOUS
  <2>1. more[rest[k]].next = slots[order[k + 1]].next
    BY <1>3, <1>4
  <2>2. slots[order[k + 1]].next = IF k + 1 = n THEN 0 ELSE order[(k + 1) + 1]
    BY <1>1, <1>3 DEF Links
  <2>3. k # n - 1 => k + 1 \in 1..n - 1
    OBVIOUS
  <2>4. k + 1 = n <=> k = n - 1
    OBVIOUS
  <2> QED BY <1>3, <2>1, <2>2, <2>3, <2>4
<1>9. Links(slots[free].next, more, U \ {free}, n - 1, rest)
  BY <1>5, <1>6, <1>7, <1>8 DEF Links
<1> QED BY <1>2, <1>4, <1>9 DEF Linked

(* A slot is put in front of the chain. *)
LEMMA LinksPush ==
  ASSUME NEW free, NEW slots, NEW more, NEW U, NEW ref, ref \notin U, Linked(free, slots, U),
         \A s \in U : more[s].next = slots[s].next, more[ref].next = free
  PROVE  Linked(ref, more, U \cup {ref})
<1>0. PICK n \in Nat : \E order \in [1..n -> U] : Links(free, slots, U, n, order)
  BY DEF Linked
<1>1. PICK order \in [1..n -> U] : Links(free, slots, U, n, order)
  BY <1>0
<1> DEFINE longer == [k \in 1..n + 1 |-> IF k = 1 THEN ref ELSE order[k - 1]]
<1>2. /\ n + 1 \in Nat /\ n + 1 # 0 /\ 1 \in 1..n + 1 /\ longer[1] = ref
      /\ \A k \in 1..n : k + 1 \in 1..n + 1 /\ k + 1 # 1 /\ longer[k + 1] = order[k]
      /\ \A k \in 1..n + 1 : k # 1 => k - 1 \in 1..n /\ longer[k] = order[k - 1] /\ longer[k] \in U
  <2>1. \A k \in 1..n : k + 1 \in 1..n + 1 /\ k + 1 # 1 /\ (k + 1) - 1 = k
    OBVIOUS
  <2>2. \A k \in 1..n + 1 : k # 1 => k - 1 \in 1..n
    OBVIOUS
  <2> QED BY <2>1, <2>2
<1>3. longer \in [1..n + 1 -> U \cup {ref}]
  BY <1>2
<1> HIDE DEF longer
<1>4. \A s \in U \cup {ref} : \E k \in 1..n + 1 : longer[k] = s
  <2>1. ASSUME NEW s \in U PROVE \E k \in 1..n + 1 : longer[k] = s
    <3>1. PICK k \in 1..n : order[k] = s
      BY <1>1 DEF Links
    <3> QED BY <1>2, <3>1
  <2> QED BY <1>2, <2>1
<1>5. ASSUME NEW k \in 1..n + 1, NEW m \in 1..n + 1, longer[k] = longer[m] PROVE k = m
  <2>1. CASE k = 1 \/ m = 1
    BY <1>2, <1>5, <2>1
  <2>2. CASE k # 1 /\ m # 1
    <3>1. k - 1 = m - 1
      BY <1>1, <1>2, <1>5, <2>2 DEF Links
    <3> QED BY <3>1
  <2> QED BY <2>1, <2>2
<1>6. ASSUME NEW k \in 1..n + 1
      PROVE  more[longer[k]].next = IF k = n + 1 THEN 0 ELSE longer[k + 1]
  <2>1. CASE k = 1
    <3>1. more[longer[k]].next = free /\ free = IF n = 0 THEN 0 ELSE order[1]
      BY <1>1, <1>2, <2>1 DEF Links
    <3>2. n # 0 => 1 \in 1..n
      OBVIOUS
    <3>3. k = n + 1 <=> n = 0
      BY <2>1
    <3>4. n # 0 => longer[k + 1] = order[1]
      BY <1>2, <2>1, <3>2
    <3> QED BY <3>1, <3>3, <3>4
  <2>2. CASE k # 1
    <3>1. k - 1 \in 1..n /\ longer[k] = order[k - 1] /\ longer[k] \in U
      BY <1>2, <2>2
    <3>2. more[longer[k]].next = IF k - 1 = n THEN 0 ELSE order[(k - 1) + 1]
      BY <1>1, <3>1 DEF Links
    <3>3. (k - 1 = n <=> k = n + 1) /\ (k - 1) + 1 = k /\ (k # n + 1 => k \in 1..n)
      BY <3>1
    <3> QED BY <1>2, <3>2, <3>3
  <2> QED BY <2>1, <2>2
<1>7. Links(ref, more, U \cup {ref}, n + 1, longer)
  BY <1>2, <1>4, <1>5, <1>6 DEF Links
<1> QED BY <1>2, <1>3, <1>7 DEF Linked

Slot == [value : RefValues \cup {NilValue}, next : Nat]
RefType ==
  /\ refs \in [slots : Seq(Slot), free : Nat, live : SUBSET [ref : Nat, value : RefValues]]
  /\ \A r \in refs.live : r.ref \in 1..Len(refs.slots)

RefInv ==
  /\ RefType
  /\ \A r \in refs.live : refs.slots[r.ref].value = r.value
  /\ \A r, q \in refs.live : r.ref = q.ref => r = q
  /\ Linked(refs.free, refs.slots, Unused)

LEMMA SlotsType ==
  ASSUME RefType
  PROVE  /\ Len(refs.slots) \in Nat /\ DOMAIN refs.slots = 1..Len(refs.slots)
         /\ \A k \in 1..Len(refs.slots) : refs.slots[k] \in Slot
  BY LenProperties, ElementOfSeq DEF RefType

(* The slot that is handed out, and what is in the table afterwards. *)
LEMMA RefStep ==
  ASSUME RefInv, NEW v \in RefValues \cup {NilValue}, Ref(v), v # NilValue
  PROVE  RefInv'
<1> DEFINE len == Len(refs.slots)
           ref == IF refs.free # 0 THEN refs.free ELSE len + 1
           rec == [ref |-> ref, value |-> v]
           slots == IF refs.free # 0 THEN [refs.slots EXCEPT ![ref] = Kept(v)] ELSE Append(refs.slots, Kept(v))
           free == IF refs.free # 0 THEN refs.slots[ref].next ELSE 0
<1>1. refs' = [slots |-> slots, free |-> free, live |-> refs.live \cup {rec}]
  BY DEF Ref
<1>2. /\ len \in Nat /\ DOMAIN refs.slots = 1..len /\ v \in RefValues /\ refs.free \in Nat
      /\ refs.slots \in Seq(Slot) /\ refs.live \in SUBSET [ref : Nat, value : RefValues]
      /\ \A k \in 1..len : refs.slots[k] \in Slot
      /\ \A r \in refs.live : r.ref \in 1..len
  BY SlotsType DEF RefInv, RefType
<1>3. Kept(v) \in Slot /\ Kept(v).value = v
  BY <1>2 DEF Kept, Slot
<1>4. /\ ref \notin {r.ref : r \in refs.live} /\ ref \in Nat \ {0}
      /\ slots \in Seq(Slot) /\ free \in Nat
      /\ Len(slots) \in Nat /\ DOMAIN slots = 1..Len(slots) /\ 1..Len(slots) = (1..len) \cup {ref}
      /\ slots[ref] = Kept(v) /\ \A k \in 1..len : k # ref => slots[k] = refs.slots[k]
      /\ Linked(free, slots, Unused \ {ref})
  <2>1. 0 \notin Unused /\ Linked(refs.free, refs.slots, Unused)
    BY <1>2 DEF Unused, RefInv
  <2>2. CASE refs.free # 0
    <3>1. ref = refs.free /\ slots = [refs.slots EXCEPT ![ref] = Kept(v)] /\ free = refs.slots[refs.free].next
      BY <2>2
    <3> HIDE DEF ref, slots, free, len
    <3>2. \A s \in Unused \ {refs.free} : slots[s].next = refs.slots[s].next
      BY <1>2, <3>1 DEF Unused
    <3>3. refs.free \in Unused /\ Linked(free, slots, Unused \ {ref})
      BY <2>1, <2>2, <3>1, <3>2, LinksPop
    <3>4. ref \in 1..len /\ ref \notin {r.ref : r \in refs.live}
      BY <1>2, <3>1, <3>3 DEF Unused
    <3>5. slots \in Seq(Slot) /\ Len(slots) = len /\ slots[ref] = Kept(v)
          /\ \A k \in 1..len : k # ref => slots[k] = refs.slots[k]
      BY <1>2, <1>3, <3>1, <3>4, ExceptSeq DEF len
    <3>6. DOMAIN slots = 1..Len(slots)
      BY <3>5, LenProperties
    <3>7. free \in Nat
      BY <1>2, <3>1, <3>4 DEF Slot
    <3> QED BY <1>2, <3>3, <3>4, <3>5, <3>6, <3>7
  <2>3. CASE refs.free = 0
    <3>1. ref = len + 1 /\ slots = Append(refs.slots, Kept(v)) /\ free = 0
      BY <2>3
    <3> HIDE DEF ref, slots, free
    <3>2. /\ slots \in Seq(Slot) /\ Len(slots) = len + 1 /\ slots[ref] = Kept(v)
          /\ \A k \in 1..len : slots[k] = refs.slots[k]
      BY <1>2, <1>3, <3>1, AppendProperties
    <3>3. DOMAIN slots = 1..Len(slots)
      BY <3>2, LenProperties
    <3> HIDE DEF len
    <3>4. ref \notin {r.ref : r \in refs.live} /\ ref \notin Unused
      BY <1>2, <3>1 DEF Unused
    <3>5. Linked(free, slots, Unused)
      <4>1. \A s \in Unused : slots[s].next = refs.slots[s].next
        BY <1>2, <3>2 DEF Unused
      <4> QED BY <2>1, <2>3, <3>1, <4>1, LinksKept
    <3>6. Unused \ {ref} = Unused
      BY <3>4
    <3>7. ref \in Nat \ {0} /\ 1..len + 1 = (1..len) \cup {ref} /\ len + 1 \in Nat /\ free \in Nat
      BY <1>2, <3>1
    <3>8. Linked(free, slots, Unused \ {ref})
      BY <3>5, <3>6
    <3> QED BY <3>2, <3>3, <3>4, <3>7, <3>8
  <2> QED BY <2>2, <2>3
<1> HIDE DEF slots, free, ref
<1>5. rec.ref = ref /\ rec.value = v /\ rec \in [ref : Nat, value : RefValues]
  BY <1>2, <1>4
<1> HIDE DEF rec
<1>6. refs'.slots = slots /\ refs'.free = free /\ refs'.live = refs.live \cup {rec}
  BY <1>1
<1>7. RefType'
  <2>1. refs' \in [slots : Seq(Slot), free : Nat, live : SUBSET [ref : Nat, value : RefValues]]
    BY <1>1, <1>2, <1>4, <1>5
  <2>2. \A r \in refs.live \cup {rec} : r.ref \in 1..Len(slots)
    BY <1>2, <1>4, <1>5
  <2> QED BY <1>6, <2>1, <2>2 DEF RefType
<1>8. \A r \in refs.live : r.ref # ref /\ r.ref \in 1..len
  BY <1>2, <1>4
<1>9. \A r \in refs.live \cup {rec} : slots[r.ref].value = r.value
  BY <1>3, <1>4, <1>5, <1>8 DEF RefInv
<1>10. \A r, q \in refs.live \cup {rec} : r.ref = q.ref => r = q
  BY <1>5, <1>8 DEF RefInv
<1>11. Unused' = Unused \ {ref}
  <2>1. {r.ref : r \in refs.live \cup {rec}} = {r.ref : r \in refs.live} \cup {ref}
    BY <1>5
  <2> QED BY <1>2, <1>4, <1>6, <2>1 DEF Unused
<1> QED BY <1>4, <1>6, <1>7, <1>9, <1>10, <1>11 DEF RefInv

LEMMA UnrefStep ==
  ASSUME RefInv, NEW r \in refs.live, Unref(r)
  PROVE  RefInv'
<1> DEFINE len == Len(refs.slots)
           ref == r.ref
           slots == [refs.slots EXCEPT ![ref] = Free(refs.free)]
<1>1. refs' = [slots |-> slots, free |-> ref, live |-> refs.live \ {r}]
  BY DEF Unref, Chained
<1>2. /\ len \in Nat /\ DOMAIN refs.slots = 1..len /\ refs.free \in Nat
      /\ refs.slots \in Seq(Slot) /\ refs.live \in SUBSET [ref : Nat, value : RefValues]
      /\ \A q \in refs.live : q.ref \in 1..len
  BY SlotsType DEF RefInv, RefType
<1>3. Free(refs.free) \in Slot /\ Free(refs.free).next = refs.free
  BY <1>2 DEF Free, Slot
<1>4. ref \in 1..len /\ ref \in Nat
  BY <1>2
<1>5. /\ slots \in Seq(Slot) /\ Len(slots) = len /\ slots[ref] = Free(refs.free)
      /\ \A k \in 1..len : k # ref => slots[k] = refs.slots[k]
  BY <1>2, <1>3, <1>4, ExceptSeq
<1>6. DOMAIN slots = 1..len
  BY <1>5, LenProperties
<1> HIDE DEF slots
<1>7. refs'.slots = slots /\ refs'.free = ref /\ refs'.live = refs.live \ {r}
  BY <1>1
<1>8. \A q \in refs.live \ {r} : q.ref # ref
  BY DEF RefInv
<1>9. {q.ref : q \in refs.live} = {q.ref : q \in refs.live \ {r}} \cup {ref}
  OBVIOUS
<1> HIDE DEF ref, len
<1>10. Unused' = Unused \cup {ref} /\ ref \notin Unused
  <2> DEFINE L == {q.ref : q \in refs.live \ {r}}
  <2>1. ref \notin L
    BY <1>8
  <2> HIDE DEF L
  <2>2. Unused = (1..len) \ (L \cup {ref})
    BY <1>2, <1>9 DEF Unused, L
  <2>3. Unused' = (1..len) \ L
    BY <1>6, <1>7 DEF Unused, L
  <2> QED BY <1>4, <2>1, <2>2, <2>3
<1>11. Linked(ref, slots, Unused \cup {ref})
  <2>1. \A s \in Unused : slots[s].next = refs.slots[s].next
    BY <1>2, <1>5, <1>10 DEF Unused
  <2> QED BY <1>3, <1>5, <1>10, <2>1, LinksPush DEF RefInv
<1>12. RefType'
  <2>1. refs' \in [slots : Seq(Slot), free : Nat, live : SUBSET [ref : Nat, value : RefValues]]
    BY <1>1, <1>2, <1>4, <1>5
  <2> QED BY <1>2, <1>5, <1>7, <2>1 DEF RefType
<1>13. \A q \in refs.live \ {r} : slots[q.ref].value = q.value
  BY <1>2, <1>5, <1>8 DEF RefInv
<1>14. \A p, q \in refs.live \ {r} : p.ref = q.ref => p = q
  BY DEF RefInv
<1> QED BY <1>7, <1>10, <1>11, <1>12, <1>13, <1>14 DEF RefInv

LEMMA RefInitial == refs \in RefStates => RefInv
<1> SUFFICES ASSUME refs \in RefStates PROVE RefInv
  OBVIOUS
<1>1. refs = [slots |-> <<>>, free |-> 0, live |-> {}]
  BY DEF RefStates
<1>2. refs.slots = <<>> /\ refs.free = 0 /\ refs.live = {} /\ DOMAIN refs.slots = {}
  BY <1>1
<1>3. RefType
  <2>1. <<>> \in Seq(Slot)
    BY EmptySeq
  <2> QED BY <1>1, <2>1 DEF RefType
<1>4. Unused = {}
  BY <1>2 DEF Unused
<1>5. Linked(0, <<>>, {})
  <2> DEFINE order == [k \in 1..0 |-> 0]
  <2>1. order \in [1..0 -> {}] /\ Links(0, <<>>, {}, 0, order)
    BY DEF Links
  <2> QED BY <2>1 DEF Linked
<1> QED BY <1>2, <1>3, <1>4, <1>5 DEF RefInv

(* A chain is no longer than the array. *)
LEMMA ChainFits == ASSUME RefInv PROVE ReferencesKept
<1> DEFINE len == Len(refs.slots)
<1>1. len \in Nat /\ DOMAIN refs.slots = 1..len
  BY SlotsType DEF RefInv
<1>2. PICK n \in Nat : \E order \in [1..n -> Unused] : Links(refs.free, refs.slots, Unused, n, order)
  BY DEF RefInv, Linked
<1>3. PICK order \in [1..n -> Unused] : Links(refs.free, refs.slots, Unused, n, order)
  BY <1>2
<1>4. FreeChain(n, order)
  BY <1>3 DEF FreeChain, Links
<1>5. n <= len
  <2>1. Unused \in SUBSET (1..len)
    BY <1>1 DEF Unused
  <2>2. order \in [1..n -> 1..len] /\ \A i, j \in 1..n : order[i] = order[j] => i = j
    BY <1>3, <2>1 DEF Links
  <2> QED BY <1>1, <2>2, PositionsFit
<1>6. n \in 0..len
  BY <1>1, <1>5
<1> QED BY <1>3, <1>4, <1>6 DEF ReferencesKept, RefInv

(* References that are held are different and keep their values, and the      *)
(* free list holds every other slot once (luaL_ref, luaL_unref), for any      *)
(* values and any number of slots.                                            *)
THEOREM ReferencesAreKept == RefSpec => []ReferencesKept
<1>1. RefInv /\ [RefNext]_refs => RefInv'
  <2>1. ASSUME RefInv, UNCHANGED refs PROVE RefInv'
    BY <2>1 DEF RefInv, RefType, Unused
  <2>2. ASSUME NEW v, v = NilValue, Ref(v) PROVE UNCHANGED refs
    BY <2>2 DEF Ref
  <2> QED BY <2>1, <2>2, RefStep, UnrefStep DEF RefNext
<1> QED BY <1>1, RefInitial, ChainFits, PTL DEF RefSpec
==============================================================================
