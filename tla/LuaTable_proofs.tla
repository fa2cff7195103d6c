--------------------------- MODULE LuaTable_proofs ---------------------------
(***************************************************************************)
(* What tables promise, for any keys, hash values and values: theorems     *)
(* about LuaTable.  The first parts say what a chained scatter table looks *)
(* like and how a search goes through it, then what inserting a key does   *)
(* to it, then a rehash, then where traversals find a key; the invariant   *)
(* and one lemma per action follow, and the theorems.                      *)
(***************************************************************************)
EXTENDS LuaTable, Induction, SequenceTheorems, TLAPS

------------------------------------------------------------------------------
(* Chains.  R[i] are the nodes from i on, as a set. *)

Ordered(nd, R) ==
  /\ R \in [DOMAIN nd -> SUBSET DOMAIN nd]
  /\ \A i \in DOMAIN nd :
       /\ nd[i].next = Nil => R[i] = {i}
       /\ nd[i].next # Nil => nd[i].next \in DOMAIN nd /\ i \notin R[nd[i].next] /\ R[i] = {i} \cup R[nd[i].next]
       /\ \A j \in R[i] : R[j] \subseteq R[i]
  /\ \A i, j \in DOMAIN nd : nd[i].next = nd[j].next /\ nd[i].next # Nil => i = j

LEMMA SelfReached == ASSUME NEW nd, NEW R, Ordered(nd, R), NEW i \in DOMAIN nd PROVE i \in R[i]
BY DEF Ordered

(* No node comes before itself. *)
LEMMA NoCycle ==
  ASSUME NEW nd, NEW R, Ordered(nd, R), NEW i \in DOMAIN nd, NEW j \in R[i], i \in R[j]
  PROVE  j = i
<1> SUFFICES ASSUME j # i PROVE FALSE
  OBVIOUS
<1>1. nd[i].next # Nil /\ nd[i].next \in DOMAIN nd /\ j \in R[nd[i].next] /\ i \notin R[nd[i].next]
  BY DEF Ordered
<1>2. R[j] \subseteq R[nd[i].next]
  BY <1>1 DEF Ordered
<1> QED BY <1>1, <1>2

(* The recursion of Chain, on the nodes with at most k nodes from them on. *)
Follows(nd, S, f) == f = [j \in S \cup {Nil} |-> IF j = Nil THEN <<>> ELSE <<j>> \o f[nd[j].next]]

LEMMA Shrinks ==
  ASSUME NEW nd, NEW R, Ordered(nd, R), IsFiniteSet(DOMAIN nd), NEW i \in DOMAIN nd
  PROVE  /\ Cardinality(R[i]) \in Nat \ {0} /\ Cardinality(R[i]) <= Cardinality(DOMAIN nd)
         /\ nd[i].next # Nil => Cardinality(R[i]) = Cardinality(R[nd[i].next]) + 1
<1>1. R[i] \in SUBSET DOMAIN nd
  BY DEF Ordered
<1>2. IsFiniteSet(R[i]) /\ Cardinality(R[i]) \in Nat /\ Cardinality(R[i]) <= Cardinality(DOMAIN nd)
  BY <1>1, FS_Subset, FS_CardinalityType
<1>3. i \in R[i]
  BY SelfReached
<1>4. Cardinality(R[i]) # 0
  BY <1>2, <1>3, FS_EmptySet
<1>5. ASSUME nd[i].next # Nil PROVE Cardinality(R[i]) = Cardinality(R[nd[i].next]) + 1
  <2> DEFINE n == nd[i].next
  <2>1. n \in DOMAIN nd /\ i \notin R[n] /\ R[i] = R[n] \cup {i} /\ R[n] \in SUBSET DOMAIN nd
    BY <1>5 DEF Ordered
  <2> HIDE DEF n
  <2>2. IsFiniteSet(R[n])
    BY <2>1, FS_Subset
  <2>3. Cardinality(R[n] \cup {i}) = Cardinality(R[n]) + 1
    BY <2>1, <2>2, FS_AddElement
  <2> QED BY <2>1, <2>3 DEF n
<1> QED BY <1>2, <1>4, <1>5

LEMMA FollowsExists ==
  ASSUME NEW nd, NEW R, Ordered(nd, R), IsFiniteSet(DOMAIN nd), Nil \notin DOMAIN nd
  PROVE  \E f : Follows(nd, DOMAIN nd, f)
<1> DEFINE Near(k) == {j \in DOMAIN nd : Cardinality(R[j]) <= k}
           S == {k \in Nat : \E f : Follows(nd, Near(k), f)}
<1>1. 0 \in S
  <2>1. Near(0) = {}
    BY Shrinks
  <2> DEFINE f == [j \in {Nil} |-> <<>>]
  <2>2. Follows(nd, {}, f)
    BY DEF Follows
  <2> QED BY <2>1, <2>2
<1>2. ASSUME NEW k \in Nat, k \in S PROVE k + 1 \in S
  <2>1. PICK f : Follows(nd, Near(k), f)
    BY <1>2
  <2> DEFINE g == [j \in Near(k + 1) \cup {Nil} |-> IF j = Nil THEN <<>> ELSE <<j>> \o f[nd[j].next]]
  <2>2. \A j \in Near(k) \cup {Nil} : f[j] = IF j = Nil THEN <<>> ELSE <<j>> \o f[nd[j].next]
    BY <2>1 DEF Follows
  <2>3. ASSUME NEW j \in Near(k + 1) PROVE nd[j].next \in Near(k) \cup {Nil}
    <3>1. nd[j].next # Nil => nd[j].next \in DOMAIN nd /\ Cardinality(R[nd[j].next]) \in Nat
                             /\ Cardinality(R[j]) = Cardinality(R[nd[j].next]) + 1
      BY Shrinks DEF Ordered
    <3> QED BY <3>1
  <2>4. Near(k) \subseteq Near(k + 1)
    BY Shrinks
  <2>5. \A j \in Near(k) \cup {Nil} : g[j] = f[j]
    BY <2>2, <2>4
  <2> HIDE DEF Near
  <2>6. \A j \in Near(k + 1) : g[nd[j].next] = f[nd[j].next]
    BY <2>3, <2>5
  <2>7. \A j \in Near(k + 1) \cup {Nil} : g[j] = IF j = Nil THEN <<>> ELSE <<j>> \o g[nd[j].next]
    BY <2>6
  <2>8. g = [j \in Near(k + 1) \cup {Nil} |-> g[j]]
    OBVIOUS
  <2> HIDE DEF g
  <2>9. Follows(nd, Near(k + 1), g)
    BY <2>7, <2>8, Zenon DEF Follows
  <2> QED BY <2>9
<1> HIDE DEF S
<1>3. \A k \in Nat : k \in S
  BY <1>1, <1>2, SetInduction
<1> DEFINE n == Cardinality(DOMAIN nd)
<1>4. n \in S
  BY <1>3, FS_CardinalityType
<1>5. Near(n) = DOMAIN nd
  BY Shrinks
<1> QED BY <1>4, <1>5 DEF S

(* s lists the nodes from i on, in the order of their links. *)
Lists(nd, R, i, s) ==
  /\ s \in Seq(DOMAIN nd) /\ Len(s) \in Nat \ {0} /\ s[1] = i
  /\ \A q \in 1 .. Len(s) : s[q] \in R[i]
  /\ \A j \in R[i] : \E q \in 1 .. Len(s) : s[q] = j
  /\ \A q \in 1 .. Len(s) : q + 1 \in 1 .. Len(s) => nd[s[q]].next = s[q + 1]
  /\ \A p, q \in 1 .. Len(s) : p <= q => s[q] \in R[s[p]]

LEMMA ListsOne ==
  ASSUME NEW nd, NEW R, Ordered(nd, R), NEW i \in DOMAIN nd, nd[i].next = Nil
  PROVE  Lists(nd, R, i, <<i>> \o <<>>)
<1> DEFINE s == <<i>>
<1>1. s \in Seq(DOMAIN nd) /\ Len(s) = 1 /\ s[1] = i /\ <<i>> \o <<>> = s
  <2>1. <<i>> \in Seq(DOMAIN nd)
    OBVIOUS
  <2> QED BY <2>1, ConcatEmptySeq
<1>2. R[i] = {i}
  BY DEF Ordered
<1> HIDE DEF s
<1> QED BY <1>1, <1>2 DEF Lists

LEMMA ListsMore ==
  ASSUME NEW nd, NEW R, Ordered(nd, R), NEW i \in DOMAIN nd, nd[i].next # Nil,
         NEW s, Lists(nd, R, nd[i].next, s)
  PROVE  Lists(nd, R, i, <<i>> \o s)
<1> DEFINE n == nd[i].next
           r == <<i>> \o s
<1>1. n \in DOMAIN nd /\ i \notin R[n] /\ R[i] = {i} \cup R[n]
  BY DEF Ordered
<1>2. s \in Seq(DOMAIN nd) /\ Len(s) \in Nat \ {0} /\ s[1] = n
  BY DEF Lists
<1>3. <<i>> \in Seq(DOMAIN nd) /\ Len(<<i>>) = 1 /\ <<i>>[1] = i
  OBVIOUS
<1>4. r \in Seq(DOMAIN nd) /\ Len(r) = Len(s) + 1
  BY <1>2, <1>3, ConcatProperties
<1>5. r[1] = i /\ \A q \in 1 .. Len(s) : r[q + 1] = s[q]
  <2>1. \A q \in 1 .. 1 + Len(s) : r[q] = IF q <= 1 THEN <<i>>[q] ELSE s[q - 1]
    BY <1>2, <1>3, ConcatProperties
  <2>2. ASSUME NEW q \in 1 .. Len(s) PROVE q + 1 \in 1 .. 1 + Len(s) /\ ~(q + 1 <= 1) /\ (q + 1) - 1 = q
    BY <1>2
  <2>3. 1 \in 1 .. 1 + Len(s)
    BY <1>2
  <2> HIDE DEF r
  <2> QED BY <1>3, <2>1, <2>2, <2>3
<1> HIDE DEF r
<1>6. ASSUME NEW q \in 1 .. Len(r) PROVE q = 1 \/ (q # 1 /\ q - 1 \in 1 .. Len(s) /\ (q - 1) + 1 = q /\ r[q] = s[q - 1])
  <2>1. q = 1 \/ (q # 1 /\ q - 1 \in 1 .. Len(s) /\ (q - 1) + 1 = q)
    BY <1>2, <1>4
  <2> QED BY <1>5, <2>1
<1>7. \A q \in 1 .. Len(r) : r[q] \in R[i]
  BY <1>1, <1>5, <1>6 DEF Lists
<1>8. ASSUME NEW j \in R[i] PROVE \E q \in 1 .. Len(r) : r[q] = j
  <2>1. CASE j = i
    <3>1. 1 \in 1 .. Len(r)
      BY <1>2, <1>4
    <3> QED BY <1>5, <2>1, <3>1
  <2>2. CASE j # i
    <3>1. PICK q \in 1 .. Len(s) : s[q] = j
      BY <1>1, <2>2 DEF Lists
    <3>2. q + 1 \in 1 .. Len(r)
      BY <1>2, <1>4
    <3> QED BY <1>5, <3>1, <3>2
  <2> QED BY <2>1, <2>2
<1>9. ASSUME NEW q \in 1 .. Len(r), q + 1 \in 1 .. Len(r) PROVE nd[r[q]].next = r[q + 1]
  <2>1. q \in 1 .. Len(s) /\ r[q + 1] = s[q]
    <3>1. q \in 1 .. Len(s)
      BY <1>2, <1>4, <1>9
    <3> QED BY <1>5, <3>1
  <2>2. CASE q = 1
    BY <1>2, <1>5, <2>1, <2>2
  <2>3. CASE q # 1
    <3>1. q - 1 \in 1 .. Len(s) /\ (q - 1) + 1 = q /\ r[q] = s[q - 1]
      BY <1>6, <2>3
    <3>2. nd[s[q - 1]].next = s[(q - 1) + 1]
      BY <2>1, <3>1 DEF Lists
    <3> QED BY <2>1, <3>1, <3>2
  <2> QED BY <2>2, <2>3
<1>10. ASSUME NEW p \in 1 .. Len(r), NEW q \in 1 .. Len(r), p <= q PROVE r[q] \in R[r[p]]
  <2>1. CASE p = 1
    BY <1>5, <1>7, <2>1
  <2>2. CASE p # 1
    <3>1. q # 1 /\ p - 1 <= q - 1
      BY <1>10, <2>2
    <3>2. p - 1 \in 1 .. Len(s) /\ q - 1 \in 1 .. Len(s) /\ r[p] = s[p - 1] /\ r[q] = s[q - 1]
      BY <1>6, <2>2, <3>1
    <3>3. s[q - 1] \in R[s[p - 1]]
      BY <3>1, <3>2 DEF Lists
    <3> QED BY <3>2, <3>3
  <2> QED BY <2>1, <2>2
<1>11. Len(r) \in Nat \ {0}
  BY <1>2, <1>4
<1> QED BY <1>4, <1>5, <1>7, <1>8, <1>9, <1>10, <1>11 DEF Lists, r

LEMMA FollowsLists ==
  ASSUME NEW nd, NEW R, Ordered(nd, R), IsFiniteSet(DOMAIN nd), Nil \notin DOMAIN nd,
         NEW f, Follows(nd, DOMAIN nd, f)
  PROVE  \A i \in DOMAIN nd : Lists(nd, R, i, f[i])
<1>1. \A j \in DOMAIN nd \cup {Nil} : f[j] = IF j = Nil THEN <<>> ELSE <<j>> \o f[nd[j].next]
  BY DEF Follows
<1> DEFINE S == {k \in Nat : \A i \in DOMAIN nd : Cardinality(R[i]) <= k => Lists(nd, R, i, f[i])}
<1>2. 0 \in S
  BY Shrinks
<1>3. ASSUME NEW k \in Nat, k \in S PROVE k + 1 \in S
  <2> SUFFICES ASSUME NEW i \in DOMAIN nd, Cardinality(R[i]) <= k + 1 PROVE Lists(nd, R, i, f[i])
    OBVIOUS
  <2>1. CASE nd[i].next = Nil
    <3>1. f[i] = <<i>> \o f[Nil] /\ f[Nil] = <<>>
      BY <1>1, <2>1
    <3> QED BY <2>1, <3>1, ListsOne
  <2>2. CASE nd[i].next # Nil
    <3> DEFINE n == nd[i].next
    <3>1. n \in DOMAIN nd /\ Cardinality(R[n]) <= k
      <4>1. n \in DOMAIN nd
        BY <2>2 DEF Ordered
      <4>2. Cardinality(R[i]) = Cardinality(R[n]) + 1 /\ Cardinality(R[n]) \in Nat
        BY <2>2, <4>1, Shrinks
      <4> HIDE DEF n
      <4> QED BY <4>1, <4>2
    <3>2. Lists(nd, R, n, f[n])
      BY <1>3, <3>1
    <3>3. f[i] = <<i>> \o f[n]
      BY <1>1
    <3> QED BY <2>2, <3>2, <3>3, ListsMore
  <2> QED BY <2>1, <2>2
<1> HIDE DEF S
<1>4. \A k \in Nat : k \in S
  BY <1>2, <1>3, SetInduction
<1>5. Cardinality(DOMAIN nd) \in S /\ \A i \in DOMAIN nd : Cardinality(R[i]) <= Cardinality(DOMAIN nd)
  BY <1>4, FS_CardinalityType, Shrinks
<1> QED BY <1>5 DEF S

LEMMA ChainLists ==
  ASSUME NEW tb, NEW R, Ordered(tb.node, R), IsFiniteSet(DOMAIN tb.node), Nil \notin DOMAIN tb.node,
         tb.node # <<>>, NEW i \in DOMAIN tb.node
  PROVE  Lists(tb.node, R, i, Chain(tb, i))
<1> DEFINE f == CHOOSE f : Follows(tb.node, DOMAIN tb.node, f)
<1>1. Follows(tb.node, DOMAIN tb.node, f)
  BY FollowsExists, Zenon
<1>2. Chain(tb, i) = f[i]
  BY Zenon DEF Chain, Follows
<1> HIDE DEF f
<1> QED BY <1>1, <1>2, FollowsLists

------------------------------------------------------------------------------
(* What the assumptions say of the keys, and what every table looks like. *)

HashOK ==
  /\ Key \subseteq 1 .. MAX_INT \cup Collectable
  /\ \A k \in Key : hash[k] \in Nat
  /\ IsFiniteSet(Key) /\ \E p \in TwoTo : Cardinality(Key) <= p

Shape(tb) ==
  /\ \E n \in TwoTo \cup {0} :
       tb \in [array : Seq(Entry), node : [0 .. n - 1 -> NodeRecord], lastfree : 0 .. n]
  /\ \A i \in DOMAIN tb.node : tb.node[i].dead => tb.node[i].val = Nil
  /\ \A i \in 1 .. sizearray(tb) : tb.array[i] # Nil => i \in Key

Live(x) == x.key # Nil /\ ~x.dead

(* Where the nodes of keys are: in the chains of their main positions, which *)
(* a node that has its own main position begins, and before any dead node    *)
(* whose key has become the same.                                            *)
Placed(tb, R) ==
  \A i \in DOMAIN tb.node : Live(tb.node[i]) =>
    LET k == tb.node[i].key
        mp == mainposition(tb, k)
    IN /\ k \in Key /\ ~InArray(tb, k)
       /\ i \in R[mp]
       /\ \A j \in R[mp] : i \in R[j] /\ j # i => tb.node[j].key # k
       /\ \A j \in DOMAIN tb.node : Live(tb.node[j]) /\ tb.node[j].key = k => j = i
       /\ i # mp /\ Live(tb.node[mp]) => mainposition(tb, tb.node[mp].key) = mp

(* Nodes that have had no key are in no chain. *)
Unused(nd) ==
  \A i \in DOMAIN nd : nd[i].key = Nil =>
    nd[i].val = Nil /\ nd[i].next = Nil /\ ~nd[i].dead /\ \A j \in DOMAIN nd : nd[j].next # i

Good(tb, R) == Shape(tb) /\ Ordered(tb.node, R) /\ Placed(tb, R) /\ Unused(tb.node)

(* A chained scatter table. *)
Scatter(tb) == \E R : Good(tb, R)

LEMMA TwoToType == TwoTo \subseteq Nat \ {0}
<1> DEFINE Doubles(k, f) == f = [x \in 0 .. k |-> IF x = 0 THEN 1 ELSE 2 * f[x - 1]]
           S == {k \in Nat : \E f : Doubles(k, f)}
<1>1. 0 \in S
  <2> DEFINE f == [x \in 0 .. 0 |-> 1]
  <2>1. Doubles(0, f)
    OBVIOUS
  <2> QED BY <2>1
<1>2. ASSUME NEW k \in Nat, k \in S PROVE k + 1 \in S
  <2>1. PICK f : Doubles(k, f)
    BY <1>2
  <2> DEFINE g == [x \in 0 .. k + 1 |-> IF x = k + 1 THEN 2 * f[k] ELSE f[x]]
  <2>2. ASSUME NEW x \in 0 .. k + 1 PROVE g[x] = IF x = 0 THEN 1 ELSE 2 * g[x - 1]
    <3>1. CASE x = k + 1
      BY <3>1
    <3>2. CASE x # k + 1
      <4>1. x \in 0 .. k /\ g[x] = f[x] /\ (x # 0 => g[x - 1] = f[x - 1])
        BY <3>2
      <4>2. f[x] = IF x = 0 THEN 1 ELSE 2 * f[x - 1]
        BY <2>1, <4>1
      <4> QED BY <4>1, <4>2
    <3> QED BY <3>1, <3>2
  <2>3. g = [x \in 0 .. k + 1 |-> g[x]]
    OBVIOUS
  <2> HIDE DEF g
  <2>4. Doubles(k + 1, g)
    BY <2>2, <2>3, Zenon
  <2> HIDE DEF Doubles
  <2> QED BY <2>4
<1> HIDE DEF S
<1>3. 26 \in S
  BY <1>1, <1>2, SetInduction
<1>4. Doubles(26, twoto)
  <2>1. \E f : Doubles(26, f)
    BY <1>3 DEF S
  <2>2. twoto = CHOOSE f : Doubles(26, f)
    BY Zenon DEF twoto, MAXBITS
  <2> HIDE DEF Doubles
  <2> QED BY <2>1, <2>2, Zenon
<1>5. \A x \in 0 .. 26 : twoto[x] = IF x = 0 THEN 1 ELSE 2 * twoto[x - 1]
  BY <1>4
<1> DEFINE T == {k \in Nat : k \in 0 .. 26 => twoto[k] \in Nat \ {0}}
<1>6. 0 \in T
  BY <1>5
<1>7. ASSUME NEW k \in Nat, k \in T PROVE k + 1 \in T
  BY <1>5, <1>7
<1> HIDE DEF T
<1>8. \A k \in Nat : k \in T
  BY <1>6, <1>7, SetInduction
<1> QED BY <1>8 DEF T, TwoTo, MAXBITS

LEMMA EmptyFunction == ASSUME NEW S, NEW f \in [0 .. -1 -> S] PROVE f = <<>>
<1>1. 0 .. -1 = 1 .. 0
  OBVIOUS
<1>2. f \in [1 .. 0 -> S]
  BY <1>1
<1>3. f \in Seq(S) /\ Len(f) = 0
  BY <1>2
<1> QED BY <1>3, EmptySeq

LEMMA NilKinds == Nil \notin Value /\ Nil \notin Collectable /\ Nil \notin Nat /\ Nil \notin Int
BY ValueAssumption

(* The number of nodes, and the functions of nodes. *)
Tables(D) == [array : Seq(Entry), node : [D -> NodeRecord], lastfree : 0 .. Cardinality(D)]

LEMMA Nodes ==
  ASSUME NEW tb, Shape(tb)
  PROVE  /\ IsFiniteSet(DOMAIN tb.node) /\ Cardinality(DOMAIN tb.node) \in TwoTo \cup {0}
         /\ Cardinality(DOMAIN tb.node) \in Nat
         /\ DOMAIN tb.node = 0 .. Cardinality(DOMAIN tb.node) - 1
         /\ tb.node \in [DOMAIN tb.node -> NodeRecord]
         /\ tb \in Tables(DOMAIN tb.node)
         /\ tb.array \in Seq(Entry) /\ Len(tb.array) \in Nat
         /\ Nil \notin DOMAIN tb.node
         /\ tb.node = <<>> <=> Cardinality(DOMAIN tb.node) = 0
<1>1. PICK n \in TwoTo \cup {0} :
        tb \in [array : Seq(Entry), node : [0 .. n - 1 -> NodeRecord], lastfree : 0 .. n]
  BY DEF Shape
<1>2. n \in Nat
  BY TwoToType
<1>3. IsFiniteSet(0 .. n - 1) /\ Cardinality(0 .. n - 1) = n
  <2>1. 0 \in Int /\ n - 1 \in Int
    BY <1>2
  <2>2. IsFiniteSet(0 .. n - 1) /\ Cardinality(0 .. n - 1) = IF 0 > n - 1 THEN 0 ELSE (n - 1) - 0 + 1
    BY <2>1, FS_Interval
  <2> QED BY <1>2, <2>2
<1>4. tb.node \in [0 .. n - 1 -> NodeRecord] /\ DOMAIN tb.node = 0 .. n - 1 /\ tb.array \in Seq(Entry)
  BY <1>1
<1>5. tb.node = <<>> <=> n = 0
  <2>1. CASE n = 0
    BY <1>4, <2>1, EmptyFunction
  <2>2. CASE n # 0
    <3>1. 0 \in DOMAIN tb.node
      BY <1>2, <1>4, <2>2
    <3>2. DOMAIN <<>> = {}
      OBVIOUS
    <3> QED BY <2>2, <3>1, <3>2
  <2> QED BY <2>1, <2>2
<1>6. Nil \notin 0 .. n - 1
  BY <1>2, NilKinds
<1>7. Len(tb.array) \in Nat
  BY <1>4, LenProperties
<1>8. tb \in Tables(DOMAIN tb.node)
  BY <1>1, <1>3, <1>4 DEF Tables
<1> QED BY <1>2, <1>3, <1>4, <1>5, <1>6, <1>7, <1>8

LEMMA Remainder == ASSUME NEW a \in Nat, NEW b \in Nat \ {0} PROVE a % b \in 0 .. b - 1
OBVIOUS

LEMMA MainPosition ==
  ASSUME HashOK, NEW tb, Shape(tb), tb.node # <<>>, NEW k \in Key
  PROVE  mainposition(tb, k) \in DOMAIN tb.node
<1> DEFINE n == Cardinality(DOMAIN tb.node)
<1>1. n \in Nat \ {0} /\ DOMAIN tb.node = 0 .. n - 1 /\ hash[k] \in Nat
  BY Nodes DEF HashOK
<1>2. sizenode(tb) = n
  BY DEF sizenode
<1> HIDE DEF n
<1>3. hash[k] % n \in 0 .. n - 1
  BY <1>1, Remainder
<1>4. n # 1 => hash[k] % (n - 1) \in 0 .. n - 1
  <2> SUFFICES ASSUME n # 1 PROVE hash[k] % (n - 1) \in 0 .. n - 1
    OBVIOUS
  <2> DEFINE m == n - 1
  <2>1. m \in Nat \ {0} /\ m - 1 <= n - 1
    BY <1>1
  <2> HIDE DEF m
  <2>2. hash[k] % m \in 0 .. m - 1
    BY <1>1, <2>1, Remainder
  <2>3. hash[k] % m \in 0 .. n - 1
    BY <1>1, <2>1, <2>2
  <2> QED BY <2>3 DEF m
<1> QED BY <1>1, <1>2, <1>3, <1>4 DEF mainposition

(* A search from the main position finds the node of the key, if there is one. *)
LEMMA Search ==
  ASSUME HashOK, NEW tb, NEW R, Good(tb, R), NEW k \in Key, tb.node # <<>>
  PROVE  LET s == Chain(tb, mainposition(tb, k))
         IN Lists(tb.node, R, mainposition(tb, k), s)
<1>1. mainposition(tb, k) \in DOMAIN tb.node
  BY MainPosition DEF Good
<1> QED BY <1>1, Nodes, ChainLists DEF Good

LEMMA KeyKinds == ASSUME HashOK, NEW k \in Key PROVE k # Nil
BY NilKinds DEF HashOK

LEMMA FirstPosition ==
  ASSUME NEW n \in Nat, NEW S \in SUBSET (1 .. n), S # {}
  PROVE  Min(S) \in S /\ \A q \in S : Min(S) <= q
<1>1. S \in SUBSET Nat
  OBVIOUS
<1>2. \E x \in S : \A y \in S : x <= y
  BY <1>1, LeastNatural
<1> QED BY <1>2, Zenon DEF Min

LEMMA HasFound ==
  ASSUME HashOK, NEW tb, NEW R, Good(tb, R), NEW k \in Key, ~InArray(tb, k),
         NEW i \in DOMAIN tb.node, IsKey(k, tb.node[i])
  PROVE  HasNode(tb, k) /\ NodeOf(tb, k) = i
<1> DEFINE s == Chain(tb, mainposition(tb, k))
           T == {j \in DOMAIN s : IsKey(k, tb.node[s[j]])}
<1>0. Live(tb.node[i]) /\ tb.node[i].key = k
  BY KeyKinds DEF Live, IsKey
<1>1. tb.node # <<>>
  OBVIOUS
<1>2. Lists(tb.node, R, mainposition(tb, k), s)
  BY <1>1, Search
<1>3. i \in R[mainposition(tb, k)]
  BY <1>0 DEF Good, Placed
<1>4. NodesOf(tb, k) = T /\ NodeOf(tb, k) = s[Min(T)]
  BY DEF NodesOf, NodeOf
<1> HIDE DEF s
<1>5. DOMAIN s = 1 .. Len(s) /\ Len(s) \in Nat /\ \A q \in 1 .. Len(s) : s[q] \in DOMAIN tb.node
  BY <1>2, ElementOfSeq, LenProperties DEF Lists
<1>6. T # {}
  BY <1>2, <1>3, <1>5 DEF Lists
<1>7. Min(T) \in T
  <2>1. T \in SUBSET (1 .. Len(s))
    BY <1>5
  <2> HIDE DEF T
  <2> QED BY <1>5, <1>6, <2>1, FirstPosition
<1>8. s[Min(T)] \in DOMAIN tb.node /\ IsKey(k, tb.node[s[Min(T)]])
  BY <1>5, <1>7
<1>9. Live(tb.node[s[Min(T)]]) /\ tb.node[s[Min(T)]].key = k
  BY <1>8, KeyKinds DEF Live, IsKey
<1> HIDE DEF T
<1>10. s[Min(T)] = i
  BY <1>0, <1>8, <1>9 DEF Good, Placed
<1> QED BY <1>4, <1>6, <1>10 DEF HasNode

LEMMA HasNotFound ==
  ASSUME HashOK, NEW tb, NEW R, Good(tb, R), NEW k \in Key,
         \A i \in DOMAIN tb.node : ~IsKey(k, tb.node[i])
  PROVE  ~HasNode(tb, k)
<1> DEFINE s == Chain(tb, mainposition(tb, k))
<1>1. \A q \in DOMAIN s : s[q] \in DOMAIN tb.node
  <2>1. CASE tb.node = <<>>
    <3>1. s = <<>> /\ DOMAIN <<>> = {}
      BY <2>1 DEF Chain
    <3> QED BY <3>1
  <2>2. CASE tb.node # <<>>
    <3>1. s \in Seq(DOMAIN tb.node)
      BY <2>2, Search DEF Lists
    <3> HIDE DEF s
    <3> QED BY <3>1, ElementOfSeq, LenProperties
  <2> QED BY <2>1, <2>2
<1> HIDE DEF s
<1> QED BY <1>1 DEF HasNode, NodesOf, s

(* luaH_get: in the array, in its node, or nowhere. *)
InNode(tb, k, i) == i \in DOMAIN tb.node /\ IsKey(k, tb.node[i])

LEMMA Lookup ==
  ASSUME HashOK, NEW tb, Scatter(tb), NEW k \in Key
  PROVE  \/ InArray(tb, k) /\ luaH_get(tb, k) = tb.array[k]
         \/ /\ ~InArray(tb, k) /\ HasNode(tb, k)
            /\ InNode(tb, k, NodeOf(tb, k)) /\ luaH_get(tb, k) = tb.node[NodeOf(tb, k)].val
         \/ /\ ~InArray(tb, k) /\ ~HasNode(tb, k)
            /\ \A i : ~InNode(tb, k, i)
            /\ luaH_get(tb, k) = Nil
<1>1. PICK R : Good(tb, R)
  BY DEF Scatter
<1>2. CASE InArray(tb, k)
  BY <1>2 DEF luaH_get
<1>3. ASSUME ~InArray(tb, k), NEW i, InNode(tb, k, i)
      PROVE  HasNode(tb, k) /\ NodeOf(tb, k) = i
  BY <1>1, <1>3, HasFound DEF InNode
<1>4. ASSUME ~InArray(tb, k), \A i : ~InNode(tb, k, i)
      PROVE  ~HasNode(tb, k)
  BY <1>1, <1>4, HasNotFound DEF InNode
<1> QED BY <1>2, <1>3, <1>4 DEF luaH_get

------------------------------------------------------------------------------
(* How an insertion changes the chains. *)

LEMMA OrderedSame ==
  ASSUME NEW nd, NEW R, Ordered(nd, R), NEW nd2, DOMAIN nd2 = DOMAIN nd,
         \A i \in DOMAIN nd : nd2[i].next = nd[i].next
  PROVE  Ordered(nd2, R)
BY DEF Ordered

LEMMA Predecessor ==
  ASSUME NEW tb, NEW R, Good(tb, R), NEW i \in DOMAIN tb.node, NEW m \in R[i], m # i
  PROVE  \E p \in R[i] : /\ tb.node[p].next = m
                         /\ \E q \in DOMAIN Chain(tb, i) : Chain(tb, i)[q] = p
<1> DEFINE s == Chain(tb, i)
<1>1. tb.node # <<>>
  OBVIOUS
<1>2. Lists(tb.node, R, i, s)
  BY <1>1, Nodes, ChainLists DEF Good
<1> HIDE DEF s
<1>3. PICK q \in 1 .. Len(s) : s[q] = m
  BY <1>2 DEF Lists
<1>4. q # 1
  BY <1>2, <1>3 DEF Lists
<1>5. Len(s) \in Nat /\ DOMAIN s = 1 .. Len(s)
  BY <1>2, LenProperties DEF Lists
<1>6. q - 1 \in 1 .. Len(s) /\ (q - 1) + 1 = q
  BY <1>4, <1>5
<1>7. tb.node[s[q - 1]].next = m /\ s[q - 1] \in R[i]
  BY <1>2, <1>3, <1>6 DEF Lists
<1> QED BY <1>5, <1>6, <1>7 DEF s

LEMMA UnusedAlone ==
  ASSUME NEW tb, NEW R, Good(tb, R), NEW n \in DOMAIN tb.node, tb.node[n].key = Nil
  PROVE  /\ R[n] = {n} /\ \A i \in DOMAIN tb.node : n \in R[i] => i = n
         /\ \A i \in DOMAIN tb.node : tb.node[i].next # n
<1>1. tb.node[n].next = Nil /\ \A i \in DOMAIN tb.node : tb.node[i].next # n
  BY DEF Good, Unused
<1>2. R[n] = {n}
  BY <1>1 DEF Good, Ordered
<1>3. ASSUME NEW i \in DOMAIN tb.node, n \in R[i], i # n PROVE FALSE
  <2>1. PICK p \in R[i] : tb.node[p].next = n
    BY <1>3, Predecessor
  <2>2. p \in DOMAIN tb.node
    BY DEF Good, Ordered
  <2> QED BY <1>1, <2>1, <2>2
<1> QED BY <1>1, <1>2, <1>3

(* A new node n after the node mp. *)
LEMMA OrderedAfter ==
  ASSUME NEW nd, NEW R, Ordered(nd, R), NEW n \in DOMAIN nd, NEW mp \in DOMAIN nd, n # mp, n # Nil,
         R[n] = {n}, \A i \in DOMAIN nd : (n \in R[i] => i = n) /\ nd[i].next # n,
         nd[n].next = Nil,
         NEW nd2, DOMAIN nd2 = DOMAIN nd, nd2[n].next = nd[mp].next, nd2[mp].next = n,
         \A i \in DOMAIN nd \ {n, mp} : nd2[i].next = nd[i].next
  PROVE  Ordered(nd2, [i \in DOMAIN nd |-> IF i = n THEN {n} \cup (R[mp] \ {mp})
                                          ELSE IF mp \in R[i] THEN R[i] \cup {n} ELSE R[i]])
<1> DEFINE R2 == [i \in DOMAIN nd |-> IF i = n THEN {n} \cup (R[mp] \ {mp})
                                     ELSE IF mp \in R[i] THEN R[i] \cup {n} ELSE R[i]]
           D == DOMAIN nd
<1>0. R \in [D -> SUBSET D]
  BY DEF Ordered
<1>1. /\ R2 \in [D -> SUBSET D] /\ R2[n] = {n} \cup (R[mp] \ {mp})
      /\ \A i \in D \ {n} : R2[i] = IF mp \in R[i] THEN R[i] \cup {n} ELSE R[i]
  BY <1>0
<1> HIDE DEF R2
<1>2. \A i \in D : i \in R[i]
  BY SelfReached
<1>3. \A i \in D : \A j \in R[i] : j \in D /\ R[j] \subseteq R[i] /\ (i \in R[j] => j = i)
  BY <1>0, NoCycle DEF Ordered
<1>4. ASSUME NEW i \in D, nd2[i].next = Nil PROVE R2[i] = {i}
  <2>1. i # mp
    BY <1>4
  <2>2. CASE i = n
    BY <1>1, <1>4, <2>2 DEF Ordered
  <2>3. CASE i # n
    BY <1>1, <1>4, <2>1, <2>3 DEF Ordered
  <2> QED BY <2>2, <2>3
<1>5. ASSUME NEW i \in D, nd2[i].next # Nil
      PROVE  nd2[i].next \in D /\ i \notin R2[nd2[i].next] /\ R2[i] = {i} \cup R2[nd2[i].next]
  <2> DEFINE m == nd2[i].next
  <2>1. CASE i = mp
    <3>1. m = n
      BY <2>1
    <3> QED BY <1>1, <1>2, <2>1, <3>1
  <2>2. CASE i = n
    <3>1. m = nd[mp].next /\ m \in D /\ m # n /\ mp \notin R[m] /\ R[mp] = {mp} \cup R[m]
      BY <1>5, <2>2 DEF Ordered
    <3> HIDE DEF m
    <3>2. R2[m] = R[m] /\ n \notin R[m]
      BY <1>1, <3>1
    <3> QED BY <1>1, <2>2, <3>1, <3>2 DEF m
  <2>3. CASE i # n /\ i # mp
    <3>1. m = nd[i].next /\ m \in D /\ m # n /\ i \notin R[m] /\ R[i] = {i} \cup R[m]
      BY <1>5, <2>3 DEF Ordered
    <3> HIDE DEF m
    <3>2. R2[m] = (IF mp \in R[m] THEN R[m] \cup {n} ELSE R[m]) /\ (mp \in R[i] <=> mp \in R[m])
      BY <1>1, <2>3, <3>1
    <3>3. R2[i] = IF mp \in R[i] THEN R[i] \cup {n} ELSE R[i]
      BY <1>1, <2>3
    <3>4. i \notin R2[m] /\ R2[i] = {i} \cup R2[m]
      BY <2>3, <3>1, <3>2, <3>3
    <3> QED BY <3>1, <3>4 DEF m
  <2> QED BY <2>1, <2>2, <2>3
<1>6. ASSUME NEW i \in D, NEW j \in R2[i] PROVE R2[j] \subseteq R2[i]
  <2>1. CASE i = n /\ j # n
    <3>1. j \in R[mp] /\ j # mp /\ mp \notin R[j] /\ j \in D
      BY <1>1, <1>3, <2>1
    <3>2. R2[j] = R[j] /\ R[j] \subseteq R[mp]
      BY <1>1, <1>3, <2>1, <3>1
    <3> QED BY <1>1, <2>1, <3>1, <3>2
  <2>2. CASE i # n /\ j = n
    <3>1. mp \in R[i]
      BY <1>1, <2>2
    <3>2. R[mp] \subseteq R[i]
      BY <1>3, <3>1
    <3> QED BY <1>1, <2>2, <3>1, <3>2
  <2>3. CASE i # n /\ j # n
    <3>1. j \in R[i] /\ j \in D
      BY <1>1, <1>3, <2>3
    <3>2. R[j] \subseteq R[i]
      BY <1>3, <3>1
    <3> QED BY <1>1, <2>3, <3>1, <3>2
  <2>4. CASE i = n /\ j = n
    BY <2>4
  <2> QED BY <2>1, <2>2, <2>3, <2>4
<1>7. ASSUME NEW i \in D, NEW j \in D, nd2[i].next = nd2[j].next, nd2[i].next # Nil PROVE i = j
  BY <1>7 DEF Ordered
<1> QED BY <1>1, <1>4, <1>5, <1>6, <1>7 DEF Ordered, R2

(* The node n in the place of mp, which is in no other chain any more. *)
Replaced(D, R, n, mp) ==
  [i \in D |-> IF i = mp THEN {mp}
               ELSE LET S == IF i = n THEN R[mp] ELSE R[i]
                    IN IF mp \in S THEN (S \ {mp}) \cup {n} ELSE S]
LEMMA OrderedMoved ==
  ASSUME NEW nd, NEW R, Ordered(nd, R), NEW n \in DOMAIN nd, NEW mp \in DOMAIN nd, n # mp, Nil \notin DOMAIN nd,
         R[n] = {n}, \A i \in DOMAIN nd : (n \in R[i] => i = n) /\ nd[i].next # n,
         nd[n].next = Nil,
         NEW nd2, DOMAIN nd2 = DOMAIN nd, nd2[n].next = nd[mp].next, nd2[mp].next = Nil,
         \A i \in DOMAIN nd \ {n, mp} : nd2[i].next = IF nd[i].next = mp THEN n ELSE nd[i].next
  PROVE  Ordered(nd2, Replaced(DOMAIN nd, R, n, mp))
<1> DEFINE R2 == Replaced(DOMAIN nd, R, n, mp)
           D == DOMAIN nd
<1>0. R \in [D -> SUBSET D]
  BY DEF Ordered
<1>1. /\ R2 \in [D -> SUBSET D] /\ R2[mp] = {mp} /\ R2[n] = (R[mp] \ {mp}) \cup {n}
      /\ \A i \in D \ {n, mp} : R2[i] = IF mp \in R[i] THEN (R[i] \ {mp}) \cup {n} ELSE R[i]
  <2>1. mp \in R[mp]
    BY SelfReached
  <2> QED BY <1>0, <2>1 DEF Replaced
<1> HIDE DEF R2
<1>2. \A i \in D : i \in R[i]
  BY SelfReached
<1>3. \A i \in D : \A j \in R[i] : j \in D /\ R[j] \subseteq R[i] /\ (i \in R[j] => j = i)
  BY <1>0, NoCycle DEF Ordered
<1>4. ASSUME NEW i \in D, nd2[i].next = Nil PROVE R2[i] = {i}
  <2>1. CASE i = mp
    BY <1>1, <2>1
  <2>2. CASE i = n
    BY <1>1, <1>4, <2>2 DEF Ordered
  <2>3. CASE i # n /\ i # mp
    BY <1>1, <1>4, <2>3 DEF Ordered
  <2> QED BY <2>1, <2>2, <2>3
<1>5. ASSUME NEW i \in D, nd2[i].next # Nil
      PROVE  nd2[i].next \in D /\ i \notin R2[nd2[i].next] /\ R2[i] = {i} \cup R2[nd2[i].next]
  <2> DEFINE m == nd2[i].next
  <2>1. i # mp
    BY <1>5
  <2>2. CASE i = n
    <3>1. m = nd[mp].next /\ m \in D /\ m # n /\ mp \notin R[m] /\ R[mp] = {mp} \cup R[m]
      BY <1>5, <2>2 DEF Ordered
    <3> HIDE DEF m
    <3>2. m # mp
      BY <1>2, <3>1
    <3>3. R2[m] = R[m] /\ n \notin R[m]
      BY <1>1, <3>1, <3>2
    <3> QED BY <1>1, <2>2, <3>1, <3>3 DEF m
  <2>3. CASE i # n /\ nd[i].next = mp
    <3>1. m = n
      BY <2>1, <2>3
    <3>2. mp # Nil /\ i \notin R[mp] /\ R[i] = {i} \cup R[mp]
      <4>1. mp # Nil
        OBVIOUS
      <4> QED BY <2>3, <4>1 DEF Ordered
    <3>3. R2[i] = (R[i] \ {mp}) \cup {n}
      BY <1>1, <1>2, <2>1, <2>3, <3>2
    <3> QED BY <1>1, <1>2, <2>1, <2>3, <3>1, <3>2, <3>3
  <2>4. CASE i # n /\ nd[i].next # mp
    <3>1. m = nd[i].next /\ m \in D /\ m # n /\ m # mp /\ i \notin R[m] /\ R[i] = {i} \cup R[m]
      BY <1>5, <2>1, <2>4 DEF Ordered
    <3> HIDE DEF m
    <3>2. R2[m] = (IF mp \in R[m] THEN (R[m] \ {mp}) \cup {n} ELSE R[m]) /\ (mp \in R[i] <=> mp \in R[m])
      BY <1>1, <2>1, <2>4, <3>1
    <3>3. R2[i] = IF mp \in R[i] THEN (R[i] \ {mp}) \cup {n} ELSE R[i]
      BY <1>1, <2>1, <2>4
    <3>4. i \notin R2[m] /\ R2[i] = {i} \cup R2[m]
      BY <2>1, <2>4, <3>1, <3>2, <3>3
    <3> QED BY <3>1, <3>4 DEF m
  <2> QED BY <2>2, <2>3, <2>4
<1>6. ASSUME NEW i \in D, NEW j \in R2[i] PROVE R2[j] \subseteq R2[i]
  <2>1. CASE i = mp
    BY <1>1, <2>1
  <2>2. CASE i # mp
    <3> DEFINE a == IF i = n THEN mp ELSE i
    <3>1. a \in D /\ R2[i] = IF mp \in R[a] THEN (R[a] \ {mp}) \cup {n} ELSE R[a]
      BY <1>1, <1>2, <2>2
    <3> HIDE DEF a
    <3>2. CASE j = n
      <4>1. mp \in R[a]
        <5>1. CASE a = n
          BY <2>2, <5>1 DEF a
        <5>2. CASE a # n
          BY <3>1, <3>2, <5>2
        <5> QED BY <5>1, <5>2
      <4>2. R[mp] \subseteq R[a]
        BY <1>3, <3>1, <4>1
      <4> QED BY <1>1, <3>1, <3>2, <4>1, <4>2
    <3>3. CASE j # n
      <4>1. j \in R[a] /\ j \in D
        BY <1>3, <3>1, <3>3
      <4>2. j # mp
        BY <3>1, <3>3, <4>1
      <4>3. R[j] \subseteq R[a]
        BY <1>3, <3>1, <4>1
      <4>4. R2[j] = IF mp \in R[j] THEN (R[j] \ {mp}) \cup {n} ELSE R[j]
        BY <1>1, <3>3, <4>1, <4>2
      <4> QED BY <3>1, <4>3, <4>4
    <3> QED BY <3>2, <3>3
  <2> QED BY <2>1, <2>2
<1>7. ASSUME NEW i \in D, NEW j \in D, nd2[i].next = nd2[j].next, nd2[i].next # Nil PROVE i = j
  <2> DEFINE a(x) == IF x = n THEN mp ELSE x
  <2>1. mp # Nil /\ \A x, y \in D : nd[x].next = nd[y].next /\ nd[x].next # Nil => x = y
    BY DEF Ordered
  <2>2. ASSUME NEW x \in D, nd2[x].next # Nil
        PROVE  a(x) \in D /\ nd[a(x)].next # Nil
               /\ nd2[x].next = IF nd[a(x)].next = mp THEN n ELSE nd[a(x)].next
    <3>1. x # mp
      BY <2>2
    <3>2. CASE x = n
      <4>1. nd2[x].next = nd[mp].next /\ nd[mp].next # Nil
        BY <2>2, <3>2
      <4>2. nd[mp].next # mp
        BY <1>2, <4>1 DEF Ordered
      <4> QED BY <3>2, <4>1, <4>2
    <3>3. CASE x # n
      BY <2>1, <2>2, <3>1, <3>3
    <3> QED BY <3>2, <3>3
  <2>3. nd[a(i)].next = nd[a(j)].next
    BY <1>7, <2>2
  <2>4. a(i) = a(j)
    BY <1>7, <2>1, <2>2, <2>3
  <2>5. i # mp /\ j # mp
    BY <1>7
  <2> QED BY <2>4, <2>5
<1> QED BY <1>1, <1>4, <1>5, <1>6, <1>7 DEF Ordered, R2

------------------------------------------------------------------------------
(* Where an insertion puts the nodes: the key at p, at each other node i what *)
(* was at o[i].                                                               *)
Renewed(tb, tb2, k, p, o) ==
  /\ tb2.array = tb.array /\ DOMAIN tb2.node = DOMAIN tb.node /\ p \in DOMAIN tb.node
  /\ tb2.node[p].key = k /\ ~tb2.node[p].dead /\ tb2.node[p].val = Nil
  /\ \A i \in DOMAIN tb.node \ {p} :
       /\ o[i] \in DOMAIN tb.node
       /\ tb2.node[i].key = tb.node[o[i]].key /\ tb2.node[i].dead = tb.node[o[i]].dead
       /\ tb2.node[i].val = tb.node[o[i]].val
       /\ \A j \in DOMAIN tb.node \ {p} : o[i] = o[j] => i = j
  /\ \A j \in DOMAIN tb.node : tb.node[j].val # Nil => \E i \in DOMAIN tb.node \ {p} : o[i] = j

LEMMA SamePositions ==
  ASSUME NEW tb, Shape(tb), NEW tb2, Shape(tb2), DOMAIN tb2.node = DOMAIN tb.node
  PROVE  \A k : mainposition(tb2, k) = mainposition(tb, k)
<1>1. tb.node = <<>> <=> tb2.node = <<>>
  BY Nodes
<1>2. sizenode(tb) = sizenode(tb2)
  BY <1>1 DEF sizenode
<1> QED BY <1>2 DEF mainposition

OthersPlaced(tb, R, k, tb2, R2, p, o) ==
  \A i \in DOMAIN tb.node \ {p} : Live(tb2.node[i]) =>
    LET m == mainposition(tb, tb2.node[i].key)
    IN /\ i \in R2[m] /\ R2[m] \subseteq DOMAIN tb.node
       /\ \A j \in R2[m] \ {p} : i \in R2[j] => o[j] \in R[m] /\ o[i] \in R[o[j]]
       /\ m # p => o[m] = m
       /\ m = p => mainposition(tb, k) = p
KeyPlaced(tb, k, tb2, R2, p) ==
  LET m == mainposition(tb, k)
  IN /\ p \in R2[m]
     /\ \A j \in R2[m] : p \in R2[j] /\ j # p => tb2.node[j].key # k
     /\ p # m /\ Live(tb2.node[m]) => mainposition(tb, tb2.node[m].key) = m

LEMMA PlacedAfter ==
  ASSUME HashOK, NEW tb, NEW R, Good(tb, R), NEW k \in Key, ~InArray(tb, k), \A i : ~InNode(tb, k, i),
         NEW tb2, Shape(tb2), NEW R2, NEW p, NEW o, Renewed(tb, tb2, k, p, o),
         OthersPlaced(tb, R, k, tb2, R2, p, o), KeyPlaced(tb, k, tb2, R2, p)
  PROVE  Placed(tb2, R2)
<1> DEFINE D == DOMAIN tb.node
           nd == tb.node
           nd2 == tb2.node
<1>1. \A q : mainposition(tb2, q) = mainposition(tb, q)
  BY SamePositions DEF Good, Renewed
<1>2. \A q : InArray(tb2, q) <=> InArray(tb, q)
  BY DEF Renewed, InArray, sizearray
<1>3. ASSUME NEW i \in D, Live(nd[i]) PROVE nd[i].key # k
  BY <1>3 DEF Live, InNode, IsKey
<1>4. ASSUME NEW i \in D \ {p}, Live(nd2[i])
      PROVE  o[i] \in D /\ Live(nd[o[i]]) /\ nd2[i].key = nd[o[i]].key /\ nd2[i].key # k
  <2>1. o[i] \in D /\ Live(nd[o[i]]) /\ nd2[i].key = nd[o[i]].key
    BY <1>4 DEF Renewed, Live
  <2> QED BY <1>3, <2>1
<1>5. DOMAIN nd2 = D
  BY DEF Renewed
<1> SUFFICES ASSUME NEW i \in D, Live(nd2[i])
             PROVE  LET q == nd2[i].key
                        m == mainposition(tb, q)
                    IN /\ q \in Key /\ ~InArray(tb, q)
                       /\ i \in R2[m]
                       /\ \A j \in R2[m] : i \in R2[j] /\ j # i => nd2[j].key # q
                       /\ \A j \in D : Live(nd2[j]) /\ nd2[j].key = q => j = i
                       /\ i # m /\ Live(nd2[m]) => mainposition(tb, nd2[m].key) = m
  BY <1>1, <1>2, <1>5 DEF Placed
<1>6. CASE i = p
  <2>1. nd2[i].key = k
    BY <1>6 DEF Renewed
  <2>2. \A j \in D : Live(nd2[j]) /\ nd2[j].key = k => j = i
    BY <1>4, <1>6
  <2> QED BY <1>6, <2>1, <2>2 DEF KeyPlaced
<1>7. CASE i # p
  <2> DEFINE q == nd2[i].key
             m == mainposition(tb, q)
  <2>0. i \in D \ {p}
    BY <1>7
  <2>1. o[i] \in D /\ Live(nd[o[i]]) /\ q = nd[o[i]].key /\ q # k
    BY <1>4, <2>0
  <2>2. /\ q \in Key /\ ~InArray(tb, q)
        /\ \A j \in R[m] : o[i] \in R[j] /\ j # o[i] => nd[j].key # q
        /\ \A j \in D : Live(nd[j]) /\ nd[j].key = q => j = o[i]
        /\ o[i] # m /\ Live(nd[m]) => mainposition(tb, nd[m].key) = m
    BY <2>1 DEF Good, Placed
  <2>3. /\ i \in R2[m] /\ R2[m] \subseteq D
        /\ \A j \in R2[m] \ {p} : i \in R2[j] => o[j] \in R[m] /\ o[i] \in R[o[j]]
        /\ m # p => o[m] = m
        /\ m = p => mainposition(tb, k) = p
    BY <2>0 DEF OthersPlaced
  <2> HIDE DEF m
  <2>4. ASSUME NEW j \in R2[m], i \in R2[j], j # i PROVE nd2[j].key # q
    <3>1. CASE j = p
      BY <2>1, <3>1 DEF Renewed
    <3>2. CASE j # p
      <4>1. o[j] \in R[m] /\ o[i] \in R[o[j]] /\ j \in D \ {p}
        BY <2>3, <2>4, <3>2
      <4>2. o[j] # o[i] /\ nd2[j].key = nd[o[j]].key
        BY <2>0, <2>4, <4>1 DEF Renewed
      <4> QED BY <2>2, <4>1, <4>2
    <3> QED BY <3>1, <3>2
  <2>5. ASSUME NEW j \in D, Live(nd2[j]), nd2[j].key = q PROVE j = i
    <3>1. j # p
      BY <2>1, <2>5 DEF Renewed
    <3>2. o[j] \in D /\ Live(nd[o[j]]) /\ nd[o[j]].key = q
      BY <1>4, <2>5, <3>1
    <3>3. o[j] = o[i]
      BY <2>2, <3>2
    <3> QED BY <2>0, <3>1, <3>3 DEF Renewed
  <2>6. ASSUME i # m, Live(nd2[m]) PROVE mainposition(tb, nd2[m].key) = m
    <3>1. CASE m = p
      BY <2>3, <3>1 DEF Renewed
    <3>2. CASE m # p
      <4>1. m \in D
        BY <2>2, <2>0, MainPosition DEF Good, m
      <4>2. o[m] = m /\ Live(nd[m]) /\ nd2[m].key = nd[m].key
        BY <1>4, <2>3, <2>6, <3>2, <4>1
      <4>3. o[i] # m
        BY <2>0, <2>6, <3>2, <4>1, <4>2 DEF Renewed
      <4> QED BY <2>2, <4>2, <4>3
    <3> QED BY <3>1, <3>2
  <2> QED BY <2>2, <2>3, <2>4, <2>5, <2>6 DEF m
<1> QED BY <1>6, <1>7

LEMMA LastPosition ==
  ASSUME NEW n \in Nat, NEW S \in SUBSET (0 .. n), S # {}
  PROVE  Max(S) \in S /\ \A q \in S : q <= Max(S)
<1>1. \E x \in S : \A y \in S : y <= x
  BY GreatestNatural
<1>2. \E x \in S : \A y \in S : x >= y
  BY <1>1
<1>3. Max(S) \in S /\ \A q \in S : Max(S) >= q
  BY <1>2, Zenon DEF Max
<1> QED BY <1>3

(* All nodes from lastfree on are in use. *)
Filled(tb) == \A i \in DOMAIN tb.node : i >= tb.lastfree => tb.node[i].key # Nil

LEMMA FreePosition ==
  ASSUME NEW tb, Shape(tb), getfreepos(tb) # Nil
  PROVE  LET n == getfreepos(tb)
         IN /\ n \in DOMAIN tb.node /\ n < tb.lastfree /\ tb.node[n].key = Nil
            /\ \A i \in DOMAIN tb.node : n < i /\ i < tb.lastfree => tb.node[i].key # Nil
<1> DEFINE free == {i \in DOMAIN tb.node : i < tb.lastfree /\ tb.node[i].key = Nil}
           c == Cardinality(DOMAIN tb.node)
<1>1. free # {} /\ getfreepos(tb) = Max(free)
  BY DEF getfreepos
<1>2. c \in Nat /\ DOMAIN tb.node = 0 .. c - 1
  BY Nodes
<1> HIDE DEF c
<1>3. free \in SUBSET (0 .. c)
  BY <1>2
<1> HIDE DEF free
<1>4. Max(free) \in free /\ \A q \in free : q <= Max(free)
  BY <1>1, <1>2, <1>3, LastPosition
<1>5. ASSUME NEW i \in DOMAIN tb.node, Max(free) < i, i < tb.lastfree PROVE tb.node[i].key # Nil
  <2>1. i \notin free
    <3>1. Max(free) \in Int /\ i \in Int
      BY <1>2, <1>4 DEF free
    <3> QED BY <1>4, <1>5, <3>1
  <2> QED BY <1>5, <2>1 DEF free
<1> QED BY <1>1, <1>4, <1>5 DEF free

Takes(tb, mp, k, tb2) == tb2 = [tb EXCEPT !.node[mp].key = k, !.node[mp].dead = FALSE]

Taken(D, tb, mp, k, tb2) ==
  /\ tb2 \in Tables(D)
  /\ tb2.array = tb.array /\ tb2.lastfree = tb.lastfree
  /\ tb2.node \in [D -> NodeRecord]
  /\ \A i \in D \ {mp} : tb2.node[i] = tb.node[i]
  /\ tb2.node[mp].key = k /\ tb2.node[mp].dead = FALSE /\ tb2.node[mp].val = tb.node[mp].val
  /\ tb2.node[mp].next = tb.node[mp].next

LEMMA KeyTaken ==
  ASSUME NEW D, NEW tb \in Tables(D),
         NEW mp \in D, NEW k \in Key,
         NEW tb2, Takes(tb, mp, k, tb2)
  PROVE  Taken(D, tb, mp, k, tb2)
<1> DEFINE x == [[tb.node[mp] EXCEPT !.key = k] EXCEPT !.dead = FALSE]
           nd2 == [tb.node EXCEPT ![mp] = x]
<1>1. tb.node \in [D -> NodeRecord] /\ tb.node[mp] \in NodeRecord
  BY DEF Tables
<1>2. x \in NodeRecord /\ x.key = k /\ x.dead = FALSE /\ x.val = tb.node[mp].val /\ x.next = tb.node[mp].next
  BY <1>1 DEF NodeRecord
<1>3. tb2 = [tb EXCEPT !.node = nd2]
  BY <1>1 DEF Tables, Takes
<1> HIDE DEF x
<1>4. nd2 \in [D -> NodeRecord] /\ nd2[mp] = x /\ \A i \in D \ {mp} : nd2[i] = tb.node[i]
  BY <1>1, <1>2
<1> HIDE DEF nd2
<1>5. tb2 \in Tables(D)
      /\ tb2.array = tb.array /\ tb2.lastfree = tb.lastfree /\ tb2.node = nd2
  BY <1>3, <1>4 DEF Tables
<1> QED BY <1>2, <1>4, <1>5 DEF Taken

(* A node whose value is nil takes the key. *)
LEMMA Reuse ==
  ASSUME HashOK, NEW tb, NEW R, Good(tb, R), NEW k \in Key, ~InArray(tb, k), \A i : ~InNode(tb, k, i),
         tb.node # <<>>, tb.node[mainposition(tb, k)].val = Nil
  PROVE  LET tb2 == Insert(tb, k)
         IN Good(tb2, R) /\ (\E p, o : Renewed(tb, tb2, k, p, o)) /\ (Filled(tb) => Filled(tb2))
<1> DEFINE mp == mainposition(tb, k)
           tb2 == Insert(tb, k)
           D == DOMAIN tb.node
           o == [i \in D |-> i]
<1>1. mp \in D
  BY MainPosition DEF Good
<1>2. Takes(tb, mp, k, tb2)
  BY <1>1 DEF Insert, NeedsFree, Takes
<1>3. k # Nil
  BY KeyKinds
<1> HIDE DEF tb2, mp
<1>4. tb \in Tables(D)
  BY Nodes DEF Good
<1>5. /\ tb2 \in Tables(D)
      /\ tb2.array = tb.array /\ tb2.lastfree = tb.lastfree /\ tb2.node \in [D -> NodeRecord]
      /\ \A i \in D \ {mp} : tb2.node[i] = tb.node[i]
      /\ tb2.node[mp].key = k /\ tb2.node[mp].dead = FALSE /\ tb2.node[mp].val = tb.node[mp].val
      /\ tb2.node[mp].next = tb.node[mp].next
  <2>1. Taken(D, tb, mp, k, tb2)
    BY <1>1, <1>2, <1>4, KeyTaken
  <2> QED BY <2>1 DEF Taken
<1>6. Shape(tb2)
  <2>1. \E n \in TwoTo \cup {0} : D = 0 .. n - 1 /\ Cardinality(D) = n
    BY Nodes DEF Good
  <2> QED BY <1>5, <2>1 DEF Shape, Good, sizearray, Tables
<1>7. Ordered(tb2.node, R)
  BY <1>5, OrderedSame DEF Good
<1>8. Renewed(tb, tb2, k, mp, o)
  <2>1. ASSUME NEW j \in D, tb.node[j].val # Nil PROVE j \in D \ {mp} /\ o[j] = j
    BY <2>1 DEF mp
  <2> QED BY <1>1, <1>5, <2>1 DEF Renewed, mp
<1>9. Unused(tb2.node)
  BY <1>3, <1>5 DEF Good, Unused
<1>10. Placed(tb2, R)
  <2>1. ASSUME NEW i \in D \ {mp}, Live(tb2.node[i])
        PROVE  LET m == mainposition(tb, tb2.node[i].key) IN i \in R[m] /\ m \in D
    <3>1. Live(tb.node[i]) /\ tb.node[i].key = tb2.node[i].key
      BY <1>5, <2>1
    <3>2. tb.node[i].key \in Key /\ i \in R[mainposition(tb, tb.node[i].key)]
      BY <3>1 DEF Good, Placed
    <3> QED BY <3>1, <3>2, MainPosition DEF Good
  <2>2. \A i \in D : R[i] \subseteq D
    BY DEF Good, Ordered
  <2>3. mp \in R[mp] /\ \A j \in R[mp] : mp \in R[j] => j = mp
    BY <1>1, SelfReached, NoCycle DEF Good
  <2>4. ASSUME NEW i \in D \ {mp}, Live(tb2.node[i])
        PROVE LET m == mainposition(tb, tb2.node[i].key)
              IN /\ i \in R[m] /\ R[m] \subseteq DOMAIN tb.node
                 /\ \A j \in R[m] \ {mp} : i \in R[j] => o[j] \in R[m] /\ o[i] \in R[o[j]]
                 /\ m # mp => o[m] = m
                 /\ m = mp => mainposition(tb, k) = mp
    BY <2>1, <2>2, <2>4 DEF mp
  <2> HIDE DEF o
  <2>5. OthersPlaced(tb, R, k, tb2, R, mp, o)
    BY <2>4 DEF OthersPlaced
  <2>6. KeyPlaced(tb, k, tb2, R, mp)
    BY <2>3 DEF KeyPlaced, mp
  <2> QED BY <1>6, <1>8, <2>5, <2>6, PlacedAfter
<1>11. Filled(tb) => Filled(tb2)
  BY <1>3, <1>5 DEF Filled
<1> QED BY <1>6, <1>7, <1>8, <1>9, <1>10, <1>11 DEF Good, tb2

(* The key goes to the free node n, after mp. *)
Linked(D, tb, mp, n, k, tb2) ==
  /\ tb2 \in Tables(D)
  /\ tb2.array = tb.array /\ tb2.lastfree = n
  /\ tb2.node \in [D -> NodeRecord]
  /\ \A i \in D \ {n, mp} : tb2.node[i] = tb.node[i]
  /\ tb2.node[n].key = k /\ tb2.node[n].dead = FALSE /\ tb2.node[n].val = Nil
  /\ tb2.node[n].next = tb.node[mp].next
  /\ tb2.node[mp].key = tb.node[mp].key /\ tb2.node[mp].dead = tb.node[mp].dead
  /\ tb2.node[mp].val = tb.node[mp].val /\ tb2.node[mp].next = n

Links(tb, mp, n, k, tb2) ==
  tb2 = Table(tb.array, [tb.node EXCEPT ![n] = Node(k, Nil, tb.node[mp].next), ![mp].next = n], n)

LEMMA KeyLinked ==
  ASSUME NEW D, D \subseteq Nat, NEW tb \in Tables(D), NEW mp \in D, NEW n \in D, n # mp,
         n \in 0 .. Cardinality(D), NEW k \in Key, NEW tb2, Links(tb, mp, n, k, tb2)
  PROVE  Linked(D, tb, mp, n, k, tb2)
<1> DEFINE x == Node(k, Nil, tb.node[mp].next)
           y == [tb.node[mp] EXCEPT !.next = n]
           nd2 == [[tb.node EXCEPT ![n] = x] EXCEPT ![mp] = y]
<1>1. tb.node \in [D -> NodeRecord] /\ tb.node[mp] \in NodeRecord /\ tb.array \in Seq(Entry)
  BY DEF Tables
<1>2. x \in NodeRecord /\ x.key = k /\ x.dead = FALSE /\ x.val = Nil /\ x.next = tb.node[mp].next
  BY <1>1 DEF NodeRecord, Node, Entry
<1>3. y \in NodeRecord /\ y.key = tb.node[mp].key /\ y.dead = tb.node[mp].dead
      /\ y.val = tb.node[mp].val /\ y.next = n
  BY <1>1 DEF NodeRecord
<1>4. tb2 = Table(tb.array, nd2, n)
  BY <1>1 DEF Links
<1> HIDE DEF x, y
<1>5. nd2 \in [D -> NodeRecord] /\ nd2[n] = x /\ nd2[mp] = y /\ \A i \in D \ {n, mp} : nd2[i] = tb.node[i]
  BY <1>1, <1>2, <1>3
<1> HIDE DEF nd2
<1>6. tb2 \in Tables(D) /\ tb2.array = tb.array /\ tb2.lastfree = n /\ tb2.node = nd2
  BY <1>1, <1>4, <1>5 DEF Tables, Table
<1> QED BY <1>2, <1>3, <1>5, <1>6 DEF Linked

LEMMA ShapeAgain ==
  ASSUME NEW tb, Shape(tb), NEW tb2 \in Tables(DOMAIN tb.node), tb2.array = tb.array,
         \A i \in DOMAIN tb.node : tb2.node[i].dead => tb2.node[i].val = Nil
  PROVE  Shape(tb2)
<1>1. PICK n \in TwoTo \cup {0} : DOMAIN tb.node = 0 .. n - 1 /\ Cardinality(DOMAIN tb.node) = n
  BY Nodes
<1>2. DOMAIN tb2.node = DOMAIN tb.node
  BY DEF Tables
<1>3. tb2 \in [array : Seq(Entry), node : [0 .. n - 1 -> NodeRecord], lastfree : 0 .. n]
  BY <1>1 DEF Tables
<1> QED BY <1>2, <1>3 DEF Shape, sizearray

LEMMA LiveAtMain ==
  ASSUME HashOK, NEW tb, NEW R, Good(tb, R), NEW i \in DOMAIN tb.node, tb.node[i].val # Nil
  PROVE  /\ Live(tb.node[i]) /\ tb.node[i].key \in Key
         /\ mainposition(tb, tb.node[i].key) \in DOMAIN tb.node
         /\ i \in R[mainposition(tb, tb.node[i].key)]
<1>1. Live(tb.node[i])
  BY DEF Live, Good, Shape, Unused
<1>2. tb.node[i].key \in Key /\ i \in R[mainposition(tb, tb.node[i].key)]
  BY <1>1 DEF Good, Placed
<1>3. tb.node # <<>>
  OBVIOUS
<1> QED BY <1>1, <1>2, <1>3, MainPosition DEF Good

LEMMA Chained ==
  ASSUME HashOK, NEW tb, NEW R, Good(tb, R), NEW k \in Key, ~InArray(tb, k), \A i : ~InNode(tb, k, i),
         tb.node # <<>>, tb.node[mainposition(tb, k)].val # Nil, getfreepos(tb) # Nil,
         mainposition(tb, tb.node[mainposition(tb, k)].key) = mainposition(tb, k)
  PROVE  LET tb2 == Insert(tb, k)
         IN Scatter(tb2) /\ (\E p, o : Renewed(tb, tb2, k, p, o)) /\ (Filled(tb) => Filled(tb2))
<1> DEFINE mp == mainposition(tb, k)
           n == getfreepos(tb)
           tb2 == Insert(tb, k)
           D == DOMAIN tb.node
           o == [i \in D |-> i]
           R2 == [i \in D |-> IF i = n THEN {n} \cup (R[mp] \ {mp})
                              ELSE IF mp \in R[i] THEN R[i] \cup {n} ELSE R[i]]
<1>1. mp \in D
  BY MainPosition DEF Good
<1>2. /\ n \in D /\ n < tb.lastfree /\ tb.node[n].key = Nil
      /\ \A i \in D : n < i /\ i < tb.lastfree => tb.node[i].key # Nil
  BY FreePosition DEF Good
<1>3. k # Nil
  BY KeyKinds
<1>4. Links(tb, mp, n, k, tb2)
  BY <1>1 DEF Insert, NeedsFree, Links, MustMove
<1>5. tb.node[mp].val # Nil /\ mainposition(tb, tb.node[mp].key) = mp
  OBVIOUS
<1>6. Live(tb.node[mp]) /\ n # mp
  BY <1>1, <1>2, <1>5, LiveAtMain DEF Live
<1> HIDE DEF tb2, mp, n
<1>7. /\ D \subseteq Nat /\ n \in 0 .. Cardinality(D) /\ tb \in Tables(D) /\ Nil \notin D
      /\ tb.lastfree \in Nat
  <2>1. D = 0 .. Cardinality(D) - 1 /\ Cardinality(D) \in Nat /\ tb \in Tables(D) /\ Nil \notin D
    BY Nodes DEF Good
  <2>2. tb.lastfree \in 0 .. Cardinality(D)
    BY <2>1 DEF Tables
  <2> QED BY <1>2, <2>1, <2>2
<1>8. Linked(D, tb, mp, n, k, tb2)
  BY <1>1, <1>2, <1>4, <1>6, <1>7, KeyLinked
<1>9. DOMAIN tb2.node = D
  BY <1>8 DEF Linked
<1>10. Shape(tb2)
  <2>1. \A i \in D : tb2.node[i].dead => tb2.node[i].val = Nil
    BY <1>1, <1>8 DEF Linked, Good, Shape
  <2> QED BY <1>8, <2>1, ShapeAgain DEF Linked, Good
<1>11. /\ R[n] = {n} /\ \A i \in D : (n \in R[i] => i = n) /\ tb.node[i].next # n
       /\ tb.node[n].next = Nil
  BY <1>2, UnusedAlone DEF Good, Unused
<1>12. Ordered(tb2.node, R2)
  <2>1. /\ tb2.node[n].next = tb.node[mp].next /\ tb2.node[mp].next = n /\ n # Nil
        /\ \A i \in D \ {n, mp} : tb2.node[i].next = tb.node[i].next
    BY <1>2, <1>7, <1>8 DEF Linked
  <2> QED BY <1>1, <1>2, <1>6, <1>9, <1>11, <2>1, OrderedAfter DEF Good
<1>13. Renewed(tb, tb2, k, n, o)
  <2>1. ASSUME NEW j \in D, tb.node[j].val # Nil PROVE j \in D \ {n} /\ o[j] = j
    BY <1>2, <2>1 DEF Good, Unused
  <2>2. ASSUME NEW i \in D \ {n}
        PROVE  /\ o[i] = i /\ tb2.node[i].key = tb.node[i].key /\ tb2.node[i].dead = tb.node[i].dead
               /\ tb2.node[i].val = tb.node[i].val
    BY <1>8 DEF Linked
  <2> HIDE DEF o
  <2> QED BY <1>2, <1>8, <1>9, <2>1, <2>2 DEF Renewed, Linked
<1>14. Unused(tb2.node)
  <2>1. ASSUME NEW i \in D, tb2.node[i].key = Nil PROVE i # n /\ i # mp
    BY <1>3, <1>6, <1>8, <2>1 DEF Linked, Live
  <2>2. ASSUME NEW i \in D, tb2.node[i].key = Nil
        PROVE  /\ tb2.node[i].val = Nil /\ tb2.node[i].next = Nil /\ ~tb2.node[i].dead
               /\ \A j \in D : tb2.node[j].next # i
    <3>1. i # n /\ i # mp /\ tb2.node[i] = tb.node[i]
      BY <1>8, <2>1, <2>2 DEF Linked
    <3>2. \A j \in D : tb2.node[j].next = n \/ tb2.node[j].next = tb.node[mp].next \/ tb2.node[j].next = tb.node[j].next
      BY <1>8 DEF Linked
    <3> QED BY <1>1, <2>2, <3>1, <3>2 DEF Good, Unused
  <2> QED BY <1>9, <2>2 DEF Unused
<1>15. Placed(tb2, R2)
  <2>1. ASSUME NEW i \in D \ {n}, Live(tb2.node[i])
        PROVE  LET m == mainposition(tb, tb2.node[i].key) IN i \in R[m] /\ m \in D /\ m # n
    <3>1. Live(tb.node[i]) /\ tb.node[i].key = tb2.node[i].key
      BY <1>8, <2>1 DEF Linked, Live
    <3>2. tb.node[i].key \in Key /\ i \in R[mainposition(tb, tb.node[i].key)]
      BY <3>1 DEF Good, Placed
    <3>3. mainposition(tb, tb.node[i].key) \in D
      BY <3>2, MainPosition DEF Good
    <3> QED BY <1>11, <3>1, <3>2, <3>3
  <2>2. \A i \in D : R[i] \subseteq D
    BY DEF Good, Ordered
  <2>3. /\ \A i \in D \ {n} : R2[i] = IF mp \in R[i] THEN R[i] \cup {n} ELSE R[i]
        /\ \A i \in D \ {n} : o[i] = i
    OBVIOUS
  <2> HIDE DEF o, R2
  <2>4. ASSUME NEW i \in D \ {n}, Live(tb2.node[i])
        PROVE LET m == mainposition(tb, tb2.node[i].key)
              IN /\ i \in R2[m] /\ R2[m] \subseteq DOMAIN tb.node
                 /\ \A j \in R2[m] \ {n} : i \in R2[j] => o[j] \in R[m] /\ o[i] \in R[o[j]]
                 /\ m # n => o[m] = m
                 /\ m = n => mainposition(tb, k) = n
    <3> DEFINE m == mainposition(tb, tb2.node[i].key)
    <3>1. i \in R[m] /\ m \in D /\ m # n
      BY <2>1, <2>4
    <3> HIDE DEF m
    <3>2. i \in R2[m] /\ R2[m] \subseteq D
      <4>1. R2[m] = R[m] \/ R2[m] = R[m] \cup {n}
        BY <2>3, <3>1
      <4>2. R[m] \subseteq D /\ n \in D
        BY <1>2, <2>2, <3>1
      <4> QED BY <3>1, <4>1, <4>2
    <3>3. ASSUME NEW j \in R2[m] \ {n}, i \in R2[j] PROVE o[j] \in R[m] /\ o[i] \in R[o[j]]
      <4>1. j \in R[m] /\ j \in D
        BY <2>2, <2>3, <3>1, <3>3
      <4>2. i \in R[j]
        BY <2>3, <3>3, <4>1
      <4> QED BY <2>3, <4>1, <4>2
    <3>4. o[m] = m
      BY <2>3, <3>1
    <3> QED BY <3>1, <3>2, <3>3, <3>4 DEF m
  <2>5. mp \in R[mp] /\ R2[mp] = R[mp] \cup {n}
    BY <1>1, <1>6, <2>3, SelfReached DEF Good
  <2>6. ASSUME NEW j \in R2[mp], n \in R2[j], j # n PROVE tb2.node[j].key # k
    <3>1. j \in R[mp] /\ j \in D
      BY <1>1, <2>2, <2>5, <2>6
    <3>2. mp \in R[j]
      BY <1>11, <2>3, <2>6, <3>1
    <3>3. j = mp
      BY <1>1, <3>1, <3>2, NoCycle DEF Good
    <3>4. tb.node[mp].key # k
      BY <1>1, <1>6 DEF InNode, IsKey, Live
    <3> QED BY <1>8, <3>3, <3>4 DEF Linked
  <2>7. mainposition(tb, tb2.node[mp].key) = mp
    BY <1>5, <1>8 DEF Linked
  <2>8. OthersPlaced(tb, R, k, tb2, R2, n, o)
    BY <2>4 DEF OthersPlaced
  <2>9. KeyPlaced(tb, k, tb2, R2, n)
    BY <2>5, <2>6, <2>7 DEF KeyPlaced, mp
  <2> QED BY <1>10, <1>13, <2>8, <2>9, PlacedAfter
<1>16. Filled(tb) => Filled(tb2)
  <2> SUFFICES ASSUME Filled(tb), NEW i \in D, i >= n PROVE tb2.node[i].key # Nil
    BY <1>8, <1>9 DEF Filled, Linked
  <2>1. CASE i = n
    BY <1>3, <1>8, <2>1 DEF Linked
  <2>2. CASE i # n
    <3>1. i \in Nat /\ n \in Nat /\ tb.lastfree \in Nat
      BY <1>2, <1>7
    <3>2. i >= tb.lastfree \/ (n < i /\ i < tb.lastfree)
      BY <2>2, <3>1
    <3>3. tb.node[i].key # Nil
      BY <1>2, <3>2 DEF Filled
    <3>4. tb2.node[i].key = tb.node[i].key
      BY <1>8, <2>2 DEF Linked
    <3> QED BY <3>3, <3>4
  <2> QED BY <2>1, <2>2
<1> QED BY <1>10, <1>12, <1>13, <1>14, <1>15, <1>16 DEF Good, Scatter, tb2

(* The node at mp moves to the free node n and leaves its place to the key. *)
Evicted(D, tb, mp, n, k, tb2) ==
  /\ tb2 \in Tables(D)
  /\ tb2.array = tb.array /\ tb2.lastfree = n
  /\ tb2.node \in [D -> NodeRecord]
  /\ \A i \in D \ {n, mp} :
       /\ tb2.node[i].key = tb.node[i].key /\ tb2.node[i].dead = tb.node[i].dead
       /\ tb2.node[i].val = tb.node[i].val
       /\ tb2.node[i].next = IF tb.node[i].next = mp THEN n ELSE tb.node[i].next
  /\ tb2.node[n] = tb.node[mp]
  /\ tb2.node[mp].key = k /\ tb2.node[mp].dead = FALSE /\ tb2.node[mp].val = Nil /\ tb2.node[mp].next = Nil

Evicts(tb, mp, n, k, first, tb2) ==
  tb2 = Table(tb.array, [Relinked(tb.node, mp, n, first) EXCEPT ![n] = tb.node[mp], ![mp] = Node(k, Nil, Nil)], n)

LEMMA Evicting ==
  ASSUME NEW D, D \subseteq Nat, NEW tb \in Tables(D), NEW mp \in D, NEW n \in D, n # mp,
         n \in 0 .. Cardinality(D), NEW k \in Key,
         NEW first, \A i \in D : tb.node[i].next = mp => \E j \in DOMAIN first : first[j] = i,
         NEW tb2, Evicts(tb, mp, n, k, first, tb2)
  PROVE  Evicted(D, tb, mp, n, k, tb2)
<1> DEFINE x == Node(k, Nil, Nil)
           y == tb.node[mp]
           r == Relinked(tb.node, mp, n, first)
           nd2 == [[r EXCEPT ![n] = y] EXCEPT ![mp] = x]
<1>1. tb.node \in [D -> NodeRecord] /\ tb.node[mp] \in NodeRecord /\ tb.array \in Seq(Entry)
  BY DEF Tables
<1>2. x \in NodeRecord /\ x.key = k /\ x.dead = FALSE /\ x.val = Nil /\ x.next = Nil
  BY <1>1 DEF NodeRecord, Node, Entry
<1>3. y \in NodeRecord
  BY <1>1
<1>4. r = [i \in D |-> IF tb.node[i].next = mp THEN [tb.node[i] EXCEPT !.next = n] ELSE tb.node[i]]
  BY <1>1 DEF Relinked
<1>5. ASSUME NEW i \in D
      PROVE  /\ r[i] \in NodeRecord /\ r[i].key = tb.node[i].key /\ r[i].dead = tb.node[i].dead
             /\ r[i].val = tb.node[i].val
             /\ r[i].next = IF tb.node[i].next = mp THEN n ELSE tb.node[i].next
  <2> DEFINE z == tb.node[i]
  <2>1. z \in NodeRecord
    BY <1>1
  <2>2. r[i] = IF z.next = mp THEN [z EXCEPT !.next = n] ELSE z
    BY <1>4
  <2> HIDE DEF z, r
  <2>3. CASE z.next = mp
    <3>1. r[i] = [z EXCEPT !.next = n] /\ n \in Nat
      BY <2>2, <2>3
    <3>2. r[i] \in NodeRecord /\ r[i].key = z.key /\ r[i].dead = z.dead /\ r[i].val = z.val /\ r[i].next = n
      BY <2>1, <3>1 DEF NodeRecord
    <3> QED BY <2>3, <3>2 DEF z
  <2>4. CASE z.next # mp
    <3>1. r[i] = z
      BY <2>2, <2>4
    <3> QED BY <2>1, <2>4, <3>1 DEF z
  <2> QED BY <2>3, <2>4
<1>6. DOMAIN r = D /\ r = [i \in D |-> r[i]]
  BY <1>4
<1>7. tb2 = Table(tb.array, nd2, n)
  BY DEF Evicts
<1> HIDE DEF x, r
<1>8. nd2 \in [D -> NodeRecord] /\ nd2[n] = y /\ nd2[mp] = x /\ \A i \in D \ {n, mp} : nd2[i] = r[i]
  <2>1. r \in [D -> NodeRecord]
    BY <1>5, <1>6
  <2> QED BY <1>2, <1>3, <2>1
<1> HIDE DEF nd2
<1>9. tb2 \in Tables(D) /\ tb2.array = tb.array /\ tb2.lastfree = n /\ tb2.node = nd2
  BY <1>1, <1>7, <1>8 DEF Tables, Table
<1> QED BY <1>2, <1>5, <1>8, <1>9 DEF Evicted

LEMMA Moved ==
  ASSUME HashOK, NEW tb, NEW R, Good(tb, R), NEW k \in Key, ~InArray(tb, k), \A i : ~InNode(tb, k, i),
         tb.node # <<>>, tb.node[mainposition(tb, k)].val # Nil, getfreepos(tb) # Nil,
         mainposition(tb, tb.node[mainposition(tb, k)].key) # mainposition(tb, k)
  PROVE  LET tb2 == Insert(tb, k)
         IN Scatter(tb2) /\ (\E p, o : Renewed(tb, tb2, k, p, o)) /\ (Filled(tb) => Filled(tb2))
<1> DEFINE mp == mainposition(tb, k)
           n == getfreepos(tb)
           tb2 == Insert(tb, k)
           D == DOMAIN tb.node
           om == mainposition(tb, tb.node[mp].key)
           first == Chain(tb, om)
           o == [i \in D |-> IF i = n THEN mp ELSE i]
           R2 == Replaced(D, R, n, mp)
<1>1. mp \in D
  BY MainPosition DEF Good
<1>2. /\ n \in D /\ n < tb.lastfree /\ tb.node[n].key = Nil
      /\ \A i \in D : n < i /\ i < tb.lastfree => tb.node[i].key # Nil
  BY FreePosition DEF Good
<1>3. k # Nil
  BY KeyKinds
<1>4. Evicts(tb, mp, n, k, first, tb2)
  BY <1>1 DEF Insert, NeedsFree, Evicts, MustMove
<1>5. tb.node[mp].val # Nil /\ om # mp
  OBVIOUS
<1>6. Live(tb.node[mp]) /\ n # mp /\ om \in D /\ mp \in R[om]
  BY <1>1, <1>2, <1>5, LiveAtMain DEF Live
<1> HIDE DEF tb2, mp, n, om
<1>7. /\ D \subseteq Nat /\ n \in 0 .. Cardinality(D) /\ tb \in Tables(D) /\ Nil \notin D
      /\ tb.lastfree \in Nat
  <2>1. D = 0 .. Cardinality(D) - 1 /\ Cardinality(D) \in Nat /\ tb \in Tables(D) /\ Nil \notin D
    BY Nodes DEF Good
  <2>2. tb.lastfree \in 0 .. Cardinality(D)
    BY <2>1 DEF Tables
  <2> QED BY <1>2, <2>1, <2>2
<1>8. Evicted(D, tb, mp, n, k, tb2)
  <2>1. PICK p \in R[om] : tb.node[p].next = mp /\ \E q \in DOMAIN first : first[q] = p
    BY <1>5, <1>6, Predecessor
  <2>2. p \in D /\ mp # Nil
    BY <1>1, <1>6, <1>7 DEF Good, Ordered
  <2>3. \A i \in D : tb.node[i].next = mp => i = p
    BY <2>1, <2>2 DEF Good, Ordered
  <2>4. \A i \in D : tb.node[i].next = mp => \E q \in DOMAIN first : first[q] = i
    BY <2>1, <2>3
  <2> HIDE DEF first
  <2> QED BY <1>1, <1>2, <1>4, <1>6, <1>7, <2>4, Evicting
<1>9. DOMAIN tb2.node = D
  BY <1>8 DEF Evicted
<1>10. Shape(tb2)
  <2>1. \A i \in D : tb2.node[i].dead => tb2.node[i].val = Nil
    BY <1>1, <1>8 DEF Evicted, Good, Shape
  <2> QED BY <1>8, <2>1, ShapeAgain DEF Evicted, Good
<1>11. /\ R[n] = {n} /\ \A i \in D : (n \in R[i] => i = n) /\ tb.node[i].next # n
       /\ tb.node[n].next = Nil
  BY <1>2, UnusedAlone DEF Good, Unused
<1>12. Ordered(tb2.node, R2)
  <2>1. /\ tb2.node[n].next = tb.node[mp].next /\ tb2.node[mp].next = Nil
        /\ \A i \in D \ {n, mp} : tb2.node[i].next = IF tb.node[i].next = mp THEN n ELSE tb.node[i].next
    BY <1>8 DEF Evicted
  <2> QED BY <1>1, <1>2, <1>6, <1>7, <1>9, <1>11, <2>1, OrderedMoved DEF Good
<1>13. /\ o[n] = mp /\ \A i \in D \ {n, mp} : o[i] = i
       /\ R2[mp] = {mp} /\ R2[n] = (R[mp] \ {mp}) \cup {n}
       /\ \A i \in D \ {n, mp} : R2[i] = IF mp \in R[i] THEN (R[i] \ {mp}) \cup {n} ELSE R[i]
  <2>1. mp \in R[mp]
    BY <1>1, SelfReached DEF Good
  <2> QED BY <1>1, <1>2, <1>6, <2>1 DEF Replaced
<1> HIDE DEF o, R2
<1>14. Renewed(tb, tb2, k, mp, o)
  <2>1. ASSUME NEW j \in D, tb.node[j].val # Nil PROVE \E i \in D \ {mp} : o[i] = j
    <3>1. j # n
      BY <1>2, <2>1 DEF Good, Unused
    <3>2. CASE j = mp
      BY <1>2, <1>6, <1>13, <3>2
    <3>3. CASE j # mp
      BY <1>13, <3>1, <3>3
    <3> QED BY <3>2, <3>3
  <2>2. ASSUME NEW i \in D \ {mp}
        PROVE  /\ o[i] \in D /\ o[i] # n
               /\ tb2.node[i].key = tb.node[o[i]].key /\ tb2.node[i].dead = tb.node[o[i]].dead
               /\ tb2.node[i].val = tb.node[o[i]].val
    <3>1. CASE i = n
      BY <1>1, <1>6, <1>8, <1>13, <3>1 DEF Evicted
    <3>2. CASE i # n
      BY <1>8, <1>13, <3>2 DEF Evicted
    <3> QED BY <3>1, <3>2
  <2>3. \A i, j \in D \ {mp} : o[i] = o[j] => i = j
    BY <1>13
  <2>4. tb2.node[mp].key = k /\ ~tb2.node[mp].dead /\ tb2.node[mp].val = Nil /\ tb2.array = tb.array
    BY <1>8 DEF Evicted
  <2> QED BY <1>1, <1>9, <2>1, <2>2, <2>3, <2>4 DEF Renewed
<1>15. Unused(tb2.node)
  <2>1. ASSUME NEW i \in D, tb2.node[i].key = Nil
        PROVE  /\ tb2.node[i].val = Nil /\ tb2.node[i].next = Nil /\ ~tb2.node[i].dead
               /\ \A j \in D : tb2.node[j].next # i
    <3>1. i # n /\ i # mp
      BY <1>3, <1>6, <1>8, <2>1 DEF Evicted, Live
    <3>2. tb.node[i].key = Nil /\ tb2.node[i].val = tb.node[i].val /\ tb2.node[i].dead = tb.node[i].dead
          /\ tb2.node[i].next = IF tb.node[i].next = mp THEN n ELSE tb.node[i].next
      BY <1>8, <2>1, <3>1 DEF Evicted
    <3>3. tb.node[i].val = Nil /\ tb.node[i].next = Nil /\ ~tb.node[i].dead /\ \A j \in D : tb.node[j].next # i
      BY <3>2 DEF Good, Unused
    <3>4. \A j \in D : tb2.node[j].next = n \/ tb2.node[j].next = Nil \/ tb2.node[j].next = tb.node[mp].next
                       \/ tb2.node[j].next = tb.node[j].next
      BY <1>8 DEF Evicted
    <3>5. mp # Nil /\ i # Nil
      BY <1>1, <1>7
    <3> QED BY <1>1, <3>1, <3>2, <3>3, <3>4, <3>5
  <2> QED BY <1>9, <2>1 DEF Unused
<1>16. Placed(tb2, R2)
  <2>0. \A i \in D : R[i] \subseteq D
    BY DEF Good, Ordered
  <2>1. ASSUME NEW i \in D \ {mp}, Live(tb2.node[i])
        PROVE  LET m == mainposition(tb, tb2.node[i].key) IN o[i] \in R[m] /\ m \in D /\ m # n /\ m # mp
    <3>1. o[i] \in D /\ Live(tb.node[o[i]]) /\ tb.node[o[i]].key = tb2.node[i].key
      BY <1>14, <2>1 DEF Renewed, Live
    <3>2. /\ tb.node[o[i]].key \in Key /\ o[i] \in R[mainposition(tb, tb.node[o[i]].key)]
          /\ LET m == mainposition(tb, tb.node[o[i]].key)
             IN o[i] # m /\ Live(tb.node[m]) => mainposition(tb, tb.node[m].key) = m
      BY <3>1 DEF Good, Placed
    <3> DEFINE m == mainposition(tb, tb.node[o[i]].key)
    <3>3. m \in D
      BY <3>2, MainPosition DEF Good
    <3>4. o[i] # n
      BY <1>2, <3>1 DEF Live
    <3>5. m # n
      BY <1>11, <3>2, <3>4
    <3>6. m # mp
      <4>1. o[i] = mp => m = om
        BY DEF om
      <4>2. o[i] # mp /\ m = mp => mainposition(tb, tb.node[mp].key) = mp
        BY <1>6, <3>2
      <4> QED BY <1>5, <4>1, <4>2 DEF om
    <3> QED BY <3>1, <3>2, <3>3, <3>5, <3>6
  <2>2. ASSUME NEW i \in D \ {mp}, Live(tb2.node[i])
        PROVE LET m == mainposition(tb, tb2.node[i].key)
              IN /\ i \in R2[m] /\ R2[m] \subseteq DOMAIN tb.node
                 /\ \A j \in R2[m] \ {mp} : i \in R2[j] => o[j] \in R[m] /\ o[i] \in R[o[j]]
                 /\ m # mp => o[m] = m
                 /\ m = mp => mainposition(tb, k) = mp
    <3> DEFINE m == mainposition(tb, tb2.node[i].key)
    <3>1. o[i] \in R[m] /\ m \in D /\ m # n /\ m # mp
      BY <2>1, <2>2
    <3> HIDE DEF m
    <3>2. R2[m] = IF mp \in R[m] THEN (R[m] \ {mp}) \cup {n} ELSE R[m]
      BY <1>13, <3>1
    <3>3. i \in R2[m]
      <4>1. CASE i = n
        BY <1>13, <3>1, <3>2, <4>1
      <4>2. CASE i # n
        BY <1>13, <3>1, <3>2, <4>2
      <4> QED BY <4>1, <4>2
    <3>4. R2[m] \subseteq D
      <4>1. R[m] \subseteq D /\ n \in D
        BY <1>2, <2>0, <3>1
      <4> QED BY <3>2, <4>1
    <3>5. ASSUME NEW j \in R2[m] \ {mp}, i \in R2[j] PROVE o[j] \in R[m] /\ o[i] \in R[o[j]]
      <4>1. CASE j = n
        <5>1. mp \in R[m]
          BY <1>11, <3>1, <3>2, <3>5, <4>1
        <5>2. o[j] = mp
          BY <1>13, <4>1
        <5>3. mp \in R[mp]
          BY <1>1, SelfReached DEF Good
        <5>4. i = n \/ (i \in R[mp] /\ i # n)
          BY <1>13, <3>5, <4>1
        <5>5. o[i] \in R[mp]
          BY <1>13, <5>3, <5>4
        <5> QED BY <5>1, <5>2, <5>5
      <4>2. CASE j # n
        <5>1. j \in R[m] /\ j \in D /\ o[j] = j
          BY <1>13, <3>2, <3>4, <3>5, <4>2
        <5>2. R2[j] = IF mp \in R[j] THEN (R[j] \ {mp}) \cup {n} ELSE R[j]
          BY <1>13, <3>5, <4>2, <5>1
        <5>3. CASE i = n
          <6>1. n \notin R[j]
            BY <1>11, <4>2, <5>1
          <6> QED BY <1>13, <3>5, <5>1, <5>2, <5>3, <6>1
        <5>4. CASE i # n
          BY <1>13, <3>5, <5>1, <5>2, <5>4
        <5> QED BY <5>1, <5>3, <5>4
      <4> QED BY <4>1, <4>2
    <3>6. o[m] = m
      BY <1>13, <3>1
    <3> QED BY <3>1, <3>3, <3>4, <3>5, <3>6 DEF m
  <2>3. OthersPlaced(tb, R, k, tb2, R2, mp, o)
    BY <2>2 DEF OthersPlaced
  <2>4. KeyPlaced(tb, k, tb2, R2, mp)
    BY <1>13 DEF KeyPlaced, mp
  <2> QED BY <1>10, <1>14, <2>3, <2>4, PlacedAfter
<1>17. Filled(tb) => Filled(tb2)
  <2> SUFFICES ASSUME Filled(tb), NEW i \in D, i >= n PROVE tb2.node[i].key # Nil
    BY <1>8, <1>9 DEF Filled, Evicted
  <2>1. CASE i = n \/ i = mp
    BY <1>3, <1>6, <1>8, <2>1 DEF Evicted, Live
  <2>2. CASE i # n /\ i # mp
    <3>1. i \in Nat /\ n \in Nat /\ tb.lastfree \in Nat
      BY <1>2, <1>7
    <3>2. i >= tb.lastfree \/ (n < i /\ i < tb.lastfree)
      BY <2>2, <3>1
    <3>3. tb.node[i].key # Nil
      BY <1>2, <3>2 DEF Filled
    <3>4. tb2.node[i].key = tb.node[i].key
      BY <1>8, <2>2 DEF Evicted
    <3> QED BY <3>3, <3>4
  <2> QED BY <2>1, <2>2
<1> QED BY <1>10, <1>12, <1>14, <1>15, <1>16, <1>17 DEF Good, Scatter, tb2

------------------------------------------------------------------------------
(* What an assignment does to the content. *)

LEMMA GetNode ==
  ASSUME HashOK, NEW tb, Scatter(tb), NEW k \in Key, ~InArray(tb, k), NEW i, InNode(tb, k, i)
  PROVE  HasNode(tb, k) /\ NodeOf(tb, k) = i /\ luaH_get(tb, k) = tb.node[i].val
<1>1. HasNode(tb, k) /\ NodeOf(tb, k) = i
  BY HasFound DEF Scatter, InNode
<1> QED BY <1>1 DEF luaH_get

LEMMA GetNone ==
  ASSUME HashOK, NEW tb, Scatter(tb), NEW k \in Key, ~InArray(tb, k), \A i : ~InNode(tb, k, i)
  PROVE  ~HasNode(tb, k) /\ luaH_get(tb, k) = Nil
<1>1. ~HasNode(tb, k)
  BY HasNotFound DEF Scatter, InNode
<1> QED BY <1>1 DEF luaH_get

(* Every node that has a key has one of W, and has not died. *)
Fresh(tb, W) == \A i \in DOMAIN tb.node : tb.node[i].key # Nil => ~tb.node[i].dead /\ tb.node[i].key \in W

LEMMA GetRenewed ==
  ASSUME HashOK, NEW tb, Scatter(tb), NEW k \in Key, ~InArray(tb, k), \A i : ~InNode(tb, k, i),
         NEW tb2, Scatter(tb2), NEW p, NEW o, Renewed(tb, tb2, k, p, o), NEW q \in Key
  PROVE  luaH_get(tb2, q) = luaH_get(tb, q)
<1>1. tb2.array = tb.array /\ (InArray(tb2, q) <=> InArray(tb, q))
  BY DEF Renewed, InArray, sizearray
<1>2. CASE InArray(tb, q)
  BY <1>1, <1>2 DEF luaH_get
<1>3. CASE ~InArray(tb, q) /\ q = k
  <2>1. InNode(tb2, k, p)
    BY DEF Renewed, InNode, IsKey
  <2>2. luaH_get(tb2, k) = Nil
    BY <1>1, <1>3, <2>1, GetNode DEF Renewed
  <2>3. luaH_get(tb, k) = Nil
    BY GetNone
  <2> QED BY <1>3, <2>2, <2>3
<1>4. CASE ~InArray(tb, q) /\ q # k
  <2>1. CASE \E i : InNode(tb2, q, i)
    <3>1. PICK i : InNode(tb2, q, i)
      BY <2>1
    <3>2. i \in DOMAIN tb.node \ {p}
      BY <1>4, <3>1 DEF Renewed, InNode, IsKey
    <3>3. InNode(tb, q, o[i]) /\ tb2.node[i].val = tb.node[o[i]].val
      BY <3>1, <3>2 DEF Renewed, InNode, IsKey
    <3>4. luaH_get(tb2, q) = tb2.node[i].val
      BY <1>1, <1>4, <3>1, GetNode
    <3>5. luaH_get(tb, q) = tb.node[o[i]].val
      BY <1>4, <3>3, GetNode
    <3> QED BY <3>3, <3>4, <3>5
  <2>2. CASE \A i : ~InNode(tb2, q, i)
    <3>1. luaH_get(tb2, q) = Nil
      BY <1>1, <1>4, <2>2, GetNone
    <3>2. CASE \A i : ~InNode(tb, q, i)
      BY <1>4, <3>1, <3>2, GetNone
    <3>3. ASSUME NEW j, InNode(tb, q, j) PROVE luaH_get(tb, q) = Nil
      <4>1. luaH_get(tb, q) = tb.node[j].val
        BY <1>4, <3>3, GetNode
      <4>2. ASSUME tb.node[j].val # Nil PROVE FALSE
        <5>1. PICK i \in DOMAIN tb.node \ {p} : o[i] = j
          BY <3>3, <4>2 DEF Renewed, InNode
        <5>2. InNode(tb2, q, i)
          BY <3>3, <5>1 DEF Renewed, InNode, IsKey
        <5> QED BY <2>2, <5>2
      <4> QED BY <4>1, <4>2
    <3> QED BY <3>1, <3>2, <3>3
  <2> QED BY <2>1, <2>2
<1> QED BY <1>2, <1>3, <1>4

(* newkey without rehash. *)
LEMMA Inserted ==
  ASSUME HashOK, NEW tb, Scatter(tb), NEW k \in Key, ~InArray(tb, k), ~HasNode(tb, k), ~NeedsRehash(tb, k)
  PROVE  LET tb2 == Insert(tb, k)
         IN /\ Scatter(tb2) /\ tb2.array = tb.array /\ DOMAIN tb2.node = DOMAIN tb.node
            /\ \E i : InNode(tb2, k, i)
            /\ \A q \in Key : luaH_get(tb2, q) = luaH_get(tb, q)
            /\ Filled(tb) => Filled(tb2)
            /\ \A W : Fresh(tb, W) /\ k \in W => Fresh(tb2, W)
<1> DEFINE tb2 == Insert(tb, k)
           mp == mainposition(tb, k)
<1>1. PICK R : Good(tb, R)
  BY DEF Scatter
<1>2. \A i : ~InNode(tb, k, i)
  BY GetNode
<1>3. tb.node # <<>>
  <2>1. ASSUME tb.node = <<>> PROVE FALSE
    <3>1. DOMAIN tb.node = {}
      BY <2>1
    <3>2. getfreepos(tb) = Nil
      BY <3>1 DEF getfreepos
    <3> QED BY <2>1, <3>2 DEF NeedsRehash, NeedsFree
  <2> QED BY <2>1
<1>4. Scatter(tb2) /\ (\E p, o : Renewed(tb, tb2, k, p, o)) /\ (Filled(tb) => Filled(tb2))
  <2>1. CASE tb.node[mp].val = Nil
    BY <1>1, <1>2, <1>3, <2>1, Reuse DEF Scatter
  <2>2. CASE tb.node[mp].val # Nil
    <3>1. getfreepos(tb) # Nil
      BY <2>2 DEF NeedsRehash, NeedsFree
    <3>2. CASE mainposition(tb, tb.node[mp].key) = mp
      BY <1>1, <1>2, <1>3, <2>2, <3>1, <3>2, Chained
    <3>3. CASE mainposition(tb, tb.node[mp].key) # mp
      BY <1>1, <1>2, <1>3, <2>2, <3>1, <3>3, Moved
    <3> QED BY <3>2, <3>3
  <2> QED BY <2>1, <2>2
<1> HIDE DEF tb2
<1>5. PICK p, o : Renewed(tb, tb2, k, p, o)
  BY <1>4
<1>6. \A q \in Key : luaH_get(tb2, q) = luaH_get(tb, q)
  BY <1>2, <1>4, <1>5, GetRenewed
<1>7. tb2.array = tb.array /\ DOMAIN tb2.node = DOMAIN tb.node /\ InNode(tb2, k, p)
  BY <1>5 DEF Renewed, InNode, IsKey
<1>8. ASSUME NEW W, Fresh(tb, W), k \in W, NEW i \in DOMAIN tb.node, tb2.node[i].key # Nil
      PROVE  ~tb2.node[i].dead /\ tb2.node[i].key \in W
  <2>1. CASE i = p
    BY <1>5, <1>8, <2>1 DEF Renewed
  <2>2. CASE i # p
    BY <1>5, <1>8, <2>2 DEF Renewed, Fresh
  <2> QED BY <2>1, <2>2
<1>9. \A W : Fresh(tb, W) /\ k \in W => Fresh(tb2, W)
  BY <1>7, <1>8 DEF Fresh
<1> QED BY <1>4, <1>6, <1>7, <1>9 DEF tb2

(* The assignment to the value of a key that is there. *)
Assign(tb, k, v) == IF InArray(tb, k) THEN [tb EXCEPT !.array[k] = v] ELSE [tb EXCEPT !.node[NodeOf(tb, k)].val = v]

LEMMA AssignedInArray ==
  ASSUME HashOK, NEW tb, Scatter(tb), NEW R, Good(tb, R), NEW k \in Key, InArray(tb, k), NEW v \in Entry
  PROVE  LET tb2 == Assign(tb, k, v)
         IN /\ Scatter(tb2) /\ Good(tb2, R) /\ Len(tb2.array) = Len(tb.array) /\ tb2.node = tb.node /\ tb2.lastfree = tb.lastfree
            /\ \A q \in Key : luaH_get(tb2, q) = IF q = k THEN v ELSE luaH_get(tb, q)
<1> DEFINE tb2 == Assign(tb, k, v)
           D == DOMAIN tb.node
<1>0. Good(tb, R)
  OBVIOUS
<1>1. tb \in Tables(D) /\ tb.array \in Seq(Entry) /\ Len(tb.array) \in Nat /\ k \in 1 .. Len(tb.array)
  BY <1>0, Nodes DEF Good, InArray, sizearray
<1>2. tb2 = [tb EXCEPT !.array = [tb.array EXCEPT ![k] = v]]
  BY <1>1 DEF Tables, Assign
<1>3. [tb.array EXCEPT ![k] = v] \in Seq(Entry) /\ Len([tb.array EXCEPT ![k] = v]) = Len(tb.array)
      /\ \A q \in 1 .. Len(tb.array) : [tb.array EXCEPT ![k] = v][q] = IF q = k THEN v ELSE tb.array[q]
  BY <1>1, ExceptSeq
<1> HIDE DEF tb2
<1>4. /\ tb2 \in Tables(D) /\ tb2.node = tb.node /\ tb2.lastfree = tb.lastfree /\ tb2.array \in Seq(Entry)
      /\ Len(tb2.array) = Len(tb.array)
      /\ \A q \in 1 .. Len(tb.array) : tb2.array[q] = IF q = k THEN v ELSE tb.array[q]
  BY <1>1, <1>2, <1>3 DEF Tables
<1>5. Shape(tb2)
  <2>1. PICK n \in TwoTo \cup {0} : D = 0 .. n - 1 /\ Cardinality(D) = n
    BY <1>0, Nodes DEF Good
  <2>2. tb2 \in [array : Seq(Entry), node : [0 .. n - 1 -> NodeRecord], lastfree : 0 .. n]
    BY <1>4, <2>1 DEF Tables
  <2> QED BY <1>0, <1>4, <2>2 DEF Shape, Good, sizearray
<1>6. \A q : mainposition(tb2, q) = mainposition(tb, q) /\ (InArray(tb2, q) <=> InArray(tb, q))
  BY <1>0, <1>4, <1>5, SamePositions DEF Good, InArray, sizearray
<1>7. Good(tb2, R)
  BY <1>0, <1>4, <1>5, <1>6 DEF Good, Placed
<1>8. Scatter(tb2)
  BY <1>7 DEF Scatter
<1>9. ASSUME NEW q \in Key PROVE luaH_get(tb2, q) = IF q = k THEN v ELSE luaH_get(tb, q)
  <2>1. CASE InArray(tb, q)
    BY <1>4, <1>6, <2>1 DEF luaH_get, InArray, sizearray
  <2>2. CASE ~InArray(tb, q)
    <3>1. q # k
      BY <2>2
    <3>2. CASE \E i : InNode(tb, q, i)
      <4>1. PICK i : InNode(tb, q, i)
        BY <3>2
      <4>2. InNode(tb2, q, i) /\ ~InArray(tb2, q)
        BY <1>4, <1>6, <2>2, <4>1 DEF InNode
      <4>3. luaH_get(tb, q) = tb.node[i].val
        BY <2>2, <4>1, GetNode
      <4>4. luaH_get(tb2, q) = tb2.node[i].val
        BY <1>8, <4>2, GetNode
      <4> QED BY <1>4, <3>1, <4>3, <4>4
    <3>3. CASE \A i : ~InNode(tb, q, i)
      <4>1. ~InArray(tb2, q) /\ \A i : ~InNode(tb2, q, i)
        BY <1>4, <1>6, <2>2, <3>3 DEF InNode
      <4> QED BY <1>8, <2>2, <3>1, <3>3, <4>1, GetNone
    <3> QED BY <3>2, <3>3
  <2> QED BY <2>1, <2>2
<1> QED BY <1>4, <1>7, <1>8, <1>9 DEF tb2

Valued(D, tb, i, v, tb2) ==
  /\ tb2 \in Tables(D) /\ tb2.array = tb.array /\ tb2.lastfree = tb.lastfree /\ DOMAIN tb2.node = D
  /\ \A j \in D : /\ tb2.node[j].key = tb.node[j].key /\ tb2.node[j].dead = tb.node[j].dead
                  /\ tb2.node[j].next = tb.node[j].next
                  /\ tb2.node[j].val = IF j = i THEN v ELSE tb.node[j].val
Values(tb, i, v, tb2) == tb2 = [tb EXCEPT !.node[i].val = v]

LEMMA Valuing ==
  ASSUME NEW D, NEW tb \in Tables(D), NEW i \in D, NEW v \in Entry, NEW tb2, Values(tb, i, v, tb2)
  PROVE  Valued(D, tb, i, v, tb2)
<1> DEFINE x == [tb.node[i] EXCEPT !.val = v]
           nd2 == [tb.node EXCEPT ![i] = x]
<1>1. tb.node \in [D -> NodeRecord] /\ tb.node[i] \in NodeRecord
  BY DEF Tables
<1>2. x \in NodeRecord /\ x.key = tb.node[i].key /\ x.dead = tb.node[i].dead /\ x.val = v
      /\ x.next = tb.node[i].next
  BY <1>1 DEF NodeRecord
<1>3. tb2 = [tb EXCEPT !.node = nd2]
  BY <1>1 DEF Tables, Values
<1> HIDE DEF x
<1>4. nd2 \in [D -> NodeRecord] /\ nd2[i] = x /\ \A j \in D \ {i} : nd2[j] = tb.node[j]
  BY <1>1, <1>2
<1> HIDE DEF nd2
<1>5. tb2 \in Tables(D) /\ tb2.array = tb.array /\ tb2.lastfree = tb.lastfree /\ tb2.node = nd2
  BY <1>3, <1>4 DEF Tables
<1> QED BY <1>2, <1>4, <1>5 DEF Valued

LEMMA AssignedInNode ==
  ASSUME HashOK, NEW tb, Scatter(tb), NEW R, Good(tb, R), NEW k \in Key, ~InArray(tb, k), NEW i, InNode(tb, k, i), NEW v \in Entry
  PROVE  LET tb2 == Assign(tb, k, v)
         IN /\ Scatter(tb2) /\ Good(tb2, R) /\ Valued(DOMAIN tb.node, tb, i, v, tb2)
            /\ \A q \in Key : luaH_get(tb2, q) = IF q = k THEN v ELSE luaH_get(tb, q)
<1> DEFINE tb2 == Assign(tb, k, v)
           D == DOMAIN tb.node
<1>0. Good(tb, R)
  OBVIOUS
<1>1. Values(tb, i, v, tb2)
  BY GetNode DEF Assign, Values
<1>2. i \in D /\ tb.node[i].key = k /\ ~tb.node[i].dead
  BY DEF InNode, IsKey
<1> HIDE DEF tb2
<1>3. Valued(D, tb, i, v, tb2)
  <2>1. tb \in Tables(D)
    BY <1>0, Nodes DEF Good
  <2> QED BY <1>1, <1>2, <2>1, Valuing
<1>4. Shape(tb2)
  <2>1. \A j \in D : tb2.node[j].dead => tb2.node[j].val = Nil
    BY <1>0, <1>2, <1>3 DEF Valued, Good, Shape
  <2> QED BY <1>0, <1>3, <2>1, ShapeAgain DEF Valued, Good
<1>5. \A q : mainposition(tb2, q) = mainposition(tb, q) /\ (InArray(tb2, q) <=> InArray(tb, q))
  BY <1>0, <1>3, <1>4, SamePositions DEF Good, Valued, InArray, sizearray
<1>6. Good(tb2, R)
  <2>1. Ordered(tb2.node, R)
    BY <1>0, <1>3, OrderedSame DEF Good, Valued
  <2>2. Placed(tb2, R)
    <3>1. \A j \in D : Live(tb2.node[j]) <=> Live(tb.node[j])
      BY <1>3 DEF Valued, Live
    <3>2. DOMAIN tb2.node = D /\ \A j \in D : tb2.node[j].key = tb.node[j].key
      BY <1>3 DEF Valued
    <3>3. ASSUME NEW j \in D, Live(tb.node[j]) PROVE R[mainposition(tb, tb.node[j].key)] \subseteq D
      <4>1. tb.node[j].key \in Key /\ tb.node # <<>>
        BY <1>0, <3>3 DEF Good, Placed
      <4>2. mainposition(tb, tb.node[j].key) \in D
        BY <1>0, <4>1, MainPosition DEF Good
      <4> QED BY <1>0, <4>2 DEF Good, Ordered
    <3>4. ASSUME NEW j \in D, Live(tb.node[j])
          PROVE  LET q == tb.node[j].key
                     mp == mainposition(tb, q)
                 IN j # mp /\ Live(tb2.node[mp]) => Live(tb.node[mp]) /\ tb2.node[mp].key = tb.node[mp].key
      <4>1. tb.node[j].key \in Key /\ tb.node # <<>>
        BY <1>0, <3>4 DEF Good, Placed
      <4>2. mainposition(tb, tb.node[j].key) \in D
        BY <1>0, <4>1, MainPosition DEF Good
      <4> QED BY <3>1, <3>2, <4>2
    <3> QED BY <1>0, <1>5, <3>1, <3>2, <3>3, <3>4 DEF Good, Placed
  <2>3. Unused(tb2.node)
    <3>1. k # Nil
      BY KeyKinds
    <3> QED BY <1>0, <1>2, <1>3, <3>1 DEF Good, Unused, Valued
  <2> QED BY <1>4, <2>1, <2>2, <2>3 DEF Good
<1>7. Scatter(tb2)
  BY <1>6 DEF Scatter
<1>8. ASSUME NEW q \in Key PROVE luaH_get(tb2, q) = IF q = k THEN v ELSE luaH_get(tb, q)
  <2>1. CASE InArray(tb, q)
    BY <1>3, <1>5, <2>1 DEF luaH_get, Valued
  <2>2. CASE ~InArray(tb, q)
    <3>1. \A j : InNode(tb, q, j) <=> InNode(tb2, q, j)
      BY <1>3 DEF InNode, Valued, IsKey
    <3>2. CASE \E j : InNode(tb, q, j)
      <4>1. PICK j : InNode(tb, q, j)
        BY <3>2
      <4>2. luaH_get(tb, q) = tb.node[j].val
        BY <2>2, <4>1, GetNode
      <4>3. luaH_get(tb2, q) = tb2.node[j].val
        BY <1>5, <1>7, <2>2, <3>1, <4>1, GetNode
      <4>4. j = i <=> q = k
        <5>1. q = k => j = i
          <6>1. q = k => NodeOf(tb, k) = j /\ NodeOf(tb, k) = i
            BY <2>2, <4>1, GetNode
          <6> QED BY <6>1
        <5>2. j = i => q = k
          BY <1>2, <4>1 DEF InNode, IsKey
        <5> QED BY <5>1, <5>2
      <4>5. j \in D
        BY <4>1 DEF InNode
      <4> QED BY <1>3, <4>2, <4>3, <4>4, <4>5 DEF Valued
    <3>3. CASE \A j : ~InNode(tb, q, j)
      <4>1. q # k
        BY <3>3
      <4> QED BY <1>5, <1>7, <2>2, <3>1, <3>3, <4>1, GetNone
    <3> QED BY <3>2, <3>3
  <2> QED BY <2>1, <2>2
<1> QED BY <1>3, <1>6, <1>7, <1>8 DEF tb2

(* luaH_set and the assignment to what it returns. *)
LEMMA PutLemma ==
  ASSUME HashOK, NEW tb, Scatter(tb), NEW k \in Key, NEW v \in Entry,
         InArray(tb, k) \/ HasNode(tb, k) \/ ~NeedsRehash(tb, k)
  PROVE  LET tb2 == Put(tb, k, v)
         IN /\ Scatter(tb2) /\ Len(tb2.array) = Len(tb.array) /\ DOMAIN tb2.node = DOMAIN tb.node
            /\ \A q \in Key : luaH_get(tb2, q) = IF q = k THEN v ELSE luaH_get(tb, q)
            /\ Filled(tb) => Filled(tb2)
            /\ \A W : Fresh(tb, W) /\ (k \in W \/ InArray(tb, k)) => Fresh(tb2, W)
<1> DEFINE in == IF InArray(tb, k) \/ HasNode(tb, k) THEN tb ELSE Insert(tb, k)
           tb2 == Put(tb, k, v)
<1>1. tb2 = Assign(in, k, v)
  BY DEF Put, Assign
<1>2. /\ Scatter(in) /\ in.array = tb.array /\ DOMAIN in.node = DOMAIN tb.node
      /\ \A q \in Key : luaH_get(in, q) = luaH_get(tb, q)
      /\ Filled(tb) => Filled(in)
      /\ \A W : Fresh(tb, W) /\ (k \in W \/ InArray(tb, k)) => Fresh(in, W)
      /\ ~InArray(in, k) => \E i : InNode(in, k, i)
  <2>1. CASE InArray(tb, k)
    BY <2>1
  <2>2. CASE ~InArray(tb, k) /\ HasNode(tb, k)
    <3>1. \E i : InNode(tb, k, i)
      BY <2>2, GetNone
    <3>2. ASSUME NEW W, Fresh(tb, W) PROVE Fresh(in, W)
      BY <2>2, <3>2
    <3> QED BY <2>2, <3>1, <3>2
  <2>3. CASE ~InArray(tb, k) /\ ~HasNode(tb, k)
    <3>1. in = Insert(tb, k)
      BY <2>3
    <3> HIDE DEF in
    <3> QED BY <2>3, <3>1, Inserted
  <2> QED BY <2>1, <2>2, <2>3
<1> HIDE DEF in, tb2
<1>0. PICK R : Good(in, R)
  BY <1>2 DEF Scatter
<1>3. CASE InArray(in, k)
  <2>1. /\ Scatter(tb2) /\ Len(tb2.array) = Len(in.array) /\ tb2.node = in.node /\ tb2.lastfree = in.lastfree
        /\ \A q \in Key : luaH_get(tb2, q) = IF q = k THEN v ELSE luaH_get(in, q)
    BY <1>0, <1>1, <1>2, <1>3, AssignedInArray
  <2>2. Filled(tb) => Filled(tb2)
    BY <1>2, <2>1 DEF Filled
  <2>3. \A W : Fresh(tb, W) /\ (k \in W \/ InArray(tb, k)) => Fresh(tb2, W)
    BY <1>2, <2>1 DEF Fresh
  <2> QED BY <1>2, <2>1, <2>2, <2>3 DEF tb2
<1>4. CASE ~InArray(in, k)
  <2>1. PICK i : InNode(in, k, i)
    BY <1>2, <1>4
  <2>2. /\ Scatter(tb2) /\ Valued(DOMAIN in.node, in, i, v, tb2)
        /\ \A q \in Key : luaH_get(tb2, q) = IF q = k THEN v ELSE luaH_get(in, q)
    BY <1>0, <1>1, <1>2, <1>4, <2>1, AssignedInNode
  <2>3. Filled(tb) => Filled(tb2)
    BY <1>2, <2>2 DEF Filled, Valued
  <2>4. \A W : Fresh(tb, W) /\ (k \in W \/ InArray(tb, k)) => Fresh(tb2, W)
    BY <1>2, <2>2 DEF Fresh, Valued
  <2>5. tb2.array = in.array /\ DOMAIN tb2.node = DOMAIN in.node
    BY <2>2 DEF Valued
  <2> QED BY <1>2, <2>2, <2>3, <2>4, <2>5 DEF tb2
<1> QED BY <1>3, <1>4

------------------------------------------------------------------------------
(* A rehash. *)

(* In nodes filled from the last on, with keys of a set no larger than their *)
(* number, there is room for each of these keys.                             *)
LEMMA Room ==
  ASSUME HashOK, NEW tb, Scatter(tb), NEW W, Fresh(tb, W), Filled(tb),
         IsFiniteSet(W), Cardinality(W) <= Cardinality(DOMAIN tb.node),
         NEW k \in Key, k \in W, ~InArray(tb, k), ~HasNode(tb, k)
  PROVE  ~NeedsRehash(tb, k)
<1> SUFFICES ASSUME getfreepos(tb) = Nil PROVE FALSE
  BY DEF NeedsRehash
<1> DEFINE D == DOMAIN tb.node
           c == Cardinality(D)
           free == {i \in D : i < tb.lastfree /\ tb.node[i].key = Nil}
           f == [i \in D |-> tb.node[i].key]
<1>0. PICK R : Good(tb, R)
  BY DEF Scatter
<1>1. IsFiniteSet(D) /\ c \in Nat /\ D = 0 .. c - 1 /\ Nil \notin D /\ tb \in Tables(D)
  BY <1>0, Nodes DEF Good
<1>2. tb.lastfree \in Nat
  BY <1>1 DEF Tables
<1>3. free = {}
  <2>1. getfreepos(tb) = IF free = {} THEN Nil ELSE Max(free)
    BY DEF getfreepos
  <2>2. free \in SUBSET (0 .. c) /\ free \subseteq D
    BY <1>1
  <2> HIDE DEF free, c
  <2>3. free # {} => Max(free) \in free
    BY <1>1, <2>2, LastPosition
  <2> QED BY <1>1, <2>1, <2>2, <2>3
<1>4. ASSUME NEW i \in D PROVE tb.node[i].key # Nil /\ ~tb.node[i].dead /\ tb.node[i].key \in W
  <2>1. i >= tb.lastfree \/ i < tb.lastfree
    BY <1>1, <1>2
  <2>2. tb.node[i].key # Nil
    BY <1>3, <2>1 DEF Filled
  <2> QED BY <2>2 DEF Fresh
<1>5. ASSUME NEW i \in D PROVE f[i] \in W \ {k}
  <2>1. ~InNode(tb, k, i)
    BY GetNode
  <2> QED BY <1>4, <2>1 DEF InNode, IsKey
<1>6. \A i, j \in D : f[i] = f[j] => i = j
  BY <1>0, <1>4 DEF Good, Placed, Live
<1>7. f \in Injection(D, W \ {k})
  BY <1>5, <1>6 DEF Injection, IsInjective
<1> HIDE DEF f
<1>8. IsFiniteSet(W \ {k}) /\ Cardinality(W \ {k}) = Cardinality(W) - 1 /\ Cardinality(W) \in Nat
  BY FS_RemoveElement, FS_CardinalityType
<1>9. c <= Cardinality(W \ {k})
  BY <1>7, <1>8, FS_Injection
<1> HIDE DEF c
<1>10. Cardinality(W) <= c
  BY DEF c
<1> QED BY <1>1, <1>8, <1>9, <1>10

LEMMA IntervalEnd ==
  ASSUME NEW m \in Nat
  PROVE  Max(1 .. m + 1) = m + 1 /\ (1 .. m + 1) \ {m + 1} = 1 .. m /\ 1 .. m + 1 # {}
<1> DEFINE S == 1 .. m + 1
<1>1. m + 1 \in S /\ \A y \in S : y <= m + 1
  OBVIOUS
<1>2. S \in SUBSET (0 .. m + 1) /\ m + 1 \in Nat /\ S # {} /\ \A y \in S : y \in Nat
  OBVIOUS
<1> HIDE DEF S
<1>3. Max(S) \in S /\ \A q \in S : q <= Max(S)
  BY <1>2, LastPosition
<1>4. Max(S) <= m + 1 /\ m + 1 <= Max(S)
  BY <1>1, <1>3, Zenon
<1>5. Max(S) \in Nat
  BY <1>2, <1>3, Zenon
<1>6. Max(S) = m + 1
  BY <1>4, <1>5
<1> QED BY <1>6 DEF S

(* FoldLeft puts the elements again one after the other. *)
Refolds(base, s, D, f) ==
  f = [u \in SUBSET D |-> IF u = {} THEN base ELSE Reinsert(f[u \ {Max(u)}], s[Max(u)])]

LEMMA RefoldsExists == ASSUME NEW base, NEW s PROVE \A n \in Nat : \E f : Refolds(base, s, 1 .. n, f)
<1> DEFINE S == {n \in Nat : \E f : Refolds(base, s, 1 .. n, f)}
<1>1. 0 \in S
  <2> DEFINE f == [u \in SUBSET {} |-> base]
  <2>1. Refolds(base, s, {}, f)
    BY DEF Refolds
  <2>2. 1 .. 0 = {}
    OBVIOUS
  <2> QED BY <2>1, <2>2
<1>2. ASSUME NEW n \in Nat, n \in S PROVE n + 1 \in S
  <2>1. PICK f : Refolds(base, s, 1 .. n, f)
    BY <1>2
  <2> DEFINE g == [u \in SUBSET (1 .. n + 1) |-> IF u = {} THEN base ELSE Reinsert(f[u \ {Max(u)}], s[Max(u)])]
  <2>2. \A u \in SUBSET (1 .. n) : f[u] = IF u = {} THEN base ELSE Reinsert(f[u \ {Max(u)}], s[Max(u)])
    BY <2>1 DEF Refolds
  <2>3. ASSUME NEW u \in SUBSET (1 .. n + 1), u # {} PROVE u \ {Max(u)} \in SUBSET (1 .. n)
    <3>1. u \in SUBSET (0 .. n + 1) /\ n + 1 \in Nat
      OBVIOUS
    <3>2. Max(u) \in u /\ \A q \in u : q <= Max(u)
      BY <2>3, <3>1, LastPosition
    <3>3. ASSUME NEW q \in u, q # Max(u) PROVE q \in 1 .. n
      <4>1. q \in 1 .. n + 1 /\ Max(u) \in 1 .. n + 1 /\ q <= Max(u)
        BY <3>2
      <4> HIDE <3>2
      <4> QED BY <3>3, <4>1
    <3> QED BY <3>3
  <2>4. \A u \in SUBSET (1 .. n) : u \in SUBSET (1 .. n + 1)
    OBVIOUS
  <2>5. \A u \in SUBSET (1 .. n) : g[u] = f[u]
    BY <2>2, <2>4
  <2>6. \A u \in SUBSET (1 .. n + 1) : u # {} => g[u \ {Max(u)}] = f[u \ {Max(u)}]
    BY <2>3, <2>5
  <2>7. \A u \in SUBSET (1 .. n + 1) : g[u] = IF u = {} THEN base ELSE Reinsert(g[u \ {Max(u)}], s[Max(u)])
    BY <2>6
  <2>8. g = [u \in SUBSET (1 .. n + 1) |-> g[u]]
    OBVIOUS
  <2> HIDE DEF g
  <2>9. Refolds(base, s, 1 .. n + 1, g)
    BY <2>7, <2>8, Zenon DEF Refolds
  <2> QED BY <2>9
<1> HIDE DEF S
<1>3. \A n \in Nat : n \in S
  BY <1>1, <1>2, SetInduction
<1> QED BY <1>3 DEF S

Trace(base, s, n, r, x) ==
  r[0] = base /\ r[n] = x /\ \A m \in 0 .. n - 1 : r[m + 1] = Reinsert(r[m], s[m + 1])

LEMMA FoldSteps ==
  ASSUME NEW base, NEW s, NEW n \in Nat, DOMAIN s = 1 .. n
  PROVE  \E r : Trace(base, s, n, r, FoldLeft(Reinsert, base, s))
<1> DEFINE f == CHOOSE f : Refolds(base, s, DOMAIN s, f)
           r == [m \in 0 .. n |-> f[1 .. m]]
<1>1. Refolds(base, s, 1 .. n, f)
  BY RefoldsExists, Zenon
<1>2. FoldLeft(Reinsert, base, s) = f[DOMAIN s]
  BY Zenon DEF FoldLeft, MapThenFoldSet, Refolds
<1> HIDE DEF f
<1>3. \A u \in SUBSET (1 .. n) : f[u] = IF u = {} THEN base ELSE Reinsert(f[u \ {Max(u)}], s[Max(u)])
  BY <1>1 DEF Refolds
<1>4. r[0] = base
  <2>1. 1 .. 0 = {} /\ {} \in SUBSET (1 .. n) /\ 0 \in 0 .. n
    OBVIOUS
  <2>2. r[0] = f[{}]
    BY <2>1
  <2> HIDE DEF r
  <2> QED BY <1>3, <2>1, <2>2
<1>5. r[n] = FoldLeft(Reinsert, base, s)
  BY <1>2
<1>6. ASSUME NEW m \in 0 .. n - 1 PROVE r[m + 1] = Reinsert(r[m], s[m + 1])
  <2>1. m \in Nat /\ 1 .. m + 1 \in SUBSET (1 .. n) /\ m \in 0 .. n /\ m + 1 \in 0 .. n
    OBVIOUS
  <2>2. r[m] = f[1 .. m] /\ r[m + 1] = f[1 .. m + 1]
    BY <2>1
  <2>3. Max(1 .. m + 1) = m + 1 /\ (1 .. m + 1) \ {m + 1} = 1 .. m /\ 1 .. m + 1 # {}
    BY <2>1, IntervalEnd
  <2> HIDE DEF r
  <2>4. f[1 .. m + 1] = Reinsert(f[(1 .. m + 1) \ {Max(1 .. m + 1)}], s[Max(1 .. m + 1)])
    BY <1>3, <2>1, <2>3
  <2> QED BY <2>2, <2>3, <2>4
<1> HIDE DEF r
<1> QED BY <1>4, <1>5, <1>6 DEF Trace

LEMMA RoundedUp ==
  ASSUME NEW n \in Nat, \E p \in TwoTo : p >= n
  PROVE  RoundUp(n) \in TwoTo /\ RoundUp(n) >= n
<1> DEFINE S == {p \in TwoTo : p >= n}
<1>1. S \in SUBSET Nat /\ S # {}
  BY TwoToType
<1>2. \E x \in S : \A y \in S : x <= y
  BY <1>1, LeastNatural
<1>3. Min(S) \in S
  BY <1>2, Zenon DEF Min
<1> QED BY <1>3 DEF RoundUp

(* The new vectors of resize: the nodes are empty. *)
Vectors(tb, na, size, new) ==
  /\ new.array \in Seq(Entry) /\ Len(new.array) = na
  /\ \A k \in 1 .. na : new.array[k] = IF InArray(tb, k) THEN tb.array[k] ELSE Nil
  /\ new.node \in [0 .. size - 1 -> NodeRecord] /\ new.lastfree = size
  /\ \A i \in 0 .. size - 1 : new.node[i] = Node(Nil, Nil, Nil)
  /\ new \in [array : Seq(Entry), node : [0 .. size - 1 -> NodeRecord], lastfree : 0 .. size]

LEMMA NewVectors ==
  ASSUME HashOK, NEW tb, Scatter(tb), NEW na \in Nat, NEW nh \in Nat, nh = 0 \/ \E p \in TwoTo : p >= nh
  PROVE  \E size \in TwoTo \cup {0} : nh <= size /\ Vectors(tb, na, size, setnodevector(setarrayvector(tb, na), nh))
<1> DEFINE size == IF nh = 0 THEN 0 ELSE RoundUp(nh)
           grown == setarrayvector(tb, na)
           new == setnodevector(grown, nh)
           D == DOMAIN tb.node
<1>1. size \in TwoTo \cup {0} /\ nh <= size /\ size \in Nat
  <2>1. CASE nh = 0
    BY <2>1
  <2>2. CASE nh # 0
    BY <2>2, RoundedUp, TwoToType
  <2> QED BY <2>1, <2>2
<1>2. tb \in Tables(D) /\ tb.array \in Seq(Entry) /\ Len(tb.array) \in Nat
  BY Nodes DEF Scatter, Good
<1>3. [k \in 1 .. na |-> IF InArray(tb, k) THEN tb.array[k] ELSE Nil] \in Seq(Entry)
      /\ Len([k \in 1 .. na |-> IF InArray(tb, k) THEN tb.array[k] ELSE Nil]) = na
  <2>1. ASSUME NEW k \in 1 .. na PROVE (IF InArray(tb, k) THEN tb.array[k] ELSE Nil) \in Entry
    BY <1>2, ElementOfSeq DEF InArray, sizearray, Entry
  <2>2. [k \in 1 .. na |-> IF InArray(tb, k) THEN tb.array[k] ELSE Nil] \in [1 .. na -> Entry]
    BY <2>1
  <2> QED BY <2>2
<1>4. grown = [tb EXCEPT !.array = [k \in 1 .. na |-> IF InArray(tb, k) THEN tb.array[k] ELSE Nil]]
  BY <1>2 DEF setarrayvector, Tables
<1>5. grown \in Tables(D) /\ grown.array = [k \in 1 .. na |-> IF InArray(tb, k) THEN tb.array[k] ELSE Nil]
  BY <1>2, <1>3, <1>4 DEF Tables
<1>6. new = [grown EXCEPT !.node = [i \in 0 .. size - 1 |-> Node(Nil, Nil, Nil)], !.lastfree = size]
  BY DEF setnodevector
<1>7. Node(Nil, Nil, Nil) \in NodeRecord
  BY DEF Node, NodeRecord, Entry
<1> HIDE DEF grown, new, size
<1>8. [i \in 0 .. size - 1 |-> Node(Nil, Nil, Nil)] \in [0 .. size - 1 -> NodeRecord]
  BY <1>7
<1>9. size \in 0 .. size
  BY <1>1
<1>10. /\ new.array = grown.array /\ new.lastfree = size
       /\ new.node = [i \in 0 .. size - 1 |-> Node(Nil, Nil, Nil)]
       /\ new \in [array : Seq(Entry), node : [0 .. size - 1 -> NodeRecord], lastfree : 0 .. size]
  BY <1>5, <1>6, <1>8, <1>9 DEF Tables
<1>11. Vectors(tb, na, size, new)
  BY <1>3, <1>5, <1>8, <1>10 DEF Vectors
<1> QED BY <1>1, <1>11 DEF grown, new

LEMMA NewTable ==
  ASSUME HashOK, NEW tb, Scatter(tb), NEW na \in Nat, NEW size \in TwoTo \cup {0},
         NEW new, Vectors(tb, na, size, new)
  PROVE  /\ Scatter(new) /\ sizearray(new) = na /\ Cardinality(DOMAIN new.node) = size
         /\ Filled(new) /\ \A W : Fresh(new, W)
         /\ \A q \in Key : luaH_get(new, q) = IF q \in 1 .. na /\ InArray(tb, q) THEN tb.array[q] ELSE Nil
<1> DEFINE D == DOMAIN new.node
           R == [i \in D |-> {i}]
<1>0. size \in Nat
  BY TwoToType
<1>1. D = 0 .. size - 1 /\ Len(new.array) = na /\ new.lastfree = size
  BY DEF Vectors
<1>2. \A i \in D : new.node[i].key = Nil /\ new.node[i].val = Nil /\ new.node[i].dead = FALSE
                   /\ new.node[i].next = Nil
  BY DEF Vectors, Node
<1>3. Shape(new)
  <2>1. ASSUME NEW i \in 1 .. na, new.array[i] # Nil PROVE i \in Key
    BY <2>1 DEF Scatter, Good, Shape, Vectors, InArray
  <2>2. new \in [array : Seq(Entry), node : [0 .. size - 1 -> NodeRecord], lastfree : 0 .. size]
    BY DEF Vectors
  <2> QED BY <1>1, <1>2, <2>1, <2>2 DEF Shape, sizearray
<1>4. Nil \notin D
  BY <1>3, Nodes
<1>5. Good(new, R)
  <2>1. Ordered(new.node, R)
    BY <1>2 DEF Ordered
  <2>2. Placed(new, R)
    BY <1>2 DEF Placed, Live
  <2>3. Unused(new.node)
    BY <1>2, <1>4 DEF Unused
  <2> QED BY <1>3, <2>1, <2>2, <2>3 DEF Good
<1>6. Scatter(new)
  BY <1>5 DEF Scatter
<1>7. Cardinality(D) = size
  <2>1. 0 \in Int /\ size - 1 \in Int
    BY <1>0
  <2>2. Cardinality(0 .. size - 1) = IF 0 > size - 1 THEN 0 ELSE (size - 1) - 0 + 1
    BY <2>1, FS_Interval
  <2> QED BY <1>0, <1>1, <2>2
<1>8. Filled(new)
  BY <1>0, <1>1 DEF Filled
<1>9. \A W : Fresh(new, W)
  BY <1>2 DEF Fresh
<1>10. ASSUME NEW q \in Key
       PROVE  luaH_get(new, q) = IF q \in 1 .. na /\ InArray(tb, q) THEN tb.array[q] ELSE Nil
  <2>1. InArray(new, q) <=> q \in 1 .. na
    BY <1>1 DEF InArray, sizearray
  <2>2. CASE InArray(new, q)
    BY <2>1, <2>2 DEF luaH_get, Vectors
  <2>3. CASE ~InArray(new, q)
    <3>1. q # Nil
      BY KeyKinds
    <3>2. \A i : ~InNode(new, q, i)
      BY <1>2, <3>1 DEF InNode, IsKey
    <3>3. luaH_get(new, q) = Nil
      BY <1>6, <2>3, <3>2, GetNone
    <3> QED BY <2>1, <2>3, <3>3
  <2> QED BY <2>2, <2>3
<1> QED BY <1>1, <1>6, <1>7, <1>8, <1>9, <1>10 DEF sizearray

LEMMA MaxZero == ASSUME NEW a \in Int PROVE Max({a, 0}) = IF a > 0 THEN a ELSE 0
<1> DEFINE b == IF a > 0 THEN a ELSE 0
<1>1. b \in {a, 0} /\ \A y \in {a, 0} : b >= y
  OBVIOUS
<1>2. \E x \in {a, 0} : \A y \in {a, 0} : x >= y
  BY <1>1
<1>3. Max({a, 0}) \in {a, 0} /\ \A y \in {a, 0} : Max({a, 0}) >= y
  BY <1>2, Zenon DEF Max
<1> DEFINE m == Max({a, 0})
<1>4. m \in {a, 0} /\ m >= a /\ m >= 0
  BY <1>3
<1> HIDE DEF m
<1>5. m = b
  BY <1>4
<1> QED BY <1>5 DEF m

Joined(w, u, v, m, n) ==
  /\ DOMAIN w = 1 .. m + n
  /\ \A j \in 1 .. m : j \in 1 .. m + n /\ w[j] = u[j]
  /\ \A j \in 1 .. n : m + j \in 1 .. m + n /\ w[m + j] = v[j]
  /\ \A j \in 1 .. m + n : (\E i \in 1 .. m : w[j] = u[i]) \/ (\E i \in 1 .. n : w[j] = v[i])

LEMMA Concatenation ==
  ASSUME NEW S, NEW u \in Seq(S), NEW v \in Seq(S)
  PROVE  Joined(u \o v, u, v, Len(u), Len(v))
<1> DEFINE w == u \o v
           m == Len(u)
           n == Len(v)
<1>1. m \in Nat /\ n \in Nat
  BY LenProperties
<1>2. w \in Seq(S) /\ Len(w) = m + n /\ \A j \in 1 .. m + n : w[j] = IF j <= m THEN u[j] ELSE v[j - m]
  BY ConcatProperties
<1>3. DOMAIN w = 1 .. m + n
  BY <1>1, <1>2, LenProperties
<1> HIDE DEF w, m, n
<1>4. ASSUME NEW j \in 1 .. m PROVE j \in 1 .. m + n /\ w[j] = u[j]
  <2>1. j \in 1 .. m + n /\ j <= m
    BY <1>1
  <2> QED BY <1>2, <2>1
<1>5. ASSUME NEW j \in 1 .. n PROVE m + j \in 1 .. m + n /\ w[m + j] = v[j]
  <2>1. m + j \in 1 .. m + n /\ ~(m + j <= m) /\ (m + j) - m = j
    BY <1>1
  <2> QED BY <1>2, <2>1
<1>6. ASSUME NEW j \in 1 .. m + n
      PROVE  (\E i \in 1 .. m : w[j] = u[i]) \/ (\E i \in 1 .. n : w[j] = v[i])
  <2>1. CASE j <= m
    <3>1. j \in 1 .. m
      BY <1>1, <2>1
    <3> QED BY <1>2, <2>1, <3>1
  <2>2. CASE ~(j <= m)
    <3>1. j - m \in 1 .. n
      BY <1>1, <2>2
    <3> QED BY <1>2, <2>2, <3>1
  <2> QED BY <2>1, <2>2
<1>7. Joined(w, u, v, m, n)
  BY <1>3, <1>4, <1>5, <1>6 DEF Joined
<1> QED BY <1>7 DEF w, m, n

(* The elements resize puts again: those of the table that are not in what   *)
(* remains of the array.                                                     *)
Elements(tb, na) == Vanishing(tb, na) \o Rehashed(tb)

Listed(tb, na, s, n) ==
  /\ DOMAIN s = 1 .. n
  /\ \A j \in 1 .. n : s[j][2] # Nil =>
       s[j][1] \in Key /\ s[j][2] \in Entry /\ luaH_get(tb, s[j][1]) = s[j][2]
  /\ \A q \in Key : luaH_get(tb, q) # Nil =>
       (q \in 1 .. na /\ InArray(tb, q)) \/ \E j \in 1 .. n : s[j][1] = q /\ s[j][2] # Nil

LEMMA Entries ==
  ASSUME HashOK, NEW tb, Scatter(tb), NEW na \in Nat
  PROVE  \E n \in Nat : Listed(tb, na, Elements(tb, na), n)
<1> DEFINE s == Elements(tb, na)
           D == DOMAIN tb.node
           c == Cardinality(D)
           l == Len(tb.array)
           vl == IF l - na > 0 THEN l - na ELSE 0
           u == Vanishing(tb, na)
           v == Rehashed(tb)
           S == (Nat \cup Key \cup {Nil}) \X Entry
<1>0. PICK R : Good(tb, R)
  BY DEF Scatter
<1>1. c \in Nat /\ D = 0 .. c - 1 /\ l \in Nat /\ tb.array \in Seq(Entry) /\ tb.node \in [D -> NodeRecord]
  BY <1>0, Nodes DEF Good
<1>2. u = [i \in 1 .. vl |-> <<na + i, tb.array[na + i]>>]
  <2>1. Max({l - na, 0}) = vl
    BY <1>1, MaxZero
  <2> QED BY <2>1 DEF Vanishing, sizearray
<1>3. v = [i \in 1 .. c |-> <<tb.node[c - i].key, tb.node[c - i].val>>]
  BY DEF Rehashed
<1> HIDE DEF c, l
<1>4. vl \in Nat
  BY <1>1
<1>5. ASSUME NEW i \in 1 .. vl PROVE na + i \in 1 .. l /\ na + i \in Nat /\ tb.array[na + i] \in Entry
  <2>1. na + i \in 1 .. l /\ na + i \in Nat
    BY <1>1
  <2> QED BY <1>1, <2>1, ElementOfSeq DEF l
<1>6. ASSUME NEW i \in 1 .. c PROVE c - i \in D /\ tb.node[c - i].key \in Key \cup {Nil} /\ tb.node[c - i].val \in Entry
  <2>1. c - i \in D
    BY <1>1
  <2> QED BY <1>1, <2>1 DEF NodeRecord
<1> HIDE DEF u, v, vl, D
<1>7. u \in Seq(S) /\ Len(u) = vl
  <2>1. u \in [1 .. vl -> S]
    BY <1>2, <1>5
  <2> HIDE DEF S
  <2> QED BY <1>4, <2>1
<1>8. v \in Seq(S) /\ Len(v) = c
  <2>1. v \in [1 .. c -> S]
    BY <1>3, <1>6
  <2> HIDE DEF S
  <2> QED BY <1>1, <2>1
<1> HIDE DEF S
<1>9. /\ DOMAIN s = 1 .. vl + c /\ vl + c \in Nat
      /\ \A j \in 1 .. vl : j \in 1 .. vl + c /\ s[j] = u[j]
      /\ \A j \in 1 .. c : vl + j \in 1 .. vl + c /\ s[vl + j] = v[j]
      /\ \A j \in 1 .. vl + c : (\E i \in 1 .. vl : s[j] = u[i]) \/ (\E i \in 1 .. c : s[j] = v[i])
  <2>1. s = u \o v
    BY DEF Elements, u, v
  <2> HIDE DEF s
  <2>2. Joined(s, u, v, vl, c)
    BY <1>7, <1>8, <2>1, Concatenation
  <2>3. vl + c \in Nat
    BY <1>1, <1>4
  <2> QED BY <2>2, <2>3, Zenon DEF Joined
<1> HIDE DEF s
<1>10. ASSUME NEW i \in 1 .. vl
       PROVE  u[i][1] = na + i /\ u[i][2] = tb.array[na + i]
  BY <1>2
<1>11. ASSUME NEW i \in 1 .. c
       PROVE  v[i][1] = tb.node[c - i].key /\ v[i][2] = tb.node[c - i].val
  BY <1>3
<1>12. ASSUME NEW i \in D, tb.node[i].val # Nil
       PROVE  tb.node[i].key \in Key /\ luaH_get(tb, tb.node[i].key) = tb.node[i].val
  <2>1. Live(tb.node[i]) /\ tb.node[i].key \in Key
    BY <1>0, <1>12, LiveAtMain DEF D
  <2>2. ~InArray(tb, tb.node[i].key) /\ InNode(tb, tb.node[i].key, i)
    BY <1>0, <2>1 DEF Good, Placed, InNode, IsKey, Live, D
  <2> QED BY <2>1, <2>2, GetNode
<1>13. ASSUME NEW j \in 1 .. vl + c, s[j][2] # Nil
       PROVE  s[j][1] \in Key /\ s[j][2] \in Entry /\ luaH_get(tb, s[j][1]) = s[j][2]
  <2>1. CASE \E i \in 1 .. vl : s[j] = u[i]
    <3>1. PICK i \in 1 .. vl : s[j] = u[i]
      BY <2>1
    <3> DEFINE q == na + i
    <3>2. q \in 1 .. l /\ tb.array[q] # Nil /\ tb.array[q] \in Entry /\ s[j][1] = q /\ s[j][2] = tb.array[q]
      BY <1>5, <1>10, <1>13, <3>1
    <3> HIDE DEF q
    <3>3. q \in Key
      BY <1>0, <3>2 DEF Good, Shape, sizearray, l
    <3>4. luaH_get(tb, q) = tb.array[q]
      BY <3>2 DEF luaH_get, InArray, sizearray, l
    <3> QED BY <3>2, <3>3, <3>4
  <2>2. CASE \E i \in 1 .. c : s[j] = v[i]
    <3>1. PICK i \in 1 .. c : s[j] = v[i]
      BY <2>2
    <3> DEFINE q == c - i
    <3>2. q \in D /\ tb.node[q].val # Nil /\ tb.node[q].val \in Entry /\ s[j][1] = tb.node[q].key
          /\ s[j][2] = tb.node[q].val
      BY <1>6, <1>11, <1>13, <3>1
    <3> HIDE DEF q
    <3> QED BY <1>12, <3>2
  <2> QED BY <1>9, <2>1, <2>2
<1>14. ASSUME NEW q \in Key, luaH_get(tb, q) # Nil, ~(q \in 1 .. na /\ InArray(tb, q))
       PROVE  \E j \in 1 .. vl + c : s[j][1] = q /\ s[j][2] # Nil
  <2>1. CASE InArray(tb, q)
    <3>1. q \in 1 .. l /\ q \notin 1 .. na /\ tb.array[q] # Nil
      BY <1>14, <2>1 DEF InArray, sizearray, luaH_get, l
    <3>2. q - na \in 1 .. vl /\ na + (q - na) = q
      BY <1>1, <3>1 DEF vl
    <3>3. s[q - na] = u[q - na] /\ q - na \in 1 .. vl + c
      BY <1>9, <3>2
    <3>4. u[q - na][1] = q /\ u[q - na][2] # Nil
      BY <1>10, <3>1, <3>2
    <3> QED BY <3>3, <3>4
  <2>2. CASE ~InArray(tb, q)
    <3>1. PICK i : InNode(tb, q, i)
      BY <1>14, <2>2, GetNone
    <3>2. i \in D /\ tb.node[i].key = q /\ tb.node[i].val # Nil
      <4>1. luaH_get(tb, q) = tb.node[i].val
        BY <2>2, <3>1, GetNode
      <4> QED BY <1>14, <3>1, <4>1 DEF InNode, IsKey, D
    <3>3. c - i \in 1 .. c /\ c - (c - i) = i
      BY <1>1, <3>2
    <3>4. v[c - i][1] = q /\ v[c - i][2] # Nil
      BY <1>11, <3>2, <3>3
    <3>5. s[vl + (c - i)] = v[c - i] /\ vl + (c - i) \in 1 .. vl + c
      BY <1>9, <3>3
    <3> QED BY <3>4, <3>5
  <2> QED BY <2>1, <2>2
<1>15. Listed(tb, na, s, vl + c)
  BY <1>9, <1>13, <1>14 DEF Listed
<1> QED BY <1>9, <1>15 DEF s

(* The table x after the first m elements of s are in new again. *)
Reinserted(tb, new, W, s, m, x) ==
  /\ Scatter(x) /\ sizearray(x) = sizearray(new) /\ DOMAIN x.node = DOMAIN new.node
  /\ Filled(x) /\ Fresh(x, W)
  /\ \A q \in Key :
       luaH_get(x, q) = IF \E j \in 1 .. m : s[j][1] = q /\ s[j][2] # Nil
                        THEN luaH_get(tb, q) ELSE luaH_get(new, q)

LEMMA ReinsertStep ==
  ASSUME HashOK, NEW tb, NEW new, NEW W, IsFiniteSet(W), Cardinality(W) <= Cardinality(DOMAIN new.node),
         NEW s, NEW n \in Nat, NEW m \in 0 .. n - 1, NEW x, Reinserted(tb, new, W, s, m, x),
         \A j \in 1 .. n : s[j][2] # Nil =>
            /\ s[j][1] \in Key /\ s[j][2] \in Entry /\ luaH_get(tb, s[j][1]) = s[j][2]
            /\ InArray(new, s[j][1]) \/ s[j][1] \in W
  PROVE  Reinserted(tb, new, W, s, m + 1, Reinsert(x, s[m + 1]))
<1> DEFINE k == s[m + 1][1]
           v == s[m + 1][2]
           y == Reinsert(x, s[m + 1])
<1>1. m + 1 \in 1 .. n /\ \A j : j \in 1 .. m + 1 <=> j \in 1 .. m \/ j = m + 1
  OBVIOUS
<1>2. CASE v = Nil
  <2>1. y = x
    BY <1>2 DEF Reinsert
  <2>2. \A q : (\E j \in 1 .. m : s[j][1] = q /\ s[j][2] # Nil) <=> (\E j \in 1 .. m + 1 : s[j][1] = q /\ s[j][2] # Nil)
    BY <1>1, <1>2
  <2> HIDE DEF y
  <2>3. Reinserted(tb, new, W, s, m + 1, x)
    BY <2>2, Zenon DEF Reinserted
  <2> QED BY <2>1, <2>3 DEF y
<1>3. CASE v # Nil
  <2>1. y = PutIfRoom(x, k, v)
    BY <1>3 DEF Reinsert
  <2>2. k \in Key /\ v \in Entry /\ luaH_get(tb, k) = v /\ (InArray(new, k) \/ k \in W)
    BY <1>1, <1>3
  <2>3. InArray(x, k) <=> InArray(new, k)
    BY DEF Reinserted, InArray
  <2>4. InArray(x, k) \/ HasNode(x, k) \/ ~NeedsRehash(x, k)
    <3> SUFFICES ASSUME ~InArray(x, k), ~HasNode(x, k) PROVE ~NeedsRehash(x, k)
      OBVIOUS
    <3>1. k \in W
      BY <2>2, <2>3
    <3>2. Scatter(x) /\ Fresh(x, W) /\ Filled(x) /\ Cardinality(W) <= Cardinality(DOMAIN x.node)
      BY DEF Reinserted
    <3> HIDE DEF k
    <3> QED BY <2>2, <3>1, <3>2, Room
  <2>5. y = Put(x, k, v)
    BY <2>1, <2>4 DEF PutIfRoom
  <2>6. \A q : (\E j \in 1 .. m + 1 : s[j][1] = q /\ s[j][2] # Nil)
               <=> (\E j \in 1 .. m : s[j][1] = q /\ s[j][2] # Nil) \/ q = k
    BY <1>1, <1>3
  <2> HIDE DEF y, k, v
  <2>7. Scatter(x) /\ Fresh(x, W) /\ Filled(x) /\ (k \in W \/ InArray(x, k))
    BY <2>2, <2>3 DEF Reinserted
  <2>8. /\ Scatter(y) /\ Len(y.array) = Len(x.array) /\ DOMAIN y.node = DOMAIN x.node
        /\ \A q \in Key : luaH_get(y, q) = IF q = k THEN v ELSE luaH_get(x, q)
        /\ Filled(y) /\ Fresh(y, W)
    BY <2>2, <2>4, <2>5, <2>7, PutLemma
  <2>9. sizearray(y) = sizearray(new) /\ DOMAIN y.node = DOMAIN new.node
    BY <2>8 DEF Reinserted, sizearray
  <2>10. ASSUME NEW q \in Key
         PROVE  luaH_get(y, q) = IF \E j \in 1 .. m + 1 : s[j][1] = q /\ s[j][2] # Nil
                                 THEN luaH_get(tb, q) ELSE luaH_get(new, q)
    <3>1. luaH_get(x, q) = IF \E j \in 1 .. m : s[j][1] = q /\ s[j][2] # Nil
                           THEN luaH_get(tb, q) ELSE luaH_get(new, q)
      BY DEF Reinserted
    <3>2. CASE q = k
      BY <2>2, <2>6, <2>8, <3>2
    <3>3. CASE q # k
      BY <2>6, <2>8, <3>1, <3>3
    <3> QED BY <3>2, <3>3
  <2> QED BY <2>8, <2>9, <2>10 DEF Reinserted, y
<1> QED BY <1>2, <1>3

LEMMA Resized ==
  ASSUME HashOK, NEW tb, Scatter(tb), NEW na \in Nat, NEW nh \in Nat, nh = 0 \/ \E p \in TwoTo : p >= nh,
         NEW W, IsFiniteSet(W), Cardinality(W) <= nh,
         \A q \in Key : luaH_get(tb, q) # Nil => q \in 1 .. na \/ q \in W
  PROVE  LET x == resize(tb, na, nh)
         IN /\ Scatter(x) /\ sizearray(x) = na /\ Filled(x) /\ Fresh(x, W)
            /\ Cardinality(W) <= Cardinality(DOMAIN x.node)
            /\ \A q \in Key : luaH_get(x, q) = luaH_get(tb, q)
<1> DEFINE new == setnodevector(setarrayvector(tb, na), nh)
           s == Elements(tb, na)
           x == resize(tb, na, nh)
<1>1. PICK size \in TwoTo \cup {0} : nh <= size /\ Vectors(tb, na, size, new)
  BY NewVectors
<1>2. x = FoldLeft(Reinsert, new, s)
  BY DEF resize, Elements
<1> HIDE DEF new, s, x
<1>3. /\ Scatter(new) /\ sizearray(new) = na /\ Cardinality(DOMAIN new.node) = size
      /\ Filled(new) /\ Fresh(new, W)
      /\ \A q \in Key : luaH_get(new, q) = IF q \in 1 .. na /\ InArray(tb, q) THEN tb.array[q] ELSE Nil
  BY <1>1, NewTable
<1>4. PICK n \in Nat : Listed(tb, na, s, n)
  BY Entries DEF s
<1>5. PICK r : Trace(new, s, n, r, x)
  BY <1>2, <1>4, FoldSteps DEF Listed
<1>6. Cardinality(W) <= size
  BY <1>1, FS_CardinalityType, TwoToType
<1>7. \A j \in 1 .. n : s[j][2] # Nil =>
        /\ s[j][1] \in Key /\ s[j][2] \in Entry /\ luaH_get(tb, s[j][1]) = s[j][2]
        /\ InArray(new, s[j][1]) \/ s[j][1] \in W
  BY <1>3, <1>4 DEF InArray, Listed
<1> DEFINE S == {m \in Nat : m \in 0 .. n => Reinserted(tb, new, W, s, m, r[m])}
<1>8. 0 \in S
  <2>1. Reinserted(tb, new, W, s, 0, new)
    BY <1>3 DEF Reinserted
  <2> QED BY <1>5, <2>1 DEF Trace
<1>9. ASSUME NEW m \in Nat, m \in S PROVE m + 1 \in S
  <2> SUFFICES ASSUME m + 1 \in 0 .. n PROVE Reinserted(tb, new, W, s, m + 1, r[m + 1])
    OBVIOUS
  <2>1. m \in 0 .. n - 1 /\ m \in 0 .. n
    OBVIOUS
  <2>2. Reinserted(tb, new, W, s, m, r[m]) /\ r[m + 1] = Reinsert(r[m], s[m + 1])
    BY <1>5, <1>9, <2>1 DEF Trace
  <2> HIDE DEF S
  <2>3. Cardinality(W) <= Cardinality(DOMAIN new.node)
    BY <1>3, <1>6
  <2>4. Reinserted(tb, new, W, s, m + 1, Reinsert(r[m], s[m + 1]))
    BY <1>7, <2>1, <2>2, <2>3, ReinsertStep
  <2> QED BY <2>2, <2>4
<1> HIDE DEF S
<1>10. \A m \in Nat : m \in S
  BY <1>8, <1>9, SetInduction
<1>11. Reinserted(tb, new, W, s, n, x)
  BY <1>5, <1>10 DEF S, Trace
<1>12. ASSUME NEW q \in Key PROVE luaH_get(x, q) = luaH_get(tb, q)
  <2>1. luaH_get(x, q) = IF \E j \in 1 .. n : s[j][1] = q /\ s[j][2] # Nil
                         THEN luaH_get(tb, q) ELSE luaH_get(new, q)
    BY <1>11 DEF Reinserted
  <2>2. CASE \E j \in 1 .. n : s[j][1] = q /\ s[j][2] # Nil
    BY <2>1, <2>2
  <2>3. CASE ~\E j \in 1 .. n : s[j][1] = q /\ s[j][2] # Nil
    <3>1. CASE q \in 1 .. na /\ InArray(tb, q)
      BY <1>3, <2>1, <2>3, <3>1 DEF luaH_get
    <3>2. CASE ~(q \in 1 .. na /\ InArray(tb, q))
      <4>1. luaH_get(new, q) = Nil
        BY <1>3, <3>2
      <4>2. luaH_get(tb, q) = Nil
        BY <1>4, <2>3, <3>2 DEF Listed
      <4> QED BY <2>1, <2>3, <4>1, <4>2
    <3> QED BY <3>1, <3>2
  <2> QED BY <2>2, <2>3
<1> QED BY <1>3, <1>6, <1>11, <1>12 DEF Reinserted, x

------------------------------------------------------------------------------
(* The sizes of a rehash, and what it does with the content. *)

LEMMA UsedKeys ==
  ASSUME HashOK, NEW tb, Scatter(tb)
  PROVE  Used(tb) \subseteq Key /\ \A q \in Key : luaH_get(tb, q) # Nil => q \in Used(tb)
<1>0. PICK R : Good(tb, R)
  BY DEF Scatter
<1>1. ASSUME NEW q \in Used(tb) PROVE q \in Key
  <2>1. CASE q \in 1 .. sizearray(tb) /\ tb.array[q] # Nil
    BY <1>0, <2>1 DEF Good, Shape
  <2>2. CASE ~(q \in 1 .. sizearray(tb) /\ tb.array[q] # Nil)
    <3>1. PICK i \in DOMAIN tb.node : tb.node[i].val # Nil /\ tb.node[i].key = q
      BY <2>2 DEF Used
    <3> QED BY <1>0, <3>1, LiveAtMain
  <2> QED BY <2>1, <2>2
<1>2. ASSUME NEW q \in Key, luaH_get(tb, q) # Nil PROVE q \in Used(tb)
  <2>1. CASE InArray(tb, q)
    BY <1>2, <2>1 DEF luaH_get, InArray, Used
  <2>2. CASE ~InArray(tb, q)
    <3>1. PICK i : InNode(tb, q, i)
      BY <1>2, <2>2, GetNone
    <3>2. luaH_get(tb, q) = tb.node[i].val
      BY <2>2, <3>1, GetNode
    <3> QED BY <1>2, <3>1, <3>2 DEF InNode, IsKey, Used
  <2> QED BY <2>1, <2>2
<1> QED BY <1>1, <1>2

LEMMA ArraySize == ASSUME NEW ints, IsFiniteSet(ints) PROVE computesizes(ints) \in Nat
<1> DEFINE n == 2 * Cardinality(ints) + 1
           half == {m \in TwoTo : m <= n /\ 2 * Cardinality({k \in ints : k <= m}) > m}
           S == half \cup {0}
<1>1. n \in Nat
  BY FS_CardinalityType
<1>2. computesizes(ints) = Max(S)
  BY DEF computesizes
<1>3. S \in SUBSET (0 .. n) /\ S # {} /\ \A m \in S : m \in Nat
  <2>1. \A m \in half : m \in Nat /\ m <= n
    BY TwoToType
  <2> HIDE DEF half, n
  <2>2. \A m \in S : m \in 0 .. n
    BY <1>1, <2>1
  <2> QED BY <2>2
<1> HIDE DEF S, n
<1>4. Max(S) \in S
  BY <1>1, <1>3, LastPosition
<1> QED BY <1>2, <1>3, <1>4, Zenon

(* The keys that go to the nodes when k is added. *)
Hashed(tb, k) == (Used(tb) \cup {k}) \ (1 .. Sizes(tb, k)[1])

LEMMA SizesFit ==
  ASSUME HashOK, NEW tb, Scatter(tb), NEW k \in Key
  PROVE  /\ Sizes(tb, k)[1] \in Nat /\ Sizes(tb, k)[2] \in Nat
         /\ Sizes(tb, k)[2] = 0 \/ \E p \in TwoTo : p >= Sizes(tb, k)[2]
         /\ IsFiniteSet(Hashed(tb, k)) /\ Cardinality(Hashed(tb, k)) = Sizes(tb, k)[2]
<1> DEFINE used == Used(tb) \cup {k}
           ints == used \ Collectable
           na == computesizes(ints)
           low == {i \in ints : i <= na}
<1>1. used \subseteq Key
  BY UsedKeys
<1>2. IsFiniteSet(used) /\ Cardinality(used) <= Cardinality(Key) /\ Cardinality(used) \in Nat
      /\ Cardinality(Key) \in Nat
  BY <1>1, FS_Subset, FS_CardinalityType DEF HashOK
<1>3. IsFiniteSet(ints)
  <2>1. ints \in SUBSET used
    OBVIOUS
  <2> QED BY <1>2, <2>1, FS_Subset
<1>4. na \in Nat
  BY <1>3, ArraySize
<1>5. Sizes(tb, k)[1] = na /\ Sizes(tb, k)[2] = Cardinality(used) - Cardinality(low)
  BY DEF Sizes
<1>6. low = used \cap (1 .. na)
  <2>1. \A i \in used : i \in 1 .. MAX_INT \cup Collectable
    BY <1>1 DEF HashOK
  <2>2. MAX_INT \in Nat /\ Collectable \cap Nat = {}
    BY HashingAssumption
  <2> HIDE DEF used, na
  <2>3. ASSUME NEW i \in used PROVE (i \notin Collectable /\ i <= na) <=> i \in 1 .. na
    <3>1. CASE i \in Collectable
      <4>1. i \notin Nat
        BY <2>2, <3>1
      <4>2. \A j \in 1 .. na : j \in Nat
        BY <1>4
      <4> QED BY <3>1, <4>1, <4>2
    <3>2. CASE i \notin Collectable
      <4>1. i \in Nat /\ i >= 1
        BY <2>1, <2>2, <3>2
      <4> QED BY <1>4, <3>2, <4>1
    <3> QED BY <3>1, <3>2
  <2> QED BY <2>3
<1>7. Hashed(tb, k) = used \ (1 .. na)
  BY <1>5 DEF Hashed
<1> HIDE DEF used, na, low
<1>8. /\ IsFiniteSet(used \ (1 .. na))
      /\ Cardinality(used \ (1 .. na)) = Cardinality(used) - Cardinality(used \cap (1 .. na))
  BY <1>2, FS_Difference
<1>9. Cardinality(Hashed(tb, k)) = Sizes(tb, k)[2] /\ IsFiniteSet(Hashed(tb, k))
  BY <1>5, <1>6, <1>7, <1>8
<1>10. Cardinality(Hashed(tb, k)) \in Nat /\ Cardinality(Hashed(tb, k)) <= Cardinality(used)
  <2>1. used \ (1 .. na) \in SUBSET used
    OBVIOUS
  <2> QED BY <1>2, <1>7, <2>1, FS_Subset, FS_CardinalityType
<1>11. PICK p \in TwoTo : Cardinality(Key) <= p
  BY DEF HashOK
<1>12. p >= Sizes(tb, k)[2]
  <2>1. p \in Nat
    BY TwoToType
  <2> QED BY <1>2, <1>9, <1>10, <1>11, <2>1
<1> QED BY <1>4, <1>5, <1>9, <1>10, <1>12

(* luaH_set with its assignment. *)
LEMMA SetLemma ==
  ASSUME HashOK, NEW tb, Scatter(tb), NEW k \in Key, NEW v \in Entry
  PROVE  LET x == IF InArray(tb, k) \/ HasNode(tb, k) \/ ~NeedsRehash(tb, k) THEN Put(tb, k, v)
                  ELSE PutIfRoom(rehash(tb, k), k, v)
         IN Scatter(x) /\ \A q \in Key : luaH_get(x, q) = IF q = k THEN v ELSE luaH_get(tb, q)
<1>1. CASE InArray(tb, k) \/ HasNode(tb, k) \/ ~NeedsRehash(tb, k)
  BY <1>1, PutLemma
<1>2. CASE ~(InArray(tb, k) \/ HasNode(tb, k) \/ ~NeedsRehash(tb, k))
  <2> DEFINE y == rehash(tb, k)
             W == Hashed(tb, k)
             na == Sizes(tb, k)[1]
             nh == Sizes(tb, k)[2]
  <2>1. na \in Nat /\ nh \in Nat /\ (nh = 0 \/ \E p \in TwoTo : p >= nh)
        /\ IsFiniteSet(W) /\ Cardinality(W) = nh
    BY SizesFit
  <2>2. \A q \in Used(tb) \cup {k} : q \in 1 .. na \/ q \in W
    BY DEF Hashed
  <2>3. y = resize(tb, na, nh)
    BY DEF rehash
  <2>4. \A q \in Key : luaH_get(tb, q) # Nil => q \in 1 .. na \/ q \in W
    BY <2>2, UsedKeys
  <2> HIDE DEF W, na, nh, y
  <2>5. Cardinality(W) <= nh
    BY <2>1
  <2>6. /\ Scatter(y) /\ sizearray(y) = na /\ Filled(y) /\ Fresh(y, W)
        /\ Cardinality(W) <= Cardinality(DOMAIN y.node)
        /\ \A q \in Key : luaH_get(y, q) = luaH_get(tb, q)
    BY <2>1, <2>3, <2>4, <2>5, Resized
  <2>7. InArray(y, k) \/ k \in W
    BY <2>2, <2>6 DEF InArray
  <2>8. InArray(y, k) \/ HasNode(y, k) \/ ~NeedsRehash(y, k)
    BY <2>1, <2>6, <2>7, Room
  <2>9. PutIfRoom(y, k, v) = Put(y, k, v)
    BY <2>8 DEF PutIfRoom
  <2>10. /\ Scatter(Put(y, k, v))
         /\ \A q \in Key : luaH_get(Put(y, k, v), q) = IF q = k THEN v ELSE luaH_get(y, q)
    BY <2>6, <2>8, PutLemma
  <2> QED BY <1>2, <2>6, <2>9, <2>10 DEF y
<1> QED BY <1>1, <1>2

LEMMA ResizeArrayLemma ==
  ASSUME HashOK, NEW tb, Scatter(tb), NEW na \in Nat, na > sizearray(tb)
  PROVE  LET x == resize(tb, na, Cardinality(DOMAIN tb.node))
         IN Scatter(x) /\ \A q \in Key : luaH_get(x, q) = luaH_get(tb, q)
<1> DEFINE nh == Cardinality(DOMAIN tb.node)
           W == {q \in Key : luaH_get(tb, q) # Nil /\ q \notin 1 .. na}
           f == [q \in W |-> NodeOf(tb, q)]
<1>1. nh \in Nat /\ nh \in TwoTo \cup {0} /\ IsFiniteSet(DOMAIN tb.node) /\ Len(tb.array) \in Nat
  BY Nodes DEF Scatter, Good
<1>2. nh = 0 \/ \E p \in TwoTo : p >= nh
  BY <1>1
<1>3. ASSUME NEW q \in W PROVE f[q] \in DOMAIN tb.node /\ tb.node[f[q]].key = q
  <2>1. ~InArray(tb, q)
    <3>1. \A j \in 1 .. Len(tb.array) : j \in 1 .. na
      BY <1>1 DEF sizearray
    <3> QED BY <3>1 DEF InArray, sizearray
  <2>2. PICK i : InNode(tb, q, i)
    BY <2>1, GetNone
  <2>3. NodeOf(tb, q) = i
    BY <2>1, <2>2, GetNode
  <2> QED BY <2>2, <2>3 DEF InNode, IsKey
<1>4. f \in Injection(W, DOMAIN tb.node)
  BY <1>3 DEF Injection, IsInjective
<1> HIDE DEF f
<1>5. IsFiniteSet(W) /\ Cardinality(W) <= nh
  BY <1>1, <1>4, FS_Injection
<1>6. \A q \in Key : luaH_get(tb, q) # Nil => q \in 1 .. na \/ q \in W
  OBVIOUS
<1> HIDE DEF W, nh
<1> QED BY <1>1, <1>2, <1>5, <1>6, Resized DEF nh

------------------------------------------------------------------------------
(* Where findindex finds a key: at the first node with it in its chain. *)

IsFirst(tb, R, k, i) ==
  LET mp == mainposition(tb, k)
  IN /\ i \in R[mp] /\ tb.node[i].key = k
     /\ \A j \in R[mp] : i \in R[j] /\ j # i => tb.node[j].key # k

LEMMA SearchIndex ==
  ASSUME HashOK, NEW tb, NEW R, Good(tb, R), NEW k \in Key
  PROVE  nodeindex(tb, k) # Nil =>
           \E i \in DOMAIN tb.node : IsFirst(tb, R, k, i) /\ nodeindex(tb, k) = i + sizearray(tb)
<1> DEFINE mp == mainposition(tb, k)
           s == Chain(tb, mp)
           found == {j \in DOMAIN s : tb.node[s[j]].key = k}
<1>1. nodeindex(tb, k) = IF found = {} THEN Nil ELSE s[Min(found)] + sizearray(tb)
  BY DEF nodeindex, Matches
<1> SUFFICES ASSUME found # {} PROVE \E i \in DOMAIN tb.node : IsFirst(tb, R, k, i) /\ s[Min(found)] = i
  BY <1>1
<1>2. tb.node # <<>>
  <2>1. ASSUME tb.node = <<>> PROVE FALSE
    <3>1. s = <<>> /\ DOMAIN <<>> = {}
      BY <2>1 DEF Chain
    <3> QED BY <3>1
  <2> QED BY <2>1
<1>3. Lists(tb.node, R, mp, s)
  BY <1>2, Search
<1>4. mp \in DOMAIN tb.node /\ R[mp] \subseteq DOMAIN tb.node
  BY <1>2, MainPosition DEF Good, Ordered
<1> HIDE DEF s, mp
<1>5. DOMAIN s = 1 .. Len(s) /\ Len(s) \in Nat
  BY <1>3, LenProperties DEF Lists
<1>6. Min(found) \in found /\ \A q \in found : Min(found) <= q
  <2>1. found \in SUBSET (1 .. Len(s))
    BY <1>5
  <2> HIDE DEF found
  <2> QED BY <1>5, <2>1, FirstPosition
<1> DEFINE p == Min(found)
           i == s[p]
<1>7. p \in 1 .. Len(s) /\ tb.node[i].key = k /\ i \in R[mp]
  BY <1>3, <1>5, <1>6 DEF Lists
<1> HIDE DEF p
<1>8. ASSUME NEW j \in R[mp], i \in R[j], j # i PROVE tb.node[j].key # k
  <2> SUFFICES ASSUME tb.node[j].key = k PROVE FALSE
    OBVIOUS
  <2>1. PICK q \in 1 .. Len(s) : s[q] = j
    BY <1>3 DEF Lists
  <2>2. q \in found
    BY <1>5, <2>1
  <2>3. p <= q
    BY <1>6, <2>2 DEF p
  <2>4. j \in R[i]
    BY <1>3, <1>7, <2>1, <2>3 DEF Lists
  <2>5. i \in DOMAIN tb.node
    BY <1>4, <1>7
  <2> QED BY <1>8, <2>4, <2>5, NoCycle DEF Good
<1>9. IsFirst(tb, R, k, i)
  BY <1>7, <1>8 DEF IsFirst, mp
<1>10. i \in DOMAIN tb.node
  BY <1>4, <1>7
<1> QED BY <1>9, <1>10 DEF p

LEMMA FirstIndex ==
  ASSUME HashOK, NEW tb, NEW R, Good(tb, R), NEW k \in Key, NEW i \in DOMAIN tb.node, IsFirst(tb, R, k, i)
  PROVE  nodeindex(tb, k) = i + sizearray(tb)
<1> DEFINE mp == mainposition(tb, k)
           s == Chain(tb, mp)
           found == {j \in DOMAIN s : tb.node[s[j]].key = k}
<1>1. nodeindex(tb, k) = IF found = {} THEN Nil ELSE s[Min(found)] + sizearray(tb)
  BY DEF nodeindex, Matches
<1>2. tb.node # <<>>
  OBVIOUS
<1>3. Lists(tb.node, R, mp, s)
  BY <1>2, Search
<1>4. i \in R[mp] /\ tb.node[i].key = k /\ \A j \in R[mp] : i \in R[j] /\ j # i => tb.node[j].key # k
  BY DEF IsFirst
<1> HIDE DEF s, mp
<1>5. DOMAIN s = 1 .. Len(s) /\ Len(s) \in Nat
  BY <1>3, LenProperties DEF Lists
<1>6. PICK q \in 1 .. Len(s) : s[q] = i
  BY <1>3, <1>4 DEF Lists
<1>7. q \in found
  BY <1>4, <1>5, <1>6
<1>8. Min(found) \in found /\ \A x \in found : Min(found) <= x
  <2>1. found \in SUBSET (1 .. Len(s))
    BY <1>5
  <2> HIDE DEF found
  <2> QED BY <1>5, <1>7, <2>1, FirstPosition
<1> DEFINE p == Min(found)
<1>9. p \in 1 .. Len(s) /\ p <= q /\ tb.node[s[p]].key = k
  BY <1>5, <1>7, <1>8
<1> HIDE DEF p
<1>10. s[p] \in R[mp] /\ i \in R[s[p]]
  BY <1>3, <1>6, <1>9 DEF Lists
<1>11. s[p] = i
  BY <1>4, <1>9, <1>10
<1> QED BY <1>1, <1>7, <1>11 DEF p

(* What findindex returns does not depend on the values. *)
LEMMA IndexKept ==
  ASSUME HashOK, NEW tb, NEW R, Good(tb, R), NEW tb2, Good(tb2, R),
         sizearray(tb2) = sizearray(tb), DOMAIN tb2.node = DOMAIN tb.node,
         \A i \in DOMAIN tb.node : tb2.node[i].key = tb.node[i].key,
         NEW k \in Key \cup {Nil}, findindex(tb, k) # Nil
  PROVE  findindex(tb2, k) = findindex(tb, k)
<1>1. CASE k = Nil \/ InArray(tb, k)
  BY <1>1 DEF findindex, InArray
<1>2. CASE k # Nil /\ ~InArray(tb, k)
  <2>1. findindex(tb, k) = nodeindex(tb, k) /\ findindex(tb2, k) = nodeindex(tb2, k) /\ k \in Key
    BY <1>2 DEF findindex, InArray
  <2>2. PICK i \in DOMAIN tb.node : IsFirst(tb, R, k, i) /\ nodeindex(tb, k) = i + sizearray(tb)
    BY <2>1, SearchIndex
  <2>3. mainposition(tb2, k) = mainposition(tb, k)
    BY SamePositions DEF Good
  <2>4. IsFirst(tb2, R, k, i)
    <3>1. tb.node # <<>>
      OBVIOUS
    <3>2. R[mainposition(tb, k)] \subseteq DOMAIN tb.node
      BY <2>1, <3>1, MainPosition DEF Good, Ordered
    <3> QED BY <2>2, <2>3, <3>2 DEF IsFirst
  <2>5. nodeindex(tb2, k) = i + sizearray(tb2)
    BY <2>1, <2>4, FirstIndex
  <2> QED BY <2>1, <2>2, <2>5
<1> QED BY <1>1, <1>2

Indices(tb) == 0 .. sizearray(tb) + Cardinality(DOMAIN tb.node) - 1

LEMMA ElementIndex ==
  ASSUME HashOK, NEW tb, Scatter(tb), NEW i \in Indices(tb), ValueAt(tb, i) # Nil
  PROVE  KeyAt(tb, i) \in Key /\ findindex(tb, KeyAt(tb, i)) = i /\ luaH_get(tb, KeyAt(tb, i)) = ValueAt(tb, i)
<1> DEFINE l == sizearray(tb)
           D == DOMAIN tb.node
           c == Cardinality(D)
           k == KeyAt(tb, i)
<1>0. PICK R : Good(tb, R)
  BY DEF Scatter
<1>1. l \in Nat /\ c \in Nat /\ D = 0 .. c - 1 /\ i \in 0 .. l + c - 1
  BY <1>0, Nodes DEF Good, Indices, sizearray
<1>2. CASE i < l
  <2>1. k = i + 1 /\ ValueAt(tb, i) = tb.array[i + 1]
    BY <1>2 DEF KeyAt, ValueAt
  <2> HIDE DEF k, l, c
  <2>2. k \in 1 .. l /\ k - 1 = i /\ tb.array[k] # Nil
    BY <1>1, <1>2, <2>1
  <2>3. k \in Key /\ InArray(tb, k)
    BY <1>0, <2>2 DEF Good, Shape, InArray, l
  <2>4. k # Nil
    BY <2>3, KeyKinds
  <2> QED BY <2>1, <2>2, <2>3, <2>4 DEF findindex, luaH_get, k
<1>3. CASE ~(i < l)
  <2> DEFINE n == i - l
  <2>1. k = tb.node[n].key /\ ValueAt(tb, i) = tb.node[n].val
    BY <1>3 DEF KeyAt, ValueAt
  <2>2. n \in D /\ n + l = i
    BY <1>1, <1>3
  <2> HIDE DEF k, l, c, n
  <2>3. Live(tb.node[n]) /\ k \in Key
    BY <1>0, <2>1, <2>2, LiveAtMain
  <2>4. ~InArray(tb, k) /\ IsFirst(tb, R, k, n)
    BY <1>0, <2>1, <2>2, <2>3 DEF Good, Placed, IsFirst
  <2>5. nodeindex(tb, k) = n + l
    BY <1>0, <2>2, <2>3, <2>4, FirstIndex DEF l
  <2>6. findindex(tb, k) = i
    BY <2>2, <2>3, <2>4, <2>5, KeyKinds DEF findindex
  <2>7. luaH_get(tb, k) = tb.node[n].val
    BY <2>1, <2>2, <2>3, <2>4, GetNode DEF Scatter, InNode, IsKey, Live
  <2> QED BY <2>1, <2>3, <2>6, <2>7 DEF k
<1> QED BY <1>2, <1>3

(* What keeps the elements of a table in their places, or clears them. *)
Keeps(tb, tb2) ==
  /\ sizearray(tb2) = sizearray(tb) /\ DOMAIN tb2.node = DOMAIN tb.node
  /\ \A i \in DOMAIN tb.node : tb2.node[i].key = tb.node[i].key
  /\ \A i \in Indices(tb) : ValueAt(tb2, i) # Nil => ValueAt(tb, i) # Nil

LEMMA PresentSet ==
  ASSUME HashOK, NEW tb, Scatter(tb), NEW R, Good(tb, R), NEW k \in Key, luaH_get(tb, k) # Nil, NEW v \in Entry
  PROVE  LET x == Put(tb, k, v)
         IN (InArray(tb, k) \/ HasNode(tb, k)) /\ Good(x, R) /\ Keeps(tb, x)
<1> DEFINE x == Put(tb, k, v)
           l == sizearray(tb)
           D == DOMAIN tb.node
           c == Cardinality(D)
<1>1. l \in Nat /\ c \in Nat /\ D = 0 .. c - 1 /\ \A i \in Indices(tb) : i \in 0 .. l + c - 1
  BY Nodes DEF Good, Indices, sizearray
<1>2. CASE InArray(tb, k)
  <2>1. x = Assign(tb, k, v)
    BY <1>2 DEF Put, Assign
  <2>2. tb.array[k] # Nil
    BY <1>2 DEF luaH_get
  <2> HIDE DEF x, l, c
  <2>3. Good(x, R) /\ Len(x.array) = Len(tb.array) /\ x.node = tb.node
        /\ \A q \in Key : luaH_get(x, q) = IF q = k THEN v ELSE luaH_get(tb, q)
    BY <1>2, <2>1, AssignedInArray
  <2>4. sizearray(x) = l
    BY <2>3 DEF sizearray, l
  <2>5. ASSUME NEW i \in Indices(tb), ValueAt(x, i) # Nil PROVE ValueAt(tb, i) # Nil
    <3>1. CASE i < l
      <4>1. ValueAt(x, i) = x.array[i + 1] /\ ValueAt(tb, i) = tb.array[i + 1] /\ i + 1 \in 1 .. l
        BY <1>1, <2>4, <3>1 DEF ValueAt, l
      <4>2. i + 1 = k => tb.array[i + 1] # Nil
        BY <2>2
      <4>3. i + 1 # k => x.array[i + 1] = tb.array[i + 1]
        <5>1. InArray(x, i + 1) /\ InArray(tb, i + 1)
          BY <2>4, <4>1 DEF InArray, l
        <5>2. x.array[i + 1] # Nil => i + 1 \in Key
          BY <2>3, <5>1 DEF Good, Shape, InArray
        <5>3. i + 1 \in Key => luaH_get(x, i + 1) = x.array[i + 1] /\ luaH_get(tb, i + 1) = tb.array[i + 1]
          BY <5>1 DEF luaH_get
        <5> QED BY <2>3, <2>5, <4>1, <5>2, <5>3
      <4> QED BY <2>5, <4>1, <4>2, <4>3
    <3>2. CASE ~(i < l)
      BY <2>3, <2>4, <2>5, <3>2 DEF ValueAt, l
    <3> QED BY <3>1, <3>2
  <2> QED BY <1>2, <2>3, <2>4, <2>5 DEF Keeps, x, l
<1>3. CASE ~InArray(tb, k)
  <2>1. PICK n : InNode(tb, k, n)
    BY <1>3, GetNone
  <2>2. HasNode(tb, k) /\ luaH_get(tb, k) = tb.node[n].val
    BY <1>3, <2>1, GetNode
  <2>3. x = Assign(tb, k, v)
    BY <1>3, <2>2 DEF Put, Assign
  <2> HIDE DEF x, l, c
  <2>4. Good(x, R) /\ Valued(D, tb, n, v, x)
    BY <1>3, <2>1, <2>3, AssignedInNode
  <2>5. sizearray(x) = l /\ DOMAIN x.node = D /\ x.array = tb.array
    BY <2>4 DEF sizearray, Valued, l
  <2>6. ASSUME NEW i \in Indices(tb), ValueAt(x, i) # Nil PROVE ValueAt(tb, i) # Nil
    <3>1. CASE i < l
      BY <2>5, <2>6, <3>1 DEF ValueAt, l
    <3>2. CASE ~(i < l)
      <4>1. ValueAt(x, i) = x.node[i - l].val /\ ValueAt(tb, i) = tb.node[i - l].val
        BY <2>5, <3>2 DEF ValueAt, l
      <4>2. i - l \in D
        BY <1>1, <3>2
      <4>3. x.node[i - l].val = IF i - l = n THEN v ELSE tb.node[i - l].val
        BY <2>4, <4>2 DEF Valued
      <4> QED BY <2>2, <2>6, <4>1, <4>3
    <3> QED BY <3>1, <3>2
  <2>7. \A i \in D : x.node[i].key = tb.node[i].key
    BY <2>4 DEF Valued
  <2> QED BY <2>2, <2>4, <2>5, <2>6, <2>7 DEF Keeps, x, l
<1> QED BY <1>2, <1>3

(* The collector makes keys of empty nodes dead. *)
Removes(tb, tb2) == tb2 = [tb EXCEPT !.node = [i \in DOMAIN @ |-> removeentry(@[i])]]

LEMMA Removing ==
  ASSUME NEW D, NEW tb \in Tables(D), NEW tb2, Removes(tb, tb2)
  PROVE  /\ tb2 \in Tables(D) /\ tb2.array = tb.array /\ DOMAIN tb2.node = D
         /\ \A i \in D : /\ tb2.node[i].key = tb.node[i].key /\ tb2.node[i].val = tb.node[i].val
                         /\ tb2.node[i].next = tb.node[i].next
                         /\ tb.node[i].dead => tb2.node[i].dead
                         /\ tb2.node[i].dead /\ ~tb.node[i].dead =>
                              tb.node[i].val = Nil /\ tb.node[i].key \in Collectable
<1> DEFINE nd2 == [i \in D |-> removeentry(tb.node[i])]
<1>1. tb.node \in [D -> NodeRecord]
  BY DEF Tables
<1>2. ASSUME NEW x \in NodeRecord
      PROVE  LET y == removeentry(x)
             IN /\ y \in NodeRecord /\ y.key = x.key /\ y.val = x.val /\ y.next = x.next
                /\ x.dead => y.dead
                /\ y.dead /\ ~x.dead => x.val = Nil /\ x.key \in Collectable
  BY DEF NodeRecord, removeentry
<1>3. tb2 = [tb EXCEPT !.node = nd2]
  BY <1>1 DEF Removes, Tables
<1>4. nd2 \in [D -> NodeRecord] /\ \A i \in D : nd2[i] = removeentry(tb.node[i])
  BY <1>1, <1>2
<1> HIDE DEF nd2
<1>5. tb2 \in Tables(D) /\ tb2.array = tb.array /\ tb2.node = nd2
  BY <1>3, <1>4 DEF Tables
<1>6. DOMAIN tb2.node = D
  BY <1>4, <1>5
<1> QED BY <1>1, <1>2, <1>4, <1>5, <1>6

LEMMA RemoveLemma ==
  ASSUME HashOK, NEW tb, Scatter(tb), NEW R, Good(tb, R), NEW tb2, Removes(tb, tb2)
  PROVE  /\ Good(tb2, R) /\ Keeps(tb, tb2)
         /\ \A q \in Key : luaH_get(tb2, q) = luaH_get(tb, q)
<1> DEFINE D == DOMAIN tb.node
<1>1. /\ tb2 \in Tables(D) /\ tb2.array = tb.array /\ DOMAIN tb2.node = D
      /\ \A i \in D : /\ tb2.node[i].key = tb.node[i].key /\ tb2.node[i].val = tb.node[i].val
                      /\ tb2.node[i].next = tb.node[i].next
                      /\ tb.node[i].dead => tb2.node[i].dead
                      /\ tb2.node[i].dead /\ ~tb.node[i].dead =>
                           tb.node[i].val = Nil /\ tb.node[i].key \in Collectable
  <2>1. tb \in Tables(D)
    BY Nodes DEF Good
  <2> QED BY <2>1, Removing
<1>2. Shape(tb2)
  <2>1. \A i \in D : tb2.node[i].dead => tb2.node[i].val = Nil
    BY <1>1 DEF Good, Shape
  <2> QED BY <1>1, <2>1, ShapeAgain DEF Good
<1>3. \A q : mainposition(tb2, q) = mainposition(tb, q) /\ (InArray(tb2, q) <=> InArray(tb, q))
  BY <1>1, <1>2, SamePositions DEF Good, InArray, sizearray
<1>4. Ordered(tb2.node, R)
  BY <1>1, OrderedSame DEF Good
<1>5. Unused(tb2.node)
  BY <1>1, NilKinds DEF Good, Unused
<1>6. Placed(tb2, R)
  <2>1. \A i \in D : Live(tb2.node[i]) => Live(tb.node[i])
    BY <1>1 DEF Live
  <2>2. ASSUME NEW i \in D, Live(tb.node[i])
        PROVE  mainposition(tb, tb.node[i].key) \in D /\ R[mainposition(tb, tb.node[i].key)] \subseteq D
    <3>1. tb.node[i].key \in Key /\ tb.node # <<>>
      BY <2>2 DEF Good, Placed
    <3>2. mainposition(tb, tb.node[i].key) \in D
      BY <3>1, MainPosition DEF Good
    <3> QED BY <3>2 DEF Good, Ordered
  <2> QED BY <1>1, <1>3, <2>1, <2>2 DEF Good, Placed
<1>7. Good(tb2, R)
  BY <1>2, <1>4, <1>5, <1>6 DEF Good
<1>8. ASSUME NEW q \in Key PROVE luaH_get(tb2, q) = luaH_get(tb, q)
  <2>1. CASE InArray(tb, q)
    BY <1>1, <1>3, <2>1 DEF luaH_get
  <2>2. CASE ~InArray(tb, q) /\ \E i : InNode(tb2, q, i)
    <3>1. PICK i : InNode(tb2, q, i)
      BY <2>2
    <3>2. InNode(tb, q, i) /\ tb2.node[i].val = tb.node[i].val
      BY <1>1, <3>1 DEF InNode, IsKey
    <3>3. luaH_get(tb, q) = tb.node[i].val
      BY <2>2, <3>2, GetNode
    <3>4. luaH_get(tb2, q) = tb2.node[i].val
      BY <1>3, <1>7, <2>2, <3>1, GetNode DEF Scatter
    <3> QED BY <3>2, <3>3, <3>4
  <2>3. CASE ~InArray(tb, q) /\ \A i : ~InNode(tb2, q, i)
    <3>1. luaH_get(tb2, q) = Nil
      BY <1>3, <1>7, <2>3, GetNone DEF Scatter
    <3>2. CASE \A i : ~InNode(tb, q, i)
      BY <2>3, <3>1, <3>2, GetNone
    <3>3. ASSUME NEW i, InNode(tb, q, i) PROVE luaH_get(tb, q) = Nil
      <4>1. tb.node[i].val = Nil
        BY <1>1, <2>3, <3>3 DEF InNode, IsKey
      <4> QED BY <2>3, <3>3, <4>1, GetNode
    <3> QED BY <3>1, <3>2, <3>3
  <2> QED BY <2>1, <2>2, <2>3
<1>9. Keeps(tb, tb2)
  <2>1. sizearray(tb2) = sizearray(tb)
    BY <1>1 DEF sizearray
  <2>2. ASSUME NEW i \in Indices(tb) PROVE ValueAt(tb2, i) = ValueAt(tb, i)
    <3>1. CASE i < sizearray(tb)
      BY <1>1, <2>1, <3>1 DEF ValueAt
    <3>2. CASE ~(i < sizearray(tb))
      <4>1. i - sizearray(tb) \in D
        <5> DEFINE l == sizearray(tb)
                   c == Cardinality(D)
        <5>1. l \in Nat /\ c \in Nat /\ D = 0 .. c - 1 /\ i \in 0 .. l + c - 1
          BY Nodes DEF Good, Indices, sizearray
        <5> HIDE DEF l, c
        <5>2. i - l \in D
          BY <3>2, <5>1 DEF l
        <5> QED BY <5>2 DEF l
      <4> QED BY <1>1, <2>1, <3>2, <4>1 DEF ValueAt
    <3> QED BY <3>1, <3>2
  <2> QED BY <1>1, <2>1, <2>2 DEF Keeps
<1> QED BY <1>7, <1>8, <1>9

------------------------------------------------------------------------------
(* Where the searches for a boundary end. *)

(* The recursion of BinarySearch, and that of unbound_search. *)
Searches(tb, f) ==
  f = [p \in Nat \X Nat |->
        LET m == (p[1] + p[2]) \div 2
        IN IF p[2] - p[1] <= 1 THEN p[1]
           ELSE f[IF luaH_get(tb, m) = Nil THEN <<p[1], m>> ELSE <<m, p[2]>>]]
LEMMA Searching == ASSUME NEW tb, NEW a, NEW b PROVE BinarySearch(tb, a, b) = (CHOOSE f : Searches(tb, f))[<<a, b>>]
BY Zenon DEF BinarySearch, Searches

LEMMA Halving ==
  ASSUME NEW i \in Nat, NEW j \in Nat, j - i > 1
  PROVE  LET m == (i + j) \div 2 IN m \in Nat /\ i < m /\ m < j
OBVIOUS

Doublings(tb, f) ==
  f = [p \in Nat \X Nat |->
        IF luaH_get(tb, p[2]) = Nil THEN BinarySearch(tb, p[1], p[2])
        ELSE IF 2 * p[2] > MAX_INT THEN LinearSearch(tb) ELSE f[<<p[2], 2 * p[2]>>]]
LEMMA Doubling ==
  ASSUME NEW tb, NEW a PROVE unbound_search(tb, a) = (CHOOSE f : Doublings(tb, f))[<<a, a + 1>>]
BY Zenon DEF unbound_search, Doublings

(* Where an array may end: at n, present or 0, when n + 1 is absent. *)
Borders(tb) == {n \in Nat : (n = 0 \/ luaH_get(tb, n) # Nil) /\ luaH_get(tb, n + 1) = Nil}

LEMMA BinarySearchEnds ==
  ASSUME NEW tb, NEW a \in Nat, NEW c \in Nat, a < c, a = 0 \/ luaH_get(tb, a) # Nil, luaH_get(tb, c) = Nil
  PROVE  BinarySearch(tb, a, c) \in Borders(tb)
<1> DEFINE U == Nat \X Nat
           mid(p) == (p[1] + p[2]) \div 2
           B == {p \in U : p[2] - p[1] <= 1}
           b == [p \in U |-> p[1]]
           nx == [p \in U |-> IF luaH_get(tb, mid(p)) = Nil THEN <<p[1], mid(p)>> ELSE <<mid(p), p[2]>>]
           mu == [p \in U |-> IF p[2] > p[1] THEN p[2] - p[1] ELSE 0]
           I == {p \in U : p[1] < p[2] /\ (p[1] = 0 \/ luaH_get(tb, p[1]) # Nil) /\ luaH_get(tb, p[2]) = Nil}
<1>0. \A p \in U : p[1] \in Nat /\ p[2] \in Nat
  OBVIOUS
<1>1. ASSUME NEW p \in U, p \notin B PROVE mid(p) \in Nat /\ p[1] < mid(p) /\ mid(p) < p[2]
  <2>1. p[2] - p[1] > 1
    BY <1>0, <1>1
  <2> QED BY <1>0, <2>1, Halving
<1> HIDE DEF mid
<1>2. ASSUME NEW p \in U, p \notin B
      PROVE  nx[p] \in U /\ mu[nx[p]] < mu[p]
  <2>1. nx[p] = <<p[1], mid(p)>> \/ nx[p] = <<mid(p), p[2]>>
    OBVIOUS
  <2>2. p[1] \in Nat /\ p[2] \in Nat /\ mid(p) \in Nat /\ p[1] < mid(p) /\ mid(p) < p[2]
    BY <1>0, <1>1, <1>2
  <2>3. mu[p] = p[2] - p[1]
    BY <2>2
  <2>4. CASE nx[p] = <<p[1], mid(p)>>
    <3>1. nx[p] \in U /\ nx[p][1] = p[1] /\ nx[p][2] = mid(p)
      BY <2>2, <2>4
    <3>2. mu[nx[p]] = mid(p) - p[1]
      BY <2>2, <3>1
    <3> QED BY <2>2, <2>3, <3>1, <3>2
  <2>5. CASE nx[p] = <<mid(p), p[2]>>
    <3>1. nx[p] \in U /\ nx[p][1] = mid(p) /\ nx[p][2] = p[2]
      BY <2>2, <2>5
    <3>2. mu[nx[p]] = p[2] - mid(p)
      BY <2>2, <3>1
    <3> QED BY <2>2, <2>3, <3>1, <3>2
  <2> QED BY <2>1, <2>4, <2>5
<1>3. mu \in [U -> Nat]
  BY <1>0
<1>4. Descends(U, B, nx, mu)
  BY <1>2, <1>3 DEF Descends
<1>5. ASSUME NEW f PROVE Searches(tb, f) <=> Recurs(U, B, b, nx, f)
  <2>1. ASSUME NEW p \in U
        PROVE  (IF p[2] - p[1] <= 1 THEN p[1]
                ELSE f[IF luaH_get(tb, mid(p)) = Nil THEN <<p[1], mid(p)>> ELSE <<mid(p), p[2]>>])
               = IF p \in B THEN b[p] ELSE f[nx[p]]
    OBVIOUS
  <2>2. [p \in U |-> IF p[2] - p[1] <= 1 THEN p[1]
                     ELSE f[IF luaH_get(tb, mid(p)) = Nil THEN <<p[1], mid(p)>> ELSE <<mid(p), p[2]>>]]
        = [p \in U |-> IF p \in B THEN b[p] ELSE f[nx[p]]]
    BY <2>1
  <2> QED BY <2>2, Zenon DEF Searches, Recurs, mid
<1>6. ASSUME NEW p \in I, p \in B PROVE b[p] \in Borders(tb)
  <2>1. b[p] = p[1] /\ p[1] \in Nat /\ p[2] = p[1] + 1
    BY <1>0, <1>6
  <2> QED BY <1>6, <2>1 DEF Borders
<1>7. ASSUME NEW p \in I, p \notin B PROVE nx[p] \in I
  <2>1. p[1] \in Nat /\ p[2] \in Nat /\ mid(p) \in Nat /\ p[1] < mid(p) /\ mid(p) < p[2]
    BY <1>0, <1>1, <1>7
  <2>2. CASE luaH_get(tb, mid(p)) = Nil
    <3>1. nx[p] = <<p[1], mid(p)>>
      BY <2>2
    <3> QED BY <2>1, <2>2, <3>1
  <2>3. CASE luaH_get(tb, mid(p)) # Nil
    <3>1. nx[p] = <<mid(p), p[2]>>
      BY <2>3
    <3> QED BY <2>1, <2>3, <3>1
  <2> QED BY <2>2, <2>3
<1>8. I \in SUBSET U /\ <<a, c>> \in I
  OBVIOUS
<1>9. Leads(U, B, b, nx, I, Borders(tb))
  BY <1>6, <1>7, <1>8 DEF Leads
<1> HIDE DEF U, B, b, nx, mu, I
<1>10. \E f : Searches(tb, f)
  BY <1>4, <1>5, RecursExists
<1> DEFINE g == CHOOSE f : Searches(tb, f)
<1>11. Recurs(U, B, b, nx, g)
  <2>1. Searches(tb, g)
    BY <1>10, Zenon
  <2> HIDE DEF g
  <2> QED BY <1>5, <2>1
<1>12. BinarySearch(tb, a, c) = g[<<a, c>>]
  BY Searching, Zenon
<1> HIDE DEF g
<1> DEFINE q == <<a, c>>
           W == Borders(tb)
<1>13. g[q] \in W
  <2>1. Leads(U, B, b, nx, I, W) /\ q \in I
    BY <1>8, <1>9
  <2> HIDE DEF q, W
  <2> QED BY <1>4, <1>11, <2>1, RecursResult
<1> QED BY <1>12, <1>13

(* Only keys are present. *)
LEMMA PresentKey ==
  ASSUME HashOK, NEW tb, Scatter(tb), NEW n \in Nat, luaH_get(tb, n) # Nil
  PROVE  n \in Key /\ n \in 1 .. MAX_INT
<1>1. n \in Key
  BY DEF luaH_get, InArray, Scatter, Good, Shape
<1>2. n \notin Collectable
  BY HashingAssumption
<1> QED BY <1>1, <1>2 DEF HashOK

LEMMA LinearSearchEnds ==
  ASSUME HashOK, NEW tb, Scatter(tb)
  PROVE  LinearSearch(tb) \in Borders(tb)
<1> DEFINE m == MAX_INT + 1
           S == {i \in 1 .. MAX_INT + 1 : luaH_get(tb, i) = Nil}
           x == Min(S)
<1>0. MAX_INT \in Nat
  BY HashingAssumption
<1>1. m \in Nat /\ S \in SUBSET (1 .. m) /\ m \in 1 .. m /\ m \notin 1 .. MAX_INT
  BY <1>0
<1>2. luaH_get(tb, m) = Nil
  BY <1>1, PresentKey
<1>3. m \in S
  BY <1>1, <1>2
<1>4. x \in S /\ \A q \in S : x <= q
  <2> HIDE DEF S, m
  <2> QED BY <1>1, <1>3, FirstPosition
<1>5. LinearSearch(tb) = x - 1
  BY DEF LinearSearch
<1>6. x \in 1 .. m /\ luaH_get(tb, x) = Nil
  BY <1>4
<1> HIDE DEF x, m
<1> DEFINE y == x - 1
<1>7. y \in Nat /\ y + 1 = x /\ (y # 0 => y \in 1 .. MAX_INT + 1) /\ ~(x <= y)
  BY <1>0, <1>1, <1>6 DEF m
<1> HIDE DEF y
<1>8. y # 0 => luaH_get(tb, y) # Nil
  <2> SUFFICES ASSUME y # 0, luaH_get(tb, y) = Nil PROVE FALSE
    OBVIOUS
  <2>1. y \in S
    BY <1>7
  <2> QED BY <1>4, <1>7, <2>1
<1>9. LinearSearch(tb) = y
  BY <1>5 DEF y
<1> QED BY <1>6, <1>7, <1>8, <1>9 DEF Borders

LEMMA UnboundSearchEnds ==
  ASSUME HashOK, NEW tb, Scatter(tb), NEW a \in Nat, a = 0 \/ luaH_get(tb, a) # Nil
  PROVE  unbound_search(tb, a) \in Borders(tb)
<1> DEFINE U == Nat \X Nat
           B == {p \in U : luaH_get(tb, p[2]) = Nil \/ 2 * p[2] > MAX_INT}
           b == [p \in U |-> IF luaH_get(tb, p[2]) = Nil THEN BinarySearch(tb, p[1], p[2]) ELSE LinearSearch(tb)]
           nx == [p \in U |-> <<p[2], 2 * p[2]>>]
           mu == [p \in U |-> IF p[2] <= MAX_INT THEN MAX_INT + 1 - p[2] ELSE 0]
           I == {p \in U : p[1] < p[2] /\ (p[1] = 0 \/ luaH_get(tb, p[1]) # Nil)}
           W == Borders(tb)
           q == <<a, a + 1>>
<1>0. MAX_INT \in Nat /\ \A p \in U : p[1] \in Nat /\ p[2] \in Nat
  BY HashingAssumption
<1>1. ASSUME NEW p \in U, p \notin B
      PROVE  /\ p[2] \in 1 .. MAX_INT /\ luaH_get(tb, p[2]) # Nil
             /\ nx[p] \in U /\ nx[p][1] = p[2] /\ nx[p][2] = 2 * p[2] /\ 2 * p[2] <= MAX_INT
  <2>1. p[2] \in Nat /\ luaH_get(tb, p[2]) # Nil /\ ~(2 * p[2] > MAX_INT)
    BY <1>0, <1>1
  <2>2. p[2] \in 1 .. MAX_INT
    BY <2>1, PresentKey
  <2>3. nx[p] = <<p[2], 2 * p[2]>> /\ 2 * p[2] \in Nat
    BY <2>1
  <2> QED BY <1>0, <2>1, <2>2, <2>3
<1>2. ASSUME NEW p \in U, p \notin B
      PROVE  nx[p] \in U /\ mu[nx[p]] < mu[p]
  <2>1. mu[nx[p]] = MAX_INT + 1 - 2 * p[2] /\ mu[p] = MAX_INT + 1 - p[2]
    BY <1>0, <1>1, <1>2
  <2> QED BY <1>0, <1>1, <1>2, <2>1
<1>3. mu \in [U -> Nat]
  BY <1>0
<1>4. Descends(U, B, nx, mu)
  BY <1>2, <1>3 DEF Descends
<1>5. ASSUME NEW f PROVE Doublings(tb, f) <=> Recurs(U, B, b, nx, f)
  <2>1. ASSUME NEW p \in U
        PROVE  (IF luaH_get(tb, p[2]) = Nil THEN BinarySearch(tb, p[1], p[2])
                ELSE IF 2 * p[2] > MAX_INT THEN LinearSearch(tb) ELSE f[<<p[2], 2 * p[2]>>])
               = IF p \in B THEN b[p] ELSE f[nx[p]]
    OBVIOUS
  <2>2. [p \in U |-> IF luaH_get(tb, p[2]) = Nil THEN BinarySearch(tb, p[1], p[2])
                     ELSE IF 2 * p[2] > MAX_INT THEN LinearSearch(tb) ELSE f[<<p[2], 2 * p[2]>>]]
        = [p \in U |-> IF p \in B THEN b[p] ELSE f[nx[p]]]
    BY <2>1
  <2> HIDE DEF B, b, nx
  <2> QED BY <2>2, Zenon DEF Doublings, Recurs
<1>6. ASSUME NEW p \in I, p \in B PROVE b[p] \in W
  <2>1. CASE luaH_get(tb, p[2]) = Nil
    <3>1. BinarySearch(tb, p[1], p[2]) \in W
      BY <1>0, <1>6, <2>1, BinarySearchEnds
    <3> QED BY <2>1, <3>1
  <2>2. CASE luaH_get(tb, p[2]) # Nil
    BY <2>2, LinearSearchEnds
  <2> QED BY <2>1, <2>2
<1>7. ASSUME NEW p \in I, p \notin B PROVE nx[p] \in I
  <2>1. p \in U
    OBVIOUS
  <2>2. p[2] \in Nat /\ p[2] # 0 /\ p[2] < 2 * p[2]
    BY <1>0, <1>1, <1>7, <2>1
  <2> HIDE DEF nx
  <2> QED BY <1>1, <1>7, <2>1, <2>2
<1>8. Leads(U, B, b, nx, I, W) /\ q \in I
  <2>1. I \in SUBSET U /\ q \in I
    OBVIOUS
  <2> HIDE DEF U, B, b, nx, mu, W, I
  <2> QED BY <1>6, <1>7, <2>1 DEF Leads
<1> HIDE DEF U, B, b, nx, mu, I
<1>9. \E f : Doublings(tb, f)
  BY <1>4, <1>5, RecursExists
<1> DEFINE g == CHOOSE f : Doublings(tb, f)
<1>10. Recurs(U, B, b, nx, g)
  <2>1. Doublings(tb, g)
    BY <1>9, Zenon
  <2> HIDE DEF g
  <2> QED BY <1>5, <2>1
<1>11. unbound_search(tb, a) = g[q]
  BY Doubling, Zenon
<1> HIDE DEF g, q, W
<1>12. g[q] \in W
  BY <1>4, <1>8, <1>10, RecursResult
<1> QED BY <1>11, <1>12 DEF W

LEMMA LengthEnds ==
  ASSUME HashOK, NEW tb, Scatter(tb)
  PROVE  luaH_getn(tb) \in Borders(tb)
<1> DEFINE j == sizearray(tb)
<1>1. j \in Nat
  BY Nodes DEF Scatter, Good, sizearray
<1>2. j > 0 => luaH_get(tb, j) = tb.array[j]
  BY <1>1 DEF luaH_get, InArray
<1> HIDE DEF j
<1>3. CASE j > 0 /\ tb.array[j] = Nil
  <2>1. luaH_getn(tb) = BinarySearch(tb, 0, j)
    BY <1>3 DEF luaH_getn, j
  <2> QED BY <1>1, <1>2, <1>3, <2>1, BinarySearchEnds
<1>4. ASSUME ~(j > 0 /\ tb.array[j] = Nil), tb.node = <<>> PROVE luaH_getn(tb) \in Borders(tb)
  <2>1. luaH_getn(tb) = j
    BY <1>4 DEF luaH_getn, j
  <2>2. ~InArray(tb, j + 1)
    BY <1>1 DEF InArray, j
  <2>3. j + 1 \in Key => luaH_get(tb, j + 1) = Nil
    <3>1. \A i : ~InNode(tb, j + 1, i)
      <4>1. DOMAIN tb.node = {}
        BY <1>4
      <4> QED BY <4>1 DEF InNode
    <3> QED BY <2>2, <3>1, Lookup
  <2>4. j + 1 \notin Key => luaH_get(tb, j + 1) = Nil
    BY <2>2 DEF luaH_get
  <2> QED BY <1>1, <1>2, <1>4, <2>1, <2>3, <2>4 DEF Borders
<1>5. ASSUME ~(j > 0 /\ tb.array[j] = Nil), tb.node # <<>> PROVE luaH_getn(tb) \in Borders(tb)
  <2>1. luaH_getn(tb) = unbound_search(tb, j)
    BY <1>5 DEF luaH_getn, j
  <2>2. j = 0 \/ luaH_get(tb, j) # Nil
    BY <1>1, <1>2, <1>5
  <2> QED BY <1>1, <2>1, <2>2, UnboundSearchEnds
<1> QED BY <1>3, <1>4, <1>5

----------------------------------------------------------------------------
(* The inductive invariant. *)

(* A traversal has returned exactly the elements up to its last key. *)
Trav ==
  /\ traversing \in BOOLEAN /\ last \in Key \cup {Nil} /\ visited \subseteq Key
  /\ ~traversing => last = Nil /\ visited = {}
  /\ findindex(t, last) # Nil
  /\ traversing => \A i \in Indices(t) : ValueAt(t, i) # Nil =>
       (KeyAt(t, i) \in visited <=> i <= findindex(t, last))

TableInv ==
  /\ HashOK /\ hash \in [Key -> Nat] /\ content \in [Key -> Entry]
  /\ Scatter(t) /\ HoldsContent /\ Trav

LEMMA EmptyTable == ASSUME NEW tb, tb = Table(<<>>, <<>>, 0) PROVE Good(tb, <<>>)
<1>1. tb.array = <<>> /\ tb.node = <<>> /\ tb.lastfree = 0 /\ DOMAIN <<>> = {} /\ DOMAIN tb.node = {}
  BY DEF Table
<1>2. Shape(tb)
  <2>1. tb \in [array : Seq(Entry), node : [0 .. 0 - 1 -> NodeRecord], lastfree : 0 .. 0]
    <3>1. 0 .. 0 - 1 = {} /\ <<>> \in Seq(Entry)
      OBVIOUS
    <3>2. <<>> \in [0 .. 0 - 1 -> NodeRecord]
      BY <3>1
    <3> QED BY <3>1, <3>2 DEF Table
  <2>2. 1 .. sizearray(tb) = {}
    BY <1>1 DEF sizearray
  <2>3. \E n \in TwoTo \cup {0} : tb \in [array : Seq(Entry), node : [0 .. n - 1 -> NodeRecord], lastfree : 0 .. n]
    BY <2>1, Zenon
  <2> QED BY <1>1, <2>2, <2>3, Zenon DEF Shape
<1>3. Ordered(tb.node, <<>>)
  BY <1>1 DEF Ordered
<1> QED BY <1>1, <1>2, <1>3 DEF Good, Placed, Unused

LEMMA NoElement == ASSUME NEW k, NEW tb, tb = Table(<<>>, <<>>, 0) PROVE luaH_get(tb, k) = Nil
<1>1. tb.array = <<>> /\ tb.node = <<>>
  BY DEF Table
<1>2. ~InArray(tb, k)
  BY <1>1 DEF InArray, sizearray
<1>3. ~HasNode(tb, k)
  <2>1. Chain(tb, mainposition(tb, k)) = <<>> /\ DOMAIN <<>> = {}
    BY <1>1 DEF Chain
  <2>2. NodesOf(tb, k) = {}
    BY <2>1 DEF NodesOf
  <2> QED BY <2>2 DEF HasNode
<1> QED BY <1>2, <1>3 DEF luaH_get

LEMMA Initial == Init => TableInv
<1> SUFFICES ASSUME Init PROVE TableInv
  OBVIOUS
<1>1. HashOK /\ hash \in [Key -> Nat]
  BY HashingAssumption, SizeAssumption DEF Init, HashOK, Key
<1>2. content \in [Key -> Entry] /\ \A k \in Key : content[k] = Nil
  BY DEF Init, Entry
<1>3. Scatter(t)
  BY EmptyTable DEF Init, Scatter
<1>4. HoldsContent
  BY <1>2, NoElement DEF Init, HoldsContent
<1>5. findindex(t, last) # Nil
  BY NilKinds DEF Init, findindex
<1>6. Trav
  BY <1>5 DEF Init, Trav
<1> QED BY <1>1, <1>2, <1>3, <1>4, <1>6 DEF TableInv
----------------------------------------------------------------------------
(* Steps that leave the hash values alone. *)

LEMMA PrimedPosition == ASSUME hash' = hash PROVE \A k : mainposition(t, k)' = mainposition(t', k)
BY DEF mainposition, sizenode

LEMMA PrimedGet == ASSUME hash' = hash PROVE \A k : luaH_get(t, k)' = luaH_get(t', k)
<1> TAKE k
<1>1. mainposition(t, k)' = mainposition(t', k)
  BY PrimedPosition
<1>2. NodesOf(t, k)' = NodesOf(t', k)
  BY <1>1 DEF NodesOf, IsKey
<1>3. HasNode(t, k)' <=> HasNode(t', k)
  BY <1>2 DEF HasNode, InArray, sizearray
<1>4. NodeOf(t, k)' = NodeOf(t', k)
  BY <1>1, <1>2 DEF NodeOf
<1>5. Key' = Key
  BY DEF Key
<1> QED BY <1>3, <1>4, <1>5 DEF luaH_get, InArray, sizearray

LEMMA PrimedGood == ASSUME hash' = hash PROVE (\A R : Good(t, R)' <=> Good(t', R)) /\ (Scatter(t)' <=> Scatter(t'))
<1>1. \A R : Good(t, R)' <=> Good(t', R)
  BY DEF Good, Shape, Ordered, Placed, Unused, mainposition, sizenode, InArray, sizearray, Live, NodeRecord, Key
<1> QED BY <1>1 DEF Scatter

LEMMA PrimedIndex == ASSUME hash' = hash PROVE findindex(t, last)' = findindex(t', last')
<1>1. mainposition(t, last)' = mainposition(t', last')
  BY DEF mainposition, sizenode
<1>2. sizearray(t)' = sizearray(t')
  BY DEF sizearray
<1>3. nodeindex(t, last)' = nodeindex(t', last')
  BY <1>1, <1>2 DEF nodeindex, Matches
<1> QED BY <1>3 DEF findindex, InArray, sizearray

LEMMA PrimedKeys ==
  ASSUME hash' = hash
  PROVE  Key' = Key /\ (HashOK' <=> HashOK) /\ (hash \in [Key -> Nat])' = (hash \in [Key -> Nat])
BY DEF Key, HashOK

LEMMA StoppedTraversal ==
  ASSUME NoTraversal, hash' = hash PROVE Trav'
<1>1. Key' = Key
  BY DEF Key
<1>2. findindex(t, last)' = -1
  BY DEF NoTraversal, findindex
<1>3. findindex(t, last)' # Nil
  BY <1>2, NilKinds
<1>4. traversing' = FALSE /\ last' = Nil /\ visited' = {}
  BY DEF NoTraversal
<1> QED BY <1>1, <1>3, <1>4 DEF Trav

LEMMA KeptTraversal ==
  ASSUME HashOK, Trav, hash' = hash, UNCHANGED <<traversing, last, visited>>,
         NEW R, Good(t, R), Good(t', R), Keeps(t, t')
  PROVE  Trav'
<1>1. findindex(t, last)' = findindex(t, last)
  <2>1. findindex(t', last) = findindex(t, last)
    BY IndexKept DEF Keeps, Trav
  <2> QED BY <2>1, PrimedIndex
<1>2. Key' = Key
  BY DEF Key
<1>3. Indices(t)' = Indices(t)
  BY DEF Indices, Keeps, sizearray
<1>4. ASSUME NEW i \in Indices(t), ValueAt(t, i)' # Nil
      PROVE  ValueAt(t, i) # Nil /\ KeyAt(t, i)' = KeyAt(t, i)
  <2>1. ValueAt(t, i)' = ValueAt(t', i) /\ KeyAt(t, i)' = KeyAt(t', i)
    BY DEF ValueAt, KeyAt, sizearray
  <2>2. ValueAt(t, i) # Nil
    BY <1>4, <2>1 DEF Keeps
  <2>3. KeyAt(t', i) = KeyAt(t, i)
    <3> DEFINE l == sizearray(t)
               D == DOMAIN t.node
               c == Cardinality(D)
    <3>1. l \in Nat /\ c \in Nat /\ D = 0 .. c - 1 /\ i \in 0 .. l + c - 1
      BY Nodes DEF Good, Indices, sizearray
    <3>2. sizearray(t') = l /\ \A j \in D : t'.node[j].key = t.node[j].key
      BY DEF Keeps
    <3> HIDE DEF l, c
    <3>3. CASE i < l
      BY <3>2, <3>3 DEF KeyAt, l
    <3>4. CASE ~(i < l)
      <4>1. i - l \in D
        BY <3>1, <3>4
      <4> QED BY <3>2, <3>4, <4>1 DEF KeyAt, l
    <3> QED BY <3>3, <3>4
  <2> QED BY <2>1, <2>2, <2>3
<1>5. ASSUME traversing', NEW i \in Indices(t)', ValueAt(t, i)' # Nil
      PROVE  KeyAt(t, i)' \in visited' <=> i <= findindex(t, last)'
  <2>1. i \in Indices(t) /\ ValueAt(t, i) # Nil /\ KeyAt(t, i)' = KeyAt(t, i)
    BY <1>3, <1>4, <1>5
  <2> QED BY <1>1, <1>5, <2>1 DEF Trav
<1>6. (traversing \in BOOLEAN /\ last \in Key \cup {Nil} /\ visited \subseteq Key)'
  BY <1>2 DEF Trav
<1>7. (~traversing => last = Nil /\ visited = {})' /\ (findindex(t, last) # Nil)'
  BY <1>1 DEF Trav
<1> QED BY <1>5, <1>6, <1>7 DEF Trav

----------------------------------------------------------------------------
(* One lemma per action. *)

LEMMA SetStep ==
  ASSUME TableInv, NEW k \in Key, NEW v \in Entry, luaH_set(k, v) PROVE TableInv'
<1>1. HashOK /\ Scatter(t) /\ HoldsContent /\ Trav /\ content \in [Key -> Entry] /\ hash' = hash
  BY DEF TableInv, luaH_set
<1>2. /\ Scatter(t')
      /\ \A q \in Key : luaH_get(t', q) = IF q = k THEN v ELSE luaH_get(t, q)
  BY <1>1, SetLemma DEF luaH_set
<1>3. content' = [content EXCEPT ![k] = v] /\ StopTraversal(k)
  BY DEF luaH_set
<1>4. content' \in [Key -> Entry] /\ \A q \in Key : content'[q] = IF q = k THEN v ELSE content[q]
  BY <1>1, <1>3
<1>5. Key' = Key /\ HashOK' /\ (hash \in [Key -> Nat])'
  BY <1>1, PrimedKeys DEF TableInv
<1>6. Scatter(t)'
  BY <1>1, <1>2, PrimedGood
<1>7. HoldsContent'
  <2>1. \A q \in Key : luaH_get(t, q)' = luaH_get(t', q)
    BY <1>1, PrimedGet
  <2> QED BY <1>1, <1>2, <1>4, <1>5, <2>1 DEF HoldsContent
<1>8. Trav'
  <2>1. CASE content[k] = Nil
    BY <1>1, <1>3, <2>1, StoppedTraversal DEF StopTraversal
  <2>2. CASE content[k] # Nil
    <3>1. PICK R : Good(t, R)
      BY <1>1 DEF Scatter
    <3>2. luaH_get(t, k) # Nil
      BY <1>1, <2>2 DEF HoldsContent
    <3>3. (InArray(t, k) \/ HasNode(t, k)) /\ Good(Put(t, k, v), R) /\ Keeps(t, Put(t, k, v))
      BY <1>1, <3>1, <3>2, PresentSet
    <3>4. t' = Put(t, k, v)
      BY <3>3 DEF luaH_set
    <3>5. Good(t', R) /\ Keeps(t, t')
      BY <3>3, <3>4
    <3>6. UNCHANGED <<traversing, last, visited>>
      BY <1>3, <2>2 DEF StopTraversal
    <3> QED BY <1>1, <3>1, <3>5, <3>6, KeptTraversal
  <2> QED BY <2>1, <2>2
<1> QED BY <1>4, <1>5, <1>6, <1>7, <1>8 DEF TableInv

(* A step that changes no element, nor where one is. *)
LEMMA SameElements ==
  ASSUME TableInv, hash' = hash, content' = content, NEW R, Good(t, R), Good(t', R), Keeps(t, t'),
         \A q \in Key : luaH_get(t', q) = luaH_get(t, q),
         UNCHANGED <<traversing, last, visited>> \/ NoTraversal
  PROVE  TableInv'
<1>1. HashOK /\ HoldsContent /\ Trav /\ content \in [Key -> Entry]
  BY DEF TableInv
<1>2. Key' = Key /\ HashOK' /\ (hash \in [Key -> Nat])'
  BY PrimedKeys DEF TableInv
<1>3. Scatter(t)'
  BY PrimedGood DEF Scatter
<1>4. HoldsContent'
  <2>1. \A q \in Key : luaH_get(t, q)' = luaH_get(t', q)
    BY PrimedGet
  <2> QED BY <1>1, <1>2, <2>1 DEF HoldsContent
<1>5. Trav'
  BY <1>1, KeptTraversal, StoppedTraversal
<1>6. (content \in [Key -> Entry])'
  BY <1>1, <1>2 DEF Entry
<1> QED BY <1>2, <1>3, <1>4, <1>5, <1>6 DEF TableInv

LEMMA LostFree ==
  ASSUME HashOK, NEW tb, NEW R, Good(tb, R), NEW tb2, tb2 = [tb EXCEPT !.lastfree = 0]
  PROVE  Good(tb2, R) /\ Keeps(tb, tb2) /\ \A q \in Key : luaH_get(tb2, q) = luaH_get(tb, q)
<1>1. PICK n \in TwoTo \cup {0} :
        tb \in [array : Seq(Entry), node : [0 .. n - 1 -> NodeRecord], lastfree : 0 .. n]
  BY DEF Good, Shape
<1>2. n \in Nat
  BY TwoToType
<1>3. tb2.array = tb.array /\ tb2.node = tb.node
  BY <1>1
<1>4. tb2 \in [array : Seq(Entry), node : [0 .. n - 1 -> NodeRecord], lastfree : 0 .. n]
  <2>1. 0 \in 0 .. n
    BY <1>2
  <2> QED BY <1>1, <2>1
<1>5. Shape(tb2)
  BY <1>3, <1>4 DEF Good, Shape, sizearray
<1>6. \A q : mainposition(tb2, q) = mainposition(tb, q) /\ (InArray(tb2, q) <=> InArray(tb, q))
  BY <1>3 DEF mainposition, sizenode, InArray, sizearray
<1>7. Good(tb2, R)
  BY <1>3, <1>5, <1>6 DEF Good, Placed
<1>8. Keeps(tb, tb2)
  BY <1>3 DEF Keeps, sizearray, ValueAt
<1>9. ASSUME NEW q \in Key PROVE luaH_get(tb2, q) = luaH_get(tb, q)
  <2>1. Chain(tb2, mainposition(tb2, q)) = Chain(tb, mainposition(tb, q))
    BY <1>3, <1>6 DEF Chain
  <2>2. NodesOf(tb2, q) = NodesOf(tb, q)
    BY <1>3, <2>1 DEF NodesOf
  <2> QED BY <1>3, <1>6, <2>1, <2>2 DEF luaH_get, HasNode, NodeOf
<1> QED BY <1>7, <1>8, <1>9

LEMMA FailsStep ==
  ASSUME TableInv, ~NodesMayFail, NEW k \in Key, rehash_fails(k) PROVE TableInv'
<1>1. t' = [t EXCEPT !.lastfree = 0]
  BY DEF rehash_fails
<1>2. hash' = hash /\ content' = content /\ (UNCHANGED <<traversing, last, visited>> \/ NoTraversal)
  BY DEF rehash_fails, StopTraversal
<1>3. HashOK
  BY DEF TableInv
<1>4. PICK R : Good(t, R)
  BY DEF TableInv, Scatter
<1>5. Good(t', R) /\ Keeps(t, t') /\ \A q \in Key : luaH_get(t', q) = luaH_get(t, q)
  BY <1>1, <1>3, <1>4, LostFree
<1> QED BY <1>2, <1>4, <1>5, SameElements

LEMMA CollectStep == ASSUME TableInv, removeentries PROVE TableInv'
<1>1. Removes(t, t')
  BY DEF removeentries, Removes
<1>2. hash' = hash /\ content' = content /\ UNCHANGED <<traversing, last, visited>>
  BY DEF removeentries
<1>3. HashOK
  BY DEF TableInv
<1>4. PICK R : Good(t, R)
  BY DEF TableInv, Scatter
<1>5. Good(t', R) /\ Keeps(t, t') /\ \A q \in Key : luaH_get(t', q) = luaH_get(t, q)
  BY <1>1, <1>3, <1>4, RemoveLemma DEF Scatter
<1> QED BY <1>2, <1>4, <1>5, SameElements

LEMMA ResizeStep ==
  ASSUME TableInv, NEW size \in Key \ Collectable, luaH_resizearray(size) PROVE TableInv'
<1>1. HashOK /\ Scatter(t) /\ HoldsContent /\ content \in [Key -> Entry]
      /\ hash' = hash /\ content' = content /\ NoTraversal
  BY DEF TableInv, luaH_resizearray
<1>2. size \in Nat /\ size > sizearray(t)
  BY HashingAssumption DEF TableInv, HashOK, luaH_resizearray
<1>3. t' = resize(t, size, Cardinality(DOMAIN t.node))
  BY DEF luaH_resizearray
<1>4. Scatter(t') /\ \A q \in Key : luaH_get(t', q) = luaH_get(t, q)
  BY <1>1, <1>2, <1>3, ResizeArrayLemma
<1>5. Key' = Key /\ HashOK' /\ (hash \in [Key -> Nat])'
  BY <1>1, PrimedKeys DEF TableInv
<1>6. Scatter(t)'
  BY <1>1, <1>4, PrimedGood
<1>7. HoldsContent'
  <2>1. \A q \in Key : luaH_get(t, q)' = luaH_get(t', q)
    BY <1>1, PrimedGet
  <2> QED BY <1>1, <1>4, <1>5, <2>1 DEF HoldsContent
<1>8. Trav'
  BY <1>1, StoppedTraversal
<1>9. (content \in [Key -> Entry])'
  BY <1>1, <1>5 DEF Entry
<1> QED BY <1>5, <1>6, <1>7, <1>8, <1>9 DEF TableInv

(* Where an element is. *)
LEMMA IndexOf ==
  ASSUME HashOK, NEW tb, Scatter(tb), NEW k \in Key, luaH_get(tb, k) # Nil
  PROVE  \E i \in Indices(tb) : KeyAt(tb, i) = k /\ ValueAt(tb, i) = luaH_get(tb, k)
<1> DEFINE l == sizearray(tb)
           D == DOMAIN tb.node
           c == Cardinality(D)
<1>1. l \in Nat /\ c \in Nat /\ D = 0 .. c - 1
  BY Nodes DEF Scatter, Good, sizearray
<1> HIDE DEF l, c, D
<1>2. CASE InArray(tb, k)
  <2>1. k \in 1 .. l /\ luaH_get(tb, k) = tb.array[k]
    BY <1>2 DEF InArray, luaH_get, l
  <2>2. k - 1 \in 0 .. l + c - 1 /\ k - 1 < l /\ (k - 1) + 1 = k
    BY <1>1, <2>1
  <2>3. KeyAt(tb, k - 1) = k /\ ValueAt(tb, k - 1) = tb.array[k]
    BY <2>2 DEF KeyAt, ValueAt, l
  <2>4. k - 1 \in Indices(tb)
    BY <2>2 DEF Indices, l, c, D
  <2> QED BY <2>1, <2>3, <2>4
<1>3. CASE ~InArray(tb, k)
  <2>1. PICK n : InNode(tb, k, n)
    BY <1>3, GetNone
  <2>2. luaH_get(tb, k) = tb.node[n].val
    BY <1>3, <2>1, GetNode
  <2>3. n \in D /\ tb.node[n].key = k
    BY <2>1 DEF InNode, IsKey, D
  <2>4. n + l \in 0 .. l + c - 1 /\ ~(n + l < l) /\ (n + l) - l = n
    BY <1>1, <2>3
  <2>5. KeyAt(tb, n + l) = k /\ ValueAt(tb, n + l) = tb.node[n].val
    BY <2>3, <2>4 DEF KeyAt, ValueAt, l
  <2>6. n + l \in Indices(tb)
    BY <2>4 DEF Indices, l, c, D
  <2> QED BY <2>2, <2>5, <2>6
<1> QED BY <1>2, <1>3

LEMMA IndexRange ==
  ASSUME HashOK, NEW tb, Scatter(tb), NEW k \in Key \cup {Nil}, findindex(tb, k) # Nil
  PROVE  findindex(tb, k) \in Int /\ findindex(tb, k) >= -1
<1> DEFINE l == sizearray(tb)
           D == DOMAIN tb.node
           c == Cardinality(D)
<1>1. l \in Nat /\ c \in Nat /\ D = 0 .. c - 1
  BY Nodes DEF Scatter, Good, sizearray
<1> HIDE DEF l, c, D
<1>2. CASE k = Nil
  BY <1>2 DEF findindex
<1>3. CASE k # Nil /\ InArray(tb, k)
  <2>1. k \in 1 .. l /\ findindex(tb, k) = k - 1
    BY <1>3 DEF InArray, findindex, l
  <2> QED BY <1>1, <2>1
<1>4. CASE k # Nil /\ ~InArray(tb, k)
  <2>1. findindex(tb, k) = nodeindex(tb, k)
    BY <1>4 DEF findindex
  <2>2. PICK R : Good(tb, R)
    BY DEF Scatter
  <2>3. \E i \in D : nodeindex(tb, k) = i + l
    BY <1>4, <2>1, <2>2, SearchIndex DEF D, l
  <2>4. PICK i \in D : nodeindex(tb, k) = i + l
    BY <2>3
  <2>5. i + l \in Int /\ i + l >= -1
    BY <1>1, <2>4
  <2> QED BY <2>1, <2>4, <2>5
<1> QED BY <1>2, <1>3, <1>4

(* The next element, if there is one. *)
LEMMA NextElement ==
  ASSUME NEW tb, Shape(tb), NEW f \in Int, f >= -1
  PROVE  LET rest == Following(tb, f + 1)
         IN /\ rest = {} => \A i \in Indices(tb) : ValueAt(tb, i) # Nil => i <= f
            /\ rest # {} =>
                 LET m == Min(rest)
                 IN /\ m \in Indices(tb) /\ m > f /\ ValueAt(tb, m) # Nil
                    /\ \A i \in Indices(tb) : ValueAt(tb, i) # Nil => (i <= m <=> i <= f \/ i = m)
<1> DEFINE l == sizearray(tb)
           c == Cardinality(DOMAIN tb.node)
           rest == Following(tb, f + 1)
<1>1. l \in Nat /\ c \in Nat
  BY Nodes DEF sizearray
<1>2. \A i : i \in rest <=> i \in (f + 1) .. l + c - 1 /\ ValueAt(tb, i) # Nil
  BY DEF Following
<1>3. \A i : i \in Indices(tb) <=> i \in 0 .. l + c - 1
  BY DEF Indices
<1> HIDE DEF l, c, rest
<1>4. \A i \in Indices(tb) : i \in rest <=> ValueAt(tb, i) # Nil /\ i > f
  <2> TAKE i \in Indices(tb)
  <2>1. i \in 0 .. l + c - 1
    BY <1>3
  <2>2. i \in (f + 1) .. l + c - 1 <=> i > f
    BY <1>1, <2>1
  <2> QED BY <1>2, <2>2
<1>5. \A i \in rest : i \in Nat /\ i \in Indices(tb) /\ i > f /\ ValueAt(tb, i) # Nil
  <2> TAKE i \in rest
  <2>1. i \in (f + 1) .. l + c - 1 /\ ValueAt(tb, i) # Nil
    BY <1>2
  <2>2. i \in Nat /\ i \in 0 .. l + c - 1 /\ i > f
    BY <1>1, <2>1
  <2> QED BY <1>3, <2>1, <2>2
<1>6. \A i \in Indices(tb) : i \in Int
  BY <1>1, <1>3
<1>7. ASSUME rest = {}, NEW i \in Indices(tb), ValueAt(tb, i) # Nil PROVE i <= f
  BY <1>4, <1>6, <1>7
<1>8. ASSUME rest # {}
      PROVE  LET m == Min(rest)
             IN /\ m \in Indices(tb) /\ m > f /\ ValueAt(tb, m) # Nil
                /\ \A i \in Indices(tb) : ValueAt(tb, i) # Nil => (i <= m <=> i <= f \/ i = m)
  <2> DEFINE m == Min(rest)
  <2>1. m \in rest /\ \A i \in rest : m <= i
    <3>1. rest \in SUBSET Nat
      BY <1>5
    <3>2. \E x \in rest : \A y \in rest : x <= y
      BY <1>8, <3>1, LeastNatural
    <3> QED BY <3>2, Zenon DEF Min
  <2> HIDE DEF m
  <2>2. m \in Indices(tb) /\ m > f /\ ValueAt(tb, m) # Nil /\ m \in Nat
    BY <1>5, <2>1
  <2>3. ASSUME NEW i \in Indices(tb), ValueAt(tb, i) # Nil PROVE i <= m <=> i <= f \/ i = m
    <3>1. i \in Int
      BY <1>6
    <3>2. i > f => m <= i
      BY <1>4, <2>1, <2>3
    <3> QED BY <2>2, <3>1, <3>2
  <2> QED BY <2>2, <2>3 DEF m
<1> QED BY <1>7, <1>8 DEF rest

(* luaH_next returns the first element after the last key, or stops when     *)
(* there is none.                                                            *)
LEMMA Advance ==
  ASSUME TableInv, luaH_next
  PROVE  /\ ~InvalidKey /\ traversing /\ hash' = hash /\ t' = t /\ content' = content
         /\ \/ /\ NoTraversal
               /\ \A i \in Indices(t) : ValueAt(t, i) # Nil => i <= findindex(t, last)
            \/ \E m \in Indices(t) :
                 /\ m > findindex(t, last) /\ ValueAt(t, m) # Nil
                 /\ last' = KeyAt(t, m) /\ visited' = visited \cup {last'} /\ traversing' = traversing
                 /\ \A i \in Indices(t) : ValueAt(t, i) # Nil => (i <= m <=> i <= findindex(t, last) \/ i = m)
<1> DEFINE f == findindex(t, last)
           rest == Following(t, f + 1)
           m == Min(rest)
<1>1. HashOK /\ Scatter(t) /\ Trav
  BY DEF TableInv
<1>2. ~InvalidKey
  BY <1>1 DEF Trav, InvalidKey
<1>3. f \in Int /\ f >= -1
  BY <1>1, IndexRange DEF Trav
<1>4. Shape(t)
  BY <1>1 DEF Scatter, Good
<1>5. /\ traversing /\ hash' = hash /\ t' = t /\ content' = content
      /\ \/ rest = {} /\ NoTraversal
         \/ rest # {} /\ last' = KeyAt(t, m) /\ visited' = visited \cup {last'} /\ traversing' = traversing
  BY <1>2 DEF luaH_next
<1> HIDE DEF f
<1>6. /\ rest = {} => \A i \in Indices(t) : ValueAt(t, i) # Nil => i <= f
      /\ rest # {} =>
           /\ m \in Indices(t) /\ m > f /\ ValueAt(t, m) # Nil
           /\ \A i \in Indices(t) : ValueAt(t, i) # Nil => (i <= m <=> i <= f \/ i = m)
  BY <1>3, <1>4, NextElement
<1> HIDE DEF rest, m
<1>7. CASE rest = {}
  BY <1>2, <1>5, <1>6, <1>7 DEF f
<1>8. CASE rest # {}
  <2>1. /\ m > f /\ ValueAt(t, m) # Nil
        /\ last' = KeyAt(t, m) /\ visited' = visited \cup {last'} /\ traversing' = traversing
        /\ \A i \in Indices(t) : ValueAt(t, i) # Nil => (i <= m <=> i <= f \/ i = m)
    BY <1>5, <1>6, <1>8
  <2>2. m \in Indices(t)
    BY <1>6, <1>8
  <2> QED BY <1>2, <1>5, <2>1, <2>2 DEF f
<1> QED BY <1>7, <1>8

LEMMA NextStep == ASSUME TableInv, luaH_next PROVE TableInv'
<1>1. HashOK /\ Scatter(t) /\ HoldsContent /\ Trav /\ content \in [Key -> Entry]
  BY DEF TableInv
<1>2. hash' = hash /\ t' = t /\ content' = content /\ traversing
  BY Advance
<1>3. Key' = Key /\ HashOK' /\ (hash \in [Key -> Nat])'
  BY <1>2, PrimedKeys DEF TableInv
<1>4. Scatter(t)'
  BY <1>1, <1>2, PrimedGood
<1>5. HoldsContent'
  <2>1. \A q \in Key : luaH_get(t, q)' = luaH_get(t', q)
    BY <1>2, PrimedGet
  <2> QED BY <1>1, <1>2, <1>3, <2>1 DEF HoldsContent
<1>6. (content \in [Key -> Entry])'
  BY <1>1, <1>2, <1>3 DEF Entry
<1>7. CASE NoTraversal
  <2>1. Trav'
    BY <1>2, <1>7, StoppedTraversal
  <2> QED BY <1>3, <1>4, <1>5, <1>6, <2>1 DEF TableInv
<1>8. ASSUME NEW m \in Indices(t), m > findindex(t, last), ValueAt(t, m) # Nil,
             last' = KeyAt(t, m), visited' = visited \cup {last'}, traversing' = traversing,
             \A i \in Indices(t) : ValueAt(t, i) # Nil => (i <= m <=> i <= findindex(t, last) \/ i = m)
      PROVE  TableInv'
  <2>1. last' \in Key /\ findindex(t, last') = m
    BY <1>1, <1>8, ElementIndex
  <2>2. findindex(t, last)' = m
    BY <1>2, <2>1, PrimedIndex
  <2>3. m # Nil
    <3>1. m \in Int
      BY <1>1, Nodes DEF Scatter, Good, Indices, sizearray
    <3> QED BY <3>1, NilKinds
  <2>4. last' # Nil
    BY <1>1, <2>1, KeyKinds
  <2>5. Indices(t)' = Indices(t)
    BY <1>2 DEF Indices, sizearray
  <2>6. ASSUME NEW i \in Indices(t), ValueAt(t, i)' # Nil
        PROVE  KeyAt(t, i)' \in visited' <=> i <= findindex(t, last)'
    <3>1. ValueAt(t, i)' = ValueAt(t, i) /\ KeyAt(t, i)' = KeyAt(t, i)
      BY <1>2 DEF ValueAt, KeyAt, sizearray
    <3>2. findindex(t, KeyAt(t, i)) = i
      BY <1>1, <2>6, <3>1, ElementIndex
    <3>3. KeyAt(t, i) = last' <=> i = m
      BY <1>8, <2>1, <3>2
    <3>4. KeyAt(t, i) \in visited <=> i <= findindex(t, last)
      BY <1>1, <1>2, <2>6, <3>1 DEF Trav
    <3>5. i <= m <=> i <= findindex(t, last) \/ i = m
      BY <1>8, <2>6, <3>1
    <3>6. KeyAt(t, i) \in visited' <=> KeyAt(t, i) \in visited \/ KeyAt(t, i) = last'
      BY <1>8
    <3> QED BY <2>2, <3>1, <3>3, <3>4, <3>5, <3>6
  <2>7. (traversing \in BOOLEAN /\ last \in Key \cup {Nil} /\ visited \subseteq Key)'
    BY <1>1, <1>2, <1>3, <1>8, <2>1 DEF Trav
  <2>8. (~traversing => last = Nil /\ visited = {})' /\ (findindex(t, last) # Nil)'
    BY <1>2, <1>8, <2>2, <2>3
  <2>9. Trav'
    BY <2>5, <2>6, <2>7, <2>8 DEF Trav
  <2> QED BY <1>3, <1>4, <1>5, <1>6, <2>9 DEF TableInv
<1> QED BY <1>7, <1>8, Advance

LEMMA BeginStep == ASSUME TableInv, BeginTraversal PROVE TableInv'
<1>1. HashOK /\ Scatter(t) /\ HoldsContent /\ Trav /\ content \in [Key -> Entry]
  BY DEF TableInv
<1>2. hash' = hash /\ t' = t /\ content' = content /\ last' = last /\ visited' = visited
      /\ traversing' = TRUE /\ last = Nil /\ visited = {}
  BY <1>1 DEF BeginTraversal, Trav
<1>3. Key' = Key /\ HashOK' /\ (hash \in [Key -> Nat])'
  BY <1>2, PrimedKeys DEF TableInv
<1>4. Scatter(t)'
  BY <1>1, <1>2, PrimedGood
<1>5. HoldsContent'
  <2>1. \A q \in Key : luaH_get(t, q)' = luaH_get(t', q)
    BY <1>2, PrimedGet
  <2> QED BY <1>1, <1>2, <1>3, <2>1 DEF HoldsContent
<1>6. (content \in [Key -> Entry])'
  BY <1>1, <1>2, <1>3 DEF Entry
<1>7. findindex(t, last)' = -1
  BY <1>2 DEF findindex
<1>8. Trav'
  <2>1. Indices(t)' = Indices(t)
    BY <1>2 DEF Indices, sizearray
  <2>2. \A i \in Indices(t) : ~(i <= -1)
    BY <1>1, Nodes DEF Scatter, Good, Indices, sizearray
  <2>3. -1 # Nil
    BY NilKinds
  <2> QED BY <1>1, <1>2, <1>3, <1>7, <2>1, <2>2, <2>3 DEF Trav
<1> QED BY <1>3, <1>4, <1>5, <1>6, <1>8 DEF TableInv

(* What is said of a state, for use in the next one. *)
NoneFound ==
  HashOK /\ Scatter(t) =>
    \A k \in Key : ~InArray(t, k) /\ (\A i : ~InNode(t, k, i)) => luaH_get(t, k) = Nil

LEMMA NoneIsFound == NoneFound
BY GetNone DEF NoneFound

(* The key that changes its hash value has no element. *)
LEMMA RecycleStep ==
  ASSUME TableInv, NEW k \in Key \cap String, Recycle(k) PROVE TableInv'
<1>1. HashOK /\ Scatter(t) /\ HoldsContent /\ Trav /\ content \in [Key -> Entry] /\ hash \in [Key -> Nat]
  BY DEF TableInv
<1>2. t' = t /\ content' = content /\ last' = last /\ visited' = visited \ {k} /\ traversing' = traversing
      /\ last # k /\ \A i \in DOMAIN t.node : t.node[i].key = k => t.node[i].dead
  BY DEF Recycle
<1>3. PICK g \in Hashing : DOMAIN g = Key /\ hash' = [hash EXCEPT ![k] = g[k]]
  BY DEF Recycle
<1>4. g[k] \in Nat
  BY <1>3, HashingAssumption
<1>5. Key' = Key /\ hash' \in [Key -> Nat] /\ \A q \in Key : q # k => hash'[q] = hash[q]
  <2>1. hash' \in [Key -> Nat]
    BY <1>1, <1>3, <1>4
  <2> QED BY <1>1, <1>3, <2>1 DEF Key
<1>6. HashOK' /\ (hash \in [Key -> Nat])'
  BY <1>1, <1>5 DEF HashOK
<1>7. k \in Collectable /\ k \notin Nat /\ k # Nil
  BY HashingAssumption, NilKinds DEF Collectable
<1>8. ~InArray(t, k) /\ ~InArray(t, k)'
  <2>1. Len(t.array) \in Nat
    BY <1>1, Nodes DEF Scatter, Good
  <2>2. \A j \in 1 .. Len(t.array) : j \in Nat
    BY <2>1
  <2> QED BY <1>2, <1>7, <2>2 DEF InArray, sizearray
<1>9. ASSUME NEW q \in Key, q # k PROVE mainposition(t, q)' = mainposition(t, q)
  <2>1. sizenode(t)' = sizenode(t) /\ hash'[q] = hash[q]
    BY <1>2, <1>5, <1>9 DEF sizenode
  <2> QED BY <2>1 DEF mainposition
<1>10. PICK R : Good(t, R)
  BY <1>1 DEF Scatter
<1>11. Good(t, R)'
  <2>1. Shape(t)'
    BY <1>2, <1>5, <1>10 DEF Good, Shape, sizearray, Entry, NodeRecord
  <2>2. \A i \in DOMAIN t.node : Live(t.node[i]) => t.node[i].key \in Key /\ t.node[i].key # k
    BY <1>2, <1>10 DEF Live, Good, Placed
  <2>3. Placed(t, R)'
    <3> SUFFICES ASSUME NEW i \in DOMAIN t.node, Live(t.node[i]),
                        NEW q, q = t.node[i].key, NEW mp, mp = mainposition(t, q)
        PROVE  /\ q \in Key /\ ~InArray(t, q)'
               /\ i \in R[mp]
               /\ \A j \in R[mp] : i \in R[j] /\ j # i => t.node[j].key # q
               /\ \A j \in DOMAIN t.node : Live(t.node[j]) /\ t.node[j].key = q => j = i
               /\ i # mp /\ Live(t.node[mp]) => mainposition(t, t.node[mp].key)' = mp
      <4>1. ASSUME NEW i \in DOMAIN t.node, Live(t.node[i])
            PROVE mainposition(t, t.node[i].key)' = mainposition(t, t.node[i].key)
        BY <1>2, <1>9, <2>2, <4>1
      <4> QED BY <1>2, <1>5, <4>1 DEF Placed, Live
    <3>1. /\ q \in Key /\ ~InArray(t, q)
          /\ i \in R[mp]
          /\ \A j \in R[mp] : i \in R[j] /\ j # i => t.node[j].key # q
          /\ \A j \in DOMAIN t.node : Live(t.node[j]) /\ t.node[j].key = q => j = i
          /\ i # mp /\ Live(t.node[mp]) => mainposition(t, t.node[mp].key) = mp
      BY <1>10 DEF Good, Placed
    <3>2. ~InArray(t, q)'
      BY <1>2, <3>1 DEF InArray, sizearray
    <3>3. mp \in DOMAIN t.node
      <4>1. t.node # <<>>
        OBVIOUS
      <4> QED BY <1>1, <1>10, <3>1, <4>1, MainPosition DEF Good
    <3>4. Live(t.node[mp]) => mainposition(t, t.node[mp].key)' = mainposition(t, t.node[mp].key)
      BY <1>2, <1>9, <2>2, <3>3
    <3> QED BY <3>1, <3>2, <3>4
  <2>4. Ordered(t.node, R)' /\ Unused(t.node)'
    BY <1>2, <1>10 DEF Good, Ordered, Unused
  <2> QED BY <2>1, <2>3, <2>4 DEF Good
<1>12. Scatter(t)'
  BY <1>11 DEF Scatter
<1>13. \A i : ~InNode(t, k, i) /\ ~InNode(t, k, i)'
  BY <1>2 DEF InNode, IsKey
<1>14. HoldsContent'
  <2>1. ASSUME NEW q \in Key, q # k PROVE luaH_get(t, q)' = luaH_get(t, q)
    <3>1. mainposition(t, q)' = mainposition(t, q)
      BY <1>9, <2>1
    <3>2. NodesOf(t, q)' = NodesOf(t, q)
      BY <1>2, <3>1 DEF NodesOf, IsKey
    <3>3. HasNode(t, q)' <=> HasNode(t, q)
      BY <1>2, <3>2 DEF HasNode, InArray, sizearray
    <3>4. NodeOf(t, q)' = NodeOf(t, q)
      BY <1>2, <3>1, <3>2 DEF NodeOf
    <3> QED BY <1>2, <1>5, <3>3, <3>4 DEF luaH_get, InArray, sizearray
  <2>2. luaH_get(t, k) = Nil
    BY <1>1, <1>8, <1>13, GetNone
  <2>3. luaH_get(t, k)' = Nil
    <3>1. NoneFound'
      BY NoneIsFound, PTL
    <3> QED BY <1>5, <1>6, <1>8, <1>12, <1>13, <3>1 DEF NoneFound
  <2> QED BY <1>1, <1>2, <1>5, <2>1, <2>2, <2>3 DEF HoldsContent
<1>15. findindex(t, last)' = findindex(t, last)
  <2>1. CASE last = Nil
    BY <1>2, <2>1 DEF findindex
  <2>2. CASE last # Nil
    <3>1. mainposition(t, last)' = mainposition(t, last)
      <4>1. last \in Key
        BY <1>1, <2>2 DEF Trav
      <4>2. sizenode(t)' = sizenode(t) /\ hash'[last] = hash[last]
        BY <1>2, <1>5, <4>1 DEF sizenode
      <4> QED BY <1>2, <4>2 DEF mainposition
    <3>2. sizearray(t)' = sizearray(t)
      BY <1>2 DEF sizearray
    <3>3. nodeindex(t, last)' = nodeindex(t, last)
      BY <1>2, <3>1, <3>2 DEF nodeindex, Matches
    <3> QED BY <1>2, <3>3 DEF findindex, InArray, sizearray
  <2> QED BY <2>1, <2>2
<1>16. Trav'
  <2>1. ASSUME NEW i \in Indices(t), ValueAt(t, i) # Nil PROVE KeyAt(t, i) # k
    <3>1. luaH_get(t, KeyAt(t, i)) # Nil
      BY <1>1, <2>1, ElementIndex
    <3> QED BY <1>1, <1>8, <1>13, <3>1, GetNone
  <2>2. Indices(t)' = Indices(t) /\ \A i : ValueAt(t, i)' = ValueAt(t, i) /\ KeyAt(t, i)' = KeyAt(t, i)
    BY <1>2 DEF Indices, ValueAt, KeyAt, sizearray
  <2>3. (traversing \in BOOLEAN /\ last \in Key \cup {Nil} /\ visited \subseteq Key)'
    BY <1>1, <1>2, <1>5 DEF Trav
  <2>4. (~traversing => last = Nil /\ visited = {})' /\ (findindex(t, last) # Nil)'
    BY <1>1, <1>2, <1>15 DEF Trav
  <2>5. ASSUME traversing, NEW i \in Indices(t), ValueAt(t, i) # Nil
        PROVE  KeyAt(t, i) \in visited' <=> i <= findindex(t, last)
    BY <1>1, <1>2, <2>1, <2>5 DEF Trav
  <2> QED BY <1>2, <1>15, <2>2, <2>3, <2>4, <2>5 DEF Trav
<1>17. (content \in [Key -> Entry])'
  BY <1>1, <1>2, <1>5 DEF Entry
<1> QED BY <1>6, <1>12, <1>14, <1>16, <1>17 DEF TableInv

LEMMA Invariance == ASSUME ~NodesMayFail PROVE Spec => []TableInv
<1>1. ASSUME TableInv, [Next]_vars PROVE TableInv'
  <2>1. ASSUME NEW k \in Key, NEW v \in Entry, luaH_set(k, v) PROVE TableInv'
    BY <1>1, <2>1, SetStep
  <2>2. ASSUME NEW k \in Key, rehash_fails(k) PROVE TableInv'
    BY <1>1, <2>2, FailsStep
  <2>3. ASSUME NEW size \in Key \ Collectable, luaH_resizearray(size) PROVE TableInv'
    BY <1>1, <2>3, ResizeStep
  <2>4. CASE removeentries
    BY <1>1, <2>4, CollectStep
  <2>5. ASSUME NEW k \in Key \cap String, Recycle(k) PROVE TableInv'
    BY <1>1, <2>5, RecycleStep
  <2>6. CASE BeginTraversal
    BY <1>1, <2>6, BeginStep
  <2>7. CASE luaH_next
    BY <1>1, <2>7, NextStep
  <2>8. CASE UNCHANGED vars
    <3>1. hash' = hash /\ t' = t /\ content' = content /\ UNCHANGED <<traversing, last, visited>>
      BY <2>8 DEF vars
    <3>2. PICK R : Good(t, R)
      BY <1>1 DEF TableInv, Scatter
    <3>3. Keeps(t, t)
      BY DEF Keeps
    <3> QED BY <1>1, <3>1, <3>2, <3>3, SameElements
  <2> QED BY <1>1, <2>1, <2>2, <2>3, <2>4, <2>5, <2>6, <2>7, <2>8 DEF Next
<1> QED BY <1>1, Initial, PTL DEF Spec

----------------------------------------------------------------------------
(* Whatever collides, moves, is cleared, collected or rehashed, in tables    *)
(* with any keys and hash values, a key has the value last assigned to it    *)
(* (luaH_get, luaH_set), unless a failing allocation leaves the array grown. *)
THEOREM ContentHeld == ASSUME ~NodesMayFail PROVE Spec => []HoldsContent
<1>1. TableInv => HoldsContent
  BY DEF TableInv
<1> QED BY <1>1, Invariance, PTL

(* A node with a value is in its main position or one that is there is in    *)
(* its own: the invariant at ltable.c:15.                                    *)
THEOREM MainPositionsKept == ASSUME ~NodesMayFail PROVE Spec => []MainPositions
<1>1. ASSUME TableInv PROVE MainPositions
  <2>1. HashOK /\ Trav
    BY <1>1 DEF TableInv
  <2>2. PICK R : Good(t, R)
    BY <1>1 DEF TableInv, Scatter
  <2>3. TypeOK
    <3> DEFINE D == DOMAIN t.node
    <3>1. t \in Tables(D) /\ D = 0 .. Cardinality(D) - 1
      BY <2>2, Nodes DEF Good
    <3>2. \A i \in D : t.node[i].dead => t.node[i].val = Nil
      BY <2>2 DEF Good, Shape
    <3>3. \A i \in D : t.node[i].next \in D \cup {Nil}
      BY <2>2 DEF Good, Ordered
    <3> QED BY <1>1, <2>1, <3>1, <3>2, <3>3 DEF TypeOK, Tables, TableInv, Trav
  <2>4. ASSUME NEW i \in DOMAIN t.node, t.node[i].val # Nil,
               i # mainposition(t, t.node[i].key), t.node[mainposition(t, t.node[i].key)].val # Nil
        PROVE  mainposition(t, t.node[mainposition(t, t.node[i].key)].key) = mainposition(t, t.node[i].key)
    <3> DEFINE mp == mainposition(t, t.node[i].key)
    <3>1. Live(t.node[i]) /\ mp \in DOMAIN t.node
      BY <2>1, <2>2, <2>4, LiveAtMain
    <3>2. Live(t.node[mp])
      BY <2>1, <2>2, <2>4, <3>1, LiveAtMain
    <3> QED BY <2>2, <2>4, <3>1, <3>2 DEF Good, Placed
  <2> QED BY <2>3, <2>4 DEF MainPositions
<1> QED BY <1>1, Invariance, PTL

(* findindex returns the place of every element, live keys and keys that     *)
(* died with the same address apart (ltable.c:133).                          *)
THEOREM ElementsFound == ASSUME ~NodesMayFail PROVE Spec => []FindsElement
<1>1. ASSUME TableInv PROVE FindsElement
  <2>1. HashOK /\ Scatter(t)
    BY <1>1 DEF TableInv
  <2> QED BY <2>1, ElementIndex DEF FindsElement, Indices
<1> QED BY <1>1, Invariance, PTL

(* A traversal whose body only assigns to present fields, or clears them,    *)
(* and during which the collector runs, returns every remaining element and  *)
(* none twice, and no step of it is an error (luaH_next).                    *)
THEOREM TraversalsExact == ASSUME ~NodesMayFail PROVE Spec => TraversalExact
<1>1. ASSUME TableInv PROVE TraversalStep
  <2> SUFFICES ASSUME luaH_next
      PROVE  /\ ~InvalidKey
             /\ traversing' => last' \notin visited
             /\ ~traversing' => {k \in Key : content[k] # Nil} \subseteq visited
    BY DEF TraversalStep
  <2>1. HashOK /\ Scatter(t) /\ HoldsContent /\ Trav
    BY <1>1 DEF TableInv
  <2>2. ~InvalidKey /\ traversing
    BY <1>1, Advance
  <2>3. CASE NoTraversal /\ \A i \in Indices(t) : ValueAt(t, i) # Nil => i <= findindex(t, last)
    <3>1. ASSUME NEW k \in Key, content[k] # Nil PROVE k \in visited
      <4>1. luaH_get(t, k) # Nil
        BY <2>1, <3>1 DEF HoldsContent
      <4>2. PICK i \in Indices(t) : KeyAt(t, i) = k /\ ValueAt(t, i) = luaH_get(t, k)
        BY <2>1, <4>1, IndexOf
      <4> QED BY <2>1, <2>2, <2>3, <4>1, <4>2 DEF Trav
    <3> QED BY <2>2, <2>3, <3>1 DEF NoTraversal
  <2>4. ASSUME NEW m \in Indices(t), m > findindex(t, last), ValueAt(t, m) # Nil,
               last' = KeyAt(t, m), traversing' = traversing
        PROVE  last' \notin visited /\ traversing'
    <3>1. m \in Int /\ findindex(t, last) \in Int
      <4>1. m \in Int
        BY <2>1, Nodes DEF Scatter, Good, Indices, sizearray
      <4> QED BY <2>1, <4>1, IndexRange DEF Trav
    <3>2. ~(m <= findindex(t, last))
      BY <2>4, <3>1
    <3> QED BY <2>1, <2>2, <2>4, <3>2 DEF Trav
  <2> QED BY <1>1, <2>2, <2>3, <2>4, Advance
<1>2. TableInv => [TraversalStep]_vars
  BY <1>1
<1> QED BY <1>2, Invariance, PTL DEF TraversalExact

(* The length of a table is 0 or the place of a present element, and the     *)
(* next place is empty (luaH_getn, unbound_search).                          *)
THEOREM BoundariesFound == ASSUME ~NodesMayFail PROVE Spec => []BoundaryFound
<1>1. ASSUME TableInv PROVE BoundaryFound
  <2> DEFINE n == luaH_getn(t)
  <2>1. HashOK /\ Scatter(t) /\ HoldsContent
    BY <1>1 DEF TableInv
  <2>2. n \in Borders(t)
    BY <2>1, LengthEnds
  <2> HIDE DEF n
  <2>3. n \in Nat /\ (n = 0 \/ luaH_get(t, n) # Nil) /\ luaH_get(t, n + 1) = Nil
    BY <2>2 DEF Borders
  <2>4. n = 0 \/ (n \in Key /\ content[n] # Nil)
    BY <2>1, <2>3, PresentKey DEF HoldsContent
  <2>5. n + 1 \in Key => content[n + 1] = Nil
    BY <2>1, <2>3 DEF HoldsContent
  <2> QED BY <2>4, <2>5 DEF BoundaryFound, IsBoundary, n
<1> QED BY <1>1, Invariance, PTL
==============================================================================
