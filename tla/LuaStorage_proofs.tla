------------------------- MODULE LuaStorage_proofs --------------------------
(***************************************************************************)
(* What two keepers of values promise, for any values.  Strings are        *)
(* interned: what a chain and a vector of chains hold, through new strings,*)
(* rehashes, marking and the sweep, any contents with any hash values.     *)
(* And table.insert and table.remove lose nothing and keep the order.      *)
(***************************************************************************)
EXTENDS LuaStringTable, LuaList, Induction, SequenceTheorems, TLAPS

------------------------------------------------------------------------------
(* Chains in a vector of n, which hold the contents C, each once, and marks M. *)

Str(M) == [c : Contents, marked : M]
Home(c, n) == StringHash[c] % n
Distinct(chain) == \A k, j \in 1..Len(chain) : chain[k].c = chain[j].c => k = j
ContentsOf(chain) == {chain[k].c : k \in 1..Len(chain)}

Chains(hash, n, C, M) ==
  /\ n \in Nat \ {0} /\ hash \in [0..n - 1 -> Seq(Str(M))] /\ C \subseteq Contents
  /\ \A h \in 0..n - 1 : \A k \in 1..Len(hash[h]) : hash[h][k].c \in C /\ Home(hash[h][k].c, n) = h
  /\ \A c \in C : \E k \in 1..Len(hash[Home(c, n)]) : hash[Home(c, n)][k].c = c
  /\ \A h \in 0..n - 1 : Distinct(hash[h])

LEMMA Remainder == ASSUME NEW a \in Nat, NEW b \in Nat \ {0} PROVE a % b \in 0..b - 1
OBVIOUS

LEMMA HomeType == ASSUME NEW n \in Nat \ {0}, NEW c \in Contents PROVE Home(c, n) \in 0..n - 1
<1>1. StringHash[c] \in Nat
  BY StringsAssumption
<1> DEFINE a == StringHash[c]
<1> HIDE DEF a
<1>2. a % n \in 0..n - 1
  BY <1>1, Remainder DEF a
<1> QED BY <1>2 DEF Home, a

LEMMA ChainsSize ==
  ASSUME NEW hash, NEW n, NEW C, NEW M, Chains(hash, n, C, M)
  PROVE  DOMAIN hash = 0..n - 1 /\ Cardinality(DOMAIN hash) = n
<1>1. n \in Nat \ {0} /\ DOMAIN hash = 0..n - 1
  BY DEF Chains
<1>2. Cardinality(0..n - 1) = IF 0 > n - 1 THEN 0 ELSE (n - 1) - 0 + 1
  BY <1>1, FS_Interval
<1> QED BY <1>1, <1>2

LEMMA ContentsHome ==
  ASSUME NEW hash, NEW n, NEW C, NEW M, Chains(hash, n, C, M), NEW h \in 0..n - 1, NEW c \in ContentsOf(hash[h])
  PROVE  c \in C /\ Home(c, n) = h
<1>1. PICK k \in 1..Len(hash[h]) : c = hash[h][k].c
  BY DEF ContentsOf
<1> QED BY <1>1 DEF Chains

LEMMA Prepended ==
  ASSUME NEW S, NEW s \in S, NEW chain \in Seq(S)
  PROVE  /\ <<s>> \o chain \in Seq(S) /\ Len(chain) \in Nat /\ Len(<<s>> \o chain) = Len(chain) + 1
         /\ (<<s>> \o chain)[1] = s
         /\ \A k \in 1..Len(chain) : (<<s>> \o chain)[k + 1] = chain[k]
<1>1. <<s>> \in Seq(S) /\ Len(<<s>>) = 1 /\ <<s>>[1] = s
  OBVIOUS
<1> QED BY <1>1, ConcatProperties, LenProperties

(* A string with a new content comes in front of its chain. *)
LEMMA InFrontKeeps ==
  ASSUME NEW hash, NEW n, NEW C, NEW M, Chains(hash, n, C, M), NEW s \in Str(M), s.c \notin C
  PROVE  Chains(InFront(hash, s), n, C \cup {s.c}, M)
<1> DEFINE p == Home(s.c, n)
           old == hash[p]
           new == <<s>> \o old
           x == InFront(hash, s)
<1>1. n \in Nat \ {0} /\ s.c \in Contents /\ p \in 0..n - 1
  BY HomeType DEF Chains, Str
<1>2. old \in Seq(Str(M))
  BY <1>1 DEF Chains
<1>3. x = [hash EXCEPT ![p] = new]
  BY ChainsSize DEF InFront, Home
<1> HIDE DEF x, p
<1>4. x \in [0..n - 1 -> Seq(Str(M))] /\ x[p] = new /\ \A h \in 0..n - 1 : h # p => x[h] = hash[h]
  BY <1>1, <1>2, <1>3, Prepended DEF Chains
<1>5. /\ Len(old) \in Nat /\ Len(new) = Len(old) + 1 /\ new[1] = s
      /\ \A k \in 1..Len(old) : new[k + 1] = old[k]
  BY <1>2, Prepended
<1>6. ASSUME NEW k \in 1..Len(new) PROVE k = 1 \/ (k - 1 \in 1..Len(old) /\ new[k] = old[k - 1])
  BY <1>5
<1>7. \A k \in 1..Len(old) : old[k].c \in C /\ Home(old[k].c, n) = p
  BY <1>1 DEF Chains
<1> HIDE DEF new
<1>8. ASSUME NEW h \in 0..n - 1, NEW k \in 1..Len(x[h])
      PROVE  x[h][k].c \in C \cup {s.c} /\ Home(x[h][k].c, n) = h
  <2>1. CASE h = p
    <3>1. x[h] = new /\ k \in 1..Len(new)
      BY <1>4, <2>1
    <3>2. new[k] = s \/ \E j \in 1..Len(old) : new[k] = old[j]
      BY <1>5, <1>6, <3>1
    <3>3. new[k].c \in C \cup {s.c} /\ Home(new[k].c, n) = p
      BY <1>7, <3>2 DEF p
    <3> QED BY <2>1, <3>1, <3>3
  <2>2. CASE h # p
    BY <1>4, <2>2 DEF Chains
  <2> QED BY <2>1, <2>2
<1>9. ASSUME NEW c \in C \cup {s.c} PROVE \E k \in 1..Len(x[Home(c, n)]) : x[Home(c, n)][k].c = c
  <2>1. CASE c = s.c
    <3>1. 1 \in 1..Len(new)
      BY <1>5
    <3> QED BY <1>4, <1>5, <2>1, <3>1 DEF p
  <2>2. CASE c # s.c
    <3>1. PICK k \in 1..Len(hash[Home(c, n)]) : hash[Home(c, n)][k].c = c
      BY <2>2 DEF Chains
    <3>2. CASE Home(c, n) = p
      <4>1. k + 1 \in 1..Len(new) /\ new[k + 1].c = c
        BY <1>5, <3>1, <3>2
      <4> QED BY <1>4, <3>2, <4>1
    <3>3. CASE Home(c, n) # p
      <4>1. Home(c, n) \in 0..n - 1
        BY <1>1, <2>2, HomeType DEF Chains
      <4> QED BY <1>4, <3>1, <3>3, <4>1
    <3> QED BY <3>2, <3>3
  <2> QED BY <2>1, <2>2
<1>10. ASSUME NEW h \in 0..n - 1 PROVE Distinct(x[h])
  <2>1. CASE h = p
    <3>1. Distinct(old)
      BY <1>1 DEF Chains
    <3>2. ASSUME NEW k \in 1..Len(new), NEW j \in 1..Len(new), new[k].c = new[j].c PROVE k = j
      <4>0. new[1] = s /\ \A i \in 1..Len(new) : i # 1 => new[i].c # s.c
        BY <1>5, <1>6, <1>7
      <4>1. k = 1 => j = 1
        BY <3>2, <4>0
      <4>2. j = 1 => k = 1
        BY <3>2, <4>0
      <4>3. ASSUME k # 1, j # 1 PROVE k = j
        <5>1. /\ k - 1 \in 1..Len(old) /\ new[k] = old[k - 1]
              /\ j - 1 \in 1..Len(old) /\ new[j] = old[j - 1]
          BY <1>6, <4>3
        <5>2. k - 1 = j - 1
          BY <3>1, <3>2, <5>1 DEF Distinct
        <5> QED BY <1>5, <5>2
      <4> QED BY <4>1, <4>2, <4>3
    <3> QED BY <1>4, <2>1, <3>2 DEF Distinct
  <2>2. CASE h # p
    BY <1>4, <2>2 DEF Chains
  <2> QED BY <2>1, <2>2
<1> HIDE DEF old
<1> QED BY <1>1, <1>4, <1>8, <1>9, <1>10 DEF Chains, x

LEMMA InFrontType ==
  ASSUME NEW n, NEW M, NEW a \in [0..n - 1 -> Seq(Str(M))], NEW s \in Str(M)
  PROVE  InFront(a, s) \in [0..n - 1 -> Seq(Str(M))]
<1> DEFINE p == StringHash[s.c] % Cardinality(DOMAIN a)
<1>1. p \in 0..n - 1 => <<s>> \o a[p] \in Seq(Str(M))
  <2> SUFFICES ASSUME p \in 0..n - 1 PROVE <<s>> \o a[p] \in Seq(Str(M))
    OBVIOUS
  <2>1. a[p] \in Seq(Str(M))
    OBVIOUS
  <2> QED BY <2>1, Prepended
<1>2. InFront(a, s) = [a EXCEPT ![p] = <<s>> \o a[p]]
  BY DEF InFront
<1> HIDE DEF p
<1> QED BY <1>1, <1>2

(* One chain, string after string. *)
Rechains(new, chain, f) ==
  f = [k \in 0..Len(chain) |-> IF k = 0 THEN new ELSE InFront(f[k - 1], chain[k])]

LEMMA Rechaining ==
  ASSUME NEW new, NEW chain PROVE Rechained(new, chain) = (CHOOSE f : Rechains(new, chain, f))[Len(chain)]
BY Zenon DEF Rechained, Rechains

LEMMA RechainsExists ==
  ASSUME NEW n, NEW M, NEW new \in [0..n - 1 -> Seq(Str(M))], NEW chain \in Seq(Str(M))
  PROVE  \E f : Rechains(new, chain, f)
<1> DEFINE A == [0..n - 1 -> Seq(Str(M))]
           l == Len(chain)
           G == [p \in A \X (1..l) |-> InFront(p[1], chain[p[2]])]
           I == [k \in 0..l |-> A]
<1>1. l \in Nat /\ \A k \in 1..l : chain[k] \in Str(M)
  BY LenProperties, ElementOfSeq
<1>2. PICK f : Climbs(l, new, G, f)
  BY <1>1, ClimbsExists
<1>3. ASSUME NEW a \in A, NEW k \in 1..l PROVE G[<<a, k>>] = InFront(a, chain[k]) /\ G[<<a, k>>] \in A
  BY <1>1, InFrontType
<1> HIDE DEF G, A
<1>4. f = [k \in 0..l |-> IF k = 0 THEN new ELSE G[<<f[k - 1], k>>]]
  BY <1>2 DEF Climbs
<1>5. f[0] = new /\ \A k \in 0..l - 1 : f[k + 1] = G[<<f[k], k + 1>>]
  <2>1. 0 \in 0..l
    BY <1>1
  <2>2. ASSUME NEW k \in 0..l - 1 PROVE f[k + 1] = G[<<f[k], k + 1>>]
    <3>1. k + 1 \in 0..l /\ k + 1 # 0 /\ (k + 1) - 1 = k
      BY <1>1
    <3> DEFINE m == k + 1
    <3> HIDE DEF m
    <3>2. f[m] = G[<<f[m - 1], m>>]
      BY <1>4, <3>1 DEF m
    <3> QED BY <3>1, <3>2 DEF m
  <2>3. f[0] = new
    BY <1>4, <2>1
  <2> QED BY <2>2, <2>3
<1>6. \A k \in 0..l : f[k] \in A
  <2>1. f[0] \in I[0]
    BY <1>1, <1>5 DEF A
  <2>2. ASSUME NEW k \in 0..l - 1, f[k] \in I[k] PROVE f[k + 1] \in I[k + 1]
    <3>1. k \in 0..l /\ k + 1 \in 0..l /\ k + 1 \in 1..l
      BY <1>1
    <3> QED BY <1>3, <1>5, <2>2, <3>1
  <2>3. \A k \in 0..l : I[k] = A
    OBVIOUS
  <2> HIDE DEF I
  <2>4. \A k \in 0..l : f[k] \in I[k]
    BY <1>1, <2>1, <2>2, ClimbsTo
  <2> QED BY <2>3, <2>4
<1>7. ASSUME NEW k \in 0..l
      PROVE  (IF k = 0 THEN new ELSE G[<<f[k - 1], k>>]) = (IF k = 0 THEN new ELSE InFront(f[k - 1], chain[k]))
  BY <1>1, <1>3, <1>6
<1>8. f = [k \in 0..l |-> IF k = 0 THEN new ELSE InFront(f[k - 1], chain[k])]
  BY <1>4, <1>7
<1> QED BY <1>8, Zenon DEF Rechains

LEMMA RechainedKeeps ==
  ASSUME NEW new, NEW n, NEW C, NEW M, Chains(new, n, C, M), NEW chain \in Seq(Str(M)),
         Distinct(chain), ContentsOf(chain) \cap C = {}
  PROVE  Chains(Rechained(new, chain), n, C \cup ContentsOf(chain), M)
<1> DEFINE l == Len(chain)
           Upto(k) == C \cup {chain[j].c : j \in 1..k}
           A == [0..n - 1 -> Seq(Str(M))]
           I == [k \in 0..l |-> {x \in A : Chains(x, n, Upto(k), M)}]
           f == CHOOSE f : Rechains(new, chain, f)
<1>1. l \in Nat /\ \A k \in 1..l : chain[k] \in Str(M)
  BY LenProperties, ElementOfSeq
<1>2. Rechains(new, chain, f)
  <2>1. new \in A
    BY DEF Chains
  <2>2. \E g : Rechains(new, chain, g)
    BY <2>1, RechainsExists
  <2> QED BY <2>2, Zenon
<1>3. Rechained(new, chain) = f[l]
  BY Rechaining, Zenon
<1> HIDE DEF f
<1>4. f[0] = new /\ \A k \in 0..l - 1 : f[k + 1] = InFront(f[k], chain[k + 1])
  BY <1>1, <1>2 DEF Rechains
<1>5. f[0] \in I[0]
  <2>1. Upto(0) = C
    OBVIOUS
  <2>2. Chains(f[0], n, Upto(0), M)
    BY <1>4, <2>1
  <2>3. f[0] \in A
    BY <2>2 DEF Chains
  <2> QED BY <1>1, <2>2, <2>3
<1>6. ASSUME NEW k \in 0..l - 1, f[k] \in I[k] PROVE f[k + 1] \in I[k + 1]
  <2> DEFINE s == chain[k + 1]
  <2>1. k \in 0..l /\ k + 1 \in 0..l /\ k + 1 \in 1..l /\ s \in Str(M)
    BY <1>1
  <2>2. Chains(f[k], n, Upto(k), M)
    BY <1>6, <2>1
  <2>3. s.c \notin Upto(k)
    <3>1. s.c \notin C
      BY <2>1 DEF ContentsOf
    <3>2. ASSUME NEW j \in 1..k, chain[j].c = s.c PROVE FALSE
      BY <1>1, <2>1, <3>2 DEF Distinct
    <3> QED BY <3>1, <3>2
  <2>4. Upto(k + 1) = Upto(k) \cup {s.c}
    <3>1. \A j \in 1..k + 1 : j \in 1..k \/ j = k + 1
      BY <2>1
    <3>2. \A j \in 1..k : j \in 1..k + 1
      BY <2>1
    <3>3. k + 1 \in 1..k + 1
      BY <2>1
    <3> QED BY <3>1, <3>2, <3>3
  <2> HIDE DEF Upto, s
  <2>5. Chains(InFront(f[k], s), n, Upto(k) \cup {s.c}, M)
    BY <2>1, <2>2, <2>3, InFrontKeeps
  <2>6. Chains(f[k + 1], n, Upto(k + 1), M)
    BY <1>4, <2>4, <2>5 DEF s
  <2>7. f[k + 1] \in A
    BY <2>6 DEF Chains
  <2> QED BY <2>1, <2>6, <2>7
<1>7. Upto(l) = C \cup ContentsOf(chain)
  BY DEF ContentsOf
<1>8. l \in 0..l
  BY <1>1
<1> HIDE DEF Upto
<1>9. f[l] \in I[l] => Chains(f[l], n, Upto(l), M)
  BY <1>8
<1> HIDE DEF I, l
<1>10. f[l] \in I[l]
  BY <1>1, <1>5, <1>6, <1>8, ClimbsTo
<1> QED BY <1>3, <1>7, <1>9, <1>10

LEMMA RechainedType ==
  ASSUME NEW n, NEW M, NEW a \in [0..n - 1 -> Seq(Str(M))], NEW chain \in Seq(Str(M))
  PROVE  Rechained(a, chain) \in [0..n - 1 -> Seq(Str(M))]
<1> DEFINE A == [0..n - 1 -> Seq(Str(M))]
           l == Len(chain)
           I == [k \in 0..l |-> A]
           f == CHOOSE f : Rechains(a, chain, f)
<1>1. l \in Nat /\ \A k \in 1..l : chain[k] \in Str(M)
  BY LenProperties, ElementOfSeq
<1>2. Rechains(a, chain, f)
  BY RechainsExists, Zenon
<1>3. Rechained(a, chain) = f[l]
  BY Rechaining, Zenon
<1> HIDE DEF f
<1>4. f[0] = a /\ \A k \in 0..l - 1 : f[k + 1] = InFront(f[k], chain[k + 1])
  BY <1>1, <1>2 DEF Rechains
<1>5. f[0] \in I[0]
  BY <1>1, <1>4
<1>6. ASSUME NEW k \in 0..l - 1, f[k] \in I[k] PROVE f[k + 1] \in I[k + 1]
  <2>1. k \in 0..l /\ k + 1 \in 0..l /\ k + 1 \in 1..l
    BY <1>1
  <2>2. f[k] \in A /\ chain[k + 1] \in Str(M)
    BY <1>1, <1>6, <2>1
  <2>3. InFront(f[k], chain[k + 1]) \in A
    BY <2>2, InFrontType
  <2> QED BY <1>4, <2>1, <2>3
<1>7. I[l] = A
  BY <1>1
<1> HIDE DEF I, l, A
<1>8. l \in 0..l
  BY <1>1
<1>9. f[l] \in I[l]
  BY <1>1, <1>5, <1>6, <1>8, ClimbsTo
<1> QED BY <1>3, <1>7, <1>9 DEF A

(* The whole vector, chain after chain. *)
Rehashes(old, l, m, f) ==
  f = [h \in 0..l |-> IF h = 0 THEN [i \in 0..m - 1 |-> <<>>] ELSE Rechained(f[h - 1], old[h - 1])]

LEMMA Rehashing ==
  ASSUME NEW old, NEW m
  PROVE  Rehashed(old, m) = (CHOOSE f : Rehashes(old, Cardinality(DOMAIN old), m, f))[Cardinality(DOMAIN old)]
BY Zenon DEF Rehashed, Rehashes

LEMMA EmptyVector ==
  ASSUME NEW m \in Nat \ {0}, NEW M PROVE Chains([i \in 0..m - 1 |-> <<>>], m, {}, M)
<1>1. <<>> \in Seq(Str(M)) /\ Len(<<>>) = 0
  OBVIOUS
<1> DEFINE x == [i \in 0..m - 1 |-> <<>>]
<1>2. x \in [0..m - 1 -> Seq(Str(M))] /\ \A h \in 0..m - 1 : 1..Len(x[h]) = {}
  BY <1>1
<1> HIDE DEF x
<1> QED BY <1>2 DEF Chains, Distinct, x

LEMMA RehashesExists ==
  ASSUME NEW l \in Nat, NEW M, NEW old \in [0..l - 1 -> Seq(Str(M))], NEW m \in Nat \ {0}
  PROVE  \E f : Rehashes(old, l, m, f)
<1> DEFINE A == [0..m - 1 -> Seq(Str(M))]
           base == [i \in 0..m - 1 |-> <<>>]
           G == [p \in A \X (1..l) |-> Rechained(p[1], old[p[2] - 1])]
           I == [k \in 0..l |-> A]
<1>1. \A k \in 1..l : k - 1 \in 0..l - 1 /\ old[k - 1] \in Seq(Str(M))
  OBVIOUS
<1>2. PICK f : Climbs(l, base, G, f)
  BY ClimbsExists
<1>3. ASSUME NEW a \in A, NEW k \in 1..l
      PROVE  G[<<a, k>>] = Rechained(a, old[k - 1]) /\ G[<<a, k>>] \in A
  BY <1>1, RechainedType
<1>4. base \in A
  <2>1. <<>> \in Seq(Str(M))
    OBVIOUS
  <2> QED BY <2>1
<1> HIDE DEF G, A, base
<1>5. f = [k \in 0..l |-> IF k = 0 THEN base ELSE G[<<f[k - 1], k>>]]
  BY <1>2 DEF Climbs
<1>6. f[0] = base
  <2>1. 0 \in 0..l
    OBVIOUS
  <2> QED BY <1>5, <2>1
<1>7. ASSUME NEW k \in 0..l - 1 PROVE f[k + 1] = G[<<f[k], k + 1>>]
  <2> DEFINE j == k + 1
  <2>1. j \in 0..l /\ j # 0 /\ j - 1 = k
    OBVIOUS
  <2> HIDE DEF j
  <2>2. f[j] = G[<<f[j - 1], j>>]
    BY <1>5, <2>1
  <2> QED BY <2>1, <2>2 DEF j
<1>8. \A k \in 0..l : f[k] \in A
  <2>1. f[0] \in I[0]
    BY <1>4, <1>6
  <2>2. ASSUME NEW k \in 0..l - 1, f[k] \in I[k] PROVE f[k + 1] \in I[k + 1]
    <3>1. k \in 0..l /\ k + 1 \in 0..l /\ k + 1 \in 1..l
      OBVIOUS
    <3> QED BY <1>3, <1>7, <2>2, <3>1
  <2>3. \A k \in 0..l : I[k] = A
    OBVIOUS
  <2> HIDE DEF I
  <2>4. \A k \in 0..l : f[k] \in I[k]
    BY <2>1, <2>2, ClimbsTo
  <2> QED BY <2>3, <2>4
<1>9. ASSUME NEW k \in 0..l
      PROVE  (IF k = 0 THEN base ELSE G[<<f[k - 1], k>>]) = (IF k = 0 THEN base ELSE Rechained(f[k - 1], old[k - 1]))
  BY <1>3, <1>8
<1>10. f = [k \in 0..l |-> IF k = 0 THEN base ELSE Rechained(f[k - 1], old[k - 1])]
  BY <1>5, <1>9
<1> QED BY <1>10, Zenon DEF Rehashes, base

(* What a rehash carries over: every string, with its mark. *)
LEMMA RehashedKeeps ==
  ASSUME NEW old, NEW n, NEW C, NEW M, Chains(old, n, C, M), NEW m \in Nat \ {0}
  PROVE  Chains(Rehashed(old, m), m, C, M)
<1> DEFINE Upto(h) == UNION {ContentsOf(old[j - 1]) : j \in 1..h}
           A == [0..m - 1 -> Seq(Str(M))]
           I == [h \in 0..n |-> {x \in A : Chains(x, m, Upto(h), M)}]
           f == CHOOSE f : Rehashes(old, n, m, f)
<1>1. n \in Nat \ {0} /\ old \in [0..n - 1 -> Seq(Str(M))]
  BY DEF Chains
<1>2. Rehashes(old, n, m, f)
  <2>1. \E g : Rehashes(old, n, m, g)
    BY <1>1, RehashesExists
  <2> QED BY <2>1, Zenon
<1>3. Rehashed(old, m) = f[n]
  <2>1. Cardinality(DOMAIN old) = n
    BY ChainsSize
  <2> QED BY <2>1, Rehashing, Zenon
<1> HIDE DEF f
<1>4. f[0] = [i \in 0..m - 1 |-> <<>>]
  <2>1. 0 \in 0..n
    BY <1>1
  <2> QED BY <1>2, <2>1 DEF Rehashes
<1>5. ASSUME NEW h \in 0..n - 1 PROVE f[h + 1] = Rechained(f[h], old[h])
  <2> DEFINE j == h + 1
  <2>1. j \in 0..n /\ j # 0 /\ j - 1 = h
    BY <1>1
  <2> HIDE DEF j
  <2>2. f[j] = Rechained(f[j - 1], old[j - 1])
    BY <1>2, <2>1 DEF Rehashes
  <2> QED BY <2>1, <2>2 DEF j
<1>6. f[0] \in I[0]
  <2>1. Upto(0) = {}
    OBVIOUS
  <2>2. Chains(f[0], m, Upto(0), M)
    BY <1>4, <2>1, EmptyVector
  <2>3. f[0] \in A
    BY <2>2 DEF Chains
  <2> QED BY <1>1, <2>2, <2>3
<1>7. ASSUME NEW h \in 0..n - 1 PROVE Upto(h + 1) = Upto(h) \cup ContentsOf(old[h]) /\ ContentsOf(old[h]) \cap Upto(h) = {}
  <2>1. \A j \in 1..h + 1 : j \in 1..h \/ j - 1 = h
    BY <1>1
  <2>2. (\A j \in 1..h : j \in 1..h + 1) /\ h + 1 \in 1..h + 1 /\ (h + 1) - 1 = h
    BY <1>1
  <2>3. Upto(h + 1) = Upto(h) \cup ContentsOf(old[h])
    BY <2>1, <2>2
  <2>4. ASSUME NEW j \in 1..h, NEW c \in ContentsOf(old[h]), c \in ContentsOf(old[j - 1]) PROVE FALSE
    <3>1. j - 1 \in 0..n - 1 /\ j - 1 # h
      BY <1>1
    <3>2. Home(c, n) = h /\ Home(c, n) = j - 1
      BY <2>4, <3>1, ContentsHome
    <3> QED BY <3>1, <3>2
  <2> QED BY <2>3, <2>4
<1>8. ASSUME NEW h \in 0..n - 1, f[h] \in I[h] PROVE f[h + 1] \in I[h + 1]
  <2>1. h \in 0..n /\ h + 1 \in 0..n
    BY <1>1
  <2>2. Chains(f[h], m, Upto(h), M)
    BY <1>8, <2>1
  <2>3. old[h] \in Seq(Str(M)) /\ Distinct(old[h])
    BY <1>1 DEF Chains
  <2>4. ContentsOf(old[h]) \cap Upto(h) = {} /\ Upto(h + 1) = Upto(h) \cup ContentsOf(old[h])
    BY <1>7
  <2> HIDE DEF Upto
  <2>5. Chains(Rechained(f[h], old[h]), m, Upto(h) \cup ContentsOf(old[h]), M)
    BY <2>2, <2>3, <2>4, RechainedKeeps
  <2>6. Chains(f[h + 1], m, Upto(h + 1), M)
    BY <1>5, <2>4, <2>5
  <2>7. f[h + 1] \in A
    BY <2>6 DEF Chains
  <2> QED BY <2>1, <2>6, <2>7
<1>9. Upto(n) = C
  <2>1. ASSUME NEW c \in C PROVE c \in Upto(n)
    <3> DEFINE h == Home(c, n)
    <3>1. h \in 0..n - 1 /\ h + 1 \in 1..n /\ (h + 1) - 1 = h
      BY <1>1, HomeType DEF Chains
    <3>2. c \in ContentsOf(old[h])
      BY <3>1 DEF Chains, ContentsOf
    <3> QED BY <3>1, <3>2
  <2>2. ASSUME NEW j \in 1..n, NEW c \in ContentsOf(old[j - 1]) PROVE c \in C
    <3>1. j - 1 \in 0..n - 1
      BY <1>1
    <3> QED BY <2>2, <3>1, ContentsHome
  <2> QED BY <2>1, <2>2
<1> HIDE DEF Upto
<1>10. n \in 0..n
  BY <1>1
<1>11. f[n] \in I[n] => Chains(f[n], m, Upto(n), M)
  BY <1>10
<1> HIDE DEF I
<1>12. f[n] \in I[n]
  BY <1>1, <1>6, <1>8, <1>10, ClimbsTo
<1> QED BY <1>3, <1>9, <1>11, <1>12

------------------------------------------------------------------------------
(* Marks change and strings stay. *)

LEMMA SeqWider ==
  ASSUME NEW S, NEW T, NEW s \in Seq(S), \A k \in 1..Len(s) : s[k] \in T PROVE s \in Seq(T)
<1>1. Len(s) \in Nat /\ s \in [1..Len(s) -> S]
  BY LenProperties
<1>2. s \in [1..Len(s) -> T]
  BY <1>1
<1> QED BY <1>1, <1>2, SeqDef

LEMMA Remarked ==
  ASSUME NEW hash, NEW n, NEW C, NEW M, Chains(hash, n, C, M),
         NEW N, NEW hash2 \in [0..n - 1 -> Seq(Str(N))],
         \A h \in 0..n - 1 : /\ Len(hash2[h]) = Len(hash[h])
                             /\ \A k \in 1..Len(hash[h]) : hash2[h][k].c = hash[h][k].c
  PROVE  Chains(hash2, n, C, N)
<1>1. n \in Nat \ {0} /\ C \subseteq Contents /\ \A c \in C : Home(c, n) \in 0..n - 1
  BY HomeType DEF Chains
<1>2. ASSUME NEW h \in 0..n - 1, NEW k \in 1..Len(hash2[h])
      PROVE  hash2[h][k].c \in C /\ Home(hash2[h][k].c, n) = h
  BY <1>2 DEF Chains
<1>3. ASSUME NEW c \in C PROVE \E k \in 1..Len(hash2[Home(c, n)]) : hash2[Home(c, n)][k].c = c
  <2>1. PICK k \in 1..Len(hash[Home(c, n)]) : hash[Home(c, n)][k].c = c
    BY DEF Chains
  <2> QED BY <1>1, <2>1
<1>4. ASSUME NEW h \in 0..n - 1 PROVE Distinct(hash2[h])
  BY DEF Chains, Distinct
<1> QED BY <1>1, <1>2, <1>3, <1>4 DEF Chains

LEMMA ChainsMarked ==
  ASSUME NEW hash, NEW n, NEW C, NEW M, Chains(hash, n, C, M), NEW N,
         \A h \in 0..n - 1 : \A k \in 1..Len(hash[h]) : hash[h][k].marked \in N
  PROVE  Chains(hash, n, C, N)
<1>1. ASSUME NEW h \in 0..n - 1 PROVE hash[h] \in Seq(Str(N))
  <2>1. hash[h] \in Seq(Str(M))
    BY DEF Chains
  <2>2. ASSUME NEW k \in 1..Len(hash[h]) PROVE hash[h][k] \in Str(N)
    <3>1. hash[h][k] \in Str(M)
      BY <2>1, ElementOfSeq, LenProperties
    <3> QED BY <3>1 DEF Str
  <2> QED BY <2>1, <2>2, SeqWider
<1>2. hash \in [0..n - 1 -> Seq(Str(N))]
  BY <1>1 DEF Chains
<1> QED BY <1>2, Remarked

(* What is in a chain after a string has come to its front. *)
LEMMA InFrontElements ==
  ASSUME NEW hash, NEW n, NEW C, NEW M, Chains(hash, n, C, M), NEW s \in Str(M),
         NEW h \in 0..n - 1, NEW k \in 1..Len(InFront(hash, s)[h])
  PROVE  InFront(hash, s)[h][k] = s \/ \E j \in 1..Len(hash[h]) : InFront(hash, s)[h][k] = hash[h][j]
<1> DEFINE p == Home(s.c, n)
           x == InFront(hash, s)
           new == <<s>> \o hash[h]
<1>1. hash[h] \in Seq(Str(M)) /\ hash \in [0..n - 1 -> Seq(Str(M))]
  BY DEF Chains
<1>2. x = [hash EXCEPT ![p] = <<s>> \o hash[p]]
  BY ChainsSize DEF InFront, Home
<1> HIDE DEF x, p
<1>3. CASE h = p
  <2>1. x[h] = new
    BY <1>1, <1>2, <1>3
  <2>2. Len(hash[h]) \in Nat /\ Len(new) = Len(hash[h]) + 1 /\ new[1] = s
        /\ \A j \in 1..Len(hash[h]) : new[j + 1] = hash[h][j]
    BY <1>1, Prepended
  <2> HIDE DEF new
  <2>3. k \in 1..Len(new)
    BY <2>1 DEF x
  <2>4. k = 1 \/ (k - 1 \in 1..Len(hash[h]) /\ new[k] = hash[h][k - 1])
    BY <2>2, <2>3
  <2>5. new[k] = s \/ \E j \in 1..Len(hash[h]) : new[k] = hash[h][j]
    BY <2>2, <2>4
  <2> QED BY <2>1, <2>5 DEF x
<1>4. CASE h # p
  <2>1. x[h] = hash[h]
    BY <1>1, <1>2, <1>4
  <2> QED BY <2>1 DEF x
<1> QED BY <1>3, <1>4

------------------------------------------------------------------------------
(* What the sweep leaves of a chain. *)

DeadUpto(chain, k) == {chain[j].c : j \in {i \in 1..k : isdead(chain[i])}}
AliveUpto(chain, k) == {chain[j].c : j \in {i \in 1..k : ~isdead(chain[i])}}
White(s) == [s EXCEPT !.marked = strt.white]
Sweeps(chain, f) ==
  f = [k \in 0..Len(chain) |->
         IF k = 0 THEN <<>> ELSE IF isdead(chain[k]) THEN f[k - 1] ELSE Append(f[k - 1], White(chain[k]))]

LEMMA Sweeping ==
  ASSUME NEW chain PROVE sweepwholelist(chain) = (CHOOSE f : Sweeps(chain, f))[Len(chain)]
BY Zenon DEF sweepwholelist, Sweeps, White

LEMMA WhiteType ==
  ASSUME NEW M, NEW s \in Str(M) PROVE White(s) \in Str({strt.white}) /\ White(s).c = s.c
BY DEF White, Str

LEMMA SweepsExists ==
  ASSUME NEW M, NEW chain \in Seq(Str(M))
  PROVE  \E f : Sweeps(chain, f)
<1> DEFINE A == Seq(Str({strt.white}))
           l == Len(chain)
           Step(a, k) == IF isdead(chain[k]) THEN a ELSE Append(a, White(chain[k]))
           G == [p \in A \X (1..l) |-> Step(p[1], p[2])]
           I == [k \in 0..l |-> A]
<1>1. l \in Nat /\ \A k \in 1..l : chain[k] \in Str(M)
  BY LenProperties, ElementOfSeq
<1>2. PICK f : Climbs(l, <<>>, G, f)
  BY <1>1, ClimbsExists
<1>3. ASSUME NEW a \in A, NEW k \in 1..l PROVE G[<<a, k>>] = Step(a, k) /\ G[<<a, k>>] \in A
  <2>1. G[<<a, k>>] = Step(a, k)
    OBVIOUS
  <2>2. White(chain[k]) \in Str({strt.white})
    BY <1>1, WhiteType
  <2>3. Append(a, White(chain[k])) \in A
    BY <2>2, AppendProperties
  <2> QED BY <2>1, <2>3
<1>4. <<>> \in A
  OBVIOUS
<1> HIDE DEF G, A, Step
<1>5. f = [k \in 0..l |-> IF k = 0 THEN <<>> ELSE G[<<f[k - 1], k>>]]
  BY <1>2 DEF Climbs
<1>6. f[0] = <<>>
  <2>1. 0 \in 0..l
    BY <1>1
  <2> QED BY <1>5, <2>1
<1>7. ASSUME NEW k \in 0..l - 1 PROVE f[k + 1] = G[<<f[k], k + 1>>]
  <2> DEFINE j == k + 1
  <2>1. j \in 0..l /\ j # 0 /\ j - 1 = k
    BY <1>1
  <2> HIDE DEF j
  <2>2. f[j] = G[<<f[j - 1], j>>]
    BY <1>5, <2>1
  <2> QED BY <2>1, <2>2 DEF j
<1>8. \A k \in 0..l : f[k] \in A
  <2>1. f[0] \in I[0]
    BY <1>1, <1>4, <1>6
  <2>2. ASSUME NEW k \in 0..l - 1, f[k] \in I[k] PROVE f[k + 1] \in I[k + 1]
    <3>1. k \in 0..l /\ k + 1 \in 0..l /\ k + 1 \in 1..l
      BY <1>1
    <3> QED BY <1>3, <1>7, <2>2, <3>1
  <2>3. \A k \in 0..l : I[k] = A
    OBVIOUS
  <2> HIDE DEF I
  <2>4. \A k \in 0..l : f[k] \in I[k]
    BY <1>1, <2>1, <2>2, ClimbsTo
  <2> QED BY <2>3, <2>4
<1>9. ASSUME NEW k \in 0..l
      PROVE  (IF k = 0 THEN <<>> ELSE G[<<f[k - 1], k>>]) = (IF k = 0 THEN <<>> ELSE Step(f[k - 1], k))
  BY <1>1, <1>3, <1>8
<1>10. f = [k \in 0..l |-> IF k = 0 THEN <<>> ELSE Step(f[k - 1], k)]
  BY <1>5, <1>9
<1> QED BY <1>10, Zenon DEF Sweeps, Step

(* What is left of the first k strings of a chain. *)
Swept(chain, k, u) ==
  /\ u \in Seq(Str({strt.white})) /\ Distinct(u) /\ ContentsOf(u) = AliveUpto(chain, k)
  /\ IsFiniteSet(DeadUpto(chain, k)) /\ Len(u) + Cardinality(DeadUpto(chain, k)) = k

LEMMA SweptMore ==
  ASSUME NEW M, NEW chain \in Seq(Str(M)), Distinct(chain),
         NEW k \in 0..Len(chain) - 1, NEW u, Swept(chain, k, u)
  PROVE  Swept(chain, k + 1, IF isdead(chain[k + 1]) THEN u ELSE Append(u, White(chain[k + 1])))
<1> DEFINE s == chain[k + 1]
           D == DeadUpto(chain, k)
           v == Append(u, White(s))
<1>1. Len(chain) \in Nat /\ k \in Nat /\ k + 1 \in 1..Len(chain) /\ s \in Str(M)
  BY LenProperties, ElementOfSeq
<1>2. /\ \A j \in 1..k + 1 : j \in 1..k \/ j = k + 1
      /\ \A j \in 1..k : j \in 1..k + 1 /\ j \in 1..Len(chain) /\ j # k + 1
      /\ k + 1 \in 1..k + 1
  BY <1>1
<1>3. \A j \in 1..k : chain[j].c # s.c
  BY <1>1, <1>2 DEF Distinct
<1>4. s.c \notin D /\ s.c \notin AliveUpto(chain, k)
  BY <1>3 DEF DeadUpto, AliveUpto
<1>5. CASE isdead(s)
  <2>1. DeadUpto(chain, k + 1) = D \cup {s.c} /\ AliveUpto(chain, k + 1) = AliveUpto(chain, k)
    BY <1>2, <1>5 DEF DeadUpto, AliveUpto
  <2>2. IsFiniteSet(D \cup {s.c}) /\ Cardinality(D \cup {s.c}) = Cardinality(D) + 1 /\ Cardinality(D) \in Nat
    BY <1>4, FS_AddElement, FS_CardinalityType DEF Swept
  <2>3. u \in Seq(Str({strt.white})) /\ Len(u) + Cardinality(D) = k /\ Len(u) \in Nat
    BY LenProperties DEF Swept
  <2> HIDE DEF D
  <2>4. Len(u) + (Cardinality(D) + 1) = k + 1
    BY <1>1, <2>2, <2>3
  <2> QED BY <1>5, <2>1, <2>2, <2>4 DEF Swept
<1>6. CASE ~isdead(s)
  <2>1. DeadUpto(chain, k + 1) = D /\ AliveUpto(chain, k + 1) = AliveUpto(chain, k) \cup {s.c}
    BY <1>2, <1>6 DEF DeadUpto, AliveUpto
  <2>2. White(s) \in Str({strt.white}) /\ White(s).c = s.c
    BY <1>1, WhiteType
  <2>3. u \in Seq(Str({strt.white})) /\ Len(u) \in Nat /\ Cardinality(D) \in Nat /\ Len(u) + Cardinality(D) = k
    BY LenProperties, FS_CardinalityType DEF Swept
  <2>4. /\ v \in Seq(Str({strt.white})) /\ Len(v) = Len(u) + 1 /\ v[Len(u) + 1] = White(s)
        /\ \A j \in 1..Len(u) : v[j] = u[j]
    BY <2>2, <2>3, AppendProperties
  <2> HIDE DEF v, D, s
  <2>5. Len(v) + Cardinality(D) = k + 1
    BY <1>1, <2>3, <2>4
  <2>6. \A j \in 1..Len(v) : (j \in 1..Len(u) /\ v[j] = u[j]) \/ (j = Len(u) + 1 /\ v[j] = White(s))
    BY <2>3, <2>4
  <2>7. \A j \in 1..Len(u) : j \in 1..Len(v)
    BY <2>3, <2>4
  <2>8. Len(u) + 1 \in 1..Len(v)
    BY <2>3, <2>4
  <2>9. \A j \in 1..Len(u) : u[j].c # s.c
    BY <1>4 DEF Swept, ContentsOf
  <2>10. Distinct(v)
    <3>1. Distinct(u)
      BY DEF Swept
    <3>2. ASSUME NEW a \in 1..Len(v), NEW b \in 1..Len(v), v[a].c = v[b].c PROVE a = b
      <4>1. CASE a \in 1..Len(u) /\ b \in 1..Len(u)
        BY <2>4, <3>1, <3>2, <4>1 DEF Distinct
      <4>2. CASE a \notin 1..Len(u) \/ b \notin 1..Len(u)
        BY <2>2, <2>4, <2>6, <2>9, <3>2, <4>2
      <4> QED BY <4>1, <4>2
    <3> QED BY <3>2 DEF Distinct
  <2>11. ContentsOf(v) = ContentsOf(u) \cup {s.c}
    BY <2>2, <2>4, <2>6, <2>7, <2>8 DEF ContentsOf
  <2> QED BY <1>6, <2>1, <2>4, <2>5, <2>10, <2>11 DEF Swept, v, s, D
<1> QED BY <1>5, <1>6

LEMMA SweptChain ==
  ASSUME NEW M, NEW chain \in Seq(Str(M)), Distinct(chain)
  PROVE  Swept(chain, Len(chain), sweepwholelist(chain))
<1> DEFINE l == Len(chain)
           A == Seq(Str({strt.white}))
           I == [k \in 0..l |-> {u \in A : Swept(chain, k, u)}]
           f == CHOOSE f : Sweeps(chain, f)
<1>1. l \in Nat
  BY LenProperties
<1>2. Sweeps(chain, f)
  BY SweepsExists, Zenon
<1>3. sweepwholelist(chain) = f[l]
  BY Sweeping, Zenon
<1> HIDE DEF f
<1>4. f[0] = <<>>
  <2>1. 0 \in 0..l
    BY <1>1
  <2> QED BY <1>2, <2>1 DEF Sweeps
<1>5. ASSUME NEW k \in 0..l - 1
      PROVE  f[k + 1] = IF isdead(chain[k + 1]) THEN f[k] ELSE Append(f[k], White(chain[k + 1]))
  <2> DEFINE j == k + 1
  <2>1. j \in 0..l /\ j # 0 /\ j - 1 = k
    BY <1>1
  <2> HIDE DEF j
  <2>2. f[j] = IF isdead(chain[j]) THEN f[j - 1] ELSE Append(f[j - 1], White(chain[j]))
    BY <1>2, <2>1 DEF Sweeps
  <2> QED BY <2>1, <2>2 DEF j
<1>6. Swept(chain, 0, f[0])
  <2>1. DeadUpto(chain, 0) = {} /\ AliveUpto(chain, 0) = {}
    BY DEF DeadUpto, AliveUpto
  <2>2. <<>> \in A /\ Len(<<>>) = 0 /\ 1..0 = {}
    OBVIOUS
  <2>3. ContentsOf(<<>>) = {} /\ Distinct(<<>>)
    BY <2>2 DEF ContentsOf, Distinct
  <2>4. IsFiniteSet({}) /\ Cardinality({}) = 0
    BY FS_EmptySet
  <2>5. IsFiniteSet(DeadUpto(chain, 0)) /\ Len(<<>>) + Cardinality(DeadUpto(chain, 0)) = 0
    <3>1. IsFiniteSet(DeadUpto(chain, 0)) /\ Cardinality(DeadUpto(chain, 0)) = 0
      BY <2>1, <2>4, Zenon
    <3>2. 0 + 0 = 0
      OBVIOUS
    <3> QED BY <2>2, <3>1, <3>2, Zenon
  <2>6. ContentsOf(<<>>) = AliveUpto(chain, 0)
    BY <2>1, <2>3
  <2> QED BY <1>4, <2>2, <2>3, <2>5, <2>6, Zenon DEF Swept
<1>7. f[0] \in I[0]
  BY <1>1, <1>6 DEF Swept
<1>8. ASSUME NEW k \in 0..l - 1, f[k] \in I[k] PROVE f[k + 1] \in I[k + 1]
  <2>1. k \in 0..l /\ k + 1 \in 0..l
    BY <1>1
  <2>2. Swept(chain, k, f[k])
    BY <1>8, <2>1
  <2>3. Swept(chain, k + 1, f[k + 1])
    BY <1>5, <2>2, SweptMore
  <2> QED BY <2>1, <2>3 DEF Swept
<1>9. l \in 0..l
  BY <1>1
<1>10. f[l] \in I[l] => Swept(chain, l, f[l])
  BY <1>9
<1> HIDE DEF I, l
<1>11. f[l] \in I[l]
  BY <1>1, <1>7, <1>8, <1>9, ClimbsTo
<1> QED BY <1>3, <1>10, <1>11 DEF l

------------------------------------------------------------------------------
(* The invariant. *)

Phases == {"pause", "propagate", "sweepstring", "sweep"}
Vectors == UNION {[0..n - 1 -> Seq(Str(0..2))] : n \in Nat}
States == [hash : Vectors, nuse : Nat, held : SUBSET Contents, white : Whites, phase : Phases,
           sweepstrgc : Nat]

(* The marks that there may be outside the sweep. *)
MarksOf(st) == IF st.phase \in {"pause", "sweep"} THEN {st.white}
               ELSE IF st.phase = "propagate" THEN {st.white, Gray} ELSE 0..2

(* The sweep has made white what is behind it, and nothing that is held is dead. *)
InSweep(st, n) ==
  /\ st.sweepstrgc < n
  /\ \A h \in 0..n - 1 : \A k \in 1..Len(st.hash[h]) :
       LET s == st.hash[h][k] IN
       (h < st.sweepstrgc => s.marked = st.white) /\ (s.c \in st.held => s.marked # 1 - st.white)

Table(st, n, C) ==
  /\ st \in States
  /\ Chains(st.hash, n, C, MarksOf(st))
  /\ IsFiniteSet(C) /\ st.nuse = Cardinality(C) /\ st.held \subseteq C
  /\ st.phase = "sweepstring" => InSweep(st, n)

StrtInv == \E n, C : Table(strt, n, C)

LEMMA StrtInitial == strt \in StrtStates => StrtInv
<1> SUFFICES ASSUME strt \in StrtStates PROVE Table(strt, MINSTRTABSIZE, {})
  BY DEF StrtInv
<1> DEFINE n == MINSTRTABSIZE
           e == [h \in 0..n - 1 |-> <<>>]
<1>1. n \in Nat \ {0}
  BY StringsAssumption
<1>2. strt = [hash |-> e, nuse |-> 0, held |-> {}, white |-> 0, phase |-> "pause", sweepstrgc |-> 0]
  BY DEF StrtStates
<1> HIDE DEF e
<1>3. Chains(e, n, {}, {0}) /\ Chains(e, n, {}, 0..2)
  BY <1>1, EmptyVector DEF e
<1>4. e \in Vectors
  BY <1>1, <1>3 DEF Vectors, Chains
<1>5. strt \in States
  BY <1>2, <1>4 DEF States, Whites, Phases
<1>6. MarksOf(strt) = {0}
  BY <1>2 DEF MarksOf
<1>7. IsFiniteSet({}) /\ Cardinality({}) = 0
  BY FS_EmptySet
<1> QED BY <1>2, <1>3, <1>5, <1>6, <1>7 DEF Table

LEMMA MarksType == ASSUME NEW st \in States PROVE MarksOf(st) \subseteq 0..2 /\ st.white \in MarksOf(st) /\ st.white \in 0..1
BY DEF MarksOf, States, Whites, Gray

LEMMA VectorType == ASSUME NEW hash, NEW n, NEW C, NEW M, M \subseteq 0..2, Chains(hash, n, C, M) PROVE hash \in Vectors
<1>1. \A h \in 0..n - 1 : \A k \in 1..Len(hash[h]) : hash[h][k].marked \in 0..2
  <2> TAKE h \in 0..n - 1
  <2> TAKE k \in 1..Len(hash[h])
  <2>1. hash[h] \in Seq(Str(M))
    BY DEF Chains
  <2>2. hash[h][k] \in Str(M)
    BY <2>1, ElementOfSeq, LenProperties
  <2> QED BY <2>2 DEF Str
<1>2. Chains(hash, n, C, 0..2)
  BY <1>1, ChainsMarked
<1> QED BY <1>2 DEF Vectors, Chains

(* The elements of a table. *)
LEMMA Elements ==
  ASSUME NEW hash, NEW n, NEW C, NEW M, Chains(hash, n, C, M), NEW h \in 0..n - 1, NEW k \in 1..Len(hash[h])
  PROVE  /\ hash[h][k] \in Str(M) /\ hash[h][k].marked \in M /\ hash[h][k].c \in C
         /\ Home(hash[h][k].c, n) = h /\ hash[h] \in Seq(Str(M)) /\ Len(hash[h]) \in Nat
<1>1. hash[h] \in Seq(Str(M))
  BY DEF Chains
<1>2. hash[h][k] \in Str(M) /\ Len(hash[h]) \in Nat
  BY <1>1, ElementOfSeq, LenProperties
<1> QED BY <1>1, <1>2 DEF Chains, Str

LEMMA DropStep == ASSUME StrtInv, NEW c \in Contents, DropString(c) PROVE StrtInv'
<1>1. PICK n, C : Table(strt, n, C)
  BY DEF StrtInv
<1>2. strt \in States /\ strt' = [strt EXCEPT !.held = @ \ {c}]
  BY <1>1 DEF DropString, Table
<1>3. /\ strt' \in States /\ strt'.hash = strt.hash /\ strt'.nuse = strt.nuse /\ strt'.held = strt.held \ {c}
      /\ strt'.white = strt.white /\ strt'.phase = strt.phase /\ strt'.sweepstrgc = strt.sweepstrgc
  BY <1>2 DEF States
<1>4. Table(strt', n, C)
  BY <1>1, <1>3 DEF Table, MarksOf, InSweep
<1> QED BY <1>4 DEF StrtInv

LEMMA StartStep == ASSUME StrtInv, StartCycle PROVE StrtInv'
<1>1. PICK n, C : Table(strt, n, C)
  BY DEF StrtInv
<1>2. strt \in States /\ strt' = [strt EXCEPT !.phase = "propagate"] /\ strt.phase = "pause"
  BY <1>1 DEF StartCycle, Table
<1>3. /\ strt' \in States /\ strt'.hash = strt.hash /\ strt'.nuse = strt.nuse /\ strt'.held = strt.held
      /\ strt'.white = strt.white /\ strt'.phase = "propagate"
  BY <1>2 DEF States, Phases
<1>4. MarksOf(strt) = {strt.white} /\ MarksOf(strt') = {strt.white, Gray}
  BY <1>2, <1>3 DEF MarksOf
<1>5. Chains(strt.hash, n, C, MarksOf(strt'))
  <2>1. Chains(strt.hash, n, C, {strt.white})
    BY <1>1, <1>4 DEF Table
  <2>2. \A h \in 0..n - 1 : \A k \in 1..Len(strt.hash[h]) : strt.hash[h][k].marked \in {strt.white, Gray}
    BY <2>1, Elements
  <2> QED BY <1>4, <2>1, <2>2, ChainsMarked
<1>6. Table(strt', n, C)
  BY <1>1, <1>3, <1>5 DEF Table
<1> QED BY <1>6 DEF StrtInv

LEMMA FullStep == ASSUME StrtInv, FullSweep PROVE StrtInv'
<1>1. PICK n, C : Table(strt, n, C)
  BY DEF StrtInv
<1>2. strt \in States /\ strt' = [strt EXCEPT !.phase = "sweepstring", !.sweepstrgc = 0] /\ strt.phase \in {"pause", "propagate"}
  BY <1>1 DEF FullSweep, Table
<1>3. /\ strt' \in States /\ strt'.hash = strt.hash /\ strt'.nuse = strt.nuse /\ strt'.held = strt.held
      /\ strt'.white = strt.white /\ strt'.phase = "sweepstring" /\ strt'.sweepstrgc = 0
  BY <1>2 DEF States, Phases
<1>4. MarksOf(strt) \subseteq {strt.white, Gray} /\ MarksOf(strt') = 0..2 /\ strt.white \in {0, 1}
  BY <1>2, <1>3 DEF MarksOf, States, Whites
<1>5. ASSUME NEW h \in 0..n - 1, NEW k \in 1..Len(strt.hash[h])
      PROVE  strt.hash[h][k].marked \in 0..2 /\ strt.hash[h][k].marked # 1 - strt.white /\ ~(h < 0)
  <2>1. strt.hash[h][k].marked \in {strt.white, Gray}
    BY <1>1, <1>4, Elements DEF Table
  <2> QED BY <1>4, <2>1 DEF Gray
<1>6. Chains(strt.hash, n, C, 0..2)
  BY <1>1, <1>5, ChainsMarked DEF Table
<1>7. n \in Nat \ {0}
  BY <1>6 DEF Chains
<1>8. InSweep(strt', n)
  BY <1>3, <1>5, <1>7 DEF InSweep
<1>9. Table(strt', n, C)
  BY <1>1, <1>3, <1>4, <1>6, <1>8 DEF Table
<1> QED BY <1>9 DEF StrtInv

------------------------------------------------------------------------------
(* Strings are found and made. *)

LEMMA ChainHome ==
  ASSUME NEW st, NEW n, NEW C, Table(st, n, C), NEW c
  PROVE  Size(st) = n /\ DOMAIN st.hash = 0..n - 1 /\ Chain(st, c) = Home(c, n) /\ n \in Nat \ {0}
<1>1. DOMAIN st.hash = 0..n - 1 /\ Cardinality(DOMAIN st.hash) = n
  BY ChainsSize DEF Table
<1>2. n \in Nat \ {0}
  BY DEF Table, Chains
<1> QED BY <1>1, <1>2 DEF Size, Chain, Home

LEMMA NotThere ==
  ASSUME NEW n, NEW C, Table(strt, n, C), NEW c, Places(c) = {}
  PROVE  c \notin C
<1>1. Chain(strt, c) = Home(c, n)
  BY ChainHome
<1> SUFFICES ASSUME c \in C PROVE FALSE
  OBVIOUS
<1>2. PICK k \in 1..Len(strt.hash[Home(c, n)]) : strt.hash[Home(c, n)][k].c = c
  BY DEF Table, Chains
<1>3. Home(c, n) \in 0..n - 1
  BY HomeType DEF Table, Chains
<1>4. strt.hash[Home(c, n)] \in Seq(Str(MarksOf(strt)))
  BY <1>3 DEF Table, Chains
<1>5. k \in DOMAIN strt.hash[Home(c, n)]
  BY <1>2, <1>4
<1> QED BY <1>1, <1>2, <1>5 DEF Places

(* One that comes to be held is there, and not dead in the sweep. *)
LEMMA HeldMore ==
  ASSUME NEW st, NEW n, NEW C, Table(st, n, C), NEW c \in C,
         st.phase = "sweepstring" =>
           \A h \in 0..n - 1 : \A k \in 1..Len(st.hash[h]) :
             st.hash[h][k].c = c => st.hash[h][k].marked # 1 - st.white
  PROVE  Table([st EXCEPT !.held = @ \cup {c}], n, C)
<1> DEFINE t == [st EXCEPT !.held = @ \cup {c}]
<1>1. st \in States /\ C \subseteq Contents
  BY DEF Table, Chains
<1>2. /\ t \in States /\ t.hash = st.hash /\ t.nuse = st.nuse /\ t.held = st.held \cup {c}
      /\ t.white = st.white /\ t.phase = st.phase /\ t.sweepstrgc = st.sweepstrgc
  BY <1>1 DEF States
<1> HIDE DEF t
<1>3. st.phase = "sweepstring" => InSweep(t, n)
  BY <1>2 DEF Table, InSweep
<1>4. MarksOf(t) = MarksOf(st)
  BY <1>2 DEF MarksOf
<1>5. Table(t, n, C)
  BY <1>2, <1>3, <1>4 DEF Table
<1> QED BY <1>5 DEF t

LEMMA LinkedKeeps ==
  ASSUME NEW n, NEW C, Table(strt, n, C), NEW c \in Contents, c \notin C
  PROVE  /\ Table(Linked(c), n, C \cup {c})
         /\ Linked(c).phase = strt.phase /\ Linked(c).white = strt.white
         /\ \A h \in 0..n - 1 : \A k \in 1..Len(Linked(c).hash[h]) :
              Linked(c).hash[h][k].c = c => Linked(c).hash[h][k].marked = strt.white
<1> DEFINE s == [c |-> c, marked |-> strt.white]
           x == InFront(strt.hash, s)
           t == Linked(c)
           M == MarksOf(strt)
<1>1. strt \in States /\ Chains(strt.hash, n, C, M) /\ M \subseteq 0..2 /\ strt.white \in M /\ strt.white \in 0..1
  BY MarksType DEF Table
<1>2. s \in Str(M) /\ s.c = c /\ s.marked = strt.white
  BY <1>1 DEF Str
<1> DEFINE m == strt.nuse + 1
<1>3. t = [strt EXCEPT !.hash = x, !.nuse = m] /\ m \in Nat
  BY <1>1 DEF Linked, States
<1> HIDE DEF s, M, m
<1>4. Chains(x, n, C \cup {c}, M)
  BY <1>1, <1>2, InFrontKeeps
<1>5. ASSUME NEW h \in 0..n - 1, NEW k \in 1..Len(x[h])
      PROVE  x[h][k] = s \/ \E j \in 1..Len(strt.hash[h]) : x[h][k] = strt.hash[h][j]
  BY <1>1, <1>2, InFrontElements
<1> HIDE DEF x, t
<1>6. x \in Vectors
  BY <1>1, <1>4, VectorType
<1>7. /\ t \in States /\ t.hash = x /\ t.nuse = m /\ t.held = strt.held
      /\ t.white = strt.white /\ t.phase = strt.phase /\ t.sweepstrgc = strt.sweepstrgc
  BY <1>1, <1>3, <1>6 DEF States
<1>8. MarksOf(t) = M
  BY <1>7 DEF MarksOf, M
<1>9. IsFiniteSet(C \cup {c}) /\ Cardinality(C \cup {c}) = m
  BY FS_AddElement DEF Table, m
<1>10. t.held \subseteq C \cup {c}
  BY <1>7 DEF Table
<1>11. strt.phase = "sweepstring" => InSweep(t, n)
  <2> SUFFICES ASSUME InSweep(strt, n) PROVE InSweep(t, n)
    BY DEF Table
  <2>1. strt.white # 1 - strt.white
    BY <1>1
  <2>2. ASSUME NEW h \in 0..n - 1, NEW k \in 1..Len(x[h])
        PROVE  /\ h < strt.sweepstrgc => x[h][k].marked = strt.white
               /\ x[h][k].c \in strt.held => x[h][k].marked # 1 - strt.white
    BY <1>2, <1>5, <2>1, <2>2 DEF InSweep
  <2> QED BY <1>7, <2>2 DEF InSweep
<1>12. Table(t, n, C \cup {c})
  BY <1>4, <1>7, <1>8, <1>9, <1>10, <1>11 DEF Table
<1>13. ASSUME NEW h \in 0..n - 1, NEW k \in 1..Len(x[h]), x[h][k].c = c PROVE x[h][k].marked = strt.white
  <2>1. CASE x[h][k] = s
    BY <1>2, <2>1
  <2>2. CASE \E j \in 1..Len(strt.hash[h]) : x[h][k] = strt.hash[h][j]
    <3>1. \A j \in 1..Len(strt.hash[h]) : strt.hash[h][j].c \in C
      BY <1>1, Elements
    <3> QED BY <1>13, <2>2, <3>1
  <2> QED BY <1>5, <2>1, <2>2
<1>14. \A h \in 0..n - 1 : \A k \in 1..Len(t.hash[h]) : t.hash[h][k].c = c => t.hash[h][k].marked = strt.white
  BY <1>7, <1>13
<1> QED BY <1>7, <1>12, <1>14, Zenon DEF t

LEMMA ResizedKeeps ==
  ASSUME NEW st, NEW n, NEW C, Table(st, n, C), NEW m \in Nat \ {0}
  PROVE  /\ \E k : Table(luaS_resize(st, m), k, C)
         /\ st.phase = "sweepstring" => luaS_resize(st, m) = st
         /\ luaS_resize(st, m).phase = st.phase
<1>1. CASE st.phase = "sweepstring"
  BY <1>1 DEF luaS_resize
<1>2. CASE st.phase # "sweepstring"
  <2> DEFINE x == Rehashed(st.hash, m)
             t == luaS_resize(st, m)
             M == MarksOf(st)
  <2>1. t = [st EXCEPT !.hash = x] /\ st \in States /\ M \subseteq 0..2
    BY <1>2, MarksType DEF luaS_resize, Table
  <2>2. Chains(x, m, C, M)
    BY RehashedKeeps DEF Table
  <2> HIDE DEF x, t
  <2>3. x \in Vectors
    BY <2>1, <2>2, VectorType
  <2>4. /\ t \in States /\ t.hash = x /\ t.nuse = st.nuse /\ t.held = st.held
        /\ t.white = st.white /\ t.phase = st.phase
    BY <2>1, <2>3 DEF States
  <2>5. MarksOf(t) = M
    BY <2>4 DEF MarksOf
  <2>6. Table(t, m, C)
    BY <1>2, <2>2, <2>4, <2>5 DEF Table
  <2> QED BY <1>2, <2>4, <2>6 DEF t
<1> QED BY <1>1, <1>2

LEMMA ResizeFailsStep == ASSUME StrtInv, NEW c \in Contents, ResizeFails(c) PROVE StrtInv'
<1>1. PICK n, C : Table(strt, n, C)
  BY DEF StrtInv
<1>2. Table(strt', n, C \cup {c})
  BY <1>1, NotThere, LinkedKeeps DEF ResizeFails
<1> QED BY <1>2 DEF StrtInv

LEMMA FoundStep ==
  ASSUME StrtInv, NEW c \in Contents, Places(c) # {}, luaS_newlstr(c) PROVE StrtInv'
<1>1. PICK n, C : Table(strt, n, C)
  BY DEF StrtInv
<1> DEFINE p == Chain(strt, c)
           l == Least(Places(c))
           M == MarksOf(strt)
           old == strt.hash[p]
           x == [strt.hash EXCEPT ![p] = [old EXCEPT ![l] = Reused(old[l])]]
           t == [strt EXCEPT !.hash = x]
<1>2. strt \in States /\ Chains(strt.hash, n, C, M) /\ M \subseteq 0..2 /\ strt.white \in M /\ strt.white \in 0..1
  BY <1>1, MarksType DEF Table
<1>3. p = Home(c, n) /\ p \in 0..n - 1 /\ n \in Nat \ {0}
  BY <1>1, <1>2, ChainHome, HomeType
<1>4. old \in Seq(Str(M)) /\ Len(old) \in Nat /\ DOMAIN old = 1..Len(old) /\ strt.hash \in [0..n - 1 -> Seq(Str(M))]
  BY <1>2, <1>3, LenProperties DEF Chains
<1>5. l \in 1..Len(old) /\ old[l].c = c
  <2>1. Places(c) = {k \in 1..Len(old) : old[k].c = c}
    BY <1>4 DEF Places
  <2>2. Places(c) \subseteq Nat
    BY <1>4, <2>1
  <2>3. \E k \in Places(c) : \A j \in Places(c) : k <= j
    BY <2>2, LeastNatural
  <2>4. l \in Places(c)
    BY <2>3, Zenon DEF Least
  <2> QED BY <2>1, <2>4
<1>6. strt' = [t EXCEPT !.held = @ \cup {c}]
  BY DEF luaS_newlstr
<1> HIDE DEF p, l, M
<1>7. old[l] \in Str(M) /\ Reused(old[l]) \in Str(M) /\ Reused(old[l]).c = c /\ Reused(old[l]).marked # 1 - strt.white
  <2>1. old[l] \in Str(M)
    BY <1>4, <1>5, ElementOfSeq
  <2>2. 1 - strt.white # strt.white
    BY <1>2
  <2> QED BY <1>2, <1>5, <2>1, <2>2 DEF Reused, isdead, otherwhite, Str
<1>8. [old EXCEPT ![l] = Reused(old[l])] \in Seq(Str(M))
  BY <1>4, <1>5, <1>7, ExceptSeq
<1>9. x \in [0..n - 1 -> Seq(Str(M))] /\ x[p] = [old EXCEPT ![l] = Reused(old[l])]
      /\ \A h \in 0..n - 1 : h # p => x[h] = strt.hash[h]
  BY <1>3, <1>4, <1>8
<1>10. ASSUME NEW h \in 0..n - 1
       PROVE  /\ Len(x[h]) = Len(strt.hash[h])
              /\ \A k \in 1..Len(strt.hash[h]) :
                   /\ x[h][k].c = strt.hash[h][k].c
                   /\ x[h][k] = strt.hash[h][k] \/ (h = p /\ k = l /\ x[h][k] = Reused(old[l]))
  <2>1. CASE h = p
    <3>1. Len(x[p]) = Len(old)
      BY <1>4, <1>5, <1>7, <1>9, ExceptSeq
    <3>2. \A k \in 1..Len(old) : x[p][k] = IF k = l THEN Reused(old[l]) ELSE old[k]
      BY <1>4, <1>5, <1>9
    <3> QED BY <1>5, <1>7, <2>1, <3>1, <3>2
  <2>2. CASE h # p
    BY <1>9, <2>2
  <2> QED BY <2>1, <2>2
<1> HIDE DEF x, old
<1>11. Chains(x, n, C, M)
  <2>1. x \in [0..n - 1 -> Seq(Str(M))]
    BY <1>9
  <2>2. \A h \in 0..n - 1 : /\ Len(x[h]) = Len(strt.hash[h])
                            /\ \A k \in 1..Len(strt.hash[h]) : x[h][k].c = strt.hash[h][k].c
    BY <1>10
  <2> QED BY <1>2, <2>1, <2>2, Remarked
<1>12. x \in Vectors
  BY <1>2, <1>11, VectorType
<1>13. /\ t \in States /\ t.hash = x /\ t.nuse = strt.nuse /\ t.held = strt.held
       /\ t.white = strt.white /\ t.phase = strt.phase /\ t.sweepstrgc = strt.sweepstrgc
  BY <1>2, <1>12 DEF States
<1> HIDE DEF t
<1>14. MarksOf(t) = M
  BY <1>13 DEF MarksOf, M
<1>15. ASSUME NEW h \in 0..n - 1, NEW k \in 1..Len(x[h])
       PROVE  /\ x[h][k].c = strt.hash[h][k].c /\ k \in 1..Len(strt.hash[h])
              /\ x[h][k] = strt.hash[h][k] \/ x[h][k] = Reused(strt.hash[h][k])
  BY <1>10 DEF old
<1>16. ASSUME NEW s \in Str(M)
       PROVE  Reused(s).marked = IF s.marked = 1 - strt.white THEN strt.white ELSE s.marked
  BY DEF Reused, isdead, otherwhite, Str
<1>17. strt.phase = "sweepstring" => InSweep(t, n)
  <2> SUFFICES ASSUME InSweep(strt, n) PROVE InSweep(t, n)
    BY <1>1 DEF Table
  <2>1. ASSUME NEW h \in 0..n - 1, NEW k \in 1..Len(x[h])
        PROVE  /\ h < strt.sweepstrgc => x[h][k].marked = strt.white
               /\ x[h][k].c \in strt.held => x[h][k].marked # 1 - strt.white
    <3> DEFINE s == strt.hash[h][k]
    <3>1. k \in 1..Len(strt.hash[h]) /\ x[h][k].c = s.c /\ (x[h][k] = s \/ x[h][k] = Reused(s))
      BY <1>15
    <3>2. s \in Str(M)
      BY <1>2, <3>1, Elements
    <3>3. (h < strt.sweepstrgc => s.marked = strt.white) /\ (s.c \in strt.held => s.marked # 1 - strt.white)
      BY <3>1 DEF InSweep
    <3>4. strt.white # 1 - strt.white
      BY <1>2
    <3> HIDE DEF s
    <3> QED BY <1>16, <3>1, <3>2, <3>3, <3>4
  <2> QED BY <1>13, <2>1 DEF InSweep
<1>18. Table(t, n, C)
  BY <1>1, <1>11, <1>13, <1>14, <1>17 DEF Table
<1>19. ASSUME NEW h \in 0..n - 1, NEW k \in 1..Len(x[h]), x[h][k].c = c PROVE x[h][k].marked # 1 - strt.white
  <2>1. h = p
    BY <1>3, <1>11, <1>19, Elements
  <2>2. l \in 1..Len(x[p]) /\ x[p][l].c = c /\ x[p][l].marked # 1 - strt.white
    BY <1>3, <1>4, <1>5, <1>7, <1>9, <1>10 DEF old
  <2>3. k = l
    BY <1>3, <1>11, <1>19, <2>1, <2>2 DEF Chains, Distinct
  <2> QED BY <2>1, <2>2, <2>3
<1>20. c \in C
  BY <1>2, <1>3, <1>5, Elements DEF old
<1>21. Table([t EXCEPT !.held = @ \cup {c}], n, C)
  BY <1>13, <1>18, <1>19, <1>20, HeldMore
<1> QED BY <1>6, <1>21 DEF StrtInv

LEMMA MadeStep ==
  ASSUME StrtInv, NEW c \in Contents, Places(c) = {}, luaS_newlstr(c) PROVE StrtInv'
<1>1. PICK n, C : Table(strt, n, C)
  BY DEF StrtInv
<1> DEFINE t == Linked(c)
           D == C \cup {c}
<1>2. /\ Table(t, n, D) /\ t.phase = strt.phase /\ t.white = strt.white
      /\ \A h \in 0..n - 1 : \A k \in 1..Len(t.hash[h]) : t.hash[h][k].c = c => t.hash[h][k].marked = strt.white
      /\ n \in Nat \ {0} /\ strt.white \in 0..1
  <2>1. c \notin C /\ n \in Nat \ {0}
    BY <1>1, NotThere, ChainHome
  <2>2. strt \in States
    BY <1>1 DEF Table
  <2>3. strt.white \in 0..1
    BY <2>2, MarksType
  <2> QED BY <1>1, <2>1, <2>3, LinkedKeeps
<1>3. Size(strt) = n
  BY <1>1, ChainHome
<1> DEFINE st == IF Crowded(t) THEN luaS_resize(t, 2 * n) ELSE t
<1>4. strt' = [st EXCEPT !.held = @ \cup {c}]
  BY <1>3 DEF luaS_newlstr, newlstr
<1>5. c \in D
  OBVIOUS
<1> HIDE DEF t, D
<1>6. CASE Crowded(t) /\ t.phase # "sweepstring"
  <2>1. 2 * n \in Nat \ {0}
    BY <1>2
  <2> DEFINE m == 2 * n
  <2> HIDE DEF m
  <2>2. PICK k : Table(luaS_resize(t, m), k, D)
    BY <1>2, <2>1, ResizedKeeps DEF m
  <2>3. luaS_resize(t, m).phase # "sweepstring"
    BY <1>2, <1>6, <2>1, ResizedKeeps DEF m
  <2>4. Table([luaS_resize(t, m) EXCEPT !.held = @ \cup {c}], k, D)
    BY <1>5, <2>2, <2>3, HeldMore
  <2> QED BY <1>4, <1>6, <2>4 DEF StrtInv, m
<1>7. CASE ~(Crowded(t) /\ t.phase # "sweepstring")
  <2>1. st = t
    BY <1>7 DEF luaS_resize
  <2>2. strt.white # 1 - strt.white
    BY <1>2
  <2>3. Table([t EXCEPT !.held = @ \cup {c}], n, D)
    BY <1>2, <1>5, <2>2, HeldMore
  <2> QED BY <1>4, <2>1, <2>3 DEF StrtInv
<1> QED BY <1>6, <1>7

------------------------------------------------------------------------------
(* Strings are marked. *)

MarkedIn(x, cs, n) ==
  \A h \in 0..n - 1 : \A k \in 1..Len(x[h]) :
    /\ k \in 1..Len(strt.hash[h]) /\ x[h][k].c = strt.hash[h][k].c
    /\ x[h][k].marked = IF strt.hash[h][k].c \in cs THEN Gray ELSE strt.hash[h][k].marked

LEMMA WithMarksKeeps ==
  ASSUME NEW n, NEW C, Table(strt, n, C), NEW cs, NEW N, MarksOf(strt) \subseteq N, Gray \in N
  PROVE  Chains(WithMarks(cs), n, C, N) /\ MarkedIn(WithMarks(cs), cs, n)
<1> DEFINE x == WithMarks(cs)
           M == MarksOf(strt)
           Marked(s) == IF s.c \in cs THEN [s EXCEPT !.marked = Gray] ELSE s
<1>1. Chains(strt.hash, n, C, M) /\ DOMAIN strt.hash = 0..n - 1
  BY ChainsSize DEF Table
<1>2. x = [h \in 0..n - 1 |-> [k \in DOMAIN strt.hash[h] |-> Marked(strt.hash[h][k])]]
  BY <1>1 DEF WithMarks
<1>3. ASSUME NEW s \in Str(M)
      PROVE  Marked(s) \in Str(N) /\ Marked(s).c = s.c /\ Marked(s).marked = IF s.c \in cs THEN Gray ELSE s.marked
  BY DEF Str
<1> HIDE DEF x, M, Marked
<1>4. ASSUME NEW h \in 0..n - 1
      PROVE  /\ x[h] \in Seq(Str(N)) /\ Len(x[h]) = Len(strt.hash[h])
             /\ \A k \in 1..Len(strt.hash[h]) : x[h][k] = Marked(strt.hash[h][k]) /\ strt.hash[h][k] \in Str(M)
  <2> DEFINE o == strt.hash[h]
  <2>1. o \in Seq(Str(M)) /\ Len(o) \in Nat /\ DOMAIN o = 1..Len(o)
    BY <1>1, LenProperties DEF Chains
  <2>2. \A k \in 1..Len(o) : o[k] \in Str(M)
    BY <2>1, ElementOfSeq
  <2>3. x[h] = [k \in 1..Len(o) |-> Marked(o[k])]
    BY <1>2, <2>1
  <2> HIDE DEF o
  <2>4. x[h] \in [1..Len(o) -> Str(N)]
    BY <1>3, <2>2, <2>3
  <2>5. x[h] \in Seq(Str(N)) /\ Len(x[h]) = Len(o)
    BY <2>1, <2>4, SeqDef
  <2> QED BY <2>2, <2>3, <2>5 DEF o
<1>5. x \in [0..n - 1 -> Seq(Str(N))]
  BY <1>2, <1>4
<1>6. Chains(x, n, C, N)
  <2>1. \A h \in 0..n - 1 : /\ Len(x[h]) = Len(strt.hash[h])
                            /\ \A k \in 1..Len(strt.hash[h]) : x[h][k].c = strt.hash[h][k].c
    BY <1>3, <1>4
  <2> QED BY <1>1, <1>5, <2>1, Remarked
<1>7. ASSUME NEW h \in 0..n - 1, NEW k \in 1..Len(x[h])
      PROVE  /\ k \in 1..Len(strt.hash[h]) /\ x[h][k].c = strt.hash[h][k].c
             /\ x[h][k].marked = IF strt.hash[h][k].c \in cs THEN Gray ELSE strt.hash[h][k].marked
  <2>1. k \in 1..Len(strt.hash[h])
    BY <1>4
  <2>2. x[h][k] = Marked(strt.hash[h][k]) /\ strt.hash[h][k] \in Str(M)
    BY <1>4, <2>1
  <2> QED BY <1>3, <2>1, <2>2
<1>8. MarkedIn(x, cs, n)
  BY <1>7 DEF MarkedIn
<1> QED BY <1>6, <1>8 DEF x

LEMMA MarkStep == ASSUME StrtInv, NEW c \in Contents, MarkString(c) PROVE StrtInv'
<1>1. PICK n, C : Table(strt, n, C)
  BY DEF StrtInv
<1> DEFINE x == WithMarks({c})
<1>2. strt \in States /\ strt.phase = "propagate" /\ strt' = [strt EXCEPT !.hash = x]
  BY <1>1 DEF MarkString, Table
<1>3. MarksOf(strt) = {strt.white, Gray} /\ MarksOf(strt) \subseteq 0..2 /\ Gray \in MarksOf(strt)
  BY <1>2, MarksType DEF MarksOf
<1>4. Chains(x, n, C, MarksOf(strt))
  BY <1>1, <1>3, WithMarksKeeps
<1> HIDE DEF x
<1>5. x \in Vectors
  BY <1>3, <1>4, VectorType
<1>6. /\ strt' \in States /\ strt'.hash = x /\ strt'.nuse = strt.nuse /\ strt'.held = strt.held
      /\ strt'.white = strt.white /\ strt'.phase = "propagate"
  BY <1>2, <1>5 DEF States
<1>7. MarksOf(strt') = MarksOf(strt)
  BY <1>2, <1>6 DEF MarksOf
<1>8. Table(strt', n, C)
  BY <1>1, <1>4, <1>6, <1>7 DEF Table
<1> QED BY <1>8 DEF StrtInv

LEMMA AtomicStep == ASSUME StrtInv, AtomicStrings PROVE StrtInv'
<1>1. PICK n, C : Table(strt, n, C)
  BY DEF StrtInv
<1> DEFINE x == WithMarks(strt.held)
           w == 1 - strt.white
<1>2. /\ strt \in States /\ strt.phase = "propagate"
      /\ strt' = [strt EXCEPT !.hash = x, !.white = w, !.phase = "sweepstring", !.sweepstrgc = 0]
  BY <1>1 DEF AtomicStrings, Table, otherwhite
<1>3. strt.white \in 0..1 /\ w \in Whites /\ 1 - w = strt.white /\ strt.white # Gray
  BY <1>2 DEF States, Whites, Gray
<1>4. MarksOf(strt) \subseteq 0..2 /\ Gray \in 0..2
  BY <1>2, MarksType DEF Gray
<1>5. Chains(x, n, C, 0..2) /\ MarkedIn(x, strt.held, n)
  <2> DEFINE N == 0..2
  <2>1. MarksOf(strt) \subseteq N /\ Gray \in N
    BY <1>4
  <2> HIDE DEF N
  <2> QED BY <1>1, <2>1, WithMarksKeeps DEF N
<1> HIDE DEF x, w
<1>6. x \in Vectors /\ n \in Nat \ {0}
  <2>1. x \in Vectors
    BY <1>5, VectorType
  <2>2. n \in Nat \ {0}
    BY <1>5 DEF Chains
  <2> QED BY <2>1, <2>2
<1>7. /\ strt' \in States /\ strt'.hash = x /\ strt'.nuse = strt.nuse /\ strt'.held = strt.held
      /\ strt'.white = w /\ strt'.phase = "sweepstring" /\ strt'.sweepstrgc = 0
  BY <1>2, <1>3, <1>6 DEF States, Phases
<1>8. MarksOf(strt') = 0..2
  BY <1>7 DEF MarksOf
<1>9. ASSUME NEW h \in 0..n - 1, NEW k \in 1..Len(x[h])
      PROVE  ~(h < 0) /\ (x[h][k].c \in strt.held => x[h][k].marked # strt.white)
  <2>1. ~(h < 0)
    BY <1>6
  <2> QED BY <1>3, <1>5, <2>1 DEF MarkedIn
<1>10. InSweep(strt', n)
  <2>1. 0 < n
    BY <1>6
  <2> QED BY <1>3, <1>7, <1>9, <2>1 DEF InSweep
<1>11. Table(strt', n, C)
  BY <1>1, <1>5, <1>7, <1>8, <1>10 DEF Table
<1> QED BY <1>11 DEF StrtInv

LEMMA SizesStep == ASSUME StrtInv, CheckSizes PROVE StrtInv'
<1>1. PICK n, C : Table(strt, n, C)
  BY DEF StrtInv
<1> DEFINE small == strt.nuse < Size(strt) \div 4 /\ Size(strt) > MINSTRTABSIZE * 2
           m == n \div 2
           t == IF small THEN luaS_resize(strt, m) ELSE strt
<1>2. Size(strt) = n /\ n \in Nat \ {0}
  BY <1>1, ChainHome
<1>3. strt.phase = "sweep" /\ strt' = [t EXCEPT !.phase = "pause"]
  BY <1>2 DEF CheckSizes
<1>4. small => m \in Nat \ {0}
  <2> SUFFICES ASSUME small PROVE m \in Nat \ {0}
    OBVIOUS
  <2>1. n > MINSTRTABSIZE * 2 /\ MINSTRTABSIZE \in Nat \ {0}
    BY <1>2, StringsAssumption
  <2>2. n >= 2
    BY <1>2, <2>1
  <2> QED BY <1>2, <2>2
<1> HIDE DEF m
<1>5. PICK k : Table(t, k, C) /\ t.phase = "sweep"
  <2>1. CASE small
    <3>1. m \in Nat \ {0}
      BY <1>4, <2>1
    <3> QED BY <1>1, <1>3, <2>1, <3>1, ResizedKeeps
  <2>2. CASE ~small
    BY <1>1, <1>3, <2>2
  <2> QED BY <2>1, <2>2
<1> HIDE DEF t
<1>6. t \in States
  BY <1>5 DEF Table
<1>7. /\ strt' \in States /\ strt'.hash = t.hash /\ strt'.nuse = t.nuse /\ strt'.held = t.held
      /\ strt'.white = t.white /\ strt'.phase = "pause"
  BY <1>3, <1>6 DEF States, Phases
<1>8. MarksOf(strt') = MarksOf(t)
  BY <1>5, <1>7 DEF MarksOf
<1>9. Table(strt', k, C)
  BY <1>5, <1>7, <1>8 DEF Table
<1> QED BY <1>9 DEF StrtInv

------------------------------------------------------------------------------
(* A chain is swept. *)

LEMMA SweepStep == ASSUME StrtInv, SweepChain PROVE StrtInv'
<1>1. PICK n, C : Table(strt, n, C)
  BY DEF StrtInv
<1> DEFINE g == strt.sweepstrgc
           chain == strt.hash[g]
           kept == sweepwholelist(chain)
           D == DeadUpto(chain, Len(chain))
           x == [strt.hash EXCEPT ![g] = kept]
           m == strt.nuse - (Len(chain) - Len(kept))
           ph == IF SweptAll THEN "sweep" ELSE "sweepstring"
<1>2. /\ strt \in States /\ strt.phase = "sweepstring" /\ InSweep(strt, n) /\ MarksOf(strt) = 0..2
      /\ strt' = [strt EXCEPT !.hash = x, !.nuse = m, !.sweepstrgc = g + 1, !.phase = ph]
  BY <1>1 DEF SweepChain, Table, MarksOf
<1>3. /\ Chains(strt.hash, n, C, 0..2) /\ n \in Nat \ {0} /\ g \in 0..n - 1
      /\ strt.white \in 0..1 /\ C \subseteq Contents /\ IsFiniteSet(C) /\ strt.nuse = Cardinality(C)
  BY <1>1, <1>2 DEF Table, Chains, InSweep, States, Whites
<1>4. /\ chain \in Seq(Str(0..2)) /\ Distinct(chain) /\ Len(chain) \in Nat
      /\ strt.hash \in [0..n - 1 -> Seq(Str(0..2))]
  BY <1>3, LenProperties DEF Chains
<1>5. Swept(chain, Len(chain), kept)
  BY <1>4, SweptChain
<1> HIDE DEF kept, x, m, ph
<1>6. /\ kept \in Seq(Str({strt.white})) /\ Distinct(kept) /\ Len(kept) \in Nat
      /\ ContentsOf(kept) = AliveUpto(chain, Len(chain))
      /\ IsFiniteSet(D) /\ Len(kept) + Cardinality(D) = Len(chain) /\ Cardinality(D) \in Nat
  BY <1>5, LenProperties, FS_CardinalityType DEF Swept
<1>7. \A k \in 1..Len(kept) : kept[k] \in Str({strt.white}) /\ kept[k].marked = strt.white
  <2> SUFFICES ASSUME NEW k \in 1..Len(kept) PROVE kept[k] \in Str({strt.white})
    BY DEF Str
  <2> QED BY <1>6, ElementOfSeq
<1>8. x \in [0..n - 1 -> Seq(Str(0..2))] /\ x[g] = kept /\ \A h \in 0..n - 1 : h # g => x[h] = strt.hash[h]
  <2>1. \A k \in 1..Len(kept) : kept[k] \in Str(0..2)
    BY <1>3, <1>7 DEF Str
  <2>2. kept \in Seq(Str(0..2))
    BY <1>6, <2>1, SeqWider
  <2> QED BY <1>3, <1>4, <2>2 DEF x
(* What is dead is in this chain only, what lives stays in it. *)
<1>9. \A k \in 1..Len(chain) : /\ chain[k].c \in C /\ Home(chain[k].c, n) = g
                               /\ chain[k].c \in D \/ chain[k].c \in ContentsOf(kept)
  <2> TAKE k \in 1..Len(chain)
  <2>1. chain[k].c \in C /\ Home(chain[k].c, n) = g
    BY <1>3 DEF Chains
  <2>2. chain[k].c \in D \/ chain[k].c \in AliveUpto(chain, Len(chain))
    BY DEF DeadUpto, AliveUpto
  <2> QED BY <1>6, <2>1, <2>2
<1>10. \A c \in D : c \in C /\ Home(c, n) = g /\ \E k \in 1..Len(chain) : chain[k].c = c /\ isdead(chain[k])
  BY <1>9 DEF DeadUpto
<1>11. \A c \in ContentsOf(kept) : c \in C /\ Home(c, n) = g /\ c \notin D
  <2> TAKE c \in ContentsOf(kept)
  <2>1. PICK k \in 1..Len(chain) : chain[k].c = c /\ ~isdead(chain[k])
    BY <1>6 DEF AliveUpto
  <2>2. ASSUME c \in D PROVE FALSE
    <3>1. PICK j \in 1..Len(chain) : chain[j].c = c /\ isdead(chain[j])
      BY <1>10, <2>2
    <3>2. j = k
      BY <1>4, <2>1, <3>1 DEF Distinct
    <3> QED BY <2>1, <3>1, <3>2
  <2> QED BY <1>9, <2>1, <2>2
<1> HIDE DEF D, chain, g
<1>12. Chains(x, n, C \ D, 0..2)
  <2>1. ASSUME NEW h \in 0..n - 1, NEW k \in 1..Len(x[h]) PROVE x[h][k].c \in C \ D /\ Home(x[h][k].c, n) = h
    <3>1. CASE h = g
      <4>1. x[h][k].c \in ContentsOf(kept)
        BY <1>8, <3>1 DEF ContentsOf
      <4> QED BY <1>11, <3>1, <4>1
    <3>2. CASE h # g
      <4>1. x[h][k].c \in C /\ Home(x[h][k].c, n) = h
        BY <1>3, <1>8, <3>2 DEF Chains
      <4> QED BY <1>10, <3>2, <4>1
    <3> QED BY <3>1, <3>2
  <2>2. ASSUME NEW c \in C \ D PROVE \E k \in 1..Len(x[Home(c, n)]) : x[Home(c, n)][k].c = c
    <3>1. PICK k \in 1..Len(strt.hash[Home(c, n)]) : strt.hash[Home(c, n)][k].c = c
      BY <1>3 DEF Chains
    <3>2. CASE Home(c, n) = g
      <4>1. c \in ContentsOf(kept)
        BY <1>9, <2>2, <3>1, <3>2 DEF chain
      <4> QED BY <1>8, <3>2, <4>1, <1>3 DEF ContentsOf
    <3>3. CASE Home(c, n) # g
      <4>1. Home(c, n) \in 0..n - 1
        BY <1>3, HomeType
      <4> QED BY <1>8, <3>1, <3>3, <4>1
    <3> QED BY <3>2, <3>3
  <2>3. ASSUME NEW h \in 0..n - 1 PROVE Distinct(x[h])
    <3>1. CASE h = g
      BY <1>6, <1>8, <3>1
    <3>2. CASE h # g
      BY <1>3, <1>8, <3>2 DEF Chains
    <3> QED BY <3>1, <3>2
  <2> QED BY <1>3, <1>8, <2>1, <2>2, <2>3 DEF Chains
<1>13. m = Cardinality(C \ D) /\ m \in Nat /\ IsFiniteSet(C \ D)
  <2>1. D \subseteq C
    BY <1>10
  <2>2. IsFiniteSet(C \ D) /\ Cardinality(C \ D) = Cardinality(C) - Cardinality(C \cap D)
    BY <1>3, FS_Difference
  <2>3. C \cap D = D
    BY <2>1
  <2>4. Cardinality(C \ D) \in Nat /\ Cardinality(C) \in Nat
    BY <1>3, <2>2, FS_CardinalityType
  <2>5. Cardinality(C \ D) = Cardinality(C) - Cardinality(D)
    BY <2>2, <2>3
  <2> DEFINE a == Cardinality(C)
             b == Cardinality(D)
             e == Cardinality(C \ D)
             u == Len(chain)
             v == Len(kept)
  <2>6. a \in Nat /\ b \in Nat /\ e \in Nat /\ u \in Nat /\ v \in Nat /\ v + b = u /\ e = a - b
    BY <1>4, <1>6, <2>4, <2>5 DEF chain
  <2>7. m = a - (u - v)
    BY <1>3 DEF m
  <2> HIDE DEF a, b, e, u, v
  <2>8. a - (u - v) = e
    BY <2>6
  <2> QED BY <2>2, <2>4, <2>7, <2>8 DEF e
<1>14. strt.held \subseteq C \ D
  <2>1. strt.held \subseteq C
    BY <1>1 DEF Table
  <2>2. ASSUME NEW c \in D, c \in strt.held PROVE FALSE
    <3>1. PICK k \in 1..Len(chain) : chain[k].c = c /\ isdead(chain[k])
      BY <1>10, <2>2
    <3>2. chain[k].marked # 1 - strt.white
      BY <1>2, <1>3, <2>2, <3>1 DEF InSweep, chain
    <3> QED BY <3>1, <3>2 DEF isdead, otherwhite
  <2> QED BY <2>1, <2>2
<1>15. x \in Vectors
  BY <1>12, VectorType
<1>16. ph \in Phases /\ g + 1 \in Nat
  BY <1>3 DEF ph, Phases
<1> DEFINE e == g + 1
<1> HIDE DEF e
<1>17. /\ strt' \in States /\ strt'.hash = x /\ strt'.nuse = m /\ strt'.held = strt.held
       /\ strt'.white = strt.white /\ strt'.phase = ph /\ strt'.sweepstrgc = e
  <2>1. e \in Nat /\ strt' = [strt EXCEPT !.hash = x, !.nuse = m, !.sweepstrgc = e, !.phase = ph]
    BY <1>2, <1>16 DEF e
  <2> QED BY <1>2, <1>13, <1>15, <1>16, <2>1 DEF States
<1>18. ASSUME NEW h \in 0..n - 1, NEW k \in 1..Len(x[h])
       PROVE  /\ h < e => x[h][k].marked = strt.white
              /\ x[h][k].c \in strt.held => x[h][k].marked # 1 - strt.white
  <2>1. strt.white # 1 - strt.white
    BY <1>3
  <2>2. CASE h = g
    BY <1>7, <1>8, <2>1, <2>2
  <2>3. CASE h # g
    <3>1. h < e => h < g
      BY <1>3, <2>3 DEF e
    <3>2. /\ h < g => x[h][k].marked = strt.white
          /\ x[h][k].c \in strt.held => x[h][k].marked # 1 - strt.white
      BY <1>2, <1>8, <2>3 DEF InSweep, g
    <3> QED BY <3>1, <3>2
  <2> QED BY <2>2, <2>3
<1>19. SweptAll <=> e >= n
  <2>1. Size(strt) = n
    BY <1>1, ChainHome
  <2> QED BY <2>1 DEF SweptAll, e, g
<1>20. CASE SweptAll
  <2>1. strt'.phase = "sweep"
    BY <1>17, <1>20 DEF ph
  <2>2. MarksOf(strt') = {strt.white}
    BY <1>17, <2>1 DEF MarksOf
  <2>3. \A h \in 0..n - 1 : h < e
    BY <1>3, <1>16, <1>19, <1>20 DEF e
  <2>4. \A h \in 0..n - 1 : \A k \in 1..Len(x[h]) : x[h][k].marked \in {strt.white}
    BY <1>18, <2>3
  <2>5. Chains(x, n, C \ D, {strt.white})
    BY <1>12, <2>4, ChainsMarked
  <2>6. Table(strt', n, C \ D)
    BY <1>13, <1>14, <1>17, <2>1, <2>2, <2>5 DEF Table
  <2> QED BY <2>6 DEF StrtInv
<1>21. CASE ~SweptAll
  <2>1. strt'.phase = "sweepstring" /\ MarksOf(strt') = 0..2
    BY <1>17, <1>21 DEF ph, MarksOf
  <2>2. e < n
    BY <1>3, <1>16, <1>19, <1>21 DEF e
  <2>3. InSweep(strt', n)
    BY <1>17, <1>18, <2>2 DEF InSweep
  <2>4. Table(strt', n, C \ D)
    BY <1>12, <1>13, <1>14, <1>17, <2>1, <2>3 DEF Table
  <2> QED BY <2>4 DEF StrtInv
<1> QED BY <1>20, <1>21

------------------------------------------------------------------------------
(* The invariant says that strings are interned. *)

LEMMA NextKeeps == StrtInv /\ [StrtNext]_strt => StrtInv'
<1> SUFFICES ASSUME StrtInv, [StrtNext]_strt PROVE StrtInv'
  OBVIOUS
<1>1. CASE UNCHANGED strt
  BY <1>1 DEF StrtInv, Table, MarksOf, InSweep
<1>2. ASSUME NEW c \in Contents, luaS_newlstr(c) PROVE StrtInv'
  BY <1>2, FoundStep, MadeStep
<1>3. ASSUME NEW c \in Contents, ResizeFails(c) PROVE StrtInv'
  BY <1>3, ResizeFailsStep
<1>4. ASSUME NEW c \in Contents, DropString(c) PROVE StrtInv'
  BY <1>4, DropStep
<1>5. ASSUME NEW c \in Contents, MarkString(c) PROVE StrtInv'
  BY <1>5, MarkStep
<1>6. CASE StartCycle \/ AtomicStrings \/ FullSweep \/ SweepChain \/ CheckSizes
  BY <1>6, StartStep, AtomicStep, FullStep, SweepStep, SizesStep
<1> QED BY <1>1, <1>2, <1>3, <1>4, <1>5, <1>6 DEF StrtNext

(* The strings of a table are as many as its contents. *)
LEMMA StringsCounted ==
  ASSUME NEW n, NEW C, Table(strt, n, C)
  PROVE  Cardinality(AllStrings) = Cardinality(C)
<1> DEFINE M == MarksOf(strt)
           f == [s \in AllStrings |-> s.c]
<1>1. Chains(strt.hash, n, C, M) /\ DOMAIN strt.hash = 0..n - 1 /\ IsFiniteSet(C)
  BY ChainsSize DEF Table
<1> HIDE DEF M
<1>2. \A h \in 0..n - 1 : DOMAIN strt.hash[h] = 1..Len(strt.hash[h])
  <2> TAKE h \in 0..n - 1
  <2>1. strt.hash[h] \in Seq(Str(M))
    BY <1>1 DEF Chains
  <2> QED BY <2>1
<1>3. \A s \in AllStrings : \E h \in 0..n - 1 : \E k \in 1..Len(strt.hash[h]) : s = strt.hash[h][k]
  BY <1>1, <1>2 DEF AllStrings, ChainOf
<1>4. \A h \in 0..n - 1 : \A k \in 1..Len(strt.hash[h]) : strt.hash[h][k] \in AllStrings
  BY <1>1, <1>2 DEF AllStrings, ChainOf
<1>5. ASSUME NEW s \in AllStrings PROVE s.c \in C
  <2>1. PICK h \in 0..n - 1 : \E k \in 1..Len(strt.hash[h]) : s = strt.hash[h][k]
    BY <1>3
  <2> QED BY <1>1, <2>1, Elements
<1>6. ASSUME NEW s \in AllStrings, NEW u \in AllStrings, s.c = u.c PROVE s = u
  <2>1. PICK h \in 0..n - 1 : \E k \in 1..Len(strt.hash[h]) : s = strt.hash[h][k]
    BY <1>3
  <2>1a. PICK k \in 1..Len(strt.hash[h]) : s = strt.hash[h][k]
    BY <2>1
  <2>2. PICK g \in 0..n - 1 : \E j \in 1..Len(strt.hash[g]) : u = strt.hash[g][j]
    BY <1>3
  <2>2a. PICK j \in 1..Len(strt.hash[g]) : u = strt.hash[g][j]
    BY <2>2
  <2>3. g = h
    BY <1>1, <1>6, <2>1a, <2>2a DEF Chains
  <2>4. Distinct(strt.hash[h])
    BY <1>1 DEF Chains
  <2>5. j = k
    BY <1>6, <2>1a, <2>2a, <2>3, <2>4 DEF Distinct
  <2> QED BY <2>1a, <2>2a, <2>3, <2>5
<1>7. ASSUME NEW c \in C PROVE \E s \in AllStrings : s.c = c
  <2>1. Home(c, n) \in 0..n - 1
    BY <1>1, HomeType DEF Chains
  <2>2. PICK k \in 1..Len(strt.hash[Home(c, n)]) : strt.hash[Home(c, n)][k].c = c
    BY <1>1 DEF Chains
  <2> QED BY <1>4, <2>1, <2>2
<1>8. f \in Injection(AllStrings, C) /\ f \in Surjection(AllStrings, C)
  BY <1>5, <1>6, <1>7 DEF Injection, IsInjective, Surjection
<1> HIDE DEF f
<1> QED BY <1>1, <1>8, FS_Injection

LEMMA InternedFromInv == StrtInv => InternedOnce
<1> SUFFICES ASSUME NEW n, NEW C, Table(strt, n, C) PROVE InternedOnce
  BY DEF StrtInv
<1> DEFINE M == MarksOf(strt)
<1>1. /\ Chains(strt.hash, n, C, M) /\ DOMAIN strt.hash = 0..n - 1 /\ strt \in States
      /\ strt.nuse = Cardinality(C) /\ strt.held \subseteq C
  BY ChainsSize DEF Table
<1>2. ASSUME NEW h \in 0..n - 1 PROVE DOMAIN strt.hash[h] = 1..Len(strt.hash[h])
  <2>1. strt.hash[h] \in Seq(Str(M))
    BY <1>1 DEF Chains
  <2> QED BY <2>1
<1>3. \A s \in AllStrings : \E h \in 0..n - 1 : \E k \in 1..Len(strt.hash[h]) : s = strt.hash[h][k]
  BY <1>1, <1>2 DEF AllStrings, ChainOf
<1>4. \A h \in 0..n - 1 : \A k \in 1..Len(strt.hash[h]) : strt.hash[h][k] \in AllStrings
  BY <1>1, <1>2 DEF AllStrings, ChainOf
<1>5. strt.nuse = Cardinality(AllStrings)
  BY <1>1, StringsCounted
<1>6. ASSUME NEW h \in 0..n - 1, NEW k \in 1..Len(strt.hash[h]),
             NEW g \in 0..n - 1, NEW j \in 1..Len(strt.hash[g]), strt.hash[g][j].c = strt.hash[h][k].c
      PROVE  g = h /\ j = k
  <2>1. g = h
    BY <1>1, <1>6 DEF Chains
  <2>2. Distinct(strt.hash[h])
    BY <1>1 DEF Chains
  <2> QED BY <1>6, <2>1, <2>2 DEF Distinct
<1>7. ASSUME NEW h \in 0..n - 1, NEW k \in 1..Len(strt.hash[h]) PROVE Chain(strt, strt.hash[h][k].c) = h
  <2>1. Home(strt.hash[h][k].c, n) = h
    BY <1>1 DEF Chains
  <2> QED BY <2>1, ChainHome
<1>8. strt.held \subseteq {s.c : s \in AllStrings}
  <2> SUFFICES ASSUME NEW c \in strt.held PROVE \E s \in AllStrings : s.c = c
    OBVIOUS
  <2>1. Home(c, n) \in 0..n - 1
    BY <1>1, HomeType DEF Chains
  <2>2. PICK k \in 1..Len(strt.hash[Home(c, n)]) : strt.hash[Home(c, n)][k].c = c
    BY <1>1 DEF Chains
  <2> QED BY <1>4, <2>1, <2>2
<1> HIDE DEF M
<1>9. Interned
  <2>1. ASSUME NEW h \in DOMAIN strt.hash, NEW k \in DOMAIN strt.hash[h]
        PROVE  /\ Chain(strt, strt.hash[h][k].c) = h
               /\ \A g \in DOMAIN strt.hash : \A j \in DOMAIN strt.hash[g] :
                    strt.hash[g][j].c = strt.hash[h][k].c => g = h /\ j = k
    <3>1. h \in 0..n - 1 /\ k \in 1..Len(strt.hash[h])
      BY <1>1, <1>2
    <3>2. Chain(strt, strt.hash[h][k].c) = h
      BY <1>7, <3>1
    <3>3. ASSUME NEW g \in DOMAIN strt.hash, NEW j \in DOMAIN strt.hash[g], strt.hash[g][j].c = strt.hash[h][k].c
          PROVE  g = h /\ j = k
      <4>1. g \in 0..n - 1 /\ j \in 1..Len(strt.hash[g])
        BY <1>1, <1>2
      <4> QED BY <1>6, <3>1, <3>3, <4>1
    <3> QED BY <3>2, <3>3
  <2> QED BY <1>5, <1>8, <2>1, Zenon DEF Interned
<1>10. ASSUME NEW s \in AllStrings
       PROVE  s.marked \in M /\ (strt.phase = "sweepstring" /\ s.c \in strt.held => s.marked # 1 - strt.white)
  <2>1. PICK h \in 0..n - 1 : \E k \in 1..Len(strt.hash[h]) : s = strt.hash[h][k]
    BY <1>3
  <2>1a. PICK k \in 1..Len(strt.hash[h]) : s = strt.hash[h][k]
    BY <2>1
  <2>2. s.marked \in M
    BY <1>1, <2>1a, Elements
  <2>3. strt.phase = "sweepstring" => InSweep(strt, n)
    BY DEF Table
  <2> QED BY <2>1a, <2>2, <2>3 DEF InSweep
<1>11. strt.white \in 0..1 /\ strt.phase \in Phases
  BY <1>1 DEF States, Whites
<1>12. SweptClean
  <2>1. ASSUME strt.phase \in {"pause", "sweep"}, NEW s \in AllStrings PROVE s.marked = strt.white
    BY <1>10, <2>1 DEF M, MarksOf
  <2>2. ASSUME strt.phase = "propagate", NEW s \in AllStrings PROVE s.marked # 1 - strt.white
    <3>1. s.marked \in {strt.white, Gray}
      BY <1>10, <2>2 DEF M, MarksOf
    <3> QED BY <1>11, <3>1 DEF Gray
  <2>3. ASSUME NEW s \in AllStrings, s.c \in strt.held PROVE s.marked # 1 - strt.white
    <3>1. strt.white # 1 - strt.white
      BY <1>11
    <3> QED BY <1>10, <1>11, <2>1, <2>2, <2>3, <3>1 DEF Phases
  <2> QED BY <2>1, <2>2, <2>3 DEF SweptClean, isdead, otherwhite
<1> QED BY <1>9, <1>12 DEF InternedOnce

(* There is one string for a content in every state: luaS_newlstr and the    *)
(* sweep of the strings share the chains, the sweep goes on from chain to    *)
(* chain while strings are made, and a dead one may be found again           *)
(* (lstring.c:75-93, lgc.c:572-580).                                         *)
THEOREM StringsAreInterned == StrtSpec => []InternedOnce
<1>1. strt \in StrtStates => StrtInv
  BY StrtInitial
<1>2. StrtInv /\ [StrtNext]_strt => StrtInv'
  BY NextKeeps
<1>3. StrtInv => InternedOnce
  BY InternedFromInv
<1> QED BY <1>1, <1>2, <1>3, PTL DEF StrtSpec

------------------------------------------------------------------------------
(* Two arrays, of which high has one element more than low, at position pos, *)
(* with those above it one place further up to e.                            *)

Opened(low, high, pos, e) ==
  /\ \A k \in Keys : k \notin pos..e => high[k] = low[k]
  /\ \A k \in pos..e - 1 : high[k + 1] = low[k]
  /\ low[e] = None

Arrays == [Keys -> ListValues \cup {None}]
Having(t, v) == {k \in Keys : t[k] = v}

LEMMA OpenedCounts ==
  ASSUME NEW low \in Arrays, NEW high \in Arrays, NEW e \in Keys, NEW pos \in 0..e, Opened(low, high, pos, e),
         NEW v \in ListValues
  PROVE  Count(low, v) \in Nat /\ Count(high, v) = Count(low, v) + (IF high[pos] = v THEN 1 ELSE 0)
<1> DEFINE L == Having(low, v)
           H == Having(high, v)
           up == [k \in L |-> IF k \in pos..e THEN k + 1 ELSE k]
<1>1. MaxKey \in Nat /\ v # None /\ e \in 0..MaxKey /\ pos \in Nat /\ e \in Nat
  BY ListAssumption DEF Keys
<1>2. \A k \in L : k # e /\ k \in 0..MaxKey /\ (k \in pos..e => k \in pos..e - 1 /\ k + 1 \in pos + 1..e /\ k + 1 \in 0..MaxKey)
  <2> SUFFICES ASSUME NEW k \in L
               PROVE  k # e /\ k \in 0..MaxKey /\ (k \in pos..e => k \in pos..e - 1 /\ k + 1 \in pos + 1..e /\ k + 1 \in 0..MaxKey)
    OBVIOUS
  <2>1. k # e /\ k \in 0..MaxKey
    BY <1>1 DEF Having, Opened, Keys
  <2> QED BY <1>1, <2>1
<1>3. ASSUME NEW k \in L PROVE up[k] \in H \ {pos}
  <2>1. CASE k \in pos..e
    <3>1. high[k + 1] = v /\ k + 1 \in 0..MaxKey /\ k + 1 # pos
      BY <1>1, <1>2, <2>1 DEF Having, Opened
    <3> QED BY <2>1, <3>1 DEF Having, Keys
  <2>2. CASE k \notin pos..e
    <3>1. high[k] = v /\ k \in Keys /\ k # pos
      BY <1>1, <1>2, <2>2 DEF Having, Opened
    <3> QED BY <2>2, <3>1 DEF Having
  <2> QED BY <2>1, <2>2
<1>4. ASSUME NEW k \in L, NEW j \in L, up[k] = up[j] PROVE k = j
  <2>1. k \in 0..MaxKey /\ j \in 0..MaxKey
    BY <1>2
  <2>2. up[k] = (IF k \in pos..e THEN k + 1 ELSE k) /\ up[j] = (IF j \in pos..e THEN j + 1 ELSE j)
    OBVIOUS
  <2>3. (k \in pos..e => k # e) /\ (j \in pos..e => j # e)
    BY <1>2
  <2>4. (IF k \in pos..e THEN k + 1 ELSE k) = (IF j \in pos..e THEN j + 1 ELSE j)
    BY <1>4, <2>2
  <2> HIDE DEF up, L
  <2> QED BY <1>1, <2>1, <2>3, <2>4
<1>5. ASSUME NEW h \in H \ {pos} PROVE \E k \in L : up[k] = h
  <2>1. h \in 0..MaxKey /\ high[h] = v /\ h # pos
    BY DEF Having, Keys
  <2>2. CASE h \in pos..e
    <3> DEFINE k == h - 1
    <3>1. k \in pos..e - 1 /\ k \in pos..e /\ k \in 0..MaxKey /\ k + 1 = h
      BY <1>1, <2>1, <2>2
    <3> HIDE DEF k
    <3>2. low[k] = v
      BY <2>1, <3>1 DEF Opened
    <3>3. k \in L
      BY <3>1, <3>2 DEF Having, Keys
    <3> QED BY <3>1, <3>3
  <2>3. CASE h \notin pos..e
    <3>1. h \in L
      BY <2>1, <2>3 DEF Having, Opened, Keys
    <3> QED BY <2>3, <3>1
  <2> QED BY <2>2, <2>3
<1> HIDE DEF up
<1>6. up \in [L -> H \ {pos}]
  BY <1>3 DEF up
<1>7. up \in Injection(L, H \ {pos}) /\ up \in Surjection(L, H \ {pos})
  BY <1>4, <1>5, <1>6 DEF Injection, IsInjective, Surjection
<1>8. IsFiniteSet(Keys)
  BY <1>1, FS_Interval DEF Keys
<1>9. IsFiniteSet(H) /\ IsFiniteSet(L)
  BY <1>8, FS_Subset DEF Having
<1>10. Cardinality(L) = Cardinality(H \ {pos})
  <2>1. IsFiniteSet(H \ {pos})
    BY <1>9, FS_Subset
  <2> QED BY <1>7, <2>1, FS_Injection
<1>11. pos \in Keys /\ (pos \in H <=> high[pos] = v)
  BY <1>1 DEF Having, Keys
<1> HIDE DEF L, H
<1>12. Cardinality(L) \in Nat /\ Cardinality(H) \in Nat
  BY <1>9, FS_CardinalityType
<1>13. Cardinality(H) = Cardinality(L) + (IF high[pos] = v THEN 1 ELSE 0)
  <2>1. CASE pos \in H
    <3>1. Cardinality(H \ {pos}) = Cardinality(H) - 1
      BY <1>9, <2>1, FS_RemoveElement
    <3> QED BY <1>10, <1>11, <1>12, <2>1, <3>1
  <2>2. CASE pos \notin H
    <3>1. H \ {pos} = H
      BY <2>2
    <3> QED BY <1>10, <1>11, <1>12, <2>2, <3>1
  <2> QED BY <2>1, <2>2
<1> QED BY <1>12, <1>13 DEF Count, L, H, Having

(* The elements below n, in order. *)
LEMMA OpenedOrder ==
  ASSUME NEW low \in Arrays, NEW high \in Arrays, NEW e \in Keys, NEW pos \in 1..e, Opened(low, high, pos, e)
  PROVE  /\ Sequence(high, e) = SubSeq(Sequence(low, e - 1), 1, pos - 1) \o <<high[pos]>>
                                \o SubSeq(Sequence(low, e - 1), pos, e - 1)
         /\ Sequence(low, e - 1) = SubSeq(Sequence(high, e), 1, pos - 1) \o SubSeq(Sequence(high, e), pos + 1, e)
<1> DEFINE S == ListValues \cup {None}
           l == Sequence(low, e - 1)
           h == Sequence(high, e)
           below == SubSeq(l, 1, pos - 1)
           above == SubSeq(l, pos, e - 1)
           hbelow == SubSeq(h, 1, pos - 1)
           habove == SubSeq(h, pos + 1, e)
           one == <<high[pos]>>
<1>1. e \in Nat /\ pos \in Nat /\ pos >= 1 /\ pos <= e /\ e <= MaxKey /\ MaxKey \in Nat
  BY ListAssumption DEF Keys
<1>2. \A k \in 1..e : k \in Keys
  BY <1>1 DEF Keys
<1>3. /\ l = [k \in 1..e - 1 |-> low[k]] /\ h = [k \in 1..e |-> high[k]]
      /\ \A k \in 1..e - 1 : l[k] = low[k] /\ l[k] \in S
      /\ \A k \in 1..e : h[k] = high[k] /\ h[k] \in S
  <2>1. \A k \in 1..e - 1 : k \in 1..e
    BY <1>1
  <2> QED BY <1>2, <2>1 DEF Sequence, Arrays
<1> HIDE DEF l, h
<1>4. l \in Seq(S) /\ Len(l) = e - 1 /\ h \in Seq(S) /\ Len(h) = e
  <2>1. e - 1 \in Nat
    BY <1>1
  <2>2. l \in [1..e - 1 -> S] /\ h \in [1..e -> S]
    BY <1>3
  <2> QED BY <1>1, <2>1, <2>2, SeqDef
<1>5. /\ \A k \in 1..pos - 1 : k \in 1..e - 1 /\ k \in 1..e /\ high[k] = low[k]
      /\ \A k \in pos..e - 1 : k \in 1..e - 1 /\ k + 1 \in 1..e /\ high[k + 1] = low[k]
  <2>1. \A k \in 1..pos - 1 : k \in 1..e - 1 /\ k \in 1..e /\ k \notin pos..e
    BY <1>1
  <2>2. \A k \in pos..e - 1 : k \in 1..e - 1 /\ k + 1 \in 1..e
    BY <1>1
  <2> QED BY <1>2, <2>1, <2>2 DEF Opened
<1>6. /\ below \in Seq(S) /\ Len(below) = pos - 1
      /\ hbelow \in Seq(S) /\ Len(hbelow) = pos - 1
      /\ \A i \in 1..pos - 1 : below[i] = low[i] /\ hbelow[i] = low[i]
  <2> DEFINE d == pos - 1
  <2>1. d \in Int /\ d >= 0 /\ d = pos - 1 /\ \A i \in 1..d : i \in 1..e - 1 /\ i \in 1..e
    BY <1>1, <1>5
  <2> HIDE DEF d
  <2>2. \A i \in 1..d : l[i] \in S /\ h[i] \in S /\ l[i] = low[i] /\ h[i] = low[i]
    BY <1>3, <1>5, <2>1
  <2>3. /\ SubSeq(l, 1, d) \in Seq(S) /\ Len(SubSeq(l, 1, d)) = (IF 1 <= d THEN d - 1 + 1 ELSE 0)
        /\ \A i \in 1..d - 1 + 1 : SubSeq(l, 1, d)[i] = l[1 + i - 1]
    BY <2>1, <2>2, SubSeqProperties
  <2>4. /\ SubSeq(h, 1, d) \in Seq(S) /\ Len(SubSeq(h, 1, d)) = (IF 1 <= d THEN d - 1 + 1 ELSE 0)
        /\ \A i \in 1..d - 1 + 1 : SubSeq(h, 1, d)[i] = h[1 + i - 1]
    BY <2>1, <2>2, SubSeqProperties
  <2>5. (IF 1 <= d THEN d - 1 + 1 ELSE 0) = d /\ d - 1 + 1 = d /\ \A i \in 1..d : 1 + i - 1 = i
    BY <2>1
  <2> QED BY <2>1, <2>2, <2>3, <2>4, <2>5
<1>7. /\ above \in Seq(S) /\ Len(above) = e - pos
      /\ habove \in Seq(S) /\ Len(habove) = e - pos
      /\ \A i \in 1..e - pos : above[i] = low[pos + i - 1] /\ habove[i] = low[pos + i - 1]
  <2> DEFINE a == e - 1
             b == pos + 1
             n == e - pos
  <2>1. /\ a \in Int /\ b \in Int /\ n \in Int /\ pos \in Int /\ e \in Int
        /\ \A i \in pos..a : i \in 1..e - 1
        /\ \A i \in b..e : i \in 1..e
        /\ \A i \in 1..n : pos + i - 1 \in pos..e - 1 /\ pos + i - 1 \in pos..a /\ b + i - 1 = (pos + i - 1) + 1 /\ b + i - 1 \in b..e
        /\ (IF pos <= a THEN a - pos + 1 ELSE 0) = n /\ (IF b <= e THEN e - b + 1 ELSE 0) = n
        /\ a - pos + 1 = n /\ e - b + 1 = n
    BY <1>1
  <2>2. \A i \in pos..a : l[i] \in S
    BY <1>3, <2>1
  <2>3. \A i \in b..e : h[i] \in S
    BY <1>3, <2>1
  <2> HIDE DEF a, b, n
  <2>4. /\ SubSeq(l, pos, a) \in Seq(S) /\ Len(SubSeq(l, pos, a)) = (IF pos <= a THEN a - pos + 1 ELSE 0)
        /\ \A i \in 1..a - pos + 1 : SubSeq(l, pos, a)[i] = l[pos + i - 1]
    BY <2>1, <2>2, SubSeqProperties
  <2>5. /\ SubSeq(h, b, e) \in Seq(S) /\ Len(SubSeq(h, b, e)) = (IF b <= e THEN e - b + 1 ELSE 0)
        /\ \A i \in 1..e - b + 1 : SubSeq(h, b, e)[i] = h[b + i - 1]
    BY <2>1, <2>3, SubSeqProperties
  <2>6. ASSUME NEW i \in 1..n PROVE l[pos + i - 1] = low[pos + i - 1] /\ h[b + i - 1] = low[pos + i - 1]
    <3> DEFINE k == pos + i - 1
    <3>1. k \in pos..e - 1 /\ b + i - 1 = k + 1
      BY <2>1
    <3> HIDE DEF k
    <3> QED BY <1>3, <1>5, <3>1 DEF k
  <2>7. above = SubSeq(l, pos, a) /\ habove = SubSeq(h, b, e)
    BY DEF a, b
  <2> HIDE DEF above, habove
  <2>8. \A i \in 1..n : above[i] = low[pos + i - 1] /\ habove[i] = low[pos + i - 1]
    BY <2>1, <2>4, <2>5, <2>6, <2>7
  <2>9. above \in Seq(S) /\ Len(above) = n /\ habove \in Seq(S) /\ Len(habove) = n
    BY <2>1, <2>4, <2>5, <2>7
  <2> QED BY <2>8, <2>9 DEF n
<1> HIDE DEF below, above, hbelow, habove
<1>8. high[pos] \in S /\ one \in Seq(S) /\ Len(one) = 1 /\ one[1] = high[pos]
  <2>1. high[pos] \in S
    BY <1>1, <1>3
  <2> QED BY <2>1
<1> HIDE DEF one, S
<1>9. h = below \o one \o above
  <2> DEFINE u == below \o one
             w == u \o above
  <2>1. /\ u \in Seq(S) /\ Len(u) = Len(below) + Len(one)
        /\ \A i \in 1..Len(below) + Len(one) : u[i] = IF i <= Len(below) THEN below[i] ELSE one[i - Len(below)]
    BY <1>6, <1>8, ConcatProperties
  <2> HIDE DEF u
  <2>2. /\ w \in Seq(S) /\ Len(w) = Len(u) + Len(above)
        /\ \A i \in 1..Len(u) + Len(above) : w[i] = IF i <= Len(u) THEN u[i] ELSE above[i - Len(u)]
    BY <1>7, <2>1, ConcatProperties
  <2> HIDE DEF w
  <2>3. Len(u) = pos /\ Len(w) = e
    <3>1. (pos - 1) + 1 = pos /\ pos + (e - pos) = e
      BY <1>1
    <3> QED BY <1>6, <1>7, <1>8, <2>1, <2>2, <3>1
  <2>4. ASSUME NEW i \in 1..e PROVE w[i] = h[i]
    <3>1. h[i] = high[i]
      BY <1>3
    <3>2. CASE i <= pos - 1
      <4>1. i \in 1..pos - 1 /\ i \in 1..pos /\ i <= pos /\ i \in 1..pos + (e - pos) /\ i \in 1..(pos - 1) + 1
        BY <1>1, <3>2
      <4>2. w[i] = u[i] /\ u[i] = below[i]
        BY <1>6, <1>7, <1>8, <2>1, <2>2, <2>3, <3>2, <4>1
      <4> QED BY <1>5, <1>6, <3>1, <4>1, <4>2
    <3>3. CASE i = pos
      <4>1. i <= pos /\ i \in 1..pos + (e - pos) /\ i \in 1..(pos - 1) + 1 /\ ~(i <= pos - 1) /\ i - (pos - 1) = 1
        BY <1>1, <3>3
      <4>2. w[i] = u[i]
        BY <1>7, <2>2, <2>3, <4>1
      <4>3. u[i] = one[1]
        BY <1>6, <1>8, <2>1, <4>1
      <4> QED BY <1>8, <3>1, <3>3, <4>2, <4>3
    <3>4. CASE i > pos
      <4> DEFINE k == i - pos
                 m == pos + k - 1
      <4>1. k \in 1..e - pos /\ ~(i <= pos) /\ i \in 1..pos + (e - pos) /\ m \in pos..e - 1 /\ m + 1 = i
        BY <1>1, <3>4
      <4>2. w[i] = above[k]
        BY <1>7, <2>2, <2>3, <4>1
      <4> HIDE DEF k
      <4>3. above[k] = low[m]
        BY <1>7, <4>1
      <4> HIDE DEF m
      <4> QED BY <1>5, <3>1, <4>1, <4>2, <4>3
    <3>5. i <= pos - 1 \/ i = pos \/ i > pos
      BY <1>1
    <3> QED BY <3>2, <3>3, <3>4, <3>5
  <2>5. h = w
    BY <1>4, <2>2, <2>3, <2>4, SeqEqual
  <2> QED BY <2>5 DEF w, u
<1>10. l = hbelow \o habove
  <2> DEFINE w == hbelow \o habove
  <2>1. /\ w \in Seq(S) /\ Len(w) = Len(hbelow) + Len(habove)
        /\ \A i \in 1..Len(hbelow) + Len(habove) : w[i] = IF i <= Len(hbelow) THEN hbelow[i] ELSE habove[i - Len(hbelow)]
    BY <1>6, <1>7, ConcatProperties
  <2> HIDE DEF w
  <2>2. Len(w) = e - 1 /\ (pos - 1) + (e - pos) = e - 1
    <3>1. (pos - 1) + (e - pos) = e - 1
      BY <1>1
    <3> QED BY <1>6, <1>7, <2>1, <3>1
  <2>3. ASSUME NEW i \in 1..e - 1 PROVE w[i] = l[i]
    <3>1. l[i] = low[i]
      BY <1>3
    <3>2. i \in 1..(pos - 1) + (e - pos)
      BY <2>2
    <3>3. w[i] = IF i <= pos - 1 THEN hbelow[i] ELSE habove[i - (pos - 1)]
      BY <1>6, <1>7, <2>1, <3>2
    <3>4. CASE i <= pos - 1
      <4>1. i \in 1..pos - 1
        BY <3>4
      <4> QED BY <1>6, <3>1, <3>3, <3>4, <4>1
    <3>5. CASE ~(i <= pos - 1)
      <4> DEFINE k == i - (pos - 1)
      <4>1. k \in 1..e - pos /\ pos + k - 1 = i
        BY <1>1, <3>5
      <4> HIDE DEF k
      <4> QED BY <1>7, <3>1, <3>3, <3>5, <4>1 DEF k
    <3> QED BY <3>4, <3>5
  <2>4. l = w
    BY <1>4, <2>1, <2>2, <2>3, SeqEqual
  <2> QED BY <2>4 DEF w
<1> QED BY <1>9, <1>10 DEF l, h, below, above, hbelow, habove, one

ListType == lst.t \in Arrays

(* What ListKeeps asks of one step. *)
Kept == ListChanges /\ OrderKept

LEMMA Inserted ==
  ASSUME ListType, NEW n \in Borders(lst.t), NEW pos \in 1..n + 1, NEW v \in ListValues, NEW high \in Arrays,
         Opened(lst.t, high, pos, n + 1), high[pos] = v, Entered("insert", high, pos, n, v)
  PROVE  Kept
<1> DEFINE e == n + 1
           low == lst.t
<1>1. n \in Nat /\ e \in Keys /\ pos \in 0..e /\ pos \in 1..e /\ e - 1 = n
  BY ListAssumption DEF Borders, Keys
<1> HIDE DEF e
<1>2. /\ lst'.t = high /\ lst'.op = "insert" /\ lst'.pos = pos /\ lst'.n = n /\ lst'.v = v /\ lst'.op # "remove"
  BY DEF Entered
<1>3. low \in Arrays /\ Opened(low, high, pos, e)
  BY DEF ListType, e
<1> HIDE DEF low
<1>4. \A w \in ListValues : Count(high, w) = Count(low, w) + (IF v = w THEN 1 ELSE 0)
  BY <1>1, <1>3, OpenedCounts
<1>5. \A w \in ListValues : Count(high, w) = Count(low, w) + (IF w = v THEN 1 ELSE 0)
  BY <1>4
<1>6. ListChanges
  BY <1>2, <1>5 DEF ListChanges, low
<1>7. Sequence(high, e) = SubSeq(Sequence(low, e - 1), 1, pos - 1) \o <<v>> \o SubSeq(Sequence(low, e - 1), pos, e - 1)
  BY <1>1, <1>3, OpenedOrder
<1>8. Sequence(high, n + 1) = SubSeq(Sequence(low, n), 1, pos - 1) \o <<v>> \o SubSeq(Sequence(low, n), pos, n)
  BY <1>1, <1>7 DEF e
<1>9. OrderKept
  BY <1>2, <1>8, Zenon DEF OrderKept, low
<1> QED BY <1>6, <1>9 DEF Kept

LEMMA InsertKeeps ==
  ASSUME ListType, NEW v \in ListValues, NEW pos \in Keys, tinsert(pos, v)
  PROVE  ListType' /\ Kept
<1>1. PICK n \in Borders(lst.t) :
        LET e == IF pos > n + 1 THEN pos ELSE n + 1
        IN Entered("insert", [MovedUp(lst.t, e, pos) EXCEPT ![pos] = v], pos, n, v)
  BY DEF tinsert
<1> DEFINE e == IF pos > n + 1 THEN pos ELSE n + 1
           high == [MovedUp(lst.t, e, pos) EXCEPT ![pos] = v]
<1>2. Entered("insert", high, pos, n, v)
  BY <1>1
<1>3. n \in Nat /\ n + 1 \in Keys /\ lst.t[n + 1] = None /\ pos \in Nat /\ e \in Keys /\ lst.t \in Arrays
  BY ListAssumption DEF Borders, Keys, ListType
<1>4. high \in Arrays /\ \A k \in Keys : high[k] = IF k = pos THEN v ELSE IF pos < k /\ k <= e THEN lst.t[k - 1] ELSE lst.t[k]
  <2>1. \A k \in Keys : pos < k => k - 1 \in Keys
    <3>1. pos \in Nat /\ MaxKey \in Nat
      BY <1>3, ListAssumption
    <3> QED BY <3>1 DEF Keys
  <2> HIDE DEF e
  <2> DEFINE up == MovedUp(lst.t, e, pos)
  <2>2. \A k \in Keys : up[k] = IF pos < k /\ k <= e THEN lst.t[k - 1] ELSE lst.t[k]
    BY DEF MovedUp
  <2>3. up \in Arrays
    BY <1>3, <2>1 DEF MovedUp, Arrays
  <2> HIDE DEF up
  <2>4. high = [up EXCEPT ![pos] = v]
    BY DEF up
  <2> HIDE DEF high
  <2> QED BY <2>2, <2>3, <2>4 DEF Arrays
<1>5. ListType'
  BY <1>2, <1>4 DEF Entered, ListType
<1>6. CASE pos \in 1..n + 1
  <2>1. e = n + 1
    BY <1>3, <1>6
  <2> HIDE DEF high, e
  <2>2. ASSUME NEW k \in Keys, k \notin pos..n + 1 PROVE high[k] = lst.t[k]
    <3>1. k # pos /\ ~(pos < k /\ k <= n + 1)
      BY <1>3, <1>6, <2>2 DEF Keys
    <3> QED BY <1>4, <2>1, <3>1
  <2>3. ASSUME NEW k \in pos..(n + 1) - 1 PROVE high[k + 1] = lst.t[k]
    <3> DEFINE m == k + 1
    <3>1. m \in Keys /\ m # pos /\ pos < m /\ m <= n + 1 /\ m - 1 = k
      BY <1>3, ListAssumption DEF Keys
    <3> HIDE DEF m
    <3>2. high[m] = lst.t[m - 1]
      BY <1>4, <2>1, <3>1
    <3> QED BY <3>1, <3>2 DEF m
  <2>4. Opened(lst.t, high, pos, n + 1)
    BY <1>3, <2>2, <2>3 DEF Opened
  <2>5. high[pos] = v
    BY <1>4
  <2>6. Kept
    BY <1>2, <1>4, <1>6, <2>4, <2>5, Inserted
  <2> QED BY <1>5, <2>6
<1>7. CASE pos \notin 1..n + 1
  <2>1. lst'.op = "insert" /\ lst'.op # "remove" /\ lst'.pos \notin 1..lst'.n + 1
    BY <1>2, <1>7 DEF Entered
  <2> QED BY <1>5, <2>1, Zenon DEF Kept, ListChanges, OrderKept
<1> QED BY <1>6, <1>7

LEMMA InsertLastKeeps ==
  ASSUME ListType, NEW v \in ListValues, InsertLast(v)
  PROVE  ListType' /\ Kept
<1>1. PICK n \in Borders(lst.t) : Entered("insert", [lst.t EXCEPT ![n + 1] = v], n + 1, n, v)
  BY DEF InsertLast
<1> DEFINE e == n + 1
           high == [lst.t EXCEPT ![e] = v]
<1>2. n \in Nat /\ e \in Keys /\ lst.t[e] = None /\ lst.t \in Arrays /\ e \in 1..n + 1
  BY ListAssumption DEF Borders, Keys, ListType
<1>3. Entered("insert", high, e, n, v)
  BY <1>1
<1>4. high \in Arrays /\ high[e] = v /\ \A k \in Keys : k # e => high[k] = lst.t[k]
  BY <1>2 DEF Arrays
<1>5. e..e - 1 = {} /\ e \in e..e
  BY <1>2
<1> HIDE DEF high
<1>6. Opened(lst.t, high, e, n + 1)
  BY <1>2, <1>4, <1>5 DEF Opened
<1>7. ListType'
  BY <1>3, <1>4 DEF Entered, ListType
<1>8. Kept
  <2> HIDE DEF e
  <2> QED BY <1>2, <1>3, <1>4, <1>6, Inserted
<1> QED BY <1>7, <1>8

LEMMA RemoveKeeps ==
  ASSUME ListType, NEW pos \in 1..MaxKey, tremove(pos)
  PROVE  ListType' /\ Kept
<1> DEFINE high == lst.t
           Low(e) == [k \in Keys |-> IF k = e THEN None ELSE IF pos <= k /\ k < e THEN high[k + 1] ELSE high[k]]
<1>1. PICK e \in Borders(high) : pos \in 1..e /\ Entered("remove", Low(e), pos, e, high[pos])
  BY DEF tremove
<1> DEFINE low == Low(e)
<1>2. e \in Nat /\ e \in Keys /\ e <= MaxKey /\ pos \in Nat /\ pos \in 0..e /\ high \in Arrays
  BY <1>1, ListAssumption DEF Borders, Keys, ListType
<1>3. Entered("remove", low, pos, e, high[pos])
  BY <1>1
<1>4. low \in Arrays /\ \A k \in Keys : low[k] = IF k = e THEN None ELSE IF pos <= k /\ k < e THEN high[k + 1] ELSE high[k]
  <2>1. \A k \in Keys : pos <= k /\ k < e => k + 1 \in Keys
    BY <1>2, ListAssumption DEF Keys
  <2> HIDE DEF high
  <2> QED BY <1>2, <2>1 DEF Arrays
<1>5. Opened(low, high, pos, e)
  <2> HIDE DEF low
  <2>1. ASSUME NEW k \in Keys, k \notin pos..e PROVE high[k] = low[k]
    <3>1. k # e /\ ~(pos <= k /\ k < e)
      BY <1>1, <1>2, <2>1 DEF Keys
    <3> QED BY <1>4, <3>1
  <2>2. ASSUME NEW k \in pos..e - 1 PROVE high[k + 1] = low[k]
    <3>1. k \in Keys /\ k # e /\ pos <= k /\ k < e
      BY <1>2, ListAssumption DEF Keys
    <3> QED BY <1>4, <3>1
  <2> QED BY <1>2, <1>4, <2>1, <2>2 DEF Opened
<1> HIDE DEF high, low
<1>6. /\ lst'.t = low /\ lst'.op = "remove" /\ lst'.pos = pos /\ lst'.n = e /\ lst'.v = high[pos] /\ lst'.op # "insert"
  BY <1>3 DEF Entered
<1>7. ListType'
  BY <1>4, <1>6 DEF ListType
<1>8. ListChanges
  <2>1. ASSUME NEW w \in ListValues PROVE Count(low, w) = Count(high, w) - (IF w = high[pos] THEN 1 ELSE 0)
    <3>1. Count(low, w) \in Nat /\ Count(high, w) = Count(low, w) + (IF high[pos] = w THEN 1 ELSE 0)
      BY <1>2, <1>4, <1>5, OpenedCounts
    <3> QED BY <3>1
  <2> QED BY <1>6, <2>1 DEF ListChanges, high
<1>9. OrderKept
  <2>1. Sequence(low, e - 1) = SubSeq(Sequence(high, e), 1, pos - 1) \o SubSeq(Sequence(high, e), pos + 1, e)
    BY <1>1, <1>2, <1>4, <1>5, OpenedOrder
  <2> QED BY <1>6, <2>1, Zenon DEF OrderKept, high
<1> QED BY <1>7, <1>8, <1>9 DEF Kept

LEMMA ListStep == ASSUME ListType, ListNext PROVE ListType' /\ Kept
<1>1. ASSUME NEW v \in ListValues, InsertLast(v) PROVE ListType' /\ Kept
  BY <1>1, InsertLastKeeps
<1>2. ASSUME NEW v \in ListValues, NEW pos \in 0..MaxKey, tinsert(pos, v) PROVE ListType' /\ Kept
  BY <1>2, InsertKeeps DEF Keys
<1>3. ASSUME NEW pos \in 1..MaxKey, tremove(pos) PROVE ListType' /\ Kept
  BY <1>3, RemoveKeeps
<1>4. ASSUME NEW k \in Keys, NEW v \in ListValues \cup {None}, Assign(k, v) PROVE ListType' /\ Kept
  <2>1. lst'.op = "assign" /\ lst'.op # "insert" /\ lst'.op # "remove" /\ lst'.t = [lst.t EXCEPT ![k] = v]
    BY <1>4 DEF Assign, Entered
  <2>2. ListType'
    BY <2>1 DEF ListType, Arrays
  <2> QED BY <2>1, <2>2, Zenon DEF Kept, ListChanges, OrderKept
<1> QED BY <1>1, <1>2, <1>3, <1>4 DEF ListNext

(* Inserting adds one element and removing takes one out, and the others keep *)
(* their order, whatever holes the table has and whichever border is taken    *)
(* for its length (tinsert, tremove), for any values and any keys.            *)
THEOREM ListIsKept == ListSpec => ListKeeps
<1>1. lst \in ListStates => ListType
  BY DEF ListStates, ListType, Arrays
<1>2. ListType /\ [ListNext]_lst => ListType'
  BY ListStep DEF ListType
<1>3. ListType /\ [ListNext]_lst => [ListChanges /\ OrderKept]_lst
  BY ListStep DEF Kept
<1> QED BY <1>1, <1>2, <1>3, PTL DEF ListSpec, ListKeeps
==============================================================================
