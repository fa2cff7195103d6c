----------------------------- MODULE Induction -----------------------------
(***************************************************************************)
(* Induction over the natural numbers, stated with sets: a predicate is     *)
(* proved by collecting the numbers that satisfy it.  And the sizes of      *)
(* intervals and of sets of subsets.                                        *)
(***************************************************************************)
EXTENDS FiniteSetTheorems, TLAPS

(* A set of natural numbers has a least one: of the intervals from 0 to its *)
(* elements, one has no other inside it.                                    *)
LEMMA LeastNatural ==
  ASSUME NEW T \in SUBSET Nat, T # {}
  PROVE  \E x \in T : \A y \in T : x <= y
<1> DEFINE U == {0 .. k : k \in T}
<1>1. U \subseteq FiniteSubsetsOf(Nat)
  <2>1. ASSUME NEW k \in T
        PROVE  0 .. k \in FiniteSubsetsOf(Nat)
    <3>1. IsFiniteSet(0 .. k)
      BY FS_Interval
    <3>2. 0 .. k \in SUBSET Nat
      OBVIOUS
    <3> QED BY <3>1, <3>2 DEF FiniteSubsetsOf
  <2> QED BY <2>1
<1>2. \E u \in U : \A v \in U : ~(<<v, u>> \in StrictSubsetOrdering(Nat))
  <2>1. IsWellFoundedOn(StrictSubsetOrdering(Nat), FiniteSubsetsOf(Nat))
    BY FS_StrictSubsetOrderingWellFounded
  <2>2. U # {}
    OBVIOUS
  <2> HIDE DEF U
  <2> QED BY <1>1, <2>1, <2>2, WFMin
<1>3. PICK x \in T : \A y \in T : ~(<<0 .. y, 0 .. x>> \in StrictSubsetOrdering(Nat))
  BY <1>2
<1>4. ASSUME NEW y \in T, y < x
      PROVE  FALSE
  <2>1. /\ 0 .. y \subseteq 0 .. x /\ 0 .. y # 0 .. x
        /\ 0 .. y \in SUBSET Nat /\ 0 .. x \in SUBSET Nat
    BY <1>4
  <2> QED BY <1>3, <2>1 DEF StrictSubsetOrdering
<1> QED BY <1>4

(* What holds of 0 and of n + 1 whenever it holds of n holds of every n. *)
LEMMA SetInduction ==
  ASSUME NEW S, 0 \in S, \A n \in Nat : n \in S => n + 1 \in S
  PROVE  \A n \in Nat : n \in S
<1> DEFINE T == Nat \ S
<1> SUFFICES ASSUME T # {} PROVE FALSE
  OBVIOUS
<1>1. PICK x \in T : \A y \in T : x <= y
  BY LeastNatural
<1>2. x # 0 /\ x - 1 \in Nat /\ x - 1 \notin T
  BY <1>1
<1> QED BY <1>2

(* A set of natural numbers up to n has a greatest one. *)
LEMMA GreatestNatural ==
  ASSUME NEW n \in Nat, NEW T \in SUBSET (0 .. n), T # {}
  PROVE  \E x \in T : \A y \in T : y <= x
<1> DEFINE U == {n - k : k \in T}
<1>1. U \in SUBSET Nat /\ U # {}
  <2>1. \A k \in T : k \in 0 .. n
    OBVIOUS
  <2>2. \A k \in T : n - k \in Nat
    BY <2>1
  <2> QED BY <2>2
<1>2. \E u \in U : \A v \in U : u <= v
  <2> HIDE DEF U
  <2> QED BY <1>1, LeastNatural
<1>3. PICK x \in T : \A k \in T : n - x <= n - k
  BY <1>2
<1>4. ASSUME NEW y \in T
      PROVE  y <= x
  BY <1>3
<1> QED BY <1>4

(* No more positions fit into m than there are. *)
LEMMA PositionsFit ==
  ASSUME NEW n \in Nat, NEW m \in Nat, NEW f \in [1 .. n -> 1 .. m],
         \A i, j \in 1 .. n : f[i] = f[j] => i = j
  PROVE  n <= m
<1>1. \A k \in Nat : IsFiniteSet(1 .. k) /\ Cardinality(1 .. k) = k
  <2> SUFFICES ASSUME NEW k \in Nat PROVE IsFiniteSet(1 .. k) /\ Cardinality(1 .. k) = k
    OBVIOUS
  <2>1. IsFiniteSet(1 .. k) /\ Cardinality(1 .. k) = IF 1 > k THEN 0 ELSE k - 1 + 1
    BY FS_Interval
  <2> QED BY <2>1
<1>2. f \in Injection(1 .. n, 1 .. m)
  BY DEF Injection, IsInjective
<1>3. Cardinality(1 .. n) <= Cardinality(1 .. m)
  BY <1>1, <1>2, FS_Injection
<1> QED BY <1>1, <1>3

LEMMA OneElement == ASSUME NEW S, \E k : S = {k} PROVE Cardinality(S) = 1
BY FS_Singleton

(* The powers of two, as the numbers of subsets. *)
LEMMA PowerIsNat == ASSUME NEW n \in Nat PROVE 2 ^ n \in Nat /\ Cardinality(SUBSET (1..n)) = 2 ^ n
<1>1. IsFiniteSet(1..n) /\ Cardinality(1..n) = n
  BY FS_Interval
<1>2. IsFiniteSet(SUBSET (1..n)) /\ Cardinality(SUBSET (1..n)) = 2 ^ n
  BY <1>1, FS_SUBSET
<1> QED BY <1>2, FS_CardinalityType

LEMMA PowerOfZero == 2 ^ 0 = 1
<1>1. SUBSET (1..0) = {{}}
  OBVIOUS
<1>2. Cardinality({{}}) = 1
  BY FS_Singleton
<1> QED BY <1>1, <1>2, PowerIsNat

LEMMA PowerDoubles == ASSUME NEW n \in Nat PROVE 2 ^ (n + 1) = 2 ^ n + 2 ^ n
<1> DEFINE S == SUBSET (1..n)
           With == {X \cup {n + 1} : X \in S}
           f == [X \in S |-> X \cup {n + 1}]
<1>1. n + 1 \notin 1..n /\ 1..n + 1 = (1..n) \cup {n + 1}
  OBVIOUS
<1>2. SUBSET (1..n + 1) = S \cup With
  <2>1. ASSUME NEW Y \in SUBSET (1..n + 1), n + 1 \in Y PROVE Y \in With
    <3>1. Y \ {n + 1} \in S /\ Y = (Y \ {n + 1}) \cup {n + 1}
      BY <1>1, <2>1
    <3> QED BY <3>1
  <2>2. ASSUME NEW Y \in SUBSET (1..n + 1), n + 1 \notin Y PROVE Y \in S
    BY <1>1, <2>2
  <2>3. S \cup With \subseteq SUBSET (1..n + 1)
    BY <1>1
  <2> QED BY <2>1, <2>2, <2>3
<1>3. S \cap With = {}
  BY <1>1
<1>4. f \in Bijection(S, With)
  <2>1. f \in [S -> With] /\ \A X \in With : \E Y \in S : f[Y] = X
    OBVIOUS
  <2>2. ASSUME NEW X \in S, NEW Y \in S, f[X] = f[Y] PROVE X = Y
    BY <1>1, <2>2
  <2> HIDE DEF f, S, With
  <2> QED BY <2>1, <2>2 DEF Bijection, Injection, Surjection, IsInjective
<1>5. IsFiniteSet(S) /\ Cardinality(S) = 2 ^ n
  <2>1. IsFiniteSet(1..n)
    BY FS_Interval
  <2>2. IsFiniteSet(SUBSET (1..n))
    BY <2>1, FS_SUBSET
  <2> QED BY <2>2, PowerIsNat
<1>6. IsFiniteSet(With) /\ Cardinality(With) = Cardinality(S)
  <2>1. ExistsBijection(S, With)
    BY <1>4 DEF ExistsBijection
  <2> QED BY <1>5, <2>1, FS_Bijection
<1>7. Cardinality({}) = 0
  BY FS_EmptySet
<1>8. Cardinality(S \cup With) = Cardinality(S) + Cardinality(With) - Cardinality(S \cap With)
  BY <1>5, <1>6, FS_Union
<1>9. Cardinality(SUBSET (1..n + 1)) = 2 ^ (n + 1)
  BY PowerIsNat
<1> HIDE DEF S, With
<1>10. 2 ^ n \in Nat
  BY PowerIsNat
<1>11. Cardinality(S \cup With) = 2 ^ n + 2 ^ n
  <2>1. Cardinality(S \cap With) = 0
    BY <1>3, <1>7
  <2> QED BY <1>5, <1>6, <1>8, <1>10, <2>1
<1> QED BY <1>2, <1>9, <1>11, Zenon

(* A recursion that goes down in a measure mu has a solution. *)
Recurs(U, B, b, nx, f) == f = [p \in U |-> IF p \in B THEN b[p] ELSE f[nx[p]]]
Descends(U, B, nx, mu) == mu \in [U -> Nat] /\ \A p \in U : p \notin B => nx[p] \in U /\ mu[nx[p]] < mu[p]

(* The same up to n. *)
RecursTo(U, B, b, nx, mu, n, f) == Recurs({p \in U : mu[p] <= n}, B, b, nx, f)

LEMMA RecursAgree ==
  ASSUME NEW U, NEW B, NEW b, NEW nx, NEW mu, Descends(U, B, nx, mu), NEW n \in Nat, NEW m \in Nat,
         NEW g, RecursTo(U, B, b, nx, mu, n, g), NEW h, RecursTo(U, B, b, nx, mu, m, h),
         NEW p \in U, mu[p] <= n, mu[p] <= m
  PROVE  g[p] = h[p]
<1> DEFINE S == {k \in Nat : \A q \in U : mu[q] <= k /\ mu[q] <= n /\ mu[q] <= m => g[q] = h[q]}
<1>0. \A q \in U : mu[q] \in Nat
  BY DEF Descends
<1>1. ASSUME NEW q \in U, mu[q] <= n, mu[q] <= m, q \in B \/ g[nx[q]] = h[nx[q]] PROVE g[q] = h[q]
  <2>1. g[q] = IF q \in B THEN b[q] ELSE g[nx[q]]
    BY <1>1 DEF Recurs, RecursTo
  <2>2. h[q] = IF q \in B THEN b[q] ELSE h[nx[q]]
    BY <1>1 DEF Recurs, RecursTo
  <2> QED BY <1>1, <2>1, <2>2
<1>2. ASSUME NEW k \in Nat, \A q \in U : mu[q] < k /\ mu[q] <= n /\ mu[q] <= m => g[q] = h[q]
      PROVE  \A q \in U : mu[q] <= k /\ mu[q] <= n /\ mu[q] <= m => g[q] = h[q]
  <2> SUFFICES ASSUME NEW q \in U, mu[q] <= k, mu[q] <= n, mu[q] <= m PROVE g[q] = h[q]
    OBVIOUS
  <2>1. CASE q \in B
    BY <1>1, <2>1
  <2>2. CASE q \notin B
    <3>1. nx[q] \in U /\ mu[nx[q]] < mu[q]
      BY <2>2 DEF Descends
    <3>2. mu[nx[q]] < k /\ mu[nx[q]] <= n /\ mu[nx[q]] <= m
      BY <1>0, <3>1
    <3> QED BY <1>1, <1>2, <3>1, <3>2
  <2> QED BY <2>1, <2>2
<1>3. 0 \in S
  <2>1. \A q \in U : ~(mu[q] < 0)
    BY <1>0
  <2> QED BY <1>2, <2>1
<1>4. ASSUME NEW k \in Nat, k \in S PROVE k + 1 \in S
  <2>1. \A q \in U : mu[q] < k + 1 => mu[q] <= k
    BY <1>0
  <2>2. k + 1 \in Nat
    OBVIOUS
  <2> QED BY <1>2, <1>4, <2>1, <2>2
<1> HIDE DEF S
<1>5. n \in S
  BY <1>3, <1>4, SetInduction
<1> QED BY <1>5 DEF S

LEMMA RecursExists ==
  ASSUME NEW U, NEW B, NEW b, NEW nx, NEW mu, Descends(U, B, nx, mu)
  PROVE  \E f : Recurs(U, B, b, nx, f)
<1> DEFINE Upto(n) == {p \in U : mu[p] <= n}
           S == {n \in Nat : \E g : Recurs(Upto(n), B, b, nx, g)}
<1>0. \A q \in U : mu[q] \in Nat
  BY DEF Descends
<1>1. ASSUME NEW n \in Nat, NEW g,
             \A p \in U : mu[p] < n /\ p \notin B => g[nx[p]] = IF nx[p] \in B THEN b[nx[p]] ELSE g[nx[nx[p]]],
             \A p \in U : mu[p] = n /\ p \notin B => g[nx[p]] = IF nx[p] \in B THEN b[nx[p]] ELSE g[nx[nx[p]]]
      PROVE  n \in S
  <2> DEFINE h == [p \in Upto(n) |-> IF p \in B THEN b[p] ELSE g[nx[p]]]
  <2>1. ASSUME NEW p \in Upto(n) PROVE h[p] = IF p \in B THEN b[p] ELSE h[nx[p]]
    <3>1. CASE p \in B
      BY <3>1
    <3>2. CASE p \notin B
      <4>1. nx[p] \in U /\ mu[nx[p]] < mu[p]
        BY <3>2 DEF Descends
      <4>2. nx[p] \in Upto(n)
        BY <1>0, <4>1
      <4>3. g[nx[p]] = IF nx[p] \in B THEN b[nx[p]] ELSE g[nx[nx[p]]]
        <5>1. mu[p] < n \/ mu[p] = n
          BY <1>0
        <5> QED BY <1>1, <3>2, <5>1
      <4>4. h[nx[p]] = IF nx[p] \in B THEN b[nx[p]] ELSE g[nx[nx[p]]]
        BY <4>2
      <4> QED BY <3>2, <4>3, <4>4
    <3> QED BY <3>1, <3>2
  <2>2. h = [p \in Upto(n) |-> h[p]]
    OBVIOUS
  <2> HIDE DEF h, Upto
  <2>3. Recurs(Upto(n), B, b, nx, h)
    BY <2>1, <2>2, Zenon DEF Recurs
  <2> QED BY <2>3
<1>2. 0 \in S
  <2>1. \A p \in U : mu[p] < 0 \/ mu[p] = 0 => p \in B
    BY <1>0 DEF Descends
  <2> HIDE DEF S
  <2> QED BY <1>1, <2>1
<1>3. ASSUME NEW n \in Nat, n \in S PROVE n + 1 \in S
  <2>1. PICK g : Recurs(Upto(n), B, b, nx, g)
    BY <1>3
  <2>2. ASSUME NEW p \in U, mu[p] <= n + 1, p \notin B
        PROVE g[nx[p]] = IF nx[p] \in B THEN b[nx[p]] ELSE g[nx[nx[p]]]
    <3>1. nx[p] \in U /\ mu[nx[p]] < mu[p]
      BY <2>2 DEF Descends
    <3>2. nx[p] \in Upto(n)
      BY <1>0, <2>2, <3>1
    <3> QED BY <2>1, <3>2 DEF Recurs
  <2>3. n + 1 \in Nat /\ \A p \in U : (mu[p] < n + 1 \/ mu[p] = n + 1) => mu[p] <= n + 1
    BY <1>0
  <2> HIDE DEF S, Upto
  <2> QED BY <1>1, <2>2, <2>3
<1> HIDE DEF S
<1>4. \A n \in Nat : n \in S
  BY <1>2, <1>3, SetInduction
<1> DEFINE G(n) == CHOOSE g : Recurs(Upto(n), B, b, nx, g)
           f == [p \in U |-> G(mu[p])[p]]
<1>5. ASSUME NEW n \in Nat PROVE Recurs(Upto(n), B, b, nx, G(n))
  <2>1. \E g : Recurs(Upto(n), B, b, nx, g)
    BY <1>4 DEF S
  <2> QED BY <2>1, Zenon
<1> HIDE DEF G
<1>6. ASSUME NEW p \in U PROVE f[p] = IF p \in B THEN b[p] ELSE f[nx[p]]
  <2>1. mu[p] \in Nat /\ p \in Upto(mu[p])
    BY <1>0
  <2>2. f[p] = IF p \in B THEN b[p] ELSE G(mu[p])[nx[p]]
    BY <1>5, <2>1 DEF Recurs
  <2>3. CASE p \notin B
    <3>1. nx[p] \in U /\ mu[nx[p]] \in Nat /\ mu[nx[p]] < mu[p]
      BY <1>0, <2>3 DEF Descends
    <3>2. mu[nx[p]] <= mu[p] /\ mu[nx[p]] <= mu[nx[p]]
      BY <2>1, <3>1
    <3>3. G(mu[p])[nx[p]] = G(mu[nx[p]])[nx[p]]
      <4> DEFINE n == mu[p]
                 q == nx[p]
                 m == mu[q]
                 g == G(n)
                 h == G(m)
      <4>1. /\ n \in Nat /\ m \in Nat /\ q \in U /\ mu[q] <= n /\ mu[q] <= m
            /\ RecursTo(U, B, b, nx, mu, n, g) /\ RecursTo(U, B, b, nx, mu, m, h)
        BY <1>5, <2>1, <3>1, <3>2 DEF RecursTo
      <4> HIDE DEF n, q, m, g, h
      <4>2. g[q] = h[q]
        BY <4>1, RecursAgree
      <4> QED BY <4>2 DEF n, q, m, g, h
    <3>4. f[nx[p]] = G(mu[nx[p]])[nx[p]]
      BY <3>1
    <3> QED BY <2>2, <2>3, <3>3, <3>4
  <2> QED BY <2>2, <2>3
<1>7. f = [p \in U |-> f[p]]
  OBVIOUS
<1> HIDE DEF f
<1>8. Recurs(U, B, b, nx, f)
  BY <1>6, <1>7, Zenon DEF Recurs
<1> QED BY <1>8

(* What leads to the end is kept, and then holds at the end. *)
Leads(U, B, b, nx, I, W) ==
  I \in SUBSET U /\ \A p \in I : IF p \in B THEN b[p] \in W ELSE nx[p] \in I

LEMMA RecursResult ==
  ASSUME NEW U, NEW B, NEW b, NEW nx, NEW mu, Descends(U, B, nx, mu), NEW f, Recurs(U, B, b, nx, f),
         NEW I, NEW W, Leads(U, B, b, nx, I, W), NEW p \in I
  PROVE  f[p] \in W
<1> DEFINE S == {k \in Nat : \A q \in I : mu[q] <= k => f[q] \in W}
<1>0. I \subseteq U /\ \A q \in U : mu[q] \in Nat
  BY DEF Descends, Leads
<1>1. ASSUME NEW k \in Nat, \A q \in I : mu[q] < k => f[q] \in W
      PROVE  \A q \in I : mu[q] <= k => f[q] \in W
  <2> SUFFICES ASSUME NEW q \in I, mu[q] <= k PROVE f[q] \in W
    OBVIOUS
  <2>1. f[q] = IF q \in B THEN b[q] ELSE f[nx[q]]
    BY <1>0 DEF Recurs
  <2>2. CASE q \in B
    BY <2>1, <2>2 DEF Leads
  <2>3. CASE q \notin B
    <3>1. nx[q] \in I /\ mu[nx[q]] < mu[q] /\ mu[nx[q]] \in Nat /\ mu[q] \in Nat
      BY <1>0, <2>3 DEF Descends, Leads
    <3>2. mu[nx[q]] < k
      BY <3>1
    <3> QED BY <1>1, <2>1, <2>3, <3>1, <3>2
  <2> QED BY <2>2, <2>3
<1>2. 0 \in S
  <2>1. \A q \in I : ~(mu[q] < 0)
    BY <1>0
  <2> QED BY <1>1, <2>1
<1>3. ASSUME NEW k \in Nat, k \in S PROVE k + 1 \in S
  <2>1. \A q \in I : mu[q] < k + 1 => mu[q] <= k
    BY <1>0
  <2>2. k + 1 \in Nat
    OBVIOUS
  <2> QED BY <1>1, <1>3, <2>1, <2>2
<1> HIDE DEF S
<1>4. mu[p] \in S
  BY <1>0, <1>2, <1>3, SetInduction
<1>5. mu[p] <= mu[p]
  BY <1>0
<1> QED BY <1>4, <1>5 DEF S

(* A recursion along 0 .. n, with a step that looks at the index, has a solution. *)
Climbs(n, base, G, f) == f = [k \in 0 .. n |-> IF k = 0 THEN base ELSE G[<<f[k - 1], k>>]]

LEMMA ClimbsExists ==
  ASSUME NEW n \in Nat, NEW base, NEW G
  PROVE  \E f : Climbs(n, base, G, f)
<1> DEFINE S == {m \in Nat : \E f : Climbs(m, base, G, f)}
<1>1. 0 \in S
  <2> DEFINE f == [k \in 0 .. 0 |-> base]
  <2>1. f = [k \in 0 .. 0 |-> IF k = 0 THEN base ELSE G[<<f[k - 1], k>>]]
    OBVIOUS
  <2> HIDE DEF f
  <2>2. Climbs(0, base, G, f)
    BY <2>1, Zenon DEF Climbs
  <2> QED BY <2>2
<1>2. ASSUME NEW m \in Nat, m \in S PROVE m + 1 \in S
  <2>1. PICK f : Climbs(m, base, G, f)
    BY <1>2
  <2> DEFINE g == [k \in 0 .. m + 1 |-> IF k = 0 THEN base ELSE G[<<f[k - 1], k>>]]
  <2>2. \A k \in 0 .. m : f[k] = IF k = 0 THEN base ELSE G[<<f[k - 1], k>>]
    BY <2>1 DEF Climbs
  <2>3. \A k \in 0 .. m : g[k] = f[k]
    BY <2>2
  <2>4. \A k \in 0 .. m + 1 : k # 0 => k - 1 \in 0 .. m
    OBVIOUS
  <2>5. ASSUME NEW k \in 0 .. m + 1 PROVE g[k] = IF k = 0 THEN base ELSE G[<<g[k - 1], k>>]
    <3>1. k # 0 => g[k - 1] = f[k - 1]
      BY <2>3, <2>4
    <3> QED BY <3>1
  <2>6. g = [k \in 0 .. m + 1 |-> g[k]]
    OBVIOUS
  <2> HIDE DEF g
  <2>7. Climbs(m + 1, base, G, g)
    BY <2>5, <2>6, Zenon DEF Climbs
  <2> QED BY <2>7
<1> HIDE DEF S
<1>3. n \in S
  BY <1>1, <1>2, SetInduction
<1> QED BY <1>3 DEF S

(* Sets I[k] that a value leads from one into the next hold all the values.  *)
LEMMA ClimbsTo ==
  ASSUME NEW n \in Nat, NEW f, NEW I, f[0] \in I[0],
         \A k \in 0 .. n - 1 : f[k] \in I[k] => f[k + 1] \in I[k + 1]
  PROVE  \A k \in 0 .. n : f[k] \in I[k]
<1> DEFINE S == {k \in Nat : k <= n => f[k] \in I[k]}
<1>1. 0 \in S
  OBVIOUS
<1>2. ASSUME NEW k \in Nat, k \in S PROVE k + 1 \in S
  <2>1. k + 1 <= n => k \in 0 .. n - 1 /\ k <= n
    OBVIOUS
  <2> QED BY <1>2, <2>1
<1> HIDE DEF S
<1>3. \A k \in Nat : k \in S
  BY <1>1, <1>2, SetInduction
<1> QED BY <1>3 DEF S

(* A recursion along 0 .. n whose steps stay in W has a solution with values in W. *)
StepsIn(W, n, G) == \A w \in W : \A k \in 1..n : G[<<w, k>>] \in W
ClimbsIn(W, n, base, G, f) == Climbs(n, base, G, f) /\ \A k \in 0..n : f[k] \in W

LEMMA ClimbsWithin ==
  ASSUME NEW n \in Nat, NEW W, NEW base \in W, NEW G, StepsIn(W, n, G)
  PROVE  \E f : ClimbsIn(W, n, base, G, f)
<1> DEFINE I == [k \in 0..n |-> W]
<1>1. PICK f : Climbs(n, base, G, f)
  BY ClimbsExists
<1>2. f = [k \in 0..n |-> IF k = 0 THEN base ELSE G[<<f[k - 1], k>>]]
  BY <1>1 DEF Climbs
<1>3. f[0] = base /\ \A k \in 0..n - 1 : f[k + 1] = G[<<f[k], k + 1>>]
  BY <1>2
<1>4. f[0] \in I[0]
  BY <1>3
<1>5. ASSUME NEW k \in 0..n - 1, f[k] \in I[k] PROVE f[k + 1] \in I[k + 1]
  <2>1. k \in 0..n /\ k + 1 \in 0..n /\ k + 1 \in 1..n
    OBVIOUS
  <2>2. f[k] \in W
    BY <1>5, <2>1
  <2>3. f[k + 1] \in W
    BY <1>3, <2>1, <2>2 DEF StepsIn
  <2> QED BY <2>1, <2>3
<1>6. \A k \in 0..n : I[k] = W
  OBVIOUS
<1> HIDE DEF I
<1>7. \A k \in 0..n : f[k] \in I[k]
  BY <1>4, <1>5, ClimbsTo
<1> QED BY <1>1, <1>6, <1>7 DEF ClimbsIn
=============================================================================
