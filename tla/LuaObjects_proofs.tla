-------------------------- MODULE LuaObjects_proofs --------------------------
(***************************************************************************)
(* What is promised about objects, for any of them.  The cache of absent   *)
(* events is sound, and lookup, storing and comparing through it find what *)
(* they would find without it.  What luaV_concat leaves on the stack means *)
(* what the whole row means.  A state that is closed has called its        *)
(* finalizers in their order, and has given all memory back.               *)
(***************************************************************************)
EXTENDS LuaMeta, LuaConcat, LuaState, Induction, SequenceTheorems, TLAPS

------------------------------------------------------------------------------
(* Heaps whose tables have the events E, and whose flags are sound. *)

FieldValues == Methods \cup Tables \cup {Nil, Plain}
Nodes(E) == [fields : [E \cup {Field} -> FieldValues], flags : SUBSET E, mt : Tables \cup {NoMeta}]
Good(h, E) ==
  /\ h \in [Tables -> Nodes(E)] /\ Field \notin E
  /\ \A t \in Tables : \A event \in E : h[t].fields[event] # Plain
  /\ \A t \in Tables : \A event \in h[t].flags : h[t].fields[event] = Nil

(* The same but for the flags. *)
Alike(h, g) == \A s \in Tables : h[s].fields = g[s].fields /\ h[s].mt = g[s].mt

Meta(h, mt, event, E) == IF mt = NoMeta \/ event \notin E THEN Nil ELSE h[mt].fields[event]

LEMMA SomeTable == (CHOOSE t \in Tables : TRUE) \in Tables
BY MetaAssumption

LEMMA Different ==
  /\ Nil \notin Tables /\ Nil \notin Methods /\ Plain \notin Tables /\ Plain \notin Methods
  /\ NoMeta \notin Tables /\ Nil # Plain /\ \A t \in Tables : t \notin Methods
<1>1. \A x \in {Nil, Plain, NoMeta} : x \notin Tables \cup Methods
  BY MetaAssumption
<1>2. \A t \in Tables : t \notin Methods
  BY MetaAssumption
<1>3. Nil # Plain
  BY DEF Nil, Plain
<1> QED BY <1>1, <1>2, <1>3

LEMMA GoodEvents == ASSUME NEW h, NEW E, Good(h, E) PROVE Events(h) = E
<1> DEFINE t == CHOOSE t \in Tables : TRUE
<1>1. t \in Tables
  BY SomeTable
<1> HIDE DEF t
<1>2. DOMAIN h[t].fields = E \cup {Field} /\ Field \notin E
  BY <1>1 DEF Good, Nodes
<1>3. Events(h) = DOMAIN h[t].fields \ {Field}
  BY Zenon DEF Events, t
<1> QED BY <1>2, <1>3

LEMMA GoodNode ==
  ASSUME NEW h, NEW E, Good(h, E), NEW t \in Tables
  PROVE  /\ h[t].fields \in [E \cup {Field} -> FieldValues] /\ h[t].flags \in SUBSET E
         /\ h[t].mt \in Tables \cup {NoMeta}
BY DEF Good, Nodes

(* A metamethod found through the cache is the one that is there. *)
LEMMA FastIsMeta ==
  ASSUME NEW h, NEW E, Good(h, E), NEW mt \in Tables \cup {NoMeta}, NEW event
  PROVE  /\ fasttm(h, mt, event) = Meta(h, mt, event, E)
         /\ Meta(h, mt, event, E) \in Methods \cup Tables \cup {Nil}
<1>1. Events(h) = E
  BY GoodEvents
<1>2. CASE mt = NoMeta \/ event \notin E
  BY <1>1, <1>2 DEF fasttm, Meta
<1>3. CASE mt # NoMeta /\ event \in E
  <2>1. mt \in Tables
    BY <1>3
  <2>2. h[mt].fields[event] \in FieldValues /\ h[mt].fields[event] # Plain
    <3>1. h[mt].fields \in [E \cup {Field} -> FieldValues]
      BY <2>1, GoodNode
    <3>2. h[mt].fields[event] # Plain
      BY <1>3, <2>1 DEF Good
    <3> QED BY <1>3, <3>1, <3>2
  <2>3. event \in h[mt].flags => h[mt].fields[event] = Nil
    BY <2>1 DEF Good
  <2>4. fasttm(h, mt, event) = IF event \in h[mt].flags THEN Nil ELSE h[mt].fields[event]
    BY <1>1, <1>3, Zenon DEF fasttm
  <2>5. Meta(h, mt, event, E) = h[mt].fields[event]
    BY <1>3, Zenon DEF Meta
  <2> QED BY <2>2, <2>3, <2>4, <2>5 DEF FieldValues
<1> QED BY <1>2, <1>3

(* The handler of a table in any heap that is like another. *)
LEMMA AlikeMeta ==
  ASSUME NEW h, NEW g, Alike(h, g), NEW E, NEW t \in Tables, NEW event, g[t].mt \in Tables \cup {NoMeta}
  PROVE  Meta(h, h[t].mt, event, E) = Meta(g, g[t].mt, event, E)
BY DEF Alike, Meta

LEMMA FlagsKeep ==
  ASSUME NEW h, NEW E, Good(h, E), NEW t \in Tables, NEW F \in SUBSET E,
         \A event \in F : h[t].fields[event] = Nil, NEW g, g = [h EXCEPT ![t].flags = F]
  PROVE  Good(g, E) /\ Alike(g, h)
<1>1. /\ h \in [Tables -> Nodes(E)] /\ h[t] \in Nodes(E)
  BY DEF Good
<1>2. g[t] = [h[t] EXCEPT !.flags = F] /\ \A s \in Tables : s # t => g[s] = h[s]
  BY <1>1
<1>3. g[t] \in Nodes(E) /\ g[t].fields = h[t].fields /\ g[t].mt = h[t].mt /\ g[t].flags = F
  BY <1>1, <1>2 DEF Nodes
<1>4. g \in [Tables -> Nodes(E)]
  BY <1>1, <1>3
<1>5. Alike(g, h)
  BY <1>2, <1>3 DEF Alike
<1>6. \A s \in Tables : \A event \in E : g[s].fields[event] # Plain
  BY <1>5 DEF Alike, Good
<1>7. ASSUME NEW s \in Tables, NEW event \in g[s].flags PROVE g[s].fields[event] = Nil
  <2>1. CASE s = t
    BY <1>3, <1>7, <2>1
  <2>2. CASE s # t
    <3>1. g[s] = h[s]
      BY <1>2, <2>2
    <3> QED BY <1>7, <3>1 DEF Good
  <2> QED BY <2>1, <2>2
<1>8. Good(g, E)
  BY <1>4, <1>6, <1>7 DEF Good
<1> QED BY <1>5, <1>8

LEMMA CachedKeeps ==
  ASSUME NEW h, NEW E, Good(h, E), NEW mt \in Tables \cup {NoMeta}, NEW event
  PROVE  Good(Cached(h, mt, event), E) /\ Alike(Cached(h, mt, event), h)
<1>1. Events(h) = E
  BY GoodEvents
<1>2. CASE ~(mt # NoMeta /\ event \in Events(h) /\ h[mt].fields[event] = Nil)
  BY <1>2 DEF Cached, Alike
<1>3. CASE mt # NoMeta /\ event \in Events(h) /\ h[mt].fields[event] = Nil
  <2> DEFINE F == h[mt].flags \cup {event}
  <2>1. mt \in Tables
    BY <1>3
  <2>2. F \in SUBSET E /\ \A e \in F : h[mt].fields[e] = Nil
    BY <1>1, <1>3, <2>1, GoodNode DEF Good
  <2>3. Cached(h, mt, event) = [h EXCEPT ![mt].flags = F]
    BY <1>3 DEF Cached
  <2> HIDE DEF F
  <2> QED BY <2>1, <2>2, <2>3, FlagsKeep
<1> QED BY <1>2, <1>3

LEMMA luaH_setKeeps ==
  ASSUME NEW h, NEW E, Good(h, E), NEW t \in Tables
  PROVE  Good(luaH_set(h, t), E) /\ Alike(luaH_set(h, t), h)
<1>1. luaH_set(h, t) = [h EXCEPT ![t].flags = {}]
  BY DEF luaH_set
<1>2. {} \in SUBSET E /\ \A event \in {} : h[t].fields[event] = Nil
  OBVIOUS
<1> QED BY <1>1, <1>2, FlagsKeep

LEMMA AlikeTwice ==
  ASSUME NEW h, NEW g, NEW k, Alike(h, g), Alike(g, k) PROVE Alike(h, k)
BY DEF Alike

(* A store, into a table whose flags are cleared with it. *)
LEMMA StoredKeeps ==
  ASSUME NEW h, NEW E, Good(h, E), NEW t \in Tables, NEW key \in E \cup {Field}, NEW v \in FieldValues,
         key = Field \/ v # Plain, NEW g, g = Stored(h, t, key, v) \/ (h[t].flags = {} /\ g = [h EXCEPT ![t].fields[key] = v])
  PROVE  Good(g, E)
<1>1. h \in [Tables -> Nodes(E)] /\ h[t] \in Nodes(E) /\ h[t].fields \in [E \cup {Field} -> FieldValues]
  BY DEF Good, Nodes
<1>2. /\ g \in [Tables -> Nodes(E)] /\ \A s \in Tables : s # t => g[s] = h[s]
      /\ g[t].fields = [h[t].fields EXCEPT ![key] = v] /\ g[t].flags = {}
  <2>1. CASE g = Stored(h, t, key, v)
    <3>1. g = [h EXCEPT ![t] = [h[t] EXCEPT !.fields = [h[t].fields EXCEPT ![key] = v], !.flags = {}]]
      BY <1>1, <2>1 DEF Stored, Nodes
    <3>2. [h[t] EXCEPT !.fields = [h[t].fields EXCEPT ![key] = v], !.flags = {}] \in Nodes(E)
      BY <1>1 DEF Nodes
    <3> QED BY <1>1, <3>1, <3>2 DEF Nodes
  <2>2. CASE h[t].flags = {} /\ g = [h EXCEPT ![t].fields[key] = v]
    <3>1. g = [h EXCEPT ![t] = [h[t] EXCEPT !.fields = [h[t].fields EXCEPT ![key] = v]]]
      BY <1>1, <2>2 DEF Nodes
    <3>2. [h[t] EXCEPT !.fields = [h[t].fields EXCEPT ![key] = v]] \in Nodes(E)
      BY <1>1 DEF Nodes
    <3> QED BY <1>1, <2>2, <3>1, <3>2 DEF Nodes
  <2> QED BY <2>1, <2>2
<1>3. ASSUME NEW s \in Tables, NEW event \in E PROVE g[s].fields[event] # Plain
  <2>1. event # Field
    BY DEF Good
  <2>2. CASE s # t
    BY <1>2, <2>2 DEF Good
  <2>3. CASE s = t
    BY <1>1, <1>2, <2>1, <2>3 DEF Good
  <2> QED BY <2>2, <2>3
<1>4. ASSUME NEW s \in Tables, NEW event \in g[s].flags PROVE g[s].fields[event] = Nil
  BY <1>2, <1>4 DEF Good
<1> QED BY <1>2, <1>3, <1>4 DEF Good

------------------------------------------------------------------------------
(* The tables that a search goes through.                                    *)

Path(t, key, event, n, p) ==
  /\ p \in [0..n -> Tables] /\ p[0] = t
  /\ \A j \in 0..n - 1 : ~Stops(p[j], key, event) /\ p[j + 1] = Handler(p[j], event)
Reaches(t, key, event, n, e) == \E p : Path(t, key, event, n, p) /\ p[n] = e

LEMMA ReachesStart == ASSUME NEW t \in Tables, NEW key, NEW event PROVE Reaches(t, key, event, 0, t)
<1> DEFINE p == [j \in 0..0 |-> t]
<1>1. p \in [0..0 -> Tables] /\ p[0] = t /\ 0..0 - 1 = {}
  OBVIOUS
<1> HIDE DEF p
<1>2. Path(t, key, event, 0, p)
  BY <1>1 DEF Path
<1> QED BY <1>1, <1>2 DEF Reaches

LEMMA ReachesOn ==
  ASSUME NEW t, NEW key, NEW event, NEW n \in Nat, NEW e, Reaches(t, key, event, n, e), ~Stops(e, key, event)
  PROVE  Handler(e, event) \in Tables /\ Reaches(t, key, event, n + 1, Handler(e, event))
<1>1. PICK p : Path(t, key, event, n, p) /\ p[n] = e
  BY DEF Reaches
<1> DEFINE q == [j \in 0..n + 1 |-> IF j = n + 1 THEN Handler(e, event) ELSE p[j]]
<1>2. Handler(e, event) \in Tables
  BY DEF Stops
<1>3. \A j \in 0..n + 1 : j # n + 1 => j \in 0..n
  OBVIOUS
<1>4. p \in [0..n -> Tables] /\ p[0] = t
  BY <1>1 DEF Path
<1>5. q \in [0..n + 1 -> Tables]
  BY <1>2, <1>3, <1>4
<1>6. q[n + 1] = Handler(e, event) /\ \A j \in 0..n : q[j] = p[j]
  OBVIOUS
<1> HIDE DEF q
<1>7. ASSUME NEW j \in 0..(n + 1) - 1 PROVE ~Stops(q[j], key, event) /\ q[j + 1] = Handler(q[j], event)
  <2>1. CASE j = n
    <3>1. q[j] = e /\ q[j + 1] = Handler(e, event)
      BY <1>1, <1>6, <2>1
    <3> QED BY <3>1, Zenon
  <2>2. CASE j # n
    <3>1. j \in 0..n - 1 /\ j \in 0..n /\ j + 1 \in 0..n
      BY <2>2
    <3>2. ~Stops(p[j], key, event) /\ p[j + 1] = Handler(p[j], event)
      BY <1>1, <3>1 DEF Path
    <3>3. q[j] = p[j] /\ q[j + 1] = p[j + 1]
      BY <1>6, <3>1
    <3> QED BY <3>2, <3>3, Zenon
  <2> QED BY <2>1, <2>2
<1>8. q[0] = t
  BY <1>4, <1>6
<1>9. Path(t, key, event, n + 1, q)
  BY <1>5, <1>7, <1>8 DEF Path
<1> QED BY <1>2, <1>6, <1>9 DEF Reaches

(* All that a path goes through is searched. *)
LEMMA PathSearched ==
  ASSUME NEW t, NEW key, NEW event, NEW n \in Nat, NEW p, Path(t, key, event, n, p)
  PROVE  \A j \in 0..n : p[j] \in Searched(t, key, event)
<1>1. p \in [0..n -> Tables] /\ p[0] = t
  BY DEF Path
<1>2. ASSUME NEW S \in SUBSET Tables, t \in S, Closed(S, key, event) PROVE \A j \in 0..n : p[j] \in S
  <2> DEFINE I == [j \in 0..n |-> S]
  <2>1. \A j \in 0..n : I[j] = S
    OBVIOUS
  <2>2. p[0] \in I[0]
    BY <1>1, <1>2
  <2>3. ASSUME NEW j \in 0..n - 1, p[j] \in I[j] PROVE p[j + 1] \in I[j + 1]
    <3>1. j \in 0..n /\ j + 1 \in 0..n
      OBVIOUS
    <3>2. ~Stops(p[j], key, event) /\ p[j + 1] = Handler(p[j], event)
      BY DEF Path
    <3>3. p[j] \in S
      BY <2>3, <3>1
    <3>4. Handler(p[j], event) \in S
      BY <1>2, <3>2, <3>3 DEF Closed
    <3> QED BY <3>1, <3>2, <3>4
  <2> HIDE DEF I
  <2>4. \A j \in 0..n : p[j] \in I[j]
    BY <2>2, <2>3, ClimbsTo
  <2> QED BY <2>1, <2>4
<1> QED BY <1>1, <1>2 DEF Searched

LEMMA SearchedWithin ==
  ASSUME NEW t, NEW key, NEW event, NEW S \in SUBSET Tables, t \in S, Closed(S, key, event)
  PROVE  Searched(t, key, event) \subseteq S
BY DEF Searched

(* A path that stops is the whole search. *)
LEMMA PathEnds ==
  ASSUME NEW t, NEW key, NEW event, NEW n \in Nat, NEW e, Reaches(t, key, event, n, e), Stops(e, key, event), n < MAXTAGLOOP
  PROVE  /\ ~Refuses(t, key, event)
         /\ \A s \in Searched(t, key, event) : Stops(s, key, event) => s = e
<1>1. PICK p : Path(t, key, event, n, p) /\ p[n] = e
  BY DEF Reaches
<1> DEFINE S == {p[j] : j \in 0..n}
<1>2. /\ p \in [0..n -> Tables] /\ p[0] = t
      /\ \A j \in 0..n - 1 : ~Stops(p[j], key, event) /\ p[j + 1] = Handler(p[j], event)
  BY <1>1 DEF Path
<1>3. S \in SUBSET Tables /\ t \in S
  BY <1>2
<1>4. ASSUME NEW s \in S, ~Stops(s, key, event) PROVE Handler(s, event) \in S
  <2>1. PICK j \in 0..n : s = p[j]
    OBVIOUS
  <2>2. j # n
    BY <1>1, <1>4, <2>1
  <2>3. j \in 0..n - 1 /\ j + 1 \in 0..n
    BY <2>2
  <2> QED BY <1>2, <2>1, <2>3
<1>5. Closed(S, key, event)
  BY <1>4 DEF Closed
<1>6. ASSUME NEW s \in S, Stops(s, key, event) PROVE s = e
  <2>1. PICK j \in 0..n : s = p[j]
    OBVIOUS
  <2>2. j \notin 0..n - 1
    BY <1>2, <1>6, <2>1
  <2>3. j = n
    BY <2>2
  <2> QED BY <1>1, <2>1, <2>3
<1>7. IsFiniteSet(S) /\ Cardinality(S) <= n + 1 /\ Cardinality(S) \in Nat
  <2>1. IsFiniteSet(0..n) /\ Cardinality(0..n) = n + 1
    BY FS_Interval
  <2>2. p \in [0..n -> S] /\ \A x \in S : \E j \in 0..n : p[j] = x
    BY <1>2
  <2> HIDE DEF S
  <2>3. p \in Surjection(0..n, S)
    BY <2>2 DEF Surjection
  <2> QED BY <2>1, <2>3, FS_Surjection, FS_CardinalityType
<1> HIDE DEF S
<1>8. Searched(t, key, event) \subseteq S
  BY <1>3, <1>5, SearchedWithin
<1>9. Cardinality(Searched(t, key, event)) <= Cardinality(S) /\ Cardinality(Searched(t, key, event)) \in Nat
  BY <1>7, <1>8, FS_Subset, FS_CardinalityType
<1>10. ~(Cardinality(Searched(t, key, event)) > MAXTAGLOOP)
  <2> DEFINE c == Cardinality(Searched(t, key, event))
             d == Cardinality(S)
  <2>1. c \in Nat /\ d \in Nat /\ c <= d /\ d <= n + 1 /\ MAXTAGLOOP \in Nat
    BY <1>7, <1>9, MetaAssumption
  <2> HIDE DEF c, d
  <2>2. ~(c > MAXTAGLOOP)
    BY <2>1
  <2> QED BY <2>2 DEF c
<1>11. e \in Searched(t, key, event)
  BY <1>1, PathSearched
<1> QED BY <1>6, <1>8, <1>10, <1>11, Zenon DEF Refuses

(* One that has not stopped after MAXTAGLOOP tables goes round in a circle *)
(* or through more of them.                                                *)
LEMMA PathEndless ==
  ASSUME NEW t, NEW key, NEW event, NEW e, Reaches(t, key, event, MAXTAGLOOP, e)
  PROVE  Refuses(t, key, event)
<1> DEFINE n == MAXTAGLOOP
           T == Searched(t, key, event)
<1>1. PICK p : Path(t, key, event, n, p)
  BY DEF Reaches
<1>2. n \in Nat /\ IsFiniteSet(Tables)
  BY MetaAssumption
<1> HIDE DEF n
<1>3. /\ p \in [0..n -> Tables] /\ p[0] = t
      /\ \A j \in 0..n - 1 : ~Stops(p[j], key, event) /\ p[j + 1] = Handler(p[j], event)
  BY <1>1, Zenon DEF Path
<1>4. T \subseteq Tables
  BY DEF Searched
<1>5. \A j \in 0..n : p[j] \in T
  BY <1>1, <1>2, PathSearched
<1> HIDE DEF T
<1>6. IsFiniteSet(T) /\ Cardinality(T) \in Nat
  BY <1>2, <1>4, FS_Subset, FS_CardinalityType
<1>7. ASSUME NEW i \in 0..n, NEW j \in 0..n, i < j, p[i] = p[j] PROVE \A s \in T : ~Stops(s, key, event)
  <2> DEFINE S == {p[k] : k \in 0..j - 1}
  <2>1. /\ \A k \in 0..j - 1 : k \in 0..n - 1 /\ k \in 0..n
        /\ i \in 0..j - 1 /\ 0 \in 0..j - 1 /\ \A k \in 0..j - 1 : k + 1 \in 0..j - 1 \/ k + 1 = j
    BY <1>2, <1>7
  <2>2. S \in SUBSET Tables /\ t \in S /\ \A s \in S : ~Stops(s, key, event)
    BY <1>3, <2>1
  <2>3. ASSUME NEW s \in S PROVE Handler(s, event) \in S
    <3>1. PICK k \in 0..j - 1 : s = p[k]
      OBVIOUS
    <3>2. p[k + 1] = Handler(s, event)
      BY <1>3, <2>1, <3>1
    <3>3. CASE k + 1 \in 0..j - 1
      BY <3>2, <3>3
    <3>4. CASE k + 1 = j
      BY <1>7, <2>1, <3>2, <3>4
    <3> QED BY <2>1, <3>3, <3>4
  <2> HIDE DEF S
  <2>4. Closed(S, key, event)
    BY <2>3 DEF Closed
  <2>5. T \subseteq S
    BY <2>2, <2>4, SearchedWithin DEF T
  <2> QED BY <2>2, <2>5
<1>8. CASE Cardinality(T) > n
  BY <1>8 DEF Refuses, T, n
<1>9. CASE ~(Cardinality(T) > n)
  <2>1. IsFiniteSet(0..n) /\ Cardinality(0..n) = n + 1
    BY <1>2, FS_Interval
  <2>2. Cardinality(T) < Cardinality(0..n)
    BY <1>2, <1>6, <1>9, <2>1
  <2>3. p \in [0..n -> T]
    BY <1>3, <1>5
  <2>4. PICK x \in 0..n, y \in 0..n : x # y /\ p[x] = p[y]
    BY <1>6, <2>1, <2>2, <2>3, FS_PigeonHole
  <2>5. x < y \/ y < x
    BY <1>2, <2>4
  <2>6. \A s \in T : ~Stops(s, key, event)
    BY <1>7, <2>4, <2>5
  <2> QED BY <2>6 DEF Refuses, T
<1> QED BY <1>8, <1>9

------------------------------------------------------------------------------
(* One turn of a search through heaps like g.                                *)

Heaps(g, E) == {h \in [Tables -> Nodes(E)] : Good(h, E) /\ Alike(h, g)}
Gets(g, E) == [what : {"next", "value", "call"}, v : FieldValues, t : Tables, h : Heaps(g, E)]

LEMMA HeapsAre == ASSUME NEW g, NEW E, NEW h PROVE h \in Heaps(g, E) <=> Good(h, E) /\ Alike(h, g)
BY DEF Heaps, Good

LEMMA CachedHeap ==
  ASSUME NEW g, NEW E, NEW h \in Heaps(g, E), NEW mt \in Tables \cup {NoMeta}, NEW event
  PROVE  Cached(h, mt, event) \in Heaps(g, E)
BY HeapsAre, CachedKeeps, AlikeTwice

LEMMA ClearedHeap ==
  ASSUME NEW g, NEW E, NEW h \in Heaps(g, E), NEW t \in Tables PROVE luaH_set(h, t) \in Heaps(g, E)
BY HeapsAre, luaH_setKeeps, AlikeTwice

(* What a heap of Heaps says of a table: what g says. *)
LEMMA HeapSays ==
  ASSUME NEW g, NEW E, Good(g, E), NEW h \in Heaps(g, E), NEW t \in Tables, NEW event
  PROVE  /\ h[t].fields = g[t].fields /\ h[t].mt = g[t].mt /\ h[t].mt \in Tables \cup {NoMeta}
         /\ fasttm(h, h[t].mt, event) = Meta(g, g[t].mt, event, E)
<1>1. Good(h, E) /\ Alike(h, g)
  BY HeapsAre
<1>2. h[t].fields = g[t].fields /\ h[t].mt = g[t].mt /\ h[t].mt \in Tables \cup {NoMeta}
  BY <1>1, GoodNode DEF Alike
<1>3. fasttm(h, h[t].mt, event) = Meta(h, h[t].mt, event, E)
  BY <1>1, <1>2, FastIsMeta
<1>4. Meta(h, h[t].mt, event, E) = Meta(g, g[t].mt, event, E)
  BY <1>1, <1>2, AlikeMeta
<1> QED BY <1>2, <1>3, <1>4

(* How a turn in table t is to come out, of a value tm found in it. *)
GetOutcome(x, y, res, tm) ==
  IF res # Nil THEN y.what = "value" /\ y.v = res
  ELSE IF tm = Nil THEN y.what = "value" /\ y.v = x.v
  ELSE IF tm \in Methods THEN y.what = "call" /\ y.v = tm
  ELSE y.what = "next" /\ y.v = x.v /\ y.t = tm /\ tm \in Tables

LEMMA GetTurnIs ==
  ASSUME NEW g, NEW E, Good(g, E), NEW x \in Gets(g, E), NEW key \in E \cup {Field}
  PROVE  /\ GetTurn(x, key) \in Gets(g, E)
         /\ x.what # "next" => GetTurn(x, key) = x
         /\ x.what = "next" => GetOutcome(x, GetTurn(x, key), g[x.t].fields[key], Meta(g, g[x.t].mt, "__index", E))
<1> DEFINE y == GetTurn(x, key)
           res == x.h[x.t].fields[key]
           mt == x.h[x.t].mt
           tm == fasttm(x.h, mt, "__index")
           h1 == Cached(x.h, mt, "__index")
<1>1. x.what \in {"next", "value", "call"} /\ x.v \in FieldValues /\ x.t \in Tables /\ x.h \in Heaps(g, E)
  BY DEF Gets
<1>2. /\ res = g[x.t].fields[key] /\ mt \in Tables \cup {NoMeta}
      /\ tm = Meta(g, g[x.t].mt, "__index", E)
  BY <1>1, HeapSays
<1>3. g[x.t].mt \in Tables \cup {NoMeta} /\ g[x.t].fields[key] \in FieldValues
  <2>1. g[x.t].fields \in [E \cup {Field} -> FieldValues] /\ g[x.t].mt \in Tables \cup {NoMeta}
    BY <1>1, GoodNode
  <2> QED BY <2>1
<1>4. tm \in Methods \cup Tables \cup {Nil}
  BY <1>2, <1>3, FastIsMeta
<1>5. h1 \in Heaps(g, E)
  BY <1>1, <1>2, CachedHeap
<1>6. y = IF x.what # "next" THEN x
          ELSE IF res # Nil THEN [x EXCEPT !.what = "value", !.v = res]
          ELSE IF tm = Nil THEN [x EXCEPT !.what = "value", !.h = h1]
          ELSE IF tm \in Methods THEN [x EXCEPT !.what = "call", !.v = tm, !.h = h1]
          ELSE [x EXCEPT !.t = tm, !.h = h1]
  BY Zenon DEF GetTurn, IsFunction
<1> HIDE DEF y, res, mt, tm, h1
<1>7. y \in Gets(g, E) /\ (x.what # "next" => y = x) /\ (x.what = "next" => GetOutcome(x, y, res, tm))
  <2>1. CASE x.what # "next"
    BY <1>6, <2>1
  <2>2. CASE x.what = "next" /\ res # Nil
    <3>1. y = [x EXCEPT !.what = "value", !.v = res]
      BY <1>6, <2>2
    <3>2. res \in FieldValues
      BY <1>2, <1>3
    <3>3. y \in Gets(g, E) /\ y.what = "value" /\ y.v = res
      BY <3>1, <3>2 DEF Gets
    <3> QED BY <2>2, <3>3 DEF GetOutcome
  <2>3. CASE x.what = "next" /\ res = Nil /\ tm = Nil
    <3>1. y = [x EXCEPT !.what = "value", !.h = h1]
      BY <1>6, <2>3
    <3>2. y \in Gets(g, E) /\ y.what = "value" /\ y.v = x.v
      BY <1>5, <3>1 DEF Gets
    <3> QED BY <2>3, <3>2 DEF GetOutcome
  <2>4. CASE x.what = "next" /\ res = Nil /\ tm # Nil /\ tm \in Methods
    <3>1. y = [x EXCEPT !.what = "call", !.v = tm, !.h = h1]
      BY <1>6, <2>4
    <3>2. tm \in FieldValues
      BY <2>4 DEF FieldValues
    <3>3. y \in Gets(g, E) /\ y.what = "call" /\ y.v = tm
      BY <1>5, <3>1, <3>2 DEF Gets
    <3> QED BY <2>4, <3>3 DEF GetOutcome
  <2>5. CASE x.what = "next" /\ res = Nil /\ tm # Nil /\ tm \notin Methods
    <3>1. y = [x EXCEPT !.t = tm, !.h = h1]
      BY <1>6, <2>5
    <3>2. tm \in Tables
      BY <1>4, <2>5
    <3>3. y \in Gets(g, E) /\ y.what = "next" /\ y.v = x.v /\ y.t = tm
      BY <1>5, <2>5, <3>1, <3>2 DEF Gets
    <3> QED BY <2>5, <3>2, <3>3 DEF GetOutcome
  <2> QED BY <2>1, <2>2, <2>3, <2>4, <2>5
<1> QED BY <1>2, <1>7 DEF y

(* A store: the heap is like g until it is done, and then but for one field. *)
Stores(g, t, key, v, h) ==
  \A s \in Tables : h[s].fields = IF s = t THEN [g[s].fields EXCEPT ![key] = v] ELSE g[s].fields
Sets(E) == [what : {"next", "call", "stored"}, v : FieldValues, t : Tables, h : [Tables -> Nodes(E)]]
SetState(g, E, key, v, x) ==
  /\ x \in Sets(E)
  /\ (key = Field \/ v # Plain) => Good(x.h, E)
  /\ \/ x.what \in {"next", "call"} /\ x.h \in Heaps(g, E)
     \/ x.what = "stored" /\ Stores(g, x.t, key, v, x.h)
SetOutcome(x, y, res, tm) ==
  IF res # Nil \/ tm = Nil THEN y.what = "stored" /\ y.t = x.t
  ELSE IF tm \in Methods THEN y.what = "call"
  ELSE y.what = "next" /\ y.t = tm /\ tm \in Tables

LEMMA StoredFields ==
  ASSUME NEW g, NEW E, NEW h \in Heaps(g, E), NEW t \in Tables, NEW key \in E \cup {Field}, NEW v
  PROVE  Stores(g, t, key, v, Stored(h, t, key, v))
<1> DEFINE k == Stored(h, t, key, v)
           f == [h[t].fields EXCEPT ![key] = v]
<1>1. h \in [Tables -> Nodes(E)] /\ h[t] \in Nodes(E)
  BY DEF Heaps
<1>2. k = [h EXCEPT ![t] = [h[t] EXCEPT !.fields = f, !.flags = {}]]
  BY <1>1 DEF Stored, Nodes
<1> HIDE DEF k, f
<1>3. k[t].fields = f /\ \A s \in Tables : s # t => k[s] = h[s]
  BY <1>1, <1>2 DEF Nodes
<1>4. \A s \in Tables : h[s].fields = g[s].fields
  BY HeapsAre DEF Alike
<1>5. f = [g[t].fields EXCEPT ![key] = v]
  BY <1>4 DEF f
<1>6. \A s \in Tables : k[s].fields = IF s = t THEN [g[s].fields EXCEPT ![key] = v] ELSE g[s].fields
  BY <1>3, <1>4, <1>5
<1> QED BY <1>6, Zenon DEF Stores, k

LEMMA SetTurnIs ==
  ASSUME NEW g, NEW E, Good(g, E), NEW key \in E \cup {Field}, NEW v \in FieldValues,
         NEW x, SetState(g, E, key, v, x)
  PROVE  LET y == SetTurn(x, key, v)
         IN /\ SetState(g, E, key, v, y)
            /\ x.what # "next" => y = x
            /\ x.what = "next" => SetOutcome(x, y, g[x.t].fields[key], Meta(g, g[x.t].mt, "__newindex", E))
<1> DEFINE y == SetTurn(x, key, v)
           R == Sets(E)
           res == x.h[x.t].fields[key]
           mt == x.h[x.t].mt
           h0 == luaH_set(x.h, x.t)
           tm == fasttm(h0, mt, "__newindex")
           h1 == Cached(h0, mt, "__newindex")
           s0 == Stored(h0, x.t, key, v)
           s1 == Stored(h1, x.t, key, v)
<1>1. y = IF x.what # "next" THEN x
          ELSE IF res # Nil THEN [x EXCEPT !.what = "stored", !.h = s0]
          ELSE IF tm = Nil THEN [x EXCEPT !.what = "stored", !.h = s1]
          ELSE IF tm \in Methods THEN [x EXCEPT !.what = "call", !.v = tm, !.h = h1]
          ELSE [x EXCEPT !.t = tm, !.h = h1]
  BY Zenon DEF SetTurn, IsFunction
<1>2. CASE x.what # "next"
  BY <1>1, <1>2
<1>3. CASE x.what = "next"
  <2>1. x.t \in Tables /\ x.h \in Heaps(g, E) /\ x \in R
    BY <1>3 DEF SetState, Sets
  <2>2. h0 \in Heaps(g, E)
    BY <2>1, ClearedHeap
  <2>3. res = g[x.t].fields[key] /\ mt = g[x.t].mt /\ mt \in Tables \cup {NoMeta}
    BY <2>1, HeapSays
  <2>4. h0[x.t].mt = mt
    BY <2>1, <2>2, <2>3, HeapSays
  <2>5. tm = Meta(g, g[x.t].mt, "__newindex", E)
    <3>1. fasttm(h0, h0[x.t].mt, "__newindex") = Meta(g, g[x.t].mt, "__newindex", E)
      BY <2>1, <2>2, HeapSays
    <3> QED BY <2>4, <3>1
  <2>6. tm \in Methods \cup Tables \cup {Nil}
    <3>1. Meta(g, g[x.t].mt, "__newindex", E) \in Methods \cup Tables \cup {Nil}
      BY <2>3, FastIsMeta
    <3> QED BY <2>5, <3>1
  <2>7. h1 \in Heaps(g, E)
    BY <2>2, <2>3, CachedHeap
  <2>8. Stores(g, x.t, key, v, s0) /\ Stores(g, x.t, key, v, s1)
    BY <2>1, <2>2, <2>7, StoredFields
  <2>9. (key = Field \/ v # Plain) => Good(s0, E) /\ Good(s1, E)
    BY <2>1, <2>2, <2>7, HeapsAre, StoredKeeps
  <2>10. s0 \in [Tables -> Nodes(E)] /\ s1 \in [Tables -> Nodes(E)]
    <3>1. ASSUME NEW h \in Heaps(g, E) PROVE Stored(h, x.t, key, v) \in [Tables -> Nodes(E)]
      <4>1. h \in [Tables -> Nodes(E)] /\ h[x.t] \in Nodes(E) /\ h[x.t].fields \in [E \cup {Field} -> FieldValues]
        BY <2>1 DEF Heaps, Nodes
      <4>2. Stored(h, x.t, key, v) = [h EXCEPT ![x.t] = [h[x.t] EXCEPT !.fields = [h[x.t].fields EXCEPT ![key] = v], !.flags = {}]]
        BY <4>1 DEF Stored, Nodes
      <4>3. [h[x.t] EXCEPT !.fields = [h[x.t].fields EXCEPT ![key] = v], !.flags = {}] \in Nodes(E)
        BY <4>1 DEF Nodes
      <4> QED BY <4>1, <4>2, <4>3
    <3> QED BY <2>2, <2>7, <3>1
  <2>11. h1 \in [Tables -> Nodes(E)] /\ Good(h1, E)
    BY <2>7, HeapsAre DEF Heaps
  <2> HIDE DEF y, res, mt, h0, tm, h1, s0, s1
  <2>12. SetState(g, E, key, v, y) /\ SetOutcome(x, y, res, tm)
    <3>1. CASE res # Nil
      <4>1. y = [x EXCEPT !.what = "stored", !.h = s0]
        BY <1>1, <1>3, <3>1
      <4>2. y \in R /\ y.what = "stored" /\ y.t = x.t /\ y.h = s0
        BY <2>1, <2>10, <4>1 DEF Sets
      <4> QED BY <2>1, <2>8, <2>9, <3>1, <4>2 DEF SetState, SetOutcome
    <3>2. CASE res = Nil /\ tm = Nil
      <4>1. y = [x EXCEPT !.what = "stored", !.h = s1]
        BY <1>1, <1>3, <3>2
      <4>2. y \in R /\ y.what = "stored" /\ y.t = x.t /\ y.h = s1
        BY <2>1, <2>10, <4>1 DEF Sets
      <4> QED BY <2>1, <2>8, <2>9, <3>2, <4>2 DEF SetState, SetOutcome
    <3>3. CASE res = Nil /\ tm # Nil /\ tm \in Methods
      <4>1. y = [x EXCEPT !.what = "call", !.v = tm, !.h = h1]
        BY <1>1, <1>3, <3>3
      <4>2. tm \in FieldValues
        BY <3>3 DEF FieldValues
      <4>3. y \in R /\ y.what = "call" /\ y.t = x.t /\ y.h = h1
        BY <2>1, <2>11, <4>1, <4>2 DEF Sets
      <4> QED BY <2>1, <2>7, <2>11, <3>3, <4>3 DEF SetState, SetOutcome
    <3>4. CASE res = Nil /\ tm # Nil /\ tm \notin Methods
      <4>1. y = [x EXCEPT !.t = tm, !.h = h1]
        BY <1>1, <1>3, <3>4
      <4>2. tm \in Tables
        BY <2>6, <3>4
      <4>3. y \in R /\ y.what = "next" /\ y.t = tm /\ y.h = h1
        BY <1>3, <2>1, <2>11, <4>1, <4>2 DEF Sets
      <4> QED BY <2>7, <2>11, <3>4, <4>2, <4>3 DEF SetState, SetOutcome
    <3> QED BY <3>1, <3>2, <3>3, <3>4
  <2> QED BY <1>3, <2>3, <2>5, <2>12 DEF y
<1> QED BY <1>2, <1>3

------------------------------------------------------------------------------
(* The loops, turn after turn.                                               *)

GetLoop(h, t, key, r) ==
  r = [loop \in 0..MAXTAGLOOP |-> IF loop = 0 THEN SearchFrom(h, t) ELSE GetTurn(r[loop - 1], key)]
SetLoop(h, t, key, v, r) ==
  r = [loop \in 0..MAXTAGLOOP |-> IF loop = 0 THEN SearchFrom(h, t) ELSE SetTurn(r[loop - 1], key, v)]

LEMMA GetLoops == ASSUME NEW h, NEW t, NEW key
                  PROVE  luaV_gettable(h, t, key) = (CHOOSE r : GetLoop(h, t, key, r))[MAXTAGLOOP]
BY Zenon DEF luaV_gettable, GetLoop

LEMMA SetLoops == ASSUME NEW h, NEW t, NEW key, NEW v
                  PROVE  luaV_settable(h, t, key, v) = (CHOOSE r : SetLoop(h, t, key, v, r))[MAXTAGLOOP]
BY Zenon DEF luaV_settable, SetLoop

LEMMA GoodHeap == ASSUME NEW g, NEW E, Good(g, E) PROVE g \in Heaps(g, E) /\ g \in [Tables -> Nodes(E)]
BY DEF Heaps, Good, Alike

LEMMA GetRuns ==
  ASSUME NEW g, NEW E, Good(g, E), NEW t \in Tables, NEW key \in E \cup {Field}
  PROVE  \E r : /\ r[0] = SearchFrom(g, t) /\ r[0] \in Gets(g, E)
                /\ \A k \in 0..MAXTAGLOOP - 1 : r[k + 1] = GetTurn(r[k], key)
                /\ r[MAXTAGLOOP] = luaV_gettable(g, t, key)
<1> DEFINE n == MAXTAGLOOP
           W == Gets(g, E)
           base == SearchFrom(g, t)
           G == [p \in W \X (1..n) |-> GetTurn(p[1], key)]
<1>1. n \in Nat
  BY MetaAssumption
<1>2. base \in W
  BY GoodHeap DEF SearchFrom, Gets, FieldValues
<1>3. ASSUME NEW w \in W, NEW k \in 1..n PROVE G[<<w, k>>] = GetTurn(w, key) /\ G[<<w, k>>] \in W
  <2>1. G[<<w, k>>] = GetTurn(w, key)
    OBVIOUS
  <2> QED BY <2>1, GetTurnIs
<1> HIDE DEF n, W, base, G
<1>4. StepsIn(W, n, G)
  BY <1>3 DEF StepsIn
<1>5. PICK f : ClimbsIn(W, n, base, G, f)
  BY <1>1, <1>2, <1>4, ClimbsWithin
<1>6. ASSUME NEW k \in 0..n
      PROVE  (IF k = 0 THEN base ELSE G[<<f[k - 1], k>>]) = (IF k = 0 THEN base ELSE GetTurn(f[k - 1], key))
  <2>1. k # 0 => k \in 1..n /\ k - 1 \in 0..n
    BY <1>1
  <2> QED BY <1>3, <1>5, <2>1 DEF ClimbsIn
<1>7. f = [k \in 0..n |-> IF k = 0 THEN base ELSE GetTurn(f[k - 1], key)]
  BY <1>5, <1>6 DEF ClimbsIn, Climbs
<1>8. GetLoop(g, t, key, f)
  BY <1>7, Zenon DEF GetLoop, n, base
<1> DEFINE r == CHOOSE x : GetLoop(g, t, key, x)
<1>9. GetLoop(g, t, key, r) /\ r[n] = luaV_gettable(g, t, key)
  BY <1>8, GetLoops, Zenon DEF n
<1> HIDE DEF r
<1>10. r = [k \in 0..n |-> IF k = 0 THEN base ELSE GetTurn(r[k - 1], key)]
  BY <1>9, Zenon DEF GetLoop, n, base
<1>11. r[0] = base /\ \A k \in 0..n - 1 : r[k + 1] = GetTurn(r[k], key)
  BY <1>1, <1>10
<1> QED BY <1>2, <1>9, <1>11 DEF n, base, W

LEMMA SetRuns ==
  ASSUME NEW g, NEW E, Good(g, E), NEW t \in Tables, NEW key \in E \cup {Field}, NEW v \in FieldValues
  PROVE  \E r : /\ r[0] = SearchFrom(g, t) /\ SetState(g, E, key, v, r[0])
                /\ \A k \in 0..MAXTAGLOOP - 1 : r[k + 1] = SetTurn(r[k], key, v)
                /\ r[MAXTAGLOOP] = luaV_settable(g, t, key, v)
<1> DEFINE n == MAXTAGLOOP
           W == {x \in Sets(E) : SetState(g, E, key, v, x)}
           base == SearchFrom(g, t)
           G == [p \in W \X (1..n) |-> SetTurn(p[1], key, v)]
<1>1. n \in Nat
  BY MetaAssumption
<1>2. base \in W /\ SetState(g, E, key, v, base)
  <2>1. base \in Sets(E) /\ base.what = "next" /\ base.h = g
    BY GoodHeap DEF SearchFrom, Sets, FieldValues
  <2> HIDE DEF base
  <2>2. SetState(g, E, key, v, base)
    BY <2>1, GoodHeap DEF SetState
  <2> QED BY <2>1, <2>2
<1>3. ASSUME NEW w \in W, NEW k \in 1..n PROVE G[<<w, k>>] = SetTurn(w, key, v) /\ G[<<w, k>>] \in W
  <2>1. G[<<w, k>>] = SetTurn(w, key, v)
    OBVIOUS
  <2> HIDE DEF G
  <2>2. SetState(g, E, key, v, w)
    OBVIOUS
  <2>3. SetState(g, E, key, v, SetTurn(w, key, v))
    BY <2>2, SetTurnIs
  <2> QED BY <2>1, <2>3 DEF SetState
<1> HIDE DEF n, W, base, G
<1>4. StepsIn(W, n, G)
  BY <1>3 DEF StepsIn
<1>5. PICK f : ClimbsIn(W, n, base, G, f)
  BY <1>1, <1>2, <1>4, ClimbsWithin
<1>6. ASSUME NEW k \in 0..n
      PROVE  (IF k = 0 THEN base ELSE G[<<f[k - 1], k>>]) = (IF k = 0 THEN base ELSE SetTurn(f[k - 1], key, v))
  <2>1. k # 0 => k \in 1..n /\ k - 1 \in 0..n
    BY <1>1
  <2> QED BY <1>3, <1>5, <2>1 DEF ClimbsIn
<1>7. f = [k \in 0..n |-> IF k = 0 THEN base ELSE SetTurn(f[k - 1], key, v)]
  BY <1>5, <1>6 DEF ClimbsIn, Climbs
<1>8. SetLoop(g, t, key, v, f)
  BY <1>7, Zenon DEF SetLoop, n, base
<1> DEFINE r == CHOOSE x : SetLoop(g, t, key, v, x)
<1>9. SetLoop(g, t, key, v, r) /\ r[n] = luaV_settable(g, t, key, v)
  BY <1>8, SetLoops, Zenon DEF n
<1> HIDE DEF r
<1>10. r = [k \in 0..n |-> IF k = 0 THEN base ELSE SetTurn(r[k - 1], key, v)]
  BY <1>9, Zenon DEF SetLoop, n, base
<1>11. r[0] = base /\ \A k \in 0..n - 1 : r[k + 1] = SetTurn(r[k], key, v)
  BY <1>1, <1>10
<1> QED BY <1>2, <1>9, <1>11 DEF n, base

------------------------------------------------------------------------------
(* What the loops find.                                                      *)

LEMMA HandlerIsMeta ==
  ASSUME NEW E, Good(meta, E), NEW t \in Tables, NEW event
  PROVE  /\ Handler(t, event) = Meta(meta, meta[t].mt, event, E)
         /\ Handler(t, event) \in Methods \cup Tables \cup {Nil}
<1>1. Events(meta) = E
  BY GoodEvents
<1>2. meta[t].mt \in Tables \cup {NoMeta}
  BY GoodNode
<1>3. Handler(t, event) = Meta(meta, meta[t].mt, event, E)
  BY <1>1, Zenon DEF Handler, Meta
<1> QED BY <1>2, <1>3, FastIsMeta

GetFound(x, e, key) ==
  IF meta[e].fields[key] # Nil THEN x.what = "value" /\ x.v = meta[e].fields[key]
  ELSE x.what = (IF Handler(e, "__index") = Nil THEN "value" ELSE "call") /\ x.v = Handler(e, "__index")
GetAt(t, key, k, x) ==
  \/ x.what = "next" /\ x.v = Nil /\ Reaches(t, key, "__index", k, x.t)
  \/ /\ x.what # "next"
     /\ \E n \in 0..k - 1 : \E e \in Tables : /\ Reaches(t, key, "__index", n, e) /\ Stops(e, key, "__index")
                                              /\ GetFound(x, e, key)

LEMMA GetAtOn ==
  ASSUME NEW E, Good(meta, E), NEW t \in Tables, NEW key \in E \cup {Field}, NEW k \in Nat,
         NEW x \in Gets(meta, E), GetAt(t, key, k, x)
  PROVE  GetTurn(x, key) \in Gets(meta, E) /\ GetAt(t, key, k + 1, GetTurn(x, key))
<1> DEFINE y == GetTurn(x, key)
           res == meta[x.t].fields[key]
           tm == Handler(x.t, "__index")
<1>1. y \in Gets(meta, E) /\ (x.what # "next" => y = x)
  BY GetTurnIs
<1>2. x.t \in Tables
  BY DEF Gets
<1>3. tm = Meta(meta, meta[x.t].mt, "__index", E) /\ tm \in Methods \cup Tables \cup {Nil}
  BY <1>2, HandlerIsMeta
<1>4. x.what = "next" => GetOutcome(x, y, res, tm)
  BY <1>3, GetTurnIs
<1>5. Stops(x.t, key, "__index") <=> res # Nil \/ tm \notin Tables
  BY DEF Stops
<1>6. \A e : GetFound(y, e, key) <=>
                IF meta[e].fields[key] # Nil THEN y.what = "value" /\ y.v = meta[e].fields[key]
                ELSE y.what = (IF Handler(e, "__index") = Nil THEN "value" ELSE "call") /\ y.v = Handler(e, "__index")
  BY DEF GetFound
<1> HIDE DEF y
<1>7. GetAt(t, key, k + 1, y)
  <2>1. CASE x.what # "next"
    <3>1. PICK n \in 0..k - 1, e \in Tables : /\ Reaches(t, key, "__index", n, e) /\ Stops(e, key, "__index")
                                              /\ GetFound(x, e, key)
      BY <2>1 DEF GetAt
    <3>2. n \in 0..(k + 1) - 1
      OBVIOUS
    <3> QED BY <1>1, <2>1, <3>1, <3>2 DEF GetAt
  <2>2. CASE x.what = "next" /\ Stops(x.t, key, "__index")
    <3>1. x.v = Nil /\ Reaches(t, key, "__index", k, x.t)
      BY <2>2 DEF GetAt
    <3>2. tm \notin Tables => tm = Nil \/ tm \in Methods
      BY <1>3
    <3>3. tm = Nil => tm \notin Methods
      BY Different
    <3>4. GetOutcome(x, y, res, tm)
      BY <1>4, <2>2
    <3>5. IF res # Nil THEN y.what = "value" /\ y.v = res
          ELSE y.what = (IF tm = Nil THEN "value" ELSE "call") /\ y.v = tm
      <4>1. CASE res # Nil
        BY <3>4, <4>1 DEF GetOutcome
      <4>2. CASE res = Nil /\ tm = Nil
        BY <3>1, <3>4, <4>2 DEF GetOutcome
      <4>3. CASE res = Nil /\ tm # Nil
        BY <1>5, <2>2, <3>2, <3>4, <4>3 DEF GetOutcome
      <4> QED BY <4>1, <4>2, <4>3
    <3>6. GetFound(y, x.t, key)
      BY <1>6, <3>5
    <3>7. y.what # "next" /\ k \in 0..(k + 1) - 1
      BY <3>5
    <3> QED BY <1>2, <2>2, <3>1, <3>6, <3>7 DEF GetAt
  <2>3. CASE x.what = "next" /\ ~Stops(x.t, key, "__index")
    <3>1. x.v = Nil /\ Reaches(t, key, "__index", k, x.t)
      BY <2>3 DEF GetAt
    <3>2. tm \in Tables /\ Reaches(t, key, "__index", k + 1, tm)
      BY <2>3, <3>1, ReachesOn
    <3>3. res = Nil /\ tm # Nil /\ tm \notin Methods
      BY <1>5, <2>3, <3>2, Different
    <3>4. y.what = "next" /\ y.v = x.v /\ y.t = tm
      BY <1>4, <2>3, <3>3 DEF GetOutcome
    <3> QED BY <3>1, <3>2, <3>4 DEF GetAt
  <2> QED BY <2>1, <2>2, <2>3
<1> QED BY <1>1, <1>7 DEF y

LEMMA GetEnds ==
  ASSUME NEW E, Good(meta, E), NEW t \in Tables, NEW key \in E \cup {Field}
  PROVE  /\ GetAt(t, key, MAXTAGLOOP, luaV_gettable(meta, t, key))
         /\ luaV_gettable(meta, t, key) \in Gets(meta, E)
<1>1. PICK r : /\ r[0] = SearchFrom(meta, t) /\ r[0] \in Gets(meta, E)
               /\ \A k \in 0..MAXTAGLOOP - 1 : r[k + 1] = GetTurn(r[k], key)
               /\ r[MAXTAGLOOP] = luaV_gettable(meta, t, key)
  BY GetRuns
<1> DEFINE n == MAXTAGLOOP
           I == [k \in 0..n |-> {x \in Gets(meta, E) : GetAt(t, key, k, x)}]
<1>2. n \in Nat
  BY MetaAssumption
<1>3. r[0] \in I[0]
  <2>1. r[0].what = "next" /\ r[0].v = Nil /\ r[0].t = t
    BY <1>1 DEF SearchFrom
  <2>2. GetAt(t, key, 0, r[0])
    BY <2>1, ReachesStart DEF GetAt
  <2>3. 0 \in 0..n
    BY <1>2
  <2> QED BY <1>1, <2>2, <2>3
<1>4. ASSUME NEW k \in 0..n - 1, r[k] \in I[k] PROVE r[k + 1] \in I[k + 1]
  <2>1. k \in Nat /\ k \in 0..n /\ k + 1 \in 0..n
    BY <1>2
  <2>2. r[k] \in Gets(meta, E) /\ GetAt(t, key, k, r[k])
    BY <1>4, <2>1
  <2>3. r[k + 1] = GetTurn(r[k], key)
    BY <1>1
  <2>4. r[k + 1] \in Gets(meta, E) /\ GetAt(t, key, k + 1, r[k + 1])
    BY <2>1, <2>2, <2>3, GetAtOn
  <2> QED BY <2>1, <2>4
<1>5. n \in 0..n /\ I[n] = {x \in Gets(meta, E) : GetAt(t, key, n, x)}
  BY <1>2
<1> HIDE DEF I, n
<1>6. r[n] \in I[n]
  BY <1>2, <1>3, <1>4, <1>5, ClimbsTo
<1>7. r[n] \in Gets(meta, E) /\ GetAt(t, key, n, r[n])
  BY <1>5, <1>6
<1> QED BY <1>1, <1>7 DEF n

LEMMA LookupHolds == ASSUME NEW E, Good(meta, E) PROVE LookupAgrees
<1>1. KeysOf = E \cup {Field}
  BY GoodEvents DEF KeysOf
<1>2. SUFFICES ASSUME NEW t \in Tables, NEW key \in E \cup {Field}
               PROVE  LET r == luaV_gettable(meta, t, key)
                      IN IF Refuses(t, key, "__index") THEN r.what = "next"
                         ELSE \A e \in Searched(t, key, "__index") : Stops(e, key, "__index") => GetFound(r, e, key)
  BY <1>1, Zenon DEF LookupAgrees, GetFound
<1> DEFINE r == luaV_gettable(meta, t, key)
<1>3. GetAt(t, key, MAXTAGLOOP, r)
  BY GetEnds
<1> HIDE DEF r
<1>4. CASE r.what = "next"
  <2>1. Refuses(t, key, "__index")
    BY <1>3, <1>4, PathEndless DEF GetAt
  <2> QED BY <1>4, <2>1 DEF r
<1>5. CASE r.what # "next"
  <2>1. PICK n \in 0..MAXTAGLOOP - 1, e \in Tables :
          Reaches(t, key, "__index", n, e) /\ Stops(e, key, "__index") /\ GetFound(r, e, key)
    BY <1>3, <1>5 DEF GetAt
  <2>2. n \in Nat /\ n < MAXTAGLOOP
    BY MetaAssumption
  <2>3. /\ ~Refuses(t, key, "__index")
        /\ \A s \in Searched(t, key, "__index") : Stops(s, key, "__index") => s = e
    BY <2>1, <2>2, PathEnds
  <2> QED BY <2>1, <2>3, Zenon DEF r
<1> QED BY <1>4, <1>5

Called(e, key) == meta[e].fields[key] = Nil /\ Handler(e, "__newindex") # Nil
SetFound(x, e, key, v) ==
  /\ x.what = IF Called(e, key) THEN "call" ELSE "stored"
  /\ \A s \in Tables : x.h[s].fields =
       IF s = e /\ ~Called(e, key) THEN [meta[s].fields EXCEPT ![key] = v] ELSE meta[s].fields
SetAt(t, key, v, k, x) ==
  \/ x.what = "next" /\ Reaches(t, key, "__newindex", k, x.t)
  \/ /\ x.what # "next"
     /\ \E n \in 0..k - 1 : \E e \in Tables : /\ Reaches(t, key, "__newindex", n, e) /\ Stops(e, key, "__newindex")
                                              /\ SetFound(x, e, key, v)

LEMMA SetAtOn ==
  ASSUME NEW E, Good(meta, E), NEW t \in Tables, NEW key \in E \cup {Field}, NEW v \in FieldValues,
         NEW k \in Nat, NEW x, SetState(meta, E, key, v, x), SetAt(t, key, v, k, x)
  PROVE  SetState(meta, E, key, v, SetTurn(x, key, v)) /\ SetAt(t, key, v, k + 1, SetTurn(x, key, v))
<1> DEFINE y == SetTurn(x, key, v)
           res == meta[x.t].fields[key]
           tm == Handler(x.t, "__newindex")
<1>1. SetState(meta, E, key, v, y) /\ (x.what # "next" => y = x)
  BY SetTurnIs
<1>2. x.t \in Tables
  BY DEF SetState, Sets
<1>3. tm = Meta(meta, meta[x.t].mt, "__newindex", E) /\ tm \in Methods \cup Tables \cup {Nil}
  BY <1>2, HandlerIsMeta
<1>4. x.what = "next" => SetOutcome(x, y, res, tm)
  BY <1>3, SetTurnIs
<1>5. Stops(x.t, key, "__newindex") <=> res # Nil \/ tm \notin Tables
  BY DEF Stops
<1>6. Called(x.t, key) <=> res = Nil /\ tm # Nil
  BY DEF Called
<1> HIDE DEF y
<1>7. SetAt(t, key, v, k + 1, y)
  <2>1. CASE x.what # "next"
    <3>1. PICK n \in 0..k - 1, e \in Tables : /\ Reaches(t, key, "__newindex", n, e) /\ Stops(e, key, "__newindex")
                                              /\ SetFound(x, e, key, v)
      BY <2>1 DEF SetAt
    <3>2. n \in 0..(k + 1) - 1
      OBVIOUS
    <3> QED BY <1>1, <2>1, <3>1, <3>2 DEF SetAt
  <2>2. CASE x.what = "next" /\ Stops(x.t, key, "__newindex")
    <3>1. Reaches(t, key, "__newindex", k, x.t)
      BY <2>2 DEF SetAt
    <3>2. SetOutcome(x, y, res, tm)
      BY <1>4, <2>2
    <3>3. SetFound(y, x.t, key, v) /\ y.what # "next"
      <4>1. CASE ~Called(x.t, key)
        <5>1. y.what = "stored" /\ y.t = x.t
          BY <1>6, <3>2, <4>1 DEF SetOutcome
        <5>2. Stores(meta, x.t, key, v, y.h)
          BY <1>1, <5>1 DEF SetState
        <5> QED BY <4>1, <5>1, <5>2 DEF SetFound, Stores
      <4>2. CASE Called(x.t, key)
        <5>1. tm \in Methods
          BY <1>3, <1>5, <1>6, <2>2, <4>2
        <5>2. y.what = "call"
          BY <1>6, <3>2, <4>2, <5>1 DEF SetOutcome
        <5>3. y.h \in Heaps(meta, E)
          BY <1>1, <5>2 DEF SetState
        <5>4. \A s \in Tables : y.h[s].fields = meta[s].fields
          BY <5>3, HeapsAre DEF Alike
        <5> QED BY <4>2, <5>2, <5>4 DEF SetFound
      <4> QED BY <4>1, <4>2
    <3>4. k \in 0..(k + 1) - 1
      OBVIOUS
    <3> QED BY <1>2, <2>2, <3>1, <3>3, <3>4 DEF SetAt
  <2>3. CASE x.what = "next" /\ ~Stops(x.t, key, "__newindex")
    <3>1. Reaches(t, key, "__newindex", k, x.t)
      BY <2>3 DEF SetAt
    <3>2. tm \in Tables /\ Reaches(t, key, "__newindex", k + 1, tm)
      BY <2>3, <3>1, ReachesOn
    <3>3. res = Nil /\ tm # Nil /\ tm \notin Methods
      BY <1>5, <2>3, <3>2, Different
    <3>4. y.what = "next" /\ y.t = tm
      BY <1>4, <2>3, <3>3 DEF SetOutcome
    <3> QED BY <3>2, <3>4 DEF SetAt
  <2> QED BY <2>1, <2>2, <2>3
<1> QED BY <1>1, <1>7 DEF y

LEMMA SetEnds ==
  ASSUME NEW E, Good(meta, E), NEW t \in Tables, NEW key \in E \cup {Field}, NEW v \in FieldValues
  PROVE  /\ SetAt(t, key, v, MAXTAGLOOP, luaV_settable(meta, t, key, v))
         /\ SetState(meta, E, key, v, luaV_settable(meta, t, key, v))
<1>1. PICK r : /\ r[0] = SearchFrom(meta, t) /\ SetState(meta, E, key, v, r[0])
               /\ \A k \in 0..MAXTAGLOOP - 1 : r[k + 1] = SetTurn(r[k], key, v)
               /\ r[MAXTAGLOOP] = luaV_settable(meta, t, key, v)
  BY SetRuns
<1> DEFINE n == MAXTAGLOOP
           P == {x \in Sets(E) : SetState(meta, E, key, v, x)}
           I == [k \in 0..n |-> {x \in P : SetAt(t, key, v, k, x)}]
<1>2. n \in Nat
  BY MetaAssumption
<1>3. \A x : x \in P <=> SetState(meta, E, key, v, x)
  BY DEF SetState
<1> HIDE DEF P
<1>4. r[0] \in I[0]
  <2>1. r[0].what = "next" /\ r[0].t = t
    BY <1>1 DEF SearchFrom
  <2>2. SetAt(t, key, v, 0, r[0])
    BY <2>1, ReachesStart DEF SetAt
  <2>3. 0 \in 0..n
    BY <1>2
  <2> QED BY <1>1, <1>3, <2>2, <2>3
<1>5. ASSUME NEW k \in 0..n - 1, r[k] \in I[k] PROVE r[k + 1] \in I[k + 1]
  <2>1. k \in Nat /\ k \in 0..n /\ k + 1 \in 0..n
    BY <1>2
  <2>2. SetState(meta, E, key, v, r[k]) /\ SetAt(t, key, v, k, r[k])
    BY <1>3, <1>5, <2>1
  <2>3. r[k + 1] = SetTurn(r[k], key, v)
    BY <1>1
  <2>4. SetState(meta, E, key, v, r[k + 1]) /\ SetAt(t, key, v, k + 1, r[k + 1])
    BY <2>1, <2>2, <2>3, SetAtOn
  <2> QED BY <1>3, <2>1, <2>4
<1>6. n \in 0..n /\ I[n] = {x \in P : SetAt(t, key, v, n, x)}
  BY <1>2
<1> HIDE DEF I, n
<1>7. r[n] \in I[n]
  BY <1>2, <1>4, <1>5, <1>6, ClimbsTo
<1>8. SetState(meta, E, key, v, r[n]) /\ SetAt(t, key, v, n, r[n])
  BY <1>3, <1>6, <1>7
<1> QED BY <1>1, <1>8 DEF n

LEMMA StoreHolds == ASSUME NEW E, Good(meta, E) PROVE StoreAgrees
<1>1. KeysOf = E \cup {Field}
  BY GoodEvents DEF KeysOf
<1>2. SUFFICES ASSUME NEW t \in Tables, NEW key \in E \cup {Field}
               PROVE  LET r == luaV_settable(meta, t, key, Plain)
                      IN IF Refuses(t, key, "__newindex")
                         THEN r.what = "next" /\ \A s \in Tables : r.h[s].fields = meta[s].fields
                         ELSE \A e \in Searched(t, key, "__newindex") :
                                Stops(e, key, "__newindex") => SetFound(r, e, key, Plain)
  BY <1>1, Zenon DEF StoreAgrees, SetFound, Called
<1> DEFINE r == luaV_settable(meta, t, key, Plain)
<1>3. SetAt(t, key, Plain, MAXTAGLOOP, r) /\ SetState(meta, E, key, Plain, r)
  BY SetEnds DEF FieldValues
<1> HIDE DEF r
<1>4. CASE r.what = "next"
  <2>1. Refuses(t, key, "__newindex")
    BY <1>3, <1>4, PathEndless DEF SetAt
  <2>2. r.h \in Heaps(meta, E)
    BY <1>3, <1>4 DEF SetState
  <2>3. \A s \in Tables : r.h[s].fields = meta[s].fields
    BY <2>2, HeapsAre DEF Alike
  <2> QED BY <1>4, <2>1, <2>3 DEF r
<1>5. CASE r.what # "next"
  <2>1. PICK n \in 0..MAXTAGLOOP - 1, e \in Tables :
          Reaches(t, key, "__newindex", n, e) /\ Stops(e, key, "__newindex") /\ SetFound(r, e, key, Plain)
    BY <1>3, <1>5 DEF SetAt
  <2>2. n \in Nat /\ n < MAXTAGLOOP
    BY MetaAssumption
  <2>3. /\ ~Refuses(t, key, "__newindex")
        /\ \A s \in Searched(t, key, "__newindex") : Stops(s, key, "__newindex") => s = e
    BY <2>1, <2>2, PathEnds
  <2> QED BY <2>1, <2>3, Zenon DEF r
<1> QED BY <1>4, <1>5

(* What get_compTM finds, and the heap it leaves. *)
LEMMA ComparesRight ==
  ASSUME NEW E, Good(meta, E), NEW t \in Tables, NEW s \in Tables
  PROVE  /\ get_compTM(meta, meta[t].mt, meta[s].mt).tm =
              IF Handler(t, "__eq") = Handler(s, "__eq") THEN Handler(t, "__eq") ELSE Nil
         /\ Good(get_compTM(meta, meta[t].mt, meta[s].mt).h, E)
<1> DEFINE mt1 == meta[t].mt
           mt2 == meta[s].mt
           tm1 == fasttm(meta, mt1, "__eq")
           h1 == Cached(meta, mt1, "__eq")
           tm2 == fasttm(h1, mt2, "__eq")
           h2 == Cached(h1, mt2, "__eq")
           c == get_compTM(meta, mt1, mt2)
<1>1. mt1 \in Tables \cup {NoMeta} /\ mt2 \in Tables \cup {NoMeta}
  BY GoodNode
<1>2. meta \in Heaps(meta, E)
  BY GoodHeap
<1>3. h1 \in Heaps(meta, E)
  BY <1>1, <1>2, CachedHeap
<1>4. h2 \in Heaps(meta, E)
  BY <1>1, <1>3, CachedHeap
<1>5. tm1 = Handler(t, "__eq")
  BY <1>2, HeapSays, HandlerIsMeta
<1>6. tm2 = Handler(s, "__eq")
  <2>1. h1[s].mt = mt2 /\ fasttm(h1, h1[s].mt, "__eq") = Meta(meta, meta[s].mt, "__eq", E)
    BY <1>3, HeapSays
  <2> QED BY <2>1, HandlerIsMeta
<1>7. mt1 = mt2 => Handler(t, "__eq") = Handler(s, "__eq")
  BY DEF Handler
<1>8. c = IF tm1 = Nil \/ mt1 = mt2 THEN [tm |-> tm1, h |-> h1]
          ELSE [tm |-> IF tm1 = tm2 THEN tm1 ELSE Nil, h |-> h2]
  BY Zenon DEF get_compTM
<1>9. Good(h1, E) /\ Good(h2, E)
  BY <1>3, <1>4, HeapsAre
<1> HIDE DEF mt1, mt2, tm1, h1, tm2, h2, c
<1>10. /\ c.tm = IF Handler(t, "__eq") = Handler(s, "__eq") THEN Handler(t, "__eq") ELSE Nil
       /\ Good(c.h, E)
  <2>1. CASE tm1 = Nil \/ mt1 = mt2
    <3>1. c.tm = tm1 /\ c.h = h1
      BY <1>8, <2>1
    <3> QED BY <1>5, <1>7, <1>9, <2>1, <3>1
  <2>2. CASE ~(tm1 = Nil \/ mt1 = mt2)
    <3>1. c.tm = (IF tm1 = tm2 THEN tm1 ELSE Nil) /\ c.h = h2
      BY <1>8, <2>2
    <3> QED BY <1>5, <1>6, <1>9, <3>1
  <2> QED BY <2>1, <2>2
<1> QED BY <1>10 DEF c, mt1, mt2

------------------------------------------------------------------------------
(* The invariant: the heap is good, whatever the program and the collector do. *)

MetaInv == Good(meta, Events(meta))

LEMMA MetaAgrees == ASSUME MetaInv PROVE MetamethodsAgree
<1> DEFINE E == Events(meta)
<1>1. Good(meta, E)
  BY DEF MetaInv
<1> HIDE DEF E
<1>2. CacheSound
  BY <1>1 DEF CacheSound, Good
<1>3. LookupAgrees /\ StoreAgrees
  BY <1>1, LookupHolds, StoreHolds
<1>4. EqualAgrees
  BY <1>1, ComparesRight DEF EqualAgrees
<1> QED BY <1>2, <1>3, <1>4 DEF MetamethodsAgree

LEMMA MetaStep == ASSUME NEW E, Good(meta, E), MetaNext PROVE Good(meta', E)
<1>1. KeysOf = E \cup {Field} /\ Field \notin E
  BY GoodEvents DEF KeysOf, Good
<1>2. ASSUME NEW key \in KeysOf, NEW v \in ValuesFor(key) PROVE v \in FieldValues /\ (key = Field \/ v # Plain)
  <2>1. CASE key = Field
    BY <1>2, <2>1 DEF ValuesFor, FieldValues
  <2>2. CASE key # Field
    <3>1. v \in Methods \cup Tables \cup {Nil}
      BY <1>2, <2>2 DEF ValuesFor
    <3> QED BY <2>2, <3>1, Different DEF FieldValues
  <2> QED BY <2>1, <2>2
<1>3. ASSUME NEW t \in Tables, NEW key \in KeysOf, NEW v \in ValuesFor(key), RawSet(t, key, v) PROVE Good(meta', E)
  <2> DEFINE h == luaH_set(meta, t)
  <2>1. Good(h, E)
    BY luaH_setKeeps
  <2>2. h[t].flags = {}
    <3>1. meta \in [Tables -> Nodes(E)] /\ meta[t] \in Nodes(E)
      BY DEF Good
    <3>2. h[t] = [meta[t] EXCEPT !.flags = {}]
      BY <3>1 DEF luaH_set
    <3> QED BY <3>1, <3>2 DEF Nodes
  <2>3. meta' = [h EXCEPT ![t].fields[key] = v]
    BY <1>3 DEF RawSet
  <2> HIDE DEF h
  <2> QED BY <1>1, <1>2, <2>1, <2>2, <2>3, StoredKeeps
<1>4. ASSUME NEW t \in Tables, NEW key \in KeysOf, NEW v \in ValuesFor(key), SetTable(t, key, v) PROVE Good(meta', E)
  <2>1. SetState(meta, E, key, v, luaV_settable(meta, t, key, v))
    BY <1>1, <1>2, SetEnds
  <2> QED BY <1>2, <1>4, <2>1 DEF SetTable, SetState
<1>5. ASSUME NEW t \in Tables, NEW key \in KeysOf, GetTable(t, key) PROVE Good(meta', E)
  <2> DEFINE r == luaV_gettable(meta, t, key)
  <2>1. r \in Gets(meta, E)
    BY <1>1, GetEnds
  <2>2. meta' = r.h
    BY <1>5 DEF GetTable
  <2> HIDE DEF r
  <2>3. r.h \in Heaps(meta, E)
    BY <2>1 DEF Gets
  <2> QED BY <2>2, <2>3, HeapsAre
<1>6. ASSUME NEW t \in Tables, NEW key \in KeysOf, ClearEntry(t, key) PROVE Good(meta', E)
  <2>1. meta \in [Tables -> Nodes(E)] /\ meta[t] \in Nodes(E) /\ meta[t].fields \in [E \cup {Field} -> FieldValues]
    BY DEF Good, Nodes
  <2> DEFINE f == [meta[t].fields EXCEPT ![key] = Nil]
  <2>2. meta' = [meta EXCEPT ![t] = [meta[t] EXCEPT !.fields = f]]
    BY <1>6, <2>1 DEF ClearEntry, Nodes
  <2>3. f \in [E \cup {Field} -> FieldValues] /\ \A e \in E : f[e] = Nil \/ f[e] = meta[t].fields[e]
    BY <2>1 DEF FieldValues
  <2> HIDE DEF f
  <2>4. /\ meta' \in [Tables -> Nodes(E)] /\ meta'[t].fields = f /\ meta'[t].flags = meta[t].flags
        /\ \A s \in Tables : s # t => meta'[s] = meta[s]
    BY <2>1, <2>2, <2>3 DEF Nodes
  <2>5. ASSUME NEW s \in Tables, NEW e \in E PROVE meta'[s].fields[e] # Plain
    BY <2>3, <2>4, Different DEF Good
  <2>6. ASSUME NEW s \in Tables, NEW e \in meta'[s].flags PROVE meta'[s].fields[e] = Nil
    <3>1. CASE s # t
      BY <2>4, <2>6, <3>1 DEF Good
    <3>2. CASE s = t
      <4>1. e \in meta[t].flags
        BY <2>4, <2>6, <3>2
      <4>2. e \in E
        BY <4>1, GoodNode
      <4>3. meta[t].fields[e] = Nil
        BY <4>1 DEF Good
      <4> QED BY <2>3, <2>4, <3>2, <4>2, <4>3
    <3> QED BY <3>1, <3>2
  <2> QED BY <1>1, <2>4, <2>5, <2>6 DEF Good
<1>7. ASSUME NEW t \in Tables, NEW s \in Tables, Equal(t, s) PROVE Good(meta', E)
  BY <1>7, ComparesRight DEF Equal
<1>8. ASSUME NEW t \in Tables, NEW mt \in Tables \cup {NoMeta}, SetMetatable(t, mt) PROVE Good(meta', E)
  <2>1. meta \in [Tables -> Nodes(E)] /\ meta[t] \in Nodes(E)
    BY DEF Good
  <2>2. meta' = [meta EXCEPT ![t] = [meta[t] EXCEPT !.mt = mt]]
    BY <1>8, <2>1 DEF SetMetatable, Nodes
  <2>3. /\ meta' \in [Tables -> Nodes(E)]
        /\ \A s \in Tables : meta'[s].fields = meta[s].fields /\ meta'[s].flags = meta[s].flags
    BY <2>1, <2>2 DEF Nodes
  <2> QED BY <1>1, <2>3 DEF Good
<1> QED BY <1>3, <1>4, <1>5, <1>6, <1>7, <1>8 DEF MetaNext

(* The bits by which a table remembers that it has no handler are right, and  *)
(* lookup, storing and comparing through them (luaV_gettable, luaV_settable,  *)
(* luaV_equalval) find what they would find without, for any number of tables *)
(* and functions, chains of any length and any MAXTAGLOOP.                    *)
THEOREM MetamethodsAreFound == MetaSpec => []MetamethodsAgree
<1>1. meta \in MetaStates => MetaInv
  <2> SUFFICES ASSUME NEW E \in Families, meta = EmptyHeap(E) PROVE MetaInv
    BY DEF MetaStates
  <2>1. Field \notin E
    BY MetaAssumption
  <2>2. EmptyTable(E) \in Nodes(E)
    BY DEF EmptyTable, Nodes, FieldValues
  <2>3. \A t \in Tables : meta[t] = EmptyTable(E)
    BY DEF EmptyHeap
  <2>4. meta \in [Tables -> Nodes(E)]
    BY <2>2 DEF EmptyHeap
  <2>5. \A t \in Tables : \A e \in E : meta[t].fields[e] = Nil
    BY <2>3 DEF EmptyTable
  <2>6. \A t \in Tables : meta[t].flags = {}
    BY <2>3 DEF EmptyTable
  <2>7. Good(meta, E)
    BY <2>1, <2>4, <2>5, <2>6, Different DEF Good
  <2> QED BY <2>7, GoodEvents DEF MetaInv
<1>2. MetaInv /\ [MetaNext]_meta => MetaInv'
  <2> SUFFICES ASSUME MetaInv, [MetaNext]_meta PROVE MetaInv'
    OBVIOUS
  <2> DEFINE E == Events(meta)
  <2>1. Good(meta, E)
    BY DEF MetaInv
  <2> HIDE DEF E
  <2>2. Good(meta', E)
    <3>1. CASE MetaNext
      BY <2>1, <3>1, MetaStep
    <3>2. CASE UNCHANGED meta
      BY <2>1, <3>2
    <3> QED BY <3>1, <3>2
  <2>3. Events(meta') = E
    BY <2>2, GoodEvents
  <2> QED BY <2>2, <2>3 DEF MetaInv
<1> QED BY <1>1, <1>2, MetaAgrees, PTL DEF MetaSpec

------------------------------------------------------------------------------
(* Operands, and what two of them give.                                      *)

Texts == Seq(CatCharacters)
Results == Operands \cup {Refused}
RowsOf == {vs \in Seq(Operands) : Len(vs) > 0}

LEMMA OperandKinds ==
  ASSUME NEW v \in Operands
  PROVE  /\ v # Refused
         /\ v.k \in {"string", "number", "object"}
         /\ IsText(v) => v.text \in Texts
         /\ ~IsText(v) => v \in CatObjects
         /\ v.k = "object" /\ v.tm # <<>> => v.tm[1] \in Operands
<1>1. CASE v \in [k : {"string", "number"}, text : Seq(CatCharacters)]
  BY <1>1 DEF IsText, Texts, Refused
<1>2. CASE v \in CatObjects
  <2>1. v.k = "object" /\ (v.tm = <<>> \/ v.tm[1] \in Operands)
    BY <1>2, ConcatAssumption
  <2>2. Refused.k = "error"
    BY DEF Refused
  <2> QED BY <1>2, <2>1, <2>2 DEF IsText
<1> QED BY <1>1, <1>2 DEF Operands

LEMMA StringOperand == ASSUME NEW t \in Texts PROVE [k |-> "string", text |-> t] \in Operands
BY DEF Operands, Texts

LEMMA TwoType == ASSUME NEW l \in Operands, NEW r \in Results PROVE Two(l, r) \in Results
<1>1. CASE r = Refused
  BY <1>1 DEF Two, Results
<1>2. CASE r \in Operands
  <2>1. l # Refused /\ r # Refused
    BY <1>2, OperandKinds
  <2>2. IsText(l) /\ IsText(r) => [k |-> "string", text |-> l.text \o r.text] \in Operands
    <3> SUFFICES ASSUME IsText(l), IsText(r) PROVE [k |-> "string", text |-> l.text \o r.text] \in Operands
      OBVIOUS
    <3>1. l.text \in Texts /\ r.text \in Texts
      BY <1>2, OperandKinds
    <3>2. l.text \o r.text \in Texts
      BY <3>1, ConcatProperties DEF Texts
    <3> QED BY <3>2, StringOperand
  <2>3. /\ l.k = "object" /\ l.tm # <<>> => l.tm[1] \in Operands
        /\ r.k = "object" /\ r.tm # <<>> => r.tm[1] \in Operands
    BY <1>2, OperandKinds
  <2> QED BY <2>1, <2>2, <2>3, Zenon DEF Two, Results
<1> QED BY <1>1, <1>2 DEF Results

LEMMA TwoRefused == ASSUME NEW l PROVE Two(l, Refused) = Refused
BY DEF Two

(* The metamethod that call_binTM takes is the one of the meaning. *)
LEMMA TwoCalled ==
  ASSUME NEW l \in Operands, NEW r \in Operands, ~IsText(l) \/ ~IsText(r)
  PROVE  call_binTM(l, r) = Two(l, r)
<1>1. l # Refused /\ r # Refused
  BY OperandKinds
<1> QED BY <1>1, Zenon DEF Two, call_binTM

(* Texts give a string, of their texts. *)
LEMMA TwoTexts ==
  ASSUME NEW l \in Operands, NEW r \in Operands, IsText(l), IsText(r)
  PROVE  Two(l, r) = [k |-> "string", text |-> l.text \o r.text]
<1>1. l # Refused /\ r # Refused
  BY OperandKinds
<1> QED BY <1>1, Zenon DEF Two

------------------------------------------------------------------------------
(* The meaning of a row, from the right. *)

Means(vs, f) == f = [k \in 0..Len(vs) - 1 |-> IF k = 0 THEN vs[Len(vs)] ELSE Two(vs[Len(vs) - k], f[k - 1])]

LEMMA MeaningOf == ASSUME NEW vs PROVE ConcatMeaning(vs) = (CHOOSE f : Means(vs, f))[Len(vs) - 1]
BY Zenon DEF ConcatMeaning, Means

LEMMA RowSize ==
  ASSUME NEW vs \in RowsOf
  PROVE  /\ Len(vs) \in Nat /\ Len(vs) > 0 /\ Len(vs) - 1 \in Nat
         /\ \A k \in 1..Len(vs) : vs[k] \in Operands
<1>1. vs \in Seq(Operands) /\ Len(vs) > 0
  BY DEF RowsOf
<1> QED BY <1>1, LenProperties, ElementOfSeq

(* What a row means, as the last of its stages, and what the stages are. *)
Stages(vs, f) ==
  /\ f[0] = vs[Len(vs)]
  /\ \A k \in 1..Len(vs) - 1 : f[k] = Two(vs[Len(vs) - k], f[k - 1])
  /\ \A k \in 0..Len(vs) - 1 : f[k] \in Results
  /\ f[Len(vs) - 1] = ConcatMeaning(vs)

LEMMA StagesExist == ASSUME NEW vs \in RowsOf PROVE \E f : Stages(vs, f)
<1> DEFINE n == Len(vs) - 1
           G == [p \in Results \X (1..n) |-> Two(vs[Len(vs) - p[2]], p[1])]
           base == vs[Len(vs)]
<1>1. n \in Nat /\ Len(vs) = n + 1 /\ \A k \in 1..n + 1 : vs[k] \in Operands
  BY RowSize
<1>2. base \in Results
  BY <1>1 DEF Results
<1>3. ASSUME NEW w \in Results, NEW k \in 1..n
      PROVE  G[<<w, k>>] = Two(vs[Len(vs) - k], w) /\ G[<<w, k>>] \in Results
  <2>1. Len(vs) - k \in 1..n + 1
    BY <1>1
  <2>2. G[<<w, k>>] = Two(vs[Len(vs) - k], w)
    OBVIOUS
  <2> QED BY <1>1, <2>1, <2>2, TwoType
<1> HIDE DEF G, base, n
<1>4. StepsIn(Results, n, G)
  BY <1>3 DEF StepsIn
<1>5. PICK f : ClimbsIn(Results, n, base, G, f)
  BY <1>1, <1>2, <1>4, ClimbsWithin
<1>6. ASSUME NEW k \in 0..n
      PROVE  (IF k = 0 THEN base ELSE G[<<f[k - 1], k>>]) = (IF k = 0 THEN vs[Len(vs)] ELSE Two(vs[Len(vs) - k], f[k - 1]))
  <2>1. k # 0 => k \in 1..n /\ k - 1 \in 0..n
    BY <1>1
  <2> QED BY <1>3, <1>5, <2>1 DEF base, ClimbsIn
<1>7. f = [k \in 0..n |-> IF k = 0 THEN vs[Len(vs)] ELSE Two(vs[Len(vs) - k], f[k - 1])]
  BY <1>5, <1>6 DEF ClimbsIn, Climbs
<1>8. Means(vs, f)
  BY <1>7, Zenon DEF Means, n
<1> DEFINE g == CHOOSE x : Means(vs, x)
<1>9. Means(vs, g)
  BY <1>8, Zenon
<1>10. g[n] = ConcatMeaning(vs)
  BY MeaningOf, Zenon DEF n
<1> HIDE DEF g
<1>11. g = [k \in 0..n |-> IF k = 0 THEN vs[Len(vs)] ELSE Two(vs[Len(vs) - k], g[k - 1])]
  BY <1>9, Zenon DEF Means, n
<1>12. /\ g[0] = base
       /\ \A k \in 0..n - 1 : g[k + 1] = Two(vs[Len(vs) - (k + 1)], g[k])
       /\ \A k \in 1..n : g[k] = Two(vs[Len(vs) - k], g[k - 1])
  BY <1>1, <1>11 DEF base
<1> DEFINE I == [k \in 0..n |-> Results]
<1>13. g[0] \in I[0]
  BY <1>1, <1>2, <1>12
<1>14. ASSUME NEW k \in 0..n - 1, g[k] \in I[k] PROVE g[k + 1] \in I[k + 1]
  <2>1. k \in 0..n /\ k + 1 \in 0..n /\ Len(vs) - (k + 1) \in 1..n + 1
    BY <1>1
  <2>2. g[k] \in Results
    BY <1>14, <2>1
  <2>3. g[k + 1] \in Results
    BY <1>1, <1>12, <2>1, <2>2, TwoType
  <2> QED BY <2>1, <2>3
<1>15. \A k \in 0..n : I[k] = Results
  OBVIOUS
<1> HIDE DEF I
<1>16. \A k \in 0..n : g[k] \in I[k]
  BY <1>1, <1>13, <1>14, ClimbsTo
<1> QED BY <1>10, <1>12, <1>15, <1>16 DEF Stages, n, base

(* A row whose last d + 1 values have given way to what they mean. *)
Shortened(vs, d, ws) ==
  /\ ws \in RowsOf /\ Len(ws) = Len(vs) - d
  /\ \A k \in 1..Len(ws) - 1 : ws[k] = vs[k]

LEMMA StageNumbers ==
  ASSUME NEW n \in Nat, NEW m \in Nat, NEW d \in Nat, n = m - d, NEW k \in 0..(n - 1) - 1
  PROVE  /\ k \in 0..n - 1 /\ k + 1 \in 0..n - 1 /\ k + 1 \in 1..n - 1 /\ (k + 1) - 1 = k
         /\ n - (k + 1) \in 1..n - 1
         /\ (k + 1) + d \in 1..m - 1 /\ ((k + 1) + d) - 1 = k + d /\ m - ((k + 1) + d) = n - (k + 1)
OBVIOUS

LEMMA ShortenedMeans ==
  ASSUME NEW vs \in RowsOf, NEW f, Stages(vs, f), NEW d \in 0..Len(vs) - 1,
         NEW ws, Shortened(vs, d, ws), ws[Len(ws)] = f[d]
  PROVE  ConcatMeaning(ws) = ConcatMeaning(vs)
<1>1. PICK g : Stages(ws, g)
  BY StagesExist DEF Shortened
<1> DEFINE n == Len(ws)
           I == [k \in 0..n - 1 |-> {f[k + d]}]
<1>2. n \in Nat /\ n > 0 /\ Len(vs) \in Nat /\ n = Len(vs) - d /\ d \in Nat
  BY RowSize DEF Shortened
<1>3. g[0] \in I[0]
  <2>1. g[0] = f[d] /\ 0 + d = d /\ 0 \in 0..n - 1
    BY <1>1, <1>2 DEF Stages
  <2> QED BY <2>1
<1>4. ASSUME NEW k \in 0..(n - 1) - 1, g[k] \in I[k] PROVE g[k + 1] \in I[k + 1]
  <2>1. /\ k \in 0..n - 1 /\ k + 1 \in 0..n - 1 /\ k + 1 \in 1..n - 1 /\ (k + 1) - 1 = k
        /\ n - (k + 1) \in 1..n - 1
        /\ (k + 1) + d \in 1..Len(vs) - 1 /\ ((k + 1) + d) - 1 = k + d /\ Len(vs) - ((k + 1) + d) = n - (k + 1)
    <3> HIDE DEF n, I
    <3> QED BY <1>2, StageNumbers
  <2>2. g[k] = f[k + d]
    BY <1>4, <2>1
  <2>3. g[k + 1] = Two(ws[n - (k + 1)], g[k])
    BY <1>1, <2>1 DEF Stages
  <2>4. f[(k + 1) + d] = Two(vs[n - (k + 1)], f[k + d])
    BY <2>1 DEF Stages
  <2>5. ws[n - (k + 1)] = vs[n - (k + 1)]
    BY <2>1 DEF Shortened
  <2> QED BY <2>1, <2>2, <2>3, <2>4, <2>5
<1>5. \A k \in 0..n - 1 : I[k] = {f[k + d]}
  OBVIOUS
<1> HIDE DEF I
<1>6. n - 1 \in Nat
  BY <1>2
<1>7. \A k \in 0..n - 1 : g[k] \in I[k]
  BY <1>3, <1>4, <1>6, ClimbsTo
<1>8. n - 1 \in 0..n - 1 /\ (n - 1) + d = Len(vs) - 1
  BY <1>2
<1>9. g[n - 1] = f[Len(vs) - 1]
  BY <1>5, <1>7, <1>8
<1> QED BY <1>1, <1>9 DEF Stages

(* Where a stage is refused, the whole is. *)
LEMMA RefusedMeans ==
  ASSUME NEW vs \in RowsOf, NEW f, Stages(vs, f), NEW d \in 0..Len(vs) - 1, f[d] = Refused
  PROVE  ConcatMeaning(vs) = Refused
<1> DEFINE n == Len(vs) - 1
           I == [k \in 0..n |-> IF k >= d THEN {Refused} ELSE Results]
<1>1. n \in Nat /\ d \in 0..n
  BY RowSize
<1>2. f[0] \in I[0]
  <2>1. d # 0 => f[0] \in Results
    BY <1>1 DEF Stages
  <2> QED BY <1>1, <2>1
<1>3. ASSUME NEW k \in 0..n - 1, f[k] \in I[k] PROVE f[k + 1] \in I[k + 1]
  <2>1. k \in 0..n /\ k + 1 \in 0..n /\ k + 1 \in 1..n /\ (k + 1) - 1 = k
    BY <1>1
  <2>2. f[k + 1] \in Results /\ f[k + 1] = Two(vs[Len(vs) - (k + 1)], f[k])
    BY <2>1 DEF Stages
  <2>3. CASE k >= d
    <3>1. f[k] = Refused
      BY <1>3, <2>1, <2>3
    <3>2. f[k + 1] = Refused
      BY <2>2, <3>1, TwoRefused
    <3>3. k + 1 >= d
      BY <1>1, <2>1, <2>3
    <3> QED BY <2>1, <3>2, <3>3
  <2>4. CASE k + 1 = d
    BY <2>1, <2>4
  <2>5. CASE ~(k >= d) /\ k + 1 # d
    <3>1. ~(k + 1 >= d)
      BY <1>1, <2>1, <2>5
    <3> QED BY <2>1, <2>2, <3>1
  <2> QED BY <2>3, <2>4, <2>5
<1>4. n \in 0..n /\ I[n] = {Refused}
  BY <1>1
<1> HIDE DEF I
<1>5. f[n] \in I[n]
  BY <1>1, <1>2, <1>3, <1>4, ClimbsTo
<1> QED BY <1>4, <1>5 DEF Stages

------------------------------------------------------------------------------
(* How many texts there are, and what they are together. *)

TextsAre(vs, n) ==
  /\ n \in 0..Len(vs) /\ \A k \in Len(vs) - n + 1..Len(vs) : IsText(vs[k])
  /\ n < Len(vs) => ~IsText(vs[Len(vs) - n])

LEMMA TextsCounted == ASSUME NEW vs \in RowsOf PROVE TextsAre(vs, TextsFrom(vs))
<1> DEFINE m == Len(vs)
           T == {n \in 0..m : n < m => ~IsText(vs[m - n])}
<1>1. m \in Nat
  BY RowSize
<1>2. T \in SUBSET Nat /\ m \in T
  BY <1>1
<1>3. PICK n \in T : \A x \in T : n <= x
  BY <1>2, LeastNatural
<1>4. n \in 0..m /\ (n < m => ~IsText(vs[m - n]))
  BY <1>3
<1>5. ASSUME NEW k \in m - n + 1..m PROVE IsText(vs[k])
  <2> DEFINE x == m - k
  <2>1. x \in 0..m /\ x < n /\ x < m /\ m - x = k
    BY <1>1, <1>4
  <2>2. x \notin T
    <3> HIDE DEF x, T
    <3> QED BY <1>1, <1>3, <1>4, <2>1
  <2> HIDE DEF x
  <2> QED BY <2>1, <2>2
<1> HIDE DEF T
<1>6. TextsAre(vs, n)
  BY <1>4, <1>5, Zenon DEF TextsAre
<1>7. \E x \in 0..Len(vs) : /\ \A k \in Len(vs) - x + 1..Len(vs) : IsText(vs[k])
                            /\ x < Len(vs) => ~IsText(vs[Len(vs) - x])
  BY <1>6, Zenon DEF TextsAre
<1> QED BY <1>7, Zenon DEF TextsFrom, TextsAre

(* The last n of them, one after the other. *)
Joins(vs, n, t) == t = [k \in 0..n |-> IF k = 0 THEN <<>> ELSE vs[Len(vs) + 1 - k].text \o t[k - 1]]

LEMMA JoinedOf == ASSUME NEW vs, NEW n PROVE Joined(vs, n) = (CHOOSE t : Joins(vs, n, t))[n]
BY Zenon DEF Joined, Joins

LEMMA JoinedTexts ==
  ASSUME NEW vs \in RowsOf, NEW n \in 0..Len(vs), \A k \in Len(vs) - n + 1..Len(vs) : IsText(vs[k])
  PROVE  \E t : /\ t[0] = <<>> /\ \A k \in 0..n : t[k] \in Texts
                /\ \A k \in 1..n : t[k] = vs[Len(vs) + 1 - k].text \o t[k - 1]
                /\ t[n] = Joined(vs, n)
<1> DEFINE m == Len(vs)
           G == [p \in Texts \X (1..n) |-> vs[m + 1 - p[2]].text \o p[1]]
<1>1. m \in Nat /\ n \in Nat /\ n <= m /\ \A k \in 1..m : vs[k] \in Operands
  BY RowSize
<1>2. <<>> \in Texts
  BY EmptySeq DEF Texts
<1>3. ASSUME NEW w \in Texts, NEW k \in 1..n
      PROVE  G[<<w, k>>] = vs[m + 1 - k].text \o w /\ G[<<w, k>>] \in Texts
  <2>1. m + 1 - k \in m - n + 1..m /\ m + 1 - k \in 1..m
    BY <1>1
  <2>2. vs[m + 1 - k].text \in Texts
    BY <1>1, <2>1, OperandKinds
  <2>3. G[<<w, k>>] = vs[m + 1 - k].text \o w
    OBVIOUS
  <2> QED BY <2>2, <2>3, ConcatProperties DEF Texts
<1> HIDE DEF G
<1>4. StepsIn(Texts, n, G)
  BY <1>3 DEF StepsIn
<1>5. PICK f : ClimbsIn(Texts, n, <<>>, G, f)
  BY <1>1, <1>2, <1>4, ClimbsWithin
<1>6. ASSUME NEW k \in 0..n
      PROVE  (IF k = 0 THEN <<>> ELSE G[<<f[k - 1], k>>]) = (IF k = 0 THEN <<>> ELSE vs[m + 1 - k].text \o f[k - 1])
  <2>1. k # 0 => k \in 1..n /\ k - 1 \in 0..n
    BY <1>1
  <2> QED BY <1>3, <1>5, <2>1 DEF ClimbsIn
<1>7. f = [k \in 0..n |-> IF k = 0 THEN <<>> ELSE vs[m + 1 - k].text \o f[k - 1]]
  BY <1>5, <1>6 DEF ClimbsIn, Climbs
<1>8. Joins(vs, n, f)
  BY <1>7, Zenon DEF Joins
<1> DEFINE t == CHOOSE x : Joins(vs, n, x)
<1>9. Joins(vs, n, t)
  BY <1>8, Zenon
<1>10. t[n] = Joined(vs, n)
  BY JoinedOf, Zenon
<1> HIDE DEF t
<1>11. t = [k \in 0..n |-> IF k = 0 THEN <<>> ELSE vs[m + 1 - k].text \o t[k - 1]]
  BY <1>9, Zenon DEF Joins
<1>12. t[0] = <<>> /\ \A k \in 1..n : t[k] = vs[m + 1 - k].text \o t[k - 1]
  BY <1>1, <1>11
<1> DEFINE I == [k \in 0..n |-> Texts]
<1>13. t[0] \in I[0]
  BY <1>1, <1>2, <1>12
<1>14. ASSUME NEW k \in 0..n - 1, t[k] \in I[k] PROVE t[k + 1] \in I[k + 1]
  <2>1. k \in 0..n /\ k + 1 \in 0..n /\ k + 1 \in 1..n /\ (k + 1) - 1 = k
    BY <1>1
  <2>2. t[k] \in Texts
    BY <1>14, <2>1
  <2>3. t[k + 1] = G[<<t[k], k + 1>>]
    BY <1>3, <1>12, <2>1, <2>2
  <2> QED BY <1>4, <2>1, <2>2, <2>3 DEF StepsIn
<1>15. \A k \in 0..n : I[k] = Texts
  OBVIOUS
<1> HIDE DEF I
<1>16. \A k \in 0..n : t[k] \in I[k]
  BY <1>1, <1>13, <1>14, ClimbsTo
<1> QED BY <1>10, <1>12, <1>15, <1>16

(* Two texts or more mean the string of all of them. *)
LEMMA TextsMean ==
  ASSUME NEW vs \in RowsOf, NEW f, Stages(vs, f), NEW n \in 0..Len(vs), n >= 2,
         \A k \in Len(vs) - n + 1..Len(vs) : IsText(vs[k])
  PROVE  f[n - 1] = [k |-> "string", text |-> Joined(vs, n)] /\ Joined(vs, n) \in Texts
<1> DEFINE m == Len(vs)
           String(x) == [k |-> "string", text |-> x]
<1>1. m \in Nat /\ n \in Nat /\ n <= m /\ \A k \in 1..m : vs[k] \in Operands
  BY RowSize
<1>2. PICK t : /\ t[0] = <<>> /\ \A k \in 0..n : t[k] \in Texts
               /\ \A k \in 1..n : t[k] = vs[m + 1 - k].text \o t[k - 1]
               /\ t[n] = Joined(vs, n)
  BY JoinedTexts
<1> DEFINE I == [k \in 0..n - 1 |-> {x \in Operands : IsText(x) /\ x.text = t[k + 1] /\ (k > 0 => x = String(t[k + 1]))}]
<1>3. f[0] \in I[0]
  <2>1. 0 \in 0..n - 1 /\ 1 \in 1..n /\ m \in 1..m /\ m \in m - n + 1..m /\ m + 1 - 1 = m
    BY <1>1
  <2>2. f[0] = vs[m] /\ vs[m] \in Operands /\ IsText(vs[m])
    BY <1>1, <2>1 DEF Stages
  <2>3. vs[m].text \in Seq(CatCharacters)
    BY <2>2, OperandKinds DEF Texts
  <2>4. t[1] = vs[m].text \o <<>>
    <3> HIDE DEF I, m
    <3>1. t[1] = vs[m + 1 - 1].text \o t[1 - 1]
      BY <1>2, <2>1, Zenon
    <3>2. 1 - 1 = 0
      OBVIOUS
    <3> QED BY <1>2, <2>1, <3>1, <3>2
  <2>5. t[1] = vs[m].text
    BY <2>3, <2>4, ConcatEmptySeq
  <2> QED BY <2>1, <2>2, <2>5
<1>4. ASSUME NEW k \in 0..(n - 1) - 1, f[k] \in I[k] PROVE f[k + 1] \in I[k + 1]
  <2> DEFINE p == m - (k + 1)
  <2>1. /\ k \in 0..n - 1 /\ k + 1 \in 0..n - 1 /\ k + 1 > 0 /\ k + 1 \in 1..m - 1 /\ (k + 1) - 1 = k
        /\ p \in m - n + 1..m /\ p \in 1..m /\ (k + 1) + 1 \in 1..n /\ (k + 1) + 1 \in 0..n
        /\ ((k + 1) + 1) - 1 = k + 1 /\ m + 1 - ((k + 1) + 1) = p
    <3> HIDE DEF I
    <3> QED BY <1>1
  <2>2. f[k] \in Operands /\ IsText(f[k]) /\ f[k].text = t[k + 1]
    BY <1>4, <2>1
  <2> HIDE DEF p
  <2>3. vs[p] \in Operands /\ IsText(vs[p])
    BY <1>1, <2>1
  <2>4. f[k + 1] = Two(vs[p], f[k])
    BY <2>1 DEF Stages, p
  <2>5. f[k + 1] = String(vs[p].text \o f[k].text)
    BY <2>2, <2>3, <2>4, TwoTexts
  <2>6. t[(k + 1) + 1] = vs[p].text \o t[k + 1]
    BY <1>2, <2>1
  <2>7. f[k + 1] = String(t[(k + 1) + 1]) /\ t[(k + 1) + 1] \in Texts
    BY <1>2, <2>1, <2>2, <2>5, <2>6
  <2>8. f[k + 1] \in Operands
    BY <2>7, StringOperand
  <2>9. IsText(f[k + 1]) /\ f[k + 1].text = t[(k + 1) + 1]
    BY <2>7 DEF IsText
  <2> QED BY <2>1, <2>7, <2>8, <2>9
<1>5. n - 1 \in Nat /\ n - 1 \in 0..n - 1 /\ n - 1 > 0 /\ (n - 1) + 1 = n /\ n \in 0..n
  BY <1>1
<1>6. \A x : x \in I[n - 1] => x = String(t[n])
  BY <1>5
<1> HIDE DEF I
<1>7. f[n - 1] \in I[n - 1]
  BY <1>3, <1>4, <1>5, ClimbsTo
<1> QED BY <1>2, <1>5, <1>6, <1>7

------------------------------------------------------------------------------
(* The invariant, and every branch of a pass. *)

CatInv ==
  /\ cat \in [row : Rows, left : RowsOf, status : {"run", "done", "error"}]
  /\ ConcatAgrees

(* The last d + 1 values are replaced by v. *)
LEMMA ReplaceShortens ==
  ASSUME cat.left \in RowsOf, NEW v \in Operands, NEW n \in 1..Total
  PROVE  LET ws == Append(SubSeq(cat.left, 1, Total - n), v)
         IN Shortened(cat.left, n - 1, ws) /\ ws[Len(ws)] = v
<1> DEFINE vs == cat.left
           m == Len(vs)
           s == SubSeq(vs, 1, m - n)
           ws == Append(s, v)
<1>1. m \in Nat /\ \A k \in 1..m : vs[k] \in Operands
  BY RowSize
<1>2. m - n \in 0..m /\ m - n \in Int /\ m - n - 1 + 1 = m - n
  BY <1>1 DEF Total
<1>3. /\ s \in Seq(Operands) /\ Len(s) = m - n
      /\ \A k \in 1..m - n : s[k] = vs[k]
  <2>1. \A i \in 1..m - n : vs[i] \in Operands /\ 1 + i - 1 = i
    BY <1>1, <1>2
  <2> HIDE DEF vs, m
  <2> QED BY <1>1, <1>2, <2>1, SubSeqProperties
<1> HIDE DEF s, vs, m
<1>4. /\ ws \in Seq(Operands) /\ Len(ws) = (m - n) + 1 /\ ws[Len(ws)] = v
      /\ \A k \in 1..m - n : ws[k] = vs[k]
  <2>1. m - n \in Nat
    BY <1>1, <1>2
  <2> QED BY <1>3, <2>1, AppendProperties
<1> HIDE DEF ws
<1>5. Len(ws) > 0 /\ Len(ws) = m - (n - 1) /\ Len(ws) - 1 = m - n
  <2> DEFINE len == Len(ws)
  <2>1. len = (m - n) + 1 /\ m \in Nat /\ n \in Int /\ m - n >= 0
    BY <1>1, <1>2, <1>4
  <2> HIDE DEF len
  <2>2. len > 0 /\ len = m - (n - 1) /\ len - 1 = m - n
    BY <2>1
  <2> QED BY <2>2 DEF len
<1>6. Shortened(vs, n - 1, ws)
  BY <1>4, <1>5 DEF Shortened, RowsOf, m
<1> QED BY <1>4, <1>6, Zenon DEF ws, s, vs, m, Total

LEMMA PassKeeps == ASSUME CatInv, ConcatPass PROVE CatInv'
<1> DEFINE vs == cat.left
           m == Len(vs)
           n == TextsFrom(vs)
<1>1. /\ cat \in [row : Rows, left : RowsOf, status : {"run", "done", "error"}]
      /\ vs \in RowsOf /\ m \in Nat /\ m > 0 /\ \A k \in 1..m : vs[k] \in Operands
      /\ ConcatMeaning(vs) = ConcatMeaning(cat.row)
  BY RowSize DEF CatInv, ConcatAgrees, ConcatPass
<1>2. CASE m = 1
  <2>1. cat' = [cat EXCEPT !.status = "done"]
    BY <1>2 DEF ConcatPass, Total
  <2> QED BY <1>1, <2>1 DEF CatInv, ConcatAgrees
<1>3. CASE m # 1
  <2>1. PICK f : Stages(vs, f)
    BY <1>1, StagesExist
  <2> DEFINE l == vs[m - 1]
             r == vs[m]
  <2>2. m >= 2 /\ m - 1 \in 1..m /\ m \in 1..m /\ 1 \in 1..m - 1 /\ 1 \in 0..m - 1 /\ m + 1 - 2 = m - 1 /\ m + 1 - 1 = m /\ 2 \in 1..m
    <3> HIDE DEF m
    <3> QED BY <1>1, <1>3
  <2>3. l \in Operands /\ r \in Operands /\ Last(2) = l /\ Last(1) = r
    BY <1>1, <2>2 DEF Last, Total
  <2>4. f[1] = Two(l, r)
    BY <2>1, <2>2 DEF Stages
  <2>5. ASSUME NEW k \in 2..m, NEW v \in Operands, f[k - 1] = v, cat' = Replace(k, v)
        PROVE  CatInv'
    <3> DEFINE ws == Append(SubSeq(vs, 1, m - k), v)
    <3>1. k \in 1..Total /\ k - 1 \in 0..m - 1
      BY <1>1, <2>2 DEF Total
    <3>2. Shortened(vs, k - 1, ws) /\ ws[Len(ws)] = v
      BY <1>1, <3>1, ReplaceShortens DEF Total
    <3>3. cat' = [cat EXCEPT !.left = ws]
      BY <2>5 DEF Replace, Total
    <3> HIDE DEF ws
    <3>4. ws \in RowsOf
      BY <3>2 DEF Shortened
    <3> HIDE DEF m, n
    <3>5. ConcatMeaning(ws) = ConcatMeaning(vs)
      BY <1>1, <2>1, <2>5, <3>1, <3>2, ShortenedMeans DEF m
    <3>6. cat.status = "run"
      BY DEF ConcatPass
    <3> QED BY <1>1, <3>3, <3>4, <3>5, <3>6 DEF CatInv, ConcatAgrees
  <2> HIDE DEF l, r
  <2>6. CASE ~IsText(l) \/ ~IsText(r)
    <3> DEFINE v == call_binTM(l, r)
    <3>1. v = f[1]
      BY <2>3, <2>4, <2>6, TwoCalled
    <3>2. v \in Operands \/ v = Refused
      BY <2>1, <2>2, <3>1 DEF Stages, Results
    <3>3. cat' = IF v = Refused THEN [cat EXCEPT !.status = "error"] ELSE Replace(2, v)
      BY <1>3, <2>3, <2>6, Zenon DEF ConcatPass, Total
    <3> HIDE DEF v
    <3>4. CASE v = Refused
      <4>1. ConcatMeaning(vs) = Refused
        BY <1>1, <2>1, <2>2, <3>1, <3>4, RefusedMeans
      <4>2. cat' = [cat EXCEPT !.status = "error"]
        BY <3>3, <3>4
      <4> QED BY <1>1, <4>1, <4>2 DEF CatInv, ConcatAgrees
    <3>5. CASE v # Refused
      <4>1. 2 \in 2..m /\ 2 - 1 = 1
        BY <2>2
      <4> QED BY <2>5, <3>1, <3>2, <3>3, <3>5, <4>1
    <3> QED BY <3>4, <3>5
  <2>7. CASE IsText(l) /\ IsText(r) /\ r.text = <<>>
    <3>1. cat' = Replace(2, AsString(l))
      BY <1>3, <2>3, <2>7, Zenon DEF ConcatPass, Total
    <3>2. l.text \in Texts
      BY <2>3, <2>7, OperandKinds
    <3>3. l.text \o <<>> = l.text
      BY <3>2, ConcatEmptySeq DEF Texts
    <3>4. f[1] = AsString(l)
      BY <2>3, <2>4, <2>7, <3>3, TwoTexts DEF AsString
    <3>5. AsString(l) \in Operands
      BY <3>2, StringOperand DEF AsString
    <3>6. 2 \in 2..m /\ 2 - 1 = 1
      BY <2>2
    <3> QED BY <2>5, <3>1, <3>4, <3>5, <3>6
  <2>8. CASE IsText(l) /\ IsText(r) /\ r.text # <<>>
    <3> DEFINE v == [k |-> "string", text |-> Joined(vs, n)]
    <3>1. cat' = Replace(n, v)
      BY <1>3, <2>3, <2>8, Zenon DEF ConcatPass, Total
    <3>2. n \in 0..m /\ (\A k \in m - n + 1..m : IsText(vs[k])) /\ (n < m => ~IsText(vs[m - n]))
      BY <1>1, TextsCounted DEF TextsAre
    <3>3. n >= 2
      <4> HIDE DEF n
      <4>1. CASE n = 0
        BY <2>2, <2>8, <3>2, <4>1 DEF r
      <4>2. CASE n = 1
        BY <2>2, <2>8, <3>2, <4>2 DEF l
      <4> QED BY <3>2, <4>1, <4>2
    <3> HIDE DEF n
    <3>4. f[n - 1] = v /\ Joined(vs, n) \in Texts
      BY <1>1, <2>1, <3>2, <3>3, TextsMean
    <3>5. v \in Operands
      BY <3>4, StringOperand
    <3>6. n \in 2..m
      BY <1>1, <3>2, <3>3
    <3> QED BY <2>5, <3>1, <3>4, <3>5, <3>6
  <2> QED BY <2>6, <2>7, <2>8
<1> QED BY <1>2, <1>3

(* However luaV_concat groups a row, and whatever metamethods take part, what *)
(* is left on the stack has the meaning of the whole, and it is refused only  *)
(* where that meaning is an error (luaV_concat), for rows of any length.      *)
THEOREM ConcatIsRight == CatSpec => []ConcatAgrees
<1>1. cat \in CatStates => CatInv
  <2> SUFFICES ASSUME NEW r \in Rows, cat = [row |-> r, left |-> r, status |-> "run"] PROVE CatInv
    BY DEF CatStates
  <2>1. r \in Seq(Operands) /\ r # <<>>
    BY ConcatAssumption
  <2>2. r \in RowsOf
    BY <2>1, EmptySeq DEF RowsOf
  <2> QED BY <2>2 DEF CatInv, ConcatAgrees
<1>2. CatInv /\ [CatNext]_cat => CatInv'
  <2>1. CatInv /\ UNCHANGED cat => CatInv'
    BY DEF CatInv, ConcatAgrees
  <2> QED BY <2>1, PassKeeps DEF CatNext
<1>3. CatInv => ConcatAgrees
  BY DEF CatInv
<1> QED BY <1>1, <1>2, <1>3, PTL DEF CatSpec

------------------------------------------------------------------------------
(* Sequences: what is in them, in which order, and what is left of them.     *)

(* f are the elements of S among the first n of s. *)
Selects(s, S, n, f) ==
  \E p \in [1..Len(f) -> 1..n] :
    /\ \A k \in 1..Len(f) : s[p[k]] = f[k] /\ f[k] \in S
    /\ \A j, k \in 1..Len(f) : j < k => p[j] < p[k]
    /\ \A i \in 1..n : s[i] \in S => \E k \in 1..Len(f) : p[k] = i

LEMMA SelectsNothing == ASSUME NEW s, NEW S PROVE Selects(s, S, 0, <<>>)
<1> DEFINE p == [k \in 1..0 |-> k]
<1>1. 1..Len(<<>>) = {} /\ 1..0 = {}
  OBVIOUS
<1>2. p \in [1..Len(<<>>) -> 1..0]
  BY <1>1
<1> HIDE DEF p
<1> QED BY <1>1, <1>2 DEF Selects

LEMMA SelectsSkip ==
  ASSUME NEW s, NEW S, NEW n \in Nat, NEW f, Selects(s, S, n, f), s[n + 1] \notin S
  PROVE  Selects(s, S, n + 1, f)
<1>1. PICK p \in [1..Len(f) -> 1..n] :
        /\ \A k \in 1..Len(f) : s[p[k]] = f[k] /\ f[k] \in S
        /\ \A j, k \in 1..Len(f) : j < k => p[j] < p[k]
        /\ \A i \in 1..n : s[i] \in S => \E k \in 1..Len(f) : p[k] = i
  BY DEF Selects
<1>2. \A i \in 1..n + 1 : i \in 1..n \/ i = n + 1
  OBVIOUS
<1>3. 1..n \subseteq 1..n + 1
  OBVIOUS
<1>4. p \in [1..Len(f) -> 1..n + 1]
  BY <1>3
<1>5. \A i \in 1..n + 1 : s[i] \in S => \E k \in 1..Len(f) : p[k] = i
  BY <1>1, <1>2
<1> QED BY <1>1, <1>4, <1>5, Zenon DEF Selects

LEMMA SelectsTake ==
  ASSUME NEW V, NEW s, NEW S, NEW n \in Nat, NEW f \in Seq(V), Selects(s, S, n, f), s[n + 1] \in S, s[n + 1] \in V
  PROVE  Selects(s, S, n + 1, Append(f, s[n + 1]))
<1> DEFINE m == Len(f)
           v == s[n + 1]
           g == Append(f, v)
<1>1. PICK p \in [1..m -> 1..n] :
        /\ \A k \in 1..m : s[p[k]] = f[k] /\ f[k] \in S
        /\ \A j, k \in 1..m : j < k => p[j] < p[k]
        /\ \A i \in 1..n : s[i] \in S => \E k \in 1..m : p[k] = i
  BY DEF Selects
<1>2. m \in Nat
  BY LenProperties
<1>3. Len(g) = m + 1 /\ g[m + 1] = v /\ \A k \in 1..m : g[k] = f[k]
  BY AppendProperties
<1> DEFINE q == [k \in 1..m + 1 |-> IF k = m + 1 THEN n + 1 ELSE p[k]]
<1>4. \A k \in 1..m + 1 : (k \in 1..m /\ k # m + 1) \/ k = m + 1
  BY <1>2
<1>5. /\ \A k \in 1..m : k \in 1..m + 1 /\ k # m + 1
      /\ m + 1 \in 1..m + 1 /\ n + 1 \in 1..n + 1 /\ \A i \in 1..n : i \in 1..n + 1
      /\ \A i \in 1..n + 1 : i \in 1..n \/ i = n + 1
  BY <1>2
<1>6. q[m + 1] = n + 1 /\ \A k \in 1..m : q[k] = p[k] /\ p[k] \in 1..n
  BY <1>5
<1>7. q \in [1..m + 1 -> 1..n + 1]
  BY <1>4, <1>5, <1>6
<1> HIDE DEF q, g, v, m
<1>8. ASSUME NEW k \in 1..m + 1 PROVE s[q[k]] = g[k] /\ g[k] \in S
  <2>1. CASE k \in 1..m
    BY <1>1, <1>3, <1>6, <2>1
  <2>2. CASE k = m + 1
    BY <1>3, <1>6, <2>2 DEF v
  <2> QED BY <1>4, <2>1, <2>2
<1>9. ASSUME NEW j \in 1..m + 1, NEW k \in 1..m + 1, j < k PROVE q[j] < q[k]
  <2>1. j \in 1..m
    BY <1>2, <1>9
  <2>2. CASE k \in 1..m
    BY <1>1, <1>6, <1>9, <2>1, <2>2
  <2>3. CASE k = m + 1
    <3>1. q[j] \in 1..n /\ q[k] = n + 1
      BY <1>6, <2>1, <2>3
    <3> QED BY <3>1
  <2> QED BY <1>4, <2>2, <2>3
<1>10. ASSUME NEW i \in 1..n + 1, s[i] \in S PROVE \E k \in 1..m + 1 : q[k] = i
  BY <1>1, <1>5, <1>6, <1>10
<1>11. \E r \in [1..Len(g) -> 1..n + 1] :
         /\ \A k \in 1..Len(g) : s[r[k]] = g[k] /\ g[k] \in S
         /\ \A j, k \in 1..Len(g) : j < k => r[j] < r[k]
         /\ \A i \in 1..n + 1 : s[i] \in S => \E k \in 1..Len(g) : r[k] = i
  <2>1. Len(g) = m + 1
    BY <1>3
  <2>2. q \in [1..Len(g) -> 1..n + 1]
    BY <1>7, <2>1
  <2>3. \A k \in 1..Len(g) : s[q[k]] = g[k] /\ g[k] \in S
    BY <1>8, <2>1
  <2>4. \A j, k \in 1..Len(g) : j < k => q[j] < q[k]
    BY <1>9, <2>1
  <2>5. \A i \in 1..n + 1 : s[i] \in S => \E k \in 1..Len(g) : q[k] = i
    BY <1>10, <2>1
  <2> QED BY <2>2, <2>3, <2>4, <2>5, Zenon
<1>12. Selects(s, S, n + 1, g)
  BY <1>11, Zenon DEF Selects
<1> QED BY <1>12 DEF g, v

KeptIs(s, S, f) ==
  f = [n \in 0..Len(s) |-> IF n = 0 THEN <<>> ELSE IF s[n] \in S THEN Append(f[n - 1], s[n]) ELSE f[n - 1]]

LEMMA FilteredOf == ASSUME NEW s, NEW S PROVE Filtered(s, S) = (CHOOSE f : KeptIs(s, S, f))[Len(s)]
BY Zenon DEF Filtered, KeptIs

LEMMA FilteredSelects ==
  ASSUME NEW V, NEW s \in Seq(V), NEW S
  PROVE  Filtered(s, S) \in Seq(V) /\ Selects(s, S, Len(s), Filtered(s, S))
<1> DEFINE n == Len(s)
           W == Seq(V)
           Next(w, k) == IF s[k] \in S THEN Append(w, s[k]) ELSE w
           G == [x \in W \X (1..n) |-> Next(x[1], x[2])]
<1>1. n \in Nat /\ \A k \in 1..n : s[k] \in V
  BY LenProperties, ElementOfSeq
<1>2. <<>> \in W
  BY EmptySeq
<1>3. ASSUME NEW w \in W, NEW k \in 1..n PROVE G[<<w, k>>] = Next(w, k) /\ Next(w, k) \in W
  <2>1. Append(w, s[k]) \in W
    BY <1>1, AppendProperties
  <2>2. G[<<w, k>>] = Next(w, k)
    OBVIOUS
  <2> QED BY <2>1, <2>2
<1> HIDE DEF G
<1>4. StepsIn(W, n, G)
  BY <1>3 DEF StepsIn
<1>5. PICK f : ClimbsIn(W, n, <<>>, G, f)
  BY <1>1, <1>2, <1>4, ClimbsWithin
<1>6. ASSUME NEW k \in 0..n
      PROVE  (IF k = 0 THEN <<>> ELSE G[<<f[k - 1], k>>]) = (IF k = 0 THEN <<>> ELSE Next(f[k - 1], k))
  <2>1. k # 0 => k \in 1..n /\ k - 1 \in 0..n
    BY <1>1
  <2> HIDE DEF Next
  <2> QED BY <1>3, <1>5, <2>1 DEF ClimbsIn
<1>7. f = [k \in 0..n |-> IF k = 0 THEN <<>> ELSE Next(f[k - 1], k)]
  <2> HIDE DEF Next
  <2> QED BY <1>5, <1>6 DEF ClimbsIn, Climbs
<1>8. KeptIs(s, S, f)
  BY <1>7, Zenon DEF KeptIs
<1> DEFINE t == CHOOSE x : KeptIs(s, S, x)
<1>9. KeptIs(s, S, t)
  BY <1>8, Zenon
<1>10. t[n] = Filtered(s, S)
  BY FilteredOf, Zenon
<1> HIDE DEF t
<1>11. t = [k \in 0..n |-> IF k = 0 THEN <<>> ELSE Next(t[k - 1], k)]
  BY <1>9, Zenon DEF KeptIs
<1>12. t[0] = <<>> /\ \A k \in 1..n : t[k] = Next(t[k - 1], k)
  <2> HIDE DEF Next
  <2> QED BY <1>1, <1>11
<1> DEFINE I == [k \in 0..n |-> {w \in W : Selects(s, S, k, w)}]
<1>13. t[0] \in I[0]
  BY <1>1, <1>2, <1>12, SelectsNothing
<1>14. ASSUME NEW k \in 0..n - 1, t[k] \in I[k] PROVE t[k + 1] \in I[k + 1]
  <2>1. k \in 0..n /\ k + 1 \in 0..n /\ k + 1 \in 1..n /\ (k + 1) - 1 = k /\ k \in Nat
    BY <1>1
  <2>2. t[k] \in W /\ Selects(s, S, k, t[k])
    BY <1>14, <2>1
  <2>3. t[k + 1] = Next(t[k], k + 1)
    BY <1>12, <2>1, Zenon
  <2>4. Next(t[k], k + 1) \in W
    BY <1>3, <2>1, <2>2, Zenon
  <2>5. Selects(s, S, k + 1, Next(t[k], k + 1))
    <3>1. CASE s[k + 1] \in S
      BY <1>1, <2>1, <2>2, <3>1, SelectsTake
    <3>2. CASE s[k + 1] \notin S
      BY <2>1, <2>2, <3>2, SelectsSkip
    <3> QED BY <3>1, <3>2
  <2> QED BY <2>1, <2>3, <2>4, <2>5
<1> HIDE DEF I
<1>15. \A k \in 0..n : t[k] \in I[k]
  BY <1>1, <1>13, <1>14, ClimbsTo
<1>16. t[n] \in I[n] /\ n \in 0..n
  BY <1>1, <1>15
<1> QED BY <1>10, <1>16 DEF I

(* What a filter keeps, and its order. *)
LEMMA FilteredKeeps ==
  ASSUME NEW V, NEW s \in Seq(V), NEW S
  PROVE  /\ Filtered(s, S) \in Seq(V) /\ Listed(Filtered(s, S)) = Listed(s) \cap S
         /\ Distinct(s) => Distinct(Filtered(s, S))
         /\ \A u, v \in S : Before(s, u, v) => Before(Filtered(s, S), u, v)
         /\ \A u, v : Before(Filtered(s, S), u, v) => Before(s, u, v)
<1> DEFINE f == Filtered(s, S)
           n == Len(s)
           m == Len(f)
<1>1. f \in Seq(V) /\ Selects(s, S, n, f)
  BY FilteredSelects
<1>2. n \in Nat /\ m \in Nat
  BY <1>1, LenProperties
<1> HIDE DEF f
<1>3. PICK p \in [1..m -> 1..n] :
        /\ \A k \in 1..m : s[p[k]] = f[k] /\ f[k] \in S
        /\ \A j, k \in 1..m : j < k => p[j] < p[k]
        /\ \A i \in 1..n : s[i] \in S => \E k \in 1..m : p[k] = i
  BY <1>1 DEF Selects
<1> HIDE DEF n, m
<1>4. Listed(f) = Listed(s) \cap S
  <2>1. ASSUME NEW k \in 1..m PROVE f[k] \in Listed(s) \cap S
    BY <1>3, <2>1 DEF Listed, n
  <2>2. ASSUME NEW i \in 1..n, s[i] \in S PROVE s[i] \in Listed(f)
    <3>1. PICK k \in 1..m : p[k] = i
      BY <1>3, <2>2
    <3>2. f[k] = s[i]
      BY <1>3, <3>1
    <3> QED BY <3>2 DEF Listed, m
  <2> QED BY <2>1, <2>2 DEF Listed, n, m
<1>5. ASSUME NEW j \in 1..m, NEW k \in 1..m, p[j] < p[k] PROVE j < k
  <2>1. k < j => p[k] < p[j]
    BY <1>3
  <2>2. p[j] \in 1..n /\ p[k] \in 1..n
    BY <1>3
  <2>3. ~(k < j) /\ k # j
    BY <1>2, <1>5, <2>1, <2>2
  <2> QED BY <1>2, <2>3
<1>6. ASSUME Distinct(s) PROVE Distinct(f)
  <2> SUFFICES ASSUME NEW j \in 1..m, NEW k \in 1..m, f[j] = f[k] PROVE j = k
    BY DEF Distinct, m
  <2>1. p[j] = p[k] /\ p[j] \in 1..n
    BY <1>3, <1>6 DEF Distinct, n
  <2>2. ~(j < k) /\ ~(k < j)
    BY <1>2, <1>3, <2>1
  <2> QED BY <1>2, <2>2
<1>7. ASSUME NEW u \in S, NEW v \in S, Before(s, u, v) PROVE Before(f, u, v)
  <2>1. PICK i \in 1..n, h \in 1..n : i < h /\ s[i] = u /\ s[h] = v
    BY <1>7 DEF Before, n
  <2>2. PICK j \in 1..m : p[j] = i
    BY <1>3, <2>1
  <2>3. PICK k \in 1..m : p[k] = h
    BY <1>3, <2>1
  <2>4. j < k /\ f[j] = u /\ f[k] = v
    BY <1>3, <1>5, <2>1, <2>2, <2>3
  <2> QED BY <2>4 DEF Before, m
<1>8. ASSUME NEW u, NEW v, Before(f, u, v) PROVE Before(s, u, v)
  <2>1. PICK j \in 1..m, k \in 1..m : j < k /\ f[j] = u /\ f[k] = v
    BY <1>8 DEF Before, m
  <2>2. p[j] < p[k] /\ s[p[j]] = u /\ s[p[k]] = v /\ p[j] \in 1..n /\ p[k] \in 1..n
    BY <1>3, <2>1
  <2> QED BY <2>2 DEF Before, n
<1> QED BY <1>1, <1>4, <1>6, <1>7, <1>8 DEF f

LEMMA JoinedRows ==
  ASSUME NEW V, NEW s \in Seq(V), NEW t \in Seq(V)
  PROVE  /\ s \o t \in Seq(V) /\ Listed(s \o t) = Listed(s) \cup Listed(t)
         /\ \A u, v : Before(s, u, v) => Before(s \o t, u, v)
         /\ \A u, v : Before(t, u, v) => Before(s \o t, u, v)
         /\ \A u \in Listed(s), v \in Listed(t) : Before(s \o t, u, v)
         /\ \A u, v : Before(s \o t, u, v) =>
              Before(s, u, v) \/ Before(t, u, v) \/ (u \in Listed(s) /\ v \in Listed(t))
         /\ Distinct(s \o t) <=> Distinct(s) /\ Distinct(t) /\ Listed(s) \cap Listed(t) = {}
<1> DEFINE m == Len(s)
           n == Len(t)
           f == s \o t
<1>1. m \in Nat /\ n \in Nat /\ f \in Seq(V) /\ Len(f) = m + n
  BY LenProperties, ConcatProperties
<1>2. \A k \in 1..m : f[k] = s[k] /\ k \in 1..m + n
  BY <1>1, ConcatProperties
<1>3. \A k \in 1..n : f[m + k] = t[k] /\ m + k \in 1..m + n
  <2>1. \A i \in 1..m + n : f[i] = IF i <= m THEN s[i] ELSE t[i - m]
    BY <1>1, ConcatProperties
  <2>2. ASSUME NEW k \in 1..n PROVE m + k \in 1..m + n /\ ~(m + k <= m) /\ (m + k) - m = k
    <3> HIDE DEF m, n, f
    <3> QED BY <1>1
  <2> HIDE DEF m, n, f
  <2>3. ASSUME NEW k \in 1..n PROVE f[m + k] = t[k]
    <3>1. f[m + k] = IF m + k <= m THEN s[m + k] ELSE t[(m + k) - m]
      BY <2>1, <2>2
    <3> QED BY <2>2, <3>1
  <2> QED BY <2>2, <2>3
<1> HIDE DEF m, n, f
<1>4. \A i \in 1..m + n : i \in 1..m \/ \E k \in 1..n : i = m + k
  <2> SUFFICES ASSUME NEW i \in 1..m + n, i \notin 1..m PROVE \E k \in 1..n : i = m + k
    OBVIOUS
  <2>1. i - m \in 1..n /\ i = m + (i - m)
    BY <1>1
  <2> QED BY <2>1
<1>5. Listed(f) = Listed(s) \cup Listed(t)
  <2>1. \A x : x \in Listed(s) \cup Listed(t) => x \in Listed(f)
    BY <1>1, <1>2, <1>3 DEF Listed, m, n
  <2>2. \A x : x \in Listed(f) => x \in Listed(s) \cup Listed(t)
    <3> SUFFICES ASSUME NEW i \in 1..m + n PROVE f[i] \in Listed(s) \cup Listed(t)
      BY <1>1 DEF Listed
    <3>1. CASE i \in 1..m
      BY <1>2, <3>1 DEF Listed, m
    <3>2. ASSUME NEW k \in 1..n, i = m + k PROVE f[i] \in Listed(t)
      BY <1>3, <3>2 DEF Listed, n
    <3> QED BY <1>4, <3>1, <3>2
  <2> QED BY <2>1, <2>2
<1>6. ASSUME NEW u, NEW v, Before(s, u, v) PROVE Before(f, u, v)
  <2>1. PICK j \in 1..m, k \in 1..m : j < k /\ s[j] = u /\ s[k] = v
    BY <1>6 DEF Before, m
  <2> QED BY <1>1, <1>2, <2>1 DEF Before
<1>7. ASSUME NEW u, NEW v, Before(t, u, v) PROVE Before(f, u, v)
  <2>1. PICK j \in 1..n, k \in 1..n : j < k /\ t[j] = u /\ t[k] = v
    BY <1>7 DEF Before, n
  <2>2. m + j < m + k
    BY <1>1, <2>1
  <2> QED BY <1>1, <1>3, <2>1, <2>2 DEF Before
<1>8. ASSUME NEW u \in Listed(s), NEW v \in Listed(t) PROVE Before(f, u, v)
  <2>1. PICK j \in 1..m : s[j] = u
    BY DEF Listed, m
  <2>2. PICK k \in 1..n : t[k] = v
    BY DEF Listed, n
  <2>3. j < m + k
    BY <1>1, <2>1, <2>2
  <2> QED BY <1>1, <1>2, <1>3, <2>1, <2>2, <2>3 DEF Before
<1>9. ASSUME NEW u, NEW v, Before(f, u, v)
      PROVE  Before(s, u, v) \/ Before(t, u, v) \/ (u \in Listed(s) /\ v \in Listed(t))
  <2>1. PICK i \in 1..m + n, h \in 1..m + n : i < h /\ f[i] = u /\ f[h] = v
    BY <1>1, <1>9 DEF Before
  <2>2. CASE h \in 1..m
    <3>1. i \in 1..m
      BY <1>1, <2>1, <2>2
    <3> QED BY <1>2, <2>1, <2>2, <3>1 DEF Before, m
  <2>3. ASSUME NEW k \in 1..n, h = m + k
        PROVE  Before(t, u, v) \/ (u \in Listed(s) /\ v \in Listed(t))
    <3>1. t[k] = v /\ v \in Listed(t)
      BY <1>3, <2>1, <2>3 DEF Listed, n
    <3>2. CASE i \in 1..m
      BY <1>2, <2>1, <3>1, <3>2 DEF Listed, m
    <3>3. ASSUME NEW j \in 1..n, i = m + j PROVE Before(t, u, v)
      <4>1. j < k
        BY <1>1, <2>1, <2>3, <3>3
      <4>2. t[j] = u
        BY <1>3, <2>1, <3>3
      <4> QED BY <3>1, <4>1, <4>2 DEF Before, n
    <3> QED BY <1>4, <3>2, <3>3
  <2> QED BY <1>4, <2>2, <2>3
<1>10. ASSUME Distinct(f) PROVE Distinct(s) /\ Distinct(t) /\ Listed(s) \cap Listed(t) = {}
  <2>1. \A j, k \in 1..m + n : f[j] = f[k] => j = k
    BY <1>1, <1>10 DEF Distinct
  <2>2. Distinct(s)
    BY <1>2, <2>1 DEF Distinct, m
  <2>3. \A j, k \in 1..n : m + j = m + k => j = k
    BY <1>1
  <2>4. Distinct(t)
    BY <1>3, <2>1, <2>3 DEF Distinct, n
  <2>5. \A j \in 1..m, k \in 1..n : j # m + k
    BY <1>1
  <2>6. \A j \in 1..m, k \in 1..n : s[j] # t[k]
    BY <1>2, <1>3, <2>1, <2>5
  <2>7. Listed(s) \cap Listed(t) = {}
    BY <2>6 DEF Listed, m, n
  <2> QED BY <2>2, <2>4, <2>7
<1>11. ASSUME Distinct(s), Distinct(t), Listed(s) \cap Listed(t) = {} PROVE Distinct(f)
  <2>1. \A j \in 1..m, k \in 1..n : s[j] # t[k]
    BY <1>11 DEF Listed, m, n
  <2>2. \A j, k \in 1..m : s[j] = s[k] => j = k
    BY <1>11 DEF Distinct, m
  <2>3. \A j, k \in 1..n : t[j] = t[k] => j = k
    BY <1>11 DEF Distinct, n
  <2>4. ASSUME NEW j \in 1..m + n, NEW k \in 1..m + n, f[j] = f[k] PROVE j = k
    BY <1>2, <1>3, <1>4, <2>1, <2>2, <2>3, <2>4
  <2> QED BY <1>1, <2>4 DEF Distinct
<1> QED BY <1>1, <1>5, <1>6, <1>7, <1>8, <1>9, <1>10, <1>11 DEF f

------------------------------------------------------------------------------
(* Sizes of blocks, and how many bytes they are together.                    *)

Cells(f) == UNION {{b} \X (1..f[b]) : b \in DOMAIN f}
Names == Userdata \cup Threads
         \cup {"main", "globals", "registry", "strings", "event names", "reserved words", "memory message"}
Blocks == Names \X {"LG", "object", "ci", "stack", "nodes", "hash"}
Sizings == {f \in UNION {[D -> Nat] : D \in SUBSET Blocks} : IsFiniteSet(Cells(f))}

LEMMA SizingIs ==
  ASSUME NEW f
  PROVE  f \in Sizings <=> /\ DOMAIN f \subseteq Blocks /\ f \in [DOMAIN f -> Nat] /\ IsFiniteSet(Cells(f))
BY DEF Sizings

LEMMA CellsAre ==
  ASSUME NEW f
  PROVE  /\ \A b \in DOMAIN f : \A i \in 1..f[b] : <<b, i>> \in Cells(f)
         /\ \A x \in Cells(f) : \E b \in DOMAIN f : \E i \in 1..f[b] : x = <<b, i>>
BY DEF Cells

LEMMA CellsOfOne ==
  ASSUME NEW b, NEW n \in Nat
  PROVE  IsFiniteSet({b} \X (1..n)) /\ Cardinality({b} \X (1..n)) = n
<1> DEFINE T == {b} \X (1..n)
           f == [i \in 1..n |-> <<b, i>>]
<1>1. f \in Surjection(1..n, T) /\ f \in Injection(1..n, T)
  <2>1. f \in [1..n -> T] /\ \A i \in 1..n : f[i] = <<b, i>>
    OBVIOUS
  <2>2. \A t \in T : \E i \in 1..n : t = <<b, i>>
    OBVIOUS
  <2> HIDE DEF f, T
  <2>3. \A t \in T : \E i \in 1..n : f[i] = t
    BY <2>1, <2>2
  <2>4. \A i, j \in DOMAIN f : f[i] = f[j] => i = j
    BY <2>1
  <2> QED BY <2>1, <2>3, <2>4, Zenon DEF Surjection, Injection, IsInjective
<1>2. IsFiniteSet(1..n) /\ Cardinality(1..n) = n
  <2>1. 0 \in Int /\ n \in Int /\ 1 \in Int
    OBVIOUS
  <2>2. IsFiniteSet(1..n) /\ Cardinality(1..n) = IF 1 > n THEN 0 ELSE n - 1 + 1
    BY <2>1, FS_Interval
  <2> QED BY <2>2
<1> HIDE DEF f, T
<1>3. IsFiniteSet(T) /\ Cardinality(T) = Cardinality(1..n)
  BY <1>1, <1>2, FS_Surjection
<1> QED BY <1>2, <1>3 DEF T

LEMMA NoBytes == ASSUME NEW f, DOMAIN f = {} PROVE IsFiniteSet(Cells(f)) /\ ByteCount(f) = 0
<1>1. Cells(f) = {}
  BY DEF Cells
<1> QED BY <1>1, FS_EmptySet DEF ByteCount, Cells

LEMMA DisjointCount ==
  ASSUME NEW S, NEW T, IsFiniteSet(S), IsFiniteSet(T), S \cap T = {}
  PROVE  IsFiniteSet(S \cup T) /\ Cardinality(S \cup T) = Cardinality(S) + Cardinality(T)
<1>1. /\ IsFiniteSet(S \cup T)
      /\ Cardinality(S \cup T) = Cardinality(S) + Cardinality(T) - Cardinality(S \cap T)
  BY FS_Union
<1>2. Cardinality(S \cap T) = 0 /\ Cardinality(S) \in Nat /\ Cardinality(T) \in Nat
  BY FS_EmptySet, FS_CardinalityType
<1> QED BY <1>1, <1>2

LEMMA WithoutKeeps ==
  ASSUME NEW f \in Sizings, NEW bs
  PROVE  /\ Without(f, bs) \in Sizings /\ DOMAIN Without(f, bs) = DOMAIN f \ bs
         /\ \A b \in DOMAIN f \ bs : Without(f, bs)[b] = f[b]
<1> DEFINE g == Without(f, bs)
<1>1. DOMAIN f \subseteq Blocks /\ f \in [DOMAIN f -> Nat] /\ IsFiniteSet(Cells(f))
  BY SizingIs
<1>2. DOMAIN g = DOMAIN f \ bs /\ \A b \in DOMAIN f \ bs : g[b] = f[b]
  BY DEF Without
<1>3. g \in [DOMAIN g -> Nat]
  BY <1>1, <1>2 DEF Without
<1> HIDE DEF g
<1>4. Cells(g) \subseteq Cells(f)
  BY <1>2 DEF Cells
<1>5. IsFiniteSet(Cells(g))
  BY <1>1, <1>4, FS_Subset
<1>6. g \in Sizings
  BY <1>1, <1>2, <1>3, <1>5, SizingIs
<1> QED BY <1>2, <1>6 DEF g

LEMMA OnlyKeeps ==
  ASSUME NEW f \in Sizings, NEW bs
  PROVE  /\ Without(f, DOMAIN f \ bs) \in Sizings /\ DOMAIN Without(f, DOMAIN f \ bs) = DOMAIN f \cap bs
         /\ \A b \in DOMAIN f \cap bs : Without(f, DOMAIN f \ bs)[b] = f[b]
<1> DEFINE others == DOMAIN f \ bs
<1>1. /\ Without(f, others) \in Sizings /\ DOMAIN Without(f, others) = DOMAIN f \ others
      /\ \A b \in DOMAIN f \ others : Without(f, others)[b] = f[b]
  <2> HIDE DEF others
  <2> QED BY WithoutKeeps
<1>2. DOMAIN f \ others = DOMAIN f \cap bs
  OBVIOUS
<1> QED BY <1>1, <1>2

LEMMA BytesSplit ==
  ASSUME NEW f \in Sizings, NEW bs
  PROVE  /\ ByteCount(f) = ByteCount(Without(f, bs)) + ByteCount(Without(f, DOMAIN f \ bs))
         /\ ByteCount(f) \in Nat
<1> DEFINE g == Without(f, bs)
           h == Without(f, DOMAIN f \ bs)
<1>1. g \in Sizings /\ DOMAIN g = DOMAIN f \ bs /\ \A b \in DOMAIN g : g[b] = f[b]
  BY WithoutKeeps
<1>2. h \in Sizings /\ DOMAIN h = DOMAIN f \cap bs /\ \A b \in DOMAIN h : h[b] = f[b]
  BY OnlyKeeps
<1> HIDE DEF g, h
<1>3. IsFiniteSet(Cells(f)) /\ IsFiniteSet(Cells(g)) /\ IsFiniteSet(Cells(h))
  BY <1>1, <1>2, SizingIs
<1>4. DOMAIN f = DOMAIN g \cup DOMAIN h /\ DOMAIN g \cap DOMAIN h = {}
  BY <1>1, <1>2
<1>5. Cells(f) = Cells(g) \cup Cells(h)
  <2>1. \A x \in Cells(f) : x \in Cells(g) \cup Cells(h)
    BY <1>1, <1>2, <1>4 DEF Cells
  <2>2. \A x \in Cells(g) \cup Cells(h) : x \in Cells(f)
    BY <1>1, <1>2, <1>4 DEF Cells
  <2> QED BY <2>1, <2>2
<1>6. Cells(g) \cap Cells(h) = {}
  <2> SUFFICES ASSUME NEW x, x \in Cells(g), x \in Cells(h) PROVE FALSE
    OBVIOUS
  <2>1. PICK b \in DOMAIN g : \E i \in 1..g[b] : x = <<b, i>>
    BY CellsAre
  <2>2. PICK c \in DOMAIN h : \E j \in 1..h[c] : x = <<c, j>>
    BY CellsAre
  <2>3. b = c
    BY <2>1, <2>2
  <2> QED BY <1>4, <2>3
<1>7. Cardinality(Cells(f)) = Cardinality(Cells(g)) + Cardinality(Cells(h))
  BY <1>3, <1>5, <1>6, DisjointCount
<1>8. Cardinality(Cells(f)) \in Nat
  BY <1>3, FS_CardinalityType
<1> QED BY <1>7, <1>8, Zenon DEF ByteCount, Cells, g, h

Had(f, b) == IF b \in DOMAIN f THEN f[b] ELSE 0

LEMMA WithKeeps ==
  ASSUME NEW f \in Sizings, NEW b \in Blocks, NEW n \in Nat
  PROVE  /\ With(f, b, n) \in Sizings /\ DOMAIN With(f, b, n) = DOMAIN f \cup {b}
         /\ With(f, b, n)[b] = n /\ \A c \in DOMAIN f \ {b} : With(f, b, n)[c] = f[c]
         /\ ByteCount(With(f, b, n)) = (ByteCount(f) - Had(f, b)) + n
<1> DEFINE g == With(f, b, n)
           r == Without(f, {b})
           one == {b} \X (1..n)
           had == Without(f, DOMAIN f \ {b})
<1>1. DOMAIN f \subseteq Blocks /\ f \in [DOMAIN f -> Nat] /\ IsFiniteSet(Cells(f))
  BY SizingIs
<1>2. DOMAIN g = DOMAIN f \cup {b} /\ \A c \in DOMAIN f \cup {b} : g[c] = IF c = b THEN n ELSE f[c]
  BY DEF With
<1>3. g \in [DOMAIN g -> Nat]
  BY <1>1, <1>2 DEF With
<1>4. r \in Sizings /\ DOMAIN r = DOMAIN f \ {b} /\ \A c \in DOMAIN r : r[c] = f[c]
  BY WithoutKeeps
<1>5. had \in Sizings /\ DOMAIN had = DOMAIN f \cap {b} /\ \A c \in DOMAIN had : had[c] = f[c]
  BY OnlyKeeps
<1>6. ByteCount(f) = ByteCount(r) + ByteCount(had) /\ ByteCount(r) \in Nat /\ ByteCount(had) \in Nat
  BY <1>4, <1>5, BytesSplit
<1> HIDE DEF g, r, had
<1>7. Cells(g) = Cells(r) \cup one
  <2>1. \A x \in Cells(g) : x \in Cells(r) \cup one
    <3> SUFFICES ASSUME NEW x \in Cells(g) PROVE x \in Cells(r) \cup one
      OBVIOUS
    <3>1. PICK c \in DOMAIN g : \E i \in 1..g[c] : x = <<c, i>>
      BY CellsAre
    <3>2. CASE c = b
      BY <1>2, <3>1, <3>2
    <3>3. CASE c # b
      <4>1. c \in DOMAIN r /\ r[c] = g[c]
        BY <1>2, <1>4, <3>3
      <4> QED BY <3>1, <4>1, CellsAre
    <3> QED BY <3>2, <3>3
  <2>2. Cells(r) \subseteq Cells(g)
    BY <1>2, <1>4 DEF Cells
  <2>3. \A x \in one : x \in Cells(g)
    <3> SUFFICES ASSUME NEW i \in 1..n PROVE <<b, i>> \in Cells(g)
      OBVIOUS
    <3>1. b \in DOMAIN g /\ g[b] = n
      BY <1>2
    <3> QED BY <3>1, CellsAre
  <2> HIDE DEF one
  <2> QED BY <2>1, <2>2, <2>3
<1>8. Cells(r) \cap one = {}
  <2> SUFFICES ASSUME NEW x, x \in Cells(r), x \in one PROVE FALSE
    OBVIOUS
  <2>1. PICK c \in DOMAIN r : \E i \in 1..r[c] : x = <<c, i>>
    BY CellsAre
  <2>2. c = b
    BY <2>1
  <2> QED BY <1>4, <2>2
<1>9. IsFiniteSet(one) /\ Cardinality(one) = n
  BY CellsOfOne
<1> HIDE DEF one
<1>10. IsFiniteSet(Cells(r))
  BY <1>4, SizingIs
<1>11. IsFiniteSet(Cells(g)) /\ Cardinality(Cells(g)) = Cardinality(Cells(r)) + Cardinality(one)
  BY <1>7, <1>8, <1>9, <1>10, DisjointCount
<1>12. ByteCount(g) = ByteCount(r) + n
  BY <1>9, <1>11, Zenon DEF ByteCount, Cells
<1>13. ByteCount(had) = IF b \in DOMAIN f THEN f[b] ELSE 0
  <2>1. CASE b \in DOMAIN f
    <3>1. DOMAIN had = {b} /\ had[b] = f[b]
      BY <1>5, <2>1
    <3>2. Cells(had) = {b} \X (1..f[b])
      BY <3>1 DEF Cells
    <3>3. f[b] \in Nat
      BY <1>1, <2>1
    <3>4. Cardinality(Cells(had)) = f[b]
      BY <3>2, <3>3, CellsOfOne
    <3> QED BY <2>1, <3>4 DEF ByteCount, Cells
  <2>2. CASE b \notin DOMAIN f
    <3>1. DOMAIN had = {}
      BY <1>5, <2>2
    <3> QED BY <2>2, <3>1, NoBytes
  <2> QED BY <2>1, <2>2
<1>14. g \in Sizings
  <2>1. DOMAIN g \subseteq Blocks
    BY <1>1, <1>2
  <2> QED BY <1>3, <1>11, <2>1, SizingIs
<1>15. ByteCount(g) = (ByteCount(f) - Had(f, b)) + n
  BY <1>6, <1>12, <1>13 DEF Had
<1>16. g[b] = n /\ \A c \in DOMAIN f \ {b} : g[c] = f[c]
  BY <1>2
<1> QED BY <1>2, <1>14, <1>15, <1>16 DEF g

(* What is allocated, and what is known of it. *)
Accounted(mem, sizes, total) ==
  /\ mem \in Sizings /\ sizes \in Sizings /\ Without(mem, {LG}) = sizes
  /\ LG \in DOMAIN mem => total = 1 + ByteCount(sizes)

LEMMA SameSizes ==
  ASSUME NEW f \in Sizings, NEW g \in Sizings, DOMAIN f = DOMAIN g, \A b \in DOMAIN f : f[b] = g[b]
  PROVE  f = g
BY SizingIs

LEMMA AccountedParts ==
  ASSUME NEW mem, NEW sizes, NEW total, Accounted(mem, sizes, total)
  PROVE  /\ DOMAIN sizes = DOMAIN mem \ {LG} /\ \A b \in DOMAIN sizes : sizes[b] = mem[b]
BY WithoutKeeps DEF Accounted

LEMMA AccountedOf ==
  ASSUME NEW mem \in Sizings, NEW sizes \in Sizings, NEW total,
         DOMAIN sizes = DOMAIN mem \ {LG}, \A b \in DOMAIN sizes : sizes[b] = mem[b],
         LG \in DOMAIN mem => total = 1 + ByteCount(sizes)
  PROVE  Accounted(mem, sizes, total)
<1> DEFINE f == Without(mem, {LG})
<1>1. f \in Sizings /\ DOMAIN f = DOMAIN sizes /\ \A b \in DOMAIN f : f[b] = sizes[b]
  <2>1. /\ f \in Sizings /\ DOMAIN f = DOMAIN mem \ {LG}
        /\ \A b \in DOMAIN mem \ {LG} : f[b] = mem[b]
    BY WithoutKeeps, Zenon
  <2> HIDE DEF f
  <2> QED BY <2>1
<1> HIDE DEF f
<1>2. f = sizes
  BY <1>1, SameSizes
<1> QED BY <1>2 DEF f, Accounted

LEMMA AccountedWith ==
  ASSUME NEW mem, NEW sizes, NEW total \in Int, Accounted(mem, sizes, total), NEW b \in Blocks, b # LG, NEW n \in Nat
  PROVE  Accounted(With(mem, b, n), With(sizes, b, n), (total - Had(sizes, b)) + n)
<1> DEFINE m == With(mem, b, n)
           s == With(sizes, b, n)
           had == Had(sizes, b)
<1>0. mem \in Sizings /\ sizes \in Sizings
  BY DEF Accounted
<1>1. mem \in Sizings /\ sizes \in Sizings /\ (LG \in DOMAIN mem => total = 1 + ByteCount(sizes))
  BY DEF Accounted
<1>2. DOMAIN sizes = DOMAIN mem \ {LG} /\ \A c \in DOMAIN sizes : sizes[c] = mem[c]
  BY AccountedParts
<1>3. /\ m \in Sizings /\ DOMAIN m = DOMAIN mem \cup {b}
      /\ m[b] = n /\ \A c \in DOMAIN mem \ {b} : m[c] = mem[c]
  <2>1. m \in Sizings /\ DOMAIN m = DOMAIN mem \cup {b}
    BY <1>0, WithKeeps
  <2>2. m[b] = n
    BY <1>0, WithKeeps
  <2>3. \A c \in DOMAIN mem \ {b} : m[c] = mem[c]
    BY <1>0, WithKeeps
  <2> QED BY <2>1, <2>2, <2>3
<1>4. /\ s \in Sizings /\ DOMAIN s = DOMAIN sizes \cup {b}
      /\ s[b] = n /\ \A c \in DOMAIN sizes \ {b} : s[c] = sizes[c]
      /\ ByteCount(s) = (ByteCount(sizes) - had) + n
  <2>1. s \in Sizings /\ DOMAIN s = DOMAIN sizes \cup {b}
    BY <1>0, WithKeeps
  <2>2. s[b] = n
    BY <1>0, WithKeeps
  <2>3. \A c \in DOMAIN sizes \ {b} : s[c] = sizes[c]
    BY <1>0, WithKeeps
  <2>4. ByteCount(s) = (ByteCount(sizes) - had) + n
    BY <1>0, WithKeeps, Zenon
  <2> QED BY <2>1, <2>2, <2>3, <2>4
<1>5. had \in Nat /\ ByteCount(sizes) \in Nat
  BY <1>1, SizingIs, BytesSplit DEF Had
<1> HIDE DEF m, s, had
<1>6. DOMAIN s = DOMAIN m \ {LG} /\ \A c \in DOMAIN s : s[c] = m[c]
  BY <1>2, <1>3, <1>4
<1>7. LG \in DOMAIN m => (total - had) + n = 1 + ByteCount(s)
  <2> SUFFICES ASSUME LG \in DOMAIN mem PROVE (total - had) + n = 1 + ByteCount(s)
    BY <1>3
  <2> QED BY <1>1, <1>4, <1>5
<1>8. Accounted(m, s, (total - had) + n)
  BY <1>3, <1>4, <1>6, <1>7, AccountedOf
<1> QED BY <1>8 DEF m, s, had

LEMMA AccountedWithout ==
  ASSUME NEW mem, NEW sizes, NEW total \in Int, Accounted(mem, sizes, total), NEW bs, bs \subseteq DOMAIN sizes
  PROVE  /\ Accounted(Without(mem, bs), Without(sizes, bs), total - ByteCount(Without(sizes, DOMAIN sizes \ bs)))
         /\ ByteCount(Without(sizes, DOMAIN sizes \ bs)) \in Nat
<1> DEFINE m == Without(mem, bs)
           s == Without(sizes, bs)
           freed == ByteCount(Without(sizes, DOMAIN sizes \ bs))
<1>1. mem \in Sizings /\ sizes \in Sizings /\ (LG \in DOMAIN mem => total = 1 + ByteCount(sizes))
  BY DEF Accounted
<1>2. DOMAIN sizes = DOMAIN mem \ {LG} /\ \A c \in DOMAIN sizes : sizes[c] = mem[c]
  BY AccountedParts
<1>3. m \in Sizings /\ DOMAIN m = DOMAIN mem \ bs /\ \A c \in DOMAIN mem \ bs : m[c] = mem[c]
  BY <1>1, WithoutKeeps
<1>4. s \in Sizings /\ DOMAIN s = DOMAIN sizes \ bs /\ \A c \in DOMAIN sizes \ bs : s[c] = sizes[c]
  BY <1>1, WithoutKeeps
<1>5. ByteCount(sizes) = ByteCount(s) + freed /\ ByteCount(s) \in Nat /\ freed \in Nat
  BY <1>1, <1>4, WithoutKeeps, BytesSplit
<1> HIDE DEF m, s, freed
<1>6. DOMAIN s = DOMAIN m \ {LG} /\ \A c \in DOMAIN s : s[c] = m[c]
  BY <1>2, <1>3, <1>4
<1>7. LG \in DOMAIN m => total - freed = 1 + ByteCount(s)
  <2> SUFFICES ASSUME LG \in DOMAIN mem PROVE total - freed = 1 + ByteCount(s)
    BY <1>3
  <2> QED BY <1>1, <1>5
<1>8. Accounted(m, s, total - freed)
  BY <1>3, <1>4, <1>6, <1>7, AccountedOf
<1> QED BY <1>5, <1>8 DEF m, s, freed

------------------------------------------------------------------------------
(* The lists of userdata.  Finalizers that were called and those that wait   *)
(* make one queue; userdata that are not finalized stay in root, the newest  *)
(* first.                                                                    *)

Queues == Seq(Userdata)
Lists(root, made, tmudata, calls, finalized) ==
  /\ root \in Queues /\ made \in Queues /\ tmudata \in Queues /\ calls \in Queues
  /\ Distinct(made) /\ Distinct(root) /\ Distinct(calls \o tmudata)
  /\ Listed(root) \cap Listed(tmudata) = {}
  /\ Listed(calls \o tmudata) \subseteq finalized
  /\ Listed(root) \cup Listed(tmudata) \subseteq Listed(made)
Known(root, made, finalized, sizes) ==
  \A u \in Listed(made) \ finalized : <<u, "object">> \in DOMAIN sizes => u \in Listed(root)
InOrder(root, made, finalized) ==
  \A u, v \in Listed(root) \ finalized : Before(made, u, v) => Before(root, u, v)
Owing(owed, q) ==
  /\ Listed(owed) \subseteq Listed(q)
  /\ \A u, v : Before(owed, u, v) => Before(q, u, v)

LEMMA ListedAre ==
  ASSUME NEW V, NEW s \in Seq(V)
  PROVE  Listed(s) \subseteq V /\ \A u, v : Before(s, u, v) => u \in Listed(s) /\ v \in Listed(s)
<1>1. \A k \in 1..Len(s) : s[k] \in V
  BY ElementOfSeq
<1> QED BY <1>1 DEF Listed, Before

LEMMA OneListed ==
  ASSUME NEW V, NEW u \in V
  PROVE  /\ <<u>> \in Seq(V) /\ Listed(<<u>>) = {u} /\ Distinct(<<u>>) /\ \A v, w : ~Before(<<u>>, v, w)
<1>1. <<u>> \in Seq(V) /\ Len(<<u>>) = 1 /\ <<u>>[1] = u
  OBVIOUS
<1>2. 1..1 = {1} /\ ~(1 < 1)
  OBVIOUS
<1>3. Listed(<<u>>) = {u}
  BY <1>1, <1>2 DEF Listed
<1>4. Distinct(<<u>>)
  BY <1>1, <1>2 DEF Distinct
<1>5. \A v, w : ~Before(<<u>>, v, w)
  BY <1>1, <1>2 DEF Before
<1> QED BY <1>1, <1>3, <1>4, <1>5

LEMMA NoneListed == Listed(<<>>) = {} /\ Distinct(<<>>) /\ \A v, w : ~Before(<<>>, v, w)
<1>1. 1..Len(<<>>) = {}
  OBVIOUS
<1> QED BY <1>1 DEF Listed, Distinct, Before

(* A new userdata comes first. *)
LEMMA NewFirst ==
  ASSUME NEW root, NEW made, NEW tmudata, NEW calls, NEW finalized, NEW sizes, NEW more,
         Lists(root, made, tmudata, calls, finalized), Known(root, made, finalized, sizes),
         InOrder(root, made, finalized),
         NEW u \in Userdata, u \notin Listed(made), DOMAIN more = DOMAIN sizes \cup {<<u, "object">>}
  PROVE  /\ Lists(<<u>> \o root, <<u>> \o made, tmudata, calls, finalized)
         /\ Known(<<u>> \o root, <<u>> \o made, finalized, more)
         /\ InOrder(<<u>> \o root, <<u>> \o made, finalized)
<1> DEFINE r == <<u>> \o root
           m == <<u>> \o made
<1>1. root \in Seq(Userdata) /\ made \in Seq(Userdata)
  BY DEF Lists, Queues
<1>2. <<u>> \in Seq(Userdata) /\ Listed(<<u>>) = {u} /\ Distinct(<<u>>) /\ \A v, w : ~Before(<<u>>, v, w)
  BY OneListed
<1>3. r \in Seq(Userdata) /\ Listed(r) = {u} \cup Listed(root)
  <2>1. r \in Seq(Userdata) /\ Listed(r) = Listed(<<u>>) \cup Listed(root)
    BY <1>1, <1>2, JoinedRows, Zenon
  <2> QED BY <1>2, <2>1, Zenon
<1>4. m \in Seq(Userdata) /\ Listed(m) = {u} \cup Listed(made)
  <2>1. m \in Seq(Userdata) /\ Listed(m) = Listed(<<u>>) \cup Listed(made)
    BY <1>1, <1>2, JoinedRows, Zenon
  <2> QED BY <1>2, <2>1, Zenon
<1>5. u \notin Listed(root) /\ u \notin Listed(tmudata)
  BY DEF Lists
<1>6. Distinct(r)
  <2>1. Distinct(root) /\ Listed(<<u>>) \cap Listed(root) = {}
    BY <1>2, <1>5 DEF Lists
  <2> QED BY <1>1, <1>2, <2>1, JoinedRows
<1>7. Distinct(m)
  <2>1. Distinct(made) /\ Listed(<<u>>) \cap Listed(made) = {}
    BY <1>2 DEF Lists
  <2> QED BY <1>1, <1>2, <2>1, JoinedRows
<1>8. \A v, w : Before(m, v, w) => Before(made, v, w) \/ (v = u /\ w \in Listed(made))
  <2>1. \A v, w : Before(m, v, w) =>
          Before(<<u>>, v, w) \/ Before(made, v, w) \/ (v \in Listed(<<u>>) /\ w \in Listed(made))
    BY <1>1, <1>2, JoinedRows, Zenon
  <2> HIDE DEF m
  <2> QED BY <1>2, <2>1
<1>9. /\ \A v, w : Before(root, v, w) => Before(r, v, w)
      /\ \A w \in Listed(root) : Before(r, u, w)
  <2>1. \A v, w : Before(root, v, w) => Before(r, v, w)
    BY <1>1, <1>2, JoinedRows, Zenon
  <2>2. \A v \in Listed(<<u>>), w \in Listed(root) : Before(r, v, w)
    BY <1>1, <1>2, JoinedRows, Zenon
  <2> QED BY <1>2, <2>1, <2>2
<1>10. \A v, w : Before(made, v, w) => v # u /\ w # u
  BY <1>1, ListedAre
<1> HIDE DEF r, m
<1>11. Lists(r, m, tmudata, calls, finalized)
  BY <1>3, <1>4, <1>5, <1>6, <1>7 DEF Lists, Queues
<1>12. Known(r, m, finalized, more)
  <2> SUFFICES ASSUME NEW v \in Listed(m) \ finalized, <<v, "object">> \in DOMAIN more PROVE v \in Listed(r)
    BY DEF Known
  <2>1. CASE v = u
    BY <1>3, <2>1
  <2>2. CASE v # u
    <3>1. <<v, "object">> # <<u, "object">>
      BY <2>2
    <3>2. v \in Listed(made) \ finalized /\ <<v, "object">> \in DOMAIN sizes
      BY <1>4, <2>2, <3>1
    <3> QED BY <1>3, <3>2 DEF Known
  <2> QED BY <2>1, <2>2
<1>13. InOrder(r, m, finalized)
  <2> SUFFICES ASSUME NEW v \in Listed(r) \ finalized, NEW w \in Listed(r) \ finalized, Before(m, v, w)
               PROVE  Before(r, v, w)
    BY DEF InOrder
  <2>1. CASE Before(made, v, w)
    <3>1. v \in Listed(root) \ finalized /\ w \in Listed(root) \ finalized
      BY <1>3, <1>10, <2>1
    <3> QED BY <1>9, <2>1, <3>1 DEF InOrder
  <2>2. CASE v = u /\ w \in Listed(made)
    <3>1. w \in Listed(root)
      BY <1>3, <2>2
    <3> QED BY <1>9, <2>2, <3>1
  <2> QED BY <1>8, <2>1, <2>2
<1> QED BY <1>11, <1>12, <1>13 DEF r, m

(* Userdata that are dropped from root are finalized, or freed. *)
LEMMA RootFiltered ==
  ASSUME NEW root, NEW made, NEW tmudata, NEW calls, NEW finalized, NEW sizes, NEW dead, NEW fewer,
         Lists(root, made, tmudata, calls, finalized), Known(root, made, finalized, sizes),
         InOrder(root, made, finalized),
         \A u \in Userdata \ finalized :
           <<u, "object">> \in DOMAIN fewer => u \notin dead /\ <<u, "object">> \in DOMAIN sizes
  PROVE  /\ Lists(Filtered(root, Userdata \ dead), made, tmudata, calls, finalized)
         /\ Known(Filtered(root, Userdata \ dead), made, finalized, fewer)
         /\ InOrder(Filtered(root, Userdata \ dead), made, finalized)
<1> DEFINE S == Userdata \ dead
           r == Filtered(root, S)
<1>1. root \in Seq(Userdata) /\ made \in Seq(Userdata) /\ Listed(root) \subseteq Userdata /\ Listed(made) \subseteq Userdata
  BY ListedAre DEF Lists, Queues
<1>2. /\ r \in Seq(Userdata) /\ Listed(r) = Listed(root) \cap S /\ (Distinct(root) => Distinct(r))
      /\ \A u, v \in S : Before(root, u, v) => Before(r, u, v)
  <2> HIDE DEF S
  <2> QED BY <1>1, FilteredKeeps
<1> HIDE DEF r
<1>3. Lists(r, made, tmudata, calls, finalized)
  BY <1>2 DEF Lists, Queues
<1>4. Known(r, made, finalized, fewer)
  <2> SUFFICES ASSUME NEW u \in Listed(made) \ finalized, <<u, "object">> \in DOMAIN fewer PROVE u \in Listed(r)
    BY DEF Known
  <2>1. u \in Userdata \ finalized
    BY <1>1
  <2>2. u \notin dead /\ <<u, "object">> \in DOMAIN sizes
    BY <2>1
  <2>3. u \in Listed(root)
    BY <2>2 DEF Known
  <2> QED BY <1>2, <2>1, <2>2, <2>3
<1>5. InOrder(r, made, finalized)
  <2> SUFFICES ASSUME NEW u \in Listed(r) \ finalized, NEW v \in Listed(r) \ finalized, Before(made, u, v)
               PROVE  Before(r, u, v)
    BY DEF InOrder
  <2>1. u \in Listed(root) \ finalized /\ v \in Listed(root) \ finalized /\ u \in S /\ v \in S
    BY <1>2
  <2>2. Before(root, u, v)
    BY <2>1 DEF InOrder
  <2> HIDE DEF S
  <2> QED BY <1>2, <2>1, <2>2
<1> QED BY <1>3, <1>4, <1>5 DEF r

LEMMA QueueGrows ==
  ASSUME NEW calls \in Queues, NEW tmudata \in Queues, NEW more \in Queues
  PROVE  /\ tmudata \o more \in Queues /\ calls \o tmudata \in Queues
         /\ calls \o (tmudata \o more) = (calls \o tmudata) \o more
BY ConcatAssociative, JoinedRows DEF Queues

LEMMA OwingMore ==
  ASSUME NEW owed, NEW q \in Queues, NEW more \in Queues, Owing(owed, q)
  PROVE  Owing(owed, q \o more)
<1>1. Listed(q) \subseteq Listed(q \o more)
  BY JoinedRows DEF Queues
<1>2. \A u, v : Before(q, u, v) => Before(q \o more, u, v)
  BY JoinedRows DEF Queues
<1> QED BY <1>1, <1>2 DEF Owing

(* luaC_separateudata. *)
LEMMA SeparatedKeeps ==
  ASSUME NEW root, NEW made, NEW tmudata, NEW calls, NEW finalized, NEW sizes, NEW found, NEW called, NEW owed,
         Lists(root, made, tmudata, calls, finalized), Known(root, made, finalized, sizes),
         InOrder(root, made, finalized), Owing(owed, calls \o tmudata),
         called \subseteq found, found \subseteq Listed(root) \ finalized
  PROVE  LET t == tmudata \o Filtered(root, called)
             r == Filtered(root, Userdata \ called)
             fin == finalized \cup found
         IN /\ Lists(r, made, t, calls, fin) /\ Known(r, made, fin, sizes)
            /\ InOrder(r, made, fin) /\ Owing(owed, calls \o t)
<1> DEFINE new == Filtered(root, called)
           t == tmudata \o new
           r == Filtered(root, Userdata \ called)
           fin == finalized \cup found
           q == calls \o tmudata
<1>1. root \in Queues /\ made \in Queues /\ tmudata \in Queues /\ calls \in Queues /\ Listed(root) \subseteq Userdata
  BY ListedAre DEF Lists, Queues
<1>2. /\ new \in Queues /\ Listed(new) = Listed(root) \cap called /\ (Distinct(root) => Distinct(new))
  BY <1>1, FilteredKeeps DEF Queues
<1>3. Listed(new) = called
  BY <1>2
<1>4. t \in Queues /\ q \in Queues /\ calls \o t = q \o new
  <2>1. new \in Queues /\ tmudata \in Queues /\ calls \in Queues
    BY <1>1, <1>2
  <2> HIDE DEF new
  <2>2. tmudata \o new \in Queues /\ calls \o tmudata \in Queues
    BY <2>1, QueueGrows
  <2>3. calls \o (tmudata \o new) = (calls \o tmudata) \o new
    BY <2>1, QueueGrows
  <2> QED BY <2>2, <2>3
<1>5. Listed(t) = Listed(tmudata) \cup called
  <2> HIDE DEF new
  <2>1. Listed(t) = Listed(tmudata) \cup Listed(new)
    BY <1>1, <1>2, JoinedRows, Zenon DEF Queues
  <2> QED BY <1>3, <2>1, Zenon
<1>6. Listed(q \o new) = Listed(q) \cup called
  <2> HIDE DEF new, q
  <2>1. Listed(q \o new) = Listed(q) \cup Listed(new)
    BY <1>2, <1>4, JoinedRows, Zenon DEF Queues
  <2> QED BY <1>3, <2>1, Zenon
<1>7. Distinct(q \o new)
  <2>1. Distinct(q) /\ Distinct(new) /\ Listed(q) \cap Listed(new) = {}
    BY <1>2, <1>3 DEF Lists
  <2> HIDE DEF q, new
  <2> QED BY <1>2, <1>4, <2>1, JoinedRows DEF Queues
<1>8. Owing(owed, q \o new)
  BY <1>2, <1>4, OwingMore
<1>9. Lists(r, made, tmudata, calls, fin) /\ Known(r, made, fin, sizes) /\ InOrder(r, made, fin)
  <2>1. Lists(root, made, tmudata, calls, fin)
    BY DEF Lists
  <2>2. Known(root, made, fin, sizes)
    BY DEF Known
  <2>3. InOrder(root, made, fin)
    BY DEF InOrder
  <2>4. \A u \in Userdata \ fin : u \notin called
    OBVIOUS
  <2> HIDE DEF fin
  <2> QED BY <2>1, <2>2, <2>3, <2>4, RootFiltered
<1>10. Listed(r) = Listed(root) \ called
  <2>1. Listed(r) = Listed(root) \cap (Userdata \ called)
    BY <1>1, FilteredKeeps DEF Queues
  <2> QED BY <1>1, <2>1
<1> HIDE DEF new, r, q, t
<1>11. Lists(r, made, t, calls, fin)
  <2>1. Distinct(calls \o t) /\ Listed(calls \o t) \subseteq fin
    <3>1. Listed(q) \subseteq finalized
      BY DEF Lists, q
    <3> QED BY <1>4, <1>6, <1>7, <3>1
  <2>2. Listed(r) \cap Listed(t) = {}
    <3>1. Listed(root) \cap Listed(tmudata) = {}
      BY DEF Lists
    <3> QED BY <1>5, <1>10, <3>1
  <2>3. Listed(r) \cup Listed(t) \subseteq Listed(made)
    <3>1. Listed(root) \cup Listed(tmudata) \subseteq Listed(made)
      BY DEF Lists
    <3> QED BY <1>5, <1>10, <3>1
  <2> HIDE DEF fin
  <2> QED BY <1>4, <1>9, <2>1, <2>2, <2>3 DEF Lists
<1>12. Owing(owed, calls \o t)
  BY <1>4, <1>8
<1> QED BY <1>9, <1>11, <1>12 DEF new, r, t

(* What lua_close finds to be due, in the order in which it will call it. *)
LEMMA DueOwed ==
  ASSUME NEW root, NEW made, NEW tmudata, NEW calls, NEW finalized, NEW sizes, NEW withgc, NEW waiting,
         Lists(root, made, tmudata, calls, finalized), Known(root, made, finalized, sizes),
         InOrder(root, made, finalized),
         \A u \in waiting : u \in withgc /\ u \notin finalized /\ <<u, "object">> \in DOMAIN sizes
  PROVE  Owing(tmudata \o Filtered(made, waiting),
               calls \o (tmudata \o Filtered(root, (Listed(root) \ finalized) \cap withgc)))
<1> DEFINE called == (Listed(root) \ finalized) \cap withgc
           due == Filtered(made, waiting)
           new == Filtered(root, called)
           q == calls \o tmudata
           owed == tmudata \o due
<1>1. root \in Queues /\ made \in Queues /\ tmudata \in Queues /\ calls \in Queues
  BY DEF Lists
<1>2. /\ new \in Queues /\ Listed(new) = Listed(root) \cap called
      /\ \A u, v \in called : Before(root, u, v) => Before(new, u, v)
  <2> HIDE DEF called
  <2> QED BY <1>1, FilteredKeeps DEF Queues
<1>3. /\ due \in Queues /\ Listed(due) = Listed(made) \cap waiting
      /\ \A u, v : Before(due, u, v) => Before(made, u, v)
  BY <1>1, FilteredKeeps DEF Queues
<1>4. Listed(due) \subseteq Listed(root) \cap called
  <2> SUFFICES ASSUME NEW u \in Listed(made) \cap waiting PROVE u \in Listed(root) \cap called
    BY <1>3
  <2>1. u \in Listed(root)
    BY DEF Known
  <2> QED BY <2>1
<1>5. \A u, v : Before(due, u, v) => Before(new, u, v)
  <2> SUFFICES ASSUME NEW u, NEW v, Before(due, u, v) PROVE Before(new, u, v)
    OBVIOUS
  <2>1. u \in Listed(due) /\ v \in Listed(due)
    BY <1>3, ListedAre DEF Queues
  <2>2. u \in Listed(root) \cap called /\ v \in Listed(root) \cap called
    BY <1>4, <2>1
  <2>3. u \in Listed(root) \ finalized /\ v \in Listed(root) \ finalized
    BY <2>2
  <2> HIDE DEF called, due, new
  <2>4. Before(made, u, v)
    BY <1>3
  <2>5. Before(root, u, v)
    BY <2>3, <2>4 DEF InOrder
  <2> QED BY <1>2, <2>2, <2>5
<1>6. q \in Queues /\ calls \o (tmudata \o new) = q \o new
  <2>1. new \in Queues /\ tmudata \in Queues /\ calls \in Queues
    BY <1>1, <1>2
  <2> HIDE DEF new, called, due, owed
  <2>2. calls \o tmudata \in Queues
    BY <2>1, QueueGrows
  <2>3. calls \o (tmudata \o new) = (calls \o tmudata) \o new
    BY <2>1, QueueGrows
  <2> QED BY <2>2, <2>3
<1> HIDE DEF called, due, new
<1>7. /\ Listed(owed) = Listed(tmudata) \cup Listed(due)
      /\ \A u, v : Before(owed, u, v) =>
           Before(tmudata, u, v) \/ Before(due, u, v) \/ (u \in Listed(tmudata) /\ v \in Listed(due))
  BY <1>1, <1>3, JoinedRows DEF Queues
<1>8. /\ Listed(q) = Listed(calls) \cup Listed(tmudata) /\ \A u, v : Before(tmudata, u, v) => Before(q, u, v)
  BY <1>1, JoinedRows DEF Queues
<1> HIDE DEF q, owed
<1>9. Listed(q \o new) = Listed(q) \cup Listed(new)
  BY <1>2, <1>6, JoinedRows DEF Queues
<1>10. \A u, v : Before(q, u, v) => Before(q \o new, u, v)
  BY <1>2, <1>6, JoinedRows DEF Queues
<1>11. \A u, v : Before(new, u, v) => Before(q \o new, u, v)
  BY <1>2, <1>6, JoinedRows DEF Queues
<1>12. \A u \in Listed(q), v \in Listed(new) : Before(q \o new, u, v)
  BY <1>2, <1>6, JoinedRows DEF Queues
<1>13. Owing(owed, q \o new)
  <2>1. Listed(owed) \subseteq Listed(q \o new)
    BY <1>2, <1>4, <1>7, <1>8, <1>9
  <2>2. ASSUME NEW u, NEW v, Before(owed, u, v) PROVE Before(q \o new, u, v)
    <3>1. CASE Before(tmudata, u, v)
      BY <1>8, <1>10, <3>1
    <3>2. CASE Before(due, u, v)
      BY <1>5, <1>11, <3>2
    <3>3. CASE u \in Listed(tmudata) /\ v \in Listed(due)
      BY <1>2, <1>4, <1>8, <1>12, <3>3
    <3> QED BY <1>7, <2>2, <3>1, <3>2, <3>3
  <2> QED BY <2>1, <2>2 DEF Owing
<1> QED BY <1>6, <1>13 DEF owed, q, new, due, called

(* GCTM takes the first that waits. *)
LEMMA FirstCalled ==
  ASSUME NEW root, NEW made, NEW tmudata, NEW calls, NEW finalized, NEW sizes,
         Lists(root, made, tmudata, calls, finalized), Known(root, made, finalized, sizes),
         InOrder(root, made, finalized), tmudata # <<>>
  PROVE  LET u == Head(tmudata)
         IN /\ u \in Userdata /\ Append(calls, u) \o Tail(tmudata) = calls \o tmudata
            /\ Lists(<<u>> \o root, made, Tail(tmudata), Append(calls, u), finalized)
            /\ Known(<<u>> \o root, made, finalized, sizes) /\ InOrder(<<u>> \o root, made, finalized)
<1> DEFINE u == Head(tmudata)
           t == Tail(tmudata)
           c == Append(calls, u)
           r == <<u>> \o root
<1>1. root \in Queues /\ made \in Queues /\ tmudata \in Queues /\ calls \in Queues
  BY DEF Lists
<1>2. u \in Userdata /\ t \in Queues /\ tmudata = <<u>> \o t
  <2>1. u \in Userdata /\ t \in Queues
    BY <1>1, HeadTailProperties DEF Queues
  <2>2. tmudata = <<u>> \o t
    BY <1>1 DEF Queues
  <2> QED BY <2>1, <2>2
<1> HIDE DEF u, t
<1>3. <<u>> \in Queues /\ Listed(<<u>>) = {u} /\ Distinct(<<u>>) /\ \A v, w : ~Before(<<u>>, v, w)
  BY <1>2, OneListed DEF Queues
<1>4. c = calls \o <<u>> /\ c \in Queues
  <2>1. c = calls \o <<u>>
    BY <1>1, <1>2 DEF Queues
  <2> QED BY <1>1, <1>2, <2>1, AppendProperties DEF Queues
<1> HIDE DEF c
<1>5. c \o t = calls \o tmudata
  BY <1>1, <1>2, <1>3, <1>4, ConcatAssociative DEF Queues
<1>6. Listed(tmudata) = {u} \cup Listed(t) /\ u \notin Listed(t)
  <2>1. Listed(tmudata) = {u} \cup Listed(t)
    BY <1>2, <1>3, JoinedRows DEF Queues
  <2>2. Distinct(calls \o tmudata)
    BY DEF Lists
  <2>3. Distinct(tmudata)
    BY <1>1, <2>2, JoinedRows DEF Queues
  <2>4. Listed(<<u>>) \cap Listed(t) = {}
    BY <1>2, <1>3, <2>3, JoinedRows DEF Queues
  <2> QED BY <1>3, <2>1, <2>4
<1>7. r \in Queues /\ Listed(r) = {u} \cup Listed(root)
  BY <1>1, <1>3, JoinedRows DEF Queues
<1>8. \A v, w : Before(root, v, w) => Before(r, v, w)
  BY <1>1, <1>3, JoinedRows DEF Queues
<1>9. Distinct(r)
  <2>1. Distinct(root) /\ Listed(<<u>>) \cap Listed(root) = {}
    BY <1>3, <1>6 DEF Lists
  <2> QED BY <1>1, <1>3, <2>1, JoinedRows DEF Queues
<1>10. u \in finalized
  <2>1. Listed(tmudata) \subseteq Listed(calls \o tmudata)
    BY <1>1, JoinedRows DEF Queues
  <2> QED BY <1>6, <2>1 DEF Lists
<1> HIDE DEF r
<1>11. Lists(r, made, t, c, finalized)
  BY <1>2, <1>4, <1>5, <1>6, <1>7, <1>9 DEF Lists
<1>12. Known(r, made, finalized, sizes)
  BY <1>7 DEF Known
<1>13. InOrder(r, made, finalized)
  <2> SUFFICES ASSUME NEW v \in Listed(r) \ finalized, NEW w \in Listed(r) \ finalized, Before(made, v, w)
               PROVE  Before(r, v, w)
    BY DEF InOrder
  <2>1. v \in Listed(root) \ finalized /\ w \in Listed(root) \ finalized
    BY <1>7, <1>10
  <2> QED BY <1>8, <2>1 DEF InOrder
<1> QED BY <1>2, <1>5, <1>11, <1>12, <1>13 DEF u, t, c, r

------------------------------------------------------------------------------
(* The invariant of a state's life. *)

Phases == {"opening", "open", "closing", "freeing", "closed", "none"}
LifeRecords ==
  [phase : Phases, opened : Nat, mem : Sizings, sizes : Sizings, total : Int,
   root : Queues, made : Queues, tmudata : Queues, running : Queues, calls : Queues, owed : Queues,
   withgc : SUBSET Userdata, finalized : SUBSET Userdata, held : SUBSET (Userdata \cup Threads)]
Phased(l) ==
  /\ l.phase = "opening" => l.opened < Len(Opening) /\ l.made = <<>>
  /\ l.phase \in {"opening", "freeing", "closed", "none"} => l.tmudata = <<>> /\ l.running = <<>>
  /\ l.phase \in {"closed", "none"} => DOMAIN l.mem = {}
LifeInv(l) ==
  /\ l \in LifeRecords
  /\ Accounted(l.mem, l.sizes, l.total)
  /\ Phased(l)
  /\ Lists(l.root, l.made, l.tmudata, l.calls, l.finalized)
  /\ Known(l.root, l.made, l.finalized, l.sizes)
  /\ InOrder(l.root, l.made, l.finalized)
  /\ Owing(l.owed, l.calls \o l.tmudata)

(* Only what is allocated and known of it has changed. *)
Resized(m, l) ==
  /\ m = [l EXCEPT !.mem = m.mem, !.sizes = m.sizes, !.total = m.total]
  /\ m.phase = l.phase /\ m.opened = l.opened /\ m.root = l.root /\ m.made = l.made
  /\ m.tmudata = l.tmudata /\ m.running = l.running /\ m.calls = l.calls /\ m.owed = l.owed
  /\ m.withgc = l.withgc /\ m.finalized = l.finalized /\ m.held = l.held

(* An allocation, other than that of a userdata which is there no more. *)
LEMMA ReallocFields ==
  ASSUME NEW l \in LifeRecords, NEW b, NEW n
  PROVE  /\ Resized(luaM_realloc(l, b, n), l)
         /\ luaM_realloc(l, b, n).mem = With(l.mem, b, n) /\ luaM_realloc(l, b, n).sizes = With(l.sizes, b, n)
         /\ luaM_realloc(l, b, n).total = (l.total - Had(l.sizes, b)) + n
<1>1. RecordedSize(l, b) = Had(l.sizes, b)
  BY DEF RecordedSize, Had
<1> QED BY <1>1 DEF luaM_realloc, LifeRecords, Resized

LEMMA ReallocKeeps ==
  ASSUME NEW l, LifeInv(l), NEW b \in Blocks, b # LG, NEW n \in Nat,
         l.phase \in {"opening", "open", "closing"},
         \A u \in Listed(l.made) \ l.finalized : b = <<u, "object">> => b \in DOMAIN l.sizes
  PROVE  /\ LifeInv(luaM_realloc(l, b, n)) /\ Resized(luaM_realloc(l, b, n), l)
         /\ DOMAIN luaM_realloc(l, b, n).sizes = DOMAIN l.sizes \cup {b}
<1> DEFINE m == luaM_realloc(l, b, n)
<1>1. l \in LifeRecords /\ l.sizes \in Sizings /\ l.mem \in Sizings /\ l.total \in Int
  BY DEF LifeInv, LifeRecords
<1>2. /\ m.mem = With(l.mem, b, n) /\ m.sizes = With(l.sizes, b, n)
      /\ m.total = (l.total - Had(l.sizes, b)) + n
  BY <1>1, ReallocFields, Zenon
<1>11. Resized(m, l)
  BY <1>1, ReallocFields, Zenon
<1> HIDE DEF m
<1>3. Accounted(m.mem, m.sizes, m.total)
  <2>1. Accounted(l.mem, l.sizes, l.total)
    BY DEF LifeInv
  <2> QED BY <1>1, <1>2, <2>1, AccountedWith
<1>4. m.mem \in Sizings /\ m.sizes \in Sizings
  BY <1>3 DEF Accounted
<1>5. m.total \in Int
  <2>1. Had(l.sizes, b) \in Nat
    BY <1>1, SizingIs DEF Had
  <2> QED BY <1>1, <1>2, <2>1
<1>6. m \in LifeRecords
  BY <1>1, <1>4, <1>5, <1>11 DEF LifeRecords, Resized
<1>7. Phased(m)
  BY <1>11 DEF LifeInv, Phased, Resized
<1>8. DOMAIN m.sizes = DOMAIN l.sizes \cup {b}
  <2>1. DOMAIN With(l.sizes, b, n) = DOMAIN l.sizes \cup {b}
    BY <1>1, WithKeeps, Zenon
  <2> QED BY <1>2, <2>1
<1>9. Known(m.root, m.made, m.finalized, m.sizes)
  BY <1>8, <1>11 DEF LifeInv, Known, Resized
<1>10. /\ Lists(m.root, m.made, m.tmudata, m.calls, m.finalized) /\ InOrder(m.root, m.made, m.finalized)
       /\ Owing(m.owed, m.calls \o m.tmudata)
  BY <1>11 DEF LifeInv, Resized
<1>12. LifeInv(m)
  BY <1>3, <1>6, <1>7, <1>9, <1>10 DEF LifeInv
<1> QED BY <1>8, <1>11, <1>12 DEF m

LEMMA NamesAre ==
  /\ \A k \in 1..Len(Opening) : Opening[k] \in Blocks /\ Opening[k] # LG
  /\ \A x \in Userdata \cup Threads \cup {"main"} : \A f \in {"object", "ci", "stack"} :
       <<x, f>> \in Blocks /\ <<x, f>> # LG
  /\ Len(Opening) = 10
<1>1. Len(Opening) = 10
  BY DEF Opening
<1>2. ASSUME NEW k \in 1..Len(Opening) PROVE Opening[k] \in Blocks /\ Opening[k] # LG
  <2>1. k \in 1..10
    BY <1>1
  <2>2. /\ Opening[1] = <<"main", "ci">> /\ Opening[2] = <<"main", "stack">>
        /\ Opening[3] = <<"globals", "object">> /\ Opening[4] = <<"globals", "nodes">>
        /\ Opening[5] = <<"registry", "object">> /\ Opening[6] = <<"registry", "nodes">>
        /\ Opening[7] = <<"strings", "hash">> /\ Opening[8] = <<"event names", "object">>
        /\ Opening[9] = <<"reserved words", "object">> /\ Opening[10] = <<"memory message", "object">>
    BY DEF Opening
  <2>3. ASSUME NEW x \in {"main", "globals", "registry", "strings", "event names", "reserved words",
                          "memory message"},
               NEW f \in {"object", "ci", "stack", "nodes", "hash"}
        PROVE  <<x, f>> \in Blocks /\ <<x, f>> # <<"main", "LG">>
    BY DEF Blocks, Names
  <2>4. k = 1 \/ k = 2 \/ k = 3 \/ k = 4 \/ k = 5 \/ k = 6 \/ k = 7 \/ k = 8 \/ k = 9 \/ k = 10
    BY <2>1
  <2> QED BY <2>2, <2>3, <2>4 DEF LG
<1>3. ASSUME NEW x \in Userdata \cup Threads \cup {"main"}, NEW f \in {"object", "ci", "stack"}
      PROVE  <<x, f>> \in Blocks /\ <<x, f>> # LG
  BY DEF Blocks, Names, LG
<1> QED BY <1>1, <1>2, <1>3

(* Memory is freed. *)
LEMMA FreeFields ==
  ASSUME NEW l \in LifeRecords, Accounted(l.mem, l.sizes, l.total), NEW bs, bs \subseteq DOMAIN l.sizes
  PROVE  LET m == luaM_free(l, bs)
         IN /\ Resized(m, l) /\ m.mem = Without(l.mem, bs) /\ m.sizes = Without(l.sizes, bs)
            /\ Accounted(m.mem, m.sizes, m.total) /\ m.total \in Int
<1> DEFINE matching == {b \in bs \cap DOMAIN l.mem : l.mem[b] = RecordedSize(l, b)}
           freed == ByteCount(Without(l.sizes, DOMAIN l.sizes \ bs))
           m == luaM_free(l, bs)
<1>1. matching = bs
  <2>1. DOMAIN l.sizes = DOMAIN l.mem \ {LG} /\ \A b \in DOMAIN l.sizes : l.sizes[b] = l.mem[b]
    BY AccountedParts
  <2> QED BY <2>1 DEF RecordedSize
<1>2. /\ Accounted(Without(l.mem, bs), Without(l.sizes, bs), l.total - freed) /\ freed \in Nat
  <2>1. l.total \in Int
    BY DEF LifeRecords
  <2> QED BY <2>1, AccountedWithout
<1>3. m = [l EXCEPT !.mem = Without(l.mem, matching), !.sizes = Without(l.sizes, bs), !.total = l.total - freed]
  BY DEF luaM_free, LifeRecords
<1> HIDE DEF matching, freed, m
<1>4. m = [l EXCEPT !.mem = Without(l.mem, bs), !.sizes = Without(l.sizes, bs), !.total = l.total - freed]
  BY <1>1, <1>3
<1>5. l.total - freed \in Int
  BY <1>2 DEF LifeRecords
<1>6. /\ m.mem = Without(l.mem, bs) /\ m.sizes = Without(l.sizes, bs) /\ m.total = l.total - freed
      /\ Resized(m, l)
  BY <1>4 DEF LifeRecords, Resized
<1> QED BY <1>2, <1>5, <1>6 DEF m

(* Without userdata that wait, closing frees everything. *)
LEMMA CloseStateKeeps ==
  ASSUME NEW l, LifeInv(l), l.tmudata = <<>>, l.running = <<>>, NEW p \in {"none", "closed"}
  PROVE  LifeInv(close_state(l, p))
<1> DEFINE bs == {b \in DOMAIN l.sizes : b[1] \notin Listed(l.tmudata)}
           m == luaM_free(l, bs)
           c == close_state(l, p)
<1>1. l \in LifeRecords /\ Accounted(l.mem, l.sizes, l.total)
  BY DEF LifeInv
<1>2. bs = DOMAIN l.sizes
  BY NoneListed
<1>3. /\ Resized(m, l) /\ m.mem = Without(l.mem, bs) /\ m.sizes = Without(l.sizes, bs)
      /\ Accounted(m.mem, m.sizes, m.total) /\ m.total \in Int
  <2> HIDE DEF m, bs
  <2>1. bs \subseteq DOMAIN l.sizes
    BY <1>2
  <2> QED BY <1>1, <2>1, FreeFields DEF m
<1>4. c = [m EXCEPT !.mem = Without(m.mem, {LG}), !.phase = p]
  BY DEF close_state
<1> HIDE DEF m, c, bs
<1>5. c = [l EXCEPT !.mem = Without(m.mem, {LG}), !.sizes = m.sizes, !.total = m.total, !.phase = p]
  BY <1>1, <1>3, <1>4 DEF LifeRecords, Resized
<1>6. m.mem \in Sizings /\ m.sizes \in Sizings /\ Without(m.mem, {LG}) = m.sizes
  BY <1>3 DEF Accounted
<1>7. /\ c.mem = m.sizes /\ c.sizes = m.sizes /\ c.total = m.total /\ c.phase = p /\ c \in LifeRecords
      /\ c.root = l.root /\ c.made = l.made /\ c.tmudata = l.tmudata /\ c.running = l.running
      /\ c.calls = l.calls /\ c.owed = l.owed /\ c.finalized = l.finalized
  <2>1. p \in Phases
    BY DEF Phases
  <2> QED BY <1>1, <1>3, <1>5, <1>6, <2>1 DEF LifeRecords
<1>8. DOMAIN m.sizes = {}
  <2>1. l.sizes \in Sizings
    BY <1>1 DEF Accounted
  <2>2. DOMAIN Without(l.sizes, bs) = DOMAIN l.sizes \ bs
    BY <2>1, WithoutKeeps, Zenon
  <2> QED BY <1>2, <1>3, <2>2
<1>9. Accounted(c.mem, c.sizes, c.total)
  BY <1>6, <1>7, <1>8, AccountedOf
<1>10. Phased(c)
  BY <1>7, <1>8 DEF Phased
<1>11. Known(c.root, c.made, c.finalized, c.sizes)
  BY <1>7, <1>8 DEF Known
<1>12. /\ Lists(c.root, c.made, c.tmudata, c.calls, c.finalized) /\ InOrder(c.root, c.made, c.finalized)
       /\ Owing(c.owed, c.calls \o c.tmudata)
  BY <1>7 DEF LifeInv
<1> QED BY <1>7, <1>9, <1>10, <1>11, <1>12 DEF c, LifeInv

------------------------------------------------------------------------------
(* What each action keeps. *)

(* A block of no userdata. *)
LEMMA ReallocOther ==
  ASSUME NEW l, LifeInv(l), NEW b \in Blocks, b # LG, NEW n \in Nat,
         l.phase \in {"opening", "open", "closing"},
         l.made = <<>> \/ \A u \in Userdata : b # <<u, "object">>
  PROVE  LifeInv(luaM_realloc(l, b, n)) /\ Resized(luaM_realloc(l, b, n), l)
<1>1. \A u \in Listed(l.made) \ l.finalized : b = <<u, "object">> => b \in DOMAIN l.sizes
  <2>1. l.made \in Seq(Userdata)
    BY DEF LifeInv, LifeRecords, Queues
  <2>2. Listed(l.made) \subseteq Userdata
    BY <2>1, ListedAre, Zenon
  <2> QED BY <2>2, NoneListed
<1> QED BY <1>1, ReallocKeeps, Zenon

LEMMA OpenKeeps ==
  ASSUME LifeInv(life), f_luaopen
  PROVE  LifeInv(life')
<1> DEFINE m == luaM_realloc(life, Opening[life.opened + 1], 1)
           l == [m EXCEPT !.opened = @ + 1]
<1>1. life.phase = "opening" /\ life \in LifeRecords /\ life.opened \in Nat
  BY DEF f_luaopen, LifeInv, LifeRecords
<1>2. life.opened < Len(Opening) /\ life.made = <<>> /\ life.tmudata = <<>> /\ life.running = <<>>
  BY <1>1 DEF LifeInv, Phased
<1>3. CASE life' = close_state(life, "none")
  BY <1>2, <1>3, CloseStateKeeps, Zenon
<1>4. CASE life' = IF l.opened = Len(Opening) THEN [l EXCEPT !.phase = "open"] ELSE l
  <2>1. Opening[life.opened + 1] \in Blocks /\ Opening[life.opened + 1] # LG
    BY <1>1, <1>2, NamesAre
  <2>2. LifeInv(m) /\ Resized(m, life)
    <3>1. 1 \in Nat
      OBVIOUS
    <3> QED BY <1>1, <1>2, <2>1, <3>1, ReallocOther
  <2> HIDE DEF m
  <2>3. m \in LifeRecords /\ m.opened = life.opened /\ m.phase = "opening"
    BY <1>1, <2>2 DEF LifeInv, Resized
  <2>4. l = [m EXCEPT !.opened = life.opened + 1]
    BY <2>3 DEF LifeRecords
  <2>5. /\ life' \in LifeRecords /\ life'.mem = m.mem /\ life'.sizes = m.sizes /\ life'.total = m.total
        /\ life'.root = m.root /\ life'.made = m.made /\ life'.tmudata = m.tmudata
        /\ life'.running = m.running /\ life'.calls = m.calls /\ life'.owed = m.owed
        /\ life'.finalized = m.finalized
        /\ life'.phase \in {"opening", "open"}
        /\ life'.opened = life.opened + 1 /\ (life'.phase = "opening" => life.opened + 1 # Len(Opening))
    <3>1. CASE l.opened = Len(Opening)
      <4>1. life' = [m EXCEPT !.opened = life.opened + 1, !.phase = "open"]
        BY <1>4, <2>3, <2>4, <3>1 DEF LifeRecords
      <4> HIDE DEF l
      <4>2. life.opened + 1 \in Nat /\ "open" \in Phases
        BY <1>1 DEF Phases
      <4>3. life' \in LifeRecords
        BY <2>3, <4>1, <4>2 DEF LifeRecords
      <4> QED BY <2>3, <4>1, <4>3 DEF LifeRecords
    <3>2. CASE l.opened # Len(Opening)
      <4>1. life' = [m EXCEPT !.opened = life.opened + 1]
        BY <1>4, <2>4, <3>2
      <4>2. life.opened + 1 # Len(Opening)
        BY <2>3, <2>4, <3>2 DEF LifeRecords
      <4> QED BY <1>1, <2>3, <4>1, <4>2 DEF LifeRecords
    <3> QED BY <3>1, <3>2
  <2>6. Phased(life')
    <3>1. life'.opened < Len(Opening) \/ life'.phase # "opening"
      <4>1. Len(Opening) = 10
        BY NamesAre
      <4> QED BY <1>1, <1>2, <2>5, <4>1
    <3>2. m.made = <<>> /\ m.tmudata = <<>> /\ m.running = <<>>
      BY <1>2, <2>2 DEF Resized
    <3> QED BY <2>5, <3>1, <3>2 DEF Phased
  <2>7. /\ Accounted(life'.mem, life'.sizes, life'.total)
        /\ Lists(life'.root, life'.made, life'.tmudata, life'.calls, life'.finalized)
        /\ Known(life'.root, life'.made, life'.finalized, life'.sizes)
        /\ InOrder(life'.root, life'.made, life'.finalized)
        /\ Owing(life'.owed, life'.calls \o life'.tmudata)
    BY <2>2, <2>5 DEF LifeInv
  <2> QED BY <2>5, <2>6, <2>7 DEF LifeInv
<1> QED BY <1>3, <1>4 DEF f_luaopen

LEMMA ExecutingPhase ==
  ASSUME LifeInv(life), Executing
  PROVE  life.phase \in {"open", "closing"}
BY DEF Executing

LEMMA NewUserdataKeeps ==
  ASSUME LifeInv(life), NEW u \in Userdata, NEW gc \in BOOLEAN, luaS_newudata(u, gc)
  PROVE  LifeInv(life')
<1> DEFINE b == <<u, "object">>
           m == luaM_realloc(life, b, 1)
<1>1. life.phase \in {"open", "closing"} /\ u \notin Listed(life.made)
  BY ExecutingPhase DEF luaS_newudata
<1>2. LifeInv(m) /\ Resized(m, life) /\ DOMAIN m.sizes = DOMAIN life.sizes \cup {b}
  <2>1. b \in Blocks /\ b # LG
    BY NamesAre
  <2>2. \A v \in Listed(life.made) \ life.finalized : b # <<v, "object">>
    BY <1>1
  <2>3. 1 \in Nat
    OBVIOUS
  <2> HIDE DEF b
  <2> QED BY <1>1, <2>1, <2>2, <2>3, ReallocKeeps
<1>3. life' = [m EXCEPT !.root = <<u>> \o @, !.made = <<u>> \o @, !.held = @ \cup {u},
                        !.withgc = IF gc THEN @ \cup {u} ELSE @]
  BY DEF luaS_newudata
<1> HIDE DEF m, b
<1>4. m \in LifeRecords /\ m.made = life.made /\ m.phase = life.phase
  BY <1>2 DEF LifeInv, Resized
<1>5. /\ Lists(<<u>> \o m.root, <<u>> \o m.made, m.tmudata, m.calls, m.finalized)
      /\ Known(<<u>> \o m.root, <<u>> \o m.made, m.finalized, m.sizes)
      /\ InOrder(<<u>> \o m.root, <<u>> \o m.made, m.finalized)
  <2>1. /\ Lists(m.root, m.made, m.tmudata, m.calls, m.finalized)
        /\ Known(m.root, m.made, m.finalized, m.sizes) /\ InOrder(m.root, m.made, m.finalized)
    BY <1>2 DEF LifeInv
  <2>2. u \notin Listed(m.made) /\ DOMAIN m.sizes = DOMAIN m.sizes \cup {<<u, "object">>}
    BY <1>1, <1>2, <1>4 DEF b
  <2> QED BY <2>1, <2>2, NewFirst
<1>6. /\ life' \in LifeRecords /\ life'.mem = m.mem /\ life'.sizes = m.sizes /\ life'.total = m.total
      /\ life'.root = <<u>> \o m.root /\ life'.made = <<u>> \o m.made /\ life'.tmudata = m.tmudata
      /\ life'.running = m.running /\ life'.calls = m.calls /\ life'.owed = m.owed
      /\ life'.finalized = m.finalized /\ life'.phase = m.phase
  <2>1. <<u>> \o m.root \in Queues /\ <<u>> \o m.made \in Queues
    BY <1>5 DEF Lists
  <2>2. (m.held \cup {u}) \in SUBSET (Userdata \cup Threads)
    BY <1>4 DEF LifeRecords
  <2>3. (IF gc THEN m.withgc \cup {u} ELSE m.withgc) \in SUBSET Userdata
    BY <1>4 DEF LifeRecords
  <2>4. life' = [m EXCEPT !.root = <<u>> \o m.root, !.made = <<u>> \o m.made, !.held = m.held \cup {u},
                          !.withgc = IF gc THEN m.withgc \cup {u} ELSE m.withgc]
    BY <1>3, <1>4 DEF LifeRecords
  <2> QED BY <1>4, <2>1, <2>2, <2>3, <2>4 DEF LifeRecords
<1>7. Phased(life')
  BY <1>1, <1>4, <1>6 DEF Phased
<1>8. Accounted(life'.mem, life'.sizes, life'.total) /\ Owing(life'.owed, life'.calls \o life'.tmudata)
  BY <1>2, <1>6 DEF LifeInv
<1> QED BY <1>5, <1>6, <1>7, <1>8 DEF LifeInv

(* Only what the program refers to has changed. *)
LEMMA HeldKeeps ==
  ASSUME NEW l, LifeInv(l), NEW held \in SUBSET (Userdata \cup Threads)
  PROVE  LifeInv([l EXCEPT !.held = held])
<1> DEFINE m == [l EXCEPT !.held = held]
<1>1. l \in LifeRecords
  BY DEF LifeInv
<1>2. /\ m \in LifeRecords /\ m.mem = l.mem /\ m.sizes = l.sizes /\ m.total = l.total /\ m.root = l.root
      /\ m.made = l.made /\ m.tmudata = l.tmudata /\ m.running = l.running /\ m.calls = l.calls
      /\ m.owed = l.owed /\ m.finalized = l.finalized /\ m.phase = l.phase /\ m.opened = l.opened
  BY <1>1 DEF LifeRecords
<1> HIDE DEF m
<1>3. Phased(m)
  BY <1>2 DEF LifeInv, Phased
<1>4. LifeInv(m)
  BY <1>2, <1>3 DEF LifeInv
<1> QED BY <1>4 DEF m

LEMMA NewThreadKeeps ==
  ASSUME LifeInv(life), NEW t \in Threads, luaE_newthread(t)
  PROVE  LifeInv(life')
<1> DEFINE object == luaM_realloc(life, <<t, "object">>, 1)
           frames == luaM_realloc(object, <<t, "ci">>, 1)
           stack == luaM_realloc(frames, <<t, "stack">>, 1)
<1>1. life.phase \in {"open", "closing"}
  BY ExecutingPhase DEF luaE_newthread
<1>2. \A f \in {"object", "ci", "stack"} :
        <<t, f>> \in Blocks /\ <<t, f>> # LG /\ \A u \in Userdata : <<t, f>> # <<u, "object">>
  BY NamesAre, StateAssumption
<1>3. 1 \in Nat
  OBVIOUS
<1>4. LifeInv(object) /\ object.phase \in {"open", "closing"}
  <2>1. LifeInv(object) /\ Resized(object, life)
    BY <1>1, <1>2, <1>3, ReallocOther
  <2> HIDE DEF object
  <2> QED BY <1>1, <2>1 DEF Resized
<1> HIDE DEF object
<1>5. LifeInv(frames) /\ frames.phase \in {"open", "closing"}
  <2>1. LifeInv(frames) /\ Resized(frames, object)
    BY <1>2, <1>3, <1>4, ReallocOther
  <2> HIDE DEF frames
  <2> QED BY <1>4, <2>1 DEF Resized
<1> HIDE DEF frames
<1>6. LifeInv(stack)
  BY <1>2, <1>3, <1>5, ReallocOther
<1> HIDE DEF stack
<1>7. LifeInv([stack EXCEPT !.held = @ \cup {t}])
  <2>1. stack \in LifeRecords
    BY <1>6 DEF LifeInv
  <2>2. stack.held \cup {t} \in SUBSET (Userdata \cup Threads)
    BY <2>1 DEF LifeRecords
  <2>3. [stack EXCEPT !.held = @ \cup {t}] = [stack EXCEPT !.held = stack.held \cup {t}]
    BY <2>1 DEF LifeRecords
  <2> QED BY <1>6, <2>2, <2>3, HeldKeeps
<1>8. life' \in {object, frames, [stack EXCEPT !.held = @ \cup {t}]}
  BY DEF luaE_newthread, object, frames, stack
<1> QED BY <1>4, <1>5, <1>7, <1>8

LEMMA ReallocStackKeeps ==
  ASSUME LifeInv(life), NEW t \in Threads \cup {"main"}, NEW n \in StackSizes, luaD_reallocstack(t, n)
  PROVE  LifeInv(life')
<1>1. life.phase \in {"open", "closing"}
  BY ExecutingPhase DEF luaD_reallocstack
<1>2. <<t, "stack">> \in Blocks /\ <<t, "stack">> # LG /\ \A u \in Userdata : <<t, "stack">> # <<u, "object">>
  BY NamesAre
<1>3. n \in Nat
  BY StateAssumption
<1>4. LifeInv(luaM_realloc(life, <<t, "stack">>, n))
  BY <1>1, <1>2, <1>3, ReallocOther
<1> QED BY <1>4 DEF luaD_reallocstack

LEMMA DropKeeps ==
  ASSUME LifeInv(life), NEW o \in Userdata \cup Threads, DropObject(o)
  PROVE  LifeInv(life')
<1>1. life \in LifeRecords
  BY DEF LifeInv
<1>2. life.held \ {o} \in SUBSET (Userdata \cup Threads)
  BY <1>1 DEF LifeRecords
<1>3. life' = [life EXCEPT !.held = life.held \ {o}]
  BY <1>1 DEF DropObject, LifeRecords
<1> QED BY <1>2, <1>3, HeldKeeps

(* luaC_separateudata: what is found in root is finalized from now on, and    *)
(* what has a finalizer waits for it.                                         *)
LEMMA SeparatedFields ==
  ASSUME NEW l, LifeInv(l), NEW all \in BOOLEAN
  PROVE  LET found == {u \in Listed(l.root) : (all \/ u \notin l.held) /\ u \notin l.finalized}
             called == found \cap l.withgc
             m == Separated(l, all)
         IN /\ m \in LifeRecords
            /\ m.tmudata = l.tmudata \o Filtered(l.root, called)
            /\ m.root = Filtered(l.root, Userdata \ called) /\ m.finalized = l.finalized \cup found
            /\ m.mem = l.mem /\ m.sizes = l.sizes /\ m.total = l.total /\ m.made = l.made
            /\ m.running = l.running /\ m.calls = l.calls /\ m.owed = l.owed /\ m.phase = l.phase
            /\ m.opened = l.opened /\ m.held = l.held
<1> DEFINE found == {u \in Listed(l.root) : (all \/ u \notin l.held) /\ u \notin l.finalized}
           called == found \cap l.withgc
           t == l.tmudata \o Filtered(l.root, called)
           r == Filtered(l.root, Userdata \ called)
           fin == l.finalized \cup found
           m == Separated(l, all)
<1>1. l \in LifeRecords /\ l.root \in Queues /\ l.tmudata \in Queues
  BY DEF LifeInv, LifeRecords
<1>2. Listed(l.root) \subseteq Userdata
  BY <1>1, ListedAre DEF Queues
<1>3. t \in Queues
  <2>1. Filtered(l.root, called) \in Queues
    <3> HIDE DEF called
    <3> QED BY <1>1, FilteredKeeps DEF Queues
  <2> HIDE DEF called
  <2> QED BY <1>1, <2>1, QueueGrows
<1>4. r \in Queues
  <2> HIDE DEF called
  <2> QED BY <1>1, FilteredKeeps DEF Queues
<1>5. fin \in SUBSET Userdata
  BY <1>1, <1>2 DEF LifeRecords
<1>6. m = [l EXCEPT !.tmudata = t, !.root = r, !.finalized = fin]
  BY <1>1 DEF Separated, LifeRecords
<1> HIDE DEF m, t, r, fin, called, found
<1>7. /\ m \in LifeRecords /\ m.tmudata = t /\ m.root = r /\ m.finalized = fin
      /\ m.mem = l.mem /\ m.sizes = l.sizes /\ m.total = l.total /\ m.made = l.made
      /\ m.running = l.running /\ m.calls = l.calls /\ m.owed = l.owed /\ m.phase = l.phase
      /\ m.opened = l.opened /\ m.held = l.held
  BY <1>1, <1>3, <1>4, <1>5, <1>6 DEF LifeRecords
<1> QED BY <1>7 DEF m, t, r, fin, called, found

LEMMA SeparatedIs ==
  ASSUME NEW l, LifeInv(l), NEW all \in BOOLEAN, l.phase \in {"open", "closing"}
  PROVE  LifeInv(Separated(l, all))
<1> DEFINE found == {u \in Listed(l.root) : (all \/ u \notin l.held) /\ u \notin l.finalized}
           called == found \cap l.withgc
           m == Separated(l, all)
<1>1. /\ m \in LifeRecords
      /\ m.tmudata = l.tmudata \o Filtered(l.root, called)
      /\ m.root = Filtered(l.root, Userdata \ called) /\ m.finalized = l.finalized \cup found
      /\ m.mem = l.mem /\ m.sizes = l.sizes /\ m.total = l.total /\ m.made = l.made
      /\ m.running = l.running /\ m.calls = l.calls /\ m.owed = l.owed /\ m.phase = l.phase
  BY SeparatedFields
<1>2. called \subseteq found /\ found \subseteq Listed(l.root) \ l.finalized
  OBVIOUS
<1> HIDE DEF m, found, called
<1>3. /\ Lists(m.root, m.made, m.tmudata, m.calls, m.finalized)
      /\ Known(m.root, m.made, m.finalized, m.sizes) /\ InOrder(m.root, m.made, m.finalized)
      /\ Owing(m.owed, m.calls \o m.tmudata)
  <2>1. /\ Lists(l.root, l.made, l.tmudata, l.calls, l.finalized)
        /\ Known(l.root, l.made, l.finalized, l.sizes) /\ InOrder(l.root, l.made, l.finalized)
        /\ Owing(l.owed, l.calls \o l.tmudata)
    BY DEF LifeInv
  <2>2. /\ Lists(Filtered(l.root, Userdata \ called), l.made, l.tmudata \o Filtered(l.root, called), l.calls,
                 l.finalized \cup found)
        /\ Known(Filtered(l.root, Userdata \ called), l.made, l.finalized \cup found, l.sizes)
        /\ InOrder(Filtered(l.root, Userdata \ called), l.made, l.finalized \cup found)
        /\ Owing(l.owed, l.calls \o (l.tmudata \o Filtered(l.root, called)))
    BY <1>2, <2>1, SeparatedKeeps
  <2> QED BY <1>1, <2>2
<1>4. Phased(m)
  BY <1>1 DEF Phased
<1>5. Accounted(m.mem, m.sizes, m.total)
  BY <1>1 DEF LifeInv
<1>6. LifeInv(m)
  BY <1>1, <1>3, <1>4, <1>5 DEF LifeInv
<1> QED BY <1>6 DEF m

LEMMA CollectKeeps ==
  ASSUME LifeInv(life), CollectAll
  PROVE  LifeInv(life')
<1> DEFINE l == Separated(life, FALSE)
           dead == {o \in Listed(l.root) \cup Threads : o \notin l.held}
           bs == BlocksOf(l, dead)
           f == luaM_free(l, bs)
           r == Filtered(f.root, Userdata \ dead)
<1>1. life.phase \in {"open", "closing"} /\ life' = [f EXCEPT !.root = Filtered(@, Userdata \ dead)]
  BY ExecutingPhase DEF CollectAll
<1>2. LifeInv(l) /\ l.phase \in {"open", "closing"}
  <2>1. LifeInv(l)
    BY <1>1, SeparatedIs
  <2>2. l.phase = life.phase
    BY SeparatedFields
  <2> QED BY <1>1, <2>1, <2>2
<1> HIDE DEF l
<1>3. bs \subseteq DOMAIN l.sizes /\ \A u \in dead : <<u, "object">> \in DOMAIN l.sizes => <<u, "object">> \in bs
  BY DEF BlocksOf
<1> HIDE DEF dead, bs
<1>4. /\ Resized(f, l) /\ f.sizes = Without(l.sizes, bs) /\ Accounted(f.mem, f.sizes, f.total) /\ f.total \in Int
  BY <1>2, <1>3, FreeFields DEF LifeInv
<1> HIDE DEF f
<1>5. f.mem \in Sizings /\ f.sizes \in Sizings
  BY <1>4 DEF Accounted
<1>6. f \in LifeRecords
  <2>1. l \in LifeRecords
    BY <1>2 DEF LifeInv
  <2> QED BY <1>4, <1>5, <2>1 DEF LifeRecords, Resized
<1>7. DOMAIN f.sizes = DOMAIN l.sizes \ bs
  <2>1. l.sizes \in Sizings
    BY <1>2 DEF LifeInv, Accounted
  <2>2. DOMAIN Without(l.sizes, bs) = DOMAIN l.sizes \ bs
    BY <2>1, WithoutKeeps, Zenon
  <2> QED BY <1>4, <2>2
<1>8. /\ f.root = l.root /\ f.made = l.made /\ f.tmudata = l.tmudata /\ f.calls = l.calls
      /\ f.finalized = l.finalized /\ f.phase = l.phase /\ f.owed = l.owed
  BY <1>4 DEF Resized
<1>9. /\ Lists(r, f.made, f.tmudata, f.calls, f.finalized)
      /\ Known(r, f.made, f.finalized, f.sizes) /\ InOrder(r, f.made, f.finalized)
  <2>1. /\ Lists(l.root, l.made, l.tmudata, l.calls, l.finalized)
        /\ Known(l.root, l.made, l.finalized, l.sizes) /\ InOrder(l.root, l.made, l.finalized)
    BY <1>2 DEF LifeInv
  <2>2. \A u \in Userdata \ l.finalized :
           <<u, "object">> \in DOMAIN f.sizes => u \notin dead /\ <<u, "object">> \in DOMAIN l.sizes
    BY <1>3, <1>7
  <2>3. /\ Lists(Filtered(l.root, Userdata \ dead), l.made, l.tmudata, l.calls, l.finalized)
        /\ Known(Filtered(l.root, Userdata \ dead), l.made, l.finalized, f.sizes)
        /\ InOrder(Filtered(l.root, Userdata \ dead), l.made, l.finalized)
    BY <2>1, <2>2, RootFiltered
  <2> QED BY <1>8, <2>3
<1>10. life' = [f EXCEPT !.root = r]
  BY <1>1, <1>6 DEF LifeRecords
<1>11. r \in Queues
  BY <1>9 DEF Lists
<1> HIDE DEF r
<1>12. /\ life' \in LifeRecords /\ life'.mem = f.mem /\ life'.sizes = f.sizes /\ life'.total = f.total
       /\ life'.root = r /\ life'.made = f.made /\ life'.tmudata = f.tmudata
       /\ life'.calls = f.calls /\ life'.owed = f.owed
       /\ life'.finalized = f.finalized /\ life'.phase = f.phase
  BY <1>6, <1>10, <1>11 DEF LifeRecords
<1>13. Phased(life')
  BY <1>2, <1>8, <1>12 DEF Phased
<1>14. Owing(life'.owed, life'.calls \o life'.tmudata)
  BY <1>2, <1>8, <1>12 DEF LifeInv
<1> QED BY <1>4, <1>9, <1>12, <1>13, <1>14 DEF LifeInv

LEMMA CallKeeps ==
  ASSUME LifeInv(life), CallGCTM
  PROVE  LifeInv(life')
<1> DEFINE u == Head(life.tmudata)
           t == Tail(life.tmudata)
           r == <<u>> \o life.root
           c == Append(life.calls, u)
           run == Append(life.running, u)
<1>1. life.phase \in {"open", "closing"} /\ life.tmudata # <<>> /\ life \in LifeRecords
  BY DEF CallGCTM, LifeInv
<1>2. /\ Lists(life.root, life.made, life.tmudata, life.calls, life.finalized)
      /\ Known(life.root, life.made, life.finalized, life.sizes)
      /\ InOrder(life.root, life.made, life.finalized)
      /\ Owing(life.owed, life.calls \o life.tmudata)
  BY DEF LifeInv
<1>3. /\ u \in Userdata /\ c \o t = life.calls \o life.tmudata
      /\ Lists(r, life.made, t, c, life.finalized)
      /\ Known(r, life.made, life.finalized, life.sizes) /\ InOrder(r, life.made, life.finalized)
  BY <1>1, <1>2, FirstCalled
<1>4. life' = [life EXCEPT !.tmudata = t, !.root = r, !.running = run, !.held = life.held \cup {u}, !.calls = c]
  BY <1>1 DEF CallGCTM, LifeRecords
<1>5. r \in Queues /\ t \in Queues /\ c \in Queues
  BY <1>3 DEF Lists
<1>6. run \in Queues
  <2>1. life.running \in Seq(Userdata)
    BY <1>1 DEF LifeRecords, Queues
  <2> HIDE DEF u
  <2> QED BY <1>3, <2>1, AppendProperties DEF Queues
<1>7. life.held \cup {u} \in SUBSET (Userdata \cup Threads)
  BY <1>1, <1>3 DEF LifeRecords
<1> HIDE DEF u, t, r, c, run
<1>8. /\ life' \in LifeRecords /\ life'.mem = life.mem /\ life'.sizes = life.sizes /\ life'.total = life.total
      /\ life'.root = r /\ life'.made = life.made /\ life'.tmudata = t
      /\ life'.calls = c /\ life'.owed = life.owed
      /\ life'.finalized = life.finalized /\ life'.phase = life.phase
  BY <1>1, <1>4, <1>5, <1>6, <1>7 DEF LifeRecords
<1>9. Phased(life')
  BY <1>1, <1>8 DEF Phased
<1>10. Accounted(life'.mem, life'.sizes, life'.total)
  BY <1>8 DEF LifeInv
<1> QED BY <1>2, <1>3, <1>8, <1>9, <1>10 DEF LifeInv

(* Finalizers that end. *)
LEMMA RunningKeeps ==
  ASSUME NEW l, LifeInv(l), l.phase \in {"open", "closing"}, NEW n \in 0..Len(l.running),
         NEW held \in SUBSET (Userdata \cup Threads), NEW p \in {"open", "closing"}
  PROVE  LifeInv([l EXCEPT !.running = SubSeq(l.running, 1, n), !.held = held, !.phase = p])
<1> DEFINE run == SubSeq(l.running, 1, n)
           m == [l EXCEPT !.running = run, !.held = held, !.phase = p]
<1>1. l \in LifeRecords /\ l.running \in Seq(Userdata)
  BY DEF LifeInv, LifeRecords, Queues
<1>2. run \in Queues
  BY <1>1 DEF Queues
<1> HIDE DEF run
<1>3. p \in Phases
  BY DEF Phases
<1>4. /\ m \in LifeRecords /\ m.mem = l.mem /\ m.sizes = l.sizes /\ m.total = l.total /\ m.root = l.root
      /\ m.made = l.made /\ m.tmudata = l.tmudata /\ m.calls = l.calls
      /\ m.owed = l.owed /\ m.finalized = l.finalized /\ m.phase = p
  BY <1>1, <1>2, <1>3 DEF LifeRecords
<1> HIDE DEF m
<1>5. Phased(m)
  BY <1>4 DEF Phased
<1>6. LifeInv(m)
  BY <1>4, <1>5 DEF LifeInv
<1> QED BY <1>6 DEF m, run

LEMMA RunningPhase ==
  ASSUME LifeInv(life), life.running # <<>>
  PROVE  life.phase \in {"open", "closing"} /\ life.running \in Seq(Userdata) /\ Len(life.running) \in Nat \ {0}
<1>1. life.phase \in Phases /\ life.running \in Seq(Userdata)
  BY DEF LifeInv, LifeRecords, Queues
<1>2. life.phase \notin {"opening", "freeing", "closed", "none"}
  BY DEF LifeInv, Phased
<1>3. Len(life.running) \in Nat \ {0}
  BY <1>1, EmptySeq
<1> QED BY <1>1, <1>2, <1>3 DEF Phases

LEMMA ReturnsKeeps ==
  ASSUME LifeInv(life), FinalizerReturns
  PROVE  LifeInv(life')
<1>1. life.phase \in {"open", "closing"} /\ life.running \in Seq(Userdata) /\ Len(life.running) \in Nat \ {0}
  BY RunningPhase DEF FinalizerReturns
<1>2. life \in LifeRecords
  BY DEF LifeInv
<1>3. PICK kept \in BOOLEAN :
        life' = [life EXCEPT !.running = SubSeq(@, 1, Len(@) - 1),
                             !.held = IF kept THEN @ ELSE @ \ {life.running[Len(life.running)]}]
  BY DEF FinalizerReturns
<1> DEFINE n == Len(life.running) - 1
           held == IF kept THEN life.held ELSE life.held \ {life.running[Len(life.running)]}
<1>4. n \in 0..Len(life.running)
  BY <1>1
<1>5. held \in SUBSET (Userdata \cup Threads)
  BY <1>2 DEF LifeRecords
<1>6. life' = [life EXCEPT !.running = SubSeq(life.running, 1, n), !.held = held, !.phase = life.phase]
  BY <1>2, <1>3 DEF LifeRecords
<1> HIDE DEF n, held
<1> QED BY <1>1, <1>4, <1>5, <1>6, RunningKeeps

LEMMA FailsKeeps ==
  ASSUME LifeInv(life), FinalizerFails
  PROVE  LifeInv(life')
<1>1. life.phase \in {"open", "closing"} /\ life.running \in Seq(Userdata) /\ Len(life.running) \in Nat \ {0}
  BY RunningPhase DEF FinalizerFails
<1>2. life \in LifeRecords
  BY DEF LifeInv
<1>3. PICK n \in 0..Len(life.running) - 1 :
        life' = [life EXCEPT !.running = SubSeq(@, 1, n),
                             !.held = @ \ Listed(SubSeq(life.running, n + 1, Len(life.running))),
                             !.phase = IF n = 0 /\ @ = "closing" THEN Retried ELSE @]
  BY DEF FinalizerFails
<1> DEFINE held == life.held \ Listed(SubSeq(life.running, n + 1, Len(life.running)))
           p == IF n = 0 /\ life.phase = "closing" THEN Retried ELSE life.phase
<1>4. n \in 0..Len(life.running)
  BY <1>1
<1>5. held \in SUBSET (Userdata \cup Threads)
  BY <1>2 DEF LifeRecords
<1>6. p \in {"open", "closing"}
  BY <1>1 DEF Retried
<1>7. life' = [life EXCEPT !.running = SubSeq(life.running, 1, n), !.held = held, !.phase = p]
  BY <1>2, <1>3 DEF LifeRecords
<1> HIDE DEF p, held
<1> QED BY <1>1, <1>4, <1>5, <1>6, <1>7, RunningKeeps

LEMMA CloseKeeps ==
  ASSUME LifeInv(life), lua_close
  PROVE  LifeInv(life')
<1> DEFINE waiting == {u \in life.withgc \ life.finalized : Made(u)}
           due == Filtered(life.made, waiting)
           owed == life.tmudata \o due
           l == Separated(life, TRUE)
           called == (Listed(life.root) \ life.finalized) \cap life.withgc
<1>1. life.phase = "open" /\ life' = [l EXCEPT !.phase = "closing", !.owed = owed]
  BY DEF lua_close
<1>2. LifeInv(l)
  BY <1>1, SeparatedIs
<1>3. l \in LifeRecords
  BY <1>2 DEF LifeInv
<1>4. /\ l.tmudata = life.tmudata \o Filtered(life.root, called) /\ l.calls = life.calls
  <2>1. called = {u \in Listed(life.root) : (TRUE \/ u \notin life.held) /\ u \notin life.finalized} \cap life.withgc
    OBVIOUS
  <2> HIDE DEF called
  <2> QED BY <2>1, SeparatedFields
<1>5. /\ Lists(life.root, life.made, life.tmudata, life.calls, life.finalized)
      /\ Known(life.root, life.made, life.finalized, life.sizes)
      /\ InOrder(life.root, life.made, life.finalized)
  BY DEF LifeInv
<1>6. Owing(owed, life.calls \o (life.tmudata \o Filtered(life.root, called)))
  <2>1. \A u \in waiting : u \in life.withgc /\ u \notin life.finalized /\ <<u, "object">> \in DOMAIN life.sizes
    BY DEF Made
  <2> HIDE DEF waiting
  <2> QED BY <1>5, <2>1, DueOwed
<1>7. owed \in Queues
  <2>1. life.made \in Seq(Userdata) /\ life.tmudata \in Queues
    BY <1>5 DEF Lists, Queues
  <2>2. due \in Queues
    <3> HIDE DEF waiting
    <3> QED BY <2>1, FilteredKeeps DEF Queues
  <2> HIDE DEF due
  <2> QED BY <2>1, <2>2, QueueGrows
<1> HIDE DEF l, owed
<1>8. /\ life' \in LifeRecords /\ life'.mem = l.mem /\ life'.sizes = l.sizes /\ life'.total = l.total
      /\ life'.root = l.root /\ life'.made = l.made /\ life'.tmudata = l.tmudata
      /\ life'.calls = l.calls /\ life'.owed = owed
      /\ life'.finalized = l.finalized /\ life'.phase = "closing"
  <2>1. "closing" \in Phases
    BY DEF Phases
  <2> QED BY <1>1, <1>3, <1>7, <2>1 DEF LifeRecords
<1>9. Phased(life')
  BY <1>8 DEF Phased
<1>10. Owing(life'.owed, life'.calls \o life'.tmudata)
  BY <1>4, <1>6, <1>8
<1> QED BY <1>2, <1>8, <1>9, <1>10 DEF LifeInv

LEMMA AllCalledKeeps ==
  ASSUME LifeInv(life), AllCalled
  PROVE  LifeInv(life')
<1>1. life \in LifeRecords /\ life.running = <<>> /\ life.tmudata = <<>> /\ "freeing" \in Phases
  BY DEF LifeInv, AllCalled, Phases
<1>2. /\ life' \in LifeRecords /\ life'.mem = life.mem /\ life'.sizes = life.sizes /\ life'.total = life.total
      /\ life'.root = life.root /\ life'.made = life.made /\ life'.tmudata = life.tmudata
      /\ life'.calls = life.calls /\ life'.owed = life.owed /\ life'.running = life.running
      /\ life'.finalized = life.finalized /\ life'.phase = "freeing"
  BY <1>1 DEF AllCalled, LifeRecords
<1>3. Phased(life')
  BY <1>1, <1>2 DEF Phased
<1> QED BY <1>2, <1>3 DEF LifeInv

LEMMA FreeStateKeeps ==
  ASSUME LifeInv(life), FreeState
  PROVE  LifeInv(life')
<1>1. life.tmudata = <<>> /\ life.running = <<>> /\ life' = close_state(life, "closed")
  BY DEF LifeInv, Phased, FreeState
<1>2. LifeInv(close_state(life, "closed"))
  BY <1>1, CloseStateKeeps
<1> QED BY <1>1, <1>2

------------------------------------------------------------------------------
(* The theorem. *)

LEMMA LifeBegins ==
  ASSUME life \in LifeStates
  PROVE  LifeInv(life)
<1> DEFINE m == [b \in {LG} |-> 1]
           s == [b \in {} |-> 0]
<1>1. /\ life.phase = "opening" /\ life.opened = 0 /\ life.mem = m /\ life.sizes = s /\ life.total = 1
      /\ life.root = <<>> /\ life.made = <<>> /\ life.tmudata = <<>> /\ life.withgc = {}
      /\ life.finalized = {} /\ life.held = {} /\ life.running = <<>> /\ life.calls = <<>> /\ life.owed = <<>>
      /\ life = [phase |-> "opening", opened |-> 0, mem |-> m, sizes |-> s, total |-> 1,
                 root |-> <<>>, made |-> <<>>, tmudata |-> <<>>, withgc |-> {}, finalized |-> {},
                 held |-> {}, running |-> <<>>, calls |-> <<>>, owed |-> <<>>]
  BY DEF LifeStates
<1>2. DOMAIN s = {} /\ DOMAIN m = {LG} /\ m[LG] = 1
  OBVIOUS
<1>3. s \in [DOMAIN s -> Nat] /\ m \in [DOMAIN m -> Nat] /\ LG \in Blocks
  BY DEF Blocks, Names, LG
<1> HIDE DEF m, s
<1>4. s \in Sizings /\ ByteCount(s) = 0
  <2>1. IsFiniteSet(Cells(s)) /\ ByteCount(s) = 0
    BY <1>2, NoBytes
  <2> QED BY <1>2, <1>3, <2>1, SizingIs
<1>5. m \in Sizings
  <2>1. m = With(s, LG, 1)
    BY <1>2 DEF With, m
  <2>2. 1 \in Nat
    OBVIOUS
  <2>3. With(s, LG, 1) \in Sizings
    BY <1>3, <1>4, <2>2, WithKeeps
  <2> QED BY <2>1, <2>3
<1>6. Accounted(m, s, 1)
  <2>1. DOMAIN s = DOMAIN m \ {LG} /\ \A b \in DOMAIN s : s[b] = m[b]
    BY <1>2
  <2>2. 1 = 1 + ByteCount(s)
    BY <1>4
  <2> QED BY <1>4, <1>5, <2>1, <2>2, AccountedOf
<1>7. <<>> \in Queues /\ <<>> \o <<>> = <<>>
  BY DEF Queues
<1>8. life \in LifeRecords
  <2>1. "opening" \in Phases /\ 0 \in Nat /\ 1 \in Int
    BY DEF Phases
  <2>2. {} \in SUBSET Userdata /\ {} \in SUBSET (Userdata \cup Threads)
    OBVIOUS
  <2> QED BY <1>1, <1>4, <1>5, <1>7, <2>1, <2>2 DEF LifeRecords
<1>9. Phased(life)
  <2>1. 0 < Len(Opening)
    BY NamesAre
  <2> QED BY <1>1, <2>1 DEF Phased
<1>10. /\ Lists(<<>>, <<>>, <<>>, <<>>, {}) /\ Known(<<>>, <<>>, {}, s) /\ InOrder(<<>>, <<>>, {})
       /\ Owing(<<>>, <<>> \o <<>>)
  BY <1>7, NoneListed DEF Lists, Known, InOrder, Owing
<1> QED BY <1>1, <1>6, <1>8, <1>9, <1>10 DEF LifeInv

LEMMA LifeSteps ==
  ASSUME LifeInv(life), [LifeNext]_life
  PROVE  LifeInv(life')
<1>1. CASE f_luaopen
  BY <1>1, OpenKeeps
<1>2. CASE CollectAll
  BY <1>2, CollectKeeps
<1>3. CASE CallGCTM
  BY <1>3, CallKeeps
<1>4. CASE FinalizerReturns
  BY <1>4, ReturnsKeeps
<1>5. CASE FinalizerFails
  BY <1>5, FailsKeeps
<1>6. CASE lua_close
  BY <1>6, CloseKeeps
<1>7. CASE AllCalled
  BY <1>7, AllCalledKeeps
<1>8. CASE FreeState
  BY <1>8, FreeStateKeeps
<1>9. CASE \E u \in Userdata : DropObject(u) \/ \E gc \in BOOLEAN : luaS_newudata(u, gc)
  BY <1>9, DropKeeps, NewUserdataKeeps
<1>10. CASE \E t \in Threads : luaE_newthread(t) \/ DropObject(t)
  BY <1>10, DropKeeps, NewThreadKeeps
<1>11. CASE \E t \in Threads \cup {"main"}, n \in StackSizes : luaD_reallocstack(t, n)
  BY <1>11, ReallocStackKeeps
<1>12. CASE life' = life
  BY <1>12
<1> QED
  BY <1>1, <1>2, <1>3, <1>4, <1>5, <1>6, <1>7, <1>8, <1>9, <1>10, <1>11, <1>12, Zenon DEF LifeNext

LEMMA NothingKept ==
  ASSUME LifeInv(life)
  PROVE  NothingLeft
<1>1. MemoryAccounted
  BY DEF LifeInv, Accounted, MemoryAccounted
<1>2. life.calls \in Queues /\ life.tmudata \in Queues /\ Distinct(life.calls \o life.tmudata)
  BY DEF LifeInv, Lists
<1>3. Distinct(life.calls)
  BY <1>2, JoinedRows DEF Queues
<1>4. ASSUME life.phase = "closed"
      PROVE  /\ Listed(life.owed) \subseteq Listed(life.calls)
             /\ \A u, v \in Listed(life.owed) : Before(life.owed, u, v) => Before(life.calls, u, v)
  <2>1. life.tmudata = <<>>
    BY <1>4 DEF LifeInv, Phased
  <2>2. life.calls \o life.tmudata = life.calls
    BY <1>2, <2>1 DEF Queues
  <2>3. Owing(life.owed, life.calls)
    BY <2>2 DEF LifeInv
  <2> QED BY <2>3 DEF Owing
<1>5. life.phase \in {"closed", "none"} => DOMAIN life.mem = {}
  BY DEF LifeInv, Phased
<1> QED BY <1>1, <1>3, <1>4, <1>5 DEF NothingLeft, FinalizersCalled

(* Whatever a program makes, whichever allocation fails while a state opens,  *)
(* and whichever finalizers raise errors, make more or collect garbage: what  *)
(* is allocated is what the state has recorded, no finalizer is called twice, *)
(* and a state that has been closed has called those that were due, in their  *)
(* order, and has freed everything (lua_newstate, luaC_separateudata, GCTM,   *)
(* lua_close).                                                                *)
THEOREM NothingIsLeft == LifeSpec => []NothingLeft
<1>1. life \in LifeStates => LifeInv(life)
  BY LifeBegins
<1>2. LifeInv(life) /\ [LifeNext]_life => LifeInv(life)'
  BY LifeSteps
<1>3. LifeInv(life) => NothingLeft
  BY NothingKept
<1> QED BY <1>1, <1>2, <1>3, PTL DEF LifeSpec
==============================================================================
