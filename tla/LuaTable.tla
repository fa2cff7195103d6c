------------------------------ MODULE LuaTable ------------------------------
(***************************************************************************)
(* Tables of the interpreter (ltable.c): an array part for the keys        *)
(* 1 .. sizearray and a hash part of nodes, chained from the main position *)
(* of their keys (Brent's variation of a chained scatter table).  A key    *)
(* whose value is nil keeps its node until the next rehash; the collector  *)
(* marks such a key dead, after which its address may become another key.  *)
(*                                                                         *)
(* Hash values are arbitrary: a program uses one of the hashings, functions  *)
(* from its keys (integers, strings and other objects) to their hash values. *)
(***************************************************************************)
EXTENDS Integers, Sequences, SequencesExt, FiniteSets, FiniteSetsExt

CONSTANTS
  String, Object,   \* the collectable keys; integers are the others
  Value, Nil,
  Hashing,          \* the functions from the keys of a program to their hash values
  MAX_INT,          \* the largest int
  NodesMayFail      \* whether allocating the nodes may fail after the array has grown

Collectable == String \cup Object

ASSUME HashingAssumption ==
  /\ MAX_INT \in Nat /\ String \cap Object = {} /\ Collectable \cap Nat = {}
  /\ \A h \in Hashing : h \in [DOMAIN h -> Nat] /\ DOMAIN h \subseteq 1 .. MAX_INT \cup Collectable
ASSUME ValueAssumption ==
  /\ Nil \notin Value \cup Collectable \cup Int /\ NodesMayFail \in BOOLEAN

VARIABLES
  t,          \* the table
  hash,       \* the hash value of each key
  traversing, \* whether the program is in a traversal of the table
  last,       \* the key luaH_next has returned last, or Nil
  visited,    \* the keys it has returned in the traversal (no variable of the code)
  content     \* what the program has assigned (no variable of the code)

vars == <<t, hash, traversing, last, visited, content>>

Key == DOMAIN hash
Entry == Value \cup {Nil}
Table(array, node, lastfree) == [array |-> array, node |-> node, lastfree |-> lastfree]
Node(key, val, next) == [key |-> key, dead |-> FALSE, val |-> val, next |-> next]

----------------------------------------------------------------------------
(* Searching. *)

sizearray(tb) == Len(tb.array)
InArray(tb, k) == k \in 1 .. sizearray(tb)

(* dummynode, an empty node vector here, has size 1. *)
sizenode(tb) == IF tb.node = <<>> THEN 1 ELSE Cardinality(DOMAIN tb.node)

(* hashpow2 for strings, hashmod for the rest. *)
mainposition(tb, k) ==
  IF k \in String \/ sizenode(tb) = 1 THEN hash[k] % sizenode(tb)
                                      ELSE hash[k] % (sizenode(tb) - 1)

(* The nodes of the chain that starts at node i, in order. *)
Chain(tb, i) ==
  LET from[j \in DOMAIN tb.node \cup {Nil}] ==
        IF j = Nil THEN <<>> ELSE <<j>> \o from[tb.node[j].next]
  IN IF tb.node = <<>> THEN <<>> ELSE from[i]

IsKey(k, nd) == nd.key = k /\ ~nd.dead
NodesOf(tb, k) ==                                    \* as positions in the chain
  LET chain == Chain(tb, mainposition(tb, k)) IN {j \in DOMAIN chain : IsKey(k, tb.node[chain[j]])}
HasNode(tb, k) == ~InArray(tb, k) /\ NodesOf(tb, k) # {}
NodeOf(tb, k) == Chain(tb, mainposition(tb, k))[Min(NodesOf(tb, k))]

luaH_get(tb, k) ==
  IF InArray(tb, k) THEN tb.array[k]
  ELSE IF k \in Key /\ HasNode(tb, k) THEN tb.node[NodeOf(tb, k)].val ELSE Nil

----------------------------------------------------------------------------
(* Inserting a key. *)

getfreepos(tb) ==
  LET free == {i \in DOMAIN tb.node : i < tb.lastfree /\ tb.node[i].key = Nil}
  IN IF free = {} THEN Nil ELSE Max(free)

(* newkey, unless it has to rehash: the key goes to its main position, and a *)
(* node that is there without being in its own main position moves away.     *)
Relinked_kept(node, mp, n, first) == node            \* mutant: the chain still leads to mp
Relinked(node, mp, n, first) ==
  [i \in DOMAIN node |->
     IF node[i].next = mp /\ \E j \in DOMAIN first : first[j] = i
     THEN [node[i] EXCEPT !.next = n] ELSE node[i]]

MustMove_never(othern, mp) == FALSE                  \* mutant: chains to any node
MustMove(othern, mp) == othern # mp

NeedsFree(tb, k) == tb.node # <<>> => tb.node[mainposition(tb, k)].val # Nil
NeedsRehash(tb, k) == NeedsFree(tb, k) /\ getfreepos(tb) = Nil

Insert(tb, k) ==
  LET mp == mainposition(tb, k)
      n == getfreepos(tb)
      othern == mainposition(tb, tb.node[mp].key)
      moved == [Relinked(tb.node, mp, n, Chain(tb, othern)) EXCEPT
                  ![n] = tb.node[mp], ![mp] = Node(k, Nil, Nil)]
      chained == [tb.node EXCEPT ![n] = Node(k, Nil, tb.node[mp].next), ![mp].next = n]
  IN
  IF ~NeedsFree(tb, k) THEN [tb EXCEPT !.node[mp].key = k, !.node[mp].dead = FALSE]
  ELSE Table(tb.array, IF MustMove(othern, mp) THEN moved ELSE chained, n)

(* luaH_set and the assignment to the value it returns, without rehash.      *)
Put(tb, k, v) ==
  LET in == IF InArray(tb, k) \/ HasNode(tb, k) THEN tb ELSE Insert(tb, k)
  IN IF InArray(in, k) THEN [in EXCEPT !.array[k] = v]
                       ELSE [in EXCEPT !.node[NodeOf(in, k)].val = v]
(* In the nodes a rehash has made there is room for every key: were there   *)
(* none, the key would be lost here and HoldsContent violated.               *)
PutIfRoom(tb, k, v) ==
  IF ~InArray(tb, k) /\ ~HasNode(tb, k) /\ NeedsRehash(tb, k) THEN tb ELSE Put(tb, k, v)

----------------------------------------------------------------------------
(* Rehash. *)

MAXBITS == 26
twoto[x \in 0 .. MAXBITS] == IF x = 0 THEN 1 ELSE 2 * twoto[x - 1]
TwoTo == {twoto[x] : x \in 0 .. MAXBITS}

(* No table overflow: the keys fit into the nodes there may be. *)
ASSUME SizeAssumption ==
  \A h \in Hashing : IsFiniteSet(DOMAIN h) /\ \E p \in TwoTo : Cardinality(DOMAIN h) <= p

RoundUp(n) == Min({p \in TwoTo : p >= n})            \* twoto(ceillog2(n))

(* computesizes: more than half of the array part will be in use. *)
computesizes(ints) ==
  LET half == {n \in TwoTo : n <= 2 * Cardinality(ints) + 1
                             /\ 2 * Cardinality({k \in ints : k <= n}) > n}
  IN Max(half \cup {0})

setarrayvector(tb, n) ==
  [tb EXCEPT !.array = [k \in 1 .. n |-> IF InArray(tb, k) THEN @[k] ELSE Nil]]
setnodevector(tb, n) ==
  LET size == IF n = 0 THEN 0 ELSE RoundUp(n)
  IN [tb EXCEPT !.node = [i \in 0 .. size - 1 |-> Node(Nil, Nil, Nil)], !.lastfree = size]

(* What resize puts again into the new nodes, in its order: the elements of  *)
(* the slice that vanishes from the array, and of the nodes from the last.   *)
Vanishing(tb, nasize) ==
  [i \in 1 .. Max({sizearray(tb) - nasize, 0}) |-> <<nasize + i, tb.array[nasize + i]>>]
Rehashed(tb) ==
  LET n == Cardinality(DOMAIN tb.node)
  IN [i \in 1 .. n |-> <<tb.node[n - i].key, tb.node[n - i].val>>]
Reinsert(tb, kv) == IF kv[2] = Nil THEN tb ELSE PutIfRoom(tb, kv[1], kv[2])

resize(tb, nasize, nhsize) ==
  LET new == setnodevector(setarrayvector(tb, nasize), nhsize)
  IN FoldLeft(Reinsert, new, Vanishing(tb, nasize) \o Rehashed(tb))

Used(tb) == {k \in 1 .. sizearray(tb) : tb.array[k] # Nil}
              \cup {tb.node[i].key : i \in {j \in DOMAIN tb.node : tb.node[j].val # Nil}}
Sizes(tb, k) ==
  LET used == Used(tb) \cup {k}
      ints == used \ Collectable
      nasize == computesizes(ints)
  IN <<nasize, Cardinality(used) - Cardinality({i \in ints : i <= nasize})>>
rehash(tb, k) == resize(tb, Sizes(tb, k)[1], Sizes(tb, k)[2])

----------------------------------------------------------------------------
(* Traversal: elements are numbered from 0, those of the array first. *)

Matches_live(k, nd) == IsKey(k, nd)                  \* mutant: a dead key is no key
Matches(k, nd) == nd.key = k
nodeindex(tb, k) ==
  LET chain == Chain(tb, mainposition(tb, k))
      found == {j \in DOMAIN chain : Matches(k, tb.node[chain[j]])}
  IN IF found = {} THEN Nil ELSE chain[Min(found)] + sizearray(tb)
findindex_below(tb, k) ==                            \* mutant: misses the last item
  IF k = Nil THEN -1 ELSE IF InArray(tb, k) /\ k < sizearray(tb) THEN k - 1 ELSE nodeindex(tb, k)
findindex(tb, k) == IF k = Nil THEN -1 ELSE IF InArray(tb, k) THEN k - 1 ELSE nodeindex(tb, k)

KeyAt(tb, i) == IF i < sizearray(tb) THEN i + 1 ELSE tb.node[i - sizearray(tb)].key
ValueAt(tb, i) ==
  IF i < sizearray(tb) THEN tb.array[i + 1] ELSE tb.node[i - sizearray(tb)].val
Following(tb, i) ==
  {j \in i .. sizearray(tb) + Cardinality(DOMAIN tb.node) - 1 : ValueAt(tb, j) # Nil}

----------------------------------------------------------------------------
(* The length operator. *)

(* A boundary between from, present or 0, and to, absent. *)
BinarySearch(tb, from, to) ==
  LET search[p \in Nat \X Nat] ==
        LET m == (p[1] + p[2]) \div 2
        IN IF p[2] - p[1] <= 1 THEN p[1]
           ELSE search[IF luaH_get(tb, m) = Nil THEN <<p[1], m>> ELSE <<m, p[2]>>]
  IN search[<<from, to>>]

(* A table made to defeat the doubling is searched from its start. *)
LinearSearch(tb) == Min({i \in 1 .. MAX_INT + 1 : luaH_get(tb, i) = Nil}) - 1
unbound_search(tb, start) ==
  LET double[p \in Nat \X Nat] ==
        IF luaH_get(tb, p[2]) = Nil THEN BinarySearch(tb, p[1], p[2])
        ELSE IF 2 * p[2] > MAX_INT THEN LinearSearch(tb) ELSE double[<<p[2], 2 * p[2]>>]
  IN double[<<start, start + 1>>]

luaH_getn_array(tb) ==                               \* mutant: forgets the hash part
  IF sizearray(tb) > 0 /\ tb.array[sizearray(tb)] = Nil
  THEN BinarySearch(tb, 0, sizearray(tb)) ELSE sizearray(tb)
luaH_getn(tb) ==
  LET j == sizearray(tb) IN
  IF j > 0 /\ tb.array[j] = Nil THEN BinarySearch(tb, 0, j)
  ELSE IF tb.node = <<>> THEN j ELSE unbound_search(tb, j)

----------------------------------------------------------------------------
(* What the program and the collector do with the table. *)

Init ==
  /\ t = Table(<<>>, <<>>, 0)
  /\ hash \in Hashing
  /\ traversing = FALSE /\ last = Nil /\ visited = {}
  /\ content = [k \in Key |-> Nil]

(* luaH_set with its assignment.  A program that assigns to an absent field  *)
(* has no traversal any more (next's documentation).                         *)
NoTraversal == traversing' = FALSE /\ last' = Nil /\ visited' = {}
StopTraversal(k) ==
  IF content[k] # Nil THEN UNCHANGED <<traversing, last, visited>> ELSE NoTraversal
luaH_set(k, v) ==
  /\ t' = IF InArray(t, k) \/ HasNode(t, k) \/ ~NeedsRehash(t, k) THEN Put(t, k, v)
          ELSE PutIfRoom(rehash(t, k), k, v)
  /\ content' = [content EXCEPT ![k] = v]
  /\ StopTraversal(k)
  /\ UNCHANGED hash

(* An allocation fails in rehash: nothing has changed but lastfree, unless   *)
(* the array part had grown already.                                         *)
rehash_fails(k) ==
  LET nasize == Sizes(t, k)[1]
      grown == NodesMayFail /\ nasize > sizearray(t) /\ Sizes(t, k)[2] > 0
  IN
  /\ ~InArray(t, k) /\ ~HasNode(t, k) /\ NeedsRehash(t, k)
  /\ t' \in {[t EXCEPT !.lastfree = 0]} \cup
             (IF grown THEN {[setarrayvector(t, nasize) EXCEPT !.lastfree = 0]} ELSE {})
  /\ StopTraversal(k)
  /\ UNCHANGED <<hash, content>>

(* luaH_resizearray, for a constructor that sets the items up to size. *)
luaH_resizearray(size) ==
  /\ size > sizearray(t)
  /\ t' = resize(t, size, Cardinality(DOMAIN t.node))
  /\ NoTraversal
  /\ UNCHANGED <<hash, content>>

(* The collector traverses the table: removeentry on every empty node. *)
removeentry(nd) == [nd EXCEPT !.dead = @ \/ (nd.val = Nil /\ nd.key \in Collectable)]
removeentries ==
  /\ t' = [t EXCEPT !.node = [i \in DOMAIN @ |-> removeentry(@[i])]]
  /\ UNCHANGED <<hash, traversing, last, visited, content>>

(* A string that nothing refers to is freed and another one gets its address *)
(* (another object would have the same hash value, which is its address).    *)
Recycle(k) ==
  /\ \A i \in DOMAIN t.node : t.node[i].key = k => t.node[i].dead
  /\ last # k
  /\ hash' \in {[hash EXCEPT ![k] = g[k]] : g \in {g \in Hashing : DOMAIN g = Key}}
  /\ visited' = visited \ {k}
  /\ UNCHANGED <<t, traversing, last, content>>

BeginTraversal ==
  /\ ~traversing
  /\ traversing' = TRUE
  /\ UNCHANGED <<t, hash, last, visited, content>>

(* luaH_next, or the error "invalid key to next". *)
InvalidKey == findindex(t, last) = Nil
luaH_next ==
  LET rest == Following(t, findindex(t, last) + 1)
  IN
  /\ traversing
  /\ IF InvalidKey \/ rest = {} THEN NoTraversal
     ELSE /\ last' = KeyAt(t, Min(rest)) /\ visited' = visited \cup {last'}
          /\ UNCHANGED traversing
  /\ UNCHANGED <<t, hash, content>>

Next ==
  \/ \E k \in Key : \E v \in Entry : luaH_set(k, v)
  \/ \E k \in Key : rehash_fails(k)
  \/ \E size \in Key \ Collectable : luaH_resizearray(size)
  \/ removeentries
  \/ \E k \in Key \cap String : Recycle(k)
  \/ BeginTraversal
  \/ luaH_next

Spec == Init /\ [][Next]_vars

----------------------------------------------------------------------------
(* Properties. *)

NodeRecord == [key : Key \cup {Nil}, dead : BOOLEAN, val : Entry, next : Nat \cup {Nil}]
TypeOK ==
  /\ t.array \in Seq(Entry)
  /\ DOMAIN t.node = 0 .. Cardinality(DOMAIN t.node) - 1
  /\ t.lastfree \in 0 .. Cardinality(DOMAIN t.node)
  /\ \A i \in DOMAIN t.node :
       /\ t.node[i] \in NodeRecord /\ t.node[i].next \in DOMAIN t.node \cup {Nil}
       /\ t.node[i].dead => t.node[i].val = Nil      \* the assertion in lgc.c:186
  /\ hash \in [Key -> Nat] /\ content \in [Key -> Entry]
  /\ traversing \in BOOLEAN /\ last \in Key \cup {Nil} /\ visited \subseteq Key

(* Whatever collides, moves, is cleared, collected or rehashed, a key has    *)
(* the value last assigned to it (luaH_get, newkey, resize).                 *)
HoldsContent == \A k \in Key : luaH_get(t, k) = content[k]

(* ltable.c:15: if an element is not in its main position, the colliding     *)
(* element is in its own.                                                    *)
MainPositions ==
  TypeOK /\ \A i \in DOMAIN t.node : t.node[i].val # Nil =>
    LET mp == mainposition(t, t.node[i].key) IN
    i # mp /\ t.node[mp].val # Nil => mainposition(t, t.node[mp].key) = mp

(* ltable.c:133: the index of a key for traversals is its place in the array *)
(* or in the nodes, never that of a dead key which had the same address.     *)
FindsElement ==
  \A i \in 0 .. sizearray(t) + Cardinality(DOMAIN t.node) - 1 :
    ValueAt(t, i) # Nil => findindex(t, KeyAt(t, i)) = i

(* A traversal whose body only assigns to present fields, or clears them,    *)
(* returns every remaining key, no key twice, and never an error (luaH_next). *)
TraversalStep ==
  luaH_next =>
    /\ ~InvalidKey
    /\ traversing' => last' \notin visited
    /\ ~traversing' => {k \in Key : content[k] # Nil} \subseteq visited
TraversalExact == [][TraversalStep]_vars

(* The length of a table is one of its boundaries (luaH_getn).               *)
IsBoundary(n) ==
  /\ n = 0 \/ (n \in Key /\ content[n] # Nil)
  /\ n + 1 \in Key => content[n + 1] = Nil
BoundaryFound == IsBoundary(luaH_getn(t))

=============================================================================
