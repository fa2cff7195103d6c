--------------------------- MODULE MCLuaServices ---------------------------
(* Small inputs for every service. *)
EXTENDS LuaServices, MCLuaPatterns

(* Every order on up to five elements by its ranks, equal ones included;     *)
(* some shapes of larger arrays; and order functions that are none.          *)
Weak(m) == {r \in [1..m -> 1..m] : \E k \in 1..m : {r[x] : x \in 1..m} = 1..k}
Shapes(m) == {[x \in 1..m |-> (x * k + o) % q] : k \in 1..m - 1, o \in 0..1, q \in {2, 3, m, m + 1}}
MCSorts == {[n |-> Len(r), rank |-> r] : r \in UNION {Weak(m) : m \in 1..5} \cup Shapes(8) \cup Shapes(12)}
           \cup {[n |-> 0, rank |-> <<>>]} \cup {[n |-> m, rank |-> <<>>] : m \in {3, 4}}

MCFamilies == {{"__index", "__newindex"}, {"__newindex", "__eq"}}

String1(s) == [k |-> "string", text |-> s]
Number1 == [k |-> "number", text |-> <<"1">>]
Object1(t) == [k |-> "object", tm |-> t]
MCCatObjects == {Object1(<<>>), Object1(<<String1(<<"m">>)>>),
                 Object1(<<Object1(<<String1(<<"o">>)>>)>>), Object1(<<Number1>>),
                 Object1(<<String1(<<"o">>)>>)}
RowValues == {String1(<<>>), String1(<<"a">>), Number1} \cup (MCCatObjects \ {Object1(<<String1(<<"o">>)>>)})
MCRows == UNION {[1..m -> RowValues] : m \in 2..4}

MCStringHash == [c \in 1..4 |-> (c * 3) % 8]
==============================================================================
