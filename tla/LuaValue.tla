------------------------------ MODULE LuaValue ------------------------------
(***************************************************************************)
(* Values and the operations on them that lvm.c offers to the code it      *)
(* runs, for values without metatables: coercion, arithmetic, comparison,  *)
(* concatenation, length and access to tables.  An operation that raises   *)
(* an error gives Err.  A number is an integer or NaN.                     *)
(***************************************************************************)
EXTENDS Integers, SequencesExt

CONSTANTS Collation,     \* strings in the order of strcoll
          MaxNumeral     \* numbers that are recognised when read from a string

Nil == [t |-> "nil"]
Bool(b) == [t |-> "boolean", b |-> b]
Num(n) == [t |-> "number", n |-> n]
NaN == [t |-> "nan"]
Str(s) == [t |-> "string", s |-> s]
TableRef(id) == [t |-> "table", id |-> id]
Closure(id) == [t |-> "function", id |-> id]
CFunction(name) == [t |-> "cfunction", c |-> name]
Err == [t |-> "error"]

IsFalse(v) == v \in {Nil, Bool(FALSE)}
IsNumber(v) == v.t \in {"number", "nan"}
IsText(v) == v.t = "string" \/ IsNumber(v)

(* luaV_tonumber and luaV_tostring *)
ToNumber(v) == IF IsNumber(v) THEN v
               ELSE IF v.t = "string" /\ \E n \in 0..MaxNumeral : ToString(n) = v.s
               THEN Num(CHOOSE n \in 0..MaxNumeral : ToString(n) = v.s)
               ELSE Err

ToText(v) == CASE v.t = "number" -> ToString(v.n)
               [] v.t = "nan" -> "nan"
               [] OTHER -> v.s

NumArith(op, m, n) == CASE op = "ADD" -> m + n
                        [] op = "SUB" -> m - n
                        [] op = "MUL" -> m * n
                        [] op = "MOD" -> m - n * (m \div n)
                        [] op = "UNM" -> -m

Arith(op, v, w) ==
  LET a == ToNumber(v)
      b == ToNumber(w)
  IN IF Err \in {a, b} THEN Err
     ELSE IF NaN \in {a, b} \/ (op = "MOD" /\ b = Num(0)) THEN NaN
     ELSE Num(NumArith(op, a.n, b.n))

Equal(v, w) == v = w /\ v # NaN

StrLess(s, t) == \E i, j \in DOMAIN Collation : i < j /\ Collation[i] = s /\ Collation[j] = t

(* luaV_lessthan and lessequal *)
Order(v, w, num, str) ==
  IF IsNumber(v) /\ IsNumber(w) THEN Bool(NaN \notin {v, w} /\ num)
  ELSE IF v.t = "string" /\ w.t = "string" THEN Bool(str)
  ELSE Err
LessThan(v, w) == Order(v, w, v.n < w.n, StrLess(v.s, w.s))
LessEqual(v, w) == Order(v, w, v.n <= w.n, ~StrLess(w.s, v.s))

(* luaV_concat: from the right, two at a time. *)
ConcatAll(vs) ==
  FoldRight(LAMBDA v, acc : IF acc # Err /\ IsText(v) /\ IsText(acc)
                            THEN Str(ToText(v) \o ToText(acc)) ELSE Err,
            Front(vs), Last(vs))

(* A table maps its keys to values that are not nil. *)
Get(tables, v, key) ==
  IF v.t # "table" THEN Err
  ELSE IF key \in DOMAIN tables[v.id] THEN tables[v.id][key] ELSE Nil

Put(h, key, val) == [k \in (DOMAIN h \cup {key}) \ (IF val = Nil THEN {key} ELSE {}) |->
                       IF k = key THEN val ELSE h[k]]

CanSet(v, key) == v.t = "table" /\ key \notin {Nil, NaN}

(* luaH_getn, for a table without holes *)
Border(h) == CHOOSE n \in 0..Cardinality(DOMAIN h) :
               /\ n > 0 => Num(n) \in DOMAIN h
               /\ Num(n + 1) \notin DOMAIN h

LengthOf(tables, v) == CASE v.t = "table" -> Num(Border(tables[v.id]))
                         [] v.t = "string" -> Num(Len(v.s))
                         [] OTHER -> Err

------------------------------------------------------------------------------
(* The host's functions: f records its arguments and returns them, c is     *)
(* true at every third call, coin calls after the first, and n counts up to *)
(* a limit.                                                                 *)
Host(c, args, log, coin) ==
  LET tosses == Len(SelectSeq(log, LAMBDA l : l.c = "c"))
      entry == Append(log, [c |-> c, args |-> args])
      arg(j) == IF j \in DOMAIN args THEN args[j] ELSE Nil
  IN CASE c = "f" -> [rs |-> args, log |-> entry]
       [] c = "c" -> [rs |-> <<Bool(tosses % 3 = coin)>>, log |-> entry]
       [] c = "n" -> [rs |-> IF arg(2).n < arg(1).n THEN <<Num(arg(2).n + 1), arg(1)>>
                             ELSE <<Nil>>, log |-> entry]

HostGlobals == [g \in {Str("f"), Str("c"), Str("n")} |-> CFunction(g.s)]
==============================================================================
