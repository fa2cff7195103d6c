------------------------------ MODULE LuaConcat ------------------------------
(***************************************************************************)
(* luaV_concat of lvm.c: a row of values on the stack is concatenated from *)
(* the right, as many strings at once as there are, two at a time where a  *)
(* metamethod takes part.  One step is one pass of its loop.               *)
(***************************************************************************)
EXTENDS Integers, Sequences

CONSTANTS CatCharacters,  \* what texts consist of
          CatObjects,     \* values that are neither strings nor numbers
          Rows            \* the rows of values that are concatenated

VARIABLE cat

(* Values: strings, numbers with their numeral, and objects; tm is what the *)
(* __concat of an object gives, if it has one.                              *)
IsText(v) == v.k \in {"string", "number"}
AsString(v) == [k |-> "string", text |-> v.text]
Refused == [k |-> "error"]

Operands == [k : {"string", "number"}, text : Seq(CatCharacters)] \cup CatObjects

ASSUME ConcatAssumption ==
  /\ \A o \in CatObjects : o.k = "object" /\ (o.tm = <<>> \/ o.tm[1] \in Operands)
  /\ \A r \in Rows : r \in Seq(Operands) /\ r # <<>>

(* call_binTM: the first operand's metamethod, or the second's. *)
call_binTM_second(p1, p2) ==  \* mutant
  IF p2.k = "object" /\ p2.tm # <<>> THEN p2.tm[1]
  ELSE IF p1.k = "object" /\ p1.tm # <<>> THEN p1.tm[1] ELSE Refused
call_binTM(p1, p2) ==
  IF p1.k = "object" /\ p1.tm # <<>> THEN p1.tm[1]
  ELSE IF p2.k = "object" /\ p2.tm # <<>> THEN p2.tm[1] ELSE Refused

CatStates == {[row |-> r, left |-> r, status |-> "run"] : r \in Rows}

Total == Len(cat.left)
Last(k) == cat.left[Total + 1 - k]  \* top - k

(* How many values from the right are strings or numbers. *)
TextsFrom(vs) == CHOOSE n \in 0..Len(vs) : /\ \A k \in Len(vs) - n + 1..Len(vs) : IsText(vs[k])
                                           /\ n < Len(vs) => ~IsText(vs[Len(vs) - n])
(* The texts of the last n, one after the other. *)
Joined(vs, n) ==
  LET text[k \in 0..n] == IF k = 0 THEN <<>> ELSE vs[Len(vs) + 1 - k].text \o text[k - 1]
  IN text[n]

(* The last n values give way to v. *)
Replace(n, v) == [cat EXCEPT !.left = Append(SubSeq(@, 1, Total - n), v)]

ConcatPass ==
  /\ cat.status = "run"
  /\ LET n == TextsFrom(cat.left)
     IN IF Total = 1 THEN cat' = [cat EXCEPT !.status = "done"]
        ELSE IF ~IsText(Last(2)) \/ ~IsText(Last(1))
        THEN LET v == call_binTM(Last(2), Last(1))
             IN cat' = IF v = Refused THEN [cat EXCEPT !.status = "error"] ELSE Replace(2, v)
        ELSE IF Last(1).text = <<>> THEN cat' = Replace(2, AsString(Last(2)))
        ELSE cat' = Replace(n, [k |-> "string", text |-> Joined(cat.left, n)])

CatNext == ConcatPass
CatSpec == cat \in CatStates /\ [][CatNext]_cat

------------------------------------------------------------------------------
(* What a .. b .. c means: .. is right associative. *)
Two(l, r) ==
  IF l = Refused \/ r = Refused THEN Refused
  ELSE IF IsText(l) /\ IsText(r) THEN [k |-> "string", text |-> l.text \o r.text]
  ELSE IF l.k = "object" /\ l.tm # <<>> THEN l.tm[1]
  ELSE IF r.k = "object" /\ r.tm # <<>> THEN r.tm[1] ELSE Refused
ConcatMeaning(vs) ==
  LET last == Len(vs) - 1
      of[k \in 0..last] == IF k = 0 THEN vs[Len(vs)] ELSE Two(vs[Len(vs) - k], of[k - 1])
  IN of[last]

(* Whatever luaV_concat takes at once, what is left on the stack still has *)
(* the meaning of the whole, to the end.                                   *)
ConcatAgrees ==
  IF cat.status = "error" THEN ConcatMeaning(cat.row) = Refused
  ELSE ConcatMeaning(cat.left) = ConcatMeaning(cat.row)
==============================================================================
