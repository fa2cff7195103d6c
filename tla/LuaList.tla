------------------------------- MODULE LuaList -------------------------------
(***************************************************************************)
(* table.insert and table.remove of ltablib.c on a table with integer keys,*)
(* whose length is any border it has.                                      *)
(***************************************************************************)
EXTENDS Integers, Sequences, FiniteSets

CONSTANTS ListValues, MaxKey  \* bound: the largest key

VARIABLE lst

None == "nil"
Keys == 0..MaxKey

ASSUME ListAssumption == MaxKey \in Nat /\ None \notin ListValues

(* aux_getn: any n such that t[n] is there and t[n + 1] is not. *)
Borders(t) == {n \in 0..MaxKey - 1 : (n = 0 \/ t[n] # None) /\ t[n + 1] = None}

ListStates == {[t |-> [k \in Keys |-> None], op |-> "new", pos |-> 0, n |-> 0, v |-> None]}

Entered(op, t, pos, n, v) == lst' = [t |-> t, op |-> op, pos |-> pos, n |-> n, v |-> v]

(* tinsert: what is above the position moves up, from the end. *)
MovedUp_forward(t, e, pos) == [k \in Keys |-> IF pos < k /\ k <= e THEN t[pos] ELSE t[k]]  \* mutant
MovedUp(t, e, pos) == [k \in Keys |-> IF pos < k /\ k <= e THEN t[k - 1] ELSE t[k]]
tinsert(pos, v) ==
  \E n \in Borders(lst.t) :
    LET e == IF pos > n + 1 THEN pos ELSE n + 1
    IN Entered("insert", [MovedUp(lst.t, e, pos) EXCEPT ![pos] = v], pos, n, v)

(* tinsert with two arguments. *)
InsertLast(v) == \E n \in Borders(lst.t) : Entered("insert", [lst.t EXCEPT ![n + 1] = v], n + 1, n, v)

(* tremove: what is above moves down; nothing is outside 1..e to remove. *)
tremove(pos) ==
  \E e \in Borders(lst.t) :
    /\ pos \in 1..e
    /\ Entered("remove", [k \in Keys |-> IF k = e THEN None ELSE IF pos <= k /\ k < e THEN lst.t[k + 1]
                                         ELSE lst.t[k]], pos, e, lst.t[pos])

(* t[k] = v by the program, which may leave holes. *)
Assign(k, v) == Entered("assign", [lst.t EXCEPT ![k] = v], k, 0, v)

ListNext == \/ \E v \in ListValues : \/ InsertLast(v)
                                     \/ \E pos \in 0..MaxKey : tinsert(pos, v)
            \/ \E pos \in 1..MaxKey : tremove(pos)
            \/ \E k \in Keys : \E v \in ListValues \cup {None} : Assign(k, v)
ListSpec == lst \in ListStates /\ [][ListNext]_lst

------------------------------------------------------------------------------
Count(t, v) == Cardinality({k \in Keys : t[k] = v})
Sequence(t, n) == [k \in 1..n |-> t[k]]

(* A step of insert keeps everything and adds one element; a step of remove *)
(* takes out one; in tables with holes too, whichever border was taken.     *)
(* Only inserting far beyond the end can replace an element.                *)
ListChanges ==
  \A v \in ListValues :
    /\ lst'.op = "insert" /\ lst'.pos \in 1..lst'.n + 1 =>
         Count(lst'.t, v) = Count(lst.t, v) + (IF v = lst'.v THEN 1 ELSE 0)
    /\ lst'.op = "remove" => Count(lst'.t, v) = Count(lst.t, v) - (IF v = lst'.v THEN 1 ELSE 0)

(* The others keep their order. *)
OrderKept ==
  /\ lst'.op = "insert" /\ lst'.pos \in 1..lst'.n + 1 =>
       Sequence(lst'.t, lst'.n + 1) = SubSeq(Sequence(lst.t, lst'.n), 1, lst'.pos - 1) \o <<lst'.v>>
                                     \o SubSeq(Sequence(lst.t, lst'.n), lst'.pos, lst'.n)
  /\ lst'.op = "remove" =>
       Sequence(lst'.t, lst'.n - 1) = SubSeq(Sequence(lst.t, lst'.n), 1, lst'.pos - 1)
                                     \o SubSeq(Sequence(lst.t, lst'.n), lst'.pos + 1, lst'.n)
ListKeeps == [][ListChanges /\ OrderKept]_lst
==============================================================================
