------------------------------ MODULE LuaSort ------------------------------
(***************************************************************************)
(* table.sort of ltablib.c.  The order function is the program's: each     *)
(* step runs auxsort up to its next comparison and what follows from the   *)
(* answer, so that the steps are the moments at which it is called.        *)
(***************************************************************************)
EXTENDS Integers, Sequences, FiniteSets

CONSTANTS Sorts  \* the calls: n, and the order's rank of each element, <<>> for what is no order

ASSUME SortsAssumption ==
  \A c \in Sorts : c.n \in Nat /\ (c.rank = <<>> \/ c.rank \in [1..c.n -> Int])

VARIABLE srt

Absent == 0
Elements(n) == 1..n
(* The array part that is read, with the positions next to it. *)
InitialArray(n) == [k \in 0..n + 1 |-> IF k \in Elements(n) THEN k ELSE Absent]

SortStates(calls) ==
  {[call |-> c, a |-> InitialArray(c.n), l |-> 1, u |-> c.n, i |-> 0, j |-> 0, p |-> Absent,
    stack |-> <<>>, pc |-> "ends", status |-> "run"] : c \in calls}

size == srt.call.n
arr == srt.a
Swap_copied(x, y) == [arr EXCEPT ![x] = arr[y]]  \* mutant
Swap(x, y) == [arr EXCEPT ![x] = arr[y], ![y] = arr[x]]

(* sort_comp calls the order function; one that is no order may answer *)
(* anything, and it is given nil beyond the ends of the array.         *)
Consistent == srt.call.rank # <<>>
sort_comp(x, y) == {less \in BOOLEAN : Consistent => (less <=> srt.call.rank[x] < srt.call.rank[y])}

AtLabel(label) == srt.status = "run" /\ srt.pc = label
InvalidOrder == srt' = [srt EXCEPT !.status = "error"]

(* The end of an activation of auxsort: back in the caller, whose loop goes *)
(* on with the larger part.                                                 *)
Return(array) ==
  IF srt.stack = <<>> THEN srt' = [srt EXCEPT !.a = array, !.status = "done"]
  ELSE LET part == srt.stack[Len(srt.stack)]
       IN srt' = [srt EXCEPT !.a = array, !.l = part.l, !.u = part.u,
                             !.stack = SubSeq(srt.stack, 1, Len(srt.stack) - 1), !.pc = "ends"]

(* while (l < u): the ends are compared first. *)
SortEnds ==
  /\ AtLabel("ends")
  /\ IF srt.l >= srt.u THEN Return(arr)
     ELSE \E less \in sort_comp(arr[srt.u], arr[srt.l]) :
            LET b == IF less THEN Swap(srt.l, srt.u) ELSE arr
            IN IF srt.u - srt.l = 1 THEN Return(b)
               ELSE srt' = [srt EXCEPT !.a = b, !.i = (srt.l + srt.u) \div 2, !.pc = "low"]

(* Three elements are sorted now; of more, the middle one becomes the pivot *)
(* and goes to u - 1.                                                       *)
Partition(b, pivot) == srt' = [srt EXCEPT !.a = b, !.p = pivot, !.i = srt.l + 1, !.j = srt.u - 1, !.pc = "up"]
Pivot_unmoved(b) == IF srt.u - srt.l = 2 THEN Return(b) ELSE Partition(b, b[srt.i])  \* mutant
Pivot(b) ==
  IF srt.u - srt.l = 2 THEN Return(b)
  ELSE Partition([b EXCEPT ![srt.i] = b[srt.u - 1], ![srt.u - 1] = b[srt.i]], b[srt.i])

SortLow ==
  /\ AtLabel("low")
  /\ \E less \in sort_comp(arr[srt.i], arr[srt.l]) :
       IF less THEN Pivot(Swap(srt.i, srt.l)) ELSE srt' = [srt EXCEPT !.pc = "high"]

SortHigh ==
  /\ AtLabel("high")
  /\ \E less \in sort_comp(arr[srt.u], arr[srt.i]) : Pivot(IF less THEN Swap(srt.i, srt.u) ELSE arr)

(* while a[i] < P: i goes up. *)
SortUp ==
  /\ AtLabel("up")
  /\ \E less \in sort_comp(arr[srt.i], srt.p) :
       IF ~less THEN srt' = [srt EXCEPT !.j = srt.j - 1, !.pc = "down"]
       ELSE IF srt.i > srt.u THEN InvalidOrder
       ELSE srt' = [srt EXCEPT !.i = srt.i + 1]

(* The part that auxsort calls itself for, and the part its loop goes on with. *)
Smaller_left(i) == [l |-> srt.l, u |-> i - 1]  \* mutant
Smaller(i) == IF i - srt.l < srt.u - i THEN [l |-> srt.l, u |-> i - 1] ELSE [l |-> i + 1, u |-> srt.u]
Larger(i) == IF Smaller(i).l = srt.l THEN [l |-> i + 1, u |-> srt.u] ELSE [l |-> srt.l, u |-> i - 1]

(* while P < a[j]: j goes down; where the two have crossed the pivot takes *)
(* its place between the parts.                                            *)
SortDown ==
  /\ AtLabel("down")
  /\ \E less \in sort_comp(srt.p, arr[srt.j]) :
       IF less THEN IF srt.j < srt.l THEN InvalidOrder ELSE srt' = [srt EXCEPT !.j = srt.j - 1]
       ELSE IF srt.j >= srt.i THEN srt' = [srt EXCEPT !.a = Swap(srt.i, srt.j), !.i = srt.i + 1, !.pc = "up"]
       ELSE srt' = [srt EXCEPT !.a = Swap(srt.u - 1, srt.i), !.l = Smaller(srt.i).l, !.u = Smaller(srt.i).u,
                               !.stack = Append(srt.stack, Larger(srt.i)), !.pc = "ends"]

SortNext == SortEnds \/ SortLow \/ SortHigh \/ SortUp \/ SortDown
SortSpec == srt \in SortStates(Sorts) /\ [][SortNext]_srt

------------------------------------------------------------------------------
rank(x) == srt.call.rank[x]

(* table.sort with an order sorts: afterwards no element is less than one  *)
(* before it.                                                              *)
Sorted == srt.status = "done" /\ Consistent =>
            \A x \in 1..size : \A y \in x + 1..size : rank(arr[x]) <= rank(arr[y])

(* No element is lost or doubled, not even between two comparisons and not *)
(* by an order function that answers anything.                             *)
NothingLost == \A e \in Elements(size) : Cardinality({k \in DOMAIN arr : arr[k] = e}) = 1

(* The pointers stay next to the part being sorted, whatever the order      *)
(* function answers; an order is never asked about what is not in the array *)
(* and never called invalid.                                                *)
PointersBounded ==
  /\ srt.pc \in {"up", "down"} => srt.i <= srt.u + 1 /\ srt.j >= srt.l - 1
  /\ Consistent => /\ srt.status # "error"
                   /\ srt.pc \in {"up", "down"} => srt.i \in 1..size /\ (srt.pc = "down" => srt.j \in 1..size)
                   /\ \A k \in (DOMAIN arr) \ Elements(size) : arr[k] = Absent

(* auxsort calls itself for the smaller part only, which is why sort's *)
(* luaL_checkstack is enough: a part at depth d has at most n / 2^d.   *)
DepthLogarithmic == (srt.u - srt.l + 1) * 2 ^ Len(srt.stack) <= size

(* Both: auxsort stays within the array and within the C stack. *)
AuxsortBounded == PointersBounded /\ DepthLogarithmic
==============================================================================
