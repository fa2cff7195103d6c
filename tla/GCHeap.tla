------------------------------- MODULE GCHeap -------------------------------
(***************************************************************************)
(* What a garbage collector promises the program that runs over it.  The   *)
(* heap is a graph of allocated objects with roots.  The program extends   *)
(* it with new objects and rearranges what it can reach; the collector     *)
(* frees objects the program cannot reach, and hands it an unreachable     *)
(* object back only to finalize it.                                        *)
(***************************************************************************)
CONSTANTS
  Object,
  Revivable,    \* objects found again without a reference (interned strings)
  Finalizable   \* objects that have finalizers

VARIABLES objs, refs, roots

vars == <<objs, refs, roots>>

(* The objects reachable from R: the least closed set. *)
ReachFrom(R) ==
  LET closed == {S \in {(R \cap objs) \cup X : X \in SUBSET (objs \ R)} :
                   \A o \in S : refs[o] \cap objs \subseteq S}
  IN {o \in objs : \A S \in closed : o \in S}

Reach == ReachFrom(roots)

Init ==
  /\ objs \subseteq Object
  /\ refs \in [Object -> SUBSET Object]
  /\ roots \subseteq objs
  /\ Reach = objs

(* The program may end up reaching what it reached before, what it has just *)
(* allocated and what can be found without a reference.                     *)
Mutate ==
  /\ objs \subseteq objs'
  /\ roots' \subseteq objs'
  /\ \E revived \in SUBSET (objs \cap Revivable) :
       Reach' \subseteq Reach \cup (objs' \ objs) \cup ReachFrom(revived)

(* The collector frees some of the garbage and may clear weak references. *)
Collect ==
  /\ objs' \subseteq objs
  /\ Reach \subseteq objs'
  /\ roots' = roots
  /\ Reach' \subseteq Reach

(* An unreachable object is handed to its finalizer. *)
Finalize(o) ==
  /\ o \in objs \cap Finalizable
  /\ objs' = objs
  /\ roots' = roots
  /\ Reach' \subseteq Reach \cup ReachFrom({o})

Next == Mutate \/ Collect \/ \E o \in Finalizable : Finalize(o)

Spec == Init /\ [][Next]_vars
=============================================================================
