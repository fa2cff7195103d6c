----------------------------- MODULE Coroutines -----------------------------
(***************************************************************************)
(* What coroutines promise the program: one of them runs, each that has    *)
(* resumed another waits for it, control comes back to the resumer by a    *)
(* yield or by the end of the coroutine, and an ended one stays ended.     *)
(***************************************************************************)
CONSTANTS Coroutine, Main

VARIABLES
  state,   \* "none", "suspended", "running", "normal" or "dead"
  waits    \* the pairs of a coroutine that has resumed another and that other

vars == <<state, waits>>

Init ==
  /\ state = [c \in Coroutine |-> IF c = Main THEN "running" ELSE "none"]
  /\ waits = {}

Create(c) ==
  /\ state[c] = "none"
  /\ state' = [state EXCEPT ![c] = "suspended"]
  /\ UNCHANGED waits

(* The running coroutine r resumes c. *)
Resume(r, c) ==
  /\ state[r] = "running" /\ state[c] = "suspended"
  /\ state' = [state EXCEPT ![r] = "normal", ![c] = "running"]
  /\ waits' = waits \cup {<<r, c>>}

(* The running coroutine c yields, returns or fails: r, which resumed it,    *)
(* goes on.                                                                  *)
GiveBack(r, c) ==
  /\ state[c] = "running" /\ <<r, c>> \in waits
  /\ \E end \in {"suspended", "dead"} :
       state' = [state EXCEPT ![c] = end, ![r] = "running"]
  /\ waits' = waits \ {<<r, c>>}

(* A coroutine is dropped because it cannot be started. *)
Drop(c) ==
  /\ state[c] = "suspended"
  /\ state' = [state EXCEPT ![c] = "dead"]
  /\ UNCHANGED waits

Next ==
  \/ \E c \in Coroutine : Create(c) \/ Drop(c)
  \/ \E r, c \in Coroutine : Resume(r, c) \/ GiveBack(r, c)

Spec == Init /\ [][Next]_vars
=============================================================================
