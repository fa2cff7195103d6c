------------------------------ MODULE LuaState ------------------------------
(***************************************************************************)
(* The life of a Lua state (lstate.c): lua_newstate, which may run out of  *)
(* memory at any allocation, a program that makes userdata and coroutines, *)
(* and lua_close, whose finalizers may fail, make further objects, and     *)
(* collect garbage.  What is allocated is told from what the state has     *)
(* recorded of it: memory is freed with the recorded size.                 *)
(***************************************************************************)
EXTENDS Integers, Sequences, FiniteSets

CONSTANTS Userdata, Threads,  \* the objects that a program may make, each userdata once
          StackSizes          \* the sizes that stacks may get

ASSUME StateAssumption == Userdata \cap Threads = {} /\ StackSizes \subseteq Nat

VARIABLE life
(* mem: the allocator's blocks with their sizes; sizes: what the state has    *)
(* recorded of them; total: totalbytes; root: the userdata behind the main    *)
(* thread; made: all userdata, the newest first; withgc: those with __gc;     *)
(* finalized: FINALIZEDBIT; held: what the program refers to; running: the    *)
(* finalizers that run, one in another; calls: all that were called; owed:    *)
(* those that lua_close has to call.                                          *)

(* Sequences of objects, and sizes of blocks; a block of n bytes has n.       *)
Listed(s) == {s[k] : k \in 1..Len(s)}
Filtered(s, S) ==
  LET kept[n \in 0..Len(s)] ==
        IF n = 0 THEN <<>> ELSE IF s[n] \in S THEN Append(kept[n - 1], s[n]) ELSE kept[n - 1]
  IN kept[Len(s)]
With(f, b, n) == [x \in DOMAIN f \cup {b} |-> IF x = b THEN n ELSE f[x]]
Without(f, bs) == [x \in DOMAIN f \ bs |-> f[x]]
ByteCount(f) == Cardinality(UNION {{b} \X (1..f[b]) : b \in DOMAIN f})

LG == <<"main", "LG">>
Opening == << <<"main", "ci">>, <<"main", "stack">>, <<"globals", "object">>, <<"globals", "nodes">>,
              <<"registry", "object">>, <<"registry", "nodes">>, <<"strings", "hash">>,
              <<"event names", "object">>, <<"reserved words", "object">>, <<"memory message", "object">> >>

LifeStates == {[phase |-> "opening", opened |-> 0, mem |-> [b \in {LG} |-> 1], sizes |-> [b \in {} |-> 0],
                total |-> 1, root |-> <<>>, made |-> <<>>, tmudata |-> <<>>, withgc |-> {}, finalized |-> {},
                held |-> {}, running |-> <<>>, calls |-> <<>>, owed |-> <<>>]}

RecordedSize(l, b) == IF b \in DOMAIN l.sizes THEN l.sizes[b] ELSE 0
BlocksOf(l, objects) == {b \in DOMAIN l.sizes : b[1] \in objects}
Made(o) == <<o, "object">> \in DOMAIN life.sizes

(* luaM_realloc_, after which the new size is recorded. *)
luaM_realloc(l, b, n) ==
  [l EXCEPT !.mem = With(@, b, n), !.total = (@ - RecordedSize(l, b)) + n, !.sizes = With(@, b, n)]

(* luaM_free and luaM_freearray give the recorded sizes back. *)
luaM_free(l, bs) ==
  [l EXCEPT !.mem = Without(@, {b \in bs \cap DOMAIN @ : @[b] = RecordedSize(l, b)}),
            !.sizes = Without(@, bs),
            !.total = @ - ByteCount(Without(l.sizes, DOMAIN l.sizes \ bs))]

(* luaC_freeall frees what is in the lists of objects, in which userdata that *)
(* wait in tmudata are not.                                                   *)
close_state(l, phase) ==
  LET freed == luaM_free(l, {b \in DOMAIN l.sizes : b[1] \notin Listed(l.tmudata)})
  IN [freed EXCEPT !.mem = Without(@, {LG}), !.phase = phase]

(* One allocation after the other; one that fails closes what there is. *)
f_luaopen ==
  /\ life.phase = "opening"
  /\ LET l == [luaM_realloc(life, Opening[life.opened + 1], 1) EXCEPT !.opened = @ + 1]
     IN \/ life' = close_state(life, "none")
        \/ life' = IF l.opened = Len(Opening) THEN [l EXCEPT !.phase = "open"] ELSE l

------------------------------------------------------------------------------
(* The program runs until lua_close, and as finalizers afterwards. *)
Executing == life.phase = "open" \/ (life.phase = "closing" /\ life.running # <<>>)

(* Where memory runs out the program gets an error, which it may catch. *)
luaS_newudata(u, gc) ==
  /\ Executing /\ u \notin Listed(life.made)
  /\ life' = [luaM_realloc(life, <<u, "object">>, 1) EXCEPT
                !.root = <<u>> \o @, !.made = <<u>> \o @, !.held = @ \cup {u},
                !.withgc = IF gc THEN @ \cup {u} ELSE @]

(* A thread that is linked already may stay without its arrays. *)
luaE_newthread(t) ==
  LET object == luaM_realloc(life, <<t, "object">>, 1)
      frames == luaM_realloc(object, <<t, "ci">>, 1)
      stack == luaM_realloc(frames, <<t, "stack">>, 1)
  IN /\ Executing /\ ~Made(t)
     /\ life' \in {object, frames, [stack EXCEPT !.held = @ \cup {t}]}

luaD_reallocstack(t, n) ==
  /\ Executing
  /\ <<t, "stack">> \in DOMAIN life.sizes /\ life.sizes[<<t, "stack">>] # n
  /\ life' = luaM_realloc(life, <<t, "stack">>, n)

DropObject(o) ==
  /\ Executing /\ o \in life.held \ Listed(life.running)
  /\ life' = [life EXCEPT !.held = @ \ {o}]

(* luaC_separateudata. *)
Separated(l, all) ==
  LET found == {u \in Listed(l.root) : (all \/ u \notin l.held) /\ u \notin l.finalized}
      called == found \cap l.withgc
  IN [l EXCEPT !.tmudata = @ \o Filtered(l.root, called),
               !.root = Filtered(@, Userdata \ called),
               !.finalized = @ \cup found]

(* A full collection, up to its finalizers. *)
CollectAll ==
  /\ Executing
  /\ LET l == Separated(life, FALSE)
         dead == {o \in Listed(l.root) \cup Threads : o \notin l.held}
     IN life' = [luaM_free(l, BlocksOf(l, dead)) EXCEPT !.root = Filtered(@, Userdata \ dead)]

(* A userdata goes back to the root list before its finalizer is called. *)
CallGCTM ==
  /\ life.phase \in {"open", "closing"} /\ life.tmudata # <<>>
  /\ LET u == Head(life.tmudata)
     IN life' = [life EXCEPT !.tmudata = Tail(@), !.root = <<u>> \o @, !.running = Append(@, u),
                             !.held = @ \cup {u}, !.calls = Append(@, u)]

(* The finalizer may have stored its userdata somewhere. *)
FinalizerReturns ==
  /\ life.running # <<>>
  /\ \E kept \in BOOLEAN :
       life' = [life EXCEPT !.running = SubSeq(@, 1, Len(@) - 1),
                             !.held = IF kept THEN @ ELSE @ \ {life.running[Len(life.running)]}]

(* An error ends finalizers up to a protected call; in lua_close that is at   *)
(* last its own, which then calls the rest.                                   *)
Retried_never == "freeing"  \* mutant: one attempt
Retried == "closing"
FinalizerFails ==
  /\ life.running # <<>>
  /\ \E n \in 0..Len(life.running) - 1 :
       life' = [life EXCEPT !.running = SubSeq(@, 1, n),
                            !.held = @ \ Listed(SubSeq(life.running, n + 1, Len(life.running))),
                            !.phase = IF n = 0 /\ @ = "closing" THEN Retried ELSE @]

(* lua_close up to its loop, the end of the loop, and what follows it. *)
lua_close ==
  /\ life.phase = "open" /\ life.running = <<>>
  /\ LET waiting == {u \in life.withgc \ life.finalized : Made(u)}
     IN life' = [Separated(life, TRUE) EXCEPT !.phase = "closing",
                   !.owed = life.tmudata \o Filtered(life.made, waiting)]
AllCalled ==
  /\ life.phase = "closing" /\ life.running = <<>> /\ life.tmudata = <<>>
  /\ life' = [life EXCEPT !.phase = "freeing"]
FreeState == life.phase = "freeing" /\ life' = close_state(life, "closed")

LifeNext ==
  \/ f_luaopen \/ CollectAll \/ CallGCTM \/ FinalizerReturns \/ FinalizerFails
  \/ lua_close \/ AllCalled \/ FreeState
  \/ \E u \in Userdata : DropObject(u) \/ \E gc \in BOOLEAN : luaS_newudata(u, gc)
  \/ \E t \in Threads : luaE_newthread(t) \/ DropObject(t)
  \/ \E t \in Threads \cup {"main"}, n \in StackSizes : luaD_reallocstack(t, n)

LifeSpec == life \in LifeStates /\ [][LifeNext]_life

------------------------------------------------------------------------------
(* What is allocated is what the state knows of, whatever allocation failed. *)
MemoryAccounted ==
  LET known == Without(life.mem, {LG})
  IN known = life.sizes /\ (LG \in DOMAIN life.mem => life.total = 1 + ByteCount(known))

(* No finalizer is called twice; those that were due when lua_close began are *)
(* called, those of userdata in use in the reverse order of their creation,   *)
(* whatever errors other finalizers raised and whatever they made.            *)
Distinct(s) == \A j, k \in 1..Len(s) : s[j] = s[k] => j = k
Before(s, u, v) == \E j, k \in 1..Len(s) : j < k /\ s[j] = u /\ s[k] = v
FinalizersCalled ==
  /\ Distinct(life.calls)
  /\ life.phase = "closed" =>
       /\ Listed(life.owed) \subseteq Listed(life.calls)
       /\ \A u, v \in Listed(life.owed) : Before(life.owed, u, v) => Before(life.calls, u, v)

(* A state that is closed, or that could not be opened, leaves no memory      *)
(* behind and no finalizer uncalled (lua_newstate, lua_close).                *)
NothingLeft ==
  /\ MemoryAccounted
  /\ FinalizersCalled
  /\ life.phase \in {"closed", "none"} => DOMAIN life.mem = {}
==============================================================================
