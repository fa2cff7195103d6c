--------------------------- MODULE LuaStringTable ---------------------------
(***************************************************************************)
(* The table of interned strings (lstring.c) and the collector's phases as *)
(* far as they concern it (lgc.c): strings are looked up, made and         *)
(* rehashed while the collector marks and sweeps the same chains.  That    *)
(* what the program holds is marked before the sweep is LuaGC's subject,   *)
(* here atomic marks it.                                                   *)
(***************************************************************************)
EXTENDS Integers, Sequences, FiniteSets

CONSTANTS Contents,      \* the strings by what they say
          StringHash,    \* their hash values
          MINSTRTABSIZE

ASSUME StringsAssumption == MINSTRTABSIZE \in Nat \ {0} /\ StringHash \in [Contents -> Nat]

VARIABLE strt  \* held: the strings that the program holds

Whites == {0, 1}
Gray == 2  \* no white bit, as stringmark leaves a string

StrtStates == {[hash |-> [h \in 0..MINSTRTABSIZE - 1 |-> <<>>], nuse |-> 0, held |-> {},
                white |-> 0, phase |-> "pause", sweepstrgc |-> 0]}

Size(st) == Cardinality(DOMAIN st.hash)
Chain(st, c) == StringHash[c] % Size(st)
otherwhite == 1 - strt.white
isdead(s) == s.marked = otherwhite
ChainOf(h) == {strt.hash[h][k] : k \in DOMAIN strt.hash[h]}
AllStrings == UNION {ChainOf(h) : h \in DOMAIN strt.hash}

(* luaS_resize puts every string in front of its new chain, one old chain    *)
(* after the other, unless the chains are just being swept.                  *)
InFront(new, s) == [new EXCEPT ![StringHash[s.c] % Cardinality(DOMAIN new)] = <<s>> \o @]
Rechained(new, chain) ==
  LET upto[k \in 0..Len(chain)] == IF k = 0 THEN new ELSE InFront(upto[k - 1], chain[k])
  IN upto[Len(chain)]
Rehashed(old, newsize) ==
  LET upto[h \in 0..Cardinality(DOMAIN old)] ==
        IF h = 0 THEN [i \in 0..newsize - 1 |-> <<>>] ELSE Rechained(upto[h - 1], old[h - 1])
  IN upto[Cardinality(DOMAIN old)]
luaS_resize(st, newsize) ==
  IF st.phase = "sweepstring" THEN st ELSE [st EXCEPT !.hash = Rehashed(@, newsize)]

(* newlstr: a string of the current white in front of its chain.             *)
Linked(c) == [strt EXCEPT !.hash = InFront(@, [c |-> c, marked |-> strt.white]), !.nuse = @ + 1]
Crowded(st) == st.nuse > Size(st)
newlstr(c) == IF Crowded(Linked(c)) THEN luaS_resize(Linked(c), 2 * Size(strt)) ELSE Linked(c)

(* luaS_newlstr: a string that is found may be dead and not yet swept. *)
Reused_dead(s) == s  \* mutant
Reused(s) == IF isdead(s) THEN [s EXCEPT !.marked = strt.white] ELSE s
Places(c) == LET chain == strt.hash[Chain(strt, c)] IN {k \in DOMAIN chain : chain[k].c = c}
Least(places) == CHOOSE k \in places : \A j \in places : k <= j
luaS_newlstr(c) ==
  LET st == IF Places(c) = {} THEN newlstr(c)
            ELSE [strt EXCEPT !.hash[Chain(strt, c)][Least(Places(c))] = Reused(@)]
  IN strt' = [st EXCEPT !.held = @ \cup {c}]

(* There is no memory to resize the table with: an error, but the string is  *)
(* in its chain already.                                                     *)
ResizeFails(c) ==
  Places(c) = {} /\ Crowded(Linked(c)) /\ strt.phase # "sweepstring" /\ strt' = Linked(c)

(* The program's last reference goes away. *)
DropString(c) == c \in strt.held /\ strt' = [strt EXCEPT !.held = @ \ {c}]

------------------------------------------------------------------------------
WithMarks(cs) == [h \in DOMAIN strt.hash |-> [k \in DOMAIN strt.hash[h] |->
                   IF strt.hash[h][k].c \in cs THEN [strt.hash[h][k] EXCEPT !.marked = Gray] ELSE strt.hash[h][k]]]

StartCycle == strt.phase = "pause" /\ strt' = [strt EXCEPT !.phase = "propagate"]

(* reallymarkobject: a string that propagation has come to. *)
MarkString(c) == strt.phase = "propagate" /\ c \in strt.held /\ strt' = [strt EXCEPT !.hash = WithMarks({c})]

(* atomic: the rest is marked and the whites change their roles. *)
AtomicStrings == /\ strt.phase = "propagate"
                 /\ strt' = [strt EXCEPT !.hash = WithMarks(strt.held), !.white = otherwhite,
                                         !.phase = "sweepstring", !.sweepstrgc = 0]

(* luaC_fullgc starts a sweep without a mark phase: nothing is dead in it. *)
FullSweep == /\ strt.phase \in {"pause", "propagate"}
             /\ strt' = [strt EXCEPT !.phase = "sweepstring", !.sweepstrgc = 0]

SweptAll == strt.sweepstrgc + 1 >= Size(strt)

(* sweepwholelist for one chain: the dead are freed, the others made white. *)
sweepwholelist(chain) ==
  LET upto[k \in 0..Len(chain)] ==
        IF k = 0 THEN <<>> ELSE IF isdead(chain[k]) THEN upto[k - 1]
        ELSE Append(upto[k - 1], [chain[k] EXCEPT !.marked = strt.white])
  IN upto[Len(chain)]
SweepChain ==
  /\ strt.phase = "sweepstring"
  /\ LET chain == strt.hash[strt.sweepstrgc]
         kept == sweepwholelist(chain)
     IN strt' = [strt EXCEPT !.hash[strt.sweepstrgc] = kept,
                             !.nuse = @ - (Len(chain) - Len(kept)),
                             !.sweepstrgc = @ + 1,
                             !.phase = IF SweptAll THEN "sweep" ELSE @]

(* The end of the sweep of the other objects: checkSizes, once there is      *)
(* memory for it.                                                            *)
CheckSizes == /\ strt.phase = "sweep"
              /\ strt' = [(IF strt.nuse < Size(strt) \div 4 /\ Size(strt) > MINSTRTABSIZE * 2
                           THEN luaS_resize(strt, Size(strt) \div 2) ELSE strt) EXCEPT !.phase = "pause"]

StrtNext == \/ \E c \in Contents : luaS_newlstr(c) \/ ResizeFails(c) \/ DropString(c) \/ MarkString(c)
            \/ StartCycle \/ AtomicStrings \/ FullSweep \/ SweepChain \/ CheckSizes
StrtSpec == strt \in StrtStates /\ [][StrtNext]_strt

------------------------------------------------------------------------------
(* Strings are compared by address: at any time there is at most one string  *)
(* with a content, one that is held is there, in the chain where it will be  *)
(* looked for, and the count is right, so that the table grows and shrinks.  *)
Interned ==
  /\ strt.nuse = Cardinality(AllStrings)
  /\ \A h \in DOMAIN strt.hash : \A k \in DOMAIN strt.hash[h] :
       LET s == strt.hash[h][k] IN
       /\ Chain(strt, s.c) = h
       /\ \A g \in DOMAIN strt.hash : \A j \in DOMAIN strt.hash[g] :
            strt.hash[g][j].c = s.c => g = h /\ j = k
  /\ strt.held \subseteq {s.c : s \in AllStrings}

(* The sweep leaves out no string: outside it there are no dead ones, and    *)
(* what is held is never dead while the sweep goes on, but for what is       *)
(* already behind it.                                                        *)
SweptClean ==
  /\ strt.phase \in {"pause", "sweep"} => \A s \in AllStrings : s.marked = strt.white
  /\ strt.phase = "propagate" => \A s \in AllStrings : ~isdead(s)
  /\ \A s \in AllStrings : s.c \in strt.held => ~isdead(s)

(* Both: one string for a content, whenever the collector stands. *)
InternedOnce == Interned /\ SweptClean
==============================================================================
