-------------------------- MODULE LuaPatternMeaning --------------------------
(***************************************************************************)
(* What a pattern means, without the matcher's positions in the pattern,   *)
(* its backtracking and its undoing: the pattern is a sequence of parts,   *)
(* and all the ways in which they match a subject are listed in the order  *)
(* of preference.  The answer is the first way.                            *)
(***************************************************************************)
EXTENDS LuaStringLib
LOCAL INSTANCE SequencesExt

Way(res, cap) == <<[res |-> res, cap |-> cap]>>
Wrong == Way(Error, <<>>)

(* How many characters in a row from s on are in a set. *)
Run(src, s, set) ==
  CHOOSE n \in 0..Len(src) + 1 - s :
    /\ \A k \in s..s + n - 1 : src[k] \in set
    /\ s + n <= Len(src) => src[s + n] \notin set

Occurrences(src, from, to, x) == Cardinality({k \in from..to : src[k] = x})

(* Where the balanced text that starts at s ends. *)
Balanced(src, s, b, e) ==
  LET ends == {k \in s + 1..Len(src) :
                 /\ src[k] = e
                 /\ b = e \/ Occurrences(src, s, k, b) = Occurrences(src, s, k, e)}
  IN IF At(src, s) # b \/ ends = {} THEN {} ELSE {CHOOSE k \in ends : \A h \in ends : k <= h}

Open(cap) == {l \in DOMAIN cap : cap[l].len = CAP_UNFINISHED}

RECURSIVE Ways(_, _, _, _)
Ways(parts, src, s, cap) ==
  IF parts = <<>> THEN Way(s, cap)
  ELSE LET p == Head(parts)
           After(at, new) == Ways(Tail(parts), src, at, new)
           most == IF p.k = "item" THEN Run(src, s, p.set) ELSE 0
           Longest(least) == FlattenSeq([j \in 1..most + 1 - least |-> After(s + most + 1 - j, cap)])
       IN CASE p.k = "item" /\ p.q = "" -> IF most > 0 THEN After(s + 1, cap) ELSE <<>>
            [] p.k = "item" /\ p.q = "?" ->
                 (IF most > 0 THEN After(s + 1, cap) ELSE <<>>) \o After(s, cap)
            [] p.k = "item" /\ p.q = "*" -> Longest(0)
            [] p.k = "item" /\ p.q = "+" -> Longest(1)
            [] p.k = "item" /\ p.q = "-" -> FlattenSeq([j \in 1..most + 1 |-> After(s + j - 1, cap)])
            [] p.k \in {"open", "position"} ->
                 IF Len(cap) = LUA_MAXCAPTURES THEN Wrong
                 ELSE After(s, Append(cap, [init |-> s, len |-> IF p.k = "open" THEN CAP_UNFINISHED
                                                                ELSE CAP_POSITION]))
            [] p.k = "close" ->
                 IF Open(cap) = {} THEN Wrong
                 ELSE LET l == CHOOSE l \in Open(cap) : \A h \in Open(cap) : h <= l
                      IN After(s, [cap EXCEPT ![l].len = s - cap[l].init])
            [] p.k = "again" ->
                 IF p.n \notin DOMAIN cap \/ p.n \in Open(cap) THEN Wrong
                 ELSE LET len == cap[p.n].len
                          old == SubSeq(src, cap[p.n].init, cap[p.n].init + len - 1)
                      IN IF /\ len # CAP_POSITION /\ s + len <= Len(src) + 1
                            /\ SubSeq(src, s, s + len - 1) = old
                         THEN After(s + len, cap) ELSE <<>>
            [] p.k = "balance" ->
                 LET ends == Balanced(src, s, p.b, p.e)
                 IN IF ends = {} THEN <<>> ELSE After(1 + CHOOSE k \in ends : TRUE, cap)
            [] p.k = "frontier" ->
                 IF At(src, s - 1) \notin p.set /\ At(src, s) \in p.set THEN After(s, cap) ELSE <<>>
            [] p.k = "end" -> IF s = Len(src) + 1 THEN After(s, cap) ELSE <<>>
            [] p.k = "malformed" -> Wrong

(* The match at s that is preferred: its end and captures, if there is one. *)
Best(call, s) == LET w == Ways(call.parts, call.src, s, <<>>)
                 IN IF w = <<>> THEN Outcome(NULL, <<>>) ELSE Head(w)

------------------------------------------------------------------------------
(* The capture values a function hands over, or Error. *)
Values(call, s, m) ==
  LET whole == call.fn # "find" /\ call.fn # "gsub"
  IN IF m.cap = <<>> /\ whole THEN <<Text(SubSeq(call.src, s, m.res - 1))>>
     ELSE [l \in DOMAIN m.cap |->
             CASE m.cap[l].len = CAP_UNFINISHED -> NoCapture
               [] m.cap[l].len = CAP_POSITION -> Position(m.cap[l].init)
               [] OTHER -> Text(SubSeq(call.src, m.cap[l].init, m.cap[l].init + m.cap[l].len - 1))]

(* The first position from s on with a match, or where the pattern is found *)
(* to be wrong; none is past the end.                                       *)
Leftmost(call, s) ==
  LET at == {k \in s..Len(call.src) + 1 : Best(call, k).res # NULL /\ (Anchored(call) => k = s)}
  IN IF at = {} THEN Len(call.src) + 2 ELSE CHOOSE k \in at : \A h \in at : k <= h

Failed == [from |-> 0, to |-> Error, caps |-> <<>>]

(* All matches from s on, one after the other, at most n: an error ends them. *)
RECURSIVE AllMatches(_, _, _)
AllMatches(call, s, n) ==
  LET at == Leftmost(call, s)
      m == Best(call, at)
      values == Values(call, at, m)
      once == n = 1 \/ Anchored(call)
      next == IF m.res = at THEN at + 1 ELSE m.res
  IN IF n <= 0 \/ at > Len(call.src) + 1 THEN <<>>
     ELSE IF m.res = Error \/ (Bad(values) /\ call.fn # "gsub") THEN <<Failed>>
     ELSE <<[from |-> at, to |-> m.res, caps |-> values]>>
          \o (IF once THEN <<>> ELSE AllMatches(call, next, n - 1))

(* Where plain text first occurs. *)
PlainMatches(call) ==
  LET at == {k \in Start(call)..Len(call.src) + 1 - Len(call.pat) :
               SubSeq(call.src, k, k + Len(call.pat) - 1) = call.pat}
      k == CHOOSE k \in at : \A h \in at : k <= h
  IN IF at = {} THEN <<>> ELSE <<[from |-> k, to |-> k + Len(call.pat), caps |-> <<>>]>>

Expected(call) ==
  IF IsPlain(call) THEN PlainMatches(call)
  ELSE AllMatches(call, Start(call), CASE call.fn \in {"find", "match"} -> 1
                                       [] call.fn = "gmatch" -> Len(call.src) + 1
                                       [] call.fn = "gsub" -> call.max_s)

(* The subject with the matches replaced. *)
RECURSIVE Replaced(_, _, _, _)
Replaced(src, s, found, subs) ==
  IF found = <<>> THEN SubSeq(src, s, Len(src))
  ELSE SubSeq(src, s, Head(found).from - 1) \o Head(subs)
       \o Replaced(src, Head(found).to, Tail(found), Tail(subs))

------------------------------------------------------------------------------
(* The functions of lstrlib.c find what the pattern means: every match where *)
(* it is and with the captures it has, none skipped; they raise an error     *)
(* where the pattern is wrong and nowhere else.  gsub may also fail on what  *)
(* is given for a match.                                                     *)
FindsMeaning ==
  str.status # "run" =>
    LET expected == Expected(req)
        n == Len(str.found)
    IN \/ str.status = "done" /\ str.found = expected
       \/ str.status = "error" /\ Append(str.found, Failed) = expected
       \/ /\ str.status = "error" /\ req.fn = "gsub" /\ n < Len(expected)
          /\ str.found = SubSeq(expected, 1, n)

(* Matches come from left to right, do not overlap, and no two start at the *)
(* same place; gsub makes no more of them than asked for.                   *)
MatchesApart ==
  /\ \A k \in 1..Len(str.found) - 1 : /\ str.found[k].from < str.found[k + 1].from
                                      /\ str.found[k].to <= str.found[k + 1].from
  /\ req.fn = "gsub" => Len(str.found) <= req.max_s

(* gsub changes nothing but the matches, and loses and repeats nothing. *)
ReplacesOnly ==
  str.status = "done" /\ req.fn = "gsub" =>
    str.text = Replaced(req.src, 1, str.found, str.subs)

(* All of it: the string functions do what the pattern means (do_match and  *)
(* the loops of str_find_aux, gmatch_aux and str_gsub).                      *)
PatternsMean == FindsMeaning /\ MatchesApart /\ ReplacesOnly
==============================================================================
