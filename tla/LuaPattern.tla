----------------------------- MODULE LuaPattern -----------------------------
(***************************************************************************)
(* The pattern matcher of lstrlib.c.  A string is a sequence of characters *)
(* and a pointer into it a position; a pattern's pointer past the end      *)
(* reads the terminating zero.  The captures of the match state ms are     *)
(* changed in place by the recursive functions and undone when what        *)
(* follows does not match, so every function returns them with its result: *)
(* where the match ends, NULL, or Error when luaL_error was raised.        *)
(***************************************************************************)
EXTENDS Integers, Sequences, FiniteSets

CONSTANTS LUA_MAXCAPTURES, \* captures of one match
          Characters       \* the characters that occur, in the order of their codes

Zero == "\\0"
NULL == 0
Error == -1
CAP_UNFINISHED == -1
CAP_POSITION == -2

At(s, i) == IF i \in DOMAIN s THEN s[i] ELSE Zero
uchar(c) == CHOOSE n \in DOMAIN Characters : Characters[n] = c

(* ctype.h, for the characters that occur. *)
Lower == {"a", "b", "c", "d", "z"}
Upper == {"A", "B", "D"}
Digits == {"0", "1", "2", "3"}
tolower(c) == CASE c = "A" -> "a" [] c = "B" -> "b" [] c = "D" -> "d" [] OTHER -> c
Members(class) ==
  CASE class = "a" -> Lower \cup Upper
    [] class = "d" -> Digits
    [] class = "z" -> {Zero}

Outcome(res, cap) == [res |-> res, cap |-> cap]
Undone_kept(cap, m) == m.cap  \* mutant
Undone(cap, m) == SubSeq(m.cap, 1, Len(m.cap) - 1)

------------------------------------------------------------------------------
(* check_capture: the index of a closed capture, or Error. *)
check_capture(cap, digit) ==
  LET l == CASE digit = "0" -> 0 [] digit = "1" -> 1 [] digit = "2" -> 2 [] digit = "3" -> 3
  IN IF l \in DOMAIN cap /\ cap[l].len # CAP_UNFINISHED THEN l ELSE Error

(* capture_to_close: the innermost open capture, or Error. *)
capture_to_close(cap) ==
  LET open == {l \in DOMAIN cap : cap[l].len = CAP_UNFINISHED}
  IN IF open = {} THEN Error ELSE CHOOSE l \in open : \A k \in open : k <= l

(* classend: past the single character or class at p; the first character of *)
(* a set is taken even if it is a bracket.                                   *)
RECURSIVE SetEnd(_, _)
SetEnd(pat, p) ==
  IF At(pat, p) = Zero THEN Error
  ELSE LET q == IF At(pat, p) = "%" /\ At(pat, p + 1) # Zero THEN p + 2 ELSE p + 1
       IN IF At(pat, q) = "]" THEN q + 1 ELSE SetEnd(pat, q)
classend(pat, p) ==
  CASE At(pat, p) = "%" -> IF At(pat, p + 1) = Zero THEN Error ELSE p + 2
    [] At(pat, p) = "[" -> SetEnd(pat, IF At(pat, p + 1) = "^" THEN p + 2 ELSE p + 1)
    [] OTHER -> p + 1

match_class(c, cl) ==
  IF tolower(cl) \notin {"a", "d", "z"} THEN cl = c
  ELSE (c \in Members(tolower(cl))) <=> (cl \in Lower)

(* matchbracketclass: the set that opens at p and closes at ec. *)
RECURSIVE InSet(_, _, _, _)
InSet(c, pat, p, ec) ==
  /\ p < ec
  /\ IF At(pat, p) = "%"
     THEN match_class(c, At(pat, p + 1)) \/ InSet(c, pat, p + 2, ec)
     ELSE IF At(pat, p + 1) = "-" /\ p + 2 < ec
     THEN \/ uchar(pat[p]) <= uchar(c) /\ uchar(c) <= uchar(pat[p + 2])
          \/ InSet(c, pat, p + 3, ec)
     ELSE pat[p] = c \/ InSet(c, pat, p + 1, ec)
matchbracketclass(c, pat, p, ec) ==
  IF At(pat, p + 1) = "^" THEN ~InSet(c, pat, p + 2, ec) ELSE InSet(c, pat, p + 1, ec)

singlematch(c, pat, p, ep) ==
  CASE At(pat, p) = "." -> TRUE
    [] At(pat, p) = "%" -> match_class(c, At(pat, p + 1))
    [] At(pat, p) = "[" -> matchbracketclass(c, pat, p, ep - 1)
    [] OTHER -> At(pat, p) = c

(* matchbalance: %b followed by the two delimiters at p; count of those open. *)
RECURSIVE Balance(_, _, _, _, _)
Balance(src, s, b, e, cont) ==
  IF s > Len(src) THEN NULL
  ELSE IF src[s] = e THEN IF cont = 1 THEN s + 1 ELSE Balance(src, s + 1, b, e, cont - 1)
  ELSE Balance(src, s + 1, b, e, IF src[s] = b THEN cont + 1 ELSE cont)
matchbalance(src, pat, s, p) ==
  IF At(pat, p) = Zero \/ At(pat, p + 1) = Zero THEN Error
  ELSE IF At(src, s) # At(pat, p) THEN NULL
  ELSE Balance(src, s + 1, At(pat, p), At(pat, p + 1), 1)

(* match_capture: %1 and the like, what a capture holds again. *)
match_capture(src, cap, s, digit) ==
  LET l == check_capture(cap, digit)
      len == cap[l].len
  IN IF l = Error THEN Error
     ELSE IF /\ len # CAP_POSITION  \* as a size_t it exceeds what is left
             /\ len <= Len(src) + 1 - s
             /\ SubSeq(src, cap[l].init, cap[l].init + len - 1) = SubSeq(src, s, s + len - 1)
          THEN s + len ELSE NULL

------------------------------------------------------------------------------
RECURSIVE match(_, _, _, _, _)

(* How many times the single item at p matches from s on. *)
RECURSIVE Repeats(_, _, _, _, _)
Repeats(src, pat, s, p, ep) ==
  IF s <= Len(src) /\ singlematch(src[s], pat, p, ep) THEN 1 + Repeats(src, pat, s + 1, p, ep)
  ELSE 0

RECURSIVE Shrink(_, _, _, _, _, _)
Shrink(src, pat, s, i, ep, cap) ==
  IF i < 0 THEN Outcome(NULL, cap)
  ELSE LET m == match(src, pat, s + i, ep + 1, cap)
       IN IF m.res # NULL THEN m ELSE Shrink(src, pat, s, i - 1, ep, m.cap)
max_expand(src, pat, s, p, ep, cap) ==
  Shrink(src, pat, s, Repeats(src, pat, s, p, ep), ep, cap)

RECURSIVE min_expand(_, _, _, _, _, _)
min_expand(src, pat, s, p, ep, cap) ==
  LET m == match(src, pat, s, ep + 1, cap)
  IN IF m.res # NULL THEN m
     ELSE IF s <= Len(src) /\ singlematch(src[s], pat, p, ep)
     THEN min_expand(src, pat, s + 1, p, ep, m.cap)
     ELSE m

start_capture(src, pat, s, p, cap, what) ==
  IF Len(cap) >= LUA_MAXCAPTURES THEN Outcome(Error, cap)
  ELSE LET m == match(src, pat, s, p, Append(cap, [init |-> s, len |-> what]))
       IN IF m.res = NULL THEN Outcome(NULL, Undone(cap, m)) ELSE m

end_capture(src, pat, s, p, cap) ==
  LET l == capture_to_close(cap)
      m == match(src, pat, s, p, [cap EXCEPT ![l].len = s - cap[l].init])
  IN IF l = Error THEN Outcome(Error, cap)
     ELSE IF m.res = NULL THEN Outcome(NULL, [m.cap EXCEPT ![l].len = CAP_UNFINISHED])
     ELSE m

(* %f: the previous character is outside the set and the current one inside. *)
Frontier(src, pat, s, p) ==
  LET ep == classend(pat, p)
  IN IF At(pat, p) # "[" THEN Error
     ELSE IF ep = Error THEN Error
     ELSE IF \/ matchbracketclass(At(src, s - 1), pat, p, ep - 1)
             \/ ~matchbracketclass(At(src, s), pat, p, ep - 1) THEN NULL
     ELSE ep

(* What is not a capture, a balance, a frontier or the end: one item, which *)
(* may be repeated.                                                         *)
MatchItem(src, pat, s, p, cap) ==
  LET ep == classend(pat, p)
      m == s <= Len(src) /\ singlematch(src[s], pat, p, ep)
      after == match(src, pat, s + 1, ep + 1, cap)
  IN IF ep = Error THEN Outcome(Error, cap)
     ELSE CASE At(pat, ep) = "?" -> IF m /\ after.res # NULL THEN after
                                    ELSE match(src, pat, s, ep + 1, IF m THEN after.cap ELSE cap)
            [] At(pat, ep) = "*" -> max_expand(src, pat, s, p, ep, cap)
            [] At(pat, ep) = "+" -> IF m THEN max_expand(src, pat, s + 1, p, ep, cap)
                                    ELSE Outcome(NULL, cap)
            [] At(pat, ep) = "-" -> min_expand(src, pat, s, p, ep, cap)
            [] OTHER -> IF m THEN match(src, pat, s + 1, ep, cap) ELSE Outcome(NULL, cap)

match(src, pat, s, p, cap) ==
  LET c == At(pat, p)
      d == At(pat, p + 1)
      Then(at, rest) == IF at \in {NULL, Error} THEN Outcome(at, cap)
                        ELSE match(src, pat, at, rest, cap)
      f == Frontier(src, pat, s, p + 2)
  IN CASE c = "(" -> IF d = ")" THEN start_capture(src, pat, s, p + 2, cap, CAP_POSITION)
                     ELSE start_capture(src, pat, s, p + 1, cap, CAP_UNFINISHED)
       [] c = ")" -> end_capture(src, pat, s, p + 1, cap)
       [] c = "%" /\ d = "b" -> Then(matchbalance(src, pat, s, p + 2), p + 4)
       [] c = "%" /\ d = "f" -> IF f \in {NULL, Error} THEN Outcome(f, cap)
                                ELSE match(src, pat, s, f, cap)
       [] c = "%" /\ d \in Digits -> Then(match_capture(src, cap, s, d), p + 2)
       [] c = Zero -> Outcome(s, cap)
       [] c = "$" /\ d = Zero -> Outcome(IF s = Len(src) + 1 THEN s ELSE NULL, cap)
       [] OTHER -> MatchItem(src, pat, s, p, cap)
==============================================================================
