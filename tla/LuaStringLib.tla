---------------------------- MODULE LuaStringLib ----------------------------
(***************************************************************************)
(* string.find, string.match, string.gmatch and string.gsub of lstrlib.c,  *)
(* one iteration of their loops at a time.                                 *)
(***************************************************************************)
EXTENDS LuaPattern

CONSTANTS StringCalls, \* the calls: fn, src, pat and the function's other arguments
          CallResults  \* what a replacement function or table may give

VARIABLE str

Nothing == [k |-> "nil"]
NoCapture == [k |-> "error"]  \* luaL_error instead of a value
Text(s) == [k |-> "string", s |-> s]
Position(n) == [k |-> "number", n |-> n]

posrelat(pos, len) == IF pos >= 0 THEN pos ELSE IF pos + len + 1 >= 0 THEN pos + len + 1 ELSE 0

(* A pattern with a ^ is tried once; gmatch knows no such pattern. *)
Anchored(c) == c.fn # "gmatch" /\ At(c.pat, 1) = "^"
Body(c) == IF Anchored(c) THEN Tail(c.pat) ELSE c.pat
Specials == {"^", "$", "*", "+", "?", ".", "(", "[", "%", "-"}
IsPlain(c) == c.fn = "find" /\ (c.plain \/ \A j \in DOMAIN c.pat : c.pat[j] \notin Specials)

(* str_find_aux starts within the subject whatever init says. *)
Start(c) ==
  LET init == posrelat(c.init, Len(c.src)) - 1
  IN IF c.fn \notin {"find", "match"} \/ init < 0 THEN 1
     ELSE IF init > Len(c.src) THEN Len(c.src) + 1 ELSE init + 1

(* lmemfind: the first character is searched for, then the rest compared. *)
RECURSIVE lmemfind(_, _, _)
lmemfind(src, from, pat) ==
  IF pat = <<>> THEN from
  ELSE IF from + Len(pat) > Len(src) + 1 THEN NULL
  ELSE IF src[from] = pat[1] /\ SubSeq(src, from + 1, from + Len(pat) - 1) = Tail(pat) THEN from
  ELSE lmemfind(src, from + 1, pat)

(* push_onecapture: capture i, or the whole match where there is none. *)
push_onecapture(src, cap, i, s, e) ==
  IF i > Len(cap) THEN IF i = 1 THEN Text(SubSeq(src, s, e - 1)) ELSE NoCapture
  ELSE CASE cap[i].len = CAP_UNFINISHED -> NoCapture
         [] cap[i].len = CAP_POSITION -> Position(cap[i].init)
         [] OTHER -> Text(SubSeq(src, cap[i].init, cap[i].init + cap[i].len - 1))
push_captures(src, cap, s, e, whole) ==
  [i \in 1..(IF cap = <<>> /\ whole THEN 1 ELSE Len(cap)) |-> push_onecapture(src, cap, i, s, e)]
Bad(values) == \E i \in DOMAIN values : values[i] = NoCapture

(* A number becomes its numeral when it is added to a buffer. *)
Added(v) == IF v.k = "string" THEN v.s ELSE <<v.n>>

(* add_s: the replacement string with its %0, %1 and the like filled in; a % *)
(* at its end takes the terminating zero.                                    *)
RECURSIVE add_s(_, _, _, _, _)
add_s(news, src, cap, s, e) ==
  IF news = <<>> THEN [ok |-> TRUE, text |-> <<>>]
  ELSE LET d == At(news, 2)
           v == push_onecapture(src, cap, CASE d = "1" -> 1 [] d = "2" -> 2 [] OTHER -> 3, s, e)
           piece == IF news[1] # "%" THEN <<news[1]>>
                    ELSE IF d \notin Digits THEN <<d>>
                    ELSE IF d = "0" THEN SubSeq(src, s, e - 1) ELSE Added(v)
           used == IF news[1] = "%" /\ Len(news) > 1 THEN 2 ELSE 1
           rest == add_s(SubSeq(news, used + 1, Len(news)), src, cap, s, e)
       IN IF news[1] = "%" /\ d \in Digits \ {"0"} /\ v = NoCapture THEN [ok |-> FALSE, text |-> <<>>]
          ELSE [ok |-> rest.ok, text |-> piece \o rest.text]

(* add_value: the replacement of the match; given is what a function or a   *)
(* table answers, nil or false keep the text.                               *)
add_value(c, cap, s, e, given) ==
  LET fails == [ok |-> FALSE, text |-> <<>>]
  IN IF c.repl.k = "string" THEN add_s(c.repl.s, c.src, cap, s, e)
     ELSE IF \/ c.repl.k = "function" /\ Bad(push_captures(c.src, cap, s, e, TRUE))
             \/ c.repl.k = "table" /\ push_onecapture(c.src, cap, 1, s, e) = NoCapture THEN fails
     ELSE IF given = Nothing THEN [ok |-> TRUE, text |-> SubSeq(c.src, s, e - 1)]
     ELSE IF given.k = "table" THEN fails
     ELSE [ok |-> TRUE, text |-> Added(given)]

------------------------------------------------------------------------------
(* found: the matches so far with their captures; text and subs: what gsub   *)
(* has put together, and each replacement in it.                             *)
StrStates(calls) ==
  {[call |-> c, pos |-> Start(c), found |-> <<>>, text |-> <<>>, subs |-> <<>>,
    status |-> "run"] : c \in calls}

req == str.call
Running(fns) == str.status = "run" /\ req.fn \in fns
Here == match(req.src, Body(req), str.pos, 1, <<>>)
Found(m, whole) == [from |-> str.pos, to |-> m.res,
                    caps |-> push_captures(req.src, m.cap, str.pos, m.res, whole)]
Fails == str' = [str EXCEPT !.status = "error"]

(* str_find_aux, the plain search. *)
FindPlain ==
  /\ Running({"find"}) /\ IsPlain(req)
  /\ LET s2 == lmemfind(req.src, str.pos, req.pat)
     IN str' = [str EXCEPT !.status = "done",
                  !.found = IF s2 = NULL THEN <<>>
                            ELSE <<[from |-> s2, to |-> s2 + Len(req.pat), caps |-> <<>>]>>]

(* str_find_aux, one position of the search for a pattern. *)
FindStep ==
  /\ Running({"find", "match"}) /\ ~IsPlain(req)
  /\ LET m == Here
         f == Found(m, req.fn = "match")
     IN CASE m.res = Error -> Fails
          [] m.res = NULL ->
               IF str.pos <= Len(req.src) /\ ~Anchored(req) THEN str' = [str EXCEPT !.pos = @ + 1]
               ELSE str' = [str EXCEPT !.status = "done"]
          [] OTHER -> IF Bad(f.caps) THEN Fails
                      ELSE str' = [str EXCEPT !.found = <<f>>, !.status = "done"]

(* An empty match is followed by a step of one position. *)
NewStart(m) == IF m.res = str.pos THEN str.pos + 1 ELSE m.res

(* gmatch_aux, one position; the third upvalue keeps it between the calls. *)
GMatchStep ==
  /\ Running({"gmatch"})
  /\ LET m == Here
         f == Found(m, TRUE)
     IN IF str.pos > Len(req.src) + 1 THEN str' = [str EXCEPT !.status = "done"]
        ELSE CASE m.res = Error -> Fails
               [] m.res = NULL -> str' = [str EXCEPT !.pos = @ + 1]
               [] OTHER -> IF Bad(f.caps) THEN Fails
                           ELSE str' = [str EXCEPT !.found = Append(@, f), !.pos = NewStart(m)]

(* Where gsub's loop goes on: after the match, or one character further. *)
Skipped(m) == IF m.res # NULL /\ m.res > str.pos THEN m.res ELSE str.pos + 1

(* The character that gsub's loop copies when it has matched none. *)
Copied(m) == IF str.pos <= Len(req.src) /\ Skipped(m) # m.res THEN <<req.src[str.pos]>> ELSE <<>>

(* str_gsub, one iteration; the rest of the subject follows the last one. *)
GSubStep ==
  /\ Running({"gsub"})
  /\ LET m == Here
         f == Found(m, FALSE)
         Rest == SubSeq(req.src, str.pos, Len(req.src))
     IN IF Len(str.found) >= req.max_s
        THEN str' = [str EXCEPT !.text = @ \o Rest, !.status = "done"]
        ELSE CASE m.res = Error -> Fails
               [] OTHER -> \E given \in (IF m.res = NULL \/ req.repl.k = "string" THEN {Nothing}
                                         ELSE CallResults) :
                    LET sub == add_value(req, m.cap, str.pos, m.res, given)
                        new == IF m.res = NULL THEN <<>> ELSE sub.text
                        next == Skipped(m)
                        tail == SubSeq(req.src, next, Len(req.src))
                        last == next > Len(req.src) + 1 \/ Anchored(req)
                    IN IF m.res # NULL /\ ~sub.ok THEN Fails
                       ELSE str' = [str EXCEPT
                              !.found = IF m.res = NULL THEN @ ELSE Append(@, f),
                              !.subs = IF m.res = NULL THEN @ ELSE Append(@, sub.text),
                              !.pos = next,
                              !.text = @ \o new \o Copied(m) \o (IF last THEN tail ELSE <<>>),
                              !.status = IF last THEN "done" ELSE "run"]

StrNext == FindPlain \/ FindStep \/ GMatchStep \/ GSubStep
==============================================================================
