--------------------------- MODULE MCLuaPatterns ---------------------------
(* Patterns built from parts, written out as text, and calls that use them. *)
EXTENDS LuaPatternMeaning
LOCAL INSTANCE SequencesExt

MCCharacters == <<Zero, "$", "%", "(", ")", "*", "+", "-", ".", "0", "1", "2", "3", "?", "A", "B",
                  "D", "[", "]", "^", "a", "b", "c", "d", "f", "z">>
All == {MCCharacters[k] : k \in DOMAIN MCCharacters}

Item(text, set, q) == [k |-> "item", text |-> text \o (IF q = "" THEN <<>> ELSE <<q>>),
                       set |-> set, q |-> q]
Part(k, text) == [k |-> k, text |-> text]
Pos == Part("position", <<"(", ")">>)
Opens == Part("open", <<"(">>)
Closes == Part("close", <<")">>)
Again(n, d) == [k |-> "again", text |-> <<"%", d>>, n |-> n]
Bal(b, e) == [k |-> "balance", text |-> <<"%", "b", b, e>>, b |-> b, e |-> e]
FrontierOf(text, set) == [k |-> "frontier", text |-> <<"%", "f">> \o text, set |-> set]
End == Part("end", <<"$">>)
Wrong1(text) == Part("malformed", text)

NotA == <<"[", "^", "a", "]">>
Items == {Item(<<"a">>, {"a"}, q) : q \in {"", "?", "*", "+", "-"}}
         \cup {Item(<<".">>, All, q) : q \in {"", "-"}} \cup {Item(NotA, All \ {"a"}, "*")}
Sets == {Item(<<"%", "a">>, Lower \cup Upper, "+"), Item(<<"%", "D">>, All \ Digits, ""),
         Item(<<"[", "]", "1", "]">>, {"]", "1"}, ""), Item(<<"[", "b", "-", "d", "]">>, {"b", "c", "d"}, "*"),
         Item(<<"[", "a", "-", "]">>, {"a", "-"}, ""), Item(<<"[", "^", "%", "d", "b", "]">>, All \ (Digits \cup {"b"}), "-"),
         Item(<<"[", "%", "]", "a", "]">>, {"]", "a"}, "?"), Item(<<"%", "]">>, {"]"}, ""), Item(<<"%", "%">>, {"%"}, "")}
Groups == {Pos, Opens, Closes, Again(1, "1"), Bal("a", "b"), Bal("a", "a"), FrontierOf(<<"[", "a", "]">>, {"a"}),
           FrontierOf(NotA, All \ {"a"})}
Tails == {<<>>, <<End>>, <<Wrong1(<<"[", "a">>)>>, <<Wrong1(<<"%">>)>>, <<Wrong1(<<"%", "b", "a">>)>>,
          <<Wrong1(<<"%", "f", "a">>)>>, <<Wrong1(<<"%", "0">>)>>, <<Wrong1(<<"[", "^", "]">>)>>,
          <<Wrong1(<<"[", "a", "%">>)>>}

(* Two parentheses in a row are a position. *)
Written(parts) == \A k \in 1..Len(parts) - 1 : ~(parts[k].k = "open" /\ parts[k + 1].k = "close")
TextOf(parts) == FlattenSeq([k \in DOMAIN parts |-> parts[k].text])
WithTail(seqs, tails) == {parts \in {p \o t : p \in seqs, t \in tails} : Written(parts)}

Request(fn, src, parts, anchor, init, max_s, repl) ==
  [fn |-> fn, src |-> src, parts |-> parts,
   pat |-> (IF anchor THEN <<"^">> ELSE <<>>) \o TextOf(parts),
   plain |-> FALSE, init |-> init, max_s |-> max_s, repl |-> repl]
Subjects == SeqOf({"a", "b"}, 3)
Whole == [k |-> "string", s |-> <<"[", "%", "0", "%", "1", "%">>]
Swapped == [k |-> "string", s |-> <<"%", "2", "%", "%">>]
ByFunction == [k |-> "function"]
ByTable == [k |-> "table"]

Matches == {Request("match", src, parts, FALSE, 1, 0, Whole) :
              src \in Subjects, parts \in WithTail(TupleOf(Items \cup Groups, 2) \cup TupleOf(Groups, 3), {<<>>})}
AllTails == {Request("find", src, parts, anchor, init, 0, Whole) :
              src \in {<<>>, <<"a">>, <<"b", "a">>, <<"a", "b", "a">>}, anchor \in BOOLEAN, init \in {1, -1, 9},
              parts \in WithTail(SeqOf(Items, 1), Tails)}
Captured == {Request("gmatch", src, <<Opens, x, Closes, y>> \o z, FALSE, 1, 0, Whole) :
              src \in Subjects, x \in Items, y \in Items \cup {Again(1, "1"), Pos}, z \in {<<>>, <<Again(1, "1")>>, <<Again(2, "2")>>}}
ClassCalls == {Request("gmatch", src, <<x>>, FALSE, 1, 0, Whole) :
              src \in SeqOf({"1", "a", "b", "B", "]", "-", "%"}, 2), x \in Sets}
Substitutions == {Request("gsub", src, parts, anchor, 1, max, repl) :
              src \in Subjects, anchor \in BOOLEAN, max \in {1, 9}, repl \in {Whole, Swapped, ByFunction, ByTable},
              parts \in {<<x>> : x \in Items} \cup {<<Pos, x>> : x \in Items}
                        \cup {<<Opens, x, Closes, Pos>> : x \in Items} \cup {<<Opens>>}}
PlainCalls == {[Request("find", src, <<Item(<<"a">>, {"a"}, "")>>, FALSE, init, 0, Whole) EXCEPT !.pat = pat, !.plain = TRUE] :
              src \in SeqOf({"a", "b"}, 4), pat \in SeqOf({"a", "b"}, 3), init \in {1, 2, -1}}

AllCalls == <<Matches, AllTails, Captured, ClassCalls, Substitutions, PlainCalls>>
MCStringCalls == LET calls == AllCalls IN calls
MCCallResults == {Nothing, Text(<<"b", "b">>), [k |-> "table"]}
==============================================================================
