----------------------------- MODULE MCReadFile -----------------------------
(***************************************************************************)
(* ReadFile with room for three lines of three words and eight characters: *)
(* files an author has written, with and without quotes and with every     *)
(* kind of gap, also longer than there is room for; and every short text,  *)
(* alone and behind a line that is almost full.                            *)
(***************************************************************************)
EXTENDS ReadFile

MCMaxLines == 3
MCMaxWords == 3
MCMaxLineLength == 9

Chars(s) == [k \in 1 .. Len(s) |-> SubSeq(s, k, k)]

(* A word without its gap; its characters do not say how it is written.    *)
Bareword(s) == [quoted |-> FALSE, means |-> Chars(s)]
String(w)   == [quoted |-> TRUE, means |-> w]

Strings   == {String(Chars(s)) : s \in {"", "a", "a b", "\"", "\\", "\\n", "\n", ";\t", "*0", "\\\"", "ab cd"}}
Barewords == {Bareword(s) : s \in {"a", "a:", ";", "a\"b", "\\n", "*abcd"}}
Short     == {Bareword("a"), String(<<>>), String(Chars("\n"))}

(* A line of words with a gap in front of each.                            *)
Line(ws, gaps, end) ==
  [words |-> [k \in DOMAIN ws |-> [gap |-> gaps[k], quoted |-> ws[k].quoted, means |-> ws[k].means]],
   end   |-> end]

Gap   == {<<" ">>, <<"\t">>, <<" ", " ">>}
Start == {<<>>, <<"\t">>}
Ends  == {<<Newline>>, <<" ", Newline>>, <<>>}

(* A gap may only be missing behind a quoted word.                         *)
Glued == {Line(<<s, w>>, <<<<>>, <<>>>>, <<Newline>>) : s \in Strings, w \in Strings \cup Barewords}

OneWord  == {Line(<<w>>, <<g>>, e) : w \in Strings \cup Barewords, g \in Start, e \in Ends}
TwoWords == {Line(<<v, w>>, <<g, h>>, e) : v, w \in Strings \cup Barewords,
               g \in Start, h \in Gap, e \in Ends}
Packed   == {Line(ws, [k \in 1 .. 4 |-> IF k = 1 THEN <<>> ELSE <<" ">>], <<Newline>>) : ws \in [1 .. 4 -> Short]}
Few      == {Line(<<w>>, <<<<>>>>, e) : w \in Short, e \in Ends}
              \cup {Line(<<>>, <<>>, <<Newline>>), Line(<<>>, <<>>, <<" ", Newline>>)}

Pages == {<<l>> : l \in Glued \cup OneWord \cup TwoWords \cup Packed}
           \cup (UNION {[1 .. n -> Few] : n \in 0 .. 4} \cap Writings)

(* All of them are what an author may write.                               *)
ASSUME PagesAreWritings == Pages \subseteq Writings

Written == {[text |-> TextOf(ls), meant |-> MeantBy(ls)] : ls \in Pages}

Alphabet == {" ", Newline, Quote, Escape, "n", Nul}
Texts(n) == UNION {[1 .. k -> Alphabet] : k \in 0 .. n}

Odd == {[text |-> s, meant |-> Unclear] :
          s \in Texts(4) \cup {Chars(a) \o t : a \in {"aaaaa", "aa aa", "\"aaaa", "\"\\aaa"}, t \in Texts(4)}}

MCFiles == Written \cup Odd
=============================================================================
