---------------------------- MODULE MCAssembler ----------------------------
(***************************************************************************)
(* Assembler on test.asm, which just fits the limits set here; on sources  *)
(* of up to five lines, each of a set: they refer to labels in front of    *)
(* them and behind, comment, leave blanks, mistake the number or the form  *)
(* of operands, and hold strings that look like something else; and on     *)
(* sources that reach the last line and the last byte.                     *)
(***************************************************************************)
EXTENDS Assembler

Test == INSTANCE TestProgram

MCMaxLines == 121
MCLimit    == 292

a == Reg(0)
Main == <<Label("main")>>
X    == <<Label("x")>>

(* The plain ones.                                                         *)
Common ==
  { X, <<>>, <<Semicolon, Label("x"), a>>,
    <<Op(11), a>>, <<Op(1), a, Hex4(513), Semicolon, Ref("x")>>,
    <<Op(21), Ref("x")>>, <<Op(STR), Text(<<104, 105>>)>> }

Rare ==
  { Main, <<Op(0), Label("x")>>, <<Op(26)>>, <<Label("x"), Op(26)>>,
    <<Word(";text", 0, <<>>), a>>, <<Op(11), a, Word(";text", 0, <<>>)>>,
    <<Op(6), a>>, <<Op(6), a, Num(300)>>, <<Op(6), Hex2(1), Text(<<>>)>>,
    <<Op(2), Hex2(7), a, Word("hex", 0, <<>>)>>,
    <<Op(1), Word("wide", 513, <<>>), Word("wide", 513, <<>>), a>>,
    <<Op(19), Word("wide", 513, <<>>)>>,
    <<Op(STR)>>, <<Op(STR), Word("reg", 0, <<97>>)>>, <<Op(STR), Word("label", "is", <<105, 115, 58>>)>>,
    <<Op(STR), Word("ref", "x", <<42, 120>>)>>, <<Text(<<>>), a>>,
    <<Op(11), a, a, a, a, a, a>> }

Small ==
  UNION {[1 .. n -> Common \cup Rare] : n \in 0 .. 2}
    \cup {<<Main>> \o s : s \in UNION {[1 .. n -> Common] : n \in 0 .. 4}}
    \cup {<<Main, r>> \o s : r \in Rare, s \in [1 .. 2 -> Common]}
    \cup {<<Main>> \o s \o <<r>> : r \in Rare, s \in [1 .. 2 -> Common]}
    \cup {<<Main, <<Op(21), Ref("main")>>, Main>> \o s : s \in UNION {[1 .. n -> Common] : n \in 0 .. 2}}

(* Sources without a remark, an odd word or a mistaken line.               *)
Listings == {<<Main>> \o s : s \in [1 .. 4 -> {X, <<>>, <<Op(11), a>>, <<Op(STR), Text(<<104, 105>>)>>}]}

(* Sources that end in the last line there is room for, or behind it.      *)
Filled(s) == [n \in 1 .. MCMaxLines - Len(s) |-> <<>>] \o s
Tall == {Filled(<<Main, l, m>>) \o s : l \in {X, <<Op(11), a>>, <<Op(21), Ref("x")>>}, m \in Common,
           s \in {<<>>, <<<<Op(11), a>>>>}}

(* Sources around the size of the tables: some fit, some with their header *)
(* and relocations or already with their code do not, some wrap around,    *)
(* and one has main at the largest offset.                                 *)
Long(n) == <<Op(STR), Text([k \in 1 .. n |-> 104])>>
Sized   == {<<Op(1), a, Hex4(513)>>, <<Op(21), Ref("x")>>, <<Op(11), a>>}
Wide ==
  {<<Main, c, X, Long(MCLimit - n)>> \o s : c \in Sized, n \in 0 .. 20,
     s \in {<<>>} \cup {<<d>> : d \in Sized}}
    \cup {<<X, Long(MCLimit - n), Main>> \o s : n \in 0 .. 20, s \in {<<>>} \cup {<<d>> : d \in Sized}}

MCSources == Small \cup Tall \cup Wide \cup {Test!TestAsm}
=============================================================================
