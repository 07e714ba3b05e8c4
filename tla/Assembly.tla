------------------------------ MODULE Assembly ------------------------------
(***************************************************************************)
(* Sean816 assembly language: what a source file is to the assembler once  *)
(* read_file has split it into lines of words, and what it means, read the *)
(* way an author does: the code of the lines one after the other, a label  *)
(* standing for the offset of the code behind it.                          *)
(***************************************************************************)
EXTENDS Encoding

(* A word as the assembler tells it apart: val is its value or its name,   *)
(* chars the bytes it is written with, which only matter behind str.       *)
(*   op      a mnemonic; 31 stands for str, which has no opcode            *)
(*   reg     a register name        num     decimal digits                 *)
(*   hex2    two hex digits         hex4    0x and four hex digits         *)
(*   wide    0X or 0x and four characters, when they do not make a hex4    *)
(*   hex     any other number of characters behind 0x or 0X                *)
(*   label   ends with a colon      ref     begins with an asterisk        *)
(*   ";"     a semicolon alone      ";text" begins with a semicolon        *)
(*   text    none of these                                                 *)
Word(kind, val, chars) == [kind |-> kind, val |-> val, chars |-> chars]

Op(n)     == Word("op", n, <<>>)
Reg(n)    == Word("reg", n, <<>>)
Num(n)    == Word("num", n, <<>>)
Hex2(n)   == Word("hex2", n, <<>>)
Hex4(n)   == Word("hex4", n, <<>>)
Label(x)  == Word("label", x, <<>>)
Ref(x)    == Word("ref", x, <<>>)
Text(s)   == Word("text", 0, s)
Semicolon == Word(";", 0, <<59>>)
STR       == 31

Chars      == Seq(0 .. 255)
RegNumbers == 0 .. 28
Halfwords  == 0 .. 65535
OtherKinds == {"num", "hex2", "wide", "hex", ";", ";text", "text"}
Words == [kind : {"op"}, val : 0 .. STR, chars : Chars]
           \cup [kind : {"reg"}, val : RegNumbers, chars : Chars]
           \cup [kind : {"hex4"}, val : Halfwords, chars : Chars]
           \cup [kind : {"label", "ref"}, val : STRING, chars : Chars]
           \cup [kind : OtherKinds, val : Nat, chars : Chars]

IsRemark(w)   == w.kind \in {";", ";text"}
IsLabel(line) == line # <<>> /\ line[1].kind = "label"

(* The words of a line in front of its remark.                             *)
Uncommented(line) == LET k == SelectInSeq(line, IsRemark)
                     IN  IF k = 0 THEN line ELSE SubSeq(line, 1, k - 1)

IsCode(line) == Uncommented(line) # <<>> /\ ~IsLabel(line)
IsStr(line)  == Uncommented(line) # <<>> /\ line[1].kind = "op" /\ line[1].val = STR
Operands(line) == SubSeq(Uncommented(line), 2, Len(Uncommented(line)))

-----------------------------------------------------------------------------
(* Layout                                                                  *)

(* The sum of a sequence of numbers.                                       *)
Total(ns) == LET sum[k \in 0 .. Len(ns)] == IF k = 0 THEN 0 ELSE sum[k - 1] + ns[k]
             IN  sum[Len(ns)]

Width(w) == IF w.kind \in {"hex4", "ref"} THEN 2 ELSE 1

(* The width of the first n of the words s.                                *)
Widths(s, n) == Total([k \in 1 .. n |-> Width(s[k])])

Size(line) == IF ~IsCode(line) THEN 0
              ELSE IF IsStr(line)
              THEN Total([k \in DOMAIN Operands(line) |-> Len(Operands(line)[k].chars) + 1])
              ELSE 1 + Widths(Operands(line), Len(Operands(line)))

(* The offset of the code of line n.                                       *)
Offset(src, n) == Total([k \in 1 .. n - 1 |-> Size(src[k])])

Labels(src) == {n \in DOMAIN src : IsLabel(src[n])}
Defined(src, x) == \E n \in Labels(src) : src[n][1].val = x

(* The first label of a name counts.                                       *)
Meaning(src, x) ==
  Offset(src, CHOOSE n \in Labels(src) : /\ src[n][1].val = x
                                         /\ \A m \in Labels(src) : src[m][1].val = x => n <= m)

-----------------------------------------------------------------------------
(* Code                                                                    *)

Operand(src, w) == CASE w.kind = "reg"            -> <<R(w.val)>>
                     [] w.kind \in {"hex2", "num"} -> <<I(w.val % 256)>>
                     [] w.kind = "hex4"           -> Addr(w.val)
                     [] w.kind = "ref"            -> Addr(Meaning(src, w.val))

Encoded(src, line) ==
  IF ~IsCode(line) THEN <<>>
  ELSE IF IsStr(line) THEN line[2].chars \o <<0>>
  ELSE Ins(line[1].val,
           FlattenSeq([k \in DOMAIN Operands(line) |-> Operand(src, Operands(line)[k])]))

CodeOf(src) == FlattenSeq([n \in DOMAIN src |-> Encoded(src, src[n])])

(* Where the code refers to labels, line by line.                          *)
References(src, n) ==
  LET words == Operands(src[n])
  IN  FlattenSeq([k \in DOMAIN words |-> IF words[k].kind = "ref"
                                         THEN <<Offset(src, n) + 1 + Widths(words, k - 1)>>
                                         ELSE <<>>])

RelocationsOf(src) ==
  FlattenSeq([n \in DOMAIN src |-> IF IsCode(src[n]) /\ ~IsStr(src[n])
                                   THEN References(src, n) ELSE <<>>])

Word2(w) == <<w % 256, w \div 256>>

(* Faulty variant of Executable: the table is counted in entries.          *)
ExecutableCounted(code, relocations, entry) ==
  LET start == HEADER + Len(relocations)
  IN  <<127, 242>> \o Word2(start) \o Word2(start + entry) \o Word2(Len(relocations))
        \o FlattenSeq([k \in DOMAIN relocations |-> Word2(relocations[k])]) \o code

(* Header, relocation table and code, as binload expects them.             *)
Executable(code, relocations, entry) ==
  LET start == HEADER + 2 * Len(relocations)
  IN  <<127, 242>> \o Word2(start) \o Word2(start + entry) \o Word2(Len(relocations))
        \o FlattenSeq([k \in DOMAIN relocations |-> Word2(relocations[k])]) \o code

ExecutableOf(src) == Executable(CodeOf(src), RelocationsOf(src), Meaning(src, "main"))

-----------------------------------------------------------------------------
(* Header, relocation table and code fit n bytes.                          *)
SizeWithin(src, n) == HEADER + 2 * Len(RelocationsOf(src)) + Offset(src, Len(src) + 1) <= n

(* A source without mistakes: known mnemonics, as many operand bytes as    *)
(* they take, operands of a known form, every reference and main defined.  *)
CorrectLine(src, line) ==
  /\ line[1].kind = "op"
  /\ IF IsStr(line) THEN Len(Operands(line)) = 1
     ELSE /\ Widths(Operands(line), Len(Operands(line))) = Parameters[line[1].val]
          /\ \A k \in DOMAIN Operands(line) :
               LET w == Operands(line)[k]
               IN  \/ w.kind \in {"reg", "hex2", "hex4", "num"}
                   \/ w.kind = "ref" /\ Defined(src, w.val)

Correct(src) == /\ \A n \in DOMAIN src : IsCode(src[n]) => CorrectLine(src, src[n])
                /\ Defined(src, "main")

(* The layout the two passes of the assembler agree on: a label stands     *)
(* alone on its line, directly in front of a line of code; a string stands *)
(* behind a label and looks like no other kind of word; remarks begin with *)
(* a semicolon that stands alone; four-digit numbers are written 0x.       *)
Plain(src) ==
  \A n \in DOMAIN src :
    LET line  == src[n]
        words == Uncommented(line)
    IN  /\ Len(words) < Len(line) => line[Len(words) + 1].kind = ";"
        /\ IsLabel(line) => /\ Len(words) = 1
                            /\ n < Len(src) => IsCode(src[n + 1])
        /\ IsStr(line) => /\ n > 1 /\ IsLabel(src[n - 1])
                          /\ \A k \in 2 .. Len(words) : words[k].kind = "text"
        /\ \A k \in 2 .. Len(words) : words[k].kind \notin {"label", "wide"}
=============================================================================
