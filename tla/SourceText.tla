----------------------------- MODULE SourceText -----------------------------
(***************************************************************************)
(* The words read_file leaves in raw[], as the assembler tells them apart: *)
(* from sequences of characters to the words of Assembly. A word of two    *)
(* natures, such as a remark that ends with a colon, and the empty word,   *)
(* in front of which labelcheck reads, are taken for the first that fits.  *)
(***************************************************************************)
EXTENDS Assembly

(* A string for the characters it is made of, and back.                    *)
CharsOf(s)  == [k \in 1 .. Len(s) |-> SubSeq(s, k, k)]
Spelling(w) == FoldLeft(\o, "", w)

(* With a form feed in the place of the backtick, which a string of TLA+   *)
(* cannot hold.                                                            *)
Printable == CharsOf(" !\"#$%&'()*+,-./0123456789:;<=>?@ABCDEFGHIJKLMNOPQRSTUVWXYZ[\\]^_\fabcdefghijklmnopqrstuvwxyz{|}~")

ByteOf(c) == CASE c = "\n" -> 10 [] c = "\t" -> 9 [] c = "\r" -> 13
               [] OTHER -> 31 + SelectInSeq(Printable, LAMBDA x : x = c)

ByteString(w) == [k \in DOMAIN w |-> ByteOf(w[k])]

-----------------------------------------------------------------------------
Mnemonics ==
  [halt |-> 0, load |-> 1, store |-> 2, mhml |-> 3, loadlh |-> 4, llh |-> 4, storelh |-> 5,
   slh |-> 5, mov |-> 6, add |-> 7, sub |-> 8, mul |-> 9, div |-> 10, inc |-> 11, dec |-> 12,
   jmp |-> 13, cmp |-> 14, je |-> 15, jne |-> 16, jg |-> 17, jl |-> 18, push |-> 19, pop |-> 20,
   call |-> 21, calle |-> 22, callne |-> 23, callg |-> 24, calll |-> 25, ret |-> 26,
   and |-> 27, or |-> 28, xor |-> 29, not |-> 30, str |-> STR]

Registers ==
  [a |-> 0, b |-> 1, c |-> 2, d |-> 3, e |-> 4, f |-> 5, g |-> 6, h |-> 7,
   ra |-> 8, rb |-> 9, rc |-> 10, rd |-> 11, re |-> 12, rf |-> 13, rg |-> 14, rh |-> 15,
   ga |-> 16, gb |-> 17, gc |-> 18, gd |-> 19, ge |-> 20, gf |-> 21, gg |-> 22, gh |-> 23,
   ml |-> 24, mh |-> 25, cmp |-> 26, spl |-> 27, sph |-> 28]

-----------------------------------------------------------------------------
(* Numbers                                                                 *)
Decimal == CharsOf("0123456789")
Hex     == Decimal \o CharsOf("abcdefABCDEF")

Digit(c) == LET k == SelectInSeq(Hex, LAMBDA x : x = c) IN IF k > 16 THEN k - 7 ELSE k - 1

(* The digits in front of the first other character, which is all strtoul  *)
(* looks at.                                                               *)
Number(w, base) ==
  LET k == SelectInSeq(w, LAMBDA c : ~Contains(Hex, c))
  IN  FoldLeft(LAMBDA v, c : base * v + Digit(c), 0, IF k = 0 THEN w ELSE SubSeq(w, 1, k - 1))

is_number(w) == w # <<>> /\ \A k \in DOMAIN w : Contains(Decimal, w[k])

is_hex16_format(w) == /\ Len(w) = 6 /\ w[1] = "0" /\ w[2] = "x"
                      /\ \A k \in 3 .. 6 : Contains(Hex, w[k])

HasPrefix(w) == Len(w) >= 2 /\ w[1] = "0" /\ w[2] \in {"x", "X"}
Behind0x(w)  == SubSeq(w, 3, Len(w))

-----------------------------------------------------------------------------
(* Faulty variant of Operation: a mnemonic is one wherever it stands.      *)
OperationAnywhere(w, k) == Spelling(w) \in DOMAIN Mnemonics

(* Word k of a line is its operation only if it is the first: cmp is the   *)
(* name of a register as well.                                             *)
Operation(w, k) == k = 1 /\ Spelling(w) \in DOMAIN Mnemonics

(* Word k of a line.                                                       *)
Classified(w, k) ==
  LET is(kind, val) == Word(kind, val, ByteString(w))
      digits        == Len(Behind0x(w))
  IN  CASE w = <<";">>                            -> Semicolon
        [] Len(w) > 1 /\ w[1] = ";"               -> is(";text", 0)
        [] w # <<>> /\ Last(w) = ":"              -> is("label", Spelling(Front(w)))
        [] Operation(w, k)                        -> is("op", Mnemonics[Spelling(w)])
        [] ~Operation(w, k) /\ Spelling(w) \in DOMAIN Registers -> is("reg", Registers[Spelling(w)])
        [] is_number(w)                           -> is("num", Number(w, 10))
        [] is_hex16_format(w)                     -> is("hex4", Number(Behind0x(w), 16))
        [] HasPrefix(w) /\ ~is_hex16_format(w)    ->
             is(CASE digits = 2 -> "hex2" [] digits = 4 -> "wide" [] OTHER -> "hex",
                IF digits \in {2, 4} THEN Number(Behind0x(w), 16) ELSE 0)
        [] w # <<>> /\ w[1] = "*"                 -> is("ref", Spelling(Tail(w)))
        [] OTHER                                  -> is("text", 0)

Lines(raw) == [n \in DOMAIN raw |-> [k \in DOMAIN raw[n] |-> Classified(raw[n][k], k)]]
=============================================================================
