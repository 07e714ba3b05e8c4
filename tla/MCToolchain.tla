---------------------------- MODULE MCToolchain ----------------------------
(***************************************************************************)
(* Toolchain on meow.asm, on helloworld.asm and on variants of both, with  *)
(* the real I/O window, limits and command line; the memory has half a     *)
(* KiB. The older binary is longer than all new ones.                      *)
(***************************************************************************)
EXTENDS Toolchain

MCMemorySize == 512
MCIoSize     == 255
MCInBytes    == {}
MCUninitWords == {0}
MCImages == {}
MCIoMaps == {}
MCLibrary ==
  [d \in Devices |->
     [access |-> TRUE, opens |-> TRUE,
      exports |-> {"device_offset", "device_read", "device_write", "device_init"},
      offsets |-> IF d = Serial THEN <<192>> ELSE <<1>>]]
MCArgvs   == {<<"-device", Serial, "test.bin">>}

MCMaxLines      == 1000
MCMaxWords      == 6
MCMaxLineLength == 126

A10 == <<Text!Op(6), Text!Reg(0), Text!Num(10)>>
MCBefore == Text!ExecutableOf(<<<<Text!Label("main")>>>> \o [n \in 1 .. 60 |-> A10] \o <<<<Text!Op(0)>>>>)
MCContent == [q \in {"test.bin"} |-> MCBefore]

-----------------------------------------------------------------------------
(* A line as its text and the words it means; a source without a mistake   *)
(* prints something.                                                       *)
L(text_, words_) == [as |-> text_, means |-> words_]
N(text_)         == L(text_, <<>>)

Listing(lines, printed) == [lines |-> lines, prints |-> printed]

SourceOf(s) ==
  [text   |-> Text!CharsOf(FoldLeft(LAMBDA t, l : t \o l.as, "", s.lines)),
   meant  |-> [n \in DOMAIN s.lines |->
                 [k \in DOMAIN s.lines[n].means |-> Text!CharsOf(s.lines[n].means[k])]],
   correct |-> s.prints # <<>>,
   prints |-> s.prints]

MainLine == L("main:\n", <<"main:">>)

(* meow.asm; it lacks its last newline and a halt, and runs into the zeros *)
(* behind its code.                                                        *)
Meow == Listing(<<MainLine, L("\tmov   a 0x0A\n", <<"mov", "a", "0x0A">>),
                   L("\tstore a 0x00C0", <<"store", "a", "0x00C0">>)>>, <<10>>)

(* helloworld.asm, with a mnemonic for its limm and a text for its string. *)
Hello(limm, string, meant, printed) == Listing(
  << MainLine,
     L("\tmhml *hellostring\n", <<"mhml", "*hellostring">>),
     L("\tcall  *printf\n", <<"call", "*printf">>),
     L("\thalt\n", <<"halt">>), N("\n"),
     L("hellostring:\n", <<"hellostring:">>),
     L("\tstr " \o string \o "\n", <<"str">> \o meant), N("\n"),
     L("printf:\n", <<"printf:">>),
     L("\t" \o limm \o "  c    0x00\t\t\t\t; NULL termination\n", <<limm, "c", "0x00", ";", "NULL", "termination">>),
     L("printfloop:\n", <<"printfloop:">>),
     L("\tllh   b\t\t\t\t\t\t; Loading character at the memory address\n",
       <<"llh", "b", ";", "Loading", "character", "at", "the", "memory", "address">>),
     L("\tstore b   0x00C0\t\t\t; Writing the character to the serial device\n",
       <<"store", "b", "0x00C0", ";", "Writing", "the", "character", "to", "the", "serial", "device">>),
     L("\tinc   ml\t\t\t\t\t; Incrementing the high bit of the memory address\n",
       <<"inc", "ml", ";", "Incrementing", "the", "high", "bit", "of", "the", "memory", "address">>),
     L("\tcmp   b   c\t\t\t\t\t; Comparing the character and check if its a null termination\n",
       <<"cmp", "b", "c", ";", "Comparing", "the", "character", "and", "check", "if", "its", "a",
         "null", "termination">>),
     L("\tjne   *printfloop\t\t\t; If its not do a reloop and if it is return to the caller\n",
       <<"jne", "*printfloop", ";", "If", "its", "not", "do", "a", "reloop", "and", "if", "it", "is",
         "return", "to", "the", "caller">>),
     L("\tret", <<"ret">>) >>, printed)

HelloWorld(limm, printed) ==
  Hello(limm, "\"Hello, World!\\n\\n\"", <<"Hello, World!\n\n">>, printed)

HelloText == <<72, 101, 108, 108, 111, 44, 32, 87, 111, 114, 108, 100, 33, 10, 10, 0>>

(* A text with a remark, quotes and a backslash in it.                     *)
Quoting == Hello("mov", "\"a; \\\"*a\\\"\\\\\" ; remark", <<"a; \"*a\"\\", ";", "remark">>,
                 <<97, 59, 32, 34, 42, 97, 34, 92, 0>>)

(* Operands in other forms, and a branch that depends on an order.         *)
Forms == Listing(
  << L("main:\n", <<"main:">>), L("mov cmp 266 \n", <<"mov", "cmp", "266">>),
     L("store cmp 0x00c0\r\n", <<"store", "cmp", "0x00c0">>),
     L("cmp a 1\n", <<"cmp", "a", "1">>), L("jl *behind\n", <<"jl", "*behind">>),
     L("store cmp 0x00C0\n", <<"store", "cmp", "0x00C0">>), L("behind:\n", <<"behind:">>),
     L("mhml 0x00C0 ; twice\n", <<"mhml", "0x00C0", ";", "twice">>), L("slh 0X41", <<"slh", "0X41">>) >>,
  <<10, 65>>)

Mistaken ==
  { HelloWorld("limm", <<>>),
    Listing(<<MainLine, L("mov a\n", <<"mov", "a">>)>>, <<>>),
    Listing(<<MainLine, L("jmp *mian\n", <<"jmp", "*mian">>)>>, <<>>),
    Listing(<<L("mian:\n", <<"mian:">>), L("halt\n", <<"halt">>)>>, <<>>) }

Listings == {Meow, HelloWorld("mov", HelloText), Quoting, Forms} \cup Mistaken

MCTexts == {SourceOf(s) : s \in Listings}

(* A line in the terms of ReadFile: in front of a word is its gap, and     *)
(* behind the last one the end of the line.                                *)
Written(l) ==
  LET s == Text!CharsOf(l.as)
      next(d, w) ==
        LET gap == SelectInSeq(SubSeq(s, d.at, Len(s)), LAMBDA c : c \notin Reader!Space) - 1
            q   == s[d.at + gap] = Reader!Quote
        IN  [at    |-> d.at + gap + Len(IF q THEN Reader!InQuotes(Text!CharsOf(w)) ELSE Text!CharsOf(w)),
             words |-> Append(d.words, [gap    |-> SubSeq(s, d.at, d.at + gap - 1),
                                        quoted |-> q, means |-> Text!CharsOf(w)])]
      all == FoldLeft(next, [at |-> 1, words |-> <<>>], l.means)
  IN  [words |-> all.words, end |-> SubSeq(s, all.at, Len(s))]

(* The author has written all of them so as to mean these words.           *)
ASSUME SourcesAreWritings ==
  \A s \in Listings :
    LET ls == [n \in DOMAIN s.lines |-> Written(s.lines[n])]
    IN  /\ ls \in Reader!Writings
        /\ SourceOf(s).text = Reader!TextOf(ls) /\ SourceOf(s).meant = Reader!MeantBy(ls)

(* A program whose binary is cut short may print for ever.                 *)
ShortOutput == Len(stdout) <= 20
=============================================================================
