----------------------------- MODULE Assembler -----------------------------
(***************************************************************************)
(* Sean816Asm: main of Sean816Asm/main.c over the lines read_file leaves   *)
(* in raw[]. The first pass gives the labels their offsets, counting one   *)
(* word at a time; the second emits the code, one line at a time. Nothing  *)
(* but the counting keeps the two in step.                                 *)
(***************************************************************************)
EXTENDS Assembly

CONSTANTS
  Sources,     \* the files given, as sequences of lines
  MAX_LINES,   \* lines that are kept; 1000 in code.h
  MAX_WORDS,   \* words of a line that are kept; 6
  UINT16_MAX,  \* size of binary[] and final_binary[], and the largest offset
  Before,      \* what the output file held before, or NoFile
  OutputFaults \* TRUE iff removing, opening and writing it may fail

ASSUME AssemblerAssumption == /\ Sources \subseteq Seq(Seq(Words))
                              /\ MAX_LINES \in Nat \ {0}
                              /\ MAX_WORDS \in Nat \ {0}
                              /\ UINT16_MAX \in Nat \ {0}
                              /\ OutputFaults \in BOOLEAN

VARIABLES
  src,           \* raw[]
  i, j,          \* line and word the pass is at
  roffset,       \* offset of the code the first pass has come to
  symbols,       \* names and offsets of the labels, in order
  main_symbol,   \* offset of main, or NoMain
  binary,        \* the code emitted so far; its length is the roffset of the second pass
  reloc_offsets, \* where it refers to labels
  out,           \* the output file, or NoFile
  phase          \* first, second; written: exit status 0; failed and unopened:
                 \* 1; crash and wild: undefined

varsA == <<src, i, j, roffset, symbols, main_symbol, binary, reloc_offsets, out, phase>>

NoMain == UINT16_MAX
NoFile == <<>>
Wrapped(n) == n % (UINT16_MAX + 1)

(* read_file keeps that many lines, and that many words of a line.         *)
Cut(s, n)  == SubSeq(s, 1, IF Len(s) < n THEN Len(s) ELSE n)
Kept(file) == [n \in DOMAIN Cut(file, MAX_LINES) |-> Cut(file[n], MAX_WORDS)]

line(n) == IF n \in DOMAIN src THEN src[n] ELSE <<>>

-----------------------------------------------------------------------------
(* The first pass                                                          *)

AtWord(kinds) == /\ phase = "first" /\ i <= Len(src)
                 /\ j <= Len(line(i))
                 /\ line(i)[j].kind \in kinds

Counted == {"op", "reg", "num", "hex2", "hex4", "wide", "hex", "ref", ";text", "text"}

CountWord ==
  /\ AtWord(Counted)
  /\ roffset' = Wrapped(roffset + Width(line(i)[j]))
  /\ j' = j + 1
  /\ UNCHANGED <<src, i, symbols, main_symbol, binary, reloc_offsets, out, phase>>

(* What a label counts for the first word of the line behind it, which the *)
(* pass jumps over: the opcode, or a string without its terminator.        *)
CountedBehind(next) == IF next # <<>> /\ IsStr(next) THEN Len(next[2].chars) ELSE 1

(* The pass goes on in the next line, at the word behind the label's       *)
(* position.                                                               *)
CountLabel ==
  /\ AtWord({"label"})
  /\ i < MAX_LINES
  /\ IsStr(line(i + 1)) => Len(line(i + 1)) > 1
  /\ LET name == line(i)[j].val
     IN  /\ symbols' = Append(symbols, [name |-> name, offset |-> roffset])
         /\ main_symbol' = IF main_symbol = NoMain /\ name = "main" THEN roffset ELSE main_symbol
  /\ roffset' = Wrapped(roffset + CountedBehind(line(i + 1)))
  /\ i' = i + 1
  /\ j' = j + 1
  /\ UNCHANGED <<src, binary, reloc_offsets, out, phase>>

(* strlen of a word that is not there.                                     *)
CountMissingString ==
  /\ AtWord({"label"})
  /\ i < MAX_LINES
  /\ IsStr(line(i + 1)) /\ Len(line(i + 1)) = 1
  /\ phase' = "crash"
  /\ UNCHANGED <<src, i, j, roffset, symbols, main_symbol, binary, reloc_offsets, out>>

(* A label in the last line raw[] has room for.                            *)
LookBehindRaw ==
  /\ \/ AtWord({"label"})
     \/ phase = "second" /\ i <= Len(src) /\ IsLabel(line(i))
  /\ i = MAX_LINES
  /\ phase' = "wild"
  /\ UNCHANGED <<src, i, j, roffset, symbols, main_symbol, binary, reloc_offsets, out>>

CountedLine ==
  /\ phase = "first" /\ i <= Len(src)
  /\ j > Len(line(i)) \/ AtWord({";"})
  /\ i' = i + 1
  /\ j' = 1
  /\ UNCHANGED <<src, roffset, symbols, main_symbol, binary, reloc_offsets, out, phase>>

SecondPass ==
  /\ phase = "first" /\ i > Len(src)
  /\ phase' = "second"
  /\ i' = 1
  /\ UNCHANGED <<src, j, roffset, symbols, main_symbol, binary, reloc_offsets, out>>

-----------------------------------------------------------------------------
(* The second pass                                                         *)

(* Faulty variant of param: a label or an address counts as one byte.      *)
param_words(l) == Len(Operands(l))

(* enoughParam counts the operand bytes the words in front of a remark     *)
(* will take; that there are at most three of them leaves at most three    *)
(* words, as many as main looks at.                                        *)
param(l) == Widths(Operands(l), Len(Operands(l)))

Named(x) == {k \in DOMAIN symbols : symbols[k].name = x}

(* Faulty variant of insertSymbolAddress: the last label of a name counts. *)
insertSymbolAddress_last(x) == symbols[CHOOSE k \in Named(x) : \A m \in Named(x) : m <= k].offset

(* The offset stored for a reference.                                      *)
insertSymbolAddress(x) == symbols[CHOOSE k \in Named(x) : \A m \in Named(x) : k <= m].offset

(* An operand: its bytes, and the signature bits they set. Whatever looks  *)
(* like a register or a number is one, behind str too.                     *)
Known(w, str) == \/ w.kind \in {"reg", "num", "hex2", "hex4", "wide"}
                 \/ str /\ w.kind # "hex"
                 \/ w.kind = "ref" /\ Named(w.val) # {}

Bytes(w, str) == CASE w.kind = "reg"              -> <<w.val>>
                   [] w.kind \in {"hex2", "num"}   -> <<w.val % 256>>
                   [] w.kind \in {"hex4", "wide"}  -> Word2(w.val)
                   [] str /\ w.kind \in {"op", "label", "ref", "text"} -> w.chars \o <<0>>
                   [] OTHER                       -> Word2(insertSymbolAddress(w.val))

operandsig(w) == CASE w.kind = "reg"                     -> <<1>>
                   [] w.kind \in {"hex2", "num"}          -> <<0>>
                   [] w.kind \in {"hex4", "wide", "ref"}  -> <<0, 0>>
                   [] OTHER                              -> <<1>>

(* The line main assembles when it is at line i: behind a label, the next. *)
Assembled == IF IsLabel(line(i)) THEN i + 1 ELSE i
input     == Operands(line(Assembled))
IsString  == IsStr(line(Assembled))

AtLine == /\ phase = "second" /\ i <= Len(src)
          /\ Uncommented(line(i)) # <<>>
          /\ IsLabel(line(i)) => i < MAX_LINES

Skip(n) == /\ i' = i + n
           /\ UNCHANGED <<src, j, roffset, symbols, main_symbol, binary, reloc_offsets, out, phase>>

SkipLine == /\ phase = "second" /\ i <= Len(src)
            /\ Uncommented(line(i)) = <<>>
            /\ Skip(1)

(* A blank line behind a label takes the line behind it along.             *)
SkipBehindLabel == /\ AtLine
                   /\ line(Assembled) = <<>>
                   /\ Skip(3)

enoughParam == /\ line(Assembled)[1].kind = "op"
               /\ param(line(Assembled)) = IF IsString THEN 1
                                           ELSE Parameters[line(Assembled)[1].val]

Unknown == {k \in DOMAIN input : ~Known(input[k], IsString)}

(* The operands in front of the first of no known form.                    *)
Through == IF Unknown = {} THEN input
           ELSE SubSeq(input, 1, (CHOOSE k \in Unknown : \A m \in Unknown : k <= m) - 1)

sig     == FlattenSeq([k \in DOMAIN Through |-> operandsig(Through[k])])
Code(s) == FlattenSeq([k \in DOMAIN s |-> Bytes(s[k], IsString)])

Opcode == LET bit(k) == IF k <= Len(sig) THEN sig[k] ELSE 0
          IN  line(Assembled)[1].val + 32 * bit(1) + 64 * bit(2) + 128 * bit(3)

Emitted == (IF IsString THEN <<>> ELSE <<Opcode>>) \o Code(Through)

(* binary[] has no room for the line, or operandsig[] none for its         *)
(* signature, the bit of an operand of no known form included.             *)
Overruns == \/ Len(binary) + Len(Emitted) > UINT16_MAX
            \/ Len(sig) + (IF Unknown = {} THEN 0 ELSE 1) > 3

(* Where the line refers to labels.                                        *)
Relocated ==
  FlattenSeq([k \in DOMAIN input |->
                IF input[k].kind = "ref" /\ ~IsString
                THEN <<Len(binary) + 1 + Len(Code(SubSeq(input, 1, k - 1)))>> ELSE <<>>])

Emit ==
  /\ AtLine
  /\ line(Assembled) # <<>> /\ enoughParam
  /\ Unknown = {} /\ ~Overruns
  /\ reloc_offsets' = reloc_offsets \o Relocated
  /\ binary' = binary \o Emitted
  /\ i' = Assembled + 1
  /\ UNCHANGED <<src, j, roffset, symbols, main_symbol, out, phase>>

Overrun ==
  /\ AtLine
  /\ line(Assembled) # <<>> /\ enoughParam
  /\ Overruns
  /\ phase' = "wild"
  /\ UNCHANGED <<src, i, j, roffset, symbols, main_symbol, binary, reloc_offsets, out>>

(* Exit status 1: no such operation, a wrong number of operands, or an     *)
(* operand of no known form.                                               *)
Reject ==
  /\ AtLine
  /\ line(Assembled) # <<>>
  /\ enoughParam => Unknown # {} /\ ~Overruns
  /\ phase' = "failed"
  /\ UNCHANGED <<src, i, j, roffset, symbols, main_symbol, binary, reloc_offsets, out>>

-----------------------------------------------------------------------------
(* The output                                                              *)

AtEnd == phase = "second" /\ i > Len(src)

final_binary == Executable(binary, reloc_offsets, main_symbol)

NoMainSymbol ==
  /\ AtEnd /\ main_symbol = NoMain
  /\ phase' = "failed"
  /\ UNCHANGED <<src, i, j, roffset, symbols, main_symbol, binary, reloc_offsets, out>>

OverrunFinal ==
  /\ AtEnd /\ main_symbol # NoMain
  /\ Len(final_binary) > UINT16_MAX
  /\ phase' = "wild"
  /\ UNCHANGED <<src, i, j, roffset, symbols, main_symbol, binary, reloc_offsets, out>>

(* Faulty variant of Opened: without O_TRUNC.                              *)
OpenedAsItWas(file) == file

(* open with O_TRUNC: nothing is left of a file that was not removed.      *)
Opened(file) == <<>>

Overwritten(file, bytes) == bytes \o SubSeq(file, Len(bytes) + 1, Len(file))

(* remove, open and write, whose result nobody looks at.                   *)
Finish ==
  /\ AtEnd /\ main_symbol # NoMain
  /\ Len(final_binary) <= UINT16_MAX
  /\ \E removed \in IF OutputFaults THEN {NoFile, out} ELSE {NoFile} :
       \/ /\ OutputFaults
          /\ out' = removed
          /\ phase' = "unopened"
       \/ /\ \E n \in IF OutputFaults THEN 0 .. Len(final_binary) ELSE {Len(final_binary)} :
               out' = Overwritten(Opened(removed), SubSeq(final_binary, 1, n))
          /\ phase' = "written"
  /\ UNCHANGED <<src, i, j, roffset, symbols, main_symbol, binary, reloc_offsets>>

-----------------------------------------------------------------------------
Init ==
  /\ src \in {Kept(file) : file \in Sources}
  /\ i = 1 /\ j = 1
  /\ roffset = 0
  /\ symbols = <<>> /\ main_symbol = NoMain
  /\ binary = <<>> /\ reloc_offsets = <<>>
  /\ out = Before
  /\ phase = "first"

Next == \/ CountWord \/ CountLabel \/ CountMissingString \/ LookBehindRaw
        \/ CountedLine \/ SecondPass
        \/ SkipLine \/ SkipBehindLabel \/ Emit \/ Overrun \/ Reject
        \/ NoMainSymbol \/ OverrunFinal \/ Finish

Spec == Init /\ [][Next]_varsA

-----------------------------------------------------------------------------
(* A source in the plain layout is assembled to what it means: code,       *)
(* relocation table and entry, every label resolved to the offset of the   *)
(* code behind it, although the two passes never compare notes.            *)
AssemblesMeaning == phase = "written" /\ Plain(src) => out = ExecutableOf(src)

(* A source in the plain layout is rejected exactly if it has a mistake,   *)
(* and never runs into undefined behaviour unless it is too large. Nobody  *)
(* checks the size of the tables, and main at the largest offset passes    *)
(* for a missing main.                                                     *)
Verdict ==
  Plain(src) =>
    /\ phase = "written" => Correct(src) /\ SizeWithin(src, UINT16_MAX)
    /\ phase \in {"failed", "crash"} => ~Correct(src) \/ ~SizeWithin(src, UINT16_MAX)
    /\ phase = "wild" => \/ Len(src) = MAX_LINES /\ IsLabel(src[MAX_LINES])
                         \/ ~SizeWithin(src, UINT16_MAX)

(* Whatever its layout, in a source that is assembled a reference to a     *)
(* label leads to the code behind it.                                      *)
LabelsAligned ==
  phase = "written" =>
    \A n \in Labels(src) :
      LET x == src[n][1].val
      IN  Named(x) # {} => insertSymbolAddress(x) = Meaning(src, x)
=============================================================================
