----------------------------- MODULE Toolchain -----------------------------
(***************************************************************************)
(* "make run": the assembler reads a source file (ReadFile, SourceText)    *)
(* and writes a binary (Assembler), and if it leaves with status 0 the     *)
(* emulator (System) is started with it. The two processes share nothing   *)
(* but that file, which held an older binary before.                       *)
(***************************************************************************)
EXTENDS System

CONSTANTS
  Texts,          \* source files: text, the words meant by it, whether they
                  \* are correct, and what they print
  MAX_LINES, MAX_WORDS, MAX_LINE_LENGTH,
  UINT16_MAX,
  Before,         \* the older binary
  OutputFaults    \* TRUE iff removing, opening and writing the binary may fail

ASSUME ToolchainAssumption ==
  /\ \A t \in Texts : t.text \in Seq(STRING)
  /\ MAX_LINES \in Nat \ {0} /\ MAX_WORDS \in Nat \ {0}
  /\ UINT16_MAX \in Word \ {0}
  /\ MAX_LINE_LENGTH \in Nat \ {0, 1}
  /\ OutputFaults \in BOOLEAN
  /\ Missing \notin Seq(Nat)

VARIABLES
  source, at, line, p, word, words, raw, reading,   \* of ReadFile
  src, lineno, wordno, roffset, symbols, main_symbol, binary, reloc_offsets, out, phase,
                                                    \* of Assembler
  make  \* read, assemble, emulate, or stopped: a command has failed

Reader == INSTANCE ReadFile WITH Files <- Texts, file <- source
Asm    == INSTANCE Assembler WITH Sources <- {<<>>}, i <- lineno, j <- wordno
Text   == INSTANCE SourceText

reader    == <<source, at, line, p, word, words, raw, reading>>
assembler == <<src, lineno, wordno, roffset, symbols, main_symbol, binary, reloc_offsets, out, phase>>
varsT     == <<varsS, reader, assembler, make>>

-----------------------------------------------------------------------------
read_file ==
  /\ make = "read"
  /\ Reader!Next
  /\ UNCHANGED <<varsS, assembler, make>>

(* main goes on with raw[].                                                *)
Assemble ==
  /\ make = "read" /\ reading = "read"
  /\ src' = Text!Lines(raw)
  /\ make' = "assemble"
  /\ UNCHANGED <<varsS, reader, lineno, wordno, roffset, symbols, main_symbol,
                 binary, reloc_offsets, out, phase>>

main_assembler ==
  /\ make = "assemble"
  /\ Asm!Next
  /\ UNCHANGED <<varsS, reader, make>>

(* Exit status 0.                                                          *)
Succeeded == phase = "written"

(* The emulator opens what is in the file now.                             *)
Emulate ==
  /\ make = "assemble" /\ Succeeded
  /\ file' = out
  /\ make' = "emulate"
  /\ UNCHANGED <<vars, initialised, argv, i, main, offset, rloc, load,
                 reader, assembler>>

Stop ==
  /\ make = "assemble"
  /\ phase \in {"failed", "unopened", "crash", "wild"}
  /\ make' = "stopped"
  /\ UNCHANGED <<varsS, reader, assembler>>

main_emulator ==
  /\ make = "emulate"
  /\ NextS
  /\ UNCHANGED <<reader, assembler, make>>

InitT == InitS /\ Reader!Init /\ Asm!Init /\ make = "read"

NextT == read_file \/ Assemble \/ main_assembler \/ Emulate \/ Stop \/ main_emulator

(* make waits for its commands, and they wait for nothing but the terminal.*)
SpecT == InitT /\ [][NextT]_varsT /\ WF_varsT(NextT)

-----------------------------------------------------------------------------
(* What the author has written, without read_file.                         *)
Meant == Text!Lines([n \in DOMAIN source.meant |-> Reader!First(source.meant[n], MAX_WORDS)])

MeantBinary == Text!ExecutableOf(Meant)

IsWord(w) == /\ w.chars \in Text!Chars
             /\ CASE w.kind = "op"               -> w.val \in 0 .. Text!STR
                  [] w.kind = "reg"              -> w.val \in Text!RegNumbers
                  [] w.kind = "hex4"             -> w.val \in Text!Halfwords
                  [] w.kind \in {"label", "ref"} -> w.val \in STRING
                  [] OTHER -> w.kind \in Text!OtherKinds /\ w.val \in Nat

(* The passes of the assembler start on the words the author has written,  *)
(* in the layout they agree on, however many turns read_file has taken.    *)
ReadAsMeant ==
  make # "read" => /\ src = Meant
                   /\ \A n \in DOMAIN src : \A k \in DOMAIN src[n] : IsWord(src[n][k])
                   /\ Text!Plain(src)

(* The emulator is started on sources without a mistake and on no other.   *)
RunsCorrectSources ==
  /\ make = "emulate" => source.correct
  /\ make = "stopped" => ~source.correct \/ phase = "unopened"

(* The emulator gets what the source means or, if the disk was full, the   *)
(* beginning of it: never anything of the older binary, even if that could *)
(* not be removed.                                                         *)
NothingStale == make = "emulate" => IsPrefix(file, MeantBinary)

(* The assembler could write the binary to its end, and code follows the   *)
(* label main: one that no code follows has no address in the code.        *)
Whole == /\ make = "emulate" /\ Len(file) = Len(MeantBinary)
         /\ Text!Meaning(Meant, "main") < Text!Offset(Meant, Len(Meant) + 1)

(* What the two programs take the file to be is the same thing: a whole    *)
(* binary is a header, a table and code as binload reads them, and its     *)
(* relocations are disjoint words of the code.                             *)
HandsOverLoadable == Whole => Load!WellFormed

(* The code of the words in src is in memory, its references are the       *)
(* addresses of what their labels stand for, and the core is at main.      *)
Linked ==
  LET base    == Load!Address(Text!HEADER + 2 * Len(Text!RelocationsOf(src)))
      code    == Text!CodeOf(src)
      Patched == {Text!RelocationsOf(src)[k] : k \in DOMAIN Text!RelocationsOf(src)}
  IN  /\ pc = base + Text!Meaning(src, "main")
      /\ \A k \in DOMAIN code : {k - 1, k - 2} \cap Patched = {} => mem[base + k - 1] = code[k]
      /\ \A n \in DOMAIN src :
           LET operands == Text!Operands(src[n])
               behind(k) == base + Text!Offset(src, n) + 1 + Text!Widths(operands, k - 1)
           IN  Text!IsCode(src[n]) /\ ~Text!IsStr(src[n]) =>
                 \A k \in DOMAIN operands : operands[k].kind = "ref" =>
                   Load!word(behind(k)) = base + Text!Meaning(src, operands[k].val)

(* Assembler and binload together are a linker: when the core starts on a  *)
(* whole binary, every reference the author has written is the address of  *)
(* the code behind its label.                                              *)
StartsLinked == [][load # "exec" /\ load' = "exec" /\ Whole => Linked']_varsT

(* The text an author has written in quotes arrives at the terminal: a     *)
(* program whose binary is whole prints what its source says, through      *)
(* tokenizer, label offsets, relocation, call and device.                  *)
PrintsWhatIsWritten ==
  status = "halt" /\ file = MeantBinary => stdout = source.prints

(* make comes to an end: a command fails, or the program halts, unless its *)
(* binary has been cut short.                                              *)
MakeEnds == <>(\/ make = "stopped" \/ status = "halt"
               \/ make = "emulate" /\ file # MeantBinary)
=============================================================================
