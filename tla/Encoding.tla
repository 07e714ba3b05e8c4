------------------------------ MODULE Encoding ------------------------------
(***************************************************************************)
(* The machine code Sean816Asm emits for one instruction, and the memory   *)
(* image of a program as binload leaves it when nothing is relocated.      *)
(***************************************************************************)
EXTENDS Integers, SequencesExt

(* Operands as the assembler tells them apart: a register name gives its   *)
(* index with the signature bit set, a byte stands for itself, a 16-bit    *)
(* value or label gives two bytes, low byte first.                         *)
R(n) == [sig |-> 1, byte |-> n]
I(n) == [sig |-> 0, byte |-> n]
Addr(a) == <<I(a % 256), I(a \div 256)>>

(* The opcode byte carries the signature of the three operands in its top  *)
(* bits; the operand bytes follow.                                         *)
Ins(op, operands) ==
  LET sig(k) == IF k <= Len(operands) THEN operands[k].sig ELSE 0
  IN  <<op + 32 * sig(1) + 64 * sig(2) + 128 * sig(3)>>
        \o [k \in DOMAIN operands |-> operands[k].byte]

(* Operand bytes the assembler insists on, by opcode: halt and ret none,   *)
(* load and store three, and so on down the table of opcmp calls.          *)
Parameters ==
  [op \in 0 .. 30 |->
     IF op \in {0, 26} THEN 0
     ELSE IF op \in {1, 2} THEN 3
     ELSE IF op \in {4, 5, 11, 12, 19, 20, 30} THEN 1
     ELSE 2]

(* sizeof(sean816_rom_executable_header_t)                                 *)
HEADER == 8

(* The image of code in size bytes of memory, loaded at offset and entered *)
(* at entry. The file behind the header is the code; no relocations.       *)
Image(code, entry, offset, size) ==
  LET start == offset + HEADER
      bytes == <<127, 242, start % 256, start \div 256,
                 entry % 256, entry \div 256, 0, 0>> \o code
  IN  [mem   |-> [a \in 0 .. size - 1 |->
                    IF a \in offset .. offset + Len(bytes) - 1
                    THEN bytes[a - offset + 1] ELSE 0],
       entry |-> entry]

(* Where instructions start in the code between from and to, in memory m.  *)
InstructionStarts(m, from, to) ==
  LET starts[a \in from .. to + 1] ==
        IF a > to THEN {}
        ELSE LET next == a + 1 + Parameters[m[a] % 32]
             IN  {a} \cup IF next > to THEN {} ELSE starts[next]
  IN  starts[from]
=============================================================================
