------------------------------ MODULE MCCalls ------------------------------
(***************************************************************************)
(* Calls on every program of a family: the main part runs one instruction, *)
(* calls f, runs another one and halts; f runs two instructions and        *)
(* returns; g runs one and returns. The free instructions push, pop, call  *)
(* f or g, return, write to registers, memory and devices, keeping the     *)
(* rules or breaking them. The stack has room for two frames and six bytes.*)
(***************************************************************************)
EXTENDS Calls, Encoding

MCIoSize == 3
MCFloor == 42
MCMemorySize == MCFloor + 2 * FRAME + 6
MCUninitWords == {4660}
MCInBytes == {}
MCIoMaps == {[a \in 0 .. MCIoSize - 1 |-> IF a = 1 THEN Template ELSE Unmapped]}

G == MCIoSize + HEADER
F == G + 5

SetUp == { Ins(OP_PUSH, <<I(7)>>), Ins(OP_MHML, <<I(9), I(1)>>), Ins(OP_DEC, <<R(A)>>) }

Leaf ==
  { Ins(OP_PUSH, <<R(A)>>),          Ins(OP_POP, <<R(A + 1)>>),
    Ins(OP_INC, <<R(A)>>),           Ins(OP_NOT, <<R(GA)>>),
    Ins(OP_LOAD, <<R(A)>> \o Addr(0)) }

Free == Leaf \cup
  { Ins(OP_PUSH, <<I(5)>>),          Ins(OP_POP, <<I(3)>>),
    Ins(OP_MHML, <<R(A), I(3)>>),    Ins(OP_CMP, <<R(A), R(A + 1)>>),
    Ins(OP_DIV, <<R(A), R(A + 1)>>), Ins(OP_STORE, <<R(A)>> \o Addr(1)),
    Ins(OP_CALL, Addr(F)),           Ins(OP_CALL, Addr(G)),
    Ins(OP_CALLNE, Addr(G)),         Ins(OP_CALLE, Addr(G)),
    Ins(OP_RET, <<>>),               Ins(OP_INC, <<R(SP0)>>) }

(* g has a fixed length: its free instruction is followed by rets.         *)
Program(s1, s2, t1, t2, u) ==
  LET ret  == Ins(OP_RET, <<>>)
      g    == u \o [k \in 1 .. 5 - Len(u) |-> ret[1]]
      f    == t1 \o t2 \o ret
      main == s1 \o Ins(OP_CALL, Addr(F)) \o s2 \o Ins(OP_HLT, <<>>)
  IN  Image(g \o f \o main, F + Len(f), MCIoSize, MCMemorySize)

MCImages == {Program(s1, s2, t1, t2, u) :
               s1 \in SetUp, s2 \in Leaf, t1, t2 \in Free, u \in Leaf}

(* Nothing is promised, and nothing explored, once a rule is broken.       *)
Explored == kept

(* The core never runs into the middle of an instruction: what a handler   *)
(* consumes, what a failed condition skips and where a RET resumes agree   *)
(* with the operand bytes the assembler lays out for the opcode.           *)
AtInstruction == kept /\ status = "run" => pc \in InstructionStarts(mem, G, MCFloor - 1)
=============================================================================
