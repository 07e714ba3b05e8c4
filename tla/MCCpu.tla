------------------------------- MODULE MCCpu -------------------------------
(***************************************************************************)
(* Cpu on three families of programs, all starting with mov a x, mov b y:  *)
(* laws undo or recompute what they did to a, branches act on a comparison *)
(* and report on the serial line which way they went, and edges meet the   *)
(* ends of the address space, the devices and undefined behaviour.         *)
(***************************************************************************)
EXTENDS Cpu, Encoding

MCIoSize == 4
MCMemorySize == 80
MCInBytes == {7}
MCUninitWords == {0, 4660}
MCIoMaps == {[a \in 0 .. MCIoSize - 1 |-> CASE a = 1 -> Template
                                            [] a = 2 -> Serial
                                            [] OTHER -> Unmapped]}

B == A + 1
C == A + 2
Template1 == Addr(1)
Serial2   == Addr(2)
Scratch   == Addr(MCMemorySize - 30)

(* The programs' code starts right behind the header.                      *)
Code == MCIoSize + HEADER

Start(x, y) == Ins(OP_MOV, <<R(A), I(x)>>) \o Ins(OP_MOV, <<R(B), I(y)>>)
Stop        == Ins(OP_HLT, <<>>)
Body        == Code + Len(Start(0, 0))

Program(code) == Image(code \o Stop, Code, MCIoSize, MCMemorySize)

Op1(op, r)     == Ins(op, <<R(r)>>)
Op2(op, r1, r2) == Ins(op, <<R(r1), R(r2)>>)

Values == {0, 1, 100, 127, 128, 255}

-----------------------------------------------------------------------------
(* Laws: instruction sequences that leave a as they found it, x.           *)
Laws(x, y) ==
  { Op2(OP_ADD, A, B) \o Op2(OP_SUB, A, B),
    Op1(OP_INC, A) \o Op1(OP_DEC, A),
    (* y - (-x + y) *)
    Op1(OP_NOT, A) \o Op1(OP_INC, A) \o Op2(OP_ADD, A, B) \o Op2(OP_SUB, B, A)
      \o Op2(OP_MOV, A, B),
    (* a and b exchanged by three xors *)
    Op2(OP_XOR, A, B) \o Op2(OP_XOR, B, A) \o Op2(OP_XOR, A, B) \o Op2(OP_MOV, A, B),
    (* (x or y) - y + (x and y) *)
    Op2(OP_MOV, C, A) \o Op2(OP_AND, C, B) \o Op2(OP_OR, A, B) \o Op2(OP_SUB, A, B)
      \o Op2(OP_ADD, A, C),
    (* De Morgan *)
    Op2(OP_MOV, C, A) \o Op2(OP_OR, C, B) \o Op1(OP_NOT, A) \o Op1(OP_NOT, B)
      \o Op2(OP_AND, A, B) \o Op1(OP_NOT, A) \o Op2(OP_XOR, A, C)
      \o Ins(OP_ADD, <<R(A), I(x)>>),
    (* through the stack, memory and the template device and back *)
    Op1(OP_PUSH, A) \o Op1(OP_PUSH, B) \o Op1(OP_POP, A) \o Op1(OP_POP, A),
    Ins(OP_STORE, <<R(A)>> \o Scratch) \o Op1(OP_NOT, A) \o Ins(OP_LOAD, <<R(A)>> \o Scratch),
    Ins(OP_STORE, <<R(A)>> \o Template1) \o Op1(OP_NOT, A) \o Ins(OP_LOAD, <<R(A)>> \o Template1),
    Ins(OP_MHML, Scratch) \o Op1(OP_STORELH, A) \o Op1(OP_NOT, A) \o Op1(OP_LOADLH, A) }
  \cup
  (* x = y * (x / y) + r with r < y; a is spoilt when r is not less than y *)
  IF y = 0 THEN {}
  ELSE { Op2(OP_MOV, C, A) \o Op2(OP_DIV, C, B) \o Op2(OP_MUL, C, B) \o Op2(OP_SUB, A, C)
           \o Op2(OP_CMP, A, B) \o Ins(OP_JL, Addr(Body + 20)) \o Op1(OP_INC, A)
           \o Op2(OP_ADD, A, C) }

LawImages ==
  UNION {{Program(Start(x, y) \o law) : law \in Laws(x, y)} : x, y \in Values}

-----------------------------------------------------------------------------
(* Branches: compare, branch, and report on the serial line.               *)
Report(v) == Ins(OP_STORE, <<I(v)>> \o Serial2)
Yes == 89
No  == 78

Branch(op, x, y) ==
  Program(Start(x, y) \o Op2(OP_CMP, A, B) \o Ins(op, Addr(Body + 11))
            \o Report(No) \o Stop \o Report(Yes))

BranchImages == {Branch(op, x, y) : op \in Jumps \cup Calls, x, y \in Values}

-----------------------------------------------------------------------------
(* Edges: two of the following, one after the other.                       *)
Edge ==
  { Ins(OP_STORE, <<I(5)>> \o Addr(MCMemorySize)),  Ins(OP_LOAD, <<R(A)>> \o Addr(MCMemorySize)),
    Ins(OP_LOAD, <<R(A)>> \o Addr(0)),              Ins(OP_STORE, <<I(3)>> \o Addr(40000)),
    Ins(OP_LOAD, <<I(9)>> \o Serial2),              Ins(OP_STORE, <<I(127)>> \o Serial2),
    Ins(OP_MHML, <<R(A), R(ML)>>),                  Ins(OP_MHML, Serial2),
    Op1(OP_STORELH, A),                             Op1(OP_LOADLH, SP0),
    Ins(OP_MOV, <<R(SP0), I(3)>>),                  Ins(OP_MOV, <<R(SP1), I(0)>>),
    Op1(OP_PUSH, A),                                Op1(OP_POP, SP0),
    Ins(OP_POP, <<I(1)>>),                          Ins(OP_INC, <<I(255)>>),
    Ins(OP_CALL, Addr(Code)),                       Ins(OP_RET, <<>>),
    Ins(OP_CALLG, Addr(Code)),                      Ins(OP_DIV, <<R(A), R(B)>>),
    Ins(OP_JMP, Addr(MCMemorySize - 3)),            Ins(OP_JMP, Addr(MCIoSize + 1)),
    Ins(OP_MOV, <<R(255), I(1)>>),                  Ins(OP_MOV, <<R(200), I(1)>>) }

(* The last global register counts the turns of a program that loops.      *)
Turns == GA + 7

EdgeImages == {Program(Op1(OP_INC, Turns) \o e1 \o e2) : e1, e2 \in Edge}

MCImages == LawImages \cup BranchImages \cup EdgeImages

-----------------------------------------------------------------------------
IsEdge   == mem[Code] % 32 # OP_MOV
IsBranch == ~IsEdge /\ mem[Body] % 32 = OP_CMP
Given(k) == mem[Code + 3 * k - 1]

(* The arithmetic, logic, data and stack instructions fit together: a      *)
(* value survives being taken apart and put together again in every way    *)
(* the laws do it, wrap-around included.                                   *)
LawsHold == status = "halt" /\ ~IsEdge /\ ~IsBranch => reg[A] = Given(1)

(* CMP and each of the ten branching instructions agree on the order of    *)
(* two bytes: JE/CALLE act exactly on =, JNE/CALLNE on #, JG/CALLG on > and*)
(* JL/CALLL on <, as unsigned numbers; the instruction behind an untaken   *)
(* one is executed next.                                                   *)
BranchesFollowOrder ==
  status = "halt" /\ IsBranch =>
    LET op == mem[Body + 3]
        x  == Given(1)
        y  == Given(2)
        holds == CASE op \in {OP_JE, OP_CALLE}   -> x = y
                   [] op \in {OP_JNE, OP_CALLNE} -> x # y
                   [] op \in {OP_JG, OP_CALLG}   -> x > y
                   [] op \in {OP_JL, OP_CALLL}   -> x < y
                   [] OTHER                      -> TRUE
    IN  stdout = IF holds THEN <<Yes>> ELSE <<No>>

(* Edge programs that jump or return to their beginning are cut after      *)
(* three turns.                                                            *)
Bounded == reg[Turns] <= 3

-----------------------------------------------------------------------------
(* Sums: the four arithmetic instructions on two registers other than a.   *)
Sum(op, x, y) ==
  Program(Ins(OP_MOV, <<R(B), I(x)>>) \o Ins(OP_MOV, <<R(C), I(y)>>) \o Op2(op, B, C))

SumImages == {Sum(op, x, y) : op \in OP_ADD .. OP_DIV, x \in Values, y \in Values \ {0}}

(* The manual's instruction table: ADD, SUB, MUL and DIV leave their result*)
(* in a, the accumulator.                                                  *)
ResultInAccumulator ==
  status = "halt" =>
    LET op == mem[Body] % 32
        x  == Given(1)
        y  == Given(2)
    IN  reg[A] = CASE op = OP_ADD -> (x + y) % 256
                   [] op = OP_SUB -> (x - y) % 256
                   [] op = OP_MUL -> (x * y) % 256
                   [] op = OP_DIV -> x \div y
=============================================================================
