----------------------------- MODULE CpuProofs -----------------------------
(***************************************************************************)
(* Type correctness of the core, for every size of memory and I/O window,  *)
(* every image, every device map and every behaviour of the terminal.      *)
(*                                                                         *)
(* TypeOK is inductive as it stands. The work is in the handlers: each     *)
(* value they compute has to fit the register or memory cell it goes to,   *)
(* through two kinds of operand pointer, the bus and the 14-byte frames of *)
(* CALL and RET.                                                           *)
(***************************************************************************)
EXTENDS Cpu, WellFoundedInduction, TLAPS

(* Bytes and words as inequalities. The provers unfold an interval with    *)
(* literal bounds element by element, so these facts stand for the         *)
(* definitions everywhere below.                                           *)
LEMMA AddressSpaceValue == AddressSpace = 65536
BY DEF AddressSpace

LEMMA ByteDef == \A v : v \in Byte <=> v \in Int /\ 0 <= v /\ v < 256
BY DEF Byte

LEMMA WordDef == \A v : v \in Word <=> v \in Int /\ 0 <= v /\ v < 65536
<1>1. \A v : v \in Word <=> v \in Int /\ 0 <= v /\ v <= AddressSpace - 1
  BY DEF Word
<1> QED
  BY <1>1, AddressSpaceValue

LEMMA WordSplit ==
  ASSUME NEW w \in Word
  PROVE  Lo(w) \in Byte /\ Hi(w) \in Byte /\ W16(Hi(w), Lo(w)) = w
BY WordDef, ByteDef DEF Lo, Hi, W16

LEMMA WordJoin ==
  ASSUME NEW hi \in Byte, NEW lo \in Byte
  PROVE  W16(hi, lo) \in Word /\ Lo(W16(hi, lo)) = lo /\ Hi(W16(hi, lo)) = hi
BY WordDef, ByteDef DEF Lo, Hi, W16

(* Address arithmetic wraps at the end of the address space.               *)
LEMMA WordWrap ==
  ASSUME NEW n \in Int
  PROVE  n % AddressSpace \in Word
BY WordDef, AddressSpaceValue

LEMMA ByteWrap ==
  ASSUME NEW n \in Int
  PROVE  n % 256 \in Byte
BY ByteDef

LEMMA Least ==
  ASSUME NEW S \in SUBSET Nat, S # {}
  PROVE  (CHOOSE a \in S : \A b \in S : a <= b) \in S
<1>1. PICK a \in S : \A b \in S : ~ (<<b, a>> \in OpToRel(<, Nat))
  BY NatLessThanWellFounded, WFMin
<1>2. ASSUME NEW b \in S
      PROVE  a <= b
  <2>1. ~ (b < a)
    BY <1>1 DEF OpToRel
  <2> QED
    BY <2>1
<1> QED
  BY <1>2

Bytes == [Registers -> Byte]

LEMMA SpType ==
  ASSUME reg \in Bytes
  PROVE  sp \in Word
BY WordJoin DEF sp, Bytes, Registers, SP0, SP1

LEMMA WithSpType ==
  ASSUME NEW r \in Bytes, NEW v \in Word
  PROVE  WithSp(r, v) \in Bytes
BY WordSplit DEF WithSp, Bytes

Target == [in : {"reg"}, at : Registers] \cup [in : {"mem"}, at : Cells]

LEMMA TargType ==
  ASSUME TypeOK, NEW n \in 0 .. 3, Gathers(n), NEW k \in 1 .. n
  PROVE  targ(k) \in Target
<1>1. k \in 1 .. 3 /\ k <= n
  OBVIOUS
<1>2. At(k) \in Cells
  BY <1>1 DEF Gathers
<1>3. regtable(mem[At(k)]) \in Registers
  BY DEF regtable, Registers, A
<1> QED
  BY <1>2, <1>3 DEF targ, Target

LEMMA DerefType ==
  ASSUME NEW t \in Target, NEW r \in Bytes, NEW m \in [Cells -> Byte]
  PROVE  Deref(t, r, m) \in Byte
BY DEF Deref, Target, Bytes

LEMMA AssignType ==
  ASSUME TypeOK, NEW t \in Target, NEW v \in Byte, NEW r \in Bytes, Assign(t, v, r)
  PROVE  reg' \in Bytes /\ mem' \in [Cells -> Byte]
BY DEF TypeOK, Assign, Target, Bytes

LEMMA ReadType ==
  ASSUME TypeOK, NEW a \in Word, NEW old \in Byte, NEW in \in Inputs
  PROVE  memory_read(a, old, in) \in Byte
<1>1. 0 \in Byte
  BY ByteDef
<1>2. a \in Cells => mem[a] \in Byte
  BY DEF TypeOK
<1>3. ASSUME isSet(a)
      PROVE  device_read(a, old, in) \in Byte
  <2>1. a \in Slots /\ iomem[a] \in Devices
    BY <1>3 DEF isSet, TypeOK, Slots
  <2>2. CASE iomem[a] = Template
    BY <2>2 DEF device_read, TypeOK
  <2>3. CASE iomem[a] = Serial
    <3>1. in[a] \in InBytes \cup {Eof}
      BY <2>1, <2>3 DEF Inputs, SerialSlots
    <3> QED
      BY <2>3, <3>1, MemoryAssumption DEF device_read, Serial, Template
  <2> QED
    BY <2>1, <2>2, <2>3 DEF Devices
<1> QED
  BY <1>1, <1>2, <1>3 DEF memory_read, TypeOK

LEMMA WriteType ==
  ASSUME TypeOK, NEW W \in SUBSET Word, NEW w \in [W -> Byte], memory_write(w)
  PROVE  /\ mem' \in [Cells -> Byte]
         /\ past' \in Byte
         /\ some_device_value' \in Byte
         /\ iomem' = iomem
<1> DEFINE hit == {a \in Slots \cap DOMAIN w : iomem[a] = Template}
<1>1. ASSUME hit # {}
      PROVE  w[CHOOSE a \in hit : \A b \in hit : a <= b] \in Byte
  <2>1. hit \in SUBSET Nat /\ hit \subseteq W
    BY DEF Slots
  <2> HIDE DEF hit
  <2>2. (CHOOSE a \in hit : \A b \in hit : a <= b) \in hit
    BY <1>1, <2>1, Least
  <2> QED
    BY <2>1, <2>2
<1>2. some_device_value' = IF hit = {} THEN some_device_value
                           ELSE w[CHOOSE a \in hit : \A b \in hit : a <= b]
  BY DEF memory_write, device_write
<1>3. mem' \in [Cells -> Byte] /\ past' \in Byte /\ iomem' = iomem
  BY DEF memory_write, TypeOK
<1> QED
  BY <1>1, <1>2, <1>3 DEF TypeOK

-----------------------------------------------------------------------------
(* How many operands each handler gathers.                                 *)
LEMMA ArgsOf ==
  /\ \A i \in {OP_LOAD, OP_STORE} : args(i) = 3
  /\ \A i \in {OP_LOADLH, OP_STORELH, OP_INC, OP_DEC, OP_PUSH, OP_POP, OP_NOT} : args(i) = 1
  /\ \A i \in {OP_MHML, OP_MOV, OP_ADD, OP_SUB, OP_MUL, OP_DIV, OP_CMP, OP_AND, OP_OR, OP_XOR} :
       args(i) = 2
  /\ \A i \in Jumps \cup Calls : Holds(i) => args(i) = 2
BY DEF args, Holds, Jumps, Calls, OP_HLT, OP_LOAD, OP_STORE, OP_MHML, OP_LOADLH, OP_STORELH,
       OP_MOV, OP_ADD, OP_SUB, OP_MUL, OP_DIV, OP_INC, OP_DEC, OP_JMP, OP_CMP, OP_JE, OP_JNE,
       OP_JG, OP_JL, OP_PUSH, OP_POP, OP_CALL, OP_CALLE, OP_CALLNE, OP_CALLG, OP_CALLL, OP_RET,
       OP_AND, OP_OR, OP_XOR, OP_NOT

LEMMA ArgType ==
  ASSUME TypeOK, NEW i, Exec(i), args(i) \in 1 .. 3, NEW k \in 1 .. args(i)
  PROVE  targ(k) \in Target /\ arg(k) \in Byte
<1>1. Gathers(args(i))
  BY DEF Exec, Decodes
<1>2. targ(k) \in Target
  BY <1>1, TargType
<1> QED
  BY <1>2, DerefType DEF arg, TypeOK, Bytes

LEMMA AfterType ==
  ASSUME TypeOK, NEW n \in Nat
  PROVE  After(n) \in Word
BY WordDef, WordWrap DEF After, TypeOK

LEMMA ComputeType ==
  ASSUME TypeOK, NEW i, NEW v \in Byte, args(i) \in 1 .. 3, Compute(i, v)
  PROVE  TypeOK'
<1>1. Exec(i) /\ Assign(targ(1), v, reg)
  BY DEF Compute
<1>2. targ(1) \in Target
  BY <1>1, ArgType
<1>3. reg' \in Bytes /\ mem' \in [Cells -> Byte]
  BY <1>1, <1>2, AssignType DEF TypeOK, Bytes
<1>4. pc' \in Word
  BY AfterType DEF Compute
<1> QED
  BY <1>1, <1>3, <1>4 DEF Compute, Exec, TypeOK, bus, Bytes

-----------------------------------------------------------------------------
(* CPU/data.c *)

LEMMA LoadType ==
  ASSUME TypeOK, cpu_load
  PROVE  TypeOK'
<1>1. Exec(OP_LOAD) /\ args(OP_LOAD) = 3
  BY ArgsOf DEF cpu_load
<1>2. targ(1) \in Target /\ \A k \in 1 .. 3 : arg(k) \in Byte
  BY <1>1, ArgType
<1>3. W16(arg(3), arg(2)) \in Word
  BY <1>2, WordJoin
<1>4. reg' \in Bytes /\ mem' \in [Cells -> Byte]
  BY <1>2, <1>3, ReadType, AssignType DEF cpu_load, TypeOK, Bytes
<1>5. pc' \in Word
  BY AfterType DEF cpu_load
<1> QED
  BY <1>1, <1>4, <1>5 DEF cpu_load, Exec, TypeOK, bus, Bytes

LEMMA StoreType ==
  ASSUME TypeOK, cpu_store
  PROVE  TypeOK'
<1>1. Exec(OP_STORE) /\ args(OP_STORE) = 3
  BY ArgsOf DEF cpu_store
<1>2. \A k \in 1 .. 3 : arg(k) \in Byte
  BY <1>1, ArgType
<1>3. {W16(arg(3), arg(2))} \in SUBSET Word
  BY <1>2, WordJoin
<1>4. /\ mem' \in [Cells -> Byte]
      /\ past' \in Byte
      /\ some_device_value' \in Byte
      /\ iomem' = iomem
  BY <1>2, <1>3, WriteType DEF cpu_store
<1>5. pc' \in Word
  BY AfterType DEF cpu_store
<1> QED
  BY <1>1, <1>4, <1>5 DEF cpu_store, Exec, TypeOK

LEMMA MhmlType ==
  ASSUME TypeOK, cpu_mhml
  PROVE  TypeOK'
<1>1. Exec(OP_MHML) /\ args(OP_MHML) = 2
  BY ArgsOf DEF cpu_mhml
<1>2. targ(2) \in Target /\ arg(1) \in Byte
  BY <1>1, ArgType
<1> DEFINE r == [reg EXCEPT ![ML] = arg(1)]
<1>3. r \in Bytes
  BY <1>2 DEF TypeOK, Bytes
<1>4. Deref(targ(2), r, mem) \in Byte
  BY <1>2, <1>3, DerefType DEF TypeOK
<1>5. reg' \in Bytes
  BY <1>3, <1>4 DEF cpu_mhml, Bytes
<1>6. pc' \in Word
  BY AfterType DEF cpu_mhml
<1> QED
  BY <1>1, <1>5, <1>6 DEF cpu_mhml, Exec, TypeOK, bus, Bytes

(* mh and ml form an address.                                              *)
LEMMA MhmlAddress == TypeOK => W16(reg[MH], reg[ML]) \in Word
BY WordJoin DEF TypeOK, Registers, MH, ML

LEMMA LoadlhType ==
  ASSUME TypeOK, cpu_loadlh
  PROVE  TypeOK'
<1>1. Exec(OP_LOADLH) /\ args(OP_LOADLH) = 1
  BY ArgsOf DEF cpu_loadlh
<1>2. targ(1) \in Target /\ arg(1) \in Byte
  BY <1>1, ArgType
<1>3. reg' \in Bytes /\ mem' \in [Cells -> Byte]
  BY <1>2, MhmlAddress, ReadType, AssignType DEF cpu_loadlh, TypeOK, Bytes
<1>4. pc' \in Word
  BY AfterType DEF cpu_loadlh
<1> QED
  BY <1>1, <1>3, <1>4 DEF cpu_loadlh, Exec, TypeOK, bus, Bytes

LEMMA StorelhType ==
  ASSUME TypeOK, cpu_storelh
  PROVE  TypeOK'
<1>1. Exec(OP_STORELH) /\ args(OP_STORELH) = 1
  BY ArgsOf DEF cpu_storelh
<1>2. arg(1) \in Byte
  BY <1>1, ArgType
<1>3. {W16(reg[MH], reg[ML])} \in SUBSET Word
  BY MhmlAddress
<1>4. /\ mem' \in [Cells -> Byte]
      /\ past' \in Byte
      /\ some_device_value' \in Byte
      /\ iomem' = iomem
  BY <1>2, <1>3, WriteType DEF cpu_storelh
<1>5. pc' \in Word
  BY AfterType DEF cpu_storelh
<1> QED
  BY <1>1, <1>4, <1>5 DEF cpu_storelh, Exec, TypeOK

-----------------------------------------------------------------------------
(* CPU/arithmetic.c and CPU/manipulation.c *)

LEMMA BitsType ==
  ASSUME NEW b \in [0 .. 7 -> {0, 1}]
  PROVE  Bits(b) \in Byte
<1>1. /\ b[0] \in 0 .. 1 /\ b[1] \in 0 .. 1 /\ b[2] \in 0 .. 1 /\ b[3] \in 0 .. 1
      /\ b[4] \in 0 .. 1 /\ b[5] \in 0 .. 1 /\ b[6] \in 0 .. 1 /\ b[7] \in 0 .. 1
  OBVIOUS
<1>2. /\ Bits(b) \in Int /\ 0 <= Bits(b) /\ Bits(b) <= 255
  BY <1>1 DEF Bits
<1> QED
  BY <1>2, ByteDef

LEMMA LogicType ==
  ASSUME NEW x, NEW y
  PROVE  And(x, y) \in Byte /\ Or(x, y) \in Byte /\ Xor(x, y) \in Byte
<1>1. /\ [k \in 0 .. 7 |-> IF Bit(x, k) = 1 /\ Bit(y, k) = 1 THEN 1 ELSE 0] \in [0 .. 7 -> {0, 1}]
      /\ [k \in 0 .. 7 |-> IF Bit(x, k) = 1 \/ Bit(y, k) = 1 THEN 1 ELSE 0] \in [0 .. 7 -> {0, 1}]
      /\ [k \in 0 .. 7 |-> IF Bit(x, k) = Bit(y, k) THEN 0 ELSE 1] \in [0 .. 7 -> {0, 1}]
  OBVIOUS
<1> QED
  BY <1>1, BitsType DEF And, Or, Xor

LEMMA QuotientType ==
  ASSUME NEW x \in Byte, NEW y \in Byte, y # 0
  PROVE  x \div y \in Byte
<1>1. x \in Nat /\ y \in Nat /\ y > 0
  BY ByteDef
<1>2. x \div y \in Int /\ x = y * (x \div y) + (x % y) /\ 0 <= x % y /\ x % y < y
  BY <1>1
<1> DEFINE q == x \div y
<1>3. 0 <= q
  BY <1>1, <1>2
<1>4. q <= x
  BY <1>1, <1>2, <1>3
<1> QED
  BY <1>2, <1>3, <1>4, ByteDef

LEMMA ComputingType ==
  ASSUME TypeOK,
         \/ cpu_mov \/ cpu_add \/ cpu_sub \/ cpu_mul \/ cpu_inc \/ cpu_dec
         \/ cpu_and \/ cpu_or \/ cpu_xor \/ cpu_not
  PROVE  TypeOK'
<1>1. ASSUME NEW i \in {OP_MOV, OP_ADD, OP_SUB, OP_MUL, OP_AND, OP_OR, OP_XOR}, Exec(i)
      PROVE  args(i) = 2 /\ arg(1) \in Byte /\ arg(2) \in Byte
  BY <1>1, ArgsOf, ArgType
<1>2. ASSUME NEW i \in {OP_INC, OP_DEC, OP_NOT}, Exec(i)
      PROVE  args(i) = 1 /\ arg(1) \in Byte
  BY <1>2, ArgsOf, ArgType
<1>3. CASE cpu_mov
  BY <1>1, <1>3, ComputeType DEF cpu_mov, Compute
<1>4. CASE cpu_add
  <2>1. (arg(1) + arg(2)) % 256 \in Byte
    BY <1>1, <1>4, ByteDef, ByteWrap DEF cpu_add, Compute
  <2> QED
    BY <1>1, <1>4, <2>1, ComputeType DEF cpu_add, Compute
<1>5. CASE cpu_sub
  <2>1. (arg(1) - arg(2)) % 256 \in Byte
    BY <1>1, <1>5, ByteDef, ByteWrap DEF cpu_sub, Compute
  <2> QED
    BY <1>1, <1>5, <2>1, ComputeType DEF cpu_sub, Compute
<1>6. CASE cpu_mul
  <2>1. (arg(1) * arg(2)) % 256 \in Byte
    BY <1>1, <1>6, ByteDef, ByteWrap DEF cpu_mul, Compute
  <2> QED
    BY <1>1, <1>6, <2>1, ComputeType DEF cpu_mul, Compute
<1>7. CASE cpu_inc
  <2>1. (arg(1) + 1) % 256 \in Byte
    BY <1>2, <1>7, ByteDef, ByteWrap DEF cpu_inc, Compute
  <2> QED
    BY <1>2, <1>7, <2>1, ComputeType DEF cpu_inc, Compute
<1>8. CASE cpu_dec
  <2>1. (arg(1) - 1) % 256 \in Byte
    BY <1>2, <1>8, ByteDef, ByteWrap DEF cpu_dec, Compute
  <2> QED
    BY <1>2, <1>8, <2>1, ComputeType DEF cpu_dec, Compute
<1>9. CASE cpu_and
  BY <1>1, <1>9, LogicType, ComputeType DEF cpu_and, Compute
<1>10. CASE cpu_or
  BY <1>1, <1>10, LogicType, ComputeType DEF cpu_or, Compute
<1>11. CASE cpu_xor
  BY <1>1, <1>11, LogicType, ComputeType DEF cpu_xor, Compute
<1>12. CASE cpu_not
  <2>1. 255 - arg(1) \in Byte
    BY <1>2, <1>12, ByteDef DEF cpu_not, Compute
  <2> QED
    BY <1>2, <1>12, <2>1, ComputeType DEF cpu_not, Compute
<1> QED
  BY <1>3, <1>4, <1>5, <1>6, <1>7, <1>8, <1>9, <1>10, <1>11, <1>12

LEMMA KilledType == TypeOK /\ Killed => TypeOK'
BY DEF TypeOK, Killed, bus

LEMMA DivType ==
  ASSUME TypeOK, cpu_div
  PROVE  TypeOK'
<1> DEFINE q == IF arg(2) = 0 THEN 0 ELSE arg(1) \div arg(2)
<1>1. CASE Compute(OP_DIV, q)
  <2>1. args(OP_DIV) = 2 /\ arg(1) \in Byte /\ arg(2) \in Byte
    BY <1>1, ArgsOf, ArgType DEF Compute
  <2>2. q \in Byte
    BY <2>1, QuotientType, ByteDef
  <2> QED
    BY <1>1, <2>1, <2>2, ComputeType
<1>2. CASE Killed
  BY <1>2, KilledType
<1> QED
  BY <1>1, <1>2 DEF cpu_div

-----------------------------------------------------------------------------
(* CPU/flow.c *)

LEMMA CmpType ==
  ASSUME TypeOK, cpu_cmp
  PROVE  TypeOK'
<1>1. Exec(OP_CMP)
  BY DEF cpu_cmp
<1>2. 0 \in Byte /\ 1 \in Byte /\ 2 \in Byte
  BY ByteDef
<1>3. reg' \in Bytes
  BY <1>2 DEF cpu_cmp, Compared, TypeOK, Bytes
<1>4. pc' \in Word
  BY AfterType DEF cpu_cmp
<1> QED
  BY <1>1, <1>3, <1>4 DEF cpu_cmp, Exec, TypeOK, bus, Bytes

LEMMA JumpType ==
  ASSUME TypeOK, NEW i \in Jumps, Jump(i)
  PROVE  TypeOK'
<1>1. Exec(i)
  BY DEF Jump
<1>2. Holds(i) => W16(arg(2), arg(1)) \in Word
  BY <1>1, ArgsOf, ArgType, WordJoin
<1>3. pc' \in Word
  BY <1>2, AfterType DEF Jump
<1> QED
  BY <1>1, <1>3 DEF Jump, Exec, TypeOK, bus

-----------------------------------------------------------------------------
(* CPU/stack.c *)

LEMMA BelowType ==
  ASSUME reg \in Bytes, NEW k \in 0 .. 255
  PROVE  Below(k) \in Word /\ (sp - Below(k)) % AddressSpace = k
BY SpType, WordDef, AddressSpaceValue DEF Below

LEMMA AboveType ==
  ASSUME TypeOK, NEW k \in Nat
  PROVE  Above(k) \in Word
BY WordDef, WordWrap DEF Above, TypeOK

LEMMA PushedType ==
  ASSUME TypeOK, NEW s \in Seq(Byte), Len(s) <= 255, memory_write(Pushed(s))
  PROVE  /\ mem' \in [Cells -> Byte]
         /\ past' \in Byte
         /\ some_device_value' \in Byte
         /\ iomem' = iomem
<1> DEFINE W == {Below(k) : k \in 1 .. Len(s)}
           value(x) == s[(sp - x) % AddressSpace]
<1>1. ASSUME NEW k \in 1 .. Len(s)
      PROVE  Below(k) \in Word /\ value(Below(k)) \in Byte
  <2>1. k \in 0 .. 255
    OBVIOUS
  <2>2. Below(k) \in Word /\ (sp - Below(k)) % AddressSpace = k
    BY <2>1, BelowType DEF TypeOK, Bytes
  <2> QED
    BY <2>2
<1>2. \A x \in W : x \in Word /\ value(x) \in Byte
  BY <1>1
<1>3. Pushed(s) = [x \in W |-> value(x)]
  BY DEF Pushed
<1> HIDE DEF W, value
<1>4. W \in SUBSET Word /\ [x \in W |-> value(x)] \in [W -> Byte]
  BY <1>2
<1> QED
  BY <1>3, <1>4, WriteType

LEMMA FrameType ==
  ASSUME TypeOK, NEW r \in Word
  PROVE  frame(r) \in Seq(Byte) /\ Len(frame(r)) = FRAME
<1>1. Lo(bp) \in Byte /\ Hi(bp) \in Byte /\ Lo(r) \in Byte /\ Hi(r) \in Byte
  BY WordSplit DEF TypeOK
<1>2. /\ reg[MH] \in Byte /\ reg[ML] \in Byte
      /\ reg[A] \in Byte /\ reg[A + 1] \in Byte /\ reg[A + 2] \in Byte /\ reg[A + 3] \in Byte
      /\ reg[A + 4] \in Byte /\ reg[A + 5] \in Byte /\ reg[A + 6] \in Byte /\ reg[A + 7] \in Byte
  BY DEF TypeOK, Registers, MH, ML, A
<1> QED
  BY <1>1, <1>2 DEF frame, FRAME

LEMMA PushType ==
  ASSUME TypeOK, cpu_push
  PROVE  TypeOK'
<1>1. Exec(OP_PUSH) /\ args(OP_PUSH) = 1
  BY ArgsOf DEF cpu_push
<1> DEFINE s == <<arg(1)>>
<1>2. s \in Seq(Byte) /\ Len(s) <= 255 /\ memory_write(Pushed(s))
  BY <1>1, ArgType DEF cpu_push
<1>3. /\ mem' \in [Cells -> Byte]
      /\ past' \in Byte
      /\ some_device_value' \in Byte
      /\ iomem' = iomem
  <2> HIDE DEF s
  <2> QED
    BY <1>2, PushedType
<1>4. reg' \in Bytes
  BY BelowType, WithSpType DEF cpu_push, TypeOK, Bytes
<1>5. pc' \in Word
  BY AfterType DEF cpu_push
<1> QED
  BY <1>1, <1>3, <1>4, <1>5 DEF cpu_push, Exec, TypeOK, Bytes

LEMMA PopType ==
  ASSUME TypeOK, cpu_pop
  PROVE  TypeOK'
<1>1. Exec(OP_POP) /\ args(OP_POP) = 1
  BY ArgsOf DEF cpu_pop
<1>2. targ(1) \in Target
  BY <1>1, ArgType
<1> DEFINE r == WithSp(reg, (sp + 1) % AddressSpace)
<1>3. r \in Bytes
  BY SpType, WordDef, WordWrap, WithSpType DEF TypeOK, Bytes
<1>4. PICK in \in Inputs : Assign(targ(1), memory_read(sp, Deref(targ(1), r, mem), in), r)
  BY DEF cpu_pop
<1>5. memory_read(sp, Deref(targ(1), r, mem), in) \in Byte
  BY <1>2, <1>3, SpType, DerefType, ReadType DEF TypeOK, Bytes
<1>6. reg' \in Bytes /\ mem' \in [Cells -> Byte]
  BY <1>2, <1>3, <1>4, <1>5, AssignType
<1>7. pc' \in Word
  BY AfterType DEF cpu_pop
<1> QED
  BY <1>1, <1>6, <1>7 DEF cpu_pop, Exec, TypeOK, bus, Bytes

LEMMA CallType ==
  ASSUME TypeOK, NEW i \in Calls, Call(i)
  PROVE  TypeOK'
<1>1. Exec(i)
  BY DEF Call
<1>2. CASE Holds(i)
  <2>1. Calling /\ targ(1) \in Target /\ targ(2) \in Target
    BY <1>1, <1>2, ArgsOf, ArgType DEF Call
  <2> DEFINE f == frame(After(2))
  <2>2. f \in Seq(Byte) /\ Len(f) <= 255 /\ memory_write(Pushed(f))
    <3>1. f \in Seq(Byte) /\ Len(f) = FRAME
      BY AfterType, FrameType
    <3>2. memory_write(Pushed(f))
      BY <2>1 DEF Calling
    <3> HIDE DEF f
    <3> QED
      BY <3>1, <3>2 DEF FRAME
  <2>3. /\ mem' \in [Cells -> Byte]
        /\ past' \in Byte
        /\ some_device_value' \in Byte
        /\ iomem' = iomem
    <3> HIDE DEF f
    <3> QED
      BY <2>2, PushedType
  <2>4. Below(FRAME) \in Word
    BY BelowType DEF FRAME, TypeOK, Bytes
  <2>5. reg' \in Bytes
    BY <2>1, <2>4, WithSpType DEF Calling, TypeOK, Bytes
  <2>6. pc' \in Word
    BY <2>1, <2>3, <2>5, DerefType, WordJoin DEF Calling
  <2> QED
    BY <1>1, <2>1, <2>3, <2>4, <2>5, <2>6 DEF Calling, Exec, TypeOK, Bytes
<1>3. CASE ~Holds(i)
  BY <1>1, <1>3, AfterType DEF Call, Skipping, Exec, TypeOK, bus
<1> QED
  BY <1>2, <1>3

LEMMA RetType ==
  ASSUME TypeOK, cpu_ret
  PROVE  TypeOK'
<1>1. PICK in \in Inputs, g \in UninitWords :
        LET popped(k, old) == memory_read(Above(k), old, in)
            r == [i \in Registers |->
                    IF i \in Return THEN reg[A + (i - RA)]
                    ELSE IF i \in General THEN popped(A + 7 - i, reg[i])
                    ELSE IF i = ML THEN popped(8, reg[ML])
                    ELSE IF i = MH THEN popped(9, reg[MH])
                    ELSE reg[i]]
        IN  /\ reg' = Released(r)
            /\ pc'  = W16(popped(10, Lo(g)), popped(11, Lo(g)))
            /\ bp'  = W16(popped(12, Lo(g)), popped(13, Lo(g)))
  BY DEF cpu_ret
<1> DEFINE popped(k, old) == memory_read(Above(k), old, in)
           r == [i \in Registers |->
                   IF i \in Return THEN reg[A + (i - RA)]
                   ELSE IF i \in General THEN popped(A + 7 - i, reg[i])
                   ELSE IF i = ML THEN popped(8, reg[ML])
                   ELSE IF i = MH THEN popped(9, reg[MH])
                   ELSE reg[i]]
<1>2. ASSUME NEW k \in Nat, NEW old \in Byte
      PROVE  popped(k, old) \in Byte
  BY <1>2, AboveType, ReadType
<1>3. r \in Bytes
  <2> SUFFICES ASSUME NEW i \in Registers
               PROVE  r[i] \in Byte
    BY DEF Bytes
  <2>1. reg[i] \in Byte
    BY DEF TypeOK
  <2>2. i \in Return => reg[A + (i - RA)] \in Byte
    BY DEF TypeOK, Return, Registers, A, RA
  <2>3. i \in General => A + 7 - i \in Nat
    BY DEF General, A
  <2> HIDE DEF popped
  <2> QED
    BY <1>2, <2>1, <2>2, <2>3
<1>4. Lo(g) \in Byte
  BY WordSplit, CpuAssumption
<1> HIDE DEF popped, r
<1>5. pc' \in Word /\ bp' \in Word
  <2>1. /\ pc' = W16(popped(10, Lo(g)), popped(11, Lo(g)))
        /\ bp' = W16(popped(12, Lo(g)), popped(13, Lo(g)))
    BY <1>1 DEF popped
  <2> QED
    BY <2>1, <1>2, <1>4, WordJoin
<1>6. reg' \in Bytes
  <2>1. reg' = WithSp(r, Above(FRAME))
    BY <1>1 DEF r, popped, Released
  <2> QED
    BY <2>1, <1>3, AboveType, WithSpType DEF FRAME
<1> QED
  BY <1>5, <1>6 DEF cpu_ret, Exec, TypeOK, bus, Bytes

-----------------------------------------------------------------------------
LEMMA InitType == Init => TypeOK
<1> SUFFICES ASSUME Init
             PROVE  TypeOK
  OBVIOUS
<1>1. MEMORY_SIZE \in Word /\ 0 \in Byte /\ 27 \in Byte
  BY MemoryAssumption, AddressSpaceValue, WordDef, ByteDef
<1>2. reg \in Bytes
  BY <1>1, WithSpType DEF Init, Bytes
<1>3. past \in Byte
  BY <1>1, CpuAssumption, WordSplit DEF Init
<1>4. mem \in [Cells -> Byte] /\ pc \in Word
  BY CpuAssumption DEF Init
<1> QED
  BY <1>1, <1>2, <1>3, <1>4, CpuAssumption DEF Init, TypeOK, Bytes

LEMMA NextType == TypeOK /\ [Next]_vars => TypeOK'
<1> SUFFICES ASSUME TypeOK, [Next]_vars
             PROVE  TypeOK'
  OBVIOUS
<1>1. CASE cpu_load \/ cpu_store \/ cpu_mhml \/ cpu_loadlh \/ cpu_storelh
  BY <1>1, LoadType, StoreType, MhmlType, LoadlhType, StorelhType
<1>2. CASE \/ cpu_mov \/ cpu_add \/ cpu_sub \/ cpu_mul \/ cpu_inc \/ cpu_dec
           \/ cpu_and \/ cpu_or \/ cpu_xor \/ cpu_not
  BY <1>2, ComputingType
<1>3. CASE cpu_div
  BY <1>3, DivType
<1>4. CASE cpu_cmp
  BY <1>4, CmpType
<1>5. CASE cpu_jmp \/ cpu_je \/ cpu_jne \/ cpu_jg \/ cpu_jl
  BY <1>5, JumpType DEF cpu_jmp, cpu_je, cpu_jne, cpu_jg, cpu_jl, Jumps
<1>6. CASE cpu_push \/ cpu_pop \/ cpu_ret
  BY <1>6, PushType, PopType, RetType
<1>7. CASE cpu_call \/ cpu_calle \/ cpu_callne \/ cpu_callg \/ cpu_calll
  BY <1>7, CallType DEF cpu_call, cpu_calle, cpu_callne, cpu_callg, cpu_calll, Calls
<1>8. CASE Halt
  BY <1>8, AfterType DEF Halt, TypeOK, bus
<1>9. CASE Trap
  BY <1>9, KilledType DEF Trap
<1>10. CASE Wild
  BY <1>10 DEF Wild, TypeOK, bus
<1>11. CASE UNCHANGED vars
  BY <1>11 DEF vars, TypeOK
<1> QED
  BY <1>1, <1>2, <1>3, <1>4, <1>5, <1>6, <1>7, <1>8, <1>9, <1>10, <1>11 DEF Next

(* Whatever program is loaded, whatever devices are mapped and whatever is *)
(* typed, every register and memory cell stays a byte and sp, pc and bp    *)
(* stay 16-bit words: no handler lets a value outgrow its C type.          *)
THEOREM TypeCorrect == Spec => []TypeOK
<1>1. Init => TypeOK
  BY InitType
<1>2. TypeOK /\ [Next]_vars => TypeOK'
  BY NextType
<1> QED
  BY <1>1, <1>2, PTL DEF Spec

-----------------------------------------------------------------------------
(* Which steps reach the memory behind a mapped slot                       *)

(* The first operand of a program outside the window is outside as well.   *)
LEMMA OperandOutside ==
  ASSUME pc \in Cells, pc \notin Slots
  PROVE  At(1) \notin Slots
<1>1. /\ MEMORY_SIZE \in Nat /\ MEMORY_MAPPED_IO_REGION_SIZE \in Nat
      /\ MEMORY_SIZE < 65533 /\ AddressSpace = 65536
  BY MemoryAssumption, AddressSpaceValue
<1>2. At(1) = pc + 1
  BY <1>1 DEF At, Cells
<1> QED
  BY <1>1, <1>2 DEF Cells, Slots

Shadowed == \A a \in Slots : iomem[a] # Unmapped => mem'[a] = mem[a]

LEMMA AssignShadow ==
  ASSUME TypeOK, pc \in Cells, pc \notin Slots, NEW v, NEW r, Assign(targ(1), v, r)
  PROVE  Shadowed
<1>1. CASE operandsig(1) = 1
  BY <1>1 DEF Assign, targ, Shadowed
<1>2. CASE operandsig(1) # 1
  <2>1. mem' = [mem EXCEPT ![At(1)] = v]
    BY <1>2 DEF Assign, targ
  <2>2. \A a \in Slots : a # At(1) => mem'[a] = mem[a]
    BY <2>1 DEF TypeOK
  <2> QED
    BY <2>2, OperandOutside DEF Shadowed
<1> QED
  BY <1>1, <1>2

LEMMA WriteShadow ==
  ASSUME TypeOK, NEW w, memory_write(w)
  PROVE  Shadowed
<1>1. Slots \subseteq Cells
  BY MemoryAssumption DEF Slots, Cells
<1> QED
  BY <1>1 DEF Shadowed, memory_write, isSet

LEMMA NextShadow ==
  ASSUME TypeOK, Next, pc \notin Slots
  PROVE  Shadowed
<1>1. ASSUME mem' = mem
      PROVE  Shadowed
  BY <1>1 DEF Shadowed
<1>2. ASSUME NEW i, Exec(i)
      PROVE  pc \in Cells
  BY <1>2 DEF Exec, Decodes
<1>3. ASSUME NEW i, NEW v, Compute(i, v)
      PROVE  Shadowed
  BY <1>2, <1>3, AssignShadow DEF Compute
<1>4. CASE cpu_load
  <2>1. PICK in \in Inputs : Assign(targ(1), memory_read(W16(arg(3), arg(2)), arg(1), in), reg)
    BY <1>4 DEF cpu_load
  <2> QED
    BY <1>2, <1>4, <2>1, AssignShadow DEF cpu_load
<1>5. CASE cpu_loadlh
  <2>1. PICK in \in Inputs : Assign(targ(1), memory_read(W16(reg[MH], reg[ML]), arg(1), in), reg)
    BY <1>5 DEF cpu_loadlh
  <2> QED
    BY <1>2, <1>5, <2>1, AssignShadow DEF cpu_loadlh
<1>6. CASE cpu_pop
  <2> DEFINE r == WithSp(reg, (sp + 1) % AddressSpace)
  <2>1. PICK in \in Inputs : Assign(targ(1), memory_read(sp, Deref(targ(1), r, mem), in), r)
    BY <1>6 DEF cpu_pop
  <2> HIDE DEF r
  <2> QED
    BY <1>2, <1>6, <2>1, AssignShadow DEF cpu_pop
<1>7. CASE cpu_store \/ cpu_storelh \/ cpu_push
  BY <1>7, WriteShadow DEF cpu_store, cpu_storelh, cpu_push
<1>8. ASSUME NEW i, Call(i)
      PROVE  Shadowed
  <2>1. CASE Calling
    BY <2>1, WriteShadow DEF Calling
  <2>2. CASE Skipping
    BY <1>1, <2>2 DEF Skipping
  <2> QED
    BY <1>8, <2>1, <2>2 DEF Call
<1>9. CASE \/ cpu_mov \/ cpu_add \/ cpu_sub \/ cpu_mul \/ cpu_inc \/ cpu_dec
           \/ cpu_and \/ cpu_or \/ cpu_xor \/ cpu_not
  BY <1>3, <1>9 DEF cpu_mov, cpu_add, cpu_sub, cpu_mul, cpu_inc, cpu_dec, cpu_and, cpu_or,
                    cpu_xor, cpu_not
<1>10. CASE cpu_div
  BY <1>1, <1>3, <1>10 DEF cpu_div, Killed
<1>11. CASE \/ cpu_mhml \/ cpu_cmp \/ cpu_ret \/ Halt \/ Trap \/ Wild
            \/ cpu_jmp \/ cpu_je \/ cpu_jne \/ cpu_jg \/ cpu_jl
  BY <1>1, <1>11 DEF cpu_mhml, cpu_cmp, cpu_ret, Halt, Trap, Wild, Killed,
                     cpu_jmp, cpu_je, cpu_jne, cpu_jg, cpu_jl, Jump
<1>12. CASE cpu_call \/ cpu_calle \/ cpu_callne \/ cpu_callg \/ cpu_calll
  BY <1>8, <1>12 DEF cpu_call, cpu_calle, cpu_callne, cpu_callg, cpu_calll
<1> QED
  BY <1>4, <1>5, <1>6, <1>7, <1>9, <1>10, <1>11, <1>12 DEF Next

(* Whatever the program and wherever its stack: as long as it does not run *)
(* inside the I/O window, no instruction changes the memory behind a       *)
(* mapped slot.                                                            *)
THEOREM SlotsShadowMemory == Spec => MappedSlotsShadow
<1> DEFINE Step == pc \notin Slots => Shadowed
<1>1. TypeOK /\ [Next]_vars => [Step]_vars
  BY NextShadow
<1>2. [Step]_vars <=> [pc \notin Slots => \A a \in Slots : iomem[a] # Unmapped => mem'[a] = mem[a]]_vars
  BY DEF Shadowed
<1> QED
  BY <1>1, <1>2, TypeCorrect, PTL DEF Spec, MappedSlotsShadow

(* No instruction maps or unmaps a slot.                                   *)
LEMMA NextKeepsSlots ==
  ASSUME Next
  PROVE  iomem' = iomem
BY DEF Next, bus, memory_write, Compute, Killed, Jump, Call, Calling, Skipping,
       cpu_load, cpu_store, cpu_mhml, cpu_loadlh, cpu_storelh, cpu_mov,
       cpu_add, cpu_sub, cpu_mul, cpu_div, cpu_inc, cpu_dec,
       cpu_jmp, cpu_cmp, cpu_je, cpu_jne, cpu_jg, cpu_jl, cpu_push, cpu_pop, cpu_ret,
       cpu_call, cpu_calle, cpu_callne, cpu_callg, cpu_calll,
       cpu_and, cpu_or, cpu_xor, cpu_not, Halt, Trap, Wild
=============================================================================
