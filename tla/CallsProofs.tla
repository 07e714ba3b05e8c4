---------------------------- MODULE CallsProofs ----------------------------
(***************************************************************************)
(* The calling convention's safety properties, for every program, size of  *)
(* memory and depth of calls: as long as a program keeps the rules, the    *)
(* frames lie in order, are intact, and no device slot kills it.           *)
(*                                                                         *)
(* FramesOrdered compares neighbouring frames only. Since what an          *)
(* instruction writes has to miss all frames, the inductive invariant also *)
(* compares every two of them (Apart), and it knows that the byte behind   *)
(* mem stays zero where it could be taken for a slot's flag.               *)
(***************************************************************************)
EXTENDS Calls, CpuProofs, SequenceTheorems

Frame == [base : Word, bp : Word, resume : Word, saved : [Saved -> Byte]]

Apart == \A j, k \in 1 .. Len(frames) : j < k => frames[k].base + FRAME <= frames[j].base

CallsInv ==
  /\ TypeOK
  /\ kept \in BOOLEAN
  /\ frames \in Seq(Frame)
  /\ ~kept => frames = <<>>
  /\ Apart
  /\ FramesOrdered
  /\ FramesIntact
  /\ kept /\ IoBehindMem => past = 0

-----------------------------------------------------------------------------
(* Where the stack is                                                      *)

LEMMA Sizes ==
  /\ MEMORY_SIZE \in Nat /\ MEMORY_SIZE < 65533
  /\ MEMORY_MAPPED_IO_REGION_SIZE \in Nat /\ 0 < MEMORY_MAPPED_IO_REGION_SIZE
  /\ Floor \in Nat /\ MEMORY_MAPPED_IO_REGION_SIZE <= Floor /\ Floor <= MEMORY_SIZE
BY MemoryAssumption, FloorAssumption, AddressSpaceValue

(* No slot is mapped, or looks mapped, above Floor.                        *)
LEMMA NoSlot ==
  ASSUME NEW a \in Int, Floor <= a
  PROVE  ~isSet(a) /\ ~NullSlot(a)
BY Sizes DEF isSet, NullSlot, Slots

(* Every frame lies in memory, above the stack pointer.                    *)
LEMMA FrameCells ==
  ASSUME CallsInv, kept, NEW k \in 1 .. Len(frames)
  PROVE  /\ frames[k] \in Frame
         /\ frames[k].base \in Nat
         /\ Floor <= frames[k].base
         /\ sp <= Top /\ Top <= frames[k].base
         /\ frames[k].base + FRAME <= MEMORY_SIZE
<1> DEFINE n == Len(frames)
<1>1. n \in Nat /\ \A m \in 1 .. n : frames[m] \in Frame /\ frames[m].base \in Nat
  <2>1. frames \in Seq(Frame)
    BY DEF CallsInv
  <2>2. n \in Nat /\ \A m \in 1 .. n : frames[m] \in Frame
    BY <2>1
  <2>3. \A f \in Frame : f.base \in Nat
    BY WordDef DEF Frame
  <2> QED
    BY <2>2, <2>3
<1>2. Top = frames[n].base
  BY <1>1 DEF Top, Base
<1>3. Floor <= sp /\ sp <= Top
  BY DEF CallsInv, FramesOrdered
<1>4. Top <= frames[k].base
  <2>1. CASE k = n
    BY <1>2, <1>1, <2>1
  <2>2. CASE k < n
    <3>1. frames[n].base + FRAME <= frames[k].base
      BY <1>1, <2>2 DEF CallsInv, Apart
    <3> QED
      BY <1>1, <1>2, <3>1 DEF FRAME
  <2> QED
    BY <1>1, <2>1, <2>2
<1>5. frames[1].base + FRAME <= MEMORY_SIZE
  <2>1. 1 \in 1 .. n
    BY <1>1
  <2>2. frames[1].base + FRAME <= Base(1 - 1)
    BY <2>1 DEF CallsInv, FramesOrdered
  <2> QED
    BY <2>2 DEF Base
<1>6. frames[k].base + FRAME <= MEMORY_SIZE
  <2>1. CASE k = 1
    BY <1>5, <2>1
  <2>2. CASE 1 < k
    <3>1. frames[k].base + FRAME <= frames[1].base
      BY <1>1, <2>2 DEF CallsInv, Apart
    <3> QED
      BY <1>1, <1>5, <3>1, Sizes DEF FRAME
  <2> QED
    BY <1>1, <2>1, <2>2
<1>7. sp \in Int
  BY SpType, WordDef DEF CallsInv, TypeOK, Bytes
<1> QED
  BY <1>1, <1>2, <1>3, <1>4, <1>6, <1>7, Sizes

LEMMA StackPointer ==
  ASSUME CallsInv, kept
  PROVE  /\ sp \in Nat /\ Top \in Nat
         /\ Floor <= sp /\ sp <= Top /\ Top <= MEMORY_SIZE
<1>1. sp \in Nat
  BY SpType, WordDef DEF CallsInv, TypeOK, Bytes
<1>2. Floor <= sp /\ sp <= Top
  BY DEF CallsInv, FramesOrdered
<1>3. CASE frames = <<>>
  BY <1>1, <1>2, <1>3, Sizes DEF Top, Base
<1>4. CASE frames # <<>>
  <2>1. Len(frames) \in 1 .. Len(frames)
    BY <1>4 DEF CallsInv
  <2>2. Top = frames[Len(frames)].base
    BY <2>1 DEF Top, Base
  <2> QED
    BY <1>1, <1>2, <2>1, <2>2, FrameCells, Sizes DEF FRAME
<1> QED
  BY <1>3, <1>4

(* A frame is intact as long as nothing above the stack pointer changes.   *)
LEMMA FrameStays ==
  ASSUME CallsInv, kept, NEW k \in 1 .. Len(frames),
         \A a \in Cells : sp <= a => mem'[a] = mem[a]
  PROVE  LET f == frames[k]
         IN  /\ \A r \in General : mem'[f.base + 7 - r] = f.saved[r]
             /\ mem'[f.base + 8] = f.saved[ML]
             /\ mem'[f.base + 9] = f.saved[MH]
             /\ W16(mem'[f.base + 10], mem'[f.base + 11]) = f.resume
             /\ W16(mem'[f.base + 12], mem'[f.base + 13]) = f.bp
<1> DEFINE f == frames[k]
<1>1. f.base \in Nat /\ sp <= f.base /\ f.base + 14 <= MEMORY_SIZE /\ sp \in Nat
  BY FrameCells, StackPointer DEF FRAME
<1>2. ASSUME NEW j \in 0 .. 13
      PROVE  mem'[f.base + j] = mem[f.base + j]
  <2>1. f.base + j \in Cells /\ sp <= f.base + j
    BY <1>1, Sizes DEF Cells
  <2> QED
    BY <2>1
<1>3. /\ \A r \in General : mem[f.base + 7 - r] = f.saved[r]
      /\ mem[f.base + 8] = f.saved[ML]
      /\ mem[f.base + 9] = f.saved[MH]
      /\ W16(mem[f.base + 10], mem[f.base + 11]) = f.resume
      /\ W16(mem[f.base + 12], mem[f.base + 13]) = f.bp
  BY DEF CallsInv, FramesIntact
<1>4. ASSUME NEW r \in General
      PROVE  mem'[f.base + 7 - r] = f.saved[r]
  <2>1. 7 - r \in 0 .. 13 /\ f.base + 7 - r = f.base + (7 - r)
    BY <1>1 DEF General, A
  <2> HIDE DEF f
  <2> QED
    BY <2>1, <1>2, <1>3
<1> HIDE DEF f
<1>5. /\ mem'[f.base + 8] = mem[f.base + 8] /\ mem'[f.base + 9] = mem[f.base + 9]
      /\ mem'[f.base + 10] = mem[f.base + 10] /\ mem'[f.base + 11] = mem[f.base + 11]
      /\ mem'[f.base + 12] = mem[f.base + 12] /\ mem'[f.base + 13] = mem[f.base + 13]
  BY <1>2
<1> QED
  BY <1>3, <1>4, <1>5 DEF f

-----------------------------------------------------------------------------
(* What leaves the suspended activations alone: the stack pointer may      *)
(* move between Floor and the newest frame, and what lies above it stays.  *)
Stands ==
  /\ frames' = frames /\ kept' = TRUE /\ bp' = bp
  /\ IoBehindMem => past' = 0
  /\ Floor <= sp' /\ sp' <= Top
  /\ \A a \in Cells : sp <= a => mem'[a] = mem[a]

Steady == Stands /\ sp' = sp

LEMMA StandsInv ==
  ASSUME CallsInv, kept, TypeOK', Stands
  PROVE  CallsInv'
<1>1. Len(frames') = Len(frames) /\ Top' = Top /\ \A k : Base(k)' = Base(k)
  BY DEF Stands, Top, Base
<1>2. FramesOrdered'
  BY <1>1 DEF CallsInv, FramesOrdered, Stands
<1>3. FramesIntact'
  BY FrameStays DEF FramesIntact, Stands
<1>4. Apart'
  BY DEF CallsInv, Apart, Stands
<1> QED
  BY <1>2, <1>3, <1>4 DEF CallsInv, Stands

-----------------------------------------------------------------------------
(* What a step records when it keeps the rules, and when it breaks one.    *)
LEMMA Observed ==
  ASSUME CallsInv, NextC, kept'
  PROVE  /\ kept /\ kept' = TRUE
         /\ Decodes => Keeps
         /\ frames' = IF ~Decodes THEN frames
                      ELSE IF IsCall THEN Append(frames, Entered)
                      ELSE IF IsRet THEN Front(frames)
                      ELSE frames
<1>1. kept' = (kept /\ (Decodes => Keeps))
  BY DEF NextC
<1> QED
  BY <1>1 DEF NextC

LEMMA Forgotten ==
  ASSUME CallsInv, NextC, ~kept', TypeOK'
  PROVE  CallsInv'
<1>1. frames' = <<>> /\ kept' \in BOOLEAN
  BY DEF NextC
<1>2. frames' \in Seq(Frame) /\ Len(frames') = 0
  BY <1>1
<1> QED
  BY <1>1, <1>2 DEF CallsInv, Apart, FramesOrdered, FramesIntact

(* The instructions that are neither a call nor a return record nothing.   *)
LEMMA Unrecorded ==
  ASSUME CallsInv, NextC, kept', ~Decodes \/ ~(IsCall \/ IsRet)
  PROVE  frames' = frames
BY Observed

LEMMA NotACall ==
  /\ \A i \in Assigning \cup Jumps : i \notin Calls /\ i # OP_RET
  /\ \A i \in {OP_STORE, OP_STORELH, OP_MHML, OP_CMP, OP_PUSH, OP_POP} : i \notin Calls /\ i # OP_RET
  /\ \A i \in Calls : i \in Handled /\ i # OP_RET
  /\ OP_RET \in Handled
BY DEF Assigning, Jumps, Calls, Handled, OP_LOAD, OP_STORE, OP_MHML, OP_LOADLH, OP_STORELH,
       OP_MOV, OP_ADD, OP_SUB, OP_MUL, OP_DIV, OP_INC, OP_DEC, OP_JMP, OP_CMP, OP_JE, OP_JNE,
       OP_JG, OP_JL, OP_PUSH, OP_POP, OP_CALL, OP_CALLE, OP_CALLNE, OP_CALLG, OP_CALLL, OP_RET,
       OP_AND, OP_OR, OP_XOR, OP_NOT

-----------------------------------------------------------------------------
(* Instructions that assign to their first operand                         *)

LEMMA AssignStands ==
  ASSUME CallsInv, kept, NEW t \in Target, Harmless(t), NEW v, NEW r \in Bytes, Assign(t, v, r)
  PROVE  /\ sp' = W16(r[SP1], r[SP0])
         /\ \A a \in Cells : sp <= a => mem'[a] = mem[a]
<1>1. sp' = W16(r[SP1], r[SP0])
  BY DEF sp, Assign, Harmless, Bytes, SP0, SP1, Registers
<1>2. ASSUME NEW a \in Cells, sp <= a
      PROVE  mem'[a] = mem[a]
  <2>1. a \in StackBytes
    BY <1>2, StackPointer, Sizes DEF StackBytes, Cells
  <2> QED
    BY <2>1 DEF Assign, Harmless, CallsInv, TypeOK, Target
<1> QED
  BY <1>1, <1>2

(* An assignment that keeps sp, made by an instruction that keeps the      *)
(* rules.                                                                  *)
LEMMA AssigningSteady ==
  ASSUME CallsInv, NextC, kept', NEW i \in Assigning, Exec(i), args(i) \in 1 .. 3,
         NEW v, Assign(targ(1), v, reg), UNCHANGED <<bus, bp>>
  PROVE  Steady
<1>1. kept /\ Keeps
  BY Observed DEF Exec
<1>2. Harmless(targ(1)) /\ targ(1) \in Target
  BY <1>1, ArgType DEF Keeps, Exec, CallsInv
<1>3. sp' = sp /\ \A a \in Cells : sp <= a => mem'[a] = mem[a]
  BY <1>1, <1>2, AssignStands DEF CallsInv, TypeOK, Bytes, sp
<1>4. frames' = frames
  BY Unrecorded, NotACall DEF IsCall, IsRet, Exec
<1> QED
  BY <1>1, <1>3, <1>4, Observed, StackPointer DEF Steady, Stands, CallsInv, bus

LEMMA ComputeSteady ==
  ASSUME CallsInv, NextC, kept', NEW i \in Assigning, args(i) \in 1 .. 3, NEW v, Compute(i, v)
  PROVE  Steady
BY AssigningSteady DEF Compute

LEMMA ComputingSteady ==
  ASSUME CallsInv, NextC, kept',
         \/ cpu_mov \/ cpu_add \/ cpu_sub \/ cpu_mul \/ cpu_inc \/ cpu_dec
         \/ cpu_and \/ cpu_or \/ cpu_xor \/ cpu_not
  PROVE  Steady
<1>1. \A i \in {OP_MOV, OP_ADD, OP_SUB, OP_MUL, OP_INC, OP_DEC, OP_AND, OP_OR, OP_XOR, OP_NOT} :
         i \in Assigning /\ args(i) \in 1 .. 3
  <2>1. \A i \in {OP_MOV, OP_ADD, OP_SUB, OP_MUL, OP_INC, OP_DEC, OP_AND, OP_OR, OP_XOR, OP_NOT} :
           i \in Assigning
    BY DEF Assigning, OP_MOV, OP_ADD, OP_SUB, OP_MUL, OP_INC, OP_DEC, OP_AND, OP_OR, OP_XOR, OP_NOT, OP_DIV
  <2> QED
    BY <2>1, ArgsOf
<1>2. PICK i \in {OP_MOV, OP_ADD, OP_SUB, OP_MUL, OP_INC, OP_DEC, OP_AND, OP_OR, OP_XOR, OP_NOT} :
         \E v : Compute(i, v)
  BY DEF cpu_mov, cpu_add, cpu_sub, cpu_mul, cpu_inc, cpu_dec, cpu_and, cpu_or, cpu_xor, cpu_not
<1> QED
  BY <1>1, <1>2, ComputeSteady

LEMMA LoadSteady ==
  ASSUME CallsInv, NextC, kept', cpu_load \/ cpu_loadlh
  PROVE  Steady
<1>1. \A i \in {OP_LOAD, OP_LOADLH} : i \in Assigning /\ args(i) \in 1 .. 3
  BY ArgsOf DEF Assigning
<1>2. PICK i \in {OP_LOAD, OP_LOADLH} :
         Exec(i) /\ (\E v : Assign(targ(1), v, reg)) /\ UNCHANGED <<bus, bp>>
  BY DEF cpu_load, cpu_loadlh
<1> QED
  BY <1>1, <1>2, AssigningSteady

-----------------------------------------------------------------------------
(* Instructions that write to the bus                                      *)

LEMMA WriteStands ==
  ASSUME CallsInv, kept, NEW w, DOMAIN w \cap StackBytes = {}, memory_write(w)
  PROVE  /\ IoBehindMem => past' = 0
         /\ \A a \in Cells : sp <= a => mem'[a] = mem[a]
<1>1. MEMORY_SIZE \in StackBytes /\ \A a \in Cells : sp <= a => a \in StackBytes
  BY StackPointer, Sizes DEF StackBytes, Cells
<1>2. past' = past
  BY <1>1 DEF memory_write
<1>3. ASSUME NEW a \in Cells, sp <= a
      PROVE  mem'[a] = mem[a]
  BY <1>1, <1>3 DEF memory_write
<1> QED
  BY <1>2, <1>3 DEF CallsInv

LEMMA BusOfStores ==
  /\ instruction = OP_STORE => BusAddresses = {W16(arg(3), arg(2))}
  /\ instruction = OP_STORELH => BusAddresses = {W16(reg[MH], reg[ML])}
BY DEF BusAddresses, IsCall, IsRet, Calls, OP_LOAD, OP_STORE, OP_LOADLH, OP_STORELH, OP_PUSH,
       OP_POP, OP_CALL, OP_CALLE, OP_CALLNE, OP_CALLG, OP_CALLL, OP_RET

LEMMA StoreSteady ==
  ASSUME CallsInv, NextC, kept', cpu_store \/ cpu_storelh
  PROVE  Steady
<1>1. /\ Decodes /\ instruction \in {OP_STORE, OP_STORELH}
      /\ reg' = reg /\ bp' = bp
  BY DEF cpu_store, cpu_storelh, Exec
<1>2. kept /\ Keeps
  BY <1>1, Observed
<1>3. BusAddresses \cap StackBytes = {}
  BY <1>1, <1>2 DEF Keeps
<1>4. PICK x, v : x \in BusAddresses /\ memory_write([y \in {x} |-> v])
  BY BusOfStores DEF cpu_store, cpu_storelh, Exec
<1>5. /\ IoBehindMem => past' = 0
      /\ \A a \in Cells : sp <= a => mem'[a] = mem[a]
  <2> DEFINE w == [y \in {x} |-> v]
  <2>1. DOMAIN w \cap StackBytes = {} /\ memory_write(w)
    BY <1>3, <1>4
  <2> HIDE DEF w
  <2> QED
    BY <1>2, <2>1, WriteStands
<1>6. frames' = frames
  BY <1>1, Unrecorded, NotACall DEF IsCall, IsRet
<1>7. sp' = sp
  BY <1>1 DEF sp
<1> QED
  BY <1>1, <1>2, <1>5, <1>6, <1>7, Observed, StackPointer DEF Steady, Stands

-----------------------------------------------------------------------------
(* Instructions that leave memory and the stack pointer alone              *)

LEMMA RegisterSteady ==
  ASSUME CallsInv, NextC, kept', ~Decodes \/ ~(IsCall \/ IsRet),
         sp' = sp, UNCHANGED <<mem, past, bp>>
  PROVE  Steady
<1>1. kept /\ kept' = TRUE
  BY Observed
<1>2. frames' = frames
  BY Unrecorded
<1> QED
  BY <1>1, <1>2, StackPointer DEF Steady, Stands, CallsInv

LEMMA FlowSteady ==
  ASSUME CallsInv, NextC, kept',
         cpu_mhml \/ cpu_cmp \/ (\E i \in Jumps : Jump(i))
  PROVE  Steady
<1>1. ~(IsCall \/ IsRet) /\ UNCHANGED <<mem, past, bp>>
  BY NotACall DEF cpu_mhml, cpu_cmp, Jump, Exec, IsCall, IsRet, bus
<1>2. CASE cpu_mhml
  <2>1. \A i \in Registers : i # ML /\ i # MH => reg'[i] = reg[i]
    BY <1>2 DEF cpu_mhml, CallsInv, TypeOK
  <2>2. reg'[SP0] = reg[SP0] /\ reg'[SP1] = reg[SP1]
    BY <2>1 DEF Registers, ML, MH, SP0, SP1
  <2> QED
    BY <1>1, <2>2, RegisterSteady DEF sp
<1>3. CASE cpu_cmp
  BY <1>1, <1>3, RegisterSteady DEF cpu_cmp, sp, CMP, SP0, SP1, CallsInv, TypeOK
<1>4. CASE \E i \in Jumps : Jump(i)
  BY <1>1, <1>4, RegisterSteady DEF Jump, sp
<1> QED
  BY <1>2, <1>3, <1>4

(* The addresses of a call, a push, a pop or a return.                     *)
LEMMA BusOfStack ==
  /\ instruction = OP_PUSH => BusAddresses = {Below(1)}
  /\ instruction = OP_POP => BusAddresses = {sp}
  /\ IsCall => BusAddresses = {Below(k) : k \in 1 .. FRAME}
  /\ IsRet => BusAddresses = {Above(k) : k \in 0 .. FRAME - 1}
BY DEF BusAddresses, IsCall, IsRet, Calls, OP_LOAD, OP_STORE, OP_LOADLH, OP_STORELH, OP_PUSH,
       OP_POP, OP_CALL, OP_CALLE, OP_CALLNE, OP_CALLG, OP_CALLL, OP_RET

(* The byte behind mem is zero, so that no slot looks mapped.              *)
LEMMA NoTrap == CallsInv /\ kept => ~CallsNull
BY DEF CallsInv, CallsNull, NullSlot

LEMMA EndSteady ==
  ASSUME CallsInv, NextC, kept', Halt \/ Wild \/ (instruction = OP_DIV /\ Killed)
  PROVE  Steady
<1>1. ~Decodes \/ ~(IsCall \/ IsRet)
  BY NotACall DEF Halt, Wild, IsCall, IsRet, Assigning, OP_DIV, OP_ADD, OP_DEC
<1>2. UNCHANGED <<mem, past, bp, reg>>
  BY DEF Halt, Wild, Killed, bus
<1> QED
  BY <1>1, <1>2, RegisterSteady DEF sp

(* Addresses inside memory do not wrap.                                    *)
LEMMA Unwrapped == \A a \in Nat : a < 65536 => a % AddressSpace = a
BY AddressSpaceValue

-----------------------------------------------------------------------------
(* PUSH and POP                                                            *)

LEMMA BelowValue ==
  ASSUME CallsInv, kept, NEW k \in 0 .. FRAME, k <= sp
  PROVE  Below(k) = sp - k
<1>1. k \in Nat /\ sp \in Nat /\ sp < 65536
  BY StackPointer, Sizes DEF FRAME
<1>2. sp - k \in Int /\ 0 <= sp - k /\ sp - k < 65536
  BY <1>1
<1> QED
  BY <1>2, AddressSpaceValue DEF Below

LEMMA WithSpValue ==
  ASSUME NEW r \in Bytes, NEW v \in Word
  PROVE  W16(WithSp(r, v)[SP1], WithSp(r, v)[SP0]) = v
<1>1. WithSp(r, v)[SP1] = Hi(v) /\ WithSp(r, v)[SP0] = Lo(v)
  BY DEF WithSp, Bytes, Registers, SP0, SP1
<1> QED
  BY <1>1, WordSplit

LEMMA PushStands ==
  ASSUME CallsInv, NextC, kept', cpu_push
  PROVE  /\ Stands
         /\ Floor < sp /\ sp' = sp - 1
         /\ mem'[sp - 1] = arg(1)
<1>1. Decodes /\ instruction = OP_PUSH
  BY DEF cpu_push, Exec
<1>2. kept /\ Floor < sp
  BY <1>1, Observed DEF Keeps
<1>3. Below(1) = sp - 1 /\ Below(1) \in Word
  <2>1. 1 \in 0 .. FRAME /\ 1 <= sp
    BY <1>2, StackPointer, Sizes DEF FRAME
  <2>2. Below(1) = sp - 1
    BY <1>2, <2>1, BelowValue
  <2> QED
    BY <2>1, <2>2, <1>2, StackPointer, Sizes, WordDef
<1> DEFINE w == Pushed(<<arg(1)>>)
<1>4. /\ DOMAIN w = {Below(1)} /\ memory_write(w)
      /\ w[Below(1)] = arg(1)
  <2>1. (sp - Below(1)) % AddressSpace = 1
    BY BelowType DEF CallsInv, TypeOK, Bytes
  <2> QED
    BY <2>1 DEF cpu_push, Pushed
<1>5. DOMAIN w \cap StackBytes = {}
  BY <1>2, <1>3, <1>4, StackPointer, Sizes DEF StackBytes
<1> HIDE DEF w
<1>6. /\ IoBehindMem => past' = 0
      /\ \A a \in Cells : sp <= a => mem'[a] = mem[a]
  BY <1>2, <1>4, <1>5, WriteStands
<1>7. sp' = sp - 1
  <2>1. reg' = WithSp(reg, Below(1))
    BY DEF cpu_push
  <2> QED
    BY <1>3, <2>1, WithSpValue DEF sp, CallsInv, TypeOK, Bytes
<1>8. frames' = frames /\ bp' = bp
  BY <1>1, Unrecorded, NotACall DEF IsCall, IsRet, cpu_push
<1>9. mem'[sp - 1] = arg(1)
  <2>1. sp - 1 \in Cells /\ Floor <= sp - 1
    BY <1>2, StackPointer, Sizes DEF Cells
  <2>2. ~isSet(sp - 1)
    BY <2>1, NoSlot DEF Cells
  <2> QED
    BY <1>3, <1>4, <2>1, <2>2 DEF memory_write
<1> QED
  BY <1>2, <1>6, <1>7, <1>8, <1>9, Observed, StackPointer, Sizes DEF Stands

LEMMA PopStands ==
  ASSUME CallsInv, NextC, kept', cpu_pop
  PROVE  Stands /\ sp < Top /\ sp' = sp + 1
<1>1. Exec(OP_POP) /\ Decodes /\ instruction = OP_POP /\ args(OP_POP) = 1
  BY ArgsOf DEF cpu_pop, Exec
<1>2. kept /\ sp < Top /\ Harmless(targ(1)) /\ targ(1) \in Target
  BY <1>1, Observed, ArgType DEF Keeps, CallsInv
<1> DEFINE r == WithSp(reg, (sp + 1) % AddressSpace)
<1>3. (sp + 1) % AddressSpace = sp + 1 /\ sp + 1 \in Word
  BY <1>2, StackPointer, Sizes, AddressSpaceValue, WordDef
<1>4. r \in Bytes /\ W16(r[SP1], r[SP0]) = sp + 1
  BY <1>3, WithSpType, WithSpValue DEF CallsInv, TypeOK, Bytes
<1>5. PICK v : Assign(targ(1), v, r)
  BY DEF cpu_pop
<1> HIDE DEF r
<1>6. sp' = sp + 1 /\ \A a \in Cells : sp <= a => mem'[a] = mem[a]
  BY <1>2, <1>4, <1>5, AssignStands
<1>7. frames' = frames /\ bp' = bp /\ past' = past
  BY <1>1, Unrecorded, NotACall DEF IsCall, IsRet, cpu_pop, bus
<1> QED
  BY <1>2, <1>6, <1>7, Observed, StackPointer, Sizes DEF Stands, CallsInv

-----------------------------------------------------------------------------
(* CALL                                                                    *)

LEMMA FrameBytes ==
  ASSUME NEW r
  PROVE  /\ frame(r)[1] = Lo(bp) /\ frame(r)[2] = Hi(bp)
         /\ frame(r)[3] = Lo(r) /\ frame(r)[4] = Hi(r)
         /\ frame(r)[5] = reg[MH] /\ frame(r)[6] = reg[ML]
         /\ \A g \in General : frame(r)[7 + g] = reg[g]
BY DEF frame, General, A

(* The record of a new frame.                                              *)
LEMMA EnteredType ==
  ASSUME CallsInv, kept, FRAME <= sp
  PROVE  /\ Entered \in Frame
         /\ Entered.base = sp - FRAME
<1>1. Below(FRAME) = sp - FRAME
  BY BelowValue DEF FRAME
<1>2. Below(FRAME) \in Word
  BY BelowType DEF CallsInv, TypeOK, Bytes, FRAME
<1>3. bp \in Word /\ After(2) \in Word
  BY AfterType DEF CallsInv, TypeOK
<1>4. [i \in Saved |-> reg[i]] \in [Saved -> Byte]
  BY DEF CallsInv, TypeOK, Saved, General, Registers, A, ML, MH
<1> QED
  BY <1>1, <1>2, <1>3, <1>4 DEF Entered, Frame

(* The fourteen bytes lie below the old stack pointer, last byte lowest.   *)
LEMMA CallingWrites ==
  ASSUME CallsInv, kept, Floor + FRAME <= sp, Calling
  PROVE  /\ \A j \in 1 .. FRAME : mem'[sp - j] = frame(After(2))[j]
         /\ IoBehindMem => past' = 0
         /\ \A a \in Cells : sp <= a => mem'[a] = mem[a]
<1> DEFINE f == frame(After(2))
           w == Pushed(f)
<1>1. Len(f) = FRAME
  BY AfterType, FrameType DEF CallsInv
<1>2. memory_write(w)
  BY DEF Calling
<1>3. ASSUME NEW j \in 1 .. FRAME
      PROVE  Below(j) = sp - j /\ (sp - Below(j)) % AddressSpace = j /\ sp - j \in Nat
  <2>1. j \in 0 .. FRAME /\ j <= sp /\ j \in 0 .. 255
    BY StackPointer, Sizes DEF FRAME
  <2>2. Below(j) = sp - j
    BY <2>1, BelowValue
  <2>3. (sp - Below(j)) % AddressSpace = j
    BY <2>1, BelowType DEF CallsInv, TypeOK, Bytes
  <2> QED
    BY <2>1, <2>2, <2>3, StackPointer
<1>4. w = [x \in {Below(k) : k \in 1 .. FRAME} |-> f[(sp - x) % AddressSpace]]
  BY <1>1 DEF Pushed
<1> HIDE DEF w
<1>5. DOMAIN w \cap StackBytes = {}
  <2> SUFFICES ASSUME NEW j \in 1 .. FRAME, Below(j) \in StackBytes
               PROVE  FALSE
    BY <1>4
  <2> QED
    BY <1>3, StackPointer, Sizes DEF StackBytes, FRAME
<1>6. ASSUME NEW j \in 1 .. FRAME
      PROVE  mem'[sp - j] = f[j]
  <2>1. Below(j) \in DOMAIN w /\ w[Below(j)] = f[j]
    BY <1>3, <1>4
  <2>2. sp - j \in Cells /\ Floor <= sp - j
    BY <1>3, StackPointer, Sizes DEF Cells, FRAME
  <2>3. ~isSet(sp - j)
    BY <1>3, <2>2, NoSlot
  <2> HIDE DEF f
  <2> QED
    BY <1>2, <1>3, <2>1, <2>2, <2>3 DEF memory_write
<1>7. /\ IoBehindMem => past' = 0
      /\ \A a \in Cells : sp <= a => mem'[a] = mem[a]
  BY <1>2, <1>5, WriteStands
<1> QED
  BY <1>6, <1>7

LEMMA CallMoves ==
  ASSUME CallsInv, NextC, kept', NEW i \in Calls, Call(i), Holds(i),
         NEW n \in Nat, n = Len(frames)
  PROVE  /\ Decodes /\ IsCall /\ Calling
         /\ kept /\ Floor + FRAME <= sp
         /\ Entered \in Frame /\ Entered.base = sp - FRAME
         /\ sp' = sp - FRAME /\ bp' = sp - FRAME
         /\ Len(frames') = n + 1 /\ frames' \in Seq(Frame)
         /\ \A k \in 1 .. n : frames'[k] = frames[k]
         /\ frames'[n + 1] = Entered
         /\ Base(n + 1)' = sp - FRAME /\ Top' = sp - FRAME
         /\ \A k \in 0 .. n : Base(k)' = Base(k)
<1> DEFINE b == sp - FRAME
<1>1. Decodes /\ IsCall /\ Calling
  BY DEF Call, Exec, IsCall
<1>2. kept /\ Floor + FRAME <= sp
  BY <1>1, Observed DEF Keeps
<1>3. frames' = Append(frames, Entered)
  BY <1>1, Observed
<1>4. Entered \in Frame /\ Entered.base = b /\ FRAME <= sp
  BY <1>2, EnteredType, StackPointer, Sizes DEF FRAME
<1>5. sp' = b /\ bp' = b
  <2>1. Below(FRAME) = b
    BY <1>2, <1>4, BelowValue DEF FRAME
  <2>2. reg' = WithSp(reg, Below(FRAME)) /\ bp' = Below(FRAME)
    BY <1>1 DEF Calling
  <2>3. Below(FRAME) \in Word
    BY BelowType DEF CallsInv, TypeOK, Bytes, FRAME
  <2> QED
    BY <2>1, <2>2, <2>3, WithSpValue DEF sp, CallsInv, TypeOK, Bytes
<1>6. /\ Len(frames') = n + 1
      /\ frames' \in Seq(Frame)
      /\ \A k \in 1 .. n : frames'[k] = frames[k]
      /\ frames'[n + 1] = Entered
  BY <1>3, <1>4 DEF CallsInv
<1> HIDE DEF b
<1>7. Base(n + 1)' = b /\ Top' = b /\ \A k \in 0 .. n : Base(k)' = Base(k)
  <2>1. ASSUME NEW k \in 0 .. n
        PROVE  Base(k)' = Base(k)
    <3>1. k = 0 \/ k \in 1 .. n
      BY <1>6
    <3> QED
      BY <1>6, <3>1 DEF Base
  <2>2. n + 1 # 0 /\ Base(n + 1)' = frames'[n + 1].base /\ Top' = Base(n + 1)'
    BY <1>6 DEF Base, Top
  <2> QED
    BY <1>4, <1>6, <2>1, <2>2
<1> QED
  BY <1>1, <1>2, <1>4, <1>5, <1>6, <1>7 DEF b

LEMMA CallInv ==
  ASSUME CallsInv, NextC, kept', TypeOK', NEW i \in Calls, Call(i), Holds(i)
  PROVE  CallsInv'
<1>1. PICK n \in Nat : n = Len(frames)
  BY DEF CallsInv
<1> DEFINE b == sp - FRAME
<1>2. Decodes /\ IsCall /\ Calling
  BY <1>1, CallMoves
<1>3. kept /\ Floor + FRAME <= sp
  BY <1>1, CallMoves
<1>4. Entered \in Frame /\ Entered.base = b
  BY <1>1, CallMoves
<1>5. sp' = b /\ bp' = b
  BY <1>1, CallMoves
<1>6. /\ n = Len(frames) /\ Len(frames') = n + 1
      /\ frames' \in Seq(Frame)
      /\ \A k \in 1 .. n : frames'[k] = frames[k]
      /\ frames'[n + 1] = Entered
  BY <1>1, CallMoves
<1>7. Base(n + 1)' = b /\ Top' = b /\ \A k \in 0 .. n : Base(k)' = Base(k)
  BY <1>1, CallMoves
<1> HIDE DEF b
<1>8. Apart'
  <2> SUFFICES ASSUME NEW j \in 1 .. n + 1, NEW k \in 1 .. n + 1, j < k
               PROVE  frames'[k].base + FRAME <= frames'[j].base
    BY <1>6 DEF Apart
  <2>1. CASE k \in 1 .. n
    BY <1>6, <2>1 DEF CallsInv, Apart
  <2>2. CASE k = n + 1
    <3>1. j \in 1 .. n /\ frames'[j] = frames[j]
      BY <1>6, <2>2
    <3>2. sp <= frames[j].base /\ frames[j].base \in Nat /\ sp \in Nat
      BY <1>1, <1>3, <3>1, FrameCells, StackPointer
    <3> QED
      BY <1>4, <1>6, <2>2, <3>1, <3>2 DEF b, FRAME
  <2> QED
    BY <1>6, <2>1, <2>2
<1>9. FramesOrdered'
  <2>1. Floor <= sp' /\ sp' <= Top' /\ bp' = Top'
    BY <1>3, <1>5, <1>7, StackPointer, Sizes DEF b, FRAME
  <2>2. ASSUME NEW k \in 1 .. n + 1
        PROVE  /\ frames'[k].base + FRAME <= Base(k - 1)'
               /\ k > 1 => frames'[k].bp = frames'[k - 1].base
    <3>1. CASE k \in 1 .. n
      <4>1. k - 1 \in 0 .. n /\ Base(k - 1)' = Base(k - 1)
        BY <1>6, <1>7, <3>1
      <4>2. k > 1 => k - 1 \in 1 .. n
        BY <1>6, <3>1
      <4> QED
        BY <1>3, <1>6, <3>1, <4>1, <4>2 DEF CallsInv, FramesOrdered
    <3>2. CASE k = n + 1
      <4>1. Base(k - 1)' = Top
        BY <1>6, <1>7, <3>2 DEF Top
      <4>2. Entered.base + FRAME <= Top
        BY <1>3, <1>4, StackPointer DEF b, FRAME
      <4>3. ASSUME k > 1
            PROVE  Entered.bp = frames'[k - 1].base
        <5>1. n \in 1 .. n /\ frames # <<>>
          BY <1>6, <3>2, <4>3
        <5>2. bp = Top /\ Top = frames[n].base
          BY <1>1, <1>3, <5>1 DEF CallsInv, FramesOrdered, Top, Base
        <5> QED
          BY <1>6, <3>2, <5>1, <5>2 DEF Entered
      <4> QED
        BY <1>6, <3>2, <4>1, <4>2, <4>3
    <3> QED
      BY <1>6, <3>1, <3>2
  <2> QED
    BY <1>6, <2>1, <2>2 DEF FramesOrdered
<1>10. FramesIntact'
  <2> DEFINE e == Entered
  <2>1. /\ \A r \in General : mem'[b + 7 - r] = e.saved[r]
        /\ mem'[b + 8] = e.saved[ML]
        /\ mem'[b + 9] = e.saved[MH]
        /\ W16(mem'[b + 10], mem'[b + 11]) = e.resume
        /\ W16(mem'[b + 12], mem'[b + 13]) = e.bp
    <3>1. \A j \in 1 .. FRAME : mem'[sp - j] = frame(After(2))[j]
      BY <1>2, <1>3, CallingWrites
    <3>2. sp \in Nat /\ b = sp - 14 /\ FRAME = 14
      BY <1>3, StackPointer DEF b, FRAME
    <3>3. /\ mem'[b + 13] = Lo(bp) /\ mem'[b + 12] = Hi(bp)
          /\ mem'[b + 11] = Lo(After(2)) /\ mem'[b + 10] = Hi(After(2))
          /\ mem'[b + 9] = reg[MH] /\ mem'[b + 8] = reg[ML]
      <4>1. /\ b + 13 = sp - 1 /\ b + 12 = sp - 2 /\ b + 11 = sp - 3
            /\ b + 10 = sp - 4 /\ b + 9 = sp - 5 /\ b + 8 = sp - 6
        BY <3>2
      <4>2. /\ mem'[sp - 1] = frame(After(2))[1] /\ mem'[sp - 2] = frame(After(2))[2]
            /\ mem'[sp - 3] = frame(After(2))[3] /\ mem'[sp - 4] = frame(After(2))[4]
            /\ mem'[sp - 5] = frame(After(2))[5] /\ mem'[sp - 6] = frame(After(2))[6]
        BY <3>1, <3>2
      <4> QED
        BY <4>1, <4>2, FrameBytes
    <3>4. ASSUME NEW r \in General
          PROVE  mem'[b + 7 - r] = reg[r]
      <4>1. 7 + r \in 1 .. FRAME /\ b + 7 - r = sp - (7 + r)
        BY <3>2 DEF General, A
      <4> QED
        BY <3>1, <4>1, FrameBytes
    <3>5. /\ W16(Hi(bp), Lo(bp)) = bp
          /\ W16(Hi(After(2)), Lo(After(2))) = After(2)
      BY WordSplit, AfterType DEF CallsInv, TypeOK
    <3>6. /\ \A r \in General : e.saved[r] = reg[r]
          /\ e.saved[ML] = reg[ML] /\ e.saved[MH] = reg[MH]
          /\ e.resume = After(2) /\ e.bp = bp
      BY DEF Entered, Saved
    <3> QED
      BY <3>3, <3>4, <3>5, <3>6
  <2> HIDE DEF e
  <2>2. ASSUME NEW k \in 1 .. n
        PROVE  LET f == frames[k]
               IN  /\ \A r \in General : mem'[f.base + 7 - r] = f.saved[r]
                   /\ mem'[f.base + 8] = f.saved[ML]
                   /\ mem'[f.base + 9] = f.saved[MH]
                   /\ W16(mem'[f.base + 10], mem'[f.base + 11]) = f.resume
                   /\ W16(mem'[f.base + 12], mem'[f.base + 13]) = f.bp
    BY <1>1, <1>2, <1>3, <2>2, CallingWrites, FrameStays
  <2>3. e = Entered /\ e.base = b
    BY <1>4 DEF e
  <2> QED
    BY <1>6, <2>1, <2>2, <2>3 DEF FramesIntact
<1> QED
  BY <1>2, <1>3, <1>6, <1>8, <1>9, <1>10, CallingWrites, Observed DEF CallsInv

LEMMA RetMoves ==
  ASSUME CallsInv, NextC, kept', cpu_ret, NEW n \in Nat, n = Len(frames)
  PROVE  /\ kept /\ n \in 1 .. n /\ ~IsCall
         /\ bp = frames[n].base /\ frames[n].base \in Nat
         /\ frames[n].base + 14 <= MEMORY_SIZE /\ Floor <= frames[n].base
         /\ frames' \in Seq(Frame) /\ Len(frames') = n - 1
         /\ \A k \in 1 .. n - 1 : frames'[k] = frames[k]
         /\ sp' = frames[n].base + FRAME /\ bp' = frames[n].bp
         /\ UNCHANGED <<mem, past>>
         /\ frames[n].base + FRAME <= Base(n - 1)
         /\ n > 1 => frames[n].bp = frames[n - 1].base
         /\ Top' = Base(n - 1) /\ \A k \in 0 .. n - 1 : Base(k)' = Base(k)
         /\ \A k \in 0 .. 13 : \A old, in : memory_read(Above(k), old, in) = mem[frames[n].base + k]
<1> DEFINE f == frames[n]
<1>1. Decodes /\ IsRet /\ ~IsCall
  BY NotACall DEF cpu_ret, Exec, IsRet, IsCall
<1>2. kept /\ frames # <<>>
  BY <1>1, Observed DEF Keeps
<1>3. n = Len(frames) /\ n \in 1 .. n
  BY <1>2 DEF CallsInv
<1>4. frames' = Front(frames)
  BY <1>1, Observed
<1>5. /\ frames' \in Seq(Frame) /\ Len(frames') = n - 1
      /\ \A k \in 1 .. n - 1 : frames'[k] = frames[k]
  <2>1. frames \in Seq(Frame)
    BY DEF CallsInv
  <2> QED
    BY <1>3, <1>4, <2>1 DEF Front
<1>6. bp = f.base /\ f.base \in Nat /\ f.base + 14 <= MEMORY_SIZE /\ Floor <= f.base
  <2>1. bp = Top /\ Top = f.base
    BY <1>2, <1>3 DEF CallsInv, FramesOrdered, Top, Base
  <2> QED
    BY <1>2, <1>3, <2>1, FrameCells DEF FRAME
<1>7. W16(mem[f.base + 12], mem[f.base + 13]) = f.bp
  BY <1>2, <1>3 DEF CallsInv, FramesIntact
<1>8. ASSUME NEW k \in 0 .. 13, NEW old, NEW in
      PROVE  memory_read(Above(k), old, in) = mem[f.base + k]
  <2>1. f.base + k \in Nat /\ f.base + k < MEMORY_SIZE /\ Floor <= f.base + k
    <3> HIDE DEF f
    <3> QED
      BY <1>6, Sizes
  <2>2. Above(k) = f.base + k
    BY <1>6, <2>1, Sizes, Unwrapped DEF Above
  <2>3. ~isSet(f.base + k) /\ f.base + k \in Cells
    BY <2>1, NoSlot, Sizes DEF Cells
  <2> HIDE DEF f
  <2> QED
    BY <2>2, <2>3 DEF memory_read
<1>9. sp' = f.base + FRAME /\ bp' = f.bp /\ UNCHANGED <<mem, past>>
  <2>1. PICK in \in Inputs, g \in UninitWords :
          bp' = W16(memory_read(Above(12), Lo(g), in), memory_read(Above(13), Lo(g), in))
    BY DEF cpu_ret
  <2>2. bp' = f.bp
    <3>1. /\ memory_read(Above(12), Lo(g), in) = mem[f.base + 12]
          /\ memory_read(Above(13), Lo(g), in) = mem[f.base + 13]
      BY <1>8
    <3> QED
      BY <1>7, <2>1, <3>1
  <2>3. sp' = Above(FRAME)
    <3>1. PICK r : reg' = WithSp(r, Above(FRAME)) /\ DOMAIN r = Registers
      BY DEF cpu_ret, Released
    <3>2. reg'[SP1] = Hi(Above(FRAME)) /\ reg'[SP0] = Lo(Above(FRAME))
      BY <3>1 DEF WithSp, Registers, SP0, SP1
    <3>3. Above(FRAME) \in Word
      BY AboveType DEF FRAME, CallsInv
    <3> QED
      BY <3>2, <3>3, WordSplit DEF sp
  <2>4. Above(FRAME) = f.base + FRAME
    BY <1>6, Sizes, AddressSpaceValue DEF Above, FRAME
  <2> QED
    BY <2>2, <2>3, <2>4 DEF cpu_ret, bus
<1>10. f.base + FRAME <= Base(n - 1) /\ (n > 1 => f.bp = frames[n - 1].base)
  BY <1>2, <1>3 DEF CallsInv, FramesOrdered
<1>11. Top' = Base(n - 1) /\ \A k \in 0 .. n - 1 : Base(k)' = Base(k)
  BY <1>3, <1>5 DEF Top, Base
<1> QED
  BY <1>1, <1>2, <1>3, <1>5, <1>6, <1>8, <1>9, <1>10, <1>11 DEF f

LEMMA RetInv ==
  ASSUME CallsInv, NextC, kept', TypeOK', cpu_ret
  PROVE  CallsInv'
<1>1. PICK n \in Nat : n = Len(frames)
  BY DEF CallsInv
<1> DEFINE f == frames[n]
<1>2. kept /\ n = Len(frames) /\ n \in 1 .. n
  BY <1>1, RetMoves
<1>3. /\ frames' \in Seq(Frame) /\ Len(frames') = n - 1
      /\ \A k \in 1 .. n - 1 : frames'[k] = frames[k]
  BY <1>1, RetMoves
<1>4. bp = f.base /\ f.base \in Nat /\ f.base + 14 <= MEMORY_SIZE /\ Floor <= f.base
  BY <1>1, RetMoves
<1>5. sp' = f.base + FRAME /\ bp' = f.bp /\ UNCHANGED <<mem, past>>
  BY <1>1, RetMoves
<1>6. f.base + FRAME <= Base(n - 1) /\ (n > 1 => f.bp = frames[n - 1].base)
  BY <1>1, RetMoves
<1>7. Top' = Base(n - 1) /\ \A k \in 0 .. n - 1 : Base(k)' = Base(k)
  BY <1>1, RetMoves
<1> HIDE DEF f
<1>8. Apart'
  BY <1>2, <1>3 DEF CallsInv, Apart
<1>9. FramesOrdered'
  <2>1. Floor <= sp' /\ sp' <= Top'
    BY <1>4, <1>5, <1>6, <1>7, Sizes DEF FRAME
  <2>2. ASSUME NEW k \in 1 .. n - 1
        PROVE  /\ frames'[k].base + FRAME <= Base(k - 1)'
               /\ k > 1 => frames'[k].bp = frames'[k - 1].base
    <3>1. /\ frames[k].base + FRAME <= Base(k - 1)
          /\ k > 1 => frames[k].bp = frames[k - 1].base
      BY <1>2 DEF CallsInv, FramesOrdered
    <3>2. k - 1 \in 0 .. n - 1 /\ (k > 1 => k - 1 \in 1 .. n - 1)
      BY <1>2
    <3> QED
      BY <1>3, <1>7, <3>1, <3>2
  <2>3. frames' # <<>> => bp' = Top'
    <3>1. ASSUME frames' # <<>>
          PROVE  n > 1
      BY <1>2, <1>3, <3>1
    <3>2. n > 1 => Base(n - 1) = frames[n - 1].base
      BY <1>2 DEF Base
    <3> QED
      BY <1>5, <1>6, <1>7, <3>1, <3>2
  <2> QED
    BY <1>2, <1>3, <2>1, <2>2, <2>3 DEF FramesOrdered
<1>10. FramesIntact'
  <2>1. ASSUME NEW k \in 1 .. n - 1
        PROVE  LET g == frames'[k]
               IN  /\ \A r \in General : mem[g.base + 7 - r] = g.saved[r]
                   /\ mem[g.base + 8] = g.saved[ML]
                   /\ mem[g.base + 9] = g.saved[MH]
                   /\ W16(mem[g.base + 10], mem[g.base + 11]) = g.resume
                   /\ W16(mem[g.base + 12], mem[g.base + 13]) = g.bp
    <3>1. k \in 1 .. n /\ frames'[k] = frames[k]
      BY <1>2, <1>3
    <3> QED
      BY <1>2, <3>1 DEF CallsInv, FramesIntact
  <2> QED
    BY <1>3, <1>5, <2>1 DEF FramesIntact
<1> QED
  BY <1>2, <1>3, <1>5, <1>8, <1>9, <1>10, Observed DEF CallsInv

-----------------------------------------------------------------------------
(* Every step                                                              *)

LEMMA SkippedSteady ==
  ASSUME CallsInv, NextC, kept', NEW i \in Calls, Call(i), ~Holds(i)
  PROVE  Steady
<1>1. ~(IsCall \/ IsRet) /\ UNCHANGED <<mem, bus, reg, bp>>
  BY NotACall DEF Call, Exec, IsCall, IsRet, Skipping
<1> QED
  BY <1>1, RegisterSteady DEF sp, bus

LEMMA DivSteady ==
  ASSUME CallsInv, NextC, kept', cpu_div
  PROVE  Steady
<1>1. OP_DIV \in Assigning /\ args(OP_DIV) \in 1 .. 3
  BY ArgsOf DEF Assigning, OP_ADD, OP_DIV, OP_DEC
<1> QED
  BY <1>1, ComputeSteady, EndSteady DEF cpu_div

LEMMA KeptSteps ==
  ASSUME CallsInv, NextC, kept'
  PROVE  \/ Steady
         \/ cpu_push
         \/ cpu_pop
         \/ cpu_ret
         \/ \E i \in Calls : Call(i) /\ Holds(i)
<1>1. CASE cpu_load \/ cpu_loadlh
  BY <1>1, LoadSteady
<1>2. CASE cpu_store \/ cpu_storelh
  BY <1>2, StoreSteady
<1>3. CASE \/ cpu_mov \/ cpu_add \/ cpu_sub \/ cpu_mul \/ cpu_inc \/ cpu_dec
           \/ cpu_and \/ cpu_or \/ cpu_xor \/ cpu_not
  BY <1>3, ComputingSteady
<1>4. CASE cpu_div
  BY <1>4, DivSteady
<1>5. CASE cpu_mhml \/ cpu_cmp \/ cpu_jmp \/ cpu_je \/ cpu_jne \/ cpu_jg \/ cpu_jl
  BY <1>5, FlowSteady DEF cpu_jmp, cpu_je, cpu_jne, cpu_jg, cpu_jl, Jumps
<1>6. CASE cpu_call \/ cpu_calle \/ cpu_callne \/ cpu_callg \/ cpu_calll
  BY <1>6, SkippedSteady DEF cpu_call, cpu_calle, cpu_callne, cpu_callg, cpu_calll, Calls
<1>7. CASE Halt \/ Wild
  BY <1>7, EndSteady
<1>8. CASE Trap
  BY <1>8, Observed, NoTrap DEF Trap
<1>9. Next
  BY DEF NextC
<1> QED
  BY <1>1, <1>2, <1>3, <1>4, <1>5, <1>6, <1>7, <1>8, <1>9 DEF Next

LEMMA KeptStep ==
  ASSUME CallsInv, NextC, kept', TypeOK'
  PROVE  CallsInv'
<1>1. kept
  BY Observed
<1>2. CASE Steady
  BY <1>1, <1>2, StandsInv DEF Steady
<1>3. CASE cpu_push \/ cpu_pop
  BY <1>1, <1>3, PushStands, PopStands, StandsInv
<1>4. CASE cpu_ret
  BY <1>4, RetInv
<1>5. CASE \E i \in Calls : Call(i) /\ Holds(i)
  BY <1>5, CallInv
<1> QED
  BY <1>2, <1>3, <1>4, <1>5, KeptSteps

LEMMA InitStack == InitC => sp = MEMORY_SIZE
<1>1. [i \in Registers |-> 0] \in Bytes /\ MEMORY_SIZE \in Word
  BY Sizes, ByteDef, WordDef DEF Bytes
<1> QED
  BY <1>1, WithSpValue DEF InitC, Init, sp

LEMMA CallsInit == InitC => CallsInv
<1> SUFFICES ASSUME InitC
             PROVE  CallsInv
  OBVIOUS
<1>1. TypeOK
  BY InitType DEF InitC
<1>2. frames = <<>> /\ kept = TRUE /\ frames \in Seq(Frame) /\ Len(frames) = 0
  BY DEF InitC
<1>3. sp = MEMORY_SIZE
  BY InitStack
<1>4. IoBehindMem => past = 0
  BY DEF InitC, Init
<1>5. FramesOrdered /\ Apart /\ FramesIntact
  BY <1>2, <1>3, Sizes DEF FramesOrdered, Apart, FramesIntact, Top, Base
<1> QED
  BY <1>1, <1>2, <1>4, <1>5 DEF CallsInv

LEMMA CallsStep == CallsInv /\ [NextC]_varsC => CallsInv'
<1> SUFFICES ASSUME CallsInv, [NextC]_varsC
             PROVE  CallsInv'
  OBVIOUS
<1>1. TypeOK'
  BY NextType DEF CallsInv, NextC, varsC
<1>2. CASE NextC
  BY <1>1, <1>2, KeptStep, Forgotten
<1>3. CASE UNCHANGED varsC
  BY <1>3, <1>1 DEF varsC, vars, CallsInv, Apart, FramesOrdered, FramesIntact, Top, Base, sp
<1> QED
  BY <1>2, <1>3

LEMMA CallsInvariant == SpecC => []CallsInv
BY CallsInit, CallsStep, PTL DEF SpecC

-----------------------------------------------------------------------------
(* However deep a program that keeps the rules nests its calls, and        *)
(* whatever it pushes and pops in between, its frames lie one above the    *)
(* other between the image and the top of memory, and bp heads the chain   *)
(* of saved base pointers cpu_ret will follow.                             *)
THEOREM FramesStayOrdered == SpecC => []FramesOrdered
<1>1. CallsInv => FramesOrdered
  BY DEF CallsInv
<1> QED
  BY <1>1, CallsInvariant, PTL

(* No instruction of such a program changes a byte of a suspended          *)
(* activation: cpu_ret pops what cpu_call pushed.                          *)
THEOREM FramesStayIntact == SpecC => []FramesIntact
<1>1. CallsInv => FramesIntact
  BY DEF CallsInv
<1> QED
  BY <1>1, CallsInvariant, PTL

LEMMA KillStep ==
  ASSUME CallsInv, OnlyDivisionKills, [NextC]_varsC
  PROVE  OnlyDivisionKills'
<1> SUFFICES ASSUME kept', status' = "crash"
             PROVE  instruction' = OP_DIV /\ arg(2)' = 0
  BY DEF OnlyDivisionKills
<1>1. CASE NextC
  <2>1. kept /\ Next
    BY <1>1, Observed DEF NextC
  <2>2. ~Trap
    BY <2>1, NoTrap DEF Trap
  <2>3. ~(\E i : Exec(i))
    BY DEF Exec
  <2>4. instruction = OP_DIV /\ arg(2) = 0 /\ Killed
    BY <2>1, <2>2, <2>3
       DEF Next, Halt, Wild, cpu_div, Compute, Jump, Call, cpu_load, cpu_store, cpu_mhml,
           cpu_loadlh, cpu_storelh, cpu_mov, cpu_add, cpu_sub, cpu_mul, cpu_inc, cpu_dec,
           cpu_jmp, cpu_cmp, cpu_je, cpu_jne, cpu_jg, cpu_jl, cpu_push, cpu_pop, cpu_ret,
           cpu_call, cpu_calle, cpu_callne, cpu_callg, cpu_calll, cpu_and, cpu_or, cpu_xor, cpu_not
  <2> QED
    BY <2>4 DEF Killed, instruction, arg, targ, operandsig, At, Deref
<1>2. CASE UNCHANGED varsC
  <2>1. instruction = OP_DIV /\ arg(2) = 0
    BY <1>2 DEF varsC, vars, OnlyDivisionKills
  <2> QED
    BY <1>2, <2>1 DEF varsC, vars, instruction, arg, targ, operandsig, At, Deref
<1> QED
  BY <1>1, <1>2

(* Such a program never makes a slot look mapped: the process is killed by *)
(* a division by zero or not at all.                                       *)
THEOREM OnlyDivisionEverKills == SpecC => []OnlyDivisionKills
<1>1. InitC => OnlyDivisionKills
  BY DEF InitC, Init, OnlyDivisionKills
<1>2. CallsInv /\ OnlyDivisionKills /\ [NextC]_varsC => OnlyDivisionKills'
  BY KillStep
<1> QED
  BY <1>1, <1>2, CallsInvariant, PTL DEF SpecC

-----------------------------------------------------------------------------
(* The core implements the calling convention of CallStack: for every      *)
(* program, memory, sp and bp together behave like a stack of suspended    *)
(* activations as long as the rules are kept.                              *)
(*                                                                         *)
(* The refinement mapping reads private stacks off the memory between      *)
(* frames, so each step has to say what it does to those segments: a PUSH  *)
(* or POP changes the newest by one byte, a CALL closes it and opens an    *)
(* empty one, a RET drops it, and nothing else touches any.                *)

(* Sequences as functions on an initial interval                           *)

LEMMA Tuple ==
  ASSUME NEW S, NEW n \in Nat, NEW s \in [1 .. n -> S]
  PROVE  s \in Seq(S) /\ Len(s) = n
<1>1. s \in Seq(S)
  BY SeqDef
<1>2. DOMAIN s = 1 .. Len(s) /\ DOMAIN s = 1 .. n /\ Len(s) \in Nat
  BY <1>1, LenProperties
<1> QED
  BY <1>1, <1>2

LEMMA AppendTuple ==
  ASSUME NEW S, NEW n \in Nat, NEW s \in [1 .. n -> S], NEW t \in [1 .. n + 1 -> S],
         \A j \in 1 .. n : t[j] = s[j]
  PROVE  t = Append(s, t[n + 1])
<1>1. s \in Seq(S) /\ Len(s) = n /\ t \in Seq(S) /\ Len(t) = n + 1
  BY Tuple
<1> DEFINE e == t[n + 1]
           u == Append(s, e)
<1>2. e \in S
  OBVIOUS
<1> HIDE DEF e
<1>3. /\ u \in Seq(S) /\ Len(u) = n + 1
      /\ \A j \in 1 .. n : u[j] = s[j]
      /\ u[n + 1] = e
  BY <1>1, <1>2, AppendProperties
<1> HIDE DEF u
<1>4. ASSUME NEW j \in 1 .. n + 1
      PROVE  t[j] = u[j]
  BY <1>3, <1>4 DEF e
<1>5. t = u
  BY <1>1, <1>3, <1>4, SeqEqual
<1> QED
  BY <1>5 DEF u, e

LEMMA FrontTuple ==
  ASSUME NEW S, NEW n \in Nat, NEW s \in [1 .. n + 1 -> S], NEW t \in [1 .. n -> S],
         \A j \in 1 .. n : t[j] = s[j]
  PROVE  s # <<>> /\ Len(s) = n + 1 /\ t = SubSeq(s, 1, Len(s) - 1)
<1>1. s \in Seq(S) /\ Len(s) = n + 1 /\ t \in Seq(S) /\ Len(t) = n
  BY Tuple
<1> DEFINE u == SubSeq(s, 1, n)
<1>2. /\ u \in Seq(S) /\ Len(u) = n
      /\ \A j \in 1 .. n : u[j] = s[j]
  <2>1. \A j \in 1 .. n : s[j] \in S
    OBVIOUS
  <2>2. /\ u \in Seq(S)
        /\ Len(u) = IF 1 <= n THEN n - 1 + 1 ELSE 0
        /\ \A j \in 1 .. n - 1 + 1 : u[j] = s[1 + j - 1]
    BY <2>1, SubSeqProperties
  <2> QED
    BY <2>2
<1> HIDE DEF u
<1>3. t = u
  BY <1>1, <1>2, SeqEqual
<1>4. s # <<>>
  BY <1>1, EmptySeq
<1> QED
  BY <1>1, <1>3, <1>4 DEF u

-----------------------------------------------------------------------------
(* The refinement mapping, by name                                         *)

Slice(m, from, to) == [j \in 1 .. from - to |-> m[from - j]]

Regs == [i \in 0 .. CMP |-> reg[i]]

Stack == IF kept THEN Slice(mem, Top, sp) ELSE <<>>

Suspended(k) == [saved  |-> frames[k].saved,
                 stack  |-> Slice(mem, Base(k - 1), frames[k].base + FRAME),
                 resume |-> frames[k].resume]

Callers == IF kept THEN [k \in 1 .. Len(frames) |-> Suspended(k)] ELSE <<>>

(* Segments above the stack pointer stay as they are when memory there     *)
(* does.                                                                   *)
LEMMA SliceStays ==
  ASSUME CallsInv, kept, \A a \in Cells : sp <= a => mem'[a] = mem[a],
         NEW from \in Nat, NEW to \in Nat, sp <= to, from <= MEMORY_SIZE
  PROVE  Slice(mem', from, to) = Slice(mem, from, to)
<1>1. ASSUME NEW j \in 1 .. from - to
      PROVE  mem'[from - j] = mem[from - j]
  <2>1. from - j \in Cells /\ sp <= from - j
    BY StackPointer, Sizes DEF Cells
  <2> QED
    BY <2>1
<1> QED
  BY <1>1 DEF Slice

LEMMA SliceType ==
  ASSUME NEW m \in [Cells -> Byte], NEW from \in Nat, NEW to \in Nat, from <= MEMORY_SIZE
  PROVE  Slice(m, from, to) \in [1 .. from - to -> Byte]
<1>1. \A j \in 1 .. from - to : from - j \in Cells
  BY Sizes DEF Cells
<1> QED
  BY <1>1 DEF Slice

(* The segment above each frame lies above the stack pointer, in memory.   *)
LEMMA Segments ==
  ASSUME CallsInv, kept, NEW k \in 1 .. Len(frames)
  PROVE  /\ Base(k - 1) \in Nat /\ Base(k - 1) <= MEMORY_SIZE
         /\ frames[k].base + FRAME \in Nat
         /\ sp <= frames[k].base + FRAME /\ frames[k].base + FRAME <= Base(k - 1)
<1>1. /\ frames[k].base \in Nat /\ sp <= Top /\ Top <= frames[k].base
      /\ frames[k].base + FRAME <= Base(k - 1)
  BY FrameCells DEF CallsInv, FramesOrdered
<1>2. sp \in Nat /\ Top \in Nat
  BY StackPointer
<1>3. Base(k - 1) \in Nat /\ Base(k - 1) <= MEMORY_SIZE
  <2>1. CASE k = 1
    BY <2>1, Sizes DEF Base
  <2>2. CASE k # 1
    <3>1. k - 1 \in 1 .. Len(frames) /\ k - 1 # 0
      BY <2>2 DEF CallsInv
    <3>2. frames[k - 1].base \in Nat /\ frames[k - 1].base + FRAME <= MEMORY_SIZE
      BY <3>1, FrameCells
    <3> QED
      BY <3>1, <3>2, Sizes DEF Base, FRAME
  <2> QED
    BY <2>1, <2>2
<1> QED
  BY <1>1, <1>2, <1>3 DEF FRAME

LEMMA SuspendedStays ==
  ASSUME CallsInv, kept, \A a \in Cells : sp <= a => mem'[a] = mem[a],
         NEW k \in 1 .. Len(frames), frames'[k] = frames[k], Base(k - 1)' = Base(k - 1)
  PROVE  Suspended(k)' = Suspended(k)
<1>1. Slice(mem', Base(k - 1), frames[k].base + FRAME)
        = Slice(mem, Base(k - 1), frames[k].base + FRAME)
  BY Segments, SliceStays
<1> QED
  BY <1>1 DEF Suspended

-----------------------------------------------------------------------------
(* Steps inside an activation                                              *)

LEMMA CallersStay ==
  ASSUME CallsInv, kept, Stands
  PROVE  kept' /\ Callers' = Callers
<1>1. /\ frames' = frames /\ kept' = TRUE /\ \A k : Base(k)' = Base(k)
      /\ \A a \in Cells : sp <= a => mem'[a] = mem[a]
  BY DEF Stands, Base
<1>2. ASSUME NEW k \in 1 .. Len(frames)
      PROVE  Suspended(k)' = Suspended(k)
  BY <1>1, SuspendedStays
<1> QED
  BY <1>1, <1>2 DEF Callers

LEMMA StackType ==
  ASSUME CallsInv, kept
  PROVE  /\ Top - sp \in Nat
         /\ Stack \in [1 .. Top - sp -> Byte]
         /\ \A j \in 1 .. Top - sp : Stack[j] = mem[Top - j]
<1>1. Stack = Slice(mem, Top, sp)
  BY DEF Stack
<1>2. Stack \in [1 .. Top - sp -> Byte]
  BY <1>1, StackPointer, SliceType DEF CallsInv, TypeOK
<1> QED
  BY <1>1, <1>2, StackPointer DEF Slice

LEMMA WorkMaps ==
  ASSUME CallsInv, kept, Steady
  PROVE  kept' /\ Callers' = Callers /\ Stack' = Stack
<1>1. /\ kept' = TRUE /\ sp' = sp /\ Top' = Top
      /\ \A a \in Cells : sp <= a => mem'[a] = mem[a]
  BY DEF Steady, Stands, Top, Base
<1>2. Slice(mem', Top, sp) = Slice(mem, Top, sp)
  BY <1>1, StackPointer, SliceStays
<1> QED
  BY <1>1, <1>2, CallersStay DEF Stack, Steady

LEMMA RegsStay ==
  ASSUME TypeOK, NEW v, reg' = WithSp(reg, v)
  PROVE  Regs' = Regs
<1>1. \A k \in 0 .. CMP : k \in Registers /\ k # SP0 /\ k # SP1
  BY DEF CMP, SP0, SP1, Registers
<1>2. \A k \in Registers : k # SP0 /\ k # SP1 => reg'[k] = reg[k]
  BY DEF WithSp, TypeOK
<1> QED
  BY <1>1, <1>2 DEF Regs

LEMMA PushMaps ==
  ASSUME CallsInv, NextC, kept', TypeOK', cpu_push
  PROVE  /\ kept /\ Callers' = Callers
         /\ Regs' = Regs
         /\ \E v \in Byte : Stack' = Append(Stack, v)
<1>1. kept /\ kept' = TRUE
  BY Observed
<1>2. Stands /\ sp' = sp - 1 /\ mem'[sp - 1] = arg(1) /\ Floor < sp
  BY PushStands
<1>3. Top' = Top /\ \A a \in Cells : sp <= a => mem'[a] = mem[a]
  BY <1>2 DEF Stands, Top, Base
<1>4. arg(1) \in Byte
  BY ArgsOf, ArgType DEF cpu_push, CallsInv
<1>5. Regs' = Regs
  BY RegsStay DEF cpu_push, CallsInv
<1> DEFINE n == Top - sp
           t == Slice(mem', Top, sp - 1)
<1>6. n \in Nat /\ Stack \in [1 .. n -> Byte] /\ \A j \in 1 .. n : Stack[j] = mem[Top - j]
  BY <1>1, StackType
<1>7. t \in [1 .. n + 1 -> Byte]
  <2>1. t \in [1 .. Top - (sp - 1) -> Byte]
    <3>1. mem' \in [Cells -> Byte] /\ sp - 1 \in Nat
      BY <1>1, <1>2, StackPointer, Sizes DEF TypeOK
    <3> QED
      BY <1>1, <3>1, StackPointer, SliceType
  <2>2. Top - (sp - 1) = n + 1
    BY <1>1, StackPointer
  <2> QED
    BY <2>1, <2>2
<1>8. ASSUME NEW j \in 1 .. n
      PROVE  t[j] = Stack[j]
  <2>1. Top - j \in Cells /\ sp <= Top - j /\ j \in 1 .. Top - (sp - 1)
    BY <1>1, StackPointer, Sizes DEF Cells
  <2> QED
    BY <1>3, <1>6, <2>1 DEF Slice
<1>9. t[n + 1] = arg(1)
  <2>1. n + 1 \in 1 .. Top - (sp - 1) /\ Top - (n + 1) = sp - 1
    BY <1>1, StackPointer
  <2> QED
    BY <1>2, <2>1 DEF Slice
<1>10. Stack' = t
  BY <1>1, <1>2, <1>3 DEF Stack
<1> HIDE DEF n, t
<1>11. t = Append(Stack, arg(1))
  BY <1>6, <1>7, <1>8, <1>9, AppendTuple
<1> QED
  BY <1>1, <1>2, <1>4, <1>5, <1>10, <1>11, CallersStay

LEMMA PopMaps ==
  ASSUME CallsInv, NextC, kept', TypeOK', cpu_pop
  PROVE  /\ kept /\ Callers' = Callers
         /\ Stack # <<>>
         /\ Stack' = SubSeq(Stack, 1, Len(Stack) - 1)
         /\ \/ Regs' = Regs
            \/ \E d \in DOMAIN Regs : Regs' = [Regs EXCEPT ![d] = Stack[Len(Stack)]]
<1>1. kept /\ kept' = TRUE
  BY Observed
<1>2. Stands /\ sp < Top /\ sp' = sp + 1
  BY PopStands
<1>3. Top' = Top /\ \A a \in Cells : sp <= a => mem'[a] = mem[a]
  BY <1>2 DEF Stands, Top, Base
<1> DEFINE n == Top - (sp + 1)
           t == Slice(mem', Top, sp + 1)
<1>4. n \in Nat /\ n + 1 = Top - sp
  BY <1>1, <1>2, StackPointer
<1>5. Stack \in [1 .. n + 1 -> Byte] /\ \A j \in 1 .. n + 1 : Stack[j] = mem[Top - j]
  BY <1>1, <1>4, StackType
<1>6. t \in [1 .. n -> Byte]
  <2>1. mem' \in [Cells -> Byte] /\ sp + 1 \in Nat
    BY <1>1, StackPointer DEF TypeOK
  <2> QED
    BY <1>1, <2>1, StackPointer, SliceType
<1>7. ASSUME NEW j \in 1 .. n
      PROVE  t[j] = Stack[j]
  <2>1. Top - j \in Cells /\ sp <= Top - j
    BY <1>1, StackPointer, Sizes DEF Cells
  <2> QED
    BY <1>3, <1>4, <1>5, <2>1 DEF Slice
<1>8. Stack' = t
  BY <1>1, <1>2, <1>3 DEF Stack
<1>9. Stack[n + 1] = mem[sp]
  <2>1. n + 1 \in 1 .. n + 1 /\ Top - (n + 1) = sp
    BY <1>1, <1>4, StackPointer
  <2> QED
    BY <1>5, <2>1
<1> HIDE DEF n, t
<1>10. Stack # <<>> /\ Len(Stack) = n + 1 /\ t = SubSeq(Stack, 1, Len(Stack) - 1)
  BY <1>4, <1>5, <1>6, <1>7, FrontTuple
<1>11. \/ Regs' = Regs
       \/ \E d \in DOMAIN Regs : Regs' = [Regs EXCEPT ![d] = mem[sp]]
  <2> DEFINE r == WithSp(reg, (sp + 1) % AddressSpace)
  <2>1. PICK in \in Inputs : Assign(targ(1), memory_read(sp, Deref(targ(1), r, mem), in), r)
    BY DEF cpu_pop
  <2>2. memory_read(sp, Deref(targ(1), r, mem), in) = mem[sp]
    <3>1. sp \in Cells /\ ~isSet(sp)
      BY <1>1, <1>2, StackPointer, Sizes, NoSlot DEF Cells
    <3> QED
      BY <3>1 DEF memory_read
  <2>3. targ(1) \in Target
    BY ArgsOf, ArgType DEF cpu_pop, CallsInv
  <2>4. /\ r \in [Registers -> Byte]
        /\ \A k \in 0 .. CMP : k \in Registers /\ r[k] = reg[k]
    <3>1. reg \in Bytes /\ (sp + 1) % AddressSpace \in Word
      <4>1. sp + 1 < 65536 /\ sp + 1 \in Nat
        BY <1>1, <1>2, StackPointer, Sizes
      <4> QED
        BY <4>1, Unwrapped, WordDef DEF CallsInv, TypeOK, Bytes
    <3>2. r \in Bytes
      BY <3>1, WithSpType
    <3>3. \A k \in 0 .. CMP : k \in Registers /\ k # SP0 /\ k # SP1
      BY DEF CMP, SP0, SP1, Registers
    <3>4. \A k \in Registers : k # SP0 /\ k # SP1 => r[k] = reg[k]
      BY <3>1 DEF WithSp, Bytes
    <3> HIDE DEF r
    <3> QED
      BY <3>2, <3>3, <3>4 DEF Bytes
  <2> HIDE DEF r
  <2>5. reg' = IF targ(1).in = "reg" THEN [r EXCEPT ![targ(1).at] = mem[sp]] ELSE r
    BY <2>1, <2>2 DEF Assign
  <2>6. CASE targ(1).in = "reg" /\ targ(1).at \in 0 .. CMP
    BY <2>4, <2>5, <2>6 DEF Regs
  <2>7. CASE ~(targ(1).in = "reg" /\ targ(1).at \in 0 .. CMP)
    BY <2>4, <2>5, <2>7 DEF Regs
  <2> QED
    BY <2>6, <2>7
<1> QED
  BY <1>1, <1>2, <1>8, <1>9, <1>10, <1>11, CallersStay

-----------------------------------------------------------------------------
(* CALL                                                                    *)

LEMMA EnterMaps ==
  ASSUME CallsInv, NextC, kept', TypeOK', NEW i \in Calls, Call(i), Holds(i)
  PROVE  /\ kept /\ Regs' = Regs /\ Stack' = <<>>
         /\ Callers' = Append(Callers, [saved  |-> [k \in Saved |-> Regs[k]],
                                        stack  |-> Stack,
                                        resume |-> (pc + 3) % 65536])
<1>1. PICK n \in Nat : n = Len(frames)
  BY DEF CallsInv
<1>2. /\ kept /\ kept' = TRUE
      /\ Calling /\ Floor + FRAME <= sp
      /\ Entered.base = sp - FRAME
      /\ sp' = sp - FRAME /\ Top' = sp - FRAME
      /\ Len(frames') = n + 1
      /\ \A k \in 1 .. n : frames'[k] = frames[k]
      /\ frames'[n + 1] = Entered
      /\ \A k \in 0 .. n : Base(k)' = Base(k)
  BY <1>1, CallMoves, Observed
<1>3. \A a \in Cells : sp <= a => mem'[a] = mem[a]
  BY <1>2, CallingWrites
<1>4. Stack' = <<>>
  BY <1>2, StackPointer, Sizes DEF Stack, Slice, FRAME
<1>5. Regs' = Regs
  BY <1>2, RegsStay DEF Calling, CallsInv
<1>6. \A k \in 1 .. n : Suspended(k)' = Suspended(k)
  BY <1>1, <1>2, <1>3, SuspendedStays
<1>7. Suspended(n + 1)' = [saved  |-> [k \in Saved |-> Regs[k]],
                           stack  |-> Stack,
                           resume |-> (pc + 3) % 65536]
  <2>1. /\ Base(n + 1 - 1)' = Top
        /\ Entered.base + FRAME = sp
        /\ Slice(mem', Top, sp) = Slice(mem, Top, sp)
    <3>1. n + 1 - 1 = n /\ n \in 0 .. n
      OBVIOUS
    <3>2. Base(n + 1 - 1)' = Top
      BY <1>1, <1>2, <3>1 DEF Top
    <3> QED
      BY <1>2, <1>3, <3>2, StackPointer, SliceStays DEF FRAME
  <2>2. Entered.resume = (pc + 3) % 65536
    <3>1. pc \in Int
      BY WordDef DEF CallsInv, TypeOK
    <3>2. pc + 1 + 2 = pc + 3
      BY <3>1
    <3> QED
      BY <3>2, AddressSpaceValue DEF Entered, After
  <2>3. Entered.saved = [k \in Saved |-> Regs[k]]
    BY DEF Entered, Regs, Saved, General, A, ML, MH, CMP
  <2> QED
    BY <1>2, <2>1, <2>2, <2>3 DEF Suspended, Stack
<1> DEFINE t == [k \in 1 .. n + 1 |-> Suspended(k)']
           S == {t[k] : k \in 1 .. n + 1}
<1>8. Callers' = t /\ Callers = [k \in 1 .. n |-> Suspended(k)]
  BY <1>1, <1>2 DEF Callers
<1>9. t \in [1 .. n + 1 -> S] /\ Callers \in [1 .. n -> S]
  BY <1>6, <1>8
<1>10. (\A j \in 1 .. n : t[j] = Callers[j]) /\ t[n + 1] = Suspended(n + 1)'
  BY <1>6, <1>8
<1> HIDE DEF t, S
<1>11. t = Append(Callers, t[n + 1])
  BY <1>9, <1>10, AppendTuple
<1> QED
  BY <1>2, <1>4, <1>5, <1>7, <1>8, <1>10, <1>11

-----------------------------------------------------------------------------
(* RET                                                                     *)

(* The registers of the caller, with what the callee hands over.           *)
Resumed(saved) == [i \in DOMAIN Regs |->
                     IF i \in Saved THEN saved[i]
                     ELSE IF i \in Return THEN Regs[i - RA]
                     ELSE Regs[i]]

LEMMA ReturnedRegs ==
  ASSUME CallsInv, NextC, kept', cpu_ret, NEW n \in Nat, n = Len(frames)
  PROVE  Regs' = Resumed(frames[n].saved) /\ pc' = frames[n].resume
<1> DEFINE f == frames[n]
<1>1. /\ kept /\ n \in 1 .. n
      /\ \A k \in 0 .. 13 : \A old, in : memory_read(Above(k), old, in) = mem[f.base + k]
  BY RetMoves
<1>2. /\ \A r \in General : mem[f.base + 7 - r] = f.saved[r]
      /\ mem[f.base + 8] = f.saved[ML] /\ mem[f.base + 9] = f.saved[MH]
      /\ W16(mem[f.base + 10], mem[f.base + 11]) = f.resume
  BY <1>1 DEF CallsInv, FramesIntact
<1>3. f.base \in Nat
  BY RetMoves
<1> HIDE DEF f
<1>4. PICK in \in Inputs, g \in UninitWords :
        LET popped(k, old) == memory_read(Above(k), old, in)
            r == [i \in Registers |->
                    IF i \in Return THEN reg[A + (i - RA)]
                    ELSE IF i \in General THEN popped(A + 7 - i, reg[i])
                    ELSE IF i = ML THEN popped(8, reg[ML])
                    ELSE IF i = MH THEN popped(9, reg[MH])
                    ELSE reg[i]]
        IN  /\ reg' = Released(r)
            /\ pc'  = W16(popped(10, Lo(g)), popped(11, Lo(g)))
  BY DEF cpu_ret
<1> DEFINE r == [i \in Registers |->
                    IF i \in Return THEN reg[A + (i - RA)]
                    ELSE IF i \in General THEN memory_read(Above(A + 7 - i), reg[i], in)
                    ELSE IF i = ML THEN memory_read(Above(8), reg[ML], in)
                    ELSE IF i = MH THEN memory_read(Above(9), reg[MH], in)
                    ELSE reg[i]]
<1>5. reg' = Released(r)
  BY <1>4
<1>6. pc' = f.resume
  BY <1>1, <1>2, <1>4
<1>7. ASSUME NEW i \in 0 .. CMP
      PROVE  r[i] = IF i \in Saved THEN f.saved[i]
                    ELSE IF i \in Return THEN reg[i - RA]
                    ELSE reg[i]
  <2>1. i \in Registers
    BY DEF CMP, Registers
  <2>2. CASE i \in General
    <3>1. i \notin Return /\ i \in Saved
      BY <2>2 DEF General, Return, A, RA, Saved
    <3>2. A + 7 - i \in 0 .. 13 /\ f.base + (A + 7 - i) = f.base + 7 - i
      BY <1>3, <2>2 DEF General, A
    <3> QED
      BY <1>1, <1>2, <2>1, <2>2, <3>1, <3>2
  <2>3. CASE i \in Return
    <3>1. i \notin Saved /\ A + (i - RA) = i - RA
      BY <2>3 DEF General, Return, A, RA, Saved, ML, MH
    <3> QED
      BY <2>1, <2>3, <3>1
  <2>4. CASE i \in {ML, MH}
    <3>1. i \notin Return /\ i \notin General /\ i \in Saved /\ ML # MH
      BY <2>4 DEF General, Return, A, RA, Saved, ML, MH
    <3> QED
      BY <1>1, <1>2, <2>1, <2>4, <3>1
  <2> QED
    BY <2>1, <2>2, <2>3, <2>4 DEF Saved
<1> HIDE DEF r
<1>8. DOMAIN r = Registers
  BY DEF r
<1>9. ASSUME NEW i \in 0 .. CMP
      PROVE  reg'[i] = r[i]
  <2>1. i \in Registers /\ i # SP0 /\ i # SP1
    BY DEF CMP, SP0, SP1, Registers
  <2> QED
    BY <1>5, <1>8, <2>1 DEF Released, WithSp
<1>10. \A i \in Return : i - RA \in 0 .. CMP
  BY DEF Return, RA, CMP
<1> QED
  BY <1>6, <1>7, <1>9, <1>10 DEF f, Regs, Resumed

LEMMA LeaveMaps ==
  ASSUME CallsInv, NextC, kept', TypeOK', cpu_ret
  PROVE  /\ kept /\ Callers # <<>>
         /\ Regs' = Resumed(Callers[Len(Callers)].saved)
         /\ Stack' = Callers[Len(Callers)].stack
         /\ pc' = Callers[Len(Callers)].resume
         /\ Callers' = SubSeq(Callers, 1, Len(Callers) - 1)
<1>1. PICK n \in Nat : n = Len(frames)
  BY DEF CallsInv
<1>2. /\ kept /\ kept' = TRUE /\ n \in 1 .. n
      /\ Len(frames') = n - 1
      /\ \A k \in 1 .. n - 1 : frames'[k] = frames[k]
      /\ sp' = frames[n].base + FRAME /\ mem' = mem
      /\ Top' = Base(n - 1) /\ \A k \in 0 .. n - 1 : Base(k)' = Base(k)
  BY <1>1, RetMoves, Observed
<1>3. Regs' = Resumed(frames[n].saved) /\ pc' = frames[n].resume
  BY <1>1, ReturnedRegs
<1>4. Stack' = Slice(mem, Base(n - 1), frames[n].base + FRAME)
  BY <1>2 DEF Stack
<1> DEFINE m == n - 1
           t == [k \in 1 .. m |-> Suspended(k)']
           S == {Suspended(k) : k \in 1 .. m + 1}
<1>5. m \in Nat /\ m + 1 = n
  BY <1>2
<1>6. Callers' = t /\ Callers = [k \in 1 .. m + 1 |-> Suspended(k)]
  BY <1>1, <1>2, <1>5 DEF Callers
<1>7. ASSUME NEW k \in 1 .. m
      PROVE  Suspended(k)' = Suspended(k)
  <2>1. k \in 1 .. Len(frames) /\ k - 1 \in 0 .. n - 1
    BY <1>1, <1>5
  <2> QED
    BY <1>2, <2>1, SuspendedStays
<1>8. t \in [1 .. m -> S] /\ Callers \in [1 .. m + 1 -> S]
  BY <1>5, <1>6, <1>7
<1>9. (\A j \in 1 .. m : t[j] = Callers[j]) /\ Callers[m + 1] = Suspended(n)
  BY <1>5, <1>6, <1>7
<1> HIDE DEF m, t, S
<1>10. Callers # <<>> /\ Len(Callers) = m + 1 /\ t = SubSeq(Callers, 1, Len(Callers) - 1)
  BY <1>5, <1>8, <1>9, FrontTuple
<1>11. /\ Suspended(n).saved = frames[n].saved
       /\ Suspended(n).stack = Slice(mem, Base(n - 1), frames[n].base + FRAME)
       /\ Suspended(n).resume = frames[n].resume
  BY DEF Suspended
<1>12. Callers[Len(Callers)] = Suspended(n)
  BY <1>9, <1>10
<1> QED
  BY <1>2, <1>3, <1>4, <1>6, <1>10, <1>11, <1>12

-----------------------------------------------------------------------------
(* Every step                                                              *)

LEMMA MappedInit == InitC => Convention!Init
<1> SUFFICES ASSUME InitC
             PROVE  Convention!Init
  OBVIOUS
<1>1. kept = TRUE /\ Len(frames) = 0 /\ Top = MEMORY_SIZE
  BY DEF InitC, Top, Base
<1>2. sp = MEMORY_SIZE
  BY InitStack
<1>3. Segment(Top, sp) = <<>>
  BY <1>1, <1>2, Sizes DEF Segment
<1> QED
  BY <1>1, <1>3 DEF Convention!Init

(* The mapping of Calls is the one named here, before and after a step.    *)
LEMMA Mapped ==
  /\ Regs = [i \in 0 .. CMP |-> reg[i]]
  /\ Regs' = [i \in 0 .. CMP |-> reg'[i]]
  /\ Stack = IF kept THEN Segment(Top, sp) ELSE <<>>
  /\ Stack' = IF kept' THEN Segment(Top, sp)' ELSE <<>>
  /\ Callers = IF kept
               THEN [k \in 1 .. Len(frames) |->
                       [saved  |-> frames[k].saved,
                        stack  |-> Segment(Base(k - 1), frames[k].base + FRAME),
                        resume |-> frames[k].resume]]
               ELSE <<>>
  /\ Callers' = IF kept'
                THEN [k \in 1 .. Len(frames) |->
                        [saved  |-> frames[k].saved,
                         stack  |-> Segment(Base(k - 1), frames[k].base + FRAME),
                         resume |-> frames[k].resume]]'
                ELSE <<>>
BY DEF Regs, Stack, Callers, Suspended, Slice, Segment

(* The step's effect on the mapped state is one of the abstract actions.   *)
LEMMA MappedStep ==
  ASSUME CallsInv, NextC, kept', TypeOK'
  PROVE  Convention!Next
<1>1. kept /\ kept' = TRUE
  BY Observed
<1>2. CASE Steady
  <2>1. Convention!Work
    BY <1>1, <1>2, WorkMaps, Mapped DEF Convention!Work
  <2> QED
    BY <1>1, <2>1 DEF Convention!Next
<1>3. CASE cpu_push
  <2>1. PICK v \in Byte : Stack' = Append(Stack, v) /\ Callers' = Callers /\ Regs' = Regs
    BY <1>3, PushMaps
  <2>2. Convention!Push
    BY <2>1, Mapped, ByteDef DEF Convention!Push, Convention!Byte, Byte
  <2> QED
    BY <1>1, <2>2 DEF Convention!Next
<1>4. CASE cpu_pop
  <2>1. Convention!Pop
    BY <1>4, PopMaps, Mapped DEF Convention!Pop, Convention!Front, Convention!Last
  <2> QED
    BY <1>1, <2>1 DEF Convention!Next
<1>5. CASE cpu_ret
  <2>1. Convention!Saved = Saved /\ Convention!Return = Return /\ RA = 8
    BY DEF Convention!Saved, Convention!General, Convention!Return, Saved, General, Return,
           A, RA, ML, MH
  <2>2. Convention!Leave
    BY <1>5, <2>1, LeaveMaps, Mapped DEF Convention!Leave, Convention!Front, Convention!Last, Resumed
  <2> QED
    BY <1>1, <2>2 DEF Convention!Next
<1>6. CASE \E i \in Calls : Call(i) /\ Holds(i)
  <2>1. Convention!Saved = Saved
    BY DEF Convention!Saved, Convention!General, Saved, General, A, ML, MH
  <2>2. Convention!Activation = [saved  |-> [k \in Saved |-> Regs[k]],
                                 stack  |-> Stack,
                                 resume |-> (pc + 3) % 65536]
    BY <2>1, Mapped DEF Convention!Activation
  <2>3. /\ Regs' = Regs /\ Stack' = <<>>
        /\ Callers' = Append(Callers, Convention!Activation)
    BY <1>6, <2>2, EnterMaps
  <2>4. Convention!Enter
    BY <2>3, Mapped DEF Convention!Enter
  <2> QED
    BY <1>1, <2>4 DEF Convention!Next
<1> QED
  BY <1>2, <1>3, <1>4, <1>5, <1>6, KeptSteps

LEMMA MappedBoxStep ==
  ASSUME CallsInv, [NextC]_varsC
  PROVE  \/ Convention!Next
         \/ UNCHANGED <<Regs, Stack, Callers, pc, kept>>
<1>1. CASE NextC /\ kept'
  <2>1. TypeOK'
    BY <1>1, NextType DEF CallsInv, NextC
  <2> QED
    BY <1>1, <2>1, MappedStep
<1>2. CASE NextC /\ ~kept'
  <2>1. kept' = FALSE
    BY <1>2 DEF NextC, CallsInv
  <2> QED
    BY <2>1 DEF Convention!Next, Convention!Break
<1>3. CASE UNCHANGED varsC
  <2>1. /\ frames' = frames /\ kept' = kept /\ pc' = pc /\ sp' = sp
        /\ mem' = mem /\ reg' = reg
    BY <1>3 DEF varsC, vars, sp
  <2>2. Top' = Top /\ \A k : Base(k)' = Base(k)
    BY <2>1 DEF Top, Base
  <2>3. \A k : Suspended(k)' = Suspended(k)
    BY <2>1, <2>2 DEF Suspended
  <2> QED
    BY <2>1, <2>2, <2>3 DEF Regs, Stack, Callers
<1> QED
  BY <1>1, <1>2, <1>3

(* A program that keeps the rules cannot tell the core's memory, sp and bp *)
(* from a stack of suspended activations with private stacks: however its  *)
(* calls nest, a RET resumes the activation its CALL suspended, with the   *)
(* registers and the pushed bytes it had.                                  *)
THEOREM ConventionImplemented == SpecC => ImplementsConvention
<1>1. CallsInv /\ [NextC]_varsC
        => [Convention!Next]_<<[i \in 0 .. CMP |-> reg[i]],
                               IF kept THEN Segment(Top, sp) ELSE <<>>,
                               IF kept
                               THEN [k \in 1 .. Len(frames) |->
                                       [saved  |-> frames[k].saved,
                                        stack  |-> Segment(Base(k - 1), frames[k].base + FRAME),
                                        resume |-> frames[k].resume]]
                               ELSE <<>>,
                               pc, kept>>
  BY MappedBoxStep, Mapped
<1> QED
  BY <1>1, CallsInvariant, MappedInit, PTL DEF SpecC, ImplementsConvention, Convention!Spec
=============================================================================
