-------------------------------- MODULE Cpu --------------------------------
(***************************************************************************)
(* The Sean816 core: cpu_create_core, the fetch-decode-execute loop        *)
(* cpu_exec_core, the operand decoder cpu_core_get_args and the thirty     *)
(* instruction handlers of the opcode table. One action is one turn of the *)
(* loop: fetch, operand gathering and the whole handler.                   *)
(*                                                                         *)
(* Operands are pointers in the code. A register operand points into the   *)
(* register file, an immediate operand points at its own byte in mem[], so *)
(* a handler that writes to an immediate rewrites the program.             *)
(***************************************************************************)
EXTENDS Memory

CONSTANTS
  Images,      \* what binload may leave: records [mem |-> ..., entry |-> ...]
  IoMaps,      \* what the device loader may leave in iomem
  UninitWords  \* values an uninitialised 16-bit variable may hold

ASSUME CpuAssumption ==
  /\ Images \subseteq [mem : [Cells -> Byte], entry : Word]
  /\ IoMaps \subseteq [Slots -> Devices \cup {Unmapped}]
  /\ \A io \in IoMaps : io[0] = Unmapped
  /\ UninitWords \subseteq Word

VARIABLES
  reg,    \* the bytes regtable[] points at, under their index
  pc, bp, \* program counter and base pointer; no operand reaches them
  status  \* run, halt (the loop returned), crash (killed), wild (undefined)

bus  == <<past, iomem, some_device_value, stdout>>
vars == <<mem, past, iomem, some_device_value, stdout, reg, pc, bp, status>>

-----------------------------------------------------------------------------
(* Registers. sp is a 16-bit field of which the operands 0x1B and 0x1C     *)
(* address the two bytes: &sp + 1, its high byte on a little-endian host,  *)
(* and &sp, its low byte.                                                  *)

Registers == 0 .. 28
A   == 0
RA  == 8
GA  == 16
ML  == 24
MH  == 25
CMP == 26
SP1 == 27
SP0 == 28

General == A .. A + 7
(* Faulty variant of Return: cpu_ret forgets to hand over a.               *)
ReturnButRa == RA + 1 .. RA + 7

Return  == RA .. RA + 7

sp == W16(reg[SP1], reg[SP0])
WithSp(r, v) == [r EXCEPT ![SP1] = Hi(v), ![SP0] = Lo(v)]

(* Every index without a register of its own is mapped to a.               *)
regtable(b) == IF b \in Registers THEN b ELSE A

-----------------------------------------------------------------------------
(* Opcodes *)

OP_HLT     == 0
OP_LOAD    == 1
OP_STORE   == 2
OP_MHML    == 3
OP_LOADLH  == 4
OP_STORELH == 5
OP_MOV     == 6
OP_ADD     == 7
OP_SUB     == 8
OP_MUL     == 9
OP_DIV     == 10
OP_INC     == 11
OP_DEC     == 12
OP_JMP     == 13
OP_CMP     == 14
OP_JE      == 15
OP_JNE     == 16
OP_JG      == 17
OP_JL      == 18
OP_PUSH    == 19
OP_POP     == 20
OP_CALL    == 21
OP_CALLE   == 22
OP_CALLNE  == 23
OP_CALLG   == 24
OP_CALLL   == 25
OP_RET     == 26
OP_AND     == 27
OP_OR      == 28
OP_XOR     == 29
OP_NOT     == 30

Jumps == {OP_JMP, OP_JE, OP_JNE, OP_JG, OP_JL}
Calls == {OP_CALL, OP_CALLE, OP_CALLNE, OP_CALLG, OP_CALLL}

(* Faulty variant of Handled: the table has a handler for halt.            *)
HandledFromZero == OP_HLT .. OP_NOT

(* opcode_table holds a handler for 1 .. 30 and NULL for 0 and 31.         *)
Handled == OP_LOAD .. OP_NOT

-----------------------------------------------------------------------------
(* Decoding *)

instruction   == mem[pc] % 32
operandsig(k) == (mem[pc] \div (16 * 2^k)) % 2

(* Faulty variant of Holds: "greater" taken for "different".               *)
HoldsUnlessEqual(i) == CASE i \in {OP_JE, OP_CALLE} -> reg[CMP] = 0
                         [] i \in {OP_JNE, OP_CALLNE, OP_JG, OP_CALLG} -> reg[CMP] # 0
                         [] i \in {OP_JL, OP_CALLL} -> reg[CMP] = 2
                         [] OTHER -> TRUE

(* Whether a conditional instruction acts on the flag the last CMP left.   *)
Holds(i) == CASE i \in {OP_JE, OP_CALLE}   -> reg[CMP] = 0
              [] i \in {OP_JNE, OP_CALLNE} -> reg[CMP] # 0
              [] i \in {OP_JG, OP_CALLG}   -> reg[CMP] = 1
              [] i \in {OP_JL, OP_CALLL}   -> reg[CMP] = 2
              [] OTHER                     -> TRUE

(* Operands gathered before the handler acts; a conditional instruction    *)
(* whose condition fails gathers none and skips two bytes.                 *)
args(i) == CASE i \in {OP_LOAD, OP_STORE} -> 3
             [] i \in {OP_LOADLH, OP_STORELH, OP_INC, OP_DEC, OP_PUSH, OP_POP, OP_NOT} -> 1
             [] i \in {OP_HLT, OP_RET, 31} \/ ~Holds(i) -> 0
             [] OTHER -> 2

At(k) == (pc + k) % AddressSpace

(* The pointer targ[k] after cpu_core_get_args.                            *)
targ(k) == IF operandsig(k) = 1 THEN [in |-> "reg", at |-> regtable(mem[At(k)])]
                                ELSE [in |-> "mem", at |-> At(k)]

Deref(t, r, m) == IF t.in = "reg" THEN r[t.at] ELSE m[t.at]
arg(k) == Deref(targ(k), reg, mem)

(* The n operands lie inside mem, and none uses the register index 0xFF,   *)
(* which is one behind the end of regtable[0xFF].                          *)
Gathers(n) == \A k \in 1 .. 3 :
                 k <= n => /\ At(k) \in Cells
                           /\ operandsig(k) = 1 => mem[At(k)] # 255

Decodes == pc \in Cells /\ Gathers(args(instruction))

-----------------------------------------------------------------------------
(* The stack grows downwards in the address space, modulo 2^16.            *)

Below(k) == (sp - k) % AddressSpace
Above(k) == (bp + k) % AddressSpace

FRAME == 14

(* Faulty variant of frame: the high byte of a word first.                 *)
frame_high_first(r) == <<Hi(bp), Lo(bp), Hi(r), Lo(r), reg[MH], reg[ML]>>
                         \o [k \in 1 .. 8 |-> reg[A + k - 1]]

(* What cpu_call pushes, in order, with r the return address.              *)
frame(r) == <<Lo(bp), Hi(bp), Lo(r), Hi(r), reg[MH], reg[ML],
              reg[A], reg[A + 1], reg[A + 2], reg[A + 3],
              reg[A + 4], reg[A + 5], reg[A + 6], reg[A + 7]>>

(* Faulty variant of Pushed: sp-- instead of --sp.                         *)
PushedAtSp(s) == [x \in {Below(k) : k \in 0 .. Len(s) - 1} |-> s[1 + ((sp - x) % AddressSpace)]]

(* memory_write's argument when the bytes s are pushed.                    *)
Pushed(s) == [x \in {Below(k) : k \in 1 .. Len(s)} |-> s[(sp - x) % AddressSpace]]

(* The addresses the current instruction takes through memory_read and     *)
(* memory_write.                                                           *)
BusAddresses ==
  CASE instruction \in {OP_LOAD, OP_STORE}     -> {W16(arg(3), arg(2))}
    [] instruction \in {OP_LOADLH, OP_STORELH} -> {W16(reg[MH], reg[ML])}
    [] instruction = OP_PUSH                   -> {Below(1)}
    [] instruction = OP_POP                    -> {sp}
    [] instruction \in Calls /\ Holds(instruction) -> {Below(k) : k \in 1 .. FRAME}
    [] instruction = OP_RET                    -> {Above(k) : k \in 0 .. FRAME - 1}
    [] OTHER                                   -> {}

CallsNull == \E a \in BusAddresses : NullSlot(a)

-----------------------------------------------------------------------------
(* cpu_exec_core reaches the handler of i and the handler runs to its end. *)
Exec(i) == /\ status = "run"
           /\ Decodes
           /\ instruction = i
           /\ ~CallsNull
           /\ UNCHANGED status

After(n) == (pc + 1 + n) % AddressSpace

(* *t = v, with r the register file at that moment.                        *)
Assign(t, v, r) ==
  /\ reg' = IF t.in = "reg" THEN [r EXCEPT ![t.at] = v] ELSE r
  /\ mem' = IF t.in = "mem" THEN [mem EXCEPT ![t.at] = v] ELSE mem

(* The shape shared by the handlers that only compute *targ[0].            *)
Compute(i, v) == /\ Exec(i)
                 /\ Assign(targ(1), v, reg)
                 /\ pc' = After(args(i))
                 /\ UNCHANGED <<bus, bp>>

-----------------------------------------------------------------------------
(* CPU/data.c *)

cpu_load ==
  /\ Exec(OP_LOAD)
  /\ \E in \in Inputs :
        Assign(targ(1), memory_read(W16(arg(3), arg(2)), arg(1), in), reg)
  /\ pc' = After(3)
  /\ UNCHANGED <<bus, bp>>

cpu_store ==
  /\ Exec(OP_STORE)
  /\ memory_write([x \in {W16(arg(3), arg(2))} |-> arg(1)])
  /\ pc' = After(3)
  /\ UNCHANGED <<reg, bp>>

(* ml is assigned first: an mhml whose second operand is ml stores the new *)
(* ml in mh.                                                               *)
cpu_mhml ==
  /\ Exec(OP_MHML)
  /\ LET r == [reg EXCEPT ![ML] = arg(1)]
     IN  reg' = [r EXCEPT ![MH] = Deref(targ(2), r, mem)]
  /\ pc' = After(2)
  /\ UNCHANGED <<mem, bus, bp>>

cpu_loadlh ==
  /\ Exec(OP_LOADLH)
  /\ \E in \in Inputs :
        Assign(targ(1), memory_read(W16(reg[MH], reg[ML]), arg(1), in), reg)
  /\ pc' = After(1)
  /\ UNCHANGED <<bus, bp>>

cpu_storelh ==
  /\ Exec(OP_STORELH)
  /\ memory_write([x \in {W16(reg[MH], reg[ML])} |-> arg(1)])
  /\ pc' = After(1)
  /\ UNCHANGED <<reg, bp>>

cpu_mov == Compute(OP_MOV, arg(2))

-----------------------------------------------------------------------------
(* CPU/arithmetic.c and CPU/manipulation.c, on bytes *)

(* Faulty variants: sub leaves its first operand alone, sub takes the      *)
(* operands the wrong way round, inc leaves the range of a byte.           *)
cpu_sub_discarding == Compute(OP_SUB, arg(1))
cpu_sub_reversed   == Compute(OP_SUB, (arg(2) - arg(1)) % 256)
cpu_inc_wide       == Compute(OP_INC, arg(1) + 1)

cpu_add == Compute(OP_ADD, (arg(1) + arg(2)) % 256)
cpu_sub == Compute(OP_SUB, (arg(1) - arg(2)) % 256)
cpu_mul == Compute(OP_MUL, (arg(1) * arg(2)) % 256)
cpu_inc == Compute(OP_INC, (arg(1) + 1) % 256)
cpu_dec == Compute(OP_DEC, (arg(1) - 1) % 256)

Killed == status' = "crash" /\ UNCHANGED <<mem, bus, reg, pc, bp>>

(* Division by zero is undefined in C: x86-64 raises SIGFPE, AArch64       *)
(* yields 0.                                                               *)
cpu_div ==
  \/ Compute(OP_DIV, IF arg(2) = 0 THEN 0 ELSE arg(1) \div arg(2))
  \/ /\ status = "run" /\ Decodes /\ instruction = OP_DIV
     /\ arg(2) = 0
     /\ Killed

Bit(x, k) == (x \div 2^k) % 2
Bits(b) == b[0] + 2*b[1] + 4*b[2] + 8*b[3] + 16*b[4] + 32*b[5] + 64*b[6] + 128*b[7]

And(x, y) == Bits([k \in 0 .. 7 |-> IF Bit(x, k) = 1 /\ Bit(y, k) = 1 THEN 1 ELSE 0])
Or(x, y)  == Bits([k \in 0 .. 7 |-> IF Bit(x, k) = 1 \/ Bit(y, k) = 1 THEN 1 ELSE 0])
Xor(x, y) == Bits([k \in 0 .. 7 |-> IF Bit(x, k) = Bit(y, k) THEN 0 ELSE 1])

cpu_and == Compute(OP_AND, And(arg(1), arg(2)))
cpu_or  == Compute(OP_OR, Or(arg(1), arg(2)))
cpu_xor == Compute(OP_XOR, Xor(arg(1), arg(2)))
cpu_not == Compute(OP_NOT, 255 - arg(1))

-----------------------------------------------------------------------------
(* CPU/flow.c *)

(* Faulty variant of Compared: greater and smaller exchanged.              *)
ComparedBackwards(x, y) == IF x = y THEN 0 ELSE IF x > y THEN 2 ELSE 1

Compared(x, y) == IF x = y THEN 0 ELSE IF x > y THEN 1 ELSE 2

cpu_cmp ==
  /\ Exec(OP_CMP)
  /\ reg' = [reg EXCEPT ![CMP] = Compared(arg(1), arg(2))]
  /\ pc' = After(2)
  /\ UNCHANGED <<mem, bus, bp>>

(* A jump whose condition fails steps over two bytes without looking at    *)
(* them.                                                                   *)
Jump(i) ==
  /\ Exec(i)
  /\ pc' = IF Holds(i) THEN W16(arg(2), arg(1)) ELSE After(2)
  /\ UNCHANGED <<mem, bus, reg, bp>>

cpu_jmp == Jump(OP_JMP)
cpu_je  == Jump(OP_JE)
cpu_jne == Jump(OP_JNE)
cpu_jg  == Jump(OP_JG)
cpu_jl  == Jump(OP_JL)

-----------------------------------------------------------------------------
(* CPU/stack.c *)

cpu_push ==
  /\ Exec(OP_PUSH)
  /\ memory_write(Pushed(<<arg(1)>>))
  /\ reg' = WithSp(reg, Below(1))
  /\ pc' = After(1)
  /\ UNCHANGED bp

(* sp moves before the byte is stored: pop into a half of sp keeps it.     *)
cpu_pop ==
  /\ Exec(OP_POP)
  /\ \E in \in Inputs :
        LET r == WithSp(reg, (sp + 1) % AddressSpace)
        IN  Assign(targ(1), memory_read(sp, Deref(targ(1), r, mem), in), r)
  /\ pc' = After(1)
  /\ UNCHANGED <<bus, bp>>

(* Faulty variant of Calling: the new frame does not become the base.      *)
CallingWithoutBase ==
  /\ memory_write(Pushed(frame(After(2))))
  /\ reg' = WithSp(reg, Below(FRAME))
  /\ pc'  = W16(Deref(targ(2), reg', mem'), Deref(targ(1), reg', mem'))
  /\ UNCHANGED bp

(* The target is read through the operand pointers after the pushes, so a  *)
(* frame that lands on the operand bytes changes where the call goes.      *)
Calling ==
  /\ memory_write(Pushed(frame(After(2))))
  /\ reg' = WithSp(reg, Below(FRAME))
  /\ bp'  = Below(FRAME)
  /\ pc'  = W16(Deref(targ(2), reg', mem'), Deref(targ(1), reg', mem'))

(* Faulty variant of Skipping: one operand byte short.                     *)
SkippingOneByte == pc' = After(1) /\ UNCHANGED <<mem, bus, reg, bp>>

Skipping == pc' = After(2) /\ UNCHANGED <<mem, bus, reg, bp>>

Call(i) == Exec(i) /\ IF Holds(i) THEN Calling ELSE Skipping

cpu_call   == Call(OP_CALL)
cpu_calle  == Call(OP_CALLE)
cpu_callne == Call(OP_CALLNE)
cpu_callg  == Call(OP_CALLG)
cpu_calll  == Call(OP_CALLL)

(* Faulty variant of Released: the frame stays on the stack.               *)
ReleasedNever(r) == r

(* The stack pointer ends up above the frame.                              *)
Released(r) == WithSp(r, Above(FRAME))

(* g is what the uninitialised locals lo and hi of cpu_prvt_pop16 hold     *)
(* should a serial slot at end of file leave them untouched.               *)
cpu_ret ==
  /\ Exec(OP_RET)
  /\ \E in \in Inputs, g \in UninitWords :
        LET popped(k, old) == memory_read(Above(k), old, in)
            r == [i \in Registers |->
                    IF i \in Return THEN reg[A + (i - RA)]
                    ELSE IF i \in General THEN popped(A + 7 - i, reg[i])
                    ELSE IF i = ML THEN popped(8, reg[ML])
                    ELSE IF i = MH THEN popped(9, reg[MH])
                    ELSE reg[i]]
        IN  /\ reg' = Released(r)
            /\ pc'  = W16(popped(10, Lo(g)), popped(11, Lo(g)))
            /\ bp'  = W16(popped(12, Lo(g)), popped(13, Lo(g)))
  /\ UNCHANGED <<mem, bus>>

-----------------------------------------------------------------------------
(* The ends of the loop *)

(* opcode_table has no handler: cpu_exec_core returns.                     *)
Halt == /\ status = "run"
        /\ Decodes
        /\ instruction \notin Handled
        /\ status' = "halt"
        /\ pc' = After(0)
        /\ UNCHANGED <<mem, bus, reg, bp>>

(* The NULL function pointer of a slot that only looks mapped is called.   *)
Trap == /\ status = "run"
        /\ Decodes
        /\ CallsNull
        /\ Killed

(* The fetch or an operand leaves mem[] or regtable[]: what happens from   *)
(* here on is not defined by the program and is not modelled.              *)
Wild == /\ status = "run"
        /\ ~Decodes
        /\ status' = "wild"
        /\ UNCHANGED <<mem, bus, reg, pc, bp>>

-----------------------------------------------------------------------------
(* cpu_create_core leaves bp uninitialised; binload sets pc to the entry.  *)
Init ==
  /\ \E image \in Images : mem = image.mem /\ pc = image.entry
  /\ past \in IF IoBehindMem THEN {0} ELSE {Lo(w) : w \in UninitWords}
  /\ iomem \in IoMaps
  /\ some_device_value = 27
  /\ stdout = <<>>
  /\ reg = WithSp([i \in Registers |-> 0], MEMORY_SIZE)
  /\ bp \in UninitWords
  /\ status = "run"

Next ==
  \/ cpu_load \/ cpu_store \/ cpu_mhml \/ cpu_loadlh \/ cpu_storelh \/ cpu_mov
  \/ cpu_add \/ cpu_sub \/ cpu_mul \/ cpu_div \/ cpu_inc \/ cpu_dec
  \/ cpu_jmp \/ cpu_cmp \/ cpu_je \/ cpu_jne \/ cpu_jg \/ cpu_jl
  \/ cpu_push \/ cpu_pop \/ cpu_ret
  \/ cpu_call \/ cpu_calle \/ cpu_callne \/ cpu_callg \/ cpu_calll
  \/ cpu_and \/ cpu_or \/ cpu_xor \/ cpu_not
  \/ Halt \/ Trap \/ Wild

Spec == Init /\ [][Next]_vars

-----------------------------------------------------------------------------
(* Every variable keeps the width its C type gives it: registers and       *)
(* memory cells are bytes, pc and bp 16-bit words, whatever program runs.  *)
(* Slot 0 never has a device: a zero ends a device's list of offsets.      *)
TypeOK ==
  /\ mem \in [Cells -> Byte]
  /\ past \in Byte
  /\ iomem \in [Slots -> Devices \cup {Unmapped}] /\ iomem[0] = Unmapped
  /\ some_device_value \in Byte
  /\ reg \in [Registers -> Byte]
  /\ pc \in Word
  /\ bp \in Word
  /\ status \in {"run", "halt", "crash", "wild"}

(* A mapped slot hides the memory behind it from every instruction that    *)
(* uses the bus, the stack ones included: its byte in mem only changes     *)
(* when the program runs inside the I/O window and rewrites itself.        *)
MappedSlotsShadow ==
  [][pc \notin Slots => \A a \in Slots : iomem[a] # Unmapped => mem'[a] = mem[a]]_vars
=============================================================================
