------------------------------- MODULE System -------------------------------
(***************************************************************************)
(* The emulator from the command line to the end of the program: main      *)
(* loads the devices (Devices), binload the binary (Loader), and the core  *)
(* runs it (Cpu). The three run one after the other on the same memory and *)
(* the same I/O window. A library is named after the device it implements. *)
(***************************************************************************)
EXTENDS Cpu

CONSTANTS Library, Argvs, Content, Missing

VARIABLES initialised, argv, i, main, file, offset, rloc, load

Main == INSTANCE Devices WITH Libraries <- Devices
Load == INSTANCE Loader WITH Files <- {Content[p] : p \in DOMAIN Content}, ShortReads <- FALSE

(* What the two are given; the binaries and the libraries are any.         *)
ASSUME SystemAssumption ==
  /\ MEMORY_MAPPED_IO_REGION_SIZE + 8 <= MEMORY_SIZE
  /\ Argvs \subseteq Seq(STRING)
  /\ Library \in [Devices -> [access : BOOLEAN, opens : BOOLEAN,
                              exports : SUBSET Main!Symbols, offsets : Seq(Main!Offsets)]]
  /\ \A p \in DOMAIN Content : Content[p] \in Seq(Byte)

loading == <<initialised, argv, i, main, file, offset, rloc, load>>
core    == <<reg, bp, status>>
varsS   == <<vars, loading>>

-----------------------------------------------------------------------------
Binary == IF argv # <<>> /\ Last(argv) \in DOMAIN Content THEN Content[Last(argv)] ELSE Missing

(* The arguments. Template's device_init sets its value to 27.             *)
Arguments ==
  /\ Main!Next
  /\ some_device_value' = IF initialised' # initialised /\ Last(initialised') = Template
                          THEN 27 ELSE some_device_value
  /\ UNCHANGED <<mem, past, stdout, pc, core, file, offset, rloc, load>>

(* Faulty variant of binload: the binary first, the arguments after it.    *)
binloadFirst ==
  /\ load # "exec"
  /\ Load!Next
  /\ UNCHANGED <<past, iomem, some_device_value, stdout, core, initialised, argv, i, main>>

binload ==
  /\ main = "binload" /\ load # "exec"
  /\ Load!Next
  /\ UNCHANGED <<past, iomem, some_device_value, stdout, core, initialised, argv, i, main>>

cpu_exec_core ==
  /\ load = "exec"
  /\ Next
  /\ UNCHANGED loading

(* The core's registers have their first values from the start; nothing    *)
(* looks at them before binload has created the core.                      *)
InitS ==
  /\ Main!Init /\ Load!Init
  /\ file = Binary
  /\ past \in IF IoBehindMem THEN {0} ELSE {Lo(w) : w \in UninitWords}
  /\ some_device_value = 0
  /\ stdout = <<>>
  /\ reg = WithSp([k \in Registers |-> 0], MEMORY_SIZE)
  /\ bp \in UninitWords
  /\ status = "run"

NextS == Arguments \/ binload \/ cpu_exec_core

(* main, binload and cpu_exec_core are one thread that nothing blocks but  *)
(* the read of a device, for which Inputs always has an answer.            *)
SpecS == InitS /\ [][NextS]_varsS /\ WF_varsS(NextS)

-----------------------------------------------------------------------------
(* The byte binload has put at address a of the image.                     *)
Loaded(a) ==
  LET k == a - MEMORY_MAPPED_IO_REGION_SIZE
      r == k - Load!CodeOffset
  IN  IF r \in Load!Relocs THEN Load!Moved(k) % 256
      ELSE IF r - 1 \in Load!Relocs THEN Load!Moved(k - 1) \div 256
      ELSE file[k + 1]

CodeAddresses == Load!Address(Load!CodeOffset) .. Load!Address(Len(file) - 1)

(* What the core is about to execute is what binload has loaded, opcode    *)
(* and operands: neither the stack nor a store of the program nor an       *)
(* immediate operand has changed it, and the core has not left the image.  *)
ExecutesLoadedCode ==
  load = "exec" /\ status = "run" =>
    \A k \in 0 .. args(instruction) : At(k) \in CodeAddresses /\ mem[At(k)] = Loaded(At(k))

(* The core starts once the whole command line has been dealt with, on an  *)
(* I/O window in which every slot has the last device that claims it, and  *)
(* at the entry of a well-formed binary with its code in place, relocated. *)
Prepared ==
  /\ main = "binload" /\ Main!WellFormed
  /\ Main!LastClaimWins /\ Main!InitialisedInOrder
  /\ Load!WellFormed => /\ pc = Load!Address(Load!EntryOffset)
                        /\ \A a \in CodeAddresses : mem[a] = Loaded(a)

PreparedStart == [][load # "exec" /\ load' = "exec" => Prepared']_varsS
=============================================================================
