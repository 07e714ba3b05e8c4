--------------------------- MODULE ToolchainProofs ---------------------------
(***************************************************************************)
(* The emulator as a whole, and make run. What is proved of the device     *)
(* loader, of binload and of the core holds when one of them runs after    *)
(* the other on the same memory, whatever the libraries, the binary and    *)
(* the program do; what is proved of the tokenizer and of the assembler    *)
(* holds when one is run on what the other has read, and the emulator is   *)
(* started on nothing else.                                                *)
(*                                                                         *)
(* The core's proof of TypeOK starts from an image and a device map that   *)
(* fit; here both are what the command line and binload make of them. Each *)
(* part keeps its own invariant, and the invariant of binload's memory     *)
(* holds until the core starts to write there.                             *)
(***************************************************************************)
EXTENDS Toolchain, CpuProofs

Dev == INSTANCE DevicesProofs WITH Libraries <- Devices
Bin == INSTANCE LoaderProofs WITH Files <- Seq(Byte), ShortReads <- FALSE

LEMMA DevAssumption == Dev!DevicesAssumption
<1>1. Main!Symbols = Dev!Symbols /\ Main!Offsets = Dev!Offsets
  BY DEF Main!Symbols, Dev!Symbols, Main!Offsets, Dev!Offsets
<1>2. Dev!Unmapped \notin Devices /\ Dev!Option \notin Devices
  BY DEF Dev!Unmapped, Dev!Option, Devices, Serial, Template
<1> QED
  BY <1>1, <1>2, MemoryAssumption, SystemAssumption DEF SystemAssumption, Dev!DevicesAssumption

(* binload is proved for every binary: make gives it one that is not among *)
(* those the command line may name.                                        *)
LEMMA BinAssumption == Bin!LoaderAssumption
<1>1. Seq(Byte) \subseteq Seq(Bin!Byte)
  BY DEF Bin!Byte, Byte
<1> QED
  BY <1>1, MemoryAssumption, SystemAssumption, AddressSpaceValue
     DEF SystemAssumption, Bin!LoaderAssumption

-----------------------------------------------------------------------------
(* A part as the system uses it and as its proofs name it                  *)

LEMMA DevInit == Main!Init <=> Dev!Init
BY DEF Main!Init, Dev!Init, Main!Slots, Dev!Slots, Main!Unmapped, Dev!Unmapped

LEMMA DevNext == Main!Next <=> Dev!Next
BY DEF Main!Next, Dev!Next, Main!Usage, Dev!Usage, Main!OtherArgument, Dev!OtherArgument,
       Main!MissingPath, Dev!MissingPath, Main!Device, Dev!Device, Main!Execute, Dev!Execute,
       Main!IsOption, Dev!IsOption, Main!Option, Dev!Option,
       Main!device_load_device, Dev!device_load_device, Main!exports, Dev!exports,
       Main!Complete, Dev!Complete, Main!Map, Dev!Map, Main!Fits, Dev!Fits,
       Main!Outside, Dev!Outside, Main!Mapped, Dev!Mapped, Main!Slots, Dev!Slots

LEMMA DevProperties ==
  /\ Dev!Verdict => Main!Verdict
  /\ Dev!LastClaimWins => Main!LastClaimWins
  /\ Dev!InitialisedInOrder => Main!InitialisedInOrder
<1>1. /\ Main!Options = Dev!Options /\ Main!Loaded = Dev!Loaded /\ Main!Slots = Dev!Slots
      /\ \A q : Main!Given(q) = Dev!Given(q)
      /\ Main!Unmapped = Dev!Unmapped
  BY DEF Main!Options, Dev!Options, Main!Option, Dev!Option, Main!Loaded, Dev!Loaded,
         Main!Slots, Dev!Slots, Main!Given, Dev!Given, Main!Unmapped, Dev!Unmapped
<1>2. \A a : Main!Mapping(a) = Dev!Mapping(a)
  BY <1>1 DEF Main!Mapping, Dev!Mapping, Main!Claims, Dev!Claims
<1>3. Main!Due = Dev!Due
  BY <1>1 DEF Main!Due, Dev!Due, Main!InWindow, Dev!InWindow
<1>4. Main!WellFormed <=> Dev!WellFormed
  BY <1>1 DEF Main!WellFormed, Dev!WellFormed, Main!Usable, Dev!Usable
<1>5. Dev!Verdict => Main!Verdict
  BY <1>4 DEF Main!Verdict, Dev!Verdict
<1>6. Dev!LastClaimWins => Main!LastClaimWins
  BY <1>1, <1>2 DEF Main!LastClaimWins, Dev!LastClaimWins
<1>7. Dev!InitialisedInOrder => Main!InitialisedInOrder
  BY <1>1, <1>3 DEF Main!InitialisedInOrder, Dev!InitialisedInOrder, Main!InOrder, Dev!InOrder
<1> QED
  BY <1>5, <1>6, <1>7

LEMMA BinInit == Load!Init => Bin!Init
<1>1. {Content[q] : q \in DOMAIN Content} \subseteq Seq(Byte)
  BY SystemAssumption DEF SystemAssumption
<1> QED
  BY <1>1 DEF Load!Init, Bin!Init

LEMMA BinNext == Load!Next <=> Bin!Next
BY DEF Load!Next, Bin!Next, Load!Open, Bin!Open, Load!Read, Bin!Read, Load!Relocate, Bin!Relocate,
       Load!Stray, Bin!Stray, Load!Start, Bin!Start, Load!TooLarge, Bin!TooLarge,
       Load!Delivered, Bin!Delivered, Load!Stored, Bin!Stored, Load!MAGIC, Bin!MAGIC,
       Load!header, Bin!header, Load!word, Bin!word, Load!code_offset, Bin!code_offset,
       Load!entry_offset, Bin!entry_offset, Load!reloc_count, Bin!reloc_count,
       Load!entry_address, Bin!entry_address, Load!patch_address, Bin!patch_address,
       Load!HeaderSize, Bin!HeaderSize, Load!Inside, Bin!Inside

-----------------------------------------------------------------------------
(* Each part keeps its invariant, and the core its types.                  *)
SystemInv == /\ TypeOK
             /\ Dev!DevicesInv
             /\ load # "exec" => Bin!LoaderInv

LEMMA LoadedBytes ==
  ASSUME Bin!LoaderInv
  PROVE  mem \in [Cells -> Byte] /\ pc \in Word
<1>1. Bin!Cells = Cells /\ Bin!Byte = Byte
  BY DEF Bin!Cells, Bin!Byte, Cells, Byte
<1>2. mem \in [Cells -> Byte] /\ pc \in Nat /\ pc < 65536
  BY <1>1 DEF Bin!LoaderInv, Bin!LoaderType
<1> QED
  BY <1>2, WordDef

LEMMA MappedSlots ==
  ASSUME Dev!DevicesInv
  PROVE  iomem \in [Slots -> Devices \cup {Unmapped}] /\ iomem[0] = Unmapped
<1>1. Dev!Slots = Slots /\ Dev!Unmapped = Unmapped
  BY DEF Dev!Slots, Slots, Dev!Unmapped, Unmapped
<1> QED
  BY <1>1 DEF Dev!DevicesInv, Dev!DevicesType

LEMMA InitSystem == InitS => SystemInv
<1> SUFFICES ASSUME InitS PROVE SystemInv
  OBVIOUS
<1>1. Dev!DevicesInv
  BY DevInit, DevAssumption, Dev!InitDevices DEF InitS
<1>2. Bin!LoaderInv
  BY BinInit, BinAssumption, Bin!InitLoader DEF InitS
<1>3. MEMORY_SIZE \in Word /\ 0 \in Byte
  BY MemoryAssumption, AddressSpaceValue, WordDef, ByteDef
<1>4. reg \in Bytes
  BY <1>3, WithSpType DEF InitS, Bytes
<1>5. past \in Byte
  BY <1>3, CpuAssumption, WordSplit DEF InitS
<1>6. some_device_value \in Byte /\ bp \in Word /\ status = "run"
  BY <1>3, CpuAssumption DEF InitS
<1>7. TypeOK
  BY <1>1, <1>2, <1>4, <1>5, <1>6, LoadedBytes, MappedSlots DEF TypeOK, Bytes
<1> QED
  BY <1>1, <1>2, <1>7 DEF SystemInv

(* What the steps of one part leave alone.                                 *)
LEMMA DevStays ==
  ASSUME Dev!DevicesInv, UNCHANGED <<iomem, initialised, argv, i, main>>
  PROVE  Dev!DevicesInv'
BY DevAssumption, Dev!NextDevices DEF Dev!varsD

LEMMA BinStays ==
  ASSUME Bin!LoaderInv, UNCHANGED <<mem, file, offset, rloc, pc, load>>
  PROVE  Bin!LoaderInv'
BY BinAssumption, Bin!NextLoader DEF Bin!varsL

LEMMA ArgumentsInv == ASSUME SystemInv, Arguments PROVE SystemInv'
<1>1. Dev!DevicesInv'
  BY DevNext, DevAssumption, Dev!NextDevices DEF SystemInv, Arguments
<1>2. UNCHANGED <<mem, past, stdout, pc, reg, bp, status, file, offset, rloc, load>>
  BY DEF Arguments, core
<1>3. load' # "exec" => Bin!LoaderInv'
  BY <1>2, BinStays DEF SystemInv
<1>4. some_device_value' \in Byte
  <2>1. 27 \in Byte
    BY ByteDef
  <2> QED
    BY <2>1 DEF Arguments, SystemInv, TypeOK
<1>5. iomem' \in [Slots -> Devices \cup {Unmapped}] /\ iomem'[0] = Unmapped
  <2>1. Dev!Slots = Slots /\ Dev!Unmapped = Unmapped
    BY DEF Dev!Slots, Slots, Dev!Unmapped, Unmapped
  <2> QED
    BY <1>1, <2>1 DEF Dev!DevicesInv, Dev!DevicesType, Dev!Slots, Dev!Unmapped, Slots, Unmapped
<1>6. TypeOK'
  BY <1>2, <1>4, <1>5 DEF SystemInv, TypeOK
<1> QED
  BY <1>1, <1>3, <1>6 DEF SystemInv

LEMMA binloadInv == ASSUME SystemInv, binload PROVE SystemInv' /\ Bin!LoaderInv'
<1>1. Bin!LoaderInv'
  BY BinNext, BinAssumption, Bin!NextLoader DEF SystemInv, binload
<1>2. UNCHANGED <<past, iomem, some_device_value, stdout, reg, bp, status, initialised, argv, i, main>>
  BY DEF binload, core
<1>3. Dev!DevicesInv'
  BY <1>2, DevStays DEF SystemInv
<1>4. mem' \in [Cells -> Byte] /\ pc' \in Word
  <2>1. Bin!Cells = Cells /\ Bin!Byte = Byte
    BY DEF Bin!Cells, Bin!Byte, Cells, Byte
  <2>2. mem' \in [Cells -> Byte] /\ pc' \in Nat /\ pc' < 65536
    BY <1>1, <2>1 DEF Bin!LoaderInv, Bin!LoaderType, Bin!Cells, Bin!Byte, Cells, Byte
  <2> QED
    BY <2>2, WordDef
<1>5. TypeOK'
  BY <1>2, <1>4 DEF SystemInv, TypeOK
<1> QED
  BY <1>1, <1>3, <1>5 DEF SystemInv

LEMMA coreInv == ASSUME SystemInv, cpu_exec_core PROVE SystemInv'
<1>1. TypeOK'
  BY NextType DEF SystemInv, cpu_exec_core
<1>2. UNCHANGED <<iomem, initialised, argv, i, main>> /\ load' = "exec"
  BY NextKeepsSlots DEF cpu_exec_core, loading
<1>3. Dev!DevicesInv'
  BY <1>2, DevStays DEF SystemInv
<1> QED
  BY <1>1, <1>2, <1>3 DEF SystemInv

LEMMA NextSystem == SystemInv /\ [NextS]_varsS => SystemInv'
<1> SUFFICES ASSUME SystemInv, [NextS]_varsS PROVE SystemInv'
  OBVIOUS
<1>1. CASE UNCHANGED varsS
  <2>1. /\ UNCHANGED vars /\ UNCHANGED <<initialised, argv, i, main, file, offset, rloc, load>>
    BY <1>1 DEF varsS, loading
  <2>2. TypeOK'
    BY <2>1 DEF SystemInv, TypeOK, vars
  <2>3. Dev!DevicesInv' /\ (load' # "exec" => Bin!LoaderInv')
    BY <2>1, DevStays, BinStays DEF SystemInv, vars
  <2> QED
    BY <2>2, <2>3 DEF SystemInv
<1> QED
  BY <1>1, ArgumentsInv, binloadInv, coreInv DEF NextS

LEMMA AlwaysSystem == SpecS => []SystemInv
BY InitSystem, NextSystem, PTL DEF SpecS

-----------------------------------------------------------------------------
(* What the core finds when it starts                                      *)

LEMMA BinWellFormed ==
  /\ Load!WellFormed <=> Bin!WellFormed
  /\ Load!CodeOffset = Bin!CodeOffset /\ Load!EntryOffset = Bin!EntryOffset
  /\ Load!Relocs = Bin!Relocs
  /\ \A k : Load!Address(k) = Bin!Address(k) /\ Load!Moved(k) = Bin!Moved(k)
<1>1. /\ \A k : Load!field(k) = Bin!field(k) /\ Load!Address(k) = Bin!Address(k)
      /\ Load!HeaderSize = Bin!HeaderSize /\ Load!MAGIC = Bin!MAGIC
  BY DEF Load!field, Bin!field, Load!Address, Bin!Address, Load!HeaderSize, Bin!HeaderSize,
         Load!MAGIC, Bin!MAGIC
<1>2. /\ Load!CodeOffset = Bin!CodeOffset /\ Load!EntryOffset = Bin!EntryOffset
      /\ Load!RelocCount = Bin!RelocCount /\ \A k : Load!Rloc(k) = Bin!Rloc(k)
  BY <1>1 DEF Load!CodeOffset, Bin!CodeOffset, Load!EntryOffset, Bin!EntryOffset,
              Load!RelocCount, Bin!RelocCount, Load!Rloc, Bin!Rloc
<1>3. Load!Relocs = Bin!Relocs /\ Load!CodeSize = Bin!CodeSize
  BY <1>2 DEF Load!Relocs, Bin!Relocs, Load!CodeSize, Bin!CodeSize
<1>4. \A k : Load!Moved(k) = Bin!Moved(k)
  BY <1>1, <1>2 DEF Load!Moved, Bin!Moved
<1>5. Load!WellFormed <=> Bin!WellFormed
  BY <1>1, <1>2, <1>3 DEF Load!WellFormed, Bin!WellFormed
<1> QED
  BY <1>1, <1>2, <1>3, <1>4, <1>5

LEMMA CodeInPlace ==
  ASSUME Bin!LoaderInv, load = "exec", Load!WellFormed
  PROVE  /\ pc = Load!Address(Load!EntryOffset)
         /\ \A a \in CodeAddresses : mem[a] = Loaded(a)
<1>1. Bin!WellFormed /\ Bin!LoaderType /\ Bin!Image
  BY BinWellFormed DEF Bin!LoaderInv
<1>2. offset = Bin!Address(Len(file))
  BY <1>1 DEF Bin!Image
<1>3. Bin!LoadsImage
  BY BinAssumption, Bin!ImageOfLoop
<1>4. /\ pc = Bin!Address(Bin!EntryOffset)
      /\ \A k \in Bin!CodeOffset .. Len(file) - 1 :
           mem[Bin!Address(k)] = IF k - Bin!CodeOffset \in Bin!Relocs THEN Bin!Moved(k) % 256
                                 ELSE IF k - Bin!CodeOffset - 1 \in Bin!Relocs THEN Bin!Moved(k - 1) \div 256
                                 ELSE file[k + 1]
  BY <1>1, <1>2, <1>3 DEF Bin!LoadsImage
<1>5. Bin!CodeOffset \in Nat /\ Len(file) \in Nat /\ MEMORY_MAPPED_IO_REGION_SIZE \in Nat
  BY <1>1, BinAssumption, Bin!WellFormedFacts DEF Bin!LoaderAssumption
<1>6. ASSUME NEW a \in CodeAddresses
      PROVE  mem[a] = Loaded(a)
  <2> DEFINE k == a - MEMORY_MAPPED_IO_REGION_SIZE
  <2>1. k \in Bin!CodeOffset .. Len(file) - 1 /\ a = Bin!Address(k)
    BY <1>5, BinWellFormed DEF CodeAddresses, Bin!Address
  <2>2. mem[a] = IF k - Bin!CodeOffset \in Bin!Relocs THEN Bin!Moved(k) % 256
                 ELSE IF k - Bin!CodeOffset - 1 \in Bin!Relocs THEN Bin!Moved(k - 1) \div 256
                 ELSE file[k + 1]
    BY <1>4, <2>1
  <2> QED
    BY <2>2, BinWellFormed DEF Loaded
<1> QED
  BY <1>4, <1>6, BinWellFormed

Started == Bin!LoaderInv /\ Dev!DevicesInv /\ load = "exec" /\ main = "binload"

LEMMA PreparedByParts == Started => Prepared
<1> SUFFICES ASSUME Bin!LoaderInv, Dev!DevicesInv, load = "exec", main = "binload" PROVE Prepared
  BY DEF Started
<1>1. Dev!Verdict /\ Dev!LastClaimWins /\ Dev!InitialisedInOrder
  BY DevAssumption, Dev!VerdictOfWalk, Dev!SlotsOfWalk, Dev!InitialisersOfWalk
<1>2. Main!WellFormed
  BY <1>1, DevProperties DEF Main!Verdict
<1> QED
  BY <1>1, <1>2, DevProperties, CodeInPlace DEF Prepared

-----------------------------------------------------------------------------
(* Registers stay bytes, the memory stays bytes, and slot 0 never has a    *)
(* device, whatever the command line maps, binload loads and the binary    *)
(* does.                                                                   *)
THEOREM MachineTyped == SpecS => []TypeOK
<1>1. SystemInv => TypeOK
  BY DEF SystemInv
<1> QED
  BY <1>1, AlwaysSystem, PTL

(* The command line is dealt with in the whole emulator as it is on its    *)
(* own: neither binload nor the program touches what main has set up.      *)
THEOREM ArgumentsRefined == SpecS => Main!Spec
<1>1. InitS => Main!Init
  BY DEF InitS
<1>2. [NextS]_varsS => [Main!Next]_(Main!varsD)
  <2> SUFFICES ASSUME [NextS]_varsS PROVE Main!Next \/ UNCHANGED Main!varsD
    OBVIOUS
  <2>1. CASE Arguments
    BY <2>1 DEF Arguments
  <2>2. CASE binload
    BY <2>2 DEF binload, Main!varsD
  <2>3. CASE cpu_exec_core
    BY <2>3, NextKeepsSlots DEF cpu_exec_core, loading, Main!varsD
  <2>4. CASE UNCHANGED varsS
    BY <2>4 DEF varsS, vars, loading, Main!varsD
  <2> QED
    BY <2>1, <2>2, <2>3, <2>4 DEF NextS
<1> QED
  BY <1>1, <1>2, PTL DEF SpecS, Main!Spec

(* No well-formed binary makes binload leave the memory, and the program   *)
(* that then runs does not change that.                                    *)
THEOREM BinloadStaysInside == SpecS => []Load!NeverStrays
<1>1. SystemInv => Load!NeverStrays
  BY BinWellFormed DEF SystemInv, Bin!LoaderInv, Load!NeverStrays
<1> QED
  BY <1>1, AlwaysSystem, PTL

(* The core starts on what the command line asks for and what the binary   *)
(* says: main, binload and the core run on the same memory in that order.  *)
THEOREM CoreStartsPrepared == SpecS => PreparedStart
<1>1. SystemInv /\ [NextS]_varsS => [load # "exec" /\ load' = "exec" => Started']_varsS
  <2> SUFFICES ASSUME SystemInv, NextS, load # "exec", load' = "exec" PROVE Started'
    OBVIOUS
  <2>1. binload
    BY DEF NextS, Arguments, cpu_exec_core
  <2>2. SystemInv' /\ Bin!LoaderInv'
    BY <2>1, binloadInv
  <2> QED
    BY <2>1, <2>2 DEF SystemInv, binload, Started
<1> QED
  BY <1>1, PreparedByParts, AlwaysSystem, PTL DEF SpecS, PreparedStart

-----------------------------------------------------------------------------
(* make run: the tokenizer and the assembler as make uses them and as      *)
(* their proofs name them.                                                 *)
AsmP  == INSTANCE AssemblerProofs WITH Sources <- {<<>>}, i <- lineno, j <- wordno
ReadP == INSTANCE ReadFileProofs WITH Files <- Texts, file <- source

LEMMA AsmAssumption == AsmP!AssemblerAssumption
BY ToolchainAssumption, WordDef DEF ToolchainAssumption, AsmP!AssemblerAssumption

LEMMA ReadAssumption == ReadP!ReadFileAssumption
BY ToolchainAssumption DEF ToolchainAssumption, ReadP!ReadFileAssumption

LEMMA ReaderInit == Reader!Init <=> ReadP!Init
BY DEF Reader!Init, ReadP!Init

LEMMA ReaderNext == Reader!Next <=> ReadP!Next
BY DEF Reader!Next, ReadP!Next, Reader!Fgets, ReadP!Fgets, Reader!EndOfFile, ReadP!EndOfFile,
       Reader!EndLine, ReadP!EndLine, Reader!SkipSpace, ReadP!SkipSpace, Reader!StartWord,
       ReadP!StartWord, Reader!Bare, ReadP!Bare, Reader!Quoted, ReadP!Quoted, Reader!Escaped,
       ReadP!Escaped, Reader!EndWord, ReadP!EndWord, Reader!text, ReadP!text, Reader!UpToNul,
       ReadP!UpToNul, Reader!Taken, ReadP!Taken, Reader!More, ReadP!More, Reader!AtWord,
       ReadP!AtWord, Reader!Space, ReadP!Space, Reader!Past, ReadP!Past, Reader!Quote, ReadP!Quote,
       Reader!Room, ReadP!Room, Reader!Escape, ReadP!Escape, Reader!Unescaped, ReadP!Unescaped,
       Reader!Behind, ReadP!Behind, Reader!SelectInSeq, ReadP!SelectInSeq, Reader!Nul, ReadP!Nul,
       Reader!Newline, ReadP!Newline, Reader!Min, ReadP!Min

LEMMA AsmWords ==
  /\ \A l : /\ Asm!Uncommented(l) = AsmP!Uncommented(l) /\ Asm!Operands(l) = AsmP!Operands(l)
           /\ Asm!IsLabel(l) = AsmP!IsLabel(l) /\ Asm!IsStr(l) = AsmP!IsStr(l)
           /\ Asm!IsCode(l) = AsmP!IsCode(l)
  /\ \A w : Asm!Width(w) = AsmP!Width(w)
  /\ \A ns : Asm!Total(ns) = AsmP!Total(ns)
  /\ \A s : Asm!FlattenSeq(s) = AsmP!FlattenSeq(s)
  /\ \A w : Asm!Word2(w) = AsmP!Word2(w)
  /\ \A c, r, e : Asm!Executable(c, r, e) = AsmP!Executable(c, r, e)
  /\ Asm!Parameters = AsmP!Parameters /\ Asm!HEADER = AsmP!HEADER /\ Asm!STR = AsmP!STR
<1>1. \A l : Asm!Uncommented(l) = AsmP!Uncommented(l)
  BY DEF Asm!Uncommented, AsmP!Uncommented, Asm!SelectInSeq, AsmP!SelectInSeq, Asm!Min, AsmP!Min,
         Asm!IsRemark, AsmP!IsRemark
<1>2. \A l : Asm!Operands(l) = AsmP!Operands(l)
  BY <1>1 DEF Asm!Operands, AsmP!Operands
<1>3. \A l : Asm!IsLabel(l) = AsmP!IsLabel(l)
  BY DEF Asm!IsLabel, AsmP!IsLabel
<1>4. \A l : Asm!IsStr(l) = AsmP!IsStr(l) /\ Asm!STR = AsmP!STR
  BY <1>1 DEF Asm!IsStr, AsmP!IsStr, Asm!STR, AsmP!STR
<1>5. \A l : Asm!IsCode(l) = AsmP!IsCode(l)
  BY <1>1, <1>3 DEF Asm!IsCode, AsmP!IsCode
<1>6. \A w : Asm!Width(w) = AsmP!Width(w) /\ Asm!Word2(w) = AsmP!Word2(w)
  BY DEF Asm!Width, AsmP!Width, Asm!Word2, AsmP!Word2
<1>7. \A s : Asm!Total(s) = AsmP!Total(s) /\ Asm!FlattenSeq(s) = AsmP!FlattenSeq(s)
  BY DEF Asm!Total, AsmP!Total, Asm!FlattenSeq, AsmP!FlattenSeq
<1>8. Asm!Parameters = AsmP!Parameters /\ Asm!HEADER = AsmP!HEADER
  BY DEF Asm!Parameters, AsmP!Parameters, Asm!HEADER, AsmP!HEADER
<1>9. \A c, r, e : Asm!Executable(c, r, e) = AsmP!Executable(c, r, e)
  BY DEF Asm!Executable, AsmP!Executable, Asm!Word2, AsmP!Word2, Asm!HEADER, AsmP!HEADER,
         Asm!FlattenSeq, AsmP!FlattenSeq
<1> QED
  BY <1>1, <1>2, <1>3, <1>4, <1>5, <1>6, <1>7, <1>8, <1>9

LEMMA AsmWidths == \A s, n : Asm!Widths(s, n) = AsmP!Widths(s, n)
BY DEF Asm!Widths, AsmP!Widths, Asm!Width, AsmP!Width, Asm!Total, AsmP!Total

LEMMA TextWords ==
  /\ \A l : /\ Text!Uncommented(l) = AsmP!Uncommented(l) /\ Text!Operands(l) = AsmP!Operands(l)
           /\ Text!IsLabel(l) = AsmP!IsLabel(l) /\ Text!IsStr(l) = AsmP!IsStr(l)
           /\ Text!IsCode(l) = AsmP!IsCode(l)
  /\ \A w : Text!Width(w) = AsmP!Width(w)
  /\ \A ns : Text!Total(ns) = AsmP!Total(ns)
  /\ \A s : Text!FlattenSeq(s) = AsmP!FlattenSeq(s)
  /\ \A w : Text!Word2(w) = AsmP!Word2(w)
  /\ \A c, r, e : Text!Executable(c, r, e) = AsmP!Executable(c, r, e)
  /\ Text!Parameters = AsmP!Parameters /\ Text!HEADER = AsmP!HEADER /\ Text!STR = AsmP!STR
<1>1. \A l : Text!Uncommented(l) = AsmP!Uncommented(l)
  BY DEF Text!Uncommented, AsmP!Uncommented, Text!SelectInSeq, AsmP!SelectInSeq, Text!Min, AsmP!Min,
         Text!IsRemark, AsmP!IsRemark
<1>2. \A l : Text!Operands(l) = AsmP!Operands(l)
  BY <1>1 DEF Text!Operands, AsmP!Operands
<1>3. \A l : Text!IsLabel(l) = AsmP!IsLabel(l)
  BY DEF Text!IsLabel, AsmP!IsLabel
<1>4. \A l : Text!IsStr(l) = AsmP!IsStr(l) /\ Text!STR = AsmP!STR
  BY <1>1 DEF Text!IsStr, AsmP!IsStr, Text!STR, AsmP!STR
<1>5. \A l : Text!IsCode(l) = AsmP!IsCode(l)
  BY <1>1, <1>3 DEF Text!IsCode, AsmP!IsCode
<1>6. \A w : Text!Width(w) = AsmP!Width(w) /\ Text!Word2(w) = AsmP!Word2(w)
  BY DEF Text!Width, AsmP!Width, Text!Word2, AsmP!Word2
<1>7. \A s : Text!Total(s) = AsmP!Total(s) /\ Text!FlattenSeq(s) = AsmP!FlattenSeq(s)
  BY DEF Text!Total, AsmP!Total, Text!FlattenSeq, AsmP!FlattenSeq
<1>8. Text!Parameters = AsmP!Parameters /\ Text!HEADER = AsmP!HEADER
  BY DEF Text!Parameters, AsmP!Parameters, Text!HEADER, AsmP!HEADER
<1>9. \A c, r, e : Text!Executable(c, r, e) = AsmP!Executable(c, r, e)
  BY DEF Text!Executable, AsmP!Executable, Text!Word2, AsmP!Word2, Text!HEADER, AsmP!HEADER,
         Text!FlattenSeq, AsmP!FlattenSeq
<1> QED
  BY <1>1, <1>2, <1>3, <1>4, <1>5, <1>6, <1>7, <1>8, <1>9

LEMMA TextWidths == \A s, n : Text!Widths(s, n) = AsmP!Widths(s, n)
BY DEF Text!Widths, AsmP!Widths, Text!Width, AsmP!Width, Text!Total, AsmP!Total

LEMMA AsmLine ==
  /\ \A n : Asm!line(n) = AsmP!line(n)
  /\ \A x : Asm!Named(x) = AsmP!Named(x) /\ Asm!insertSymbolAddress(x) = AsmP!insertSymbolAddress(x)
  /\ Asm!Assembled = AsmP!Assembled /\ Asm!input = AsmP!input /\ Asm!IsString = AsmP!IsString
  /\ Asm!enoughParam = AsmP!enoughParam
<1>1. \A n : Asm!line(n) = AsmP!line(n)
  BY DEF Asm!line, AsmP!line
<1>2. \A x : Asm!Named(x) = AsmP!Named(x) /\ Asm!insertSymbolAddress(x) = AsmP!insertSymbolAddress(x)
  BY DEF Asm!Named, AsmP!Named, Asm!insertSymbolAddress, AsmP!insertSymbolAddress
<1>3. Asm!Assembled = AsmP!Assembled
  BY <1>1, AsmWords DEF Asm!Assembled, AsmP!Assembled
<1>4. Asm!input = AsmP!input /\ Asm!IsString = AsmP!IsString
  BY <1>1, <1>3, AsmWords DEF Asm!input, AsmP!input, Asm!IsString, AsmP!IsString
<1>5. Asm!enoughParam = AsmP!enoughParam
  BY <1>1, <1>3, <1>4, AsmWords, AsmWidths
     DEF Asm!enoughParam, AsmP!enoughParam, Asm!param, AsmP!param
<1> QED
  BY <1>1, <1>2, <1>3, <1>4, <1>5

LEMMA AsmOperands ==
  /\ Asm!Unknown = AsmP!Unknown /\ Asm!Through = AsmP!Through
  /\ Asm!sig = AsmP!sig
  /\ \A s : Asm!Code(s) = AsmP!Code(s)
<1>1. \A w, str : Asm!Known(w, str) = AsmP!Known(w, str)
  BY AsmLine DEF Asm!Known, AsmP!Known
<1>2. \A w, str : Asm!Bytes(w, str) = AsmP!Bytes(w, str)
  BY AsmLine, AsmWords DEF Asm!Bytes, AsmP!Bytes
<1>3. \A w : Asm!operandsig(w) = AsmP!operandsig(w)
  BY DEF Asm!operandsig, AsmP!operandsig
<1>4. Asm!Unknown = AsmP!Unknown
  BY <1>1, AsmLine DEF Asm!Unknown, AsmP!Unknown
<1>5. Asm!Through = AsmP!Through
  BY <1>4, AsmLine DEF Asm!Through, AsmP!Through
<1>6. Asm!sig = AsmP!sig
  BY <1>3, <1>5, AsmWords DEF Asm!sig, AsmP!sig
<1>7. \A s : Asm!Code(s) = AsmP!Code(s)
  BY <1>2, AsmLine, AsmWords DEF Asm!Code, AsmP!Code
<1> QED
  BY <1>4, <1>5, <1>6, <1>7

LEMMA AsmEmitted ==
  /\ Asm!Emitted = AsmP!Emitted /\ Asm!Overruns = AsmP!Overruns /\ Asm!Relocated = AsmP!Relocated
  /\ Asm!final_binary = AsmP!final_binary
<1>1. Asm!Opcode = AsmP!Opcode
  BY AsmLine, AsmOperands DEF Asm!Opcode, AsmP!Opcode
<1>2. Asm!Emitted = AsmP!Emitted
  BY <1>1, AsmLine, AsmOperands DEF Asm!Emitted, AsmP!Emitted
<1>3. Asm!Overruns = AsmP!Overruns
  BY <1>2, AsmOperands DEF Asm!Overruns, AsmP!Overruns
<1>4. Asm!Relocated = AsmP!Relocated
  BY AsmLine, AsmOperands, AsmWords DEF Asm!Relocated, AsmP!Relocated
<1>5. Asm!final_binary = AsmP!final_binary
  BY AsmWords DEF Asm!final_binary, AsmP!final_binary
<1> QED
  BY <1>2, <1>3, <1>4, <1>5

LEMMA AsmNext == Asm!Next <=> AsmP!Next
<1> USE DEF Asm!NoMain, AsmP!NoMain, Asm!Wrapped, AsmP!Wrapped
<1>1. \A kinds : Asm!AtWord(kinds) <=> AsmP!AtWord(kinds)
  BY AsmLine DEF Asm!AtWord, AsmP!AtWord
<1>2. Asm!CountWord <=> AsmP!CountWord
  BY <1>1, AsmLine, AsmWords DEF Asm!CountWord, AsmP!CountWord, Asm!Counted, AsmP!Counted
<1>3. Asm!CountLabel <=> AsmP!CountLabel
  <2>1. \A l : Asm!CountedBehind(l) = AsmP!CountedBehind(l)
    BY AsmWords DEF Asm!CountedBehind, AsmP!CountedBehind
  <2> QED
    BY <1>1, <2>1, AsmLine, AsmWords DEF Asm!CountLabel, AsmP!CountLabel
<1>4. Asm!CountMissingString <=> AsmP!CountMissingString
  BY <1>1, AsmLine, AsmWords DEF Asm!CountMissingString, AsmP!CountMissingString
<1>5. Asm!LookBehindRaw <=> AsmP!LookBehindRaw
  BY <1>1, AsmLine, AsmWords DEF Asm!LookBehindRaw, AsmP!LookBehindRaw
<1>6. (Asm!CountedLine <=> AsmP!CountedLine) /\ (Asm!SecondPass <=> AsmP!SecondPass)
  BY <1>1, AsmLine DEF Asm!CountedLine, AsmP!CountedLine, Asm!SecondPass, AsmP!SecondPass
<1>7. \A n : Asm!Skip(n) <=> AsmP!Skip(n)
  BY DEF Asm!Skip, AsmP!Skip
<1>8. Asm!AtLine <=> AsmP!AtLine
  BY AsmLine, AsmWords DEF Asm!AtLine, AsmP!AtLine
<1>9. (Asm!SkipLine <=> AsmP!SkipLine) /\ (Asm!SkipBehindLabel <=> AsmP!SkipBehindLabel)
  BY <1>7, <1>8, AsmLine, AsmWords
     DEF Asm!SkipLine, AsmP!SkipLine, Asm!SkipBehindLabel, AsmP!SkipBehindLabel
<1>10. Asm!Emit <=> AsmP!Emit
  BY <1>8, AsmLine, AsmOperands, AsmEmitted DEF Asm!Emit, AsmP!Emit
<1>11. (Asm!Overrun <=> AsmP!Overrun) /\ (Asm!Reject <=> AsmP!Reject)
  BY <1>8, AsmLine, AsmOperands, AsmEmitted DEF Asm!Overrun, AsmP!Overrun, Asm!Reject, AsmP!Reject
<1>12. Asm!AtEnd <=> AsmP!AtEnd
  BY DEF Asm!AtEnd, AsmP!AtEnd
<1>13. (Asm!NoMainSymbol <=> AsmP!NoMainSymbol) /\ (Asm!OverrunFinal <=> AsmP!OverrunFinal)
  BY <1>12, AsmEmitted DEF Asm!NoMainSymbol, AsmP!NoMainSymbol, Asm!OverrunFinal, AsmP!OverrunFinal
<1>14. Asm!Finish <=> AsmP!Finish
  BY <1>12, AsmEmitted DEF Asm!Finish, AsmP!Finish, Asm!NoFile, AsmP!NoFile,
     Asm!Opened, AsmP!Opened, Asm!Overwritten, AsmP!Overwritten
<1> QED
  BY <1>2, <1>3, <1>4, <1>5, <1>6, <1>9, <1>10, <1>11, <1>13, <1>14 DEF Asm!Next, AsmP!Next

(* What a source means, in the two names it has.                           *)
LEMMA SameMeaning ==
  \A s : /\ Text!Plain(s) <=> AsmP!Plain(s)
         /\ Text!Correct(s) <=> AsmP!Correct(s)
         /\ \A n : Text!SizeWithin(s, n) <=> AsmP!SizeWithin(s, n)
         /\ Text!ExecutableOf(s) = AsmP!ExecutableOf(s)
         /\ \A n : Text!Offset(s, n) = AsmP!Offset(s, n)
         /\ \A x : Text!Meaning(s, x) = AsmP!Meaning(s, x)
         /\ Text!CodeOf(s) = AsmP!CodeOf(s) /\ Text!RelocationsOf(s) = AsmP!RelocationsOf(s)
<1>1. \A l : Text!Size(l) = AsmP!Size(l)
  BY TextWords, TextWidths DEF Text!Size, AsmP!Size
<1>2. \A s, n : Text!Offset(s, n) = AsmP!Offset(s, n)
  BY <1>1, TextWords DEF Text!Offset, AsmP!Offset
<1>3. \A s : Text!Labels(s) = AsmP!Labels(s)
  BY TextWords DEF Text!Labels, AsmP!Labels
<1>4. \A s, x : (Text!Defined(s, x) <=> AsmP!Defined(s, x)) /\ Text!Meaning(s, x) = AsmP!Meaning(s, x)
  BY <1>2, <1>3 DEF Text!Defined, AsmP!Defined, Text!Meaning, AsmP!Meaning
<1>5. \A s, w : Text!Operand(s, w) = AsmP!Operand(s, w)
  BY <1>4 DEF Text!Operand, AsmP!Operand, Text!R, AsmP!R, Text!I, AsmP!I, Text!Addr, AsmP!Addr
<1>6. \A op, os : Text!Ins(op, os) = AsmP!Ins(op, os)
  BY DEF Text!Ins, AsmP!Ins
<1>7. \A s, l : Text!Encoded(s, l) = AsmP!Encoded(s, l)
  BY <1>5, <1>6, TextWords DEF Text!Encoded, AsmP!Encoded
<1>8. \A s : Text!CodeOf(s) = AsmP!CodeOf(s)
  BY <1>7, TextWords DEF Text!CodeOf, AsmP!CodeOf
<1>9. \A s, n : Text!References(s, n) = AsmP!References(s, n)
  BY <1>2, TextWords, TextWidths DEF Text!References, AsmP!References
<1>10. \A s : Text!RelocationsOf(s) = AsmP!RelocationsOf(s)
  BY <1>9, TextWords DEF Text!RelocationsOf, AsmP!RelocationsOf
<1>11. \A s : Text!ExecutableOf(s) = AsmP!ExecutableOf(s)
  BY <1>4, <1>8, <1>10, TextWords DEF Text!ExecutableOf, AsmP!ExecutableOf
<1>12. \A s, n : Text!SizeWithin(s, n) <=> AsmP!SizeWithin(s, n)
  BY <1>2, <1>10, TextWords DEF Text!SizeWithin, AsmP!SizeWithin
<1>13. \A s : Text!Correct(s) <=> AsmP!Correct(s)
  <2>1. \A s, l : Text!CorrectLine(s, l) <=> AsmP!CorrectLine(s, l)
    BY <1>4, TextWords, TextWidths DEF Text!CorrectLine, AsmP!CorrectLine
  <2> QED
    BY <1>4, <2>1, TextWords DEF Text!Correct, AsmP!Correct
<1>14. \A s : Text!Plain(s) <=> AsmP!Plain(s)
  BY TextWords DEF Text!Plain, AsmP!Plain
<1> QED
  BY <1>2, <1>4, <1>8, <1>10, <1>11, <1>12, <1>13, <1>14

-----------------------------------------------------------------------------
(* The words in raw[]                                                      *)

(* What SourceText makes of a word is a record with the fields of a word.  *)
LEMMA ClassifiedAsWord ==
  \A w, k : \E kind, val, chars :
    Text!Classified(w, k) = [kind |-> kind, val |-> val, chars |-> chars]
BY Zenon DEF Text!Classified, Text!Word, Text!Semicolon

LEMMA WordsOfSource ==
  ASSUME ReadP!ReadInv, src = Text!Lines(raw),
         \A n \in DOMAIN src : \A k \in DOMAIN src[n] : IsWord(src[n][k])
  PROVE  src \in Seq(Seq(AsmP!Words))
<1>1. PICK lines \in Seq(Seq(ReadP!Text)) : lines = raw
  BY DEF ReadP!ReadInv, ReadP!ReadType
<1>2. /\ Len(lines) \in Nat /\ DOMAIN lines = 1 .. Len(lines)
      /\ \A n \in 1 .. Len(lines) : Len(lines[n]) \in Nat /\ DOMAIN lines[n] = 1 .. Len(lines[n])
  OBVIOUS
<1>3. /\ src = [n \in 1 .. Len(lines) |-> [k \in 1 .. Len(lines[n]) |-> Text!Classified(lines[n][k], k)]]
  BY <1>1, <1>2 DEF Text!Lines
<1>4. ASSUME NEW n \in 1 .. Len(lines), NEW k \in 1 .. Len(lines[n])
      PROVE  Text!Classified(lines[n][k], k) \in AsmP!Words
  <2>1. PICK w : w = Text!Classified(lines[n][k], k)
    OBVIOUS
  <2>2. PICK kind, val, chars : w = [kind |-> kind, val |-> val, chars |-> chars]
    BY <2>1, ClassifiedAsWord
  <2>3. n \in DOMAIN src /\ k \in DOMAIN src[n] /\ src[n][k] = w
    BY <1>3, <2>1
  <2>4. IsWord(w) /\ w.kind = kind /\ w.val = val /\ w.chars = chars
    BY <2>2, <2>3
  <2>5. chars \in AsmP!Chars
    BY <2>4 DEF IsWord, Text!Chars, AsmP!Chars
  <2>6. \/ kind = "op" /\ val \in 0 .. AsmP!STR
        \/ kind = "reg" /\ val \in AsmP!RegNumbers
        \/ kind = "hex4" /\ val \in AsmP!Halfwords
        \/ kind \in {"label", "ref"} /\ val \in STRING
        \/ kind \in AsmP!OtherKinds /\ val \in Nat
    <3>1. /\ Text!STR = AsmP!STR /\ Text!OtherKinds = AsmP!OtherKinds
          /\ Text!RegNumbers = AsmP!RegNumbers /\ Text!Halfwords = AsmP!Halfwords
      BY DEF Text!STR, AsmP!STR, Text!OtherKinds, AsmP!OtherKinds, Text!RegNumbers, AsmP!RegNumbers,
             Text!Halfwords, AsmP!Halfwords
    <3> QED
      BY <2>4, <3>1 DEF IsWord
  <2> QED
    BY <2>1, <2>2, <2>5, <2>6 DEF AsmP!Words
<1>5. \A n \in 1 .. Len(lines) :
        [k \in 1 .. Len(lines[n]) |-> Text!Classified(lines[n][k], k)] \in Seq(AsmP!Words)
  BY <1>2, <1>4
<1> QED
  BY <1>2, <1>3, <1>5

-----------------------------------------------------------------------------
(* make run from the text to the binary: the tokenizer stays in its        *)
(* buffers, the assembler starts on what is in raw[] and keeps its         *)
(* invariant, and the emulator has the assembler's file.                   *)
MakeInv ==
  /\ ReadP!ReadInv
  /\ make = "read" => AsmP!Begun
  /\ make # "read" => src = Text!Lines(raw)
  /\ make # "read" /\ src \in Seq(Seq(AsmP!Words)) => AsmP!AssemblerInv
  /\ make = "emulate" => phase = "written" /\ file = out
  /\ make = "stopped" => phase \in {"failed", "unopened", "crash", "wild"}

LEMMA InitMake == InitT => MakeInv
<1> SUFFICES ASSUME InitT PROVE MakeInv
  OBVIOUS
<1>1. ReadP!ReadInv
  BY ReadAssumption, ReaderInit, ReadP!InitRead DEF InitT
<1>2. AsmP!Begun /\ make = "read"
  BY DEF InitT, Asm!Init, Asm!NoMain, AsmP!Begun, AsmP!NoMain
<1> QED
  BY <1>1, <1>2 DEF MakeInv

(* A step that is not the tokenizer's or not the assembler's leaves their  *)
(* invariants alone.                                                       *)
LEMMA ReaderStays ==
  ASSUME ReadP!ReadInv, UNCHANGED reader
  PROVE  ReadP!ReadInv'
<1>1. UNCHANGED ReadP!varsR
  BY DEF reader, ReadP!varsR
<1> QED
  BY <1>1, ReadAssumption, ReadP!NextRead

LEMMA AssemblerStays ==
  ASSUME UNCHANGED assembler
  PROVE  /\ AsmP!Begun => AsmP!Begun'
         /\ AsmP!AssemblerInv => AsmP!AssemblerInv'
<1>1. UNCHANGED AsmP!varsA
  BY DEF assembler, AsmP!varsA
<1>2. AsmP!AssemblerInv => AsmP!AssemblerInv'
  BY <1>1, AsmAssumption, AsmP!AssemblerStep
<1> QED
  BY <1>2 DEF AsmP!Begun, assembler, AsmP!NoMain

LEMMA read_fileInv == ASSUME MakeInv, read_file PROVE MakeInv'
<1>1. make = "read" /\ make' = "read" /\ UNCHANGED assembler
  BY DEF read_file
<1>2. ReadP!ReadInv'
  BY ReaderNext, ReadAssumption, ReadP!NextRead DEF read_file, MakeInv
<1> QED
  BY <1>1, <1>2, AssemblerStays DEF MakeInv

LEMMA AssemblerReady ==
  AsmP!Begun /\ src \in Seq(Seq(AsmP!Words)) /\ Len(src) <= MAX_LINES => AsmP!AssemblerInv
BY AsmAssumption, AsmP!AssemblerStarts

LEMMA AssemblerReadyNext ==
  (AsmP!Begun /\ src \in Seq(Seq(AsmP!Words)) /\ Len(src) <= MAX_LINES => AsmP!AssemblerInv)'
BY AssemblerReady, PTL

LEMMA AssembleInv == ASSUME MakeInv, Assemble PROVE MakeInv'
<1>1. /\ make = "read" /\ make' = "assemble" /\ src' = Text!Lines(raw)
      /\ UNCHANGED <<reader, lineno, wordno, roffset, symbols, main_symbol,
                     binary, reloc_offsets, out, phase>>
  BY DEF Assemble
<1>2. ReadP!ReadInv' /\ raw' = raw
  BY <1>1, ReaderStays DEF MakeInv, reader
<1>3. AsmP!Begun'
  BY <1>1 DEF MakeInv, AsmP!Begun, AsmP!NoMain
<1>4. ASSUME src' \in Seq(Seq(AsmP!Words))
      PROVE  AsmP!AssemblerInv'
  <2>1. PICK lines \in Seq(Seq(ReadP!Text)) : lines = raw /\ Len(lines) <= MAX_LINES
    BY DEF MakeInv, ReadP!ReadInv, ReadP!ReadType, ReadP!StaysInBuffers
  <2>2. PICK s \in Seq(Seq(AsmP!Words)) : s = src'
    BY <1>4
  <2>3. DOMAIN s = DOMAIN lines
    BY <1>1, <2>1, <2>2 DEF Text!Lines
  <2>4. Len(s) = Len(lines)
    BY <2>3
  <2> QED
    BY <1>3, <2>1, <2>2, <2>4, AssemblerReadyNext
<1> QED
  BY <1>1, <1>2, <1>4 DEF MakeInv

LEMMA main_assemblerInv == ASSUME MakeInv, main_assembler PROVE MakeInv'
<1>1. make = "assemble" /\ make' = "assemble" /\ UNCHANGED reader /\ AsmP!Next
  BY AsmNext DEF main_assembler
<1>2. ReadP!ReadInv' /\ raw' = raw
  BY <1>1, ReaderStays DEF MakeInv, reader
<1>3. src' = src
  BY <1>1, AsmAssumption, AsmP!SourceStays
<1>4. AsmP!AssemblerInv => AsmP!AssemblerInv'
  BY <1>1, AsmAssumption, AsmP!AssemblerStep
<1> QED
  BY <1>1, <1>2, <1>3, <1>4 DEF MakeInv

(* The emulator never writes to the file it was given.                     *)
LEMMA FileStays == NextS => file' = file
<1>1. Load!Next => file' = file
  BY DEF Load!Next, Load!Open, Load!Read, Load!Relocate, Load!Stray, Load!Start
<1> QED
  BY <1>1 DEF NextS, Arguments, binload, cpu_exec_core, loading

LEMMA NextMake == MakeInv /\ [NextT]_varsT => MakeInv'
<1> SUFFICES ASSUME MakeInv, [NextT]_varsT PROVE MakeInv'
  OBVIOUS
<1>1. ASSUME UNCHANGED <<reader, assembler>>,
             make' # make => make = "assemble",
             make' = "read" => make = "read",
             make' = "emulate" => phase = "written" /\ file' = out,
             make' = "stopped" => phase \in {"failed", "unopened", "crash", "wild"}
      PROVE  MakeInv'
  BY <1>1, ReaderStays, AssemblerStays DEF MakeInv, reader, assembler
<1>2. CASE read_file
  BY <1>2, read_fileInv
<1>3. CASE Assemble
  BY <1>3, AssembleInv
<1>4. CASE main_assembler
  BY <1>4, main_assemblerInv
<1>5. CASE Emulate
  BY <1>1, <1>5 DEF Emulate, Succeeded
<1>6. CASE Stop
  BY <1>1, <1>6 DEF Stop
<1>7. CASE main_emulator
  BY <1>1, <1>7, FileStays DEF main_emulator, MakeInv
<1>8. CASE UNCHANGED varsT
  BY <1>1, <1>8 DEF varsT, varsS, loading, MakeInv
<1> QED
  BY <1>2, <1>3, <1>4, <1>5, <1>6, <1>7, <1>8 DEF NextT

LEMMA AlwaysMake == SpecT => []MakeInv
BY InitMake, NextMake, PTL DEF SpecT

-----------------------------------------------------------------------------
(* Inside make as on its own, the tokenizer stays in its buffers, and so   *)
(* raw[] holds what the assembler relies on when it walks over it.         *)
THEOREM MakeReadsInBuffers == SpecT => []Reader!StaysInBuffers
<1>1. MakeInv => Reader!StaysInBuffers
  BY DEF MakeInv, ReadP!ReadInv, ReadP!StaysInBuffers, Reader!StaysInBuffers
<1> QED
  BY <1>1, AlwaysMake, PTL

LEMMA Handed ==
  ASSUME MakeInv, ReadAsMeant, make # "read"
  PROVE  /\ src = Meant /\ Text!Plain(Meant) /\ src \in Seq(Seq(AsmP!Words))
         /\ AsmP!Passes /\ AsmP!Judged(src, phase)
<1>1. src = Meant /\ Text!Plain(src)
  BY DEF ReadAsMeant
<1>2. src \in Seq(Seq(AsmP!Words))
  BY WordsOfSource DEF MakeInv, ReadAsMeant
<1>3. AsmP!AssemblerInv /\ AsmP!Plain(src)
  BY <1>1, <1>2, SameMeaning DEF MakeInv
<1> QED
  BY <1>1, <1>2, <1>3 DEF AsmP!AssemblerInv

(* What the emulator has been given.                                       *)
LEMMA HandedOver ==
  ASSUME MakeInv, ReadAsMeant, make = "emulate"
  PROVE  /\ src = Meant /\ src \in Seq(Seq(AsmP!Words)) /\ AsmP!Laid(src) /\ AsmP!Correct(src)
         /\ file \in Seq(Nat) /\ AsmP!IsPrefix(file, AsmP!ExecutableOf(src))
         /\ AsmP!ExecutableOf(src) = MeantBinary
<1>1. src = Meant /\ src \in Seq(Seq(AsmP!Words)) /\ AsmP!Passes /\ AsmP!Judged(src, phase)
  BY Handed
<1>2. phase = "written" /\ file = out
  BY DEF MakeInv
<1>3. AsmP!Laid(src) /\ file \in Seq(Nat) /\ AsmP!IsPrefix(file, AsmP!ExecutableOf(src))
  BY <1>1, <1>2 DEF AsmP!Passes, AsmP!Written
<1>4. AsmP!Correct(src)
  BY <1>1, <1>2 DEF AsmP!Judged
<1>5. AsmP!ExecutableOf(src) = MeantBinary
  BY <1>1, SameMeaning DEF MeantBinary
<1> QED
  BY <1>1, <1>3, <1>4, <1>5

LEMMA SizeHalfword == UINT16_MAX \in AsmP!Halfwords
<1>1. PICK n \in Nat : n = UINT16_MAX /\ n < 65536
  BY ToolchainAssumption, WordDef DEF ToolchainAssumption
<1>2. n \in AsmP!Halfwords
  BY <1>1, AsmAssumption, AsmP!HalfwordOf
<1> QED
  BY <1>1, <1>2

(* Judged by its size, what the emulator is given is a file of bytes.      *)
LEMMA HandedOverBytes ==
  ASSUME MakeInv, ReadAsMeant, make = "emulate"
  PROVE  file \in Seq(Byte)
<1>1. /\ src \in Seq(Seq(AsmP!Words)) /\ AsmP!Correct(src)
      /\ file \in Seq(Nat) /\ AsmP!IsPrefix(file, AsmP!ExecutableOf(src))
  BY HandedOver
<1>2. AsmP!SizeWithin(src, UINT16_MAX)
  BY Handed DEF MakeInv, AsmP!Judged
<1>3. UINT16_MAX \in AsmP!Halfwords
  BY SizeHalfword
<1>4. PICK f \in Seq(AsmP!OneByte) : f = AsmP!ExecutableOf(src)
  BY <1>1, <1>2, <1>3, AsmAssumption, AsmP!ExecutableBytes
<1>5. AsmP!OneByte = Byte
  BY DEF AsmP!OneByte, Byte
<1>6. file = SubSeq(f, 1, Len(file)) /\ Len(file) <= Len(f)
  BY <1>1, <1>4 DEF AsmP!IsPrefix
<1>7. PICK n \in Nat : n = Len(file)
  BY <1>1
<1>8. SubSeq(f, 1, n) \in Seq(AsmP!OneByte)
  <2>1. n \in 0 .. Len(f)
    BY <1>6, <1>7
  <2> QED
    BY <2>1
<1> QED
  BY <1>5, <1>6, <1>7, <1>8

(* Whatever was in the binary's place before, and whatever fails on the    *)
(* way, the emulator is given the binary the author's text means, or its   *)
(* beginning: for every text that is read as it is meant, and all sizes.   *)
THEOREM NothingIsStale == SpecT => [](ReadAsMeant => NothingStale)
<1>1. MakeInv => (ReadAsMeant => NothingStale)
  <2> SUFFICES ASSUME MakeInv, ReadAsMeant, make = "emulate"
               PROVE  IsPrefix(file, MeantBinary)
    BY DEF NothingStale
  <2>1. AsmP!IsPrefix(file, AsmP!ExecutableOf(src)) /\ AsmP!ExecutableOf(src) = MeantBinary
    BY HandedOver
  <2> QED
    BY <2>1 DEF AsmP!IsPrefix, IsPrefix
<1> QED
  BY <1>1, AlwaysMake, PTL

LEMMA FieldHeld ==
  ASSUME file \in Seq(Nat), NEW k \in Nat, NEW w \in Nat, AsmP!Holds(file, k, w)
  PROVE  Load!field(k) = w
<1>1. file[k + 1] = w % 256 /\ file[k + 2] = w \div 256
  BY DEF AsmP!Holds
<1>2. (w % 256) + 256 * (w \div 256) = w
  OBVIOUS
<1> QED
  BY <1>1, <1>2 DEF Load!field

(* The header and the table of a file of that form, as binload reads them. *)
LEMMA LoadsFields ==
  ASSUME file \in Seq(Nat), NEW rel \in Seq(Nat), NEW entry \in Nat, NEW size \in Nat,
         AsmP!Loads(file, rel, entry, size), NEW start \in Nat, start = 8 + 2 * Len(rel)
  PROVE  /\ Load!field(0) = Load!MAGIC
         /\ Load!RelocCount = Len(rel) /\ Load!CodeOffset = start /\ Load!EntryOffset = start + entry
         /\ Len(file) = start + size
         /\ \A k \in 0 .. Len(rel) - 1 : Load!Rloc(k) = rel[k + 1] /\ k + 1 \in 1 .. Len(rel)
<1>1. PICK n \in Nat, l \in Nat : n = Len(rel) /\ l = Len(file)
  OBVIOUS
<1>2. start = 8 + 2 * n
  BY <1>1
<1>3. Load!field(0) = Load!MAGIC
  <2>1. PICK magic \in Nat : magic = 62079 /\ AsmP!Holds(file, 0, magic)
    BY DEF AsmP!Loads
  <2> QED
    BY <2>1, FieldHeld DEF Load!MAGIC
<1>4. Load!RelocCount = n
  BY <1>1, FieldHeld DEF AsmP!Loads, Load!RelocCount
<1>5. Load!CodeOffset = start
  <2>1. AsmP!Holds(file, 2, start)
    BY <1>1, <1>2 DEF AsmP!Loads
  <2> QED
    BY <2>1, FieldHeld DEF Load!CodeOffset
<1>6. Load!EntryOffset = start + entry
  <2>1. AsmP!Holds(file, 4, start + entry) /\ start + entry \in Nat
    BY <1>1, <1>2 DEF AsmP!Loads
  <2> QED
    BY <2>1, FieldHeld DEF Load!EntryOffset
<1>7. l = start + size
  BY <1>1, <1>2 DEF AsmP!Loads, AsmP!Sized
<1>8. ASSUME NEW k \in 0 .. n - 1
      PROVE  Load!Rloc(k) = rel[k + 1] /\ k + 1 \in 1 .. n
  <2>1. k \in Nat /\ 8 + 2 * k \in Nat /\ k + 1 \in 1 .. n
    OBVIOUS
  <2>2. rel[k + 1] \in Nat
    BY <1>1, <2>1
  <2>3. AsmP!Holds(file, 8 + 2 * k, rel[k + 1])
    BY <1>1 DEF AsmP!Loads
  <2>4. Load!field(8 + 2 * k) = rel[k + 1]
    BY <2>1, <2>2, <2>3, FieldHeld
  <2> QED
    BY <2>1, <2>4 DEF Load!Rloc, Load!HeaderSize
<1> QED
  BY <1>1, <1>3, <1>4, <1>5, <1>6, <1>7, <1>8

(* The fields of a file of that form are those of a well-formed binary.    *)
LEMMA LoadsWellFormed ==
  ASSUME file \in Seq(Nat), NEW rel \in Seq(Nat), NEW entry \in Nat, NEW size \in Nat,
         AsmP!Loads(file, rel, entry, size), entry < size
  PROVE  Load!WellFormed
<1>1. PICK n \in Nat, l \in Nat : n = Len(rel) /\ l = Len(file)
  OBVIOUS
<1>2. PICK start \in Nat : start = 8 + 2 * n
  OBVIOUS
<1>3. /\ Load!field(0) = Load!MAGIC
      /\ Load!RelocCount = n /\ Load!CodeOffset = start /\ Load!EntryOffset = start + entry
      /\ l = start + size
      /\ \A k \in 0 .. n - 1 : Load!Rloc(k) = rel[k + 1] /\ k + 1 \in 1 .. n
  BY <1>1, <1>2, LoadsFields
<1>4. /\ \A k \in 1 .. n : rel[k] \in Nat /\ rel[k] + 2 <= size
      /\ \A h, k \in 1 .. n : h < k => rel[h] + 2 <= rel[k]
  BY <1>1 DEF AsmP!Loads, AsmP!Spaced
<1>5. ASSUME NEW r \in Load!Relocs
      PROVE  r + 1 < Load!CodeSize
  <2>1. PICK k \in 0 .. n - 1 : r = Load!Rloc(k)
    BY <1>3 DEF Load!Relocs
  <2>2. Load!CodeSize = size
    BY <1>1, <1>3 DEF Load!CodeSize
  <2>3. PICK q \in Nat : q = rel[k + 1] /\ q + 2 <= size /\ r = q
    BY <1>3, <1>4, <2>1
  <2> QED
    BY <2>2, <2>3
<1>6. ASSUME NEW h \in 0 .. n - 1, NEW k \in 0 .. n - 1, h < k
      PROVE  Load!Rloc(h) + 1 < Load!Rloc(k)
  <2>1. h + 1 \in 1 .. n /\ k + 1 \in 1 .. n /\ h + 1 < k + 1
    BY <1>3, <1>6
  <2>2. PICK q \in Nat, r \in Nat : q = rel[h + 1] /\ r = rel[k + 1] /\ q + 2 <= r
    BY <1>4, <2>1
  <2> QED
    BY <1>3, <2>2
<1>7. file # Missing
  BY ToolchainAssumption DEF ToolchainAssumption
<1>8. Len(file) >= Load!HeaderSize
  BY <1>1, <1>2, <1>3 DEF Load!HeaderSize
<1>9. Load!CodeOffset = Load!HeaderSize + 2 * Load!RelocCount
  BY <1>2, <1>3 DEF Load!HeaderSize
<1>10. Load!EntryOffset \in Load!CodeOffset .. Len(file) - 1
  BY <1>1, <1>3
<1> QED
  BY <1>3, <1>5, <1>6, <1>7, <1>8, <1>9, <1>10 DEF Load!WellFormed

(* A whole binary is the executable of the source.                         *)
LEMMA WholeFile ==
  ASSUME MakeInv, ReadAsMeant, Whole
  PROVE  /\ src = Meant /\ src \in Seq(Seq(AsmP!Words)) /\ AsmP!Laid(src) /\ AsmP!Correct(src)
         /\ file \in Seq(Nat) /\ file = AsmP!ExecutableOf(src)
         /\ AsmP!Meaning(src, "main") < AsmP!Offset(src, Len(src) + 1)
<1>1. /\ src = Meant /\ src \in Seq(Seq(AsmP!Words)) /\ AsmP!Laid(src) /\ AsmP!Correct(src)
      /\ file \in Seq(Nat) /\ AsmP!IsPrefix(file, AsmP!ExecutableOf(src))
      /\ AsmP!ExecutableOf(src) = MeantBinary
  BY HandedOver DEF Whole
<1>2. PICK f : f = AsmP!ExecutableOf(src)
  OBVIOUS
<1>3. f \in Seq(Nat)
  BY <1>1, <1>2, AsmAssumption, AsmP!ExecutableLoads DEF AsmP!Loads, AsmP!Sized
<1>4. file = f
  BY <1>1, <1>2, <1>3, AsmAssumption, AsmP!WholePrefix DEF Whole
<1>5. AsmP!Meaning(src, "main") < AsmP!Offset(src, Len(src) + 1)
  BY <1>1, SameMeaning DEF Whole
<1> QED
  BY <1>1, <1>2, <1>4, <1>5

LEMMA WholeLoadable ==
  ASSUME MakeInv, ReadAsMeant, Whole
  PROVE  Load!WellFormed
<1>1. /\ src \in Seq(Seq(AsmP!Words)) /\ AsmP!Laid(src) /\ AsmP!Correct(src)
      /\ file \in Seq(Nat) /\ file = AsmP!ExecutableOf(src)
      /\ AsmP!Meaning(src, "main") < AsmP!Offset(src, Len(src) + 1)
  BY WholeFile
<1>2. PICK rel \in Seq(Nat), entry \in Nat, size \in Nat :
        /\ entry = AsmP!Meaning(src, "main") /\ size = AsmP!Offset(src, Len(src) + 1)
        /\ AsmP!Loads(file, rel, entry, size)
  BY <1>1, AsmAssumption, AsmP!ExecutableLoads
<1> QED
  BY <1>1, <1>2, LoadsWellFormed

(* The one program reads the file as the other has written it: a binary    *)
(* written to its end, of any source that is read as it is meant and has   *)
(* code behind its main, is one the loader's theorems speak of.            *)
THEOREM HandedOverLoadable == SpecT => [](ReadAsMeant => HandsOverLoadable)
<1>1. MakeInv => (ReadAsMeant => HandsOverLoadable)
  BY WholeLoadable DEF HandsOverLoadable
<1> QED
  BY <1>1, AlwaysMake, PTL

(* The source is free of mistakes, and of a size the tables hold, exactly  *)
(* if its author takes it to be.                                           *)
KnownToAuthor ==
  /\ source.correct <=> Text!Correct(Meant) /\ Text!SizeWithin(Meant, UINT16_MAX)
  /\ Len(Meant) < MAX_LINES

(* The emulator runs on such sources, and make stops only on others or     *)
(* because the binary cannot be opened.                                    *)
THEOREM CorrectSourcesRun ==
  SpecT => [](ReadAsMeant /\ KnownToAuthor => RunsCorrectSources)
<1>1. MakeInv => (ReadAsMeant /\ KnownToAuthor => RunsCorrectSources)
  <2> SUFFICES ASSUME MakeInv, ReadAsMeant, KnownToAuthor, make \in {"emulate", "stopped"}
               PROVE  RunsCorrectSources
    BY DEF RunsCorrectSources
  <2>1. src = Meant /\ AsmP!Judged(src, phase)
    BY Handed
  <2>2. /\ AsmP!Correct(src) <=> Text!Correct(Meant)
        /\ AsmP!SizeWithin(src, UINT16_MAX) <=> Text!SizeWithin(Meant, UINT16_MAX)
    BY <2>1, SameMeaning
  <2>3. CASE make = "emulate"
    BY <2>1, <2>2, <2>3 DEF MakeInv, AsmP!Judged, KnownToAuthor, RunsCorrectSources
  <2>4. CASE make = "stopped"
    <3>1. phase \in {"failed", "unopened", "crash", "wild"}
      BY <2>4 DEF MakeInv
    <3>2. Len(src) # MAX_LINES
      BY <2>1, ToolchainAssumption DEF KnownToAuthor, ToolchainAssumption
    <3> QED
      BY <2>1, <2>2, <2>4, <3>1, <3>2 DEF AsmP!Judged, KnownToAuthor, RunsCorrectSources
  <2> QED
    BY <2>3, <2>4
<1> QED
  BY <1>1, AlwaysMake, PTL

-----------------------------------------------------------------------------
(* The two programs together are a linker.                                 *)

(* The words the table lists are those the loader moves, and no two touch. *)
LEMMA RelocsListed ==
  ASSUME file \in Seq(Nat), NEW rel \in Seq(Nat), NEW entry \in Nat, NEW size \in Nat,
         AsmP!Loads(file, rel, entry, size)
  PROVE  /\ Load!Relocs = {rel[k] : k \in DOMAIN rel}
         /\ \A r \in Load!Relocs : r \in Nat /\ r + 2 <= size /\ r + 1 \notin Load!Relocs
<1>1. PICK n \in Nat, start \in Nat : n = Len(rel) /\ start = 8 + 2 * n /\ DOMAIN rel = 1 .. n
  OBVIOUS
<1>2. /\ Load!RelocCount = n
      /\ \A k \in 0 .. n - 1 : Load!Rloc(k) = rel[k + 1] /\ k + 1 \in 1 .. n
  BY <1>1, LoadsFields
<1>3. Load!Relocs = {rel[k] : k \in 1 .. n}
  <2>1. ASSUME NEW k \in 1 .. n
        PROVE  rel[k] \in Load!Relocs
    <3>1. k - 1 \in 0 .. n - 1 /\ (k - 1) + 1 = k
      OBVIOUS
    <3>2. Load!Rloc(k - 1) = rel[k]
      BY <1>2, <3>1
    <3> QED
      BY <1>2, <3>1, <3>2 DEF Load!Relocs
  <2> QED
    BY <1>2, <2>1 DEF Load!Relocs
<1>4. /\ \A k \in 1 .. n : rel[k] \in Nat /\ rel[k] + 2 <= size
      /\ \A h, k \in 1 .. n : h < k => rel[h] + 2 <= rel[k]
  BY <1>1 DEF AsmP!Loads, AsmP!Spaced
<1>5. ASSUME NEW h \in 1 .. n, NEW k \in 1 .. n
      PROVE  rel[h] + 1 # rel[k]
  <2>1. PICK q \in Nat, r \in Nat : q = rel[h] /\ r = rel[k]
    BY <1>4
  <2>2. h < k => q + 2 <= r
    BY <1>4, <2>1
  <2>3. k < h => r + 2 <= q
    BY <1>4, <2>1
  <2>4. h = k => q = r
    BY <2>1
  <2>5. q + 1 # r
    BY <2>2, <2>3, <2>4
  <2> QED
    BY <2>1, <2>5
<1> QED
  BY <1>1, <1>3, <1>4, <1>5

(* What the loader is given and what the words it moves mean.              *)
Linking(rel, code, size, start) ==
  /\ file \in Seq(Nat) /\ rel \in Seq(Nat) /\ code \in Seq(Nat) /\ size \in Nat /\ start \in Nat
  /\ \E entry \in Nat : AsmP!Loads(file, rel, entry, size)
  /\ start = 8 + 2 * Len(rel) /\ Len(code) = size
  /\ AsmP!Carries(file, start, code)

(* The image is inside the memory, so no address in it wraps.              *)
LEMMA LinkedInside ==
  ASSUME Bin!LoaderInv, load = "exec", Load!WellFormed,
         NEW rel, NEW code, NEW size, NEW start, Linking(rel, code, size, start)
  PROVE  /\ Load!CodeOffset = start /\ Len(file) = start + size
         /\ Load!Address(start) \in Nat /\ Load!Address(start) + size < 65536
<1>1. PICK entry \in Nat :
        AsmP!Loads(file, rel, entry, size) /\ file \in Seq(Nat) /\ rel \in Seq(Nat) /\ size \in Nat /\ start \in Nat
        /\ start = 8 + 2 * Len(rel)
  BY DEF Linking
<1>2. Load!CodeOffset = start /\ Len(file) = start + size
  BY <1>1, LoadsFields
<1>3. Bin!Address(Len(file)) <= MEMORY_SIZE
  BY BinWellFormed DEF Bin!LoaderInv, Bin!Image, Bin!Fitting
<1>4. MEMORY_MAPPED_IO_REGION_SIZE \in Nat /\ MEMORY_SIZE \in Nat /\ MEMORY_SIZE < 65536
  BY BinAssumption DEF Bin!LoaderAssumption
<1>5. MEMORY_MAPPED_IO_REGION_SIZE + (start + size) <= MEMORY_SIZE
  BY <1>2, <1>3 DEF Bin!Address
<1> QED
  BY <1>1, <1>2, <1>4, <1>5 DEF Load!Address

(* A byte of the code is in its place, unless the loader has moved it.     *)
LEMMA ByteInPlace ==
  ASSUME Bin!LoaderInv, load = "exec", Load!WellFormed,
         NEW rel, NEW code, NEW size, NEW start, Linking(rel, code, size, start),
         NEW q \in Nat, q < size
  PROVE  mem[Load!Address(start) + q] =
           IF q \in Load!Relocs THEN Load!Moved(start + q) % 256
           ELSE IF q - 1 \in Load!Relocs THEN Load!Moved(start + (q - 1)) \div 256
           ELSE code[q + 1]
<1>1. /\ Load!CodeOffset = start /\ Len(file) = start + size /\ size \in Nat /\ start \in Nat
      /\ code \in Seq(Nat) /\ Len(code) = size /\ AsmP!Carries(file, start, code)
  <2>1. Load!CodeOffset = start /\ Len(file) = start + size
    BY LinkedInside
  <2> QED
    BY <2>1 DEF Linking
<1>2. MEMORY_MAPPED_IO_REGION_SIZE \in Nat
  BY BinAssumption DEF Bin!LoaderAssumption
<1>3. PICK a \in Nat : a = Load!Address(start) + q
  BY <1>1, <1>2 DEF Load!Address
<1>4. a \in CodeAddresses /\ a - MEMORY_MAPPED_IO_REGION_SIZE = start + q
  BY <1>1, <1>2, <1>3 DEF CodeAddresses, Load!Address
<1>5. mem[a] = Loaded(a)
  BY <1>4, CodeInPlace
<1>6. (start + q) - start = q /\ (start + q) - 1 = start + (q - 1) /\ start + (q + 1) = (start + q) + 1
      /\ q + 1 \in 1 .. size
  BY <1>1
<1>7. file[(start + q) + 1] = code[q + 1]
  BY <1>1, <1>6 DEF AsmP!Carries
<1> QED
  BY <1>1, <1>3, <1>4, <1>5, <1>6, <1>7 DEF Loaded

LEMMA SumFits ==
  ASSUME NEW a \in Nat, NEW b \in Nat, NEW n \in Nat, a <= n, b + n < 65536
  PROVE  /\ (a + b) % 65536 = a + b
         /\ ((a + b) % 256) + 256 * ((a + b) \div 256) = a + b
OBVIOUS

(* A reference has become the address of what it refers to.                *)
LEMMA ReferenceInPlace ==
  ASSUME Bin!LoaderInv, load = "exec", Load!WellFormed,
         NEW rel, NEW code, NEW size, NEW start, Linking(rel, code, size, start),
         NEW r \in Nat, NEW v \in Nat, AsmP!Lists(rel, r), AsmP!Holds(code, r, v), v <= size
  PROVE  Load!word(Load!Address(start) + r) = Load!Address(start) + v
<1>1. PICK entry \in Nat :
        /\ AsmP!Loads(file, rel, entry, size) /\ file \in Seq(Nat) /\ rel \in Seq(Nat) /\ size \in Nat
        /\ start \in Nat /\ code \in Seq(Nat) /\ AsmP!Carries(file, start, code)
  BY DEF Linking
<1>2. r \in Load!Relocs /\ r + 2 <= size /\ r + 1 \notin Load!Relocs
  BY <1>1, RelocsListed DEF AsmP!Lists
<1>3. PICK base \in Nat : base = Load!Address(start) /\ base + size < 65536 /\ Load!CodeOffset = start
  BY LinkedInside
<1>4. /\ (v + base) % 65536 = v + base
      /\ ((v + base) % 256) + 256 * ((v + base) \div 256) = v + base
  <2>1. PICK n \in Nat : n = size
    BY <1>1
  <2>2. v <= n /\ base + n < 65536
    BY <1>3, <2>1
  <2> QED
    BY <2>2, SumFits
<1>5. AsmP!Holds(file, start + r, v)
  BY <1>1, AsmAssumption, AsmP!CarriesWord
<1>6. start + r \in Nat /\ (r + 1) - 1 = r /\ r + 1 \in Nat /\ r < size /\ r + 1 < size
      /\ (base + r) + 1 = base + (r + 1)
  BY <1>1, <1>2, <1>3
<1>7. Load!field(start + r) = v
  BY <1>1, <1>5, <1>6, FieldHeld
<1>8. Load!Moved(start + r) = v + base
  <2>1. (v + base) % 65536 = v + base
    BY <1>4
  <2>2. Load!Moved(start + r) = (Load!field(start + r) + Load!Address(Load!CodeOffset)) % 65536
    BY DEF Load!Moved
  <2>3. Load!Address(Load!CodeOffset) = base
    BY <1>3
  <2>4. Load!field(start + r) + Load!Address(Load!CodeOffset) = v + base
    BY <1>7, <2>3
  <2> QED
    BY <2>1, <2>2, <2>4
<1>9. mem[base + r] = (v + base) % 256
  BY <1>2, <1>3, <1>6, <1>8, ByteInPlace
<1>10. mem[base + (r + 1)] = (v + base) \div 256
  <2>1. mem[base + (r + 1)] = Load!Moved(start + ((r + 1) - 1)) \div 256
    BY <1>2, <1>3, <1>6, ByteInPlace
  <2> QED
    BY <1>6, <1>8, <2>1
<1>11. ((v + base) % 256) + 256 * ((v + base) \div 256) = v + base
  BY <1>4
<1>12. Load!word(base + r) = v + base
  <2>1. Load!word(base + r) = mem[base + r] + 256 * mem[(base + r) + 1]
    BY DEF Load!word
  <2>2. mem[(base + r) + 1] = (v + base) \div 256
    BY <1>6, <1>10
  <2> QED
    BY <1>9, <1>11, <2>1, <2>2
<1> QED
  BY <1>3, <1>12

LEMMA LinkedByParts ==
  ASSUME MakeInv, ReadAsMeant, Whole, Bin!LoaderInv, load = "exec"
  PROVE  Linked
<1>1. /\ src \in Seq(Seq(AsmP!Words)) /\ AsmP!Laid(src) /\ AsmP!Correct(src)
      /\ file \in Seq(Nat) /\ file = AsmP!ExecutableOf(src)
  BY WholeFile
<1>2. Load!WellFormed
  BY WholeLoadable
<1>3. PICK rel \in Seq(Nat), entry \in Nat, size \in Nat :
        /\ rel = AsmP!RelocationsOf(src) /\ entry = AsmP!Meaning(src, "main")
        /\ size = AsmP!Offset(src, Len(src) + 1) /\ AsmP!Loads(file, rel, entry, size)
  BY <1>1, AsmAssumption, AsmP!ExecutableLoads
<1>4. PICK code \in Seq(Nat) :
        code = AsmP!CodeOf(src) /\ Len(code) = size /\ AsmP!Carries(file, 8 + 2 * Len(rel), code)
  BY <1>1, <1>3, AsmAssumption, AsmP!ExecutableCode
<1>5. PICK start \in Nat : start = 8 + 2 * Len(rel)
  OBVIOUS
<1>6. Linking(rel, code, size, start)
  BY <1>1, <1>3, <1>4, <1>5 DEF Linking
<1>7. PICK base \in Nat : base = Load!Address(start)
  BY <1>2, <1>6, LinkedInside
<1>8. base = Load!Address(Text!HEADER + 2 * Len(Text!RelocationsOf(src)))
  BY <1>3, <1>5, <1>7, SameMeaning DEF Text!HEADER
<1>9. pc = base + Text!Meaning(src, "main")
  <2>1. pc = Load!Address(start + entry)
    BY <1>1, <1>2, <1>3, <1>5, CodeInPlace, LoadsFields
  <2>2. Load!Address(start + entry) = base + entry
    BY <1>3, <1>5, <1>7, BinAssumption DEF Load!Address, Bin!LoaderAssumption
  <2> QED
    BY <1>3, <2>1, <2>2, SameMeaning
<1>10. Load!Relocs = {rel[k] : k \in DOMAIN rel}
  BY <1>1, <1>3, RelocsListed
<1>11. ASSUME NEW k \in DOMAIN code, {k - 1, k - 2} \cap {rel[q] : q \in DOMAIN rel} = {}
       PROVE  mem[base + k - 1] = code[k]
  <2>1. PICK q \in Nat : q = k - 1 /\ q < size /\ q + 1 = k /\ q - 1 = k - 2 /\ base + k - 1 = base + q
    <3>1. PICK m \in Nat, b \in Nat : m = size /\ b = base /\ k \in 1 .. m
      BY <1>3, <1>4, <1>7
    <3>2. PICK q \in Nat : q = k - 1
      BY <3>1
    <3>3. q < m /\ q + 1 = k /\ q - 1 = k - 2 /\ b + k - 1 = b + q
      BY <3>1, <3>2
    <3> QED
      BY <3>1, <3>2, <3>3
  <2>2. q \notin Load!Relocs /\ q - 1 \notin Load!Relocs
    BY <1>10, <1>11, <2>1
  <2>3. mem[base + q] = code[q + 1]
    BY <1>2, <1>6, <1>7, <2>1, <2>2, ByteInPlace
  <2> QED
    BY <2>1, <2>3
<1>12. ASSUME NEW n \in DOMAIN src, Text!IsCode(src[n]), ~Text!IsStr(src[n]),
              NEW k \in DOMAIN Text!Operands(src[n]), Text!Operands(src[n])[k].kind = "ref"
       PROVE  Load!word(base + Text!Offset(src, n) + 1 + Text!Widths(Text!Operands(src[n]), k - 1)) =
                base + Text!Meaning(src, Text!Operands(src[n])[k].val)
  <2>1. AsmP!Addressed(src)
    <3>1. AsmP!SizeWithin(src, UINT16_MAX)
      BY Handed DEF MakeInv, AsmP!Judged, Whole
    <3> QED
      BY <1>1, <3>1, SizeHalfword, AsmAssumption, AsmP!FitsAddressed
  <2>2. PICK x \in Nat, w \in Nat, v \in Nat :
          /\ x = AsmP!Offset(src, n) /\ w = AsmP!Widths(AsmP!Operands(src[n]), k - 1)
          /\ v = AsmP!Meaning(src, AsmP!Operands(src[n])[k].val) /\ v <= size
          /\ AsmP!Lists(rel, x + 1 + w) /\ AsmP!Holds(code, x + 1 + w, v)
    <3>1. n \in 1 .. Len(src) /\ AsmP!IsCode(src[n]) /\ ~AsmP!IsStr(src[n])
          /\ k \in DOMAIN AsmP!Operands(src[n]) /\ AsmP!Operands(src[n])[k].kind = "ref"
      BY <1>1, <1>12, TextWords
    <3>2. AsmP!Refers(src, n, k)
      BY <1>1, <2>1, <3>1, AsmAssumption, AsmP!ReferenceMeant
    <3> QED
      BY <1>3, <1>4, <3>2 DEF AsmP!Refers
  <2>3. PICK r \in Nat : r = x + 1 + w /\ base + x + 1 + w = base + r
    BY <1>7
  <2>4. Load!word(base + r) = base + v
    BY <1>2, <1>6, <1>7, <2>2, <2>3, ReferenceInPlace
  <2>5. /\ x = Text!Offset(src, n) /\ w = Text!Widths(Text!Operands(src[n]), k - 1)
        /\ v = Text!Meaning(src, Text!Operands(src[n])[k].val)
    BY <2>2, SameMeaning, TextWords, TextWidths
  <2> QED
    BY <2>3, <2>4, <2>5
<1>13. code = Text!CodeOf(src) /\ rel = Text!RelocationsOf(src)
  BY <1>3, <1>4, SameMeaning
<1> QED
  BY <1>8, <1>9, <1>11, <1>12, <1>13 DEF Linked

LEMMA LinkedByPartsNext ==
  (MakeInv /\ ReadAsMeant /\ Whole /\ Bin!LoaderInv /\ load = "exec" => Linked)'
BY LinkedByParts, PTL

-----------------------------------------------------------------------------
(* The emulator that make starts. Until then nothing has happened in it;   *)
(* from then on it is the system of the sections above on a file of bytes. *)
EmulatorInv ==
  /\ make # "emulate" => load = "open"
  /\ make # "emulate" \/ file \in Seq(Byte) => SystemInv

LEMMA InitEmulator == InitT => EmulatorInv
BY InitSystem DEF InitT, InitS, Load!Init, EmulatorInv

(* What binload has not opened yet may be any file of bytes.               *)
LEMMA FileGiven ==
  ASSUME SystemInv, load = "open", file' \in Seq(Byte),
         UNCHANGED <<vars, initialised, argv, i, main, offset, rloc, load>>
  PROVE  SystemInv'
<1>1. TypeOK' /\ Dev!DevicesInv'
  BY DevStays DEF SystemInv, TypeOK, vars
<1>2. Bin!LoaderType /\ Bin!Untouched
  BY DEF SystemInv, Bin!LoaderInv
<1>3. UNCHANGED <<mem, offset, rloc, pc, load>>
  BY DEF vars
<1>4. Bin!LoaderInv'
  BY <1>2, <1>3 DEF Bin!LoaderInv, Bin!LoaderType, Bin!Untouched
<1> QED
  BY <1>1, <1>4 DEF SystemInv

LEMMA NextEmulator == EmulatorInv /\ [NextT]_varsT => EmulatorInv'
<1> SUFFICES ASSUME EmulatorInv, [NextT]_varsT PROVE EmulatorInv'
  OBVIOUS
<1>1. ASSUME UNCHANGED varsS, make' = make \/ (make' # "emulate" /\ make # "emulate")
      PROVE  EmulatorInv'
  <2>1. SystemInv => SystemInv'
    BY <1>1, NextSystem
  <2>2. file' = file /\ load' = load
    BY <1>1 DEF varsS, loading
  <2> QED
    BY <1>1, <2>1, <2>2 DEF EmulatorInv
<1>2. CASE read_file
  BY <1>1, <1>2 DEF read_file
<1>3. CASE Assemble
  BY <1>1, <1>3 DEF Assemble
<1>4. CASE main_assembler
  BY <1>1, <1>4 DEF main_assembler
<1>5. CASE Emulate
  <2>1. /\ make = "assemble" /\ make' = "emulate" /\ load' = load
        /\ UNCHANGED <<vars, initialised, argv, i, main, offset, rloc, load>>
    BY <1>5 DEF Emulate
  <2>2. SystemInv /\ load = "open"
    BY <2>1 DEF EmulatorInv
  <2> QED
    BY <2>1, <2>2, FileGiven DEF EmulatorInv
<1>6. CASE Stop
  BY <1>1, <1>6 DEF Stop
<1>7. CASE main_emulator
  <2>1. make = "emulate" /\ make' = "emulate" /\ NextS /\ file' = file
    BY <1>7, FileStays DEF main_emulator
  <2> QED
    BY <2>1, NextSystem DEF EmulatorInv
<1>8. CASE UNCHANGED varsT
  <2>1. UNCHANGED varsS /\ make' = make
    BY <1>8 DEF varsT
  <2> QED
    BY <1>1, <2>1
<1> QED
  BY <1>2, <1>3, <1>4, <1>5, <1>6, <1>7, <1>8 DEF NextT

LEMMA AlwaysEmulator == SpecT => []EmulatorInv
BY InitEmulator, NextEmulator, PTL DEF SpecT

LEMMA EmulatorSystem ==
  ASSUME MakeInv, EmulatorInv, ReadAsMeant
  PROVE  SystemInv
BY HandedOverBytes DEF EmulatorInv

(* In the emulator that make starts, registers and memory stay bytes and   *)
(* slot 0 never has a device, whatever the source makes the program do.    *)
THEOREM EmulatorTyped == SpecT => [](ReadAsMeant => TypeOK)
<1>1. MakeInv /\ EmulatorInv => (ReadAsMeant => TypeOK)
  BY EmulatorSystem DEF SystemInv
<1> QED
  BY <1>1, AlwaysMake, AlwaysEmulator, PTL

(* A binary that the assembler has written to its end, of a source with    *)
(* code behind its main, never makes binload leave the memory.             *)
THEOREM EmulatorStaysInside ==
  SpecT => [](ReadAsMeant /\ Whole => load # "wild")
<1>1. MakeInv /\ EmulatorInv => (ReadAsMeant /\ Whole => load # "wild")
  <2> SUFFICES ASSUME MakeInv, EmulatorInv, ReadAsMeant, Whole PROVE load # "wild"
    OBVIOUS
  <2>1. Load!WellFormed
    BY WholeLoadable
  <2>2. load = "wild" => ~Bin!WellFormed
    BY EmulatorSystem DEF SystemInv, Bin!LoaderInv
  <2> QED
    BY <2>1, <2>2, BinWellFormed
<1> QED
  BY <1>1, AlwaysMake, AlwaysEmulator, PTL

(* The step with which make's emulator starts its core.                    *)
LEMMA EmulatorStarts ==
  ASSUME MakeInv, EmulatorInv, ReadAsMeant, [NextT]_varsT, load # "exec", load' = "exec"
  PROVE  Started' /\ make' = "emulate" /\ UNCHANGED <<make, file, source>>
<1>1. make = "emulate" /\ main_emulator /\ binload
  <2>1. ASSUME UNCHANGED varsS PROVE FALSE
    BY <2>1 DEF varsS, loading
  <2>2. ~(read_file \/ Assemble \/ main_assembler \/ Stop)
    BY <2>1 DEF read_file, Assemble, main_assembler, Stop
  <2>3. ~Emulate
    BY DEF Emulate
  <2>4. ~UNCHANGED varsT
    BY <2>1 DEF varsT
  <2>5. main_emulator /\ make = "emulate" /\ NextS
    BY <2>2, <2>3, <2>4 DEF NextT, main_emulator
  <2> QED
    BY <2>5 DEF NextS, Arguments, cpu_exec_core
<1>2. SystemInv' /\ Bin!LoaderInv'
  BY <1>1, EmulatorSystem, binloadInv
<1>3. make' = make /\ file' = file /\ source' = source
  BY <1>1, FileStays DEF main_emulator, reader
<1> QED
  BY <1>1, <1>2, <1>3 DEF SystemInv, binload, Started

(* The core that make starts finds what the command line asks for and the  *)
(* assembler's binary says.                                                *)
THEOREM EmulatorStartsPrepared == SpecT /\ []ReadAsMeant => PreparedStart
<1>1. MakeInv /\ EmulatorInv /\ ReadAsMeant /\ [NextT]_varsT
        => [load # "exec" /\ load' = "exec" => Started']_varsS
  BY EmulatorStarts
<1> QED
  BY <1>1, PreparedByParts, AlwaysMake, AlwaysEmulator, PTL DEF SpecT, PreparedStart

(* The assembler and binload together are a linker: when the core starts   *)
(* on a whole binary, the code of the author's words is in memory at one   *)
(* address, every reference to a label is the address of the code behind   *)
(* it, and the core is at main.                                            *)
THEOREM EmulatorStartsLinked == SpecT /\ []ReadAsMeant => StartsLinked
<1>1. UNCHANGED <<make, file, source>> => Whole' = Whole
  BY DEF Whole, MeantBinary, Meant
<1>2. MakeInv /\ EmulatorInv /\ ReadAsMeant /\ [NextT]_varsT /\ MakeInv' /\ ReadAsMeant'
        => [load # "exec" /\ load' = "exec" /\ Whole => Linked']_varsT
  <2> SUFFICES ASSUME MakeInv, EmulatorInv, ReadAsMeant, [NextT]_varsT, MakeInv', ReadAsMeant',
                      load # "exec", load' = "exec", Whole
               PROVE  Linked'
    OBVIOUS
  <2>1. Started' /\ UNCHANGED <<make, file, source>>
    BY EmulatorStarts
  <2>2. Bin!LoaderInv' /\ (load = "exec")'
    BY <2>1 DEF Started
  <2> QED
    BY <1>1, <2>1, <2>2, LinkedByPartsNext
<1> QED
  BY <1>2, AlwaysMake, AlwaysEmulator, PTL DEF SpecT, StartsLinked

-----------------------------------------------------------------------------
(* The author's part: a text that somebody has written to mean these       *)
(* words, in lines that fit and not more of them than there is room for,   *)
(* and words that keep to the layout the passes agree on.                  *)
Readable ==
  /\ Reader!Authored /\ Reader!Fits
  /\ Len(source.meant) <= MAX_LINES
  /\ \A n \in DOMAIN Meant : \A k \in DOMAIN Meant[n] : IsWord(Meant[n][k])
  /\ Text!Plain(Meant)

LEMMA SameWritings == Reader!Writings = ReadP!Writings
<1>1. Reader!WrittenWords = ReadP!WrittenWords
  BY Zenon DEF Reader!WrittenWords, ReadP!WrittenWords, Reader!Space, ReadP!Space, Reader!Newline, ReadP!Newline,
         Reader!Quote, ReadP!Quote, Reader!Nul, ReadP!Nul, Reader!Contains, ReadP!Contains
<1>2. Reader!WrittenLines = ReadP!WrittenLines
  BY <1>1, Zenon DEF Reader!WrittenLines, ReadP!WrittenLines, Reader!Space, ReadP!Space, Reader!Newline, ReadP!Newline
<1> QED
  BY <1>2, Zenon DEF Reader!Writings, ReadP!Writings, Reader!Newline, ReadP!Newline, Reader!Last, ReadP!Last

LEMMA SameFlattened == \A s : Reader!FlattenSeq(s) = ReadP!FlattenSeq(s)
BY Zenon DEF Reader!FlattenSeq, ReadP!FlattenSeq

LEMMA SameText == \A ls : Reader!TextOf(ls) = ReadP!TextOf(ls) /\ Reader!MeantBy(ls) = ReadP!MeantBy(ls)
<1>1. \A c : Reader!Spelled(c) = ReadP!Spelled(c)
  BY Zenon DEF Reader!Spelled, ReadP!Spelled, Reader!Newline, ReadP!Newline, Reader!Quote, ReadP!Quote,
         Reader!Escape, ReadP!Escape
<1>2. \A w : Reader!InQuotes(w) = ReadP!InQuotes(w)
  <2> TAKE w
  <2>1. [k \in DOMAIN w |-> Reader!Spelled(w[k])] = [k \in DOMAIN w |-> ReadP!Spelled(w[k])]
    BY <1>1
  <2> QED
    BY <2>1, SameFlattened, Zenon DEF Reader!InQuotes, ReadP!InQuotes, Reader!Quote, ReadP!Quote
<1>3. \A l : Reader!LineText(l) = ReadP!LineText(l)
  BY <1>2, SameFlattened DEF Reader!LineText, ReadP!LineText
<1>4. \A ls : Reader!TextOf(ls) = ReadP!TextOf(ls)
  BY <1>3, SameFlattened DEF Reader!TextOf, ReadP!TextOf
<1>5. \A ls : Reader!MeantBy(ls) = ReadP!MeantBy(ls)
  BY Zenon DEF Reader!MeantBy, ReadP!MeantBy
<1> QED
  BY <1>4, <1>5

LEMMA SameAuthor ==
  /\ Reader!Authored <=> ReadP!Authored
  /\ Reader!Fits <=> ReadP!Fits
  /\ \A s, n : Reader!First(s, n) = ReadP!First(s, n)
<1>1. Reader!Authored <=> ReadP!Authored
  BY SameWritings, SameText, Zenon DEF Reader!Authored, ReadP!Authored, Reader!text, ReadP!text
<1>2. Reader!Fits <=> ReadP!Fits
  BY DEF Reader!Fits, ReadP!Fits, Reader!Breaks, ReadP!Breaks, Reader!text, ReadP!text, Reader!Newline, ReadP!Newline
<1>3. \A s, n : Reader!First(s, n) = ReadP!First(s, n)
  BY DEF Reader!First, ReadP!First
<1> QED
  BY <1>1, <1>2, <1>3

(* The assembler does not start before the file has been read.             *)
AuthorMakeInv ==
  /\ ReadP!AuthorInv
  /\ make # "read" => reading = "read"

LEMMA InitAuthor == InitT => AuthorMakeInv
<1> SUFFICES ASSUME InitT PROVE AuthorMakeInv
  OBVIOUS
<1>1. ReadP!AuthorInv
  BY ReadAssumption, ReaderInit, ReadP!InitFollows DEF InitT
<1> QED
  BY <1>1 DEF InitT, AuthorMakeInv

LEMMA NextAuthor == MakeInv /\ AuthorMakeInv /\ [NextT]_varsT => AuthorMakeInv' /\ source' = source
<1> SUFFICES ASSUME MakeInv, AuthorMakeInv, [NextT]_varsT
             PROVE  AuthorMakeInv' /\ source' = source
  OBVIOUS
<1>1. ASSUME UNCHANGED reader, make' = "read" \/ reading = "read"
      PROVE  AuthorMakeInv' /\ source' = source
  <2>1. UNCHANGED ReadP!varsR /\ source' = source /\ reading' = reading
    BY <1>1 DEF reader, ReadP!varsR
  <2>2. ReadP!AuthorInv'
    BY <2>1, ReadAssumption, ReadP!NextFollows DEF MakeInv, AuthorMakeInv
  <2> QED
    BY <1>1, <2>1, <2>2 DEF AuthorMakeInv
<1>2. CASE read_file
  <2>1. make' = "read" /\ ReadP!Next
    BY <1>2, ReaderNext DEF read_file
  <2>2. ReadP!AuthorInv'
    BY <2>1, ReadAssumption, ReadP!NextFollows DEF MakeInv, AuthorMakeInv
  <2>3. source' = source
    BY <2>1 DEF ReadP!Next, ReadP!Fgets, ReadP!EndOfFile, ReadP!EndLine, ReadP!SkipSpace, ReadP!StartWord,
           ReadP!Bare, ReadP!Quoted, ReadP!Escaped, ReadP!EndWord
  <2> QED
    BY <2>1, <2>2, <2>3 DEF AuthorMakeInv
<1>3. CASE Assemble
  BY <1>1, <1>3 DEF Assemble
<1>4. CASE main_assembler
  BY <1>1, <1>4 DEF main_assembler, AuthorMakeInv
<1>5. CASE Emulate
  BY <1>1, <1>5 DEF Emulate, AuthorMakeInv
<1>6. CASE Stop
  BY <1>1, <1>6 DEF Stop, AuthorMakeInv
<1>7. CASE main_emulator
  BY <1>1, <1>7 DEF main_emulator, AuthorMakeInv
<1>8. CASE UNCHANGED varsT
  BY <1>1, <1>8 DEF varsT, AuthorMakeInv
<1> QED
  BY <1>2, <1>3, <1>4, <1>5, <1>6, <1>7, <1>8 DEF NextT

LEMMA WrittenAsMeant ==
  ASSUME MakeInv, AuthorMakeInv, Readable
  PROVE  ReadAsMeant
<1> SUFFICES ASSUME make # "read" PROVE src = Meant
  BY DEF ReadAsMeant, Readable
<1>1. ReadP!Authored /\ ReadP!Fits
  BY SameAuthor DEF Readable
<1>2. source.meant \in Seq(Seq(ReadP!Text))
  <2>1. PICK ls \in ReadP!Writings : source.meant = ReadP!MeantBy(ls)
    BY <1>1 DEF ReadP!Authored
  <2> QED
    BY <2>1, ReadAssumption, ReadP!MeantLines
<1>3. raw = [n \in DOMAIN ReadP!First(source.meant, MAX_LINES) |-> ReadP!First(source.meant[n], MAX_WORDS)]
  BY <1>1, ReadAssumption, ReadP!ReadThrough DEF MakeInv, AuthorMakeInv
<1>4. DOMAIN ReadP!First(source.meant, MAX_LINES) = DOMAIN source.meant
  <2>1. PICK m \in Seq(Seq(ReadP!Text)) : m = source.meant /\ Len(m) <= MAX_LINES
    BY <1>2 DEF Readable
  <2>2. MAX_LINES \in Nat
    BY ToolchainAssumption DEF ToolchainAssumption
  <2>3. ReadP!First(m, MAX_LINES) = SubSeq(m, 1, Len(m))
    BY <2>1, <2>2 DEF ReadP!First
  <2>4. DOMAIN SubSeq(m, 1, Len(m)) = DOMAIN m
    OBVIOUS
  <2> QED
    BY <2>1, <2>3, <2>4
<1>5. raw = [n \in DOMAIN source.meant |-> Reader!First(source.meant[n], MAX_WORDS)]
  BY <1>3, <1>4, SameAuthor
<1> QED
  BY <1>5 DEF Meant, MakeInv

LEMMA AlwaysAuthor == SpecT => []AuthorMakeInv
BY InitMake, NextMake, InitAuthor, NextAuthor, PTL DEF SpecT

(* What somebody writes is what the assembler starts on: the words of the  *)
(* text, whatever gaps, quotes and escapes they are written with.          *)
THEOREM WrittenArrives == SpecT => [](Readable => ReadAsMeant)
BY WrittenAsMeant, AlwaysMake, AlwaysAuthor, PTL

LEMMA ReadableStays == source' = source /\ Readable => Readable'
BY DEF Readable, Meant, Reader!Authored, Reader!Fits, Reader!Breaks, Reader!text

(* From the author's text to the running program: whatever has been in the *)
(* binary's place and whatever fails, make starts the emulator on nothing  *)
(* but what the text means or its beginning, and never if the author knows *)
(* of a mistake; a whole binary is loaded inside the memory, and the core  *)
(* starts on it linked and prepared.                                       *)
THEOREM WrittenRuns ==
  SpecT /\ Readable =>
    /\ [](ReadAsMeant /\ NothingStale /\ HandsOverLoadable /\ TypeOK)
    /\ [](KnownToAuthor => RunsCorrectSources) /\ [](Whole => load # "wild")
    /\ PreparedStart /\ StartsLinked
<1>1. SpecT /\ Readable => []ReadAsMeant
  <2>1. MakeInv /\ AuthorMakeInv /\ [NextT]_varsT /\ Readable => Readable'
    BY NextAuthor, ReadableStays
  <2> QED
    BY <2>1, WrittenAsMeant, AlwaysMake, AlwaysAuthor, PTL DEF SpecT
<1> QED
  BY <1>1, NothingIsStale, HandedOverLoadable, CorrectSourcesRun, EmulatorTyped, EmulatorStaysInside,
     EmulatorStartsPrepared, EmulatorStartsLinked, PTL
=============================================================================
