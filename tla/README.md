# Sean816: a verification project

Sean816 is an emulator of an 8-bit CPU with a 16-bit address space: a core with
thirty instructions, memory with memory-mapped I/O, devices loaded as shared
libraries, a loader for relocatable binaries, and an assembler that writes
those binaries. This directory holds TLA+ modules of these parts (section 6 lists
what they leave out), TLC configurations that check them on small instances, and
proofs that hold for every memory size, device map and program.

Paths below are relative to `src/`.

## 1. The system

| part | source | state | operations |
|---|---|---|---|
| CPU core | `cpu.c`, `CPU/*.c` | registers behind `regtable[]`, `pc`, `bp`, operand pointers `targ[]` | `cpu_create_core`, the loop of `cpu_exec_core`, thirty handlers |
| calling convention | `CPU/stack.c` | stack frames in memory, `sp`, `bp` | `CALL` and its conditional forms, `RET`, `PUSH`, `POP` |
| memory and I/O | `memory.c` | `mem[]`, `iomem[]`, the byte behind `mem` | `memory_read`, `memory_write` |
| devices | `Device/Serial`, `Device/Template` | the terminal; `some_device_value` | `device_read`, `device_write`, `device_init`, `device_offset` |
| command line, device loader | `main.c`, `device.c` | position in `argv`, the I/O table | the loop of `main`, `device_load_device` |
| binary loader | `ROM/loader.c`, `ROM/header.h` | `mem[]`, `offset`, turn of the relocation loop | `binload` |
| tokenizer | `Sean816Asm/code.c` | buffers for a line and a word, `raw[]` | `read_file` |
| assembler | `Sean816Asm/main.c` | label table, code, relocations, the output file | first pass, second pass, output |
| `make run` | `Makefile`, `Sean816Asm/Makefile` | the binary both programs name | assembler, then emulator |
| test programs | `Sean816Asm/test/` | | |
| MMU | `MMU/` | none | none: two constants |

`main` walks over its arguments and has `device_load_device` map each device
into `iomem`; then `binload` copies the binary behind the I/O window of `mem`,
relocates it in place, creates a core and runs it to its halt. The core reaches
devices through `memory_read` and `memory_write` only, but its fetch reads
`mem` directly. Everything is one thread; the one blocking call is the `read`
of the serial device. The assembler is a process of its own: `read_file` splits
the source into words, two passes make code of them, and the result meets the
emulator in the binary format (header, relocation table, code) and in the file
`make run` hands from one to the other.

What is hard here is not concurrency but aliasing and layout:

* operands are pointers: a register, or *the operand's own byte in the code*,
  so an instruction that assigns to an immediate rewrites the program;
* code, data, stack frames and devices share one address space with no check;
  `sp` can be addressed byte by byte; the byte behind `mem` can be written, and
  may be the flag of I/O slot 0;
* a frame is 14 bytes, pushed one by one and popped one by one, with a base
  pointer chain; a wrong order or width shows many calls later;
* the relocation loop reads its bounds and table from the memory it patches;
* devices overlap, fail in the middle of their list, or do not open;
* the assembler's passes walk over the source differently, and only counting
  keeps labels and code together; nothing checks the size of its tables;
* `read_file` scans lines with pointers into two fixed buffers, where quotes,
  escapes, long lines and zeros may end anywhere;
* removing, opening and writing the binary can fail, and an older binary is
  usually in its place.

What makes each part correct, in a sentence: registers and memory keep their
width and instructions compute what they should (core); a call comes back with
the caller's registers, stack and place (convention); mapped slots hide memory
and nothing else does (bus); the last claim to a slot wins and devices are
initialised in order (device loader); exactly the listed words are relocated,
inside memory (binary loader); a correct source becomes what it means and a
wrong one is rejected (assembler); words are read as they are meant and no
buffer is left (tokenizer); the emulator never runs anything but the source just
assembled (`make run`); the shipped test prints its text, its
numbers and the typed line, and halts (whole system).

## 2. Modules

```
Memory --> Cpu --> Calls --------> MCCalls     CallStack: abstract convention, INSTANCEd by Calls
            |---> MCCpu                        Devices --> MCDevices
            \---> System ---> MCTestProgram    Loader  --> MCLoader
                         \--> Toolchain --> MCToolchain      ReadFile --> MCReadFile
Encoding -> Assembly -> Assembler -> MCAssembler     (MCCpu and MCCalls use Encoding too)
            Assembly -> SourceText
            Assembly -> TestProgram (test.asm), used by MCTestProgram and MCAssembler
System INSTANCEs Devices and Loader; Toolchain INSTANCEs ReadFile, SourceText and Assembler

Proofs:  Cpu -> CpuProofs, Calls -> CallsProofs, Devices -> DevicesProofs, Loader -> LoaderProofs;
         SequenceFacts, ReadFile -> ReadFileProofs; SequenceFacts, Assembler -> AssemblerProofs;
         Toolchain, CpuProofs -> ToolchainProofs, which INSTANCEs DevicesProofs, LoaderProofs,
         ReadFileProofs and AssemblerProofs
```

* **Memory** - `mem`, `iomem`, `past` (the byte at `mem[MEMORY_SIZE]`), the two
  devices and the bus. `memory_write(w)` takes a function from addresses to
  bytes, because `CALL` writes fourteen of them in one instruction. An end of
  file leaves the destination as it was, as `read` does.
* **Cpu** - one action per turn of the loop of `cpu_exec_core`, named after the
  handler: fetch, operand gathering, the handler, the new `pc`. `targ(k)` is the
  operand pointer, `Assign` the store through it. `Halt` is an opcode without
  a handler. Where the C code's behaviour is undefined the step goes to the
  status `crash` (division by zero, NULL device function: the process is killed)
  or `wild` (beyond what the model follows: an access outside `mem`, index 0xFF
  of the 255-entry register table). `bp` starts with any value, as `malloc`
  leaves it. `sp` is two registers, as operands 0x1B and 0x1C see it.
* **CallStack** - the abstract specification: activations with registers and a
  private stack; calls suspend, returns resume. No memory, no `sp`, no `bp`.
* **Calls** - Cpu plus two history variables. `frames` records each frame as
  it was pushed; `kept` is true while the program respects rules that nothing
  in the core enforces (room on the stack, no pop below the frame, no return
  without a call, no store into the stack). The refinement mapping
  rebuilds activations from memory, `sp` and the frames.
* **Encoding**, **Assembly** - machine code of an instruction; words and lines
  of a source and what they *mean* (offsets, references, executable), written
  without passes: the reference the assembler is compared with.
* **ReadFile** - `read_file`, one turn of an inner loop per action: `fgets` takes
  as much of a line as fits, then words are skipped to, scanned and ended.
  `Taken`, `UpToNul` and `Behind` are the three places where a position can
  leave its buffer.
* **SourceText** - from the characters of a word to its kind in Assembly:
  mnemonics, registers, the forms of numbers, labels, references, remarks, and
  the bytes a string stands for.
* **Assembler** - the two passes, one word and one line per action, with their
  different ways past labels, remarks, blank lines and strings. `Overrun` and
  `OverrunFinal` are the tables written past their end; `Finish` is remove,
  open and write, each of which may fail or, the last, store a part only.
* **Devices**, **Loader** - `main`'s argument loop with `device_load_device`,
  one action per argument; `binload`, one action per turn of its loop.
* **System** - Devices, Loader and Cpu one after the other on one memory. A
  step of the system is a step of the component `main` is in.
* **Toolchain** - `make run`: ReadFile, then Assembler on its words, then, after
  exit status 0, System on what is in the file (`file' = out`). The two programs
  share nothing else.
* **TestProgram** - `test.asm` line by line and the text it is meant to print.
  `TestBin` is the binary that text means under Assembly; it equals, byte for
  byte, the 292 bytes the real assembler writes.

Data are abstracted where the control does not depend on them: a source line is
a sequence of words with a kind and a value, a path is a name. The `map` of
PROJECT.json gives for each definition the lines it stands for.

## 3. Runs

| run | checks | instance |
|---|---|---|
| `calls` | `FramesOrdered`, `FramesIntact`, `OnlyDivisionKills`, `AtInstruction`, `ImplementsConvention` | all programs of a family: main calls f, f runs two free instructions out of seventeen (calls, returns, pushes, pops, stores, writes to `sp`), g one |
| `cpu` | `TypeOK`, `LawsHold`, `BranchesFollowOrder`, `MappedSlotsShadow` | eleven algebraic laws and ten branches over boundary bytes, and all pairs of twenty-four instructions at the edges of memory, registers and devices |
| `accumulator` | `ResultInAccumulator` (violated) | sums in registers other than a |
| `devices` | `Verdict`, `LastClaimWins`, `InitialisedInOrder` | every command line of up to four words, every three devices before a binary |
| `devices_init` | `MappedIsInitialised` (violated) | the same |
| `loader` | `LoadsImage`, `NeverStrays` | 23 bytes of memory; well-formed and damaged binaries up to the one that fits exactly; short and failed reads |
| `assembler` | `AssemblesMeaning`, `Verdict` | `test.asm` itself, 5,200 sources of up to five lines drawn from 25, and 380 around the last line and the last byte |
| `labels` | `LabelsAligned` (violated) | listings with blank lines and strings |
| `read_file` | `ReadsWhatIsMeant`, `NothingLost`, `StaysInBuffers`, `EndsReading` | 19,774 files; three lines of three words, lines of eight characters |
| `test_program` | `PrintsBanner`, `PrintsLineBack`, `DevicesAnswer`, `ExecutesLoadedCode`, `PreparedStart`, `ReachesPrompt`, `HaltsAfterLine` | the whole emulator, real I/O window, 1 KiB of memory: `test.bin`, and a program for both devices with fifteen command lines |
| `long_line` | `PrintsLineBack` (violated) | the same with a line of 256 characters |
| `make` | `RunsCorrectSources`, `NothingStale`, `ReadAsMeant`, `HandsOverLoadable`, `StartsLinked`, `PrintsWhatIsWritten`, `MakeEnds` | eight source texts, real limits, real I/O window, output faults, an older binary |

**Bounds and why they are enough.**

* `calls`: the stack holds two frames and six bytes (`MCFloor`, `FRAME`), so
  three nested calls meet the limit, a `PUSH` can miss its room by a byte, and
  frames lie at every distance that a push in between can make. `Explored`
  stops behind the first broken rule, since nothing is promised from there on.
  `IoBehindMem` is true, the layout of a gcc build and the dangerous case.
* `cpu`: `Values` are the ends and the middle of the byte range with neighbours;
  in 80 bytes of memory every address in play (the end, the one behind, the far
  end of the 16-bit range) is reached by at least one edge program. `Bounded`
  cuts programs that loop after three turns.
* `devices`: four words hold an option, a path, an option without a path or a
  stray word in any order; three devices overlap in every way in three slots.
* `loader`: up to three relocations, among them ones that patch the header or
  the table, and addresses that wrap at 2^16.
* `assembler`: the limits are 121 lines and 292 bytes, the size of `test.asm` and
  of its binary, which just fit. `Rare` lines appear in front of, and behind, every
  pair of common ones. `Tall` sources are padded with blank lines until their
  label is in the last line of the array, or one behind it. In `Wide` sources a
  string brings code, relocations and header to within twenty bytes of the table
  or over it; `Wrapped` wraps offsets there, and in one of them `main` lies at the
  offset that stands for a missing one. That the real limits (1000 lines, 65535
  bytes) are larger changes no step: the sizes only occur in comparisons and, the
  second, as the modulus of offsets.
* `read_file`: eight characters hold a word of the full length, quoted or not,
  and every text of up to four characters of `Alphabet` meets the end of the
  buffer behind a prefix of four or five. `Written` are the files with a known
  meaning, two words to a line, with up to four of the shortest.
* `make`: the limits of the tokenizer are the real ones and the texts contain
  `meow.asm` and `helloworld.asm` letter by letter (the latter with `mov` for its
  `limm`), a string with quotes, a backslash and a semicolon, the other forms of
  operands, and four sources with a mistake each. The write may stop after any
  byte; the older binary is longer than all new ones. A program whose binary is
  cut short may print for ever; `ShortOutput` cuts it after twenty characters,
  and the properties promise nothing about its output.
* `test_program`: the program is the real one; the memory is 1 KiB rather than
  24, image, line buffer and stack being apart in both. `ShortLine` limits the
  typed line to three characters and wants the terminal to be open until
  something is typed; `LongLine` asks for exactly 256 characters. The program for
  both devices meets every sequence of up to three `-device` options: both orders,
  either twice, none.

**Deadlock** is off everywhere: a command ends, an assembler writes its file, a
core halts.

**Fairness.** `SpecS` has weak fairness of its next-state relation. The process is
one thread; a step is always either enabled or there is none for ever; the only
thing it waits for is a serial `read`, and `Inputs` always offers a byte or an end
of file. Weak fairness of the whole relation says the thread is scheduled, and
no more: which byte arrives is left open. `SpecT` adds make, which waits for its
commands, and the assembler and the tokenizer are single threads that wait for
nothing; that a write fails, or how much it stores, is not subject to fairness.
`HaltsAfterLine` promises a halt only once a newline has arrived. At end of file `fgets` in `test.asm` sees its last
character for ever (`Device/Serial/Device.c:54` stores nothing), which the model
has and no promise denies.

**What the properties say.** `FramesOrdered`: frames do not overlap and `bp`
heads the chain of calls. `FramesIntact`: frames are in memory byte by byte as
pushed. `OnlyDivisionKills`: no device slot only looks mapped. `AtInstruction`:
`pc` never falls between instructions. `ImplementsConvention`: refinement of
CallStack. `LawsHold`: values taken apart and put together in eleven ways
survive. `LastClaimWins`: the owner of a slot, computed from the command line
without walking over it. `LoadsImage`: memory behind `binload`, computed from
the file alone. `AssemblesMeaning`: the output file, computed from the source
without passes, for sources in the layout both passes agree on (`Plain`).
`InitialisedInOrder`: which devices are initialised, and in which order, computed
the same way. `MappedSlotsShadow`: no step of a program that stays out of the
I/O window changes the memory behind a mapped slot.
`ExecutesLoadedCode`: every byte executed is one `binload` put there.
`PreparedStart`: the step that starts the core leaves memory, I/O table and `pc`
as both loaders promise them, together.
`ReadsWhatIsMeant`: `raw[]`, against the words the file was spelled from, not
against a second tokenizer: `Writings` says what an author may write, line by line
(words with a gap in front, in quotes or not, and the space behind the last one), and
`TextOf` and `MeantBy` what a file then holds and means. `NothingLost`: no character disappears at a break of
`fgets`: `Printing` takes the spaces out of the text read so far. `StaysInBuffers`: lengths and
positions, the counts of words and lines included. `RunsCorrectSources`: the emulator is started on
correct sources and on no other. `NothingStale`: what it is given is the beginning
of the binary the source means, whatever was in the file and could not be
removed. `ReadAsMeant`: the assembler starts on exactly the words and lines the
author means, in the layout both passes agree on; the two properties before it
rest on it, and so do their proofs and those of the three that follow.
`HandsOverLoadable`: a binary that has not been cut short is `WellFormed`, what the loader's properties ask of a binary; the
format is written down twice, by the assembler that writes it and by the loader
that reads it. A `main` on the last line stands for an address behind the code, and
is left out (`Whole`). `StartsLinked`: assembler and `binload` together are a linker. When
the core starts on such a binary, the code of the author's words is at one address in
memory, the two bytes of each reference to a label are the address of the code behind
that label, and `pc` is the address of `main`; it is stated of words and memory, and
speaks of no pass, table or header. `PrintsWhatIsWritten`: the output of
a source's program, stated beside its text. `DevicesAnswer`: what a program finds
at the devices' addresses, computed from the command line.

## 4. Where code and text disagree

* `accumulator` - the manual says `ADD`, `SUB`, `MUL` and `DIV` leave their
  result in A; the handlers write the first operand.
* `devices_init` - an offset outside the window makes `device_load_device`
  return in the middle: the device is mapped in part, never initialised, and
  nobody is told.
* `long_line` - `fgets` of `test.asm` increments the low byte of its buffer
  address only; a line of 256 characters is not printed back.
* `labels` - the first pass promises not to misalign labels; a blank line behind
  a label, or a string that is not directly behind one, misaligns them.

Two more the runs show without a violation of their own: `write`'s result
(`Sean816Asm/main.c:411`) is not looked at, so that `NothingStale` can promise a
beginning of the binary only; and `helloworld.asm` uses `limm`, which the
assembler does not know, so that `make` counts it among the mistaken sources.

## 5. Proofs

Nothing below depends on a size: every theorem holds for all values of the
constants that satisfy the assumptions named with it.

| module | theorem | states |
|---|---|---|
| CpuProofs | `TypeCorrect` | `Spec => []TypeOK` |
| | `SlotsShadowMemory` | `Spec => MappedSlotsShadow` |
| CallsProofs | `FramesStayOrdered`, `FramesStayIntact`, `OnlyDivisionEverKills` | `FramesOrdered`, `FramesIntact`, `OnlyDivisionKills` |
| | `ConventionImplemented` | `SpecC => ImplementsConvention` |
| DevicesProofs | `VerdictIsRight`, `LastClaimHolds`, `InitialisersRun` | `Verdict`, `LastClaimWins`, `InitialisedInOrder` |
| LoaderProofs | `LoopStaysInside`, `ImageIsLoaded` | `NeverStrays`, `LoadsImage` |
| ReadFileProofs | `ReadsInBuffers`, `NothingIsLost` | `StaysInBuffers`, `NothingLost` |
| | `WrittenIsRead` | `Spec => [](Authored => ReadsWhatIsMeant)` |
| AssemblerProofs | `SourcesJudged` | `Spec => []Verdict` |
| | `OutputIsMeant` | the file is the executable the source means, or a beginning of it |
| | `MeaningAssembled` | `~OutputFaults` implies `Spec => []AssemblesMeaning` |
| ToolchainProofs | `MachineTyped`, `BinloadStaysInside` | the core's `TypeOK` and the loader's `NeverStrays`, of the whole emulator |
| | `ArgumentsRefined` | every behaviour of the emulator is one of Devices |
| | `CoreStartsPrepared` | `SpecS => PreparedStart` |
| | `MakeReadsInBuffers` | the tokenizer's `StaysInBuffers`, of make run |
| | `NothingIsStale` | `SpecT => [](ReadAsMeant => NothingStale)` |
| | `HandedOverLoadable` | `SpecT => [](ReadAsMeant => HandsOverLoadable)` |
| | `CorrectSourcesRun` | `SpecT => [](ReadAsMeant /\ KnownToAuthor => RunsCorrectSources)` |
| | `EmulatorTyped`, `EmulatorStaysInside` | the core's `TypeOK`, and that `binload` stays in memory, of the emulator make starts |
| | `EmulatorStartsPrepared` | `SpecT /\ []ReadAsMeant => PreparedStart` |
| | `EmulatorStartsLinked` | `SpecT /\ []ReadAsMeant => StartsLinked` |
| | `WrittenArrives` | `SpecT => [](Readable => ReadAsMeant)` |
| | `WrittenRuns` | `SpecT /\ Readable` implies all of the above together |

**CpuProofs**: for every `MEMORY_SIZE`, I/O window, image, device map and
terminal. The assumptions are `MemoryAssumption` (the sizes fit 16 bits, with
three addresses to spare so that operand addresses do not wrap - 0x6000 in the
code) and `CpuAssumption` (images are bytes in memory, slot 0 is never mapped, as
a zero ends a device's offset list). `TypeOK` is inductive as it stands. The
argument: facts about words and bytes (`WordJoin`, `WordSplit`, `WordWrap`); the
operand pointers point to registers or cells (`TargType`) and hold bytes
(`ArgType`); what comes off the bus is a byte even at end of file (`ReadType`),
what goes there keeps memory, the byte behind it and the devices typed
(`WriteType`); then one lemma per handler or group of handlers, and the step and
temporal theorems. `MappedSlotsShadow` is an action property: the two ways to
memory are the bus, which looks at the slot (`WriteShadow`), and an operand
pointer (`AssignShadow`), which lies behind `pc` and therefore outside the window
when `pc` does (`OperandOutside`).

**CallsProofs**: theorems of `SpecC`, for every program, depth of calls and size
of memory; the assumption it adds is `FloorAssumption` (the image ends in memory,
behind the I/O window). `FramesOrdered` is not inductive: it compares a frame
with its neighbour, while a `PUSH` has to miss all of them. Nor does it know what
frames hold, and `RET` takes the next base pointer out of one. The inductive
invariant `CallsInv` is the conjunction of the two with types, with `Apart`
(every two frames, not neighbours only) and with `past = 0` where the byte behind
`mem` is the flag of I/O slot 0. Most instructions leave activations alone:
`Steady` says so (same `sp`, same frames, same bytes from `sp` upwards),
`KeptSteps` shows it for every handler but `PUSH`, `POP`, `CALL` and `RET`, and
`StandsInv` shows that it keeps the invariant. `PUSH` and `POP` satisfy the weaker
`Stands`. `CallMoves` with `CallInv`, and `RetMoves` with `RetInv`, are the two
cases that change the list of frames; they rest on the sixteen-bit address
arithmetic not wrapping while rules are kept (`BelowValue`, `Unwrapped`) and on no
stack address being a device slot (`NoSlot`). A step that breaks a rule leaves
nothing to show (`Forgotten`).

The last part of the module is the refinement of CallStack. The mapping reads each private
stack off the bytes between two frames (`Slice`), so a step must be followed on
those segments: `WorkMaps` (nothing changes), `PushMaps` and `PopMaps` (the newest
grows or shrinks by a byte), `EnterMaps` (it is closed and an empty one opened),
`LeaveMaps` (it is dropped and the one below is back, with the saved registers of
the frame and the callee's in ra to rh). A step that breaks a rule is the
abstract `Break`.

**DevicesProofs**: for every command line (a sequence of strings), set of
libraries and size of the window; `DevicesAssumption` adds that no library is
called `-device` and that offsets are nonzero sixteen-bit numbers, a zero ending
the list. The properties look at the whole command line, the walk has only seen
a part: `DevicesInv` restates each of them for the options seen (`Owned`,
`Listed`) and adds that none of these still waits for its path, without which an
option's path could be taken for an option. `Listed` is an order-preserving
function from the list of initialised devices onto the options that are due.

**LoaderProofs**: for every memory size, binary and number of bytes `read()`
delivers; `LoaderAssumption` says files are sequences of bytes and memory has
room for a header. Neither property is inductive, since the loop reads its count,
its table and the code's address from the memory it patches. `LoaderInv` says of
header and table that they are as `read()` left them (`HeaderKept`), of the code
which words have been moved (`CodeMoved`), and of the rest that it is zero; a
file cut short has zeros behind the cut, so that its table can only name less.

**ReadFileProofs**: for every file (a sequence of one-character strings) and all
sizes of line[], word[] and raw[][]. `StaysInBuffers` needs to know that a quoted
word is at least two characters shorter than the position in its line
(`ReadInv`): an escape may add two characters after the only comparison, and
the opening quote is what leaves room for the second. For `NothingLost` the
invariant `Lossless` says between any two turns that what is kept, the word
under way included, is what is printing of the text up to the character the scan
has come to; that line[] is a piece of the text; and that a bare word is shorter
than the position, so that no character is ever refused.

`WrittenIsRead` is about every text an author can have written (`Authored`: there are
written lines of which the file is the text and `meant` the words), of any number and
length of lines, words and gaps. `ReadsWhatIsMeant` asks itself that the lines fit
(`Fits`). The invariant is `Follows`, for each such writing: `raw[]` holds the words
of the lines in front, cut to the words there is room for; `at` is where the next
line starts in the text; `line[]` is the text of the line under way; `words` are its
first words; and the scan is in the gap in front of the next one, or behind as many
characters of it as `word` has (`OnWord`). Where things are in a text is a matter of
lengths (`Preceding`, `Opens`, `Spot`), because a character in quotes is written with
one or two. Three facts make the steps work: a newline ends a line and is nowhere
else in it, so that `Taken` is the whole line (`TakenLine`, with `LineFits`); behind a
bare word is space or nothing (`BehindBareWord`); and in quotes neither a quote nor a
backslash stands for itself, so that only the last quote ends the word (`QuotedWord`).

**SequenceFacts**: `FlattenSeq` is a recursive function inside the community
modules, and the induction theorems of the library cannot be instantiated here.
Its equations (`FlattenAppend`, `FlattenConcat`) are proved from the
well-foundedness of < with a least counterexample (`LeastMember`); the same
argument carries `Printing` from one character to the next (`PrintingAppend`),
and, in AssemblerProofs, `Total`, the sums of the layout, from one number to the
next (`TotalAppend`).

**AssemblerProofs**: for every source (a sequence of lines, which are sequences of
`Words`) and all sizes of the tables. What is promised is about `Plain` sources, the
layout both passes agree on; a source outside it is `LabelsAligned`'s, which the
`labels` run violates. `Written` and the verdict are not inductive, the two passes
having no variable in common but the labels. The invariant `AssemblerInv` follows
the program from pass to pass:

* `FirstPassAt`: line and word the counting is at are ones it can be at (`PlacedAt`,
  which knows that behind a label it resumes in the middle of the next line); the
  labels in front are the ones recorded, in order, `main` among them; and in a
  source without mistakes and of bearable size (`Good`) each label has the offset
  the layout gives it (`Resolved`) and `roffset` is the offset of the line and the
  widths of the words passed in it (`Passed`).
* `SecondPassAt`: every line dealt with is correct; the code emitted is as long as the
  layout of these lines; the relocations are theirs; and in a `Good` source the code is
  what these lines mean, one after the other.
* `Written` and `Judged` at the end of it.

Underneath are lemmas about layout (`OffsetStep`: the offset of a line is that of
the line in front and its size; `OffsetGrows`), about operands (`OperandMeant`,
`InstructionEmitted`: an operand takes as many bytes as it was counted, and those it
means), and about lines
(`CorrectAccepted`: `enoughParam` and the operand forms accept a line exactly if it is
correct; `InstructionMeant`, `LineEmitted`). One `...Keeps` lemma per action
follows. That `roffset` wraps is why the size is in the invariant: offsets are
sums that never wrap in a `Good` source (`CountFits`), and in any other nothing is
claimed about them. Length and relocations are claimed of every source, as the
verdict on a size too large needs them.

What the loader makes of the executable is a matter of its bytes: `Holds` says
that a file has a word at a place, `ExecutableFields` which words the executable has
in its header and its table, and `RelocationsSpaced` that the words the table lists
are disjoint and inside the code, as each reference is two bytes of its own line
(`ReferencesSpaced`, `SpacedFlat`). `ExecutableBytes` says that all of it are bytes if
the tables hold the source. What a linker is asked for needs more: where in the
executable a line's code is (`Carries`: a sequence has another as its piece behind a
place; `FlatCarries`, `ExecutableCarries`), and that a reference in a line is listed
in the table and holds the offset its label stands for (`ReferenceMeant`).

`MeaningAssembled` has a hypothesis, that removing, opening and writing the file
does not fail: `write`'s result is not looked at, so without it
`AssemblesMeaning` is false. `OutputIsMeant` says what is left then.

**ToolchainProofs**, first part: the emulator as a whole, under `SystemAssumption`
(what Devices and Loader assume, of the given libraries and binaries) and the core's
assumptions. It composes: `Dev` and `Bin` are instances of the proof modules, the
step lemmas show that a step of the system is a step of one part and leaves the
variables of the others alone or satisfies their invariants again
(`ArgumentsInv`, `binloadInv`, `coreInv`), and `SystemInv` is the conjunction of
`TypeOK`, `DevicesInv`, and `LoaderInv` until the core starts to write to the
memory the loader speaks of. The core's `TypeOK` is not a corollary of
`TypeCorrect`: there memory and device map are constants that fit, here they are
what the command line and `binload` make of them.

Its second part is `make run`, under `ToolchainAssumption` (texts are sequences of
one-character strings, sizes are positive, the largest size of a binary is a sixteen-bit
number) besides: for every text, every older
binary, every size of the buffers and tables, and every failure of the output.
`MakeInv` holds the tokenizer's `ReadInv`, the assembler's state before it starts
(`Begun`), its `AssemblerInv` from the hand-over on, and the file the emulator
has. What an instance inside Toolchain defines and what the proof modules define
are the same things under two names: `AsmLine`, `AsmNext` and the lemmas around
them say so, layer by layer. `NothingIsStale` and `CorrectSourcesRun` are stated
relative to `ReadAsMeant`, from which on nothing depends on the text.
`HandedOverLoadable` joins the two programs: from the fields the assembler has
written (`ExecutableLoads`) follow those the loader reads (`LoadsWellFormed`).
`KnownToAuthor` says that
what the author takes for a correct source is one without a mistake, of a size the
tables hold: `correct` is a field of the text, and this is what the field means.

Its third part is the emulator that make starts. The theorems of the first part are
about `SpecS`, whose binary is one of the given ones from the beginning; here it is what the
assembler has left in the file. `EmulatorInv` says that nothing has happened in the
emulator before it is started, so that any file of bytes may take the binary's place
(`FileGiven`), and that `SystemInv` holds from then on if the file is of bytes. That it
is (`HandedOverBytes`) rests on the one size the assembler checks, the binary's: counts,
table entries and offsets are all smaller and fit two bytes. `EmulatorStartsLinked`
is the longest chain in the project: `ReferenceMeant` of the words,
the place of the line in the file (`ExecutableCarries`), the
table as `binload` reads it (`RelocsListed`), `LoaderInv` for the bytes nothing was
added to (`ByteInPlace`) and for those that were (`ReferenceInPlace`), and the image's
being inside memory for sums not to wrap (`LinkedInside`, `SumFits`).

`WrittenArrives` takes the hypothesis `ReadAsMeant` back to the source. `Readable` is
about the source alone: somebody has written it (`Authored`) in lines that fit and of
which there are no more than `raw[][]` has room for, and its words are of kinds the
assembler tells apart, in the layout both passes agree on. `WrittenRuns` puts the
theorems of make run together under it. The sources of the `make` run meet it: that
they are writings is an assumption of `MCToolchain` TLC evaluates
(`SourcesAreWritings`), and the rest of it is part of `ReadAsMeant`, which the run
checks. `MCReadFile` has such an assumption too (`PagesAreWritings`).

**Only model-checked.** Liveness (`ReachesPrompt`, `HaltsAfterLine`, `EndsReading`,
`MakeEnds`) and the fairness it rests on are outside the proof system.
`AtInstruction`, `LawsHold`, `BranchesFollowOrder`, `PrintsBanner`,
`PrintsLineBack`, `DevicesAnswer` and `ExecutesLoadedCode` are about what
particular programs do, not about every program. `PrintsWhatIsWritten` is about
the programs of the texts of its run. What SourceText makes of a word's characters
is a table of definitions: that it gives a word of the kinds Assembly knows is a
hypothesis (`IsWord`, in `Readable`), which the `make` run checks of its words.

## 6. Not modelled

* `MMU/`: two constants nothing uses.
* `shell.asm`: it uses `limm` and `lmem`, which the assembler does not know, and
  is rejected like `helloworld.asm`.
* In the tokenizer: words of two natures at once (a remark that ends with a
  colon, a number that does) are given one of them in SourceText; the empty word
  `""`, of which `labelcheck` reads the byte in front, counts as a text, as it does
  where that byte belongs to the allocator; `malloc` does not fail.
* The C compiler that `make` runs first.
* The terminal mode the serial `device_init` sets.
* What follows undefined behaviour: the model stops in `crash` or `wild`.

## 7. Plan

Order of work: core and convention first, since everything else relies on
them; then the two loaders, the composed system, the assembler. These are done,
and so are the proofs about the core, the convention, the loaders, the tokenizer,
the assembler, the composed emulator, and `make run` from the author's text to the
core that starts on its binary. What is left on the way from text to program is that
SourceText makes words of Assembly's (`IsWord`) of any author's words; it puts strings
together, of which the provers know nothing, so that it stays a hypothesis.
