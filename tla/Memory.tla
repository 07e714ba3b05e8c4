------------------------------- MODULE Memory -------------------------------
(***************************************************************************)
(* The 16-bit address space of the emulator: the byte array mem[], the     *)
(* table iomem[] of memory-mapped device slots, and the two devices the    *)
(* repository ships (Device/Serial and Device/Template).                   *)
(*                                                                         *)
(* memory_read and memory_write consult iomem before mem; the fetch of the *)
(* CPU does not and reads mem directly.                                    *)
(***************************************************************************)
EXTENDS Integers, SequencesExt

CONSTANTS
  MEMORY_SIZE,                  \* bytes in mem[]; 0x6000 in memory.h
  MEMORY_MAPPED_IO_REGION_SIZE, \* slots in iomem[]; 0x00FF in memory.h
  InBytes,                      \* bytes the terminal may hand to the serial device
  IoBehindMem                   \* TRUE iff the linker placed iomem right behind mem

AddressSpace == 65536
Byte == 0 .. 255
Word == 0 .. AddressSpace - 1
Cells == 0 .. MEMORY_SIZE - 1
Slots == 0 .. MEMORY_MAPPED_IO_REGION_SIZE - 1

(* The sizes fit the 16-bit address space. Three addresses stay free at    *)
(* its top so that no operand address of an in-range instruction wraps.    *)
ASSUME MemoryAssumption ==
  /\ MEMORY_SIZE \in Nat /\ MEMORY_MAPPED_IO_REGION_SIZE \in Nat
  /\ 0 < MEMORY_MAPPED_IO_REGION_SIZE
  /\ MEMORY_MAPPED_IO_REGION_SIZE <= MEMORY_SIZE
  /\ MEMORY_SIZE < AddressSpace - 3
  /\ InBytes \subseteq Byte
  /\ IoBehindMem \in BOOLEAN

VARIABLES
  mem,               \* mem[]: a byte for every cell
  past,              \* the byte at mem[MEMORY_SIZE], one behind the array
  iomem,             \* iomem[]: the device a slot is mapped to, or Unmapped
  some_device_value, \* the state of the template device
  stdout             \* bytes the serial device has written so far

Unmapped == "unmapped"
Serial   == "serial"
Template == "template"
Devices  == {Serial, Template}

W16(hi, lo) == 256 * hi + lo
Lo(w) == w % 256
Hi(w) == w \div 256

-----------------------------------------------------------------------------
(* Dispatch *)

isSet(a) == a \in Slots /\ iomem[a] # Unmapped

(* Slot 0 can never be mapped (address 0 ends a device's offset list), but *)
(* when iomem follows mem its isSet flag is the byte mem[MEMORY_SIZE]: a   *)
(* write there makes slot 0 look mapped while its functions are still NULL.*)
NullSlot(a) == a = 0 /\ IoBehindMem /\ past # 0

-----------------------------------------------------------------------------
(* Devices *)

SerialSlots == {a \in Slots : iomem[a] = Serial}
Eof == -1

(* What the terminal has ready for each serial slot while one instruction  *)
(* executes: a byte, or nothing because read() found end of file.          *)
Inputs == [SerialSlots -> InBytes \cup {Eof}]

(* Faulty variant of device_read: zero at end of file.                     *)
device_read_zeroing(a, old, in) ==
  IF iomem[a] = Template THEN some_device_value
  ELSE IF in[a] = Eof THEN 0 ELSE in[a]

(* The byte *value holds after device_read. At end of file read() stores   *)
(* nothing, so the destination keeps what it held.                         *)
device_read(a, old, in) ==
  IF iomem[a] = Template THEN some_device_value
  ELSE IF in[a] = Eof THEN old ELSE in[a]

(* Serial: 0x7F is turned into the erase sequence, all else is copied.     *)
Transmitted(v) == IF v = 127 THEN <<8, 32, 8>> ELSE <<v>>

(* The device side of the writes w, a function from addresses to bytes.    *)
(* The only instruction that writes several addresses is CALL, downwards.  *)
device_write(w) ==
  LET hit(d) == {a \in Slots \cap DOMAIN w : iomem[a] = d}
      sent   == SetToSortSeq(hit(Serial), >)
  IN  /\ stdout' = stdout \o FlattenSeq([i \in DOMAIN sent |-> Transmitted(w[sent[i]])])
      /\ some_device_value' =
           IF hit(Template) = {} THEN some_device_value
           ELSE w[CHOOSE a \in hit(Template) : \A b \in hit(Template) : a <= b]

-----------------------------------------------------------------------------
(* The bus *)

(* The byte *value holds after memory_read(a, value), old being its        *)
(* content before. "addr <= MEMORY_SIZE" lets the byte behind mem through. *)
memory_read(a, old, in) ==
  IF isSet(a) THEN device_read(a, old, in)
  ELSE IF a \in Cells THEN mem[a]
  ELSE IF a = MEMORY_SIZE THEN past
  ELSE 0

(* Faulty variant of memory_write: the byte goes to mem as well.           *)
memory_write_through(w) ==
  /\ mem' = [x \in Cells |-> IF x \in DOMAIN w THEN w[x] ELSE mem[x]]
  /\ past' = IF MEMORY_SIZE \in DOMAIN w THEN w[MEMORY_SIZE] ELSE past
  /\ device_write(w)
  /\ UNCHANGED iomem

(* memory_write for every address of w. Bytes written above MEMORY_SIZE    *)
(* are dropped, the one written at MEMORY_SIZE lands behind mem.           *)
memory_write(w) ==
  /\ mem' = [x \in Cells |-> IF x \in DOMAIN w /\ ~isSet(x) THEN w[x] ELSE mem[x]]
  /\ past' = IF MEMORY_SIZE \in DOMAIN w THEN w[MEMORY_SIZE] ELSE past
  /\ device_write(w)
  /\ UNCHANGED iomem
=============================================================================
