------------------------------- MODULE Loader -------------------------------
(***************************************************************************)
(* binload: opens a binary, copies it into mem[] behind the I/O window,    *)
(* turns the offsets of its header into addresses and relocates its code.  *)
(* One action is one step of the function; the relocation loop takes one   *)
(* action for each turn, since every turn reads the number of relocations, *)
(* the table and the code address from the memory it is patching.          *)
(***************************************************************************)
EXTENDS Integers, SequencesExt

CONSTANTS
  MEMORY_SIZE,
  MEMORY_MAPPED_IO_REGION_SIZE,
  Files,      \* contents of the binaries that may be given, sequences of bytes
  Missing,    \* stands for a file that cannot be opened
  ShortReads  \* TRUE iff read() may fail or deliver less than the file's size

Byte == 0 .. 255

ASSUME LoaderAssumption ==
  /\ MEMORY_SIZE \in Nat /\ MEMORY_MAPPED_IO_REGION_SIZE \in Nat
  /\ MEMORY_MAPPED_IO_REGION_SIZE + 8 <= MEMORY_SIZE /\ MEMORY_SIZE < 65536
  /\ Files \subseteq Seq(Byte)
  /\ ShortReads \in BOOLEAN

VARIABLES
  mem,
  file,   \* the file's contents, or Missing
  offset, \* where the next binary would go
  rloc,   \* turn of the relocation loop
  pc,     \* of the core binload creates
  load    \* open, check, relocate, exec, returned or wild

varsL == <<mem, file, offset, rloc, pc, load>>

MAGIC   == 62079 \* 0xF27F
HeaderSize == 8

-----------------------------------------------------------------------------
(* Words in memory, low byte first. The header is where the file begins.   *)
Inside(a)  == 0 <= a /\ a + 1 < MEMORY_SIZE
word(a)    == mem[a] + 256 * mem[a + 1]
Stored(m, a, v) == [m EXCEPT ![a] = v % 256, ![a + 1] = (v \div 256) % 256]

header       == MEMORY_MAPPED_IO_REGION_SIZE
code_offset  == word(header + 2)
entry_offset == word(header + 4)
reloc_count  == word(header + 6)

(* The address of the entry of the relocation table the loop is at.        *)
entry_address == header + HeaderSize + 2 * rloc

(* Faulty variant of patch_address: the code right behind the header.      *)
patch_address_untabled == header + HeaderSize + word(entry_address)

(* The word that entry speaks of: a pointer, it does not wrap at 2^16.     *)
patch_address == code_offset + word(entry_address)

-----------------------------------------------------------------------------
(* Faulty variant of TooLarge: the I/O window is forgotten.                *)
TooLargeWithoutWindow == Len(file) > MEMORY_SIZE

TooLarge == Len(file) + offset > MEMORY_SIZE

Open == /\ load = "open"
        /\ \/ file = Missing /\ load' = "returned"
           \/ /\ file # Missing
              /\ TooLarge
              /\ load' = "returned"
           \/ /\ file # Missing
              /\ ~TooLarge
              /\ load' = "read"
        /\ UNCHANGED <<mem, file, offset, rloc, pc>>

(* read() is asked for the whole file; what it returns is only used to     *)
(* advance offset. A file that is cut short leaves the zeros of mem behind.*)
Delivered == IF ShortReads THEN -1 .. Len(file) ELSE {Len(file)}

Read == /\ load = "read"
        /\ \E rbytes \in Delivered :
             LET m == [a \in DOMAIN mem |-> IF a \in offset .. offset + rbytes - 1
                                            THEN file[a - offset + 1] ELSE mem[a]]
                 bad == m[header] + 256 * m[header + 1] # MAGIC
             IN  IF bad
                 THEN mem' = m /\ load' = "returned" /\ UNCHANGED offset
                 ELSE /\ mem' = Stored(Stored(m, header + 2, m[header + 2] + 256 * m[header + 3] + offset),
                                       header + 4, m[header + 4] + 256 * m[header + 5] + offset)
                      /\ offset' = (offset + rbytes) % 65536
                      /\ load' = "relocate"
        /\ UNCHANGED <<file, rloc, pc>>

Relocate == /\ load = "relocate"
            /\ rloc < reloc_count
            /\ Inside(entry_address) /\ Inside(patch_address)
            /\ mem' = Stored(mem, patch_address, word(patch_address) + code_offset)
            /\ rloc' = rloc + 1
            /\ UNCHANGED <<file, offset, pc, load>>

(* The table or the word to patch is outside mem[]: undefined from here on.*)
Stray == /\ load = "relocate"
         /\ rloc < reloc_count
         /\ ~(Inside(entry_address) /\ Inside(patch_address))
         /\ load' = "wild"
         /\ UNCHANGED <<mem, file, offset, rloc, pc>>

Start == /\ load = "relocate"
         /\ rloc >= reloc_count
         /\ pc' = entry_offset
         /\ load' = "exec"
         /\ UNCHANGED <<mem, file, offset, rloc>>

-----------------------------------------------------------------------------
Init == /\ mem = [a \in 0 .. MEMORY_SIZE - 1 |-> 0]
        /\ file \in Files \cup {Missing}
        /\ offset = MEMORY_MAPPED_IO_REGION_SIZE
        /\ rloc = 0
        /\ pc = 0
        /\ load = "open"

Next == Open \/ Read \/ Relocate \/ Stray \/ Start

Spec == Init /\ [][Next]_varsL

-----------------------------------------------------------------------------
(* The file read as the assembler writes it: header, relocation table,     *)
(* code. Offsets into the file count from 0.                               *)
field(k)    == file[k + 1] + 256 * file[k + 2]
CodeOffset  == field(2)
EntryOffset == field(4)
RelocCount  == field(6)
Rloc(k)     == field(HeaderSize + 2 * k)
Relocs      == {Rloc(k) : k \in 0 .. RelocCount - 1}
CodeSize    == Len(file) - CodeOffset

(* A binary the assembler could have written: the code follows the table,  *)
(* it is entered inside, and the relocations are the offsets of different, *)
(* disjoint words of the code.                                             *)
WellFormed ==
  /\ file # Missing /\ Len(file) >= HeaderSize
  /\ field(0) = MAGIC
  /\ CodeOffset = HeaderSize + 2 * RelocCount
  /\ EntryOffset \in CodeOffset .. Len(file) - 1
  /\ \A r \in Relocs : r + 1 < CodeSize
  /\ \A j, k \in 0 .. RelocCount - 1 : j < k => Rloc(j) + 1 < Rloc(k)

(* The address of file byte k, and the word at k moved along with the code.*)
Address(k) == MEMORY_MAPPED_IO_REGION_SIZE + k
Moved(k)   == (field(k) + Address(CodeOffset)) % 65536

(* A well-formed binary that has been read to its end starts at its entry, *)
(* with every word the table lists raised by the code's address and every  *)
(* other byte of code, of the table and around the image as it was, even   *)
(* though the loop reads its bounds from the memory it patches.            *)
LoadsImage ==
  load = "exec" /\ WellFormed /\ offset = Address(Len(file)) =>
    /\ pc = Address(EntryOffset)
    /\ \A k \in CodeOffset .. Len(file) - 1 :
         mem[Address(k)] = IF k - CodeOffset \in Relocs THEN Moved(k) % 256
                           ELSE IF k - CodeOffset - 1 \in Relocs THEN Moved(k - 1) \div 256
                           ELSE file[k + 1]
    /\ \A k \in {0, 1} \cup 6 .. CodeOffset - 1 : mem[Address(k)] = file[k + 1]
    /\ \A a \in DOMAIN mem : a \notin Address(0) .. Address(Len(file) - 1) => mem[a] = 0

(* No well-formed binary makes the loader leave mem[], not even one that   *)
(* fills the memory to the last byte or of which read() has delivered only *)
(* a part: the zeros in its place are a table and a code as well.          *)
NeverStrays == load = "wild" => ~WellFormed
=============================================================================
