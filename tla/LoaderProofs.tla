---------------------------- MODULE LoaderProofs ----------------------------
(***************************************************************************)
(* What binload makes of a well-formed binary, for every size of memory    *)
(* and I/O window, every binary and every number of bytes read() delivers. *)
(*                                                                         *)
(* The loop reads its bounds, the table and the code's address from the    *)
(* memory it patches. The invariant therefore says of header and table     *)
(* that they are still what read() has left there, and of the code which   *)
(* words have been moved so far. A file cut short is a binary with zeros   *)
(* behind the cut: its header and its table may only name less.            *)
(***************************************************************************)
EXTENDS Loader, SequenceTheorems, TLAPS

Cells == 0 .. MEMORY_SIZE - 1

(* Byte k of the file as it was read, and words of them.                   *)
got(k)   == IF Address(k) < offset THEN file[k + 1] ELSE 0
pair(k)  == got(k) + 256 * got(k + 1)
Turns    == pair(6)
Table(k) == pair(HeaderSize + 2 * k)

LoaderType ==
  /\ mem \in [Cells -> Byte]
  /\ file \in Files \cup {Missing}
  /\ offset \in Nat /\ rloc \in Nat
  /\ pc \in Nat /\ pc < 65536
  /\ load \in {"open", "read", "relocate", "exec", "returned", "wild"}

Untouched == /\ mem = [a \in Cells |-> 0]
             /\ offset = MEMORY_MAPPED_IO_REGION_SIZE
             /\ rloc = 0

Fitting == file # Missing /\ Address(Len(file)) <= MEMORY_SIZE

(* Header and table as read() has left them, the two offsets turned into   *)
(* addresses.                                                              *)
HeaderKept ==
  /\ word(header + 2) = (pair(2) + MEMORY_MAPPED_IO_REGION_SIZE) % 65536
  /\ word(header + 4) = (pair(4) + MEMORY_MAPPED_IO_REGION_SIZE) % 65536
  /\ \A k \in {0, 1} \cup 6 .. CodeOffset - 1 : mem[Address(k)] = got(k)

Outskirts == \A a \in Cells : a \notin Address(0) .. Address(Len(file) - 1) => mem[a] = 0

(* The words the loop has moved so far, and the code with them moved.      *)
Done == {Rloc(j) : j \in 0 .. rloc - 1}
CodeMoved ==
  \A k \in CodeOffset .. Len(file) - 1 :
    mem[Address(k)] = IF k - CodeOffset \in Done THEN Moved(k) % 256
                      ELSE IF k - CodeOffset - 1 \in Done THEN Moved(k - 1) \div 256
                      ELSE file[k + 1]

Image == /\ Fitting
         /\ Address(2) <= offset /\ offset <= Address(Len(file))
         /\ ~ShortReads => offset = Address(Len(file))
         /\ rloc <= Turns
         /\ HeaderKept
         /\ Outskirts
         /\ offset = Address(Len(file)) => CodeMoved

LoaderInv ==
  /\ LoaderType
  /\ load \in {"open", "read"} => Untouched
  /\ load = "read" => Fitting
  /\ load \in {"relocate", "exec"} /\ WellFormed => Image
  /\ load = "exec" /\ WellFormed => rloc = Turns /\ pc = word(header + 4)
  /\ load = "wild" => ~WellFormed

-----------------------------------------------------------------------------
(* Bytes and words                                                         *)

LEMMA ByteDef == \A v : v \in Byte <=> v \in Int /\ 0 <= v /\ v < 256
BY DEF Byte

(* The two bytes of a sum that wraps are the ones the loop stores.         *)
LEMMA WordBytes ==
  ASSUME NEW v \in Nat
  PROVE  /\ v % 256 \in Byte /\ (v \div 256) % 256 \in Byte
         /\ (v % 256) + 256 * ((v \div 256) % 256) = v % 65536
         /\ (v % 65536) % 256 = v % 256
         /\ (v % 65536) \div 256 = (v \div 256) % 256
<1>1. v % 256 \in Byte /\ (v \div 256) % 256 \in Byte
  BY ByteDef
<1>2. (v % 256) + 256 * ((v \div 256) % 256) = v % 65536
  OBVIOUS
<1>3. (v % 65536) % 256 = v % 256 /\ (v % 65536) \div 256 = (v \div 256) % 256
  OBVIOUS
<1> QED
  BY <1>1, <1>2, <1>3

LEMMA StoredWord ==
  ASSUME NEW m \in [Cells -> Byte], NEW a \in Nat, Inside(a), NEW v \in Nat
  PROVE  /\ Stored(m, a, v) \in [Cells -> Byte]
         /\ Stored(m, a, v)[a] = v % 256
         /\ Stored(m, a, v)[a + 1] = (v \div 256) % 256
         /\ \A b \in Cells : b # a /\ b # a + 1 => Stored(m, a, v)[b] = m[b]
<1>1. a \in Cells /\ a + 1 \in Cells /\ a # a + 1
  BY LoaderAssumption DEF Inside, Cells, LoaderAssumption
<1> QED
  BY <1>1, WordBytes DEF Stored

LEMMA FileBytes ==
  ASSUME NEW f \in Seq(Byte)
  PROVE  Len(f) \in Nat /\ \A k \in Nat : k < Len(f) => f[k + 1] \in Byte
<1>1. Len(f) \in Nat /\ f \in [1 .. Len(f) -> Byte]
  BY LenProperties
<1> QED
  BY <1>1

LEMMA FileType ==
  ASSUME LoaderType, file # Missing
  PROVE  file \in Seq(Byte) /\ Len(file) \in Nat
         /\ \A k \in Nat : k < Len(file) => file[k + 1] \in Byte
<1>1. file \in Seq(Byte)
  BY LoaderAssumption DEF LoaderAssumption, LoaderType
<1> QED
  BY <1>1, FileBytes

(* What a well-formed binary says of itself.                               *)
LEMMA WellFormedFacts ==
  ASSUME LoaderType, WellFormed
  PROVE  /\ RelocCount \in Nat /\ CodeOffset \in Nat /\ EntryOffset \in Nat
         /\ CodeOffset = 8 + 2 * RelocCount
         /\ CodeOffset <= EntryOffset /\ EntryOffset < Len(file) /\ Len(file) \in Nat
         /\ \A k \in 0 .. RelocCount - 1 : Rloc(k) \in Nat /\ CodeOffset + Rloc(k) + 1 < Len(file)
<1>1. /\ Len(file) \in Nat /\ 8 <= Len(file)
      /\ \A k \in Nat : k < Len(file) => file[k + 1] \in Byte
  BY FileType DEF WellFormed, HeaderSize
<1>2. \A k \in Nat : k + 1 < Len(file) => field(k) \in Nat
  <2> SUFFICES ASSUME NEW k \in Nat, k + 1 < Len(file) PROVE field(k) \in Nat
    OBVIOUS
  <2>1. k < Len(file) /\ k + 1 \in Nat /\ k + 1 + 1 = k + 2
    BY <1>1
  <2>2. file[k + 1] \in Byte /\ file[k + 1 + 1] \in Byte
    BY <1>1, <2>1
  <2>3. file[k + 1] \in Nat /\ file[k + 2] \in Nat
    BY <2>1, <2>2, ByteDef
  <2> QED
    BY <2>3 DEF field
<1>3. RelocCount \in Nat /\ EntryOffset \in Nat /\ CodeOffset \in Nat
  BY <1>1, <1>2 DEF RelocCount, EntryOffset, CodeOffset
<1>4. CodeOffset = 8 + 2 * RelocCount /\ CodeOffset <= EntryOffset /\ EntryOffset < Len(file)
  BY <1>1, <1>3 DEF WellFormed, HeaderSize
<1>5. ASSUME NEW k \in 0 .. RelocCount - 1
      PROVE  Rloc(k) \in Nat /\ CodeOffset + Rloc(k) + 1 < Len(file)
  <2>1. Rloc(k) \in Nat
    BY <1>2, <1>3, <1>4, <1>1 DEF Rloc, HeaderSize
  <2>2. Rloc(k) + 1 < Len(file) - CodeOffset
    BY DEF WellFormed, Relocs, CodeSize
  <2> QED
    BY <2>1, <2>2, <1>1, <1>3
<1> QED
  BY <1>1, <1>3, <1>4, <1>5

(* A file cut short names no more turns than the whole one, and no word    *)
(* further behind.                                                         *)
LEMMA GotBytes ==
  ASSUME LoaderType, WellFormed, offset <= Address(Len(file)), NEW k \in Nat
  PROVE  /\ got(k) \in Byte
         /\ k + 1 < Len(file) => pair(k) \in Nat /\ pair(k) <= field(k)
         /\ k + 1 < Len(file) /\ Address(k + 1) < offset => pair(k) = field(k)
         /\ pair(k) # 0 => Address(k) < offset
<1>1. Len(file) \in Nat /\ \A n \in Nat : n < Len(file) => file[n + 1] \in Byte
  BY FileType DEF WellFormed
<1>2. MEMORY_MAPPED_IO_REGION_SIZE \in Nat /\ offset \in Nat
  BY LoaderAssumption DEF LoaderAssumption, LoaderType
<1>3. \A n \in Nat : got(n) \in Byte /\ (n < Len(file) => got(n) <= file[n + 1] /\ file[n + 1] \in Byte)
                     /\ (Address(n) < offset => n < Len(file) /\ got(n) = file[n + 1])
                     /\ (~(Address(n) < offset) => got(n) = 0)
  BY <1>1, <1>2, ByteDef DEF got, Address
<1>4. k + 1 \in Nat /\ k + 1 + 1 = k + 2 /\ (Address(k + 1) < offset => Address(k) < offset)
  BY <1>2 DEF Address
<1>5. got(k) \in Byte /\ got(k + 1) \in Byte
  BY <1>3, <1>4
<1>6. pair(k) \in Nat
  BY <1>5, ByteDef DEF pair
<1>7. ASSUME k + 1 < Len(file)
      PROVE  pair(k) <= field(k) /\ (Address(k + 1) < offset => pair(k) = field(k))
  <2>1. got(k) <= file[k + 1] /\ got(k + 1) <= file[k + 2] /\ file[k + 1] \in Byte /\ file[k + 2] \in Byte
    BY <1>1, <1>3, <1>4, <1>7
  <2>2. Address(k + 1) < offset => got(k) = file[k + 1] /\ got(k + 1) = file[k + 2]
    BY <1>3, <1>4
  <2> QED
    BY <1>5, <2>1, <2>2, ByteDef DEF pair, field
<1>8. ~(Address(k) < offset) => pair(k) = 0
  BY <1>3, <1>4 DEF pair
<1> QED
  BY <1>5, <1>6, <1>7, <1>8

LEMMA MemoryType ==
  /\ MEMORY_SIZE \in Nat /\ MEMORY_SIZE < 65536
  /\ MEMORY_MAPPED_IO_REGION_SIZE \in Nat
  /\ MEMORY_MAPPED_IO_REGION_SIZE + 8 <= MEMORY_SIZE
BY LoaderAssumption DEF LoaderAssumption

LEMMA WordType ==
  ASSUME mem \in [Cells -> Byte], NEW a \in Nat, Inside(a)
  PROVE  a \in Cells /\ a + 1 \in Cells /\ word(a) \in Nat /\ word(a) < 65536
<1>1. a \in Cells /\ a + 1 \in Cells
  BY MemoryType DEF Inside, Cells
<1> QED
  BY <1>1, ByteDef DEF word

LEMMA HeaderType ==
  ASSUME mem \in [Cells -> Byte]
  PROVE  /\ code_offset \in Nat /\ reloc_count \in Nat
         /\ entry_offset \in Nat /\ entry_offset < 65536
<1>1. \A k \in {2, 4, 6} : header + k \in Nat /\ Inside(header + k)
  BY MemoryType DEF header, Inside
<1> QED
  BY <1>1, WordType DEF code_offset, entry_offset, reloc_count

-----------------------------------------------------------------------------
(* The bounds the loop reads from memory                                   *)

LEMMA LoopBounds ==
  ASSUME LoaderType, WellFormed, Image
  PROVE  /\ Turns \in Nat /\ Turns <= RelocCount /\ reloc_count = Turns
         /\ Turns # 0 => code_offset = Address(CodeOffset)
         /\ Address(CodeOffset) \in Nat /\ Address(Len(file)) \in Nat
         /\ CodeOffset < Len(file)
<1>1. offset <= Address(Len(file)) /\ Address(Len(file)) <= MEMORY_SIZE
  BY DEF Image, Fitting
<1>2. pair(6) \in Nat /\ pair(6) <= field(6)
  BY <1>1, GotBytes, WellFormedFacts
<1>3. reloc_count = Turns
  <2>1. 6 \in {0, 1} \cup 6 .. CodeOffset - 1 /\ 7 \in {0, 1} \cup 6 .. CodeOffset - 1
    BY WellFormedFacts
  <2>2. mem[Address(6)] = got(6) /\ mem[Address(7)] = got(7)
    BY <2>1 DEF Image, HeaderKept
  <2>3. header + 6 = Address(6) /\ header + 6 + 1 = Address(7) /\ 6 + 1 = 7
    BY MemoryType DEF header, Address
  <2> QED
    BY <2>2, <2>3 DEF reloc_count, word, Turns, pair
<1>4. ASSUME Turns # 0
      PROVE  code_offset = Address(CodeOffset)
  <2>1. Address(6) < offset
    BY <1>1, <1>4, GotBytes DEF Turns
  <2>2. Address(2 + 1) < offset /\ 2 + 1 < Len(file)
    BY <2>1, MemoryType, WellFormedFacts DEF Address, LoaderType
  <2>3. pair(2) = CodeOffset
    BY <1>1, <2>2, GotBytes DEF CodeOffset
  <2>4. code_offset = (CodeOffset + MEMORY_MAPPED_IO_REGION_SIZE) % 65536
    BY <2>3 DEF Image, HeaderKept, code_offset
  <2>5. 0 <= CodeOffset + MEMORY_MAPPED_IO_REGION_SIZE /\ CodeOffset + MEMORY_MAPPED_IO_REGION_SIZE < 65536
    BY <1>1, MemoryType, WellFormedFacts DEF Address
  <2> QED
    BY <2>4, <2>5, MemoryType, WellFormedFacts DEF Address
<1> QED
  BY <1>2, <1>3, <1>4, MemoryType, WellFormedFacts DEF Turns, RelocCount, Address

(* The entry the loop is at, and the word of the code it speaks of.        *)
LEMMA EntryRead ==
  ASSUME LoaderType, WellFormed, Image, rloc < Turns
  PROVE  /\ rloc \in 0 .. RelocCount - 1
         /\ Inside(entry_address) /\ word(entry_address) = Table(rloc)
         /\ Table(rloc) \in Nat /\ Table(rloc) <= Rloc(rloc)
         /\ offset = Address(Len(file)) => Table(rloc) = Rloc(rloc)
         /\ patch_address = Address(CodeOffset + Table(rloc))
         /\ CodeOffset + Table(rloc) + 1 < Len(file)
         /\ Inside(patch_address) /\ patch_address \in Nat
<1> DEFINE k == HeaderSize + 2 * rloc
<1>1. rloc \in 0 .. RelocCount - 1
  BY LoopBounds, WellFormedFacts DEF LoaderType
<1>2. k \in Nat /\ k + 1 < CodeOffset /\ 6 <= k /\ CodeOffset < Len(file)
  BY <1>1, LoopBounds, WellFormedFacts DEF HeaderSize
<1>3. offset <= Address(Len(file)) /\ Address(Len(file)) <= MEMORY_SIZE
  BY DEF Image, Fitting
<1>4. entry_address = Address(k) /\ entry_address + 1 = Address(k + 1)
  BY <1>1, MemoryType DEF entry_address, header, Address, HeaderSize
<1>5. Inside(entry_address)
  BY <1>2, <1>3, <1>4, MemoryType, WellFormedFacts DEF Inside, Address
<1>6. word(entry_address) = Table(rloc)
  <2>1. k \in {0, 1} \cup 6 .. CodeOffset - 1 /\ k + 1 \in {0, 1} \cup 6 .. CodeOffset - 1
    BY <1>2, WellFormedFacts
  <2>2. mem[Address(k)] = got(k) /\ mem[Address(k + 1)] = got(k + 1)
    BY <2>1 DEF Image, HeaderKept
  <2> QED
    BY <1>4, <2>2 DEF word, Table, pair
<1>7. /\ Table(rloc) \in Nat /\ Table(rloc) <= Rloc(rloc)
      /\ offset = Address(Len(file)) => Table(rloc) = Rloc(rloc)
  <2>1. k + 1 < Len(file) /\ (offset = Address(Len(file)) => Address(k + 1) < offset)
    BY <1>2, MemoryType, WellFormedFacts DEF Address
  <2> QED
    BY <1>2, <1>3, <2>1, GotBytes DEF Table, Rloc
<1>8. CodeOffset + Table(rloc) + 1 < Len(file)
  <2>1. Rloc(rloc) \in Nat /\ CodeOffset + Rloc(rloc) + 1 < Len(file)
    BY <1>1, WellFormedFacts
  <2> QED
    BY <1>7, <2>1, WellFormedFacts
<1>9. patch_address = Address(CodeOffset + Table(rloc))
  <2>1. code_offset = Address(CodeOffset)
    BY <1>1, LoopBounds DEF LoaderType
  <2> QED
    BY <1>6, <1>7, <2>1, MemoryType, WellFormedFacts DEF patch_address, Address
<1>10. Inside(patch_address) /\ patch_address \in Nat
  BY <1>3, <1>7, <1>8, <1>9, MemoryType, WellFormedFacts DEF Inside, Address
<1> QED
  BY <1>1, <1>5, <1>6, <1>7, <1>8, <1>9, <1>10

-----------------------------------------------------------------------------
(* A turn of the loop                                                      *)

LEMMA RelocateType ==
  ASSUME LoaderType, Relocate
  PROVE  /\ LoaderType'
         /\ patch_address \in Nat
         /\ mem' = Stored(mem, patch_address, word(patch_address) + code_offset)
         /\ word(patch_address) \in Nat /\ code_offset \in Nat
<1>1. code_offset \in Nat
  BY HeaderType DEF LoaderType
<1>2. entry_address \in Nat
  BY MemoryType DEF entry_address, header, HeaderSize, LoaderType
<1>3. word(entry_address) \in Nat
  BY <1>2, WordType DEF LoaderType, Relocate
<1>4. patch_address \in Nat
  BY <1>1, <1>3 DEF patch_address
<1>5. word(patch_address) \in Nat
  BY <1>4, WordType DEF LoaderType, Relocate
<1>6. mem' \in [Cells -> Byte]
  <2> DEFINE v == word(patch_address) + code_offset
  <2>1. v \in Nat /\ Inside(patch_address) /\ mem \in [Cells -> Byte] /\ mem' = Stored(mem, patch_address, v)
    BY <1>1, <1>5 DEF LoaderType, Relocate
  <2> HIDE DEF v
  <2> QED
    BY <1>4, <2>1, StoredWord, Zenon
<1>7. LoaderType'
  BY <1>6 DEF LoaderType, Relocate
<1> QED
  BY <1>1, <1>4, <1>5, <1>7 DEF Relocate

LEMMA RelocateImage ==
  ASSUME LoaderType, WellFormed, Image, Relocate
  PROVE  Image'
<1> DEFINE r == Table(rloc)
           p == patch_address
           v == word(patch_address) + code_offset
<1>1. rloc < Turns
  BY LoopBounds DEF Relocate
<1>2. /\ r \in Nat /\ p = Address(CodeOffset + r) /\ p \in Nat /\ Inside(p)
      /\ CodeOffset + r + 1 < Len(file)
      /\ rloc \in 0 .. RelocCount - 1
  BY <1>1, EntryRead
<1>3. v \in Nat /\ mem' = Stored(mem, p, v) /\ mem \in [Cells -> Byte]
  BY RelocateType DEF LoaderType
<1> HIDE DEF r, p, v
<1>4. /\ mem'[p] = v % 256 /\ mem'[p + 1] = (v \div 256) % 256
      /\ \A b \in Cells : b # p /\ b # p + 1 => mem'[b] = mem[b]
  <2>1. p \in Nat /\ Inside(p)
    BY <1>2
  <2> QED
    <3> DEFINE lo == v % 256
               hi == (v \div 256) % 256
    <3> HIDE DEF lo, hi
    <3> USE <1>3, <2>1
    <3>1. Stored(mem, p, v)[p] = lo
      BY StoredWord DEF lo
    <3>2. Stored(mem, p, v)[p + 1] = hi
      BY StoredWord DEF hi
    <3>3. \A b \in Cells : b # p /\ b # p + 1 => Stored(mem, p, v)[b] = mem[b]
      BY StoredWord
    <3>4. mem'[p] = lo /\ mem'[p + 1] = hi
      BY <3>1, <3>2
    <3> QED
      BY <3>3, <3>4 DEF lo, hi
<1>5. /\ CodeOffset \in Nat /\ CodeOffset < Len(file) /\ Len(file) \in Nat /\ 8 <= CodeOffset
      /\ MEMORY_MAPPED_IO_REGION_SIZE \in Nat /\ MEMORY_SIZE \in Nat
      /\ Address(Len(file)) <= MEMORY_SIZE
  BY MemoryType, WellFormedFacts DEF Image, Fitting
<1>6. UNCHANGED <<file, offset, load>> /\ rloc' = rloc + 1
  BY DEF Relocate
<1>7. \A k \in Nat : k < CodeOffset => Address(k) \in Cells /\ mem'[Address(k)] = mem[Address(k)]
  <2> SUFFICES ASSUME NEW k \in Nat, k < CodeOffset
               PROVE  Address(k) \in Cells /\ mem'[Address(k)] = mem[Address(k)]
    OBVIOUS
  <2>1. Address(k) \in Cells /\ Address(k) # p /\ Address(k) # p + 1
    BY <1>2, <1>5 DEF Address, Cells
  <2> QED
    BY <1>4, <2>1
<1>8. HeaderKept'
  <2>1. \A n \in {2, 4} : word(header + n)' = word(header + n)
    <3>1. \A n \in {2, 4} : /\ header + n = Address(n) /\ header + n + 1 = Address(n + 1)
                            /\ n \in Nat /\ n + 1 \in Nat /\ n + 1 < CodeOffset /\ n < CodeOffset
      BY <1>5 DEF header, Address
    <3>2. \A n \in {2, 4} : /\ mem'[header + n] = mem[header + n]
                            /\ mem'[header + n + 1] = mem[header + n + 1]
      BY <1>7, <3>1
    <3> QED
      BY <3>2 DEF word, header
  <2>2. \A k : got(k)' = got(k) /\ pair(k)' = pair(k)
    BY <1>6 DEF got, pair, Address
  <2>3. CodeOffset' = CodeOffset
    BY <1>6 DEF CodeOffset, field
  <2>4. \A k \in {0, 1} \cup 6 .. CodeOffset - 1 : mem'[Address(k)] = mem[Address(k)]
    BY <1>5, <1>7
  <2>5. HeaderKept
    BY DEF Image
  <2> QED
    BY <2>1, <2>2, <2>3, <2>4, <2>5 DEF HeaderKept, Address, header
<1>9. Outskirts'
  <2>1. p \in Address(0) .. Address(Len(file) - 1) /\ p + 1 \in Address(0) .. Address(Len(file) - 1)
    BY <1>2, <1>5 DEF Address
  <2> QED
    BY <1>4, <1>6, <2>1 DEF Image, Outskirts, Address
<1>10. ASSUME offset = Address(Len(file))
       PROVE  CodeMoved'
  <2> DEFINE q == CodeOffset + r
  <2>1. CodeMoved /\ r = Rloc(rloc) /\ code_offset = Address(CodeOffset)
    BY <1>1, <1>10, EntryRead, LoopBounds DEF Image, r, LoaderType
  <2>2. Done \in SUBSET Nat /\ \A d \in Done : d + 1 < r
    <3>1. \A j \in 0 .. rloc - 1 : j \in 0 .. RelocCount - 1 /\ j < rloc
      BY <1>2, WellFormedFacts
    <3>2. \A j \in 0 .. rloc - 1 : Rloc(j) \in Nat /\ Rloc(j) + 1 < Rloc(rloc)
      BY <1>2, <3>1, WellFormedFacts DEF WellFormed
    <3> QED
      BY <2>1, <3>2 DEF Done
  <2>3. Done' = Done \cup {r}
    <3>1. 0 .. rloc' - 1 = (0 .. rloc - 1) \cup {rloc}
      BY <1>2, <1>6
    <3>2. \A j : Rloc(j)' = Rloc(j)
      BY <1>6 DEF Rloc, field
    <3> QED
      BY <2>1, <3>1, <3>2 DEF Done
  <2>4. /\ CodeOffset' = CodeOffset /\ \A k : Moved(k)' = Moved(k) /\ Address(k)' = Address(k)
    BY <1>6 DEF CodeOffset, field, Moved, Address
  <2>5. q \in CodeOffset .. Len(file) - 1 /\ q + 1 \in CodeOffset .. Len(file) - 1
        /\ Address(q) = p /\ Address(q + 1) = p + 1 /\ q \in Nat
    BY <1>2, <1>5 DEF Address
  <2>6. q - CodeOffset = r /\ q - CodeOffset - 1 = r - 1
        /\ (q + 1) - CodeOffset = r + 1 /\ (q + 1) - CodeOffset - 1 = r /\ q + 1 - 1 = q /\ q + 1 + 1 = q + 2
    BY <1>2, <1>5
  <2>7. r \notin Done /\ r - 1 \notin Done /\ r + 1 \notin Done
    BY <1>2, <2>2
  <2> HIDE DEF q
  <2>8. mem[p] = file[q + 1] /\ mem[p + 1] = file[q + 2]
    BY <2>1, <2>5, <2>6, <2>7 DEF CodeMoved
  <2>9. v = field(q) + Address(CodeOffset)
    BY <2>1, <2>8 DEF v, word, field, p
  <2>10. mem'[p] = Moved(q) % 256 /\ mem'[p + 1] = Moved(q) \div 256
    BY <1>3, <1>4, <2>9, WordBytes DEF Moved
  <2>11. ASSUME NEW k \in CodeOffset .. Len(file) - 1
         PROVE  mem'[Address(k)] = IF k - CodeOffset \in Done' THEN Moved(k) % 256
                                   ELSE IF k - CodeOffset - 1 \in Done' THEN Moved(k - 1) \div 256
                                   ELSE file[k + 1]
    <3>1. CASE k = q
      BY <2>3, <2>5, <2>6, <2>10, <3>1
    <3>2. CASE k = q + 1
      <4>1. r + 1 \notin Done' /\ r \in Done'
        BY <1>2, <2>3, <2>7
      <4> QED
        BY <2>5, <2>6, <2>10, <3>2, <4>1
    <3>3. CASE k # q /\ k # q + 1
      <4>1. Address(k) \in Cells /\ Address(k) # p /\ Address(k) # p + 1
        BY <1>2, <1>5, <2>5, <3>3 DEF Address, Cells
      <4>2. mem'[Address(k)] = mem[Address(k)]
        BY <1>4, <4>1
      <4>3. k - CodeOffset # r /\ k - CodeOffset - 1 # r
        BY <1>2, <1>5, <2>5, <2>6, <3>3
      <4> QED
        BY <2>1, <2>3, <4>2, <4>3 DEF CodeMoved
    <3> QED
      BY <3>1, <3>2, <3>3
  <2> QED
    BY <1>6, <2>4, <2>11 DEF CodeMoved
<1>11. /\ Fitting' /\ Address(2)' <= offset' /\ offset' <= Address(Len(file))'
       /\ ~ShortReads => offset' = Address(Len(file))'
  BY <1>6 DEF Image, Fitting, Address
<1>12. rloc' <= Turns'
  <2>1. Turns' = Turns
    BY <1>6 DEF Turns, pair, got, Address
  <2> QED
    BY <1>1, <1>2, <1>6, <2>1, LoopBounds
<1>13. offset' = Address(Len(file))' => offset = Address(Len(file))
  BY <1>6 DEF Address
<1> QED
  BY <1>8, <1>9, <1>10, <1>11, <1>12, <1>13 DEF Image

-----------------------------------------------------------------------------
(* What read() leaves in memory                                            *)

Copied(rbytes) == [a \in Cells |-> IF a \in offset .. offset + rbytes - 1
                                   THEN file[a - offset + 1] ELSE mem[a]]
Raised(m, k) == m[header + k] + 256 * m[header + (k + 1)] + offset
Entered(m)   == Stored(Stored(m, header + 2, Raised(m, 2)), header + 4, Raised(m, 4))

LEMMA CopiedBytes ==
  ASSUME LoaderType, Untouched, Fitting, NEW rbytes \in Delivered
  PROVE  /\ rbytes \in Int /\ -1 <= rbytes /\ rbytes <= Len(file) /\ Len(file) \in Nat
         /\ Copied(rbytes) \in [Cells -> Byte]
         /\ \A k \in Nat : Address(k) \in Cells =>
              Copied(rbytes)[Address(k)] = IF k < rbytes THEN file[k + 1] ELSE 0
         /\ \A a \in Cells : a < Address(0) => Copied(rbytes)[a] = 0
<1>1. /\ offset = MEMORY_MAPPED_IO_REGION_SIZE /\ offset \in Nat /\ MEMORY_SIZE \in Nat
      /\ offset + Len(file) <= MEMORY_SIZE
      /\ \A a \in Cells : mem[a] = 0
  BY MemoryType DEF Untouched, Fitting, Address
<1>2. Len(file) \in Nat /\ \A k \in Nat : k < Len(file) => file[k + 1] \in Byte
  BY FileType DEF Fitting
<1>3. rbytes \in Int /\ -1 <= rbytes /\ rbytes <= Len(file)
  BY <1>2 DEF Delivered
<1>4. ASSUME NEW k \in Nat, Address(k) \in Cells
      PROVE  Copied(rbytes)[Address(k)] = IF k < rbytes THEN file[k + 1] ELSE 0
  <2>1. Address(k) = offset + k /\ Address(k) - offset + 1 = k + 1
    BY <1>1 DEF Address
  <2>2. Address(k) \in offset .. offset + rbytes - 1 <=> k < rbytes
    BY <1>1, <1>3, <2>1
  <2>3. Copied(rbytes)[Address(k)] = IF k < rbytes THEN file[Address(k) - offset + 1] ELSE mem[Address(k)]
    BY <1>4, <2>2 DEF Copied
  <2> QED
    BY <1>1, <1>4, <2>1, <2>3
<1>5. ASSUME NEW a \in Cells, a < Address(0)
      PROVE  Copied(rbytes)[a] = 0
  <2>1. a \notin offset .. offset + rbytes - 1
    BY <1>1, <1>3, <1>5 DEF Address, Cells
  <2> QED
    BY <1>1, <2>1 DEF Copied
<1>6. Copied(rbytes) \in [Cells -> Byte]
  <2> SUFFICES ASSUME NEW a \in Cells PROVE Copied(rbytes)[a] \in Byte
    BY DEF Copied
  <2>1. 0 \in Byte
    BY ByteDef
  <2>2. CASE a < Address(0)
    BY <1>5, <2>1, <2>2
  <2>3. CASE ~(a < Address(0))
    <3>1. a - offset \in Nat /\ Address(a - offset) = a
      BY <1>1, <2>3 DEF Address, Cells
    <3>2. Copied(rbytes)[a] = IF a - offset < rbytes THEN file[a - offset + 1] ELSE 0
      BY <1>4, <3>1
    <3> QED
      BY <1>2, <1>3, <2>1, <3>1, <3>2
  <2> QED
    BY <2>2, <2>3
<1> QED
  BY <1>2, <1>3, <1>4, <1>5, <1>6

LEMMA EnteredBytes ==
  ASSUME NEW m \in [Cells -> Byte], offset \in Nat
  PROVE  /\ Entered(m) \in [Cells -> Byte]
         /\ \A k \in {2, 4} : /\ Raised(m, k) \in Nat
                              /\ Entered(m)[header + k] = Raised(m, k) % 256
                              /\ Entered(m)[header + (k + 1)] = (Raised(m, k) \div 256) % 256
         /\ \A a \in Cells : a \notin header + 2 .. header + 5 => Entered(m)[a] = m[a]
<1> DEFINE m2 == Stored(m, header + 2, Raised(m, 2))
<1>1. /\ header + 2 \in Nat /\ header + 4 \in Nat
      /\ Inside(header + 2) /\ Inside(header + 4)
      /\ \A k \in 2 .. 5 : header + k \in Cells
      /\ header + 2 + 1 = header + 3 /\ header + 4 + 1 = header + 5
      /\ header \in Nat
  BY MemoryType DEF header, Inside, Cells
<1>2. Raised(m, 2) \in Nat /\ Raised(m, 4) \in Nat
  <2>1. \A k \in 2 .. 5 : m[header + k] \in Nat
    BY <1>1, ByteDef
  <2> QED
    BY <2>1 DEF Raised
<1>3. /\ m2 \in [Cells -> Byte]
      /\ m2[header + 2] = Raised(m, 2) % 256
      /\ m2[header + 3] = (Raised(m, 2) \div 256) % 256
      /\ \A a \in Cells : a # header + 2 /\ a # header + 3 => m2[a] = m[a]
  BY <1>1, <1>2, StoredWord
<1> HIDE DEF m2
<1>4. Entered(m) = Stored(m2, header + 4, Raised(m, 4))
  BY DEF Entered, m2
<1>5. /\ Entered(m) \in [Cells -> Byte]
      /\ Entered(m)[header + 4] = Raised(m, 4) % 256
      /\ Entered(m)[header + 5] = (Raised(m, 4) \div 256) % 256
      /\ \A a \in Cells : a # header + 4 /\ a # header + 5 => Entered(m)[a] = m2[a]
  BY <1>1, <1>2, <1>3, <1>4, StoredWord
<1>6. Entered(m)[header + 2] = m2[header + 2] /\ Entered(m)[header + 3] = m2[header + 3]
  BY <1>1, <1>5
<1>7. ASSUME NEW a \in Cells, a \notin header + 2 .. header + 5
      PROVE  Entered(m)[a] = m[a]
  BY <1>1, <1>3, <1>5, <1>7 DEF Cells
<1> QED
  BY <1>2, <1>3, <1>5, <1>6, <1>7

(* What Read does, with the names from above.                              *)
ReadBad(rbytes)  == /\ mem' = Copied(rbytes) /\ load' = "returned" /\ UNCHANGED offset
ReadGood(rbytes) == /\ Copied(rbytes)[header] + 256 * Copied(rbytes)[header + 1] = MAGIC
                    /\ mem' = Entered(Copied(rbytes))
                    /\ offset' = (offset + rbytes) % 65536
                    /\ load' = "relocate"

LEMMA ReadCases ==
  ASSUME LoaderType, Read
  PROVE  /\ UNCHANGED <<file, rloc, pc>>
         /\ \E rbytes \in Delivered : ReadBad(rbytes) \/ ReadGood(rbytes)
<1>1. DOMAIN mem = Cells
  BY DEF LoaderType
<1>2. header + (2 + 1) = header + 3 /\ header + (4 + 1) = header + 5
  BY MemoryType DEF header
<1> QED
  BY <1>1, <1>2 DEF Read, ReadBad, ReadGood, Copied, Entered, Raised

LEMMA ReadType ==
  ASSUME LoaderType, Untouched, Fitting, Read
  PROVE  LoaderType'
<1>1. PICK rbytes \in Delivered : ReadBad(rbytes) \/ ReadGood(rbytes)
  BY ReadCases
<1>2. Copied(rbytes) \in [Cells -> Byte] /\ rbytes \in Int /\ offset \in Nat
  BY CopiedBytes DEF LoaderType
<1>3. mem' \in [Cells -> Byte]
  BY <1>1, <1>2, EnteredBytes DEF ReadBad, ReadGood
<1>4. (offset + rbytes) % 65536 \in Nat
  BY <1>2
<1>5. UNCHANGED <<file, rloc, pc>>
  BY ReadCases
<1> QED
  BY <1>1, <1>3, <1>4, <1>5 DEF LoaderType, ReadBad, ReadGood

LEMMA ReadImage ==
  ASSUME LoaderType, Untouched, Fitting, WellFormed, Read, load' = "relocate"
  PROVE  Image'
<1>1. PICK rbytes \in Delivered : ReadGood(rbytes)
  BY ReadCases DEF ReadBad
<1> DEFINE m == Copied(rbytes)
<1>2. /\ rbytes \in Int /\ -1 <= rbytes /\ rbytes <= Len(file) /\ Len(file) \in Nat
      /\ m \in [Cells -> Byte]
      /\ \A k \in Nat : Address(k) \in Cells => m[Address(k)] = IF k < rbytes THEN file[k + 1] ELSE 0
      /\ \A a \in Cells : a < Address(0) => m[a] = 0
  BY CopiedBytes
<1>3. m[header] + 256 * m[header + 1] = MAGIC /\ mem' = Entered(m)
      /\ offset' = (offset + rbytes) % 65536
  BY <1>1 DEF ReadGood
<1> HIDE DEF m
<1>4. /\ MEMORY_MAPPED_IO_REGION_SIZE \in Nat /\ MEMORY_SIZE \in Nat /\ MEMORY_SIZE < 65536
      /\ offset = MEMORY_MAPPED_IO_REGION_SIZE
      /\ MEMORY_MAPPED_IO_REGION_SIZE + Len(file) <= MEMORY_SIZE
      /\ CodeOffset \in Nat /\ 8 <= CodeOffset /\ CodeOffset < Len(file)
  BY MemoryType, WellFormedFacts DEF Untouched, Fitting, Address
<1>5. \A k \in Nat : k < Len(file) => Address(k) \in Cells
  BY <1>2, <1>4 DEF Address, Cells
<1>6. 2 <= rbytes
  <2>1. header = Address(0) /\ header + 1 = Address(1) /\ Address(0) \in Cells /\ Address(1) \in Cells
    BY <1>2, <1>4, <1>5 DEF header, Address
  <2>2. m[Address(0)] \in Byte
    BY <1>2, <2>1
  <2>3. m[Address(0)] + 256 * m[Address(1)] = MAGIC
    BY <1>3, <2>1
  <2>4. m[Address(1)] # 0
    BY <2>2, <2>3, ByteDef DEF MAGIC
  <2>5. m[Address(1)] = IF 1 < rbytes THEN file[1 + 1] ELSE 0
    BY <1>2, <2>1
  <2> QED
    BY <1>2, <2>4, <2>5
<1>7. offset' = MEMORY_MAPPED_IO_REGION_SIZE + rbytes
  BY <1>2, <1>3, <1>4, <1>6
<1>8. UNCHANGED <<file, rloc>> /\ rloc' = 0
  BY ReadCases DEF Untouched
<1>9. \A k \in Nat : got(k)' = IF k < rbytes THEN file[k + 1] ELSE 0
  <2>1. \A k \in Nat : Address(k)' < offset' <=> k < rbytes
    BY <1>2, <1>4, <1>7 DEF Address
  <2> QED
    BY <1>8, <2>1 DEF got
<1>10. \A k \in Nat : k < Len(file) => m[Address(k)] = got(k)'
  BY <1>2, <1>5, <1>9
<1>11. /\ mem' \in [Cells -> Byte]
       /\ \A k \in {2, 4} : /\ Raised(m, k) \in Nat
                            /\ mem'[header + k] = Raised(m, k) % 256
                            /\ mem'[header + (k + 1)] = (Raised(m, k) \div 256) % 256
       /\ \A a \in Cells : a \notin header + 2 .. header + 5 => mem'[a] = m[a]
  BY <1>2, <1>3, <1>4, EnteredBytes
<1>12. /\ Fitting' /\ Address(2)' <= offset' /\ offset' <= Address(Len(file))'
       /\ ~ShortReads => offset' = Address(Len(file))'
  BY <1>2, <1>4, <1>6, <1>7, <1>8 DEF Fitting, Address, Delivered
<1>13. rloc' <= Turns'
  <2>1. got(6)' \in Nat /\ got(6 + 1)' \in Nat
    <3>1. 6 \in Nat /\ 6 < Len(file) /\ 6 + 1 \in Nat /\ 6 + 1 < Len(file)
      BY <1>2, <1>4
    <3>2. got(6)' \in Byte /\ got(6 + 1)' \in Byte
      BY <1>2, <1>5, <1>10, <3>1
    <3> QED
      BY <3>2, ByteDef
  <2> QED
    BY <1>8, <2>1 DEF Turns, pair
<1>14. ASSUME NEW k \in {2, 4}
       PROVE  word(header + k)' = (pair(k) + MEMORY_MAPPED_IO_REGION_SIZE)' % 65536
  <2>1. header + k = Address(k) /\ header + (k + 1) = Address(k + 1) /\ header + k + 1 = header + (k + 1)
    BY <1>4 DEF header, Address
  <2>2. m[Address(k)] = got(k)' /\ m[Address(k + 1)] = got(k + 1)'
    BY <1>2, <1>4, <1>10
  <2>3. Raised(m, k) = pair(k)' + MEMORY_MAPPED_IO_REGION_SIZE
    BY <1>4, <2>1, <2>2 DEF Raised, pair
  <2>4. word(header + k)' = (Raised(m, k) % 256) + 256 * ((Raised(m, k) \div 256) % 256)
    BY <1>11, <2>1 DEF word, header
  <2>5. word(header + k)' = Raised(m, k) % 65536
    BY <1>11, <2>4, WordBytes
  <2> QED
    BY <2>3, <2>5
<1>15. ASSUME NEW k \in Nat, k < Len(file), k < 2 \/ 6 <= k
       PROVE  mem'[Address(k)] = got(k)'
  <2>1. Address(k) \in Cells /\ Address(k) \notin header + 2 .. header + 5
    BY <1>4, <1>5, <1>15 DEF Address, header
  <2> QED
    BY <1>10, <1>11, <1>15, <2>1
<1>16. HeaderKept'
  <2>1. CodeOffset' = CodeOffset
    BY <1>8 DEF CodeOffset, field
  <2>2. \A k \in {0, 1} \cup 6 .. CodeOffset - 1 : mem'[Address(k)] = got(k)'
    BY <1>2, <1>4, <1>15
  <2>3. /\ word(header + 2)' = (pair(2) + MEMORY_MAPPED_IO_REGION_SIZE)' % 65536
        /\ word(header + 4)' = (pair(4) + MEMORY_MAPPED_IO_REGION_SIZE)' % 65536
    BY <1>14
  <2> QED
    BY <2>1, <2>2, <2>3 DEF HeaderKept, Address, header
<1>17. Outskirts'
  <2> SUFFICES ASSUME NEW a \in Cells, a \notin Address(0) .. Address(Len(file) - 1)
               PROVE  mem'[a] = 0
    BY <1>8 DEF Outskirts, Address
  <2>1. a \notin header + 2 .. header + 5
    BY <1>2, <1>4 DEF Address, header
  <2>2. mem'[a] = m[a]
    BY <1>11, <2>1
  <2>3. CASE a < Address(0)
    BY <1>2, <2>2, <2>3
  <2>4. CASE ~(a < Address(0))
    <3> DEFINE k == a - MEMORY_MAPPED_IO_REGION_SIZE
    <3>1. k \in Nat /\ Address(k) = a /\ ~(k < rbytes)
      BY <1>2, <1>4, <2>4 DEF Address, Cells
    <3> QED
      BY <1>2, <2>2, <3>1
  <2> QED
    BY <2>3, <2>4
<1>18. ASSUME offset' = Address(Len(file))'
       PROVE  CodeMoved'
  <2>1. rbytes = Len(file)
    BY <1>2, <1>4, <1>7, <1>8, <1>18 DEF Address
  <2>2. Done' = {}
    BY <1>8 DEF Done
  <2>3. \A k \in CodeOffset .. Len(file) - 1 : mem'[Address(k)] = file[k + 1]
    BY <1>2, <1>4, <1>9, <1>15, <2>1
  <2>4. CodeOffset' = CodeOffset
    BY <1>8 DEF CodeOffset, field
  <2> QED
    BY <1>8, <2>2, <2>3, <2>4 DEF CodeMoved, Address
<1> QED
  BY <1>12, <1>13, <1>16, <1>17, <1>18 DEF Image

-----------------------------------------------------------------------------
(* One lemma for each step                                                 *)

LEMMA SameFile ==
  ASSUME file' = file
  PROVE  WellFormed' = WellFormed /\ Fitting' = Fitting
BY DEF WellFormed, Relocs, RelocCount, CodeOffset, EntryOffset, CodeSize, Rloc, field,
       Fitting, Address

LEMMA SameImage ==
  ASSUME UNCHANGED <<mem, file, offset, rloc>>
  PROVE  /\ Image' = Image /\ Untouched' = Untouched
         /\ Turns' = Turns /\ word(header + 4)' = word(header + 4)
<1>1. /\ CodeOffset' = CodeOffset
      /\ \A k : field(k)' = field(k) /\ Rloc(k)' = Rloc(k) /\ Moved(k)' = Moved(k)
  BY DEF CodeOffset, field, Rloc, Moved, Address
<1>2. Done' = Done /\ \A k : got(k)' = got(k) /\ pair(k)' = pair(k)
  BY <1>1 DEF Done, got, pair, Address
<1>3. Turns' = Turns /\ \A n : word(header + n)' = word(header + n)
  BY <1>2 DEF Turns, word, header
<1>4. Fitting' = Fitting /\ Outskirts' = Outskirts /\ HeaderKept' = HeaderKept /\ CodeMoved' = CodeMoved
  BY <1>1, <1>2, <1>3 DEF Fitting, Outskirts, HeaderKept, CodeMoved, Address
<1> QED
  BY <1>3, <1>4 DEF Image, Untouched, Address

LEMMA InitLoader == Init => LoaderInv
<1>1. 0 \in Byte /\ 0 < 65536
  BY ByteDef
<1>2. Init => LoaderType
  BY <1>1, MemoryType DEF Init, LoaderType, Cells
<1> QED
  BY <1>2 DEF Init, LoaderInv, Untouched, Cells

LEMMA OpenInv == ASSUME LoaderInv, Open PROVE LoaderInv'
<1>1. UNCHANGED <<mem, file, offset, rloc, pc>> /\ load = "open" /\ load' \in {"returned", "read"}
  BY DEF Open
<1>2. LoaderType' /\ Untouched'
  BY <1>1, SameImage DEF LoaderInv, LoaderType
<1>3. ASSUME load' = "read"
      PROVE  Fitting'
  <2>1. file # Missing /\ ~TooLarge
    BY <1>3 DEF Open
  <2>2. Len(file) \in Nat
    BY <2>1, FileType DEF LoaderInv
  <2>3. offset = MEMORY_MAPPED_IO_REGION_SIZE
    BY <1>1 DEF LoaderInv, Untouched
  <2>4. Fitting
    BY <2>1, <2>2, <2>3, MemoryType DEF TooLarge, Fitting, Address
  <2> QED
    BY <1>1, <2>4, SameFile
<1> QED
  BY <1>1, <1>2, <1>3 DEF LoaderInv

LEMMA ReadInv == ASSUME LoaderInv, Read PROVE LoaderInv'
<1>1. LoaderType /\ Untouched /\ Fitting
  BY DEF LoaderInv, Read
<1>2. LoaderType' /\ file' = file /\ load' \in {"returned", "relocate"}
  BY <1>1, ReadType, ReadCases DEF ReadBad, ReadGood
<1>3. WellFormed' /\ load' = "relocate" => Image'
  BY <1>1, <1>2, SameFile, ReadImage
<1> QED
  BY <1>2, <1>3 DEF LoaderInv

LEMMA RelocateInv == ASSUME LoaderInv, Relocate PROVE LoaderInv'
<1>1. LoaderType' /\ file' = file /\ load' = "relocate" /\ load = "relocate"
  BY RelocateType DEF LoaderInv, Relocate
<1>2. WellFormed' => Image'
  BY <1>1, SameFile, RelocateImage DEF LoaderInv
<1> QED
  BY <1>1, <1>2 DEF LoaderInv

(* The step that leaves mem[]: no well-formed binary takes it.             *)
LEMMA StrayInv == ASSUME LoaderInv, Stray PROVE LoaderInv'
<1>1. UNCHANGED <<mem, file, offset, rloc, pc>> /\ load' = "wild"
  BY DEF Stray
<1>2. ~WellFormed
  <2>1. SUFFICES ASSUME WellFormed PROVE FALSE
    OBVIOUS
  <2>2. LoaderType /\ Image /\ rloc < Turns
    BY <2>1, LoopBounds DEF LoaderInv, Stray
  <2> QED
    BY <2>1, <2>2, EntryRead DEF Stray
<1>3. LoaderType'
  BY <1>1 DEF LoaderInv, LoaderType
<1> QED
  BY <1>1, <1>2, <1>3, SameFile DEF LoaderInv

LEMMA StartInv == ASSUME LoaderInv, Start PROVE LoaderInv'
<1>1. UNCHANGED <<mem, file, offset, rloc>> /\ load = "relocate" /\ load' = "exec" /\ pc' = entry_offset
  BY DEF Start
<1>2. LoaderType'
  BY <1>1, HeaderType DEF LoaderInv, LoaderType
<1>3. ASSUME WellFormed'
      PROVE  Image' /\ rloc' = Turns' /\ pc' = word(header + 4)'
  <2>1. LoaderType /\ WellFormed /\ Image
    BY <1>1, <1>3, SameFile DEF LoaderInv
  <2>2. rloc = Turns
    BY <2>1, LoopBounds DEF Start, Image, LoaderType
  <2> QED
    BY <1>1, <2>1, <2>2, SameImage DEF entry_offset
<1> QED
  BY <1>1, <1>2, <1>3 DEF LoaderInv

LEMMA NextLoader == LoaderInv /\ [Next]_varsL => LoaderInv'
<1> SUFFICES ASSUME LoaderInv, [Next]_varsL PROVE LoaderInv'
  OBVIOUS
<1>1. CASE UNCHANGED varsL
  <2>1. UNCHANGED <<mem, file, offset, rloc>> /\ UNCHANGED pc /\ UNCHANGED load
    BY <1>1 DEF varsL
  <2>2. LoaderType'
    BY <2>1 DEF LoaderInv, LoaderType
  <2> QED
    BY <2>1, <2>2, SameFile, SameImage DEF LoaderInv
<1> QED
  BY <1>1, OpenInv, ReadInv, RelocateInv, StrayInv, StartInv DEF Next

LEMMA AlwaysLoader == Spec => []LoaderInv
BY InitLoader, NextLoader, PTL DEF Spec

-----------------------------------------------------------------------------
(* No well-formed binary makes the loop leave mem[], however many bytes of *)
(* it read() has delivered.                                                *)
THEOREM LoopStaysInside == Spec => []NeverStrays
<1>1. LoaderInv => NeverStrays
  BY DEF LoaderInv, NeverStrays
<1> QED
  BY <1>1, AlwaysLoader, PTL

LEMMA ImageOfLoop == LoaderInv => LoadsImage
<1> SUFFICES ASSUME LoaderInv, load = "exec", WellFormed, offset = Address(Len(file))
             PROVE  /\ pc = Address(EntryOffset)
                    /\ \A k \in CodeOffset .. Len(file) - 1 :
                         mem[Address(k)] = IF k - CodeOffset \in Relocs THEN Moved(k) % 256
                                           ELSE IF k - CodeOffset - 1 \in Relocs THEN Moved(k - 1) \div 256
                                           ELSE file[k + 1]
                    /\ \A k \in {0, 1} \cup 6 .. CodeOffset - 1 : mem[Address(k)] = file[k + 1]
                    /\ \A a \in DOMAIN mem : a \notin Address(0) .. Address(Len(file) - 1) => mem[a] = 0
  BY DEF LoadsImage
<1>1. LoaderType /\ Image /\ rloc = Turns /\ pc = word(header + 4)
  BY DEF LoaderInv
<1>2. /\ CodeOffset \in Nat /\ 8 <= CodeOffset /\ CodeOffset <= EntryOffset /\ EntryOffset < Len(file)
      /\ Len(file) \in Nat /\ EntryOffset \in Nat /\ RelocCount \in Nat
      /\ MEMORY_MAPPED_IO_REGION_SIZE \in Nat /\ MEMORY_SIZE \in Nat /\ MEMORY_SIZE < 65536
      /\ Address(Len(file)) <= MEMORY_SIZE
  BY <1>1, MemoryType, WellFormedFacts DEF Image, Fitting
<1>3. \A k \in Nat : k < Len(file) => Address(k) < offset /\ got(k) = file[k + 1]
  BY <1>2 DEF got, Address
<1>4. \A k \in Nat : k + 1 < Len(file) => pair(k) = field(k)
  <2> SUFFICES ASSUME NEW k \in Nat, k + 1 < Len(file) PROVE pair(k) = field(k)
    OBVIOUS
  <2>1. k < Len(file) /\ k + 1 \in Nat /\ k + 1 + 1 = k + 2
    BY <1>2
  <2>2. got(k) = file[k + 1] /\ got(k + 1) = file[k + 2]
    BY <1>3, <2>1
  <2> QED
    BY <2>2 DEF pair, field
<1>5. Turns = RelocCount /\ pair(4) = EntryOffset
  BY <1>2, <1>4 DEF Turns, RelocCount, EntryOffset
<1>6. Done = Relocs
  BY <1>1, <1>5 DEF Done, Relocs
<1>7. pc = Address(EntryOffset)
  <2>1. pc = (EntryOffset + MEMORY_MAPPED_IO_REGION_SIZE) % 65536
    BY <1>1, <1>5 DEF Image, HeaderKept
  <2>2. EntryOffset + MEMORY_MAPPED_IO_REGION_SIZE < 65536
    BY <1>2 DEF Address
  <2> QED
    BY <1>2, <2>1, <2>2 DEF Address
<1>8. \A k \in {0, 1} \cup 6 .. CodeOffset - 1 : mem[Address(k)] = file[k + 1]
  <2>1. \A k \in {0, 1} \cup 6 .. CodeOffset - 1 : mem[Address(k)] = got(k)
    BY <1>1 DEF Image, HeaderKept
  <2> QED
    BY <1>2, <1>3, <2>1
<1> QED
  BY <1>1, <1>6, <1>7, <1>8 DEF Image, CodeMoved, Outskirts, LoaderType

(* A well-formed binary that has been read to its end starts at its entry  *)
(* with the words of its table moved, and no other byte changed.           *)
THEOREM ImageIsLoaded == Spec => []LoadsImage
BY ImageOfLoop, AlwaysLoader, PTL
=============================================================================
