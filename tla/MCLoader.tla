------------------------------ MODULE MCLoader ------------------------------
(***************************************************************************)
(* Loader on a memory of 23 bytes: binaries with up to three relocations   *)
(* and four to seven bytes of code, well-formed ones with every relocation *)
(* that fits, and ones whose magic, code address, entry, table or length   *)
(* is off. The largest just fits, the next larger one does not.            *)
(***************************************************************************)
EXTENDS Loader

MCIoSize == 3
MCMemorySize == 23

Bytes2(w) == <<w % 256, w \div 256>>

Binary(magic, code_at, entry, count, table, code) ==
  Bytes2(magic) \o Bytes2(code_at) \o Bytes2(entry) \o Bytes2(count)
    \o FlattenSeq([k \in DOMAIN table |-> Bytes2(table[k])]) \o code

Codes  == {<<250, 3, 251, 255>>, <<1, 0, 0, 0, 255, 255>>, <<9, 9, 9, 9, 9, 9, 9>>}
Tables == {<<>>, <<0>>, <<1>>, <<2>>, <<0, 2>>, <<1, 3>>, <<2, 0>>, <<2, 2>>, <<0, 1>>, <<0, 2, 4>>, <<1, 3, 5>>}

Good == {Binary(MAGIC, HeaderSize + 2 * Len(t), HeaderSize + 2 * Len(t) + e, Len(t), t, c) :
           t \in Tables, c \in Codes, e \in {0, 3}}

(* Code addresses that make the loop patch the header and the table, or    *)
(* wrap at 2^16; counts that read the code as table.                       *)
Odd == {Binary(m, at, e, n, t, c) :
          m \in {MAGIC, MAGIC + 1}, at \in {0, 2, 10, 65530}, e \in {12, 65534},
          n \in 0 .. 4, t \in {<<>>, <<6>>, <<8, 6>>}, c \in Codes}

Short == {SubSeq(Binary(MAGIC, 10, 10, 1, <<0>>, <<9, 9, 9>>), 1, k) : k \in 0 .. 9}

MCFiles == Good \cup Odd \cup Short
=============================================================================
