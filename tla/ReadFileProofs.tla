--------------------------- MODULE ReadFileProofs ---------------------------
(***************************************************************************)
(* read_file never leaves its buffers, loses nothing and reads what is     *)
(* meant, for every file and every size of line[], word[] and raw[][].     *)
(*                                                                         *)
(* Between two turns of the loop over a quoted word its length is only     *)
(* known from the position in the line: an escape adds as many characters  *)
(* to the word as it takes from the line, and the opening quote is the one *)
(* character to spare that leaves room for both characters of the last     *)
(* escape. ReadInv says so.                                                *)
(*                                                                         *)
(* A file without quotes loses nothing (Lossless), and a file that is the  *)
(* text of written lines is read as they are meant: Follows ties the scan  *)
(* to the line, the word and the character of it that fgets and the loops  *)
(* have come to.                                                           *)
(***************************************************************************)
EXTENDS ReadFile, SequenceFacts

(* The characters with a meaning are strings too; naming them spares the   *)
(* provers to find out.                                                    *)
Char == STRING \cup {"\t", "\r", " ", "n", "t", "r", Newline, Nul, Escape, Quote}
Text == Seq(Char)

ReadType ==
  /\ text \in Text /\ at \in Nat \ {0}
  /\ line \in Text /\ p \in Nat \ {0}
  /\ word \in Text /\ words \in Seq(Text)
  /\ raw \in Seq(Seq(Text))
  /\ reading \in {"line", "word", "bare", "quoted", "read"}

ReadInv ==
  /\ ReadType
  /\ StaysInBuffers
  /\ reading \in {"bare", "quoted"} => Len(words) < MAX_WORDS
  /\ reading \in {"word", "bare", "quoted"} => Len(raw) < MAX_LINES
  /\ reading = "quoted" => Len(word) <= p - 2

-----------------------------------------------------------------------------
(* Positions and lengths                                                   *)

(* A string of the C library is no longer than the bytes it is read from.  *)
LEMMA UpToNulType ==
  ASSUME NEW s \in Text
  PROVE  UpToNul(s) \in Text /\ Len(UpToNul(s)) <= Len(s)
<1> DEFINE I == {k \in 1 .. Len(s) : s[k] = Nul}
           k == IF I # {} THEN Min(I) ELSE 0
<1>1. UpToNul(s) = IF k = 0 THEN s ELSE SubSeq(s, 1, k - 1)
  BY DEF UpToNul, SelectInSeq
<1>2. k \in 0 .. Len(s)
  <2>1. I \in SUBSET (1 .. Len(s)) /\ Len(s) \in Nat
    BY DEF Text
  <2> HIDE DEF I
  <2> QED
    BY <2>1, FirstType
<1>3. CASE k = 0
  BY <1>1, <1>3 DEF Text
<1>4. CASE k # 0
  <2>1. \A n \in 1 .. k - 1 : s[n] \in Char
    BY <1>2 DEF Text
  <2> HIDE DEF k
  <2>2. SubSeq(s, 1, k - 1) \in Seq(Char) /\ Len(SubSeq(s, 1, k - 1)) = IF 1 <= k - 1 THEN k - 1 ELSE 0
    BY <1>2, <2>1, SubSeqProperties
  <2> QED
    BY <1>1, <1>2, <1>4, <2>2 DEF Text
<1> QED
  BY <1>3, <1>4

(* fgets takes what is left of the text, a line of it or what fits.        *)
LEMMA TakenType ==
  ASSUME text \in Text, at \in 1 .. Len(text), ReadFileAssumption
  PROVE  /\ Taken \in Nat /\ Taken < MAX_LINE_LENGTH
         /\ Taken <= Len(text) - at + 1
<1> DEFINE rest == SubSeq(text, at, Len(text))
           I    == {m \in 1 .. Len(rest) : rest[m] = Newline}
           k    == IF I # {} THEN Min(I) ELSE 0
           n    == IF k = 0 THEN Len(rest) ELSE k
<1>1. Taken = IF n < MAX_LINE_LENGTH THEN n ELSE MAX_LINE_LENGTH - 1
  BY DEF Taken, SelectInSeq
<1>2. Len(rest) = Len(text) - at + 1
  BY SubSeqProperties DEF Text
<1>3. n \in 0 .. Len(rest)
  <2>1. I \in SUBSET (1 .. Len(rest)) /\ Len(rest) \in Nat
    BY <1>2 DEF Text
  <2> HIDE DEF I, rest
  <2>2. k \in 0 .. Len(rest)
    BY <2>1, FirstType
  <2> HIDE DEF k
  <2> QED
    BY <2>1, <2>2
<1> HIDE DEF n, rest
<1> QED
  BY <1>1, <1>2, <1>3 DEF ReadFileAssumption, Text

LEMMA Characters ==
  /\ {"\t", "\r", Newline, Nul, Escape, Quote} \subseteq Char
  /\ \A f \in Files : f.text \in Text
<1>1. {"\t", "\r", Newline, Nul, Escape, Quote} \subseteq Char
  BY Zenon DEF Char
<1>2. ASSUME NEW f \in Files
      PROVE  f.text \in Text
  <2>1. STRING \subseteq Char
    BY Zenon DEF Char
  <2>2. f.text \in Seq(STRING)
    BY ReadFileAssumption, Zenon DEF ReadFileAssumption
  <2> QED
    BY <2>1, <2>2, SeqMonotonic, Zenon DEF Text
<1> QED
  BY <1>1, <1>2, Zenon

(* Every mark and what it stands for.                                      *)
LEMMA Escapes ==
  /\ Unescaped("n") = <<Newline>>
  /\ Unescaped("t") = <<"\t">>
  /\ Unescaped("r") = <<"\r">>
  /\ Unescaped(Escape) = <<Escape>>
  /\ Unescaped(Quote) = <<Quote>>
  /\ Unescaped("0") = <<Nul>>
  /\ Spelled(Newline) = <<Escape, "n">>
  /\ Spelled("\t") = <<Escape, "t">>
  /\ Spelled("\r") = <<Escape, "r">>
  /\ Spelled(Escape) = <<Escape, Escape>>
  /\ Spelled(Quote) = <<Escape, Quote>>
<1>1. Unescaped("n") = <<Newline>>
  BY DEF Unescaped, Spelled, Escape, Quote, Newline
<1>2. Unescaped("t") = <<"\t">>
  BY DEF Unescaped, Spelled, Escape, Quote, Newline
<1>3. Unescaped("r") = <<"\r">>
  BY DEF Unescaped, Spelled, Escape, Quote, Newline
<1>4. Unescaped(Escape) = <<Escape>>
  BY DEF Unescaped, Spelled, Escape, Quote, Newline
<1>0. Quote \notin {"n", "t", "r", "0", "\t", "\r", Newline, Escape}
  BY DEF Quote, Newline, Escape
<1>5. Unescaped(Quote) = <<Quote>>
  BY <1>0 DEF Unescaped
<1>6. Spelled(Newline) = <<Escape, "n">>
  BY DEF Unescaped, Spelled, Escape, Quote, Newline
<1>7. Spelled("\t") = <<Escape, "t">>
  BY DEF Unescaped, Spelled, Escape, Quote, Newline
<1>8. Spelled("\r") = <<Escape, "r">>
  BY DEF Unescaped, Spelled, Escape, Quote, Newline
<1>9. Spelled(Escape) = <<Escape, Escape>>
  BY DEF Unescaped, Spelled, Escape, Quote, Newline
<1>10. Spelled(Quote) = <<Escape, Quote>>
  BY <1>0 DEF Spelled
<1>11. Unescaped("0") = <<Nul>>
  <2>1. "0" \notin {"n", "t", "r", Escape}
    BY DEF Escape
  <2> QED
    BY <1>0, <2>1 DEF Unescaped
<1> QED
  BY <1>11, <1>1, <1>2, <1>3, <1>4, <1>5, <1>6, <1>7, <1>8, <1>9, <1>10

(* What a backslash and the character behind it add to a word.             *)
LEMMA UnescapedType ==
  ASSUME NEW c \in Char
  PROVE  Unescaped(c) \in Text /\ Len(Unescaped(c)) <= 2
<1>1. \A d \in Char : <<d>> \in Text /\ Len(<<d>>) = 1
  BY DEF Text
<1>2. <<Escape, c>> \in Text /\ Len(<<Escape, c>>) = 2
  BY Characters DEF Text
<1>3. CASE c \in {"n", "t", "r", "0", Escape, Quote}
  <2>1. \E d \in Char : Unescaped(c) = <<d>>
    BY <1>3, Characters, Escapes, Zenon
  <2> QED
    BY <1>1, <2>1
<1>4. CASE c \notin {"n", "t", "r", "0", Escape, Quote}
  <2>1. Unescaped(c) = <<Escape, c>>
    BY <1>4 DEF Unescaped
  <2> QED
    BY <1>2, <2>1
<1> QED
  BY <1>3, <1>4

LEMMA LineType ==
  ASSUME ReadType
  PROVE  /\ Len(line) \in Nat /\ Len(word) \in Nat
         /\ More => line[p] \in Char
         /\ p < Len(line) => line[p + 1] \in Char
BY DEF ReadType, Text, More

-----------------------------------------------------------------------------
(* One lemma for each step                                                 *)

LEMMA InitRead == Init => ReadInv
BY Characters, ReadFileAssumption, EmptySeq DEF ReadFileAssumption, Init, ReadInv, ReadType, StaysInBuffers, Text, text

LEMMA FgetsInv == ASSUME ReadInv, Fgets PROVE ReadInv'
<1>1. at \in 1 .. Len(text) /\ text \in Text
  BY DEF Fgets, ReadInv, ReadType, Text
<1>2. Taken \in Nat /\ Taken < MAX_LINE_LENGTH /\ Taken <= Len(text) - at + 1
  BY <1>1, TakenType, ReadFileAssumption
<1> DEFINE s == SubSeq(text, at, at + Taken - 1)
<1>3. s \in Text /\ Len(s) = Taken
  <2>1. \A n \in at .. at + Taken - 1 : text[n] \in Char
    BY <1>1, <1>2 DEF Text
  <2> QED
    BY <1>1, <1>2, <2>1, SubSeqProperties DEF Text
<1>4. line' \in Text /\ Len(line') < MAX_LINE_LENGTH
  <2>1. line' = UpToNul(s)
    BY DEF Fgets
  <2> HIDE DEF s
  <2>2. UpToNul(s) \in Text /\ Len(UpToNul(s)) <= Taken
    BY <1>3, UpToNulType
  <2>3. Len(UpToNul(s)) \in Nat
    BY <2>2 DEF Text
  <2> QED
    BY <1>2, <2>1, <2>2, <2>3, ReadFileAssumption DEF ReadFileAssumption
<1>5. text' = text
  BY DEF Fgets, text
<1> QED
  BY <1>1, <1>2, <1>4, <1>5, EmptySeq, ReadFileAssumption
     DEF Fgets, ReadInv, ReadType, StaysInBuffers, Text, ReadFileAssumption

LEMMA EndOfFileInv == ASSUME ReadInv, EndOfFile PROVE ReadInv'
BY DEF EndOfFile, ReadInv, ReadType, StaysInBuffers, text

LEMMA EndLineInv == ASSUME ReadInv, EndLine PROVE ReadInv'
<1>1. /\ raw \in Seq(Seq(Text)) /\ words \in Seq(Text)
      /\ \A n \in DOMAIN raw : Len(raw[n]) <= MAX_WORDS
      /\ Len(words) <= MAX_WORDS
  BY DEF ReadInv, ReadType, StaysInBuffers
<1>2. /\ raw' \in Seq(Seq(Text)) /\ Len(raw') = Len(raw) + 1
      /\ \A n \in DOMAIN raw' : raw'[n] = IF n = Len(raw) + 1 THEN words ELSE raw[n]
  BY <1>1, AppendType DEF EndLine
<1>3. \A n \in DOMAIN raw' : n # Len(raw) + 1 => n \in DOMAIN raw
  BY <1>1, <1>2
<1>4. \A n \in DOMAIN raw' : Len(raw'[n]) <= MAX_WORDS
  BY <1>1, <1>2, <1>3
<1>5. Len(raw') <= MAX_LINES
  BY <1>1, <1>2, ReadFileAssumption DEF EndLine, ReadInv, ReadFileAssumption
<1> QED
  BY <1>2, <1>4, <1>5 DEF EndLine, ReadInv, ReadType, StaysInBuffers, text

LEMMA SkipSpaceInv == ASSUME ReadInv, SkipSpace PROVE ReadInv'
BY DEF SkipSpace, AtWord, More, Past, ReadInv, ReadType, StaysInBuffers, Text, text

LEMMA StartWordInv == ASSUME ReadInv, StartWord PROVE ReadInv'
BY ReadFileAssumption
   DEF StartWord, AtWord, More, Past, ReadInv, ReadType, StaysInBuffers, Text, text, ReadFileAssumption

LEMMA WordType ==
  ASSUME ReadInv
  PROVE  /\ word \in Seq(Char) /\ line \in Seq(Char)
         /\ Len(line) \in Nat /\ Len(word) \in Nat /\ p \in Nat \ {0}
         /\ \A q \in Nat \ {0} : q <= Len(line) => line[q] \in Char
         /\ Len(line) < MAX_LINE_LENGTH /\ MAX_LINE_LENGTH \in Nat
BY ReadFileAssumption DEF ReadInv, ReadType, StaysInBuffers, Text, ReadFileAssumption

(* A turn of the loop over a word's characters changes the word and the    *)
(* position only.                                                          *)
LEMMA TurnInv ==
  ASSUME ReadInv, reading \in {"bare", "quoted"},
         UNCHANGED <<file, at, line, words, raw, reading>>,
         word' \in Seq(Char), Len(word') < MAX_LINE_LENGTH,
         p' \in Nat \ {0}, p' <= Len(line) + 1,
         reading = "quoted" => Len(word') <= p' - 2
  PROVE  ReadInv'
BY DEF ReadInv, ReadType, StaysInBuffers, Text, text

LEMMA BareInv == ASSUME ReadInv, Bare PROVE ReadInv'
<1>1. p \in Nat \ {0} /\ p <= Len(line) /\ p' = p + 1 /\ line[p] \in Char
  BY WordType DEF Bare, More, Past
<1>2. word' \in Seq(Char) /\ Len(word') < MAX_LINE_LENGTH
  <2>1. CASE Room
    <3>1. word' = Append(word, line[p])
      BY <2>1 DEF Bare
    <3>2. word' \in Seq(Char) /\ Len(word') = Len(word) + 1
      BY <1>1, <3>1, WordType, AppendType
    <3> QED
      BY <2>1, <3>2, WordType DEF Room
  <2>2. CASE ~Room
    BY <2>2, WordType DEF Bare, ReadInv, StaysInBuffers
  <2> QED
    BY <2>1, <2>2
<1> QED
  BY <1>1, <1>2, WordType, TurnInv DEF Bare

LEMMA QuotedInv == ASSUME ReadInv, Quoted PROVE ReadInv'
<1>1. p \in Nat \ {0} /\ p <= Len(line) /\ p' = p + 1 /\ line[p] \in Char
  BY WordType DEF Quoted, More, Past
<1>2. word' \in Seq(Char) /\ Len(word') = Len(word) + 1
  BY <1>1, WordType, AppendType DEF Quoted
<1>3. reading = "quoted" /\ Len(word) <= p - 2
  BY DEF Quoted, ReadInv
<1> QED
  BY <1>1, <1>2, <1>3, WordType, TurnInv DEF Quoted

LEMMA EscapedInv == ASSUME ReadInv, Escaped PROVE ReadInv'
<1>1. p \in Nat \ {0} /\ p <= Len(line) /\ p' = Behind(p)
  BY WordType DEF Escaped, More
<1>2. reading = "quoted" /\ Len(word) <= p - 2
  BY DEF Escaped, ReadInv
<1> DEFINE added == IF p < Len(line) THEN Unescaped(line[p + 1]) ELSE <<Escape>>
<1>3. added \in Seq(Char) /\ Len(added) \in Nat /\ Len(added) <= p' - p
  <2>1. CASE p < Len(line)
    <3>1. line[p + 1] \in Char
      BY <1>1, <2>1, WordType
    <3>2. added = Unescaped(line[p + 1]) /\ p' = p + 2
      BY <1>1, <2>1 DEF Behind
    <3> HIDE DEF added
    <3> QED
      BY <1>1, <3>1, <3>2, UnescapedType DEF Text
  <2>2. CASE ~(p < Len(line))
    <3>1. added = <<Escape>> /\ p' = p + 1 /\ Escape \in Char
      BY <1>1, <2>2, Characters DEF Behind
    <3> HIDE DEF added
    <3> QED
      BY <1>1, <3>1
  <2> QED
    BY <2>1, <2>2
<1>4. word' = word \o added
  BY DEF Escaped
<1>5. p' \in Nat \ {0} /\ p' <= Len(line) + 1
  BY <1>1, WordType DEF Behind
<1> HIDE DEF added
<1>6. word' \in Seq(Char) /\ Len(word') = Len(word) + Len(added)
  BY <1>3, <1>4, WordType, ConcatProperties
<1>7. Len(word') <= p' - 2 /\ Len(word') < MAX_LINE_LENGTH
  BY <1>1, <1>2, <1>3, <1>5, <1>6, WordType
<1> QED
  BY <1>2, <1>5, <1>6, <1>7, TurnInv DEF Escaped

LEMMA EndWordInv == ASSUME ReadInv, EndWord PROVE ReadInv'
<1>1. UpToNul(word) \in Text
  BY WordType, UpToNulType DEF Text
<1>2. words \in Seq(Text) /\ Len(words) < MAX_WORDS /\ reading \in {"bare", "quoted"}
  BY DEF EndWord, ReadInv, ReadType
<1>3. words' \in Seq(Text) /\ Len(words') = Len(words) + 1
  BY <1>1, <1>2, AppendType DEF EndWord
<1>4. Len(words') <= MAX_WORDS
  BY <1>2, <1>3, ReadFileAssumption DEF ReadFileAssumption
<1>5. p' \in Nat \ {0} /\ p' <= Len(line) + 1
  BY WordType DEF EndWord, More, ReadInv, StaysInBuffers
<1> QED
  BY <1>2, <1>3, <1>4, <1>5 DEF EndWord, ReadInv, ReadType, StaysInBuffers, text

LEMMA NextRead == ReadInv /\ [Next]_varsR => ReadInv'
<1> SUFFICES ASSUME ReadInv, [Next]_varsR
             PROVE  ReadInv'
  OBVIOUS
<1>1. CASE UNCHANGED varsR
  BY <1>1 DEF varsR, ReadInv, ReadType, StaysInBuffers, text
<1> QED
  BY <1>1, FgetsInv, EndOfFileInv, EndLineInv, SkipSpaceInv, StartWordInv,
     BareInv, QuotedInv, EscapedInv, EndWordInv DEF Next

(* However the quotes, escapes and zeros of a file are mixed, and whatever *)
(* sizes the buffers have, the tokenizer stays inside line[], word[] and   *)
(* raw[][].                                                                *)
THEOREM ReadsInBuffers == Spec => []StaysInBuffers
<1>1. Init => ReadInv
  BY InitRead
<1>2. ReadInv /\ [Next]_varsR => ReadInv'
  BY NextRead
<1>3. ReadInv => StaysInBuffers
  BY DEF ReadInv
<1> QED
  BY <1>1, <1>2, <1>3, PTL DEF Spec

-----------------------------------------------------------------------------
(* A character of the text is printed or it is space.                      *)

Marked(s) == [k \in DOMAIN s |-> IF s[k] \in Space THEN <<>> ELSE <<s[k]>>]

LEMMA PrintingAppend ==
  ASSUME NEW s \in Text, NEW c \in Char
  PROVE  /\ Printing(Append(s, c)) = IF c \in Space THEN Printing(s) ELSE Append(Printing(s), c)
         /\ Printing(s) \in Text
<1> DEFINE x == IF c \in Space THEN <<>> ELSE <<c>>
<1>1. s \in Seq(Char) /\ Len(s) \in Nat /\ DOMAIN s = 1 .. Len(s)
  BY DEF Text
<1>2. Append(s, c) \in Seq(Char) /\ Len(Append(s, c)) = Len(s) + 1 /\ Append(s, c)[Len(s) + 1] = c
      /\ (\A k \in 1 .. Len(s) : Append(s, c)[k] = s[k]) /\ DOMAIN Append(s, c) = 1 .. Len(s) + 1
  BY <1>1, AppendProperties
<1>3. \A k \in 1 .. Len(s) : s[k] \in Char
  BY <1>1
<1>4. \A d \in Char : (IF d \in Space THEN <<>> ELSE <<d>>) \in Seq(Char)
  OBVIOUS
<1>5. Marked(s) \in Seq(Seq(Char)) /\ Len(Marked(s)) = Len(s) /\ x \in Seq(Char)
  <2>1. Marked(s) \in [1 .. Len(s) -> Seq(Char)]
    BY <1>1, <1>3, <1>4 DEF Marked
  <2> QED
    BY <1>1, <1>4, <2>1, IsASeq
<1>6. Marked(Append(s, c)) = Append(Marked(s), x)
  <2> DEFINE m == Append(Marked(s), x)
  <2>1. m \in Seq(Seq(Char)) /\ Len(m) = Len(s) + 1 /\ m[Len(s) + 1] = x
        /\ \A k \in 1 .. Len(s) : m[k] = Marked(s)[k]
    BY <1>5, AppendProperties
  <2>2. DOMAIN m = 1 .. Len(s) + 1
    BY <2>1
  <2>3. \A k \in 1 .. Len(s) + 1 : k \in 1 .. Len(s) \/ k = Len(s) + 1
    BY <1>1
  <2>4. \A k \in 1 .. Len(s) : Marked(Append(s, c))[k] = m[k]
    BY <1>1, <1>2, <2>1 DEF Marked
  <2>5. Marked(Append(s, c))[Len(s) + 1] = m[Len(s) + 1]
    BY <1>1, <1>2, <2>1 DEF Marked
  <2>6. m = [k \in 1 .. Len(s) + 1 |-> m[k]]
    BY <2>1, <2>2
  <2>7. Marked(Append(s, c)) = [k \in 1 .. Len(s) + 1 |-> Marked(Append(s, c))[k]]
    BY <1>2 DEF Marked
  <2> HIDE DEF m
  <2>8. m = Marked(Append(s, c))
    BY <2>3, <2>4, <2>5, <2>6, <2>7
  <2> QED
    BY <2>8 DEF m
<1>7. Printing(Append(s, c)) = Printing(s) \o x /\ Printing(s) \in Seq(Char)
  <2>1. \A t : Printing(t) = FlattenSeq(Marked(t))
    BY DEF Printing, Marked
  <2> HIDE DEF x
  <2> QED
    BY <1>5, <1>6, <2>1, FlattenAppend, FlattenType
<1> QED
  <2>1. Printing(s) \o <<>> = Printing(s)
    BY <1>7, ConcatEmptySeq
  <2>2. Printing(s) \o <<c>> = Append(Printing(s), c)
    BY <1>7, AppendIsConcat
  <2> QED
    BY <1>7, <2>1, <2>2 DEF Text

-----------------------------------------------------------------------------
(* Between two turns what has been kept, the line and the word under way   *)
(* included, is what is printing of the text up to the character the scan  *)
(* has come to. line[] is a piece of the text, and a word is never longer  *)
(* than what the scan has passed of the line: there is always room.        *)

Plain == ~Contains(text, Quote) /\ ~Contains(text, Nul)

UncutSoFar == /\ \A n \in DOMAIN raw : Len(raw[n]) < MAX_WORDS
              /\ reading \in {"word", "bare"} => Len(words) < MAX_WORDS

Reached == IF reading \in {"word", "bare"} THEN at - 1 - (Len(line) - p + 1) ELSE at - 1

Piece == /\ reading # "quoted"
         /\ at - 1 <= Len(text)
         /\ reading \in {"word", "bare"} => /\ Len(line) < at
                                            /\ line = SubSeq(text, at - Len(line), at - 1)
         /\ reading = "bare" => ~Contains(word, Nul) /\ Len(word) < p

Lossless == Plain => Piece /\ (UncutSoFar => Collected = Printing(SubSeq(text, 1, Reached)))

LEMMA UpToNulPlain ==
  ASSUME NEW s \in Text, ~Contains(s, Nul)
  PROVE  UpToNul(s) = s
<1> DEFINE I == {k \in 1 .. Len(s) : s[k] = Nul}
<1>1. I = {}
  BY DEF Contains
<1>2. SelectInSeq(s, LAMBDA c : c = Nul) = IF I # {} THEN Min(I) ELSE 0
  BY DEF SelectInSeq
<1> HIDE DEF I
<1> QED
  BY <1>1, <1>2 DEF UpToNul, SelectInSeq

LEMMA PieceOf ==
  ASSUME NEW s \in Text, NEW m \in Nat \ {0}, NEW n \in Nat, n <= Len(s), m <= n + 1
  PROVE  /\ SubSeq(s, m, n) \in Text /\ Len(SubSeq(s, m, n)) = n - m + 1
         /\ \A k \in 1 .. n - m + 1 : SubSeq(s, m, n)[k] = s[m + k - 1]
<1>1. \A k \in m .. n : s[k] \in Char
  BY DEF Text
<1> QED
  BY <1>1, SubSeqProperties DEF Text

LEMMA OneMore ==
  ASSUME NEW s \in Text, NEW n \in Nat, n < Len(s)
  PROVE  /\ SubSeq(s, 1, n) \in Text /\ s[n + 1] \in Char
         /\ SubSeq(s, 1, n + 1) = Append(SubSeq(s, 1, n), s[n + 1])
<1>1. s \in Seq(Char) /\ Len(s) \in Nat /\ 1 \in 1 .. Len(s) /\ n + 1 \in 1 .. Len(s) /\ (n + 1) - 1 = n
  BY DEF Text
<1>2. s[n + 1] \in Char
  BY <1>1
<1>3. SubSeq(s, 1, n) \in Text
  BY <1>1, PieceOf
<1>4. SubSeq(s, 1, n + 1) = SubSeq(s, 1, n) \o <<s[n + 1]>>
  BY <1>1, SubSeqRecursiveSecond
<1> QED
  BY <1>2, <1>3, <1>4, AppendIsConcat DEF Text

LEMMA Positions ==
  ASSUME NEW l \in Nat, NEW a \in Nat, NEW q \in Nat \ {0}, NEW z \in Nat,
         l < a, q <= l, a - 1 <= z
  PROVE  /\ a - l \in Nat \ {0} /\ a - 1 \in Nat /\ a - l <= (a - 1) + 1
         /\ (a - 1) - (a - l) + 1 = l
         /\ (a - l) + q - 1 = (a - 1 - (l - q + 1)) + 1
         /\ a - 1 - (l - q + 1) < z
         /\ q \in 1 .. (a - 1) - (a - l) + 1
OBVIOUS

(* The scan is inside the text, at the character of the line it looks at.  *)
LEMMA ReachedType ==
  ASSUME ReadInv, Piece
  PROVE  /\ Reached \in Nat /\ Reached <= Len(text)
         /\ reading \in {"word", "bare"} /\ More => Reached < Len(text) /\ line[p] = text[Reached + 1]
<1>1. /\ text \in Text /\ Len(text) \in Nat /\ at \in Nat \ {0} /\ at - 1 <= Len(text)
      /\ line \in Text /\ Len(line) \in Nat /\ p \in Nat \ {0} /\ p <= Len(line) + 1
  BY DEF ReadInv, ReadType, StaysInBuffers, Text, Piece
<1>2. CASE reading \in {"word", "bare"}
  <2>1. Len(line) < at /\ line = SubSeq(text, at - Len(line), at - 1)
    BY <1>2 DEF Piece
  <2>2. Reached = at - 1 - (Len(line) - p + 1)
    BY <1>2 DEF Reached
  <2>3. Reached \in Nat /\ Reached <= Len(text)
    BY <1>1, <2>1, <2>2
  <2>4. ASSUME More
        PROVE  Reached < Len(text) /\ line[p] = text[Reached + 1]
    <3>1. p <= Len(line)
      BY <2>4 DEF More
    <3>2. PICK l \in Nat : l = Len(line)
      BY <1>1
    <3> DEFINE m == at - l
               n == at - 1
    <3>3. m \in Nat \ {0} /\ n \in Nat /\ n <= Len(text) /\ m <= n + 1 /\ p \in 1 .. n - m + 1
          /\ m + p - 1 = Reached + 1 /\ Reached < Len(text)
      <4>1. PICK z \in Nat : z = Len(text)
        BY <1>1
      <4>2. at \in Nat /\ l < at /\ p <= l /\ at - 1 <= z
        BY <1>1, <2>1, <3>1, <3>2, <4>1
      <4>3. /\ m \in Nat \ {0} /\ n \in Nat /\ m <= n + 1
            /\ m + p - 1 = (at - 1 - (l - p + 1)) + 1
            /\ at - 1 - (l - p + 1) < z
            /\ p \in 1 .. n - m + 1
        BY <1>1, <4>2, Positions
      <4> HIDE DEF m, n
      <4>4. Reached = at - 1 - (l - p + 1) /\ n <= z
        BY <2>2, <3>2, <4>2 DEF n
      <4> QED
        BY <4>1, <4>3, <4>4
    <3>4. line = SubSeq(text, m, n)
      BY <2>1, <3>2
    <3> HIDE DEF m, n
    <3>5. SubSeq(text, m, n)[p] = text[m + p - 1]
      BY <1>1, <3>3, PieceOf
    <3> QED
      BY <3>3, <3>4, <3>5
  <2> QED
    BY <2>3, <2>4
<1>3. CASE reading \notin {"word", "bare"}
  BY <1>1, <1>3 DEF Reached
<1> QED
  BY <1>2, <1>3

-----------------------------------------------------------------------------
(* What has been kept, in the shape each place of the scan gives it        *)

Kept  == FlattenSeq(FlattenSeq(raw))
Ahead == FlattenSeq(words)

LEMMA KeptType ==
  ASSUME ReadInv
  PROVE  Kept \in Seq(Char) /\ Ahead \in Seq(Char) /\ word \in Seq(Char)
<1>1. raw \in Seq(Seq(Seq(Char))) /\ words \in Seq(Seq(Char)) /\ word \in Seq(Char)
  BY DEF ReadInv, ReadType, Text
<1>2. FlattenSeq(raw) \in Seq(Seq(Char))
  BY <1>1, FlattenType
<1> QED
  BY <1>1, <1>2, FlattenType DEF Kept, Ahead

Parts ==
  /\ reading \notin {"word", "bare"} => Collected = Kept
  /\ reading = "word" => Collected = Kept \o Ahead
  /\ reading = "bare" => Collected = Kept \o Ahead \o word

LEMMA InParts == ReadInv => Parts
<1> SUFFICES ASSUME ReadInv PROVE Parts
  OBVIOUS
<1>1. PICK k \in Seq(Char), a \in Seq(Char) : k = Kept /\ a = Ahead
  BY KeptType
<1>2. k \o <<>> = k /\ k \o a \in Seq(Char)
  BY ConcatEmptySeq, ConcatProperties
<1>3. (k \o a) \o <<>> = k \o a
  BY <1>2, ConcatEmptySeq
<1>4. Collected = (k \o (IF reading \in {"word", "bare"} THEN a ELSE <<>>))
                    \o (IF reading = "bare" THEN word ELSE <<>>)
  BY <1>1 DEF Collected, Kept, Ahead
<1>5. CASE reading \notin {"word", "bare"}
  BY <1>1, <1>2, <1>4, <1>5 DEF Parts
<1>6. CASE reading = "word"
  BY <1>1, <1>3, <1>4, <1>6 DEF Parts
<1>7. CASE reading = "bare"
  BY <1>1, <1>4, <1>7 DEF Parts
<1> QED
  BY <1>5, <1>6, <1>7

LEMMA PlainCharacter ==
  ASSUME ReadInv, Plain, Piece, reading \in {"word", "bare"}, More
  PROVE  line[p] \in Char /\ line[p] # Quote /\ line[p] # Nul
<1>1. /\ Reached \in Nat /\ Reached < Len(text) /\ line[p] = text[Reached + 1]
      /\ text \in Seq(Char)
  BY ReachedType DEF ReadInv, ReadType, Text
<1>2. Reached + 1 \in 1 .. Len(text)
  BY <1>1
<1> QED
  BY <1>1, <1>2 DEF Plain, Contains

(* The scan has taken one character more of the line.                      *)
LEMMA PrintedNext ==
  ASSUME ReadInv, Piece, reading \in {"word", "bare"}, More
  PROVE  /\ Printing(SubSeq(text, 1, Reached)) \in Text
         /\ Printing(SubSeq(text, 1, Reached + 1)) =
              IF line[p] \in Space THEN Printing(SubSeq(text, 1, Reached))
                                   ELSE Append(Printing(SubSeq(text, 1, Reached)), line[p])
<1>1. /\ Reached \in Nat /\ Reached < Len(text) /\ line[p] = text[Reached + 1]
      /\ text \in Text
  BY ReachedType DEF ReadInv, ReadType
<1>2. PICK s \in Text, c \in Char :
        /\ s = SubSeq(text, 1, Reached) /\ c = line[p]
        /\ SubSeq(text, 1, Reached + 1) = Append(s, c)
  BY <1>1, OneMore
<1>3. /\ Printing(Append(s, c)) = IF c \in Space THEN Printing(s) ELSE Append(Printing(s), c)
      /\ Printing(s) \in Text
  BY PrintingAppend
<1> QED
  BY <1>2, <1>3

-----------------------------------------------------------------------------
(* One lemma for each step                                                 *)

LEMMA InitLossless == Init => Lossless
<1> SUFFICES ASSUME Init PROVE Lossless
  OBVIOUS
<1>1. ReadInv /\ Reached = 0
  BY InitRead DEF Init, Reached
<1>2. Collected = <<>>
  <2>1. Kept = <<>>
    BY FlattenEmpty DEF Init, Kept
  <2> QED
    BY <1>1, <2>1, InParts DEF Init, Parts
<1>3. Printing(SubSeq(text, 1, 0)) = <<>>
  <2>1. SubSeq(text, 1, 0) = <<>>
    BY <1>1, SubSeqEmpty DEF ReadInv, ReadType, Text
  <2>2. Printing(<<>>) = FlattenSeq(Marked(<<>>)) /\ Marked(<<>>) = <<>>
    BY DEF Printing, Marked
  <2> QED
    BY <2>1, <2>2, FlattenEmpty
<1>4. Piece
  BY <1>1 DEF Init, Piece, ReadInv, ReadType, Text
<1> QED
  BY <1>1, <1>2, <1>3, <1>4 DEF Lossless

LEMMA FgetsLossless == ASSUME ReadInv, Lossless, Plain, Fgets PROVE Lossless'
<1>1. at \in 1 .. Len(text) /\ text \in Text /\ Len(text) \in Nat /\ text' = text
  BY DEF Fgets, ReadInv, ReadType, Text, text
<1>2. Taken \in Nat /\ Taken < MAX_LINE_LENGTH /\ Taken <= Len(text) - at + 1
  BY <1>1, TakenType, ReadFileAssumption
<1>3. PICK t \in Nat, n \in Nat : t = Taken /\ n = at + t - 1
  BY <1>1, <1>2
<1>4. /\ SubSeq(text, at, n) \in Text /\ Len(SubSeq(text, at, n)) = t
      /\ \A k \in 1 .. t : SubSeq(text, at, n)[k] = text[at + k - 1]
  <2>1. at \in Nat \ {0} /\ n <= Len(text) /\ at <= n + 1 /\ n - at + 1 = t
    BY <1>1, <1>2, <1>3
  <2> QED
    BY <1>1, <2>1, PieceOf
<1>5. ~Contains(SubSeq(text, at, n), Nul)
  <2>1. \A k \in 1 .. t : at + k - 1 \in 1 .. Len(text)
    BY <1>1, <1>2, <1>3
  <2>2. \A k \in 1 .. Len(text) : text[k] # Nul
    BY DEF Plain, Contains
  <2>3. \A k \in 1 .. t : SubSeq(text, at, n)[k] # Nul
    BY <1>4, <2>1, <2>2
  <2> QED
    BY <1>4, <2>3 DEF Contains
<1>6. line' = SubSeq(text, at, n) /\ Len(line') = t /\ at' = at + t
  <2>1. line' = UpToNul(SubSeq(text, at, n))
    BY <1>3 DEF Fgets
  <2> QED
    BY <1>3, <1>4, <1>5, <2>1, UpToNulPlain DEF Fgets
<1>7. at' - Len(line') = at /\ at' - 1 = n /\ Len(line') < at' /\ n <= Len(text)
  BY <1>1, <1>2, <1>3, <1>6
<1>8. Piece'
  BY <1>1, <1>6, <1>7 DEF Piece, Fgets
<1>9. Reached' = Reached
  <2>1. Reached' = at' - 1 - (Len(line') - 1 + 1)
    BY DEF Fgets, Reached
  <2> QED
    BY <1>1, <1>6, <2>1 DEF Fgets, Reached
<1>10. Collected' = Collected
  <2>1. Kept' = Kept /\ Ahead' = <<>>
    BY FlattenEmpty DEF Fgets, Kept, Ahead
  <2>2. Collected' = Kept' \o Ahead'
    <3>1. Parts'
      BY FgetsInv, InParts, PTL
    <3> QED
      BY <3>1 DEF Fgets, Parts
  <2>3. Collected = Kept /\ Kept \o <<>> = Kept
    BY InParts, KeptType, ConcatEmptySeq DEF Fgets, Parts
  <2> QED
    BY <2>1, <2>2, <2>3
<1>11. UncutSoFar' => UncutSoFar
  BY DEF UncutSoFar, Fgets
<1> QED
  BY <1>1, <1>8, <1>9, <1>10, <1>11 DEF Lossless

LEMMA EndOfFileLossless == ASSUME ReadInv, Lossless, Plain, EndOfFile PROVE Lossless'
<1>1. text' = text /\ Reached' = Reached /\ Collected' = Collected
  BY DEF EndOfFile, text, Reached, Collected
<1>2. Piece' /\ (UncutSoFar' => UncutSoFar)
  BY <1>1 DEF EndOfFile, Lossless, Piece, UncutSoFar
<1> QED
  BY <1>1, <1>2 DEF Lossless

LEMMA EndLineLossless == ASSUME ReadInv, Lossless, Plain, EndLine PROVE Lossless'
<1>1. /\ raw \in Seq(Seq(Seq(Char))) /\ words \in Seq(Seq(Char)) /\ Len(raw) \in Nat
      /\ Len(line) \in Nat /\ p \in Nat \ {0} /\ p <= Len(line) + 1 /\ at \in Nat
      /\ text' = text /\ reading = "word" /\ reading' = "line"
  BY DEF ReadInv, ReadType, StaysInBuffers, Text, EndLine, text
<1>2. Piece'
  BY <1>1 DEF EndLine, Lossless, Piece
<1>3. ASSUME UncutSoFar'
      PROVE  UncutSoFar /\ ~More
  <2>1. /\ Len(raw') = Len(raw) + 1 /\ DOMAIN raw' = 1 .. Len(raw) + 1
        /\ DOMAIN raw = 1 .. Len(raw)
        /\ \A n \in DOMAIN raw' : raw'[n] = IF n = Len(raw) + 1 THEN words ELSE raw[n]
    BY <1>1, AppendType DEF EndLine
  <2>2. \A n \in DOMAIN raw' : Len(raw'[n]) < MAX_WORDS
    BY <1>3 DEF UncutSoFar
  <2>3. /\ Len(raw) + 1 \in DOMAIN raw'
        /\ \A n \in DOMAIN raw : n \in DOMAIN raw' /\ n # Len(raw) + 1
    BY <1>1, <2>1
  <2>4. Len(words) < MAX_WORDS
    BY <2>1, <2>2, <2>3
  <2>5. \A n \in DOMAIN raw : Len(raw[n]) < MAX_WORDS
    BY <2>1, <2>2, <2>3
  <2>6. ~More
    BY <1>1, <2>4, ReadFileAssumption DEF EndLine, ReadFileAssumption
  <2> QED
    BY <2>4, <2>5, <2>6 DEF UncutSoFar
<1>4. ASSUME ~More
      PROVE  Reached' = Reached
  <2>1. p = Len(line) + 1
    BY <1>1, <1>4 DEF More
  <2> QED
    BY <1>1, <2>1 DEF EndLine, Reached
<1>5. Collected' = Collected
  <2>1. Kept' = Kept \o Ahead
    <3>1. FlattenSeq(Append(raw, words)) = FlattenSeq(raw) \o words
      BY <1>1, FlattenAppend
    <3>2. PICK k \in Seq(Seq(Char)) : k = FlattenSeq(raw)
      BY <1>1, FlattenType
    <3>3. FlattenSeq(k \o words) = FlattenSeq(k) \o FlattenSeq(words)
      BY <1>1, FlattenConcat
    <3> QED
      BY <3>1, <3>2, <3>3 DEF EndLine, Kept, Ahead
  <2>2. Parts'
    BY EndLineInv, InParts, PTL
  <2> QED
    BY <1>1, <2>1, <2>2, InParts DEF Parts
<1> QED
  BY <1>1, <1>2, <1>3, <1>4, <1>5 DEF Lossless

(* The scan goes one character on: nothing that was read comes apart.      *)
LEMMA OnwardReached ==
  ASSUME ReadInv, Piece, reading \in {"word", "bare"}, reading' \in {"word", "bare"},
         p' = p + 1, UNCHANGED <<at, line>>
  PROVE  Reached' = Reached + 1
<1>1. Len(line) \in Nat /\ p \in Nat /\ at \in Nat
  BY DEF ReadInv, ReadType, Text
<1> QED
  BY <1>1 DEF Reached

LEMMA SkipSpaceLossless == ASSUME ReadInv, Lossless, Plain, SkipSpace PROVE Lossless'
<1>1. text' = text /\ reading = "word" /\ reading' = "word" /\ More /\ Piece /\ line[p] \in Space
  BY DEF SkipSpace, AtWord, text, Lossless
<1>2. Reached' = Reached + 1
  BY <1>1, OnwardReached DEF SkipSpace, Past
<1>3. Piece' /\ Collected' = Collected /\ (UncutSoFar' => UncutSoFar)
  BY <1>1 DEF SkipSpace, Piece, Collected, UncutSoFar
<1>4. Printing(SubSeq(text, 1, Reached + 1)) = Printing(SubSeq(text, 1, Reached))
  BY <1>1, PrintedNext
<1> QED
  BY <1>1, <1>2, <1>3, <1>4 DEF Lossless

LEMMA StartWordLossless == ASSUME ReadInv, Lossless, Plain, StartWord PROVE Lossless'
<1>1. text' = text /\ reading = "word" /\ More /\ Piece
  BY DEF StartWord, AtWord, text, Lossless
<1>2. line[p] # Quote
  BY <1>1, PlainCharacter
<1>3. reading' = "bare" /\ word' = <<>> /\ UNCHANGED <<file, at, line, p, words, raw>>
  BY <1>2 DEF StartWord
<1>4. p \in Nat \ {0}
  BY DEF ReadInv, ReadType
<1>5. Piece'
  BY <1>1, <1>3, <1>4, EmptySeq DEF Piece, Contains
<1>6. Reached' = Reached /\ (UncutSoFar' => UncutSoFar)
  BY <1>1, <1>3 DEF Reached, UncutSoFar
<1>7. Collected' = Collected
  <2>1. PICK c \in Seq(Char) : c = Collected /\ c = Kept \o Ahead
    BY <1>1, KeptType, InParts, ConcatProperties DEF Parts
  <2>2. c \o <<>> = c
    BY ConcatEmptySeq
  <2>3. Parts'
    BY StartWordInv, InParts, PTL
  <2>4. Collected' = Kept \o Ahead \o <<>>
    BY <1>3, <2>3 DEF Parts, Kept, Ahead
  <2> QED
    BY <2>1, <2>2, <2>4
<1> QED
  BY <1>1, <1>5, <1>6, <1>7 DEF Lossless

LEMMA BareLossless == ASSUME ReadInv, Lossless, Plain, Bare PROVE Lossless'
<1>1. /\ text' = text /\ reading = "bare" /\ reading' = "bare" /\ More /\ Piece
      /\ line[p] \notin Space /\ UNCHANGED <<file, at, line, words, raw>> /\ p' = p + 1
  BY DEF Bare, text, Lossless, Past
<1>2. line[p] \in Char /\ line[p] # Nul
  BY <1>1, PlainCharacter
<1>3. /\ Len(word) \in Nat /\ p \in Nat \ {0} /\ Len(line) \in Nat /\ MAX_LINE_LENGTH \in Nat
      /\ Len(line) < MAX_LINE_LENGTH /\ word \in Seq(Char) /\ Len(word) < p /\ p <= Len(line)
  BY <1>1, WordType DEF Piece, More
<1>4. word' = Append(word, line[p])
  BY <1>3 DEF Bare, Room
<1>5. /\ word' \in Seq(Char) /\ Len(word') = Len(word) + 1
      /\ \A n \in DOMAIN word' : word'[n] = IF n = Len(word) + 1 THEN line[p] ELSE word[n]
  BY <1>2, <1>3, <1>4, AppendType
<1>6. Piece'
  <2>1. ~Contains(word', Nul)
    <3>1. \A n \in 1 .. Len(word) : word[n] # Nul
      BY <1>1 DEF Piece, Contains
    <3>2. \A n \in 1 .. Len(word) + 1 : n \in 1 .. Len(word) \/ n = Len(word) + 1
      BY <1>3
    <3>3. \A n \in 1 .. Len(word') : word'[n] # Nul
      BY <1>2, <1>5, <3>1, <3>2
    <3> QED
      BY <3>3 DEF Contains
  <2>2. Len(word') < p'
    BY <1>1, <1>3, <1>5
  <2> QED
    BY <1>1, <2>1, <2>2 DEF Piece
<1>7. Reached' = Reached + 1 /\ (UncutSoFar' => UncutSoFar)
  BY <1>1, OnwardReached DEF UncutSoFar
<1>8. Collected' = Append(Collected, line[p])
  <2>1. PICK k \in Seq(Char), c \in Char : k = Kept \o Ahead /\ c = line[p]
    BY <1>2, KeptType, ConcatProperties
  <2>2. k \o Append(word, c) = Append(k \o word, c)
    <3>1. <<c>> \in Seq(Char) /\ k \o word \in Seq(Char)
      BY <1>3, ConcatProperties
    <3>2. (k \o word) \o <<c>> = k \o (word \o <<c>>)
      BY <1>3, <3>1, ConcatAssociative
    <3> QED
      BY <1>3, <3>1, <3>2, AppendIsConcat
  <2>3. Parts'
    BY BareInv, InParts, PTL
  <2>4. Collected' = Kept \o Ahead \o Append(word, line[p])
    BY <1>1, <1>4, <2>3 DEF Parts, Kept, Ahead
  <2>5. Collected = Kept \o Ahead \o word
    BY <1>1, InParts DEF Parts
  <2> QED
    BY <2>1, <2>2, <2>4, <2>5
<1>9. Printing(SubSeq(text, 1, Reached + 1)) = Append(Printing(SubSeq(text, 1, Reached)), line[p])
  BY <1>1, PrintedNext
<1> QED
  BY <1>1, <1>6, <1>7, <1>8, <1>9 DEF Lossless

LEMMA EndWordLossless == ASSUME ReadInv, Lossless, Plain, EndWord PROVE Lossless'
<1>1. /\ text' = text /\ reading = "bare" /\ reading' = "word" /\ Piece
      /\ UNCHANGED <<file, at, line, p, word, raw>>
  BY DEF EndWord, text, Lossless, Piece
<1>2. word \in Seq(Char) /\ words \in Seq(Seq(Char)) /\ Len(words) \in Nat
  BY DEF ReadInv, ReadType, Text
<1>3. words' = Append(words, word)
  BY <1>1, <1>2, UpToNulPlain DEF EndWord, Piece, Text
<1>4. Piece' /\ Reached' = Reached
  BY <1>1 DEF Piece, Reached
<1>5. UncutSoFar' => UncutSoFar
  BY <1>1, <1>2, <1>3, AppendType, ReadFileAssumption DEF UncutSoFar, ReadFileAssumption
<1>6. Collected' = Collected
  <2>1. PICK k \in Seq(Char), a \in Seq(Char) : k = Kept /\ a = Ahead
    BY KeptType
  <2>2. (k \o a) \o word = k \o (a \o word)
    BY <1>2, ConcatAssociative
  <2>3. Ahead' = a \o word /\ Kept' = k
    BY <1>1, <1>2, <1>3, <2>1, FlattenAppend DEF Ahead, Kept
  <2>4. Parts'
    BY EndWordInv, InParts, PTL
  <2>5. Collected' = Kept' \o Ahead'
    BY <1>1, <2>4 DEF Parts
  <2>6. Collected = Kept \o Ahead \o word
    BY <1>1, InParts DEF Parts
  <2> QED
    BY <2>1, <2>2, <2>3, <2>5, <2>6
<1> QED
  BY <1>1, <1>4, <1>5, <1>6 DEF Lossless

LEMMA NextLossless == ReadInv /\ Lossless /\ [Next]_varsR => Lossless'
<1> SUFFICES ASSUME ReadInv, Lossless, [Next]_varsR
             PROVE  Lossless'
  OBVIOUS
<1>1. CASE UNCHANGED varsR
  BY <1>1 DEF varsR, Lossless, Plain, Piece, UncutSoFar, Collected, Reached, text
<1>2. CASE Next /\ ~Plain
  <2>1. text' = text
    BY <1>2 DEF Next, Fgets, EndOfFile, EndLine, SkipSpace, StartWord, Bare, Quoted, Escaped, EndWord, text
  <2> QED
    BY <1>2, <2>1 DEF Lossless, Plain
<1>3. CASE Next /\ Plain
  <2>1. ~Quoted /\ ~Escaped
    BY <1>3 DEF Lossless, Piece, Quoted, Escaped
  <2> QED
    BY <1>3, <2>1, FgetsLossless, EndOfFileLossless, EndLineLossless, SkipSpaceLossless,
       StartWordLossless, BareLossless, EndWordLossless DEF Next
<1> QED
  BY <1>1, <1>2, <1>3

(* Wherever fgets breaks the lines and words of a file without quotes, and *)
(* whatever sizes the buffers have, no character other than space is lost  *)
(* or moved as long as there is room for words and lines.                  *)
THEOREM NothingIsLost == Spec => []NothingLost
<1>1. Init => ReadInv /\ Lossless
  BY InitRead, InitLossless
<1>2. ReadInv /\ Lossless /\ [Next]_varsR => ReadInv' /\ Lossless'
  BY NextRead, NextLossless
<1>3. ReadInv /\ Lossless => NothingLost
  <2>1. Consumed = SubSeq(text, 1, Reached)
    BY DEF Consumed, Reached
  <2>2. Uncut => UncutSoFar
    BY DEF Uncut, UncutSoFar
  <2> QED
    BY <2>1, <2>2 DEF NothingLost, Lossless, Plain
<1> QED
  BY <1>1, <1>2, <1>3, PTL DEF Spec

-----------------------------------------------------------------------------
(* What an author writes, character by character.                          *)

(* Characters inside a line.                                               *)
Inner == Char \ {Nul, Newline}

Marks(m) == [k \in DOMAIN m |-> Spelled(m[k])]

Spelling(w) == IF w.quoted THEN InQuotes(w.means) ELSE w.means

Laid(l) == [k \in DOMAIN l.words |-> l.words[k].gap \o Spelling(l.words[k])]

LEMMA SpecialCharacters ==
  /\ {"\t", "\r", Escape, Quote, " ", "n", "t", "r"} \subseteq Inner
  /\ Space \subseteq Char \ {Nul} /\ Space \ {Newline} \subseteq Inner /\ STRING \subseteq Char
<1>1. {" ", "n", "t", "r"} \subseteq Char
  BY Zenon DEF Char
<1>2. "\t" # Nul /\ "\r" # Nul /\ Escape # Nul /\ Quote # Nul /\ " " # Nul /\ "n" # Nul /\ "t" # Nul /\ "r" # Nul
  BY DEF Nul, Escape, Quote
<1>3. "\t" # Newline /\ "\r" # Newline /\ Escape # Newline /\ Quote # Newline /\ " " # Newline
      /\ "n" # Newline /\ "t" # Newline /\ "r" # Newline /\ Newline # Nul
  BY DEF Newline, Escape, Quote, Nul
<1>4. STRING \subseteq Char
  BY Zenon DEF Char
<1>5. Space = {" ", "\t", "\r", Newline}
  BY DEF Space
<1> QED
  BY <1>1, <1>2, <1>3, <1>4, <1>5, Characters, Zenon DEF Inner

LEMMA SpelledType ==
  ASSUME NEW c \in Char, c # Nul
  PROVE  /\ Spelled(c) \in Seq(Inner)
         /\ \/ Spelled(c) = <<c>> /\ c \notin {Quote, Escape}
            \/ \E x \in Char : Spelled(c) = <<Escape, x>> /\ Unescaped(x) = <<c>>
<1>0. Escape \in Inner /\ Quote \in Inner /\ "n" \in Inner /\ "t" \in Inner /\ "r" \in Inner
      /\ \A d \in Inner : d \in Char
  BY SpecialCharacters, Zenon DEF Inner
<1>1. \A d \in Inner : <<d>> \in Seq(Inner) /\ <<Escape, d>> \in Seq(Inner)
  BY <1>0
<1>2. CASE c = Newline
  <2>1. Spelled(c) = <<Escape, "n">> /\ Unescaped("n") = <<c>>
    BY <1>2, Escapes
  <2>2. "n" \in Inner /\ "n" \in Char
    BY <1>0, Zenon
  <2> QED
    BY <1>1, <2>1, <2>2
<1>3. CASE c = "\t"
  <2>1. Spelled(c) = <<Escape, "t">> /\ Unescaped("t") = <<c>>
    BY <1>3, Escapes
  <2>2. "t" \in Inner /\ "t" \in Char
    BY <1>0, Zenon
  <2> QED
    BY <1>1, <2>1, <2>2
<1>4. CASE c = "\r"
  <2>1. Spelled(c) = <<Escape, "r">> /\ Unescaped("r") = <<c>>
    BY <1>4, Escapes
  <2>2. "r" \in Inner /\ "r" \in Char
    BY <1>0, Zenon
  <2> QED
    BY <1>1, <2>1, <2>2
<1>5. CASE c \in {Quote, Escape}
  <2>1. Spelled(c) = <<Escape, c>> /\ Unescaped(c) = <<c>>
    BY <1>5, Escapes
  <2>2. c \in Inner
    BY <1>0, <1>5
  <2> QED
    BY <1>1, <2>1, <2>2
<1>6. CASE c \notin {Newline, "\t", "\r", Quote, Escape}
  <2>1. Spelled(c) = <<c>>
    BY <1>6 DEF Spelled
  <2>2. c \in Inner
    BY <1>6 DEF Inner
  <2> QED
    BY <1>1, <1>6, <2>1, <2>2
<1> QED
  BY <1>2, <1>3, <1>4, <1>5, <1>6

LEMMA MarksType ==
  ASSUME NEW m \in Seq(Char), ~Contains(m, Nul)
  PROVE  /\ \A k \in 1 .. Len(m) : m[k] \in Char /\ m[k] # Nul /\ Marks(m)[k] = Spelled(m[k])
         /\ \A k \in 1 .. Len(m) : Marks(m)[k] \in Seq(Inner)
         /\ Marks(m) = [k \in 1 .. Len(m) |-> Marks(m)[k]]
<1>1. \A k \in 1 .. Len(m) : m[k] \in Char /\ m[k] # Nul /\ Marks(m)[k] = Spelled(m[k])
  BY DEF Contains, Marks
<1>2. DOMAIN m = 1 .. Len(m)
  OBVIOUS
<1> QED
  BY <1>1, <1>2, SpelledType DEF Marks

(* A word in quotes: the quotes, and between them the marks one behind the *)
(* other.                                                                  *)
LEMMA QuotedText ==
  ASSUME NEW m \in Seq(Char), ~Contains(m, Nul)
  PROVE  /\ InQuotes(m) \in Seq(Inner)
         /\ Preceding(Marks(m), 1) = 0
         /\ \A j \in 1 .. Len(m) + 1 : Preceding(Marks(m), j) \in Nat
         /\ \A j \in 1 .. Len(m) :
              /\ Preceding(Marks(m), j + 1) = Preceding(Marks(m), j) + Len(Spelled(m[j]))
              /\ Carries(InQuotes(m), 1 + Preceding(Marks(m), j), Spelled(m[j]))
         /\ Len(InQuotes(m)) = Preceding(Marks(m), Len(m) + 1) + 2
         /\ InQuotes(m)[1] = Quote /\ InQuotes(m)[Preceding(Marks(m), Len(m) + 1) + 2] = Quote
<1> DEFINE g == Marks(m)
           f == FlattenSeq([i \in 1 .. Len(m) |-> g[i]])
           s == InQuotes(m)
<1>1. /\ \A k \in 1 .. Len(m) : g[k] = Spelled(m[k]) /\ g[k] \in Seq(Inner)
      /\ FlattenSeq(Marks(m)) = f
  BY MarksType
<1> HIDE DEF g
<1>2. /\ Preceding(g, 1) = 0
      /\ \A k \in 1 .. Len(m) + 1 : Preceding(g, k) \in Nat
      /\ \A k \in 1 .. Len(m) : Preceding(g, k + 1) = Preceding(g, k) + Len(g[k]) /\ Carries(f, Preceding(g, k), g[k])
      /\ Preceding(g, Len(m) + 1) = Len(f)
      /\ f \in Seq(Inner)
  <2>1. Len(m) \in Nat /\ \A k \in 1 .. Len(m) : g[k] \in Seq(Inner)
    BY <1>1
  <2> QED
    BY <2>1, FlatPlaces
<1>3. <<Quote>> \in Seq(Inner)
  <2>1. Quote \in Inner
    BY SpecialCharacters, Zenon
  <2> QED
    BY <2>1
<1> HIDE DEF f
<1>4. s = (<<Quote>> \o f) \o <<Quote>>
  BY <1>1 DEF InQuotes, Marks
<1>5. PICK z \in Nat : z = Len(f)
  BY <1>2
<1>6. PICK d \in Seq(Inner) : d = <<Quote>> \o f /\ Len(d) = z + 1 /\ d[1] = Quote
  <2>1. /\ <<Quote>> \o f \in Seq(Inner) /\ Len(<<Quote>> \o f) = Len(<<Quote>>) + Len(f)
        /\ \A i \in 1 .. Len(<<Quote>>) + Len(f) : i <= Len(<<Quote>>) => (<<Quote>> \o f)[i] = <<Quote>>[i]
    BY <1>2, <1>3, ConcatProperties
  <2>2. Len(<<Quote>>) = 1 /\ <<Quote>>[1] = Quote /\ 1 \in 1 .. 1 + z /\ 1 + z = z + 1
    OBVIOUS
  <2>3. Len(<<Quote>> \o f) = z + 1 /\ (<<Quote>> \o f)[1] = Quote
    BY <1>5, <2>1, <2>2
  <2> QED
    BY <2>1, <2>3
<1>7. s \in Seq(Inner) /\ Len(s) = z + 2 /\ s[1] = Quote /\ s[z + 2] = Quote
  <2>1. /\ d \o <<Quote>> \in Seq(Inner) /\ Len(d \o <<Quote>>) = Len(d) + Len(<<Quote>>)
        /\ \A i \in 1 .. Len(d) + Len(<<Quote>>) :
             (d \o <<Quote>>)[i] = IF i <= Len(d) THEN d[i] ELSE <<Quote>>[i - Len(d)]
    BY <1>2, <1>3, ConcatProperties
  <2> HIDE DEF s
  <2>2. s = d \o <<Quote>>
    BY <1>4, <1>6
  <2> QED
    BY <1>6, <2>1, <2>2
<1>8. Carries(s, 1, f)
  <2>1. Carries((<<Quote>> \o f) \o <<Quote>>, Len(<<Quote>>), f)
    BY <1>2, <1>3, ConcatCarries
  <2> QED
    BY <1>4, <2>1
<1> HIDE DEF s
<1>9. ASSUME NEW j \in 1 .. Len(m)
      PROVE  Carries(s, 1 + Preceding(g, j), Spelled(m[j]))
  <2>1. g[j] \in Seq(Inner) /\ g[j] = Spelled(m[j]) /\ Preceding(g, j) \in Nat /\ Carries(f, Preceding(g, j), g[j])
    BY <1>1, <1>2
  <2>2. Len(g[j]) \in Nat /\ Len(f) \in Nat /\ Len(s) \in Nat
    BY <1>5, <1>7, <2>1
  <2> QED
    BY <1>8, <2>1, <2>2, CarriesThrough
<1> QED
  BY <1>1, <1>2, <1>5, <1>7, <1>9 DEF g, s

LEMMA WrittenWord ==
  ASSUME NEW w \in WrittenWords
  PROVE  /\ w.gap \in Seq(Space \ {Newline}) /\ w.gap \in Seq(Inner)
         /\ w.means \in Seq(Char) /\ ~Contains(w.means, Nul)
         /\ Spelling(w) \in Seq(Inner) /\ Len(Spelling(w)) # 0
         /\ ~w.quoted => /\ w.means # <<>> /\ w.means[1] # Quote /\ Spelling(w) = w.means
                         /\ \A j \in 1 .. Len(w.means) : w.means[j] \notin Space
<1>1. /\ w.gap \in Seq(Space \ {Newline}) /\ w.means \in Seq(STRING) /\ ~Contains(w.means, Nul)
      /\ ~w.quoted => /\ w.means # <<>> /\ w.means[1] # Quote
                      /\ \A j \in DOMAIN w.means : w.means[j] \notin Space
  BY DEF WrittenWords
<1>2. STRING \subseteq Char /\ Space \ {Newline} \subseteq Inner
  BY SpecialCharacters, Zenon
<1>3. w.gap \in Seq(Inner) /\ w.means \in Seq(Char)
  BY <1>1, <1>2, SeqMonotonic, Zenon
<1>4. CASE w.quoted
  <2>1. Spelling(w) = InQuotes(w.means)
    BY <1>4 DEF Spelling
  <2>2. PICK z \in Nat : z = Preceding(Marks(w.means), Len(w.means) + 1)
    <3>1. Len(w.means) + 1 \in 1 .. Len(w.means) + 1
      BY <1>3
    <3> QED
      BY <1>1, <1>3, <3>1, QuotedText
  <2>3. InQuotes(w.means) \in Seq(Inner) /\ Len(InQuotes(w.means)) = z + 2
    BY <1>1, <1>3, <2>2, QuotedText
  <2> QED
    BY <1>1, <1>3, <1>4, <2>1, <2>3
<1>5. CASE ~w.quoted
  <2>1. Spelling(w) = w.means
    BY <1>5 DEF Spelling
  <2>2. DOMAIN w.means = 1 .. Len(w.means)
    BY <1>3
  <2>3. \A j \in 1 .. Len(w.means) : w.means[j] \in Inner
    <3> SUFFICES ASSUME NEW j \in 1 .. Len(w.means) PROVE w.means[j] \in Inner
      OBVIOUS
    <3>1. w.means[j] \in Char /\ w.means[j] # Nul /\ w.means[j] \notin Space
      BY <1>1, <1>3, <1>5, <2>2 DEF Contains
    <3> QED
      BY <3>1, Zenon DEF Inner, Space
  <2>4. w.means \in Seq(Inner)
    BY <1>3, <2>3
  <2>5. Len(w.means) # 0
    BY <1>1, <1>3, <1>5, EmptySeq
  <2> QED
    BY <1>1, <1>3, <1>5, <2>1, <2>2, <2>4, <2>5
<1> QED
  BY <1>4, <1>5

LEMMA WrittenLine ==
  ASSUME NEW l \in WrittenLines
  PROVE  /\ l.words \in Seq(WrittenWords) /\ l.end \in Seq(Space) /\ l.end \in Seq(Char \ {Nul})
         /\ \A k \in 2 .. Len(l.words) : l.words[k - 1].quoted \/ l.words[k].gap # <<>>
         /\ \A k \in 1 .. Len(l.end) - 1 : l.end[k] # Newline
         /\ l.words # <<>> \/ l.end # <<>>
<1>1. l.end \in Seq(Space)
  BY DEF WrittenLines
<1>2. Space \subseteq Char \ {Nul}
  BY SpecialCharacters, Zenon
<1>3. l.end \in Seq(Char \ {Nul})
  BY <1>1, <1>2, SeqMonotonic, Zenon
<1> QED
  BY <1>3 DEF WrittenLines

(* The gaps, words and the end of a line are in its text one behind the    *)
(* other, and no newline is in front of the end.                           *)
LEMMA LinePlaces ==
  ASSUME NEW l \in WrittenLines
  PROVE  /\ LineText(l) \in Seq(Char \ {Nul})
         /\ Preceding(Laid(l), 1) = 0
         /\ \A k \in 1 .. Len(l.words) + 1 : Preceding(Laid(l), k) \in Nat
         /\ \A k \in 1 .. Len(l.words) :
              LET w == l.words[k]
              IN  /\ Preceding(Laid(l), k + 1) = Preceding(Laid(l), k) + Len(w.gap) + Len(Spelling(w))
                  /\ Carries(LineText(l), Preceding(Laid(l), k), w.gap)
                  /\ Carries(LineText(l), Preceding(Laid(l), k) + Len(w.gap), Spelling(w))
         /\ Len(LineText(l)) = Preceding(Laid(l), Len(l.words) + 1) + Len(l.end)
         /\ Carries(LineText(l), Preceding(Laid(l), Len(l.words) + 1), l.end)
         /\ \A q \in 1 .. Preceding(Laid(l), Len(l.words) + 1) : LineText(l)[q] \in Inner
<1> DEFINE g == Laid(l)
           n == Len(l.words)
           f == FlattenSeq([i \in 1 .. n |-> g[i]])
           s == LineText(l)
<1>1. l.words \in Seq(WrittenWords) /\ l.end \in Seq(Char \ {Nul})
  BY WrittenLine
<1>2. n \in Nat /\ \A k \in 1 .. n : l.words[k] \in WrittenWords
  BY <1>1
<1>3. ASSUME NEW k \in 1 .. n
      PROVE  LET w == l.words[k]
             IN  /\ w.gap \in Seq(Inner) /\ Spelling(w) \in Seq(Inner)
                 /\ g[k] = w.gap \o Spelling(w) /\ g[k] \in Seq(Inner)
                 /\ Len(g[k]) = Len(w.gap) + Len(Spelling(w))
  <2> DEFINE w == l.words[k]
  <2>1. w \in WrittenWords
    BY <1>2
  <2>2. k \in DOMAIN l.words
    BY <1>1
  <2>3. g[k] = w.gap \o Spelling(w)
    <3>1. \A i \in DOMAIN l.words : Laid(l)[i] = l.words[i].gap \o Spelling(l.words[i])
      BY DEF Laid
    <3> QED
      BY <2>2, <3>1
  <2> HIDE DEF w, g
  <2>4. w.gap \in Seq(Inner) /\ Spelling(w) \in Seq(Inner)
    BY <2>1, WrittenWord
  <2>5. w.gap \o Spelling(w) \in Seq(Inner) /\ Len(w.gap \o Spelling(w)) = Len(w.gap) + Len(Spelling(w))
    BY <2>4, ConcatProperties
  <2> QED
    BY <2>3, <2>4, <2>5 DEF w
<1>4. s = f \o l.end
  <2>1. [i \in 1 .. n |-> g[i]] = Laid(l)
    <3>1. Laid(l) = [i \in DOMAIN Laid(l) |-> Laid(l)[i]] /\ DOMAIN Laid(l) = DOMAIN l.words
      BY DEF Laid
    <3>2. DOMAIN l.words = 1 .. n
      BY <1>1
    <3> QED
      BY <3>1, <3>2
  <2>2. s = FlattenSeq(Laid(l)) \o l.end
    BY Zenon DEF LineText, Laid, Spelling
  <2> QED
    BY <2>1, <2>2
<1> HIDE DEF g, n, s
<1>5. /\ Preceding(g, 1) = 0
      /\ \A k \in 1 .. n + 1 : Preceding(g, k) \in Nat
      /\ \A k \in 1 .. n : Preceding(g, k + 1) = Preceding(g, k) + Len(g[k]) /\ Carries(f, Preceding(g, k), g[k])
      /\ Preceding(g, n + 1) = Len(f)
      /\ f \in Seq(Inner)
  <2>1. \A k \in 1 .. n : g[k] \in Seq(Inner)
    BY <1>3
  <2> QED
    BY <1>2, <2>1, FlatPlaces
<1> HIDE DEF f
<1>6. f \in Seq(Char \ {Nul}) /\ Len(f) \in Nat /\ Len(l.end) \in Nat
  <2>1. Inner \subseteq Char \ {Nul}
    BY DEF Inner
  <2> QED
    BY <1>1, <1>5, <2>1, SeqMonotonic
<1>7. /\ s \in Seq(Char \ {Nul}) /\ Len(s) = Len(f) + Len(l.end)
      /\ \A h \in 1 .. Len(f) + Len(l.end) : s[h] = IF h <= Len(f) THEN f[h] ELSE l.end[h - Len(f)]
  BY <1>1, <1>4, <1>6, ConcatProperties
<1>8. Carries(s, 0, f) /\ Carries(s, Len(f), l.end)
  <2>1. PICK x \in Nat, y \in Nat : x = Len(f) /\ y = Len(l.end)
    BY <1>6
  <2>2. \A h \in 1 .. x : s[0 + h] = f[h]
    BY <1>7, <2>1
  <2>3. ASSUME NEW h \in 1 .. y
        PROVE  s[x + h] = l.end[h]
    <3>1. x + h \in 1 .. x + y /\ ~(x + h <= x) /\ (x + h) - x = h
      OBVIOUS
    <3> QED
      BY <1>7, <2>1, <3>1
  <2> QED
    BY <1>7, <2>1, <2>2, <2>3 DEF Carries
<1>9. ASSUME NEW k \in 1 .. n
      PROVE  LET w == l.words[k]
             IN  /\ Preceding(g, k + 1) = Preceding(g, k) + Len(w.gap) + Len(Spelling(w))
                 /\ Carries(s, Preceding(g, k), w.gap)
                 /\ Carries(s, Preceding(g, k) + Len(w.gap), Spelling(w))
  <2> DEFINE w == l.words[k]
  <2>1. PICK c \in Nat : c = Preceding(g, k)
    <3>1. k \in 1 .. n + 1
      BY <1>2
    <3> QED
      BY <1>5, <3>1
  <2>2. /\ w.gap \in Seq(Inner) /\ Spelling(w) \in Seq(Inner) /\ g[k] = w.gap \o Spelling(w)
        /\ g[k] \in Seq(Inner) /\ Len(g[k]) = Len(w.gap) + Len(Spelling(w))
    BY <1>3
  <2> HIDE DEF w
  <2>3. PICK x \in Nat, y \in Nat : x = Len(w.gap) /\ y = Len(Spelling(w)) /\ Len(g[k]) = x + y
    BY <2>2
  <2>4. Carries(s, c, g[k])
    <3>1. Carries(f, c, g[k]) /\ Len(g[k]) \in Nat /\ Len(s) \in Nat
      BY <1>5, <1>7, <2>1, <2>3
    <3>2. Carries(s, 0 + c, g[k])
      BY <1>6, <1>8, <3>1, CarriesThrough
    <3> QED
      BY <3>2
  <2>5. \A h \in 1 .. x + y : g[k][h] = IF h <= x THEN w.gap[h] ELSE Spelling(w)[h - x]
    BY <2>2, <2>3, ConcatProperties
  <2>6. c + (x + y) <= Len(s) /\ \A h \in 1 .. x + y : s[c + h] = g[k][h]
    BY <2>3, <2>4 DEF Carries
  <2>7. Len(s) \in Nat
    BY <1>7
  <2>8. Carries(s, c, w.gap)
    <3>1. c + x <= Len(s)
      BY <2>6, <2>7
    <3>2. \A h \in 1 .. x : h \in 1 .. x + y /\ h <= x
      OBVIOUS
    <3> QED
      BY <2>3, <2>5, <2>6, <3>1, <3>2 DEF Carries
  <2>9. Carries(s, c + x, Spelling(w))
    <3>1. (c + x) + y <= Len(s)
      BY <2>6, <2>7
    <3>2. \A h \in 1 .. y : x + h \in 1 .. x + y /\ ~(x + h <= x) /\ (x + h) - x = h /\ (c + x) + h = c + (x + h)
      OBVIOUS
    <3>3. ASSUME NEW h \in 1 .. y
          PROVE  s[(c + x) + h] = Spelling(w)[h]
      <4>1. PICK i \in 1 .. x + y : i = x + h /\ ~(i <= x) /\ i - x = h /\ (c + x) + h = c + i
        BY <3>2
      <4>2. s[c + i] = g[k][i] /\ g[k][i] = Spelling(w)[i - x]
        BY <2>5, <2>6, <4>1
      <4> QED
        BY <4>1, <4>2
    <3> QED
      BY <2>3, <3>1, <3>3 DEF Carries
  <2>10. Preceding(g, k + 1) = c + x + y
    <3>1. Preceding(g, k + 1) = Preceding(g, k) + Len(g[k])
      BY <1>5
    <3>2. c + (x + y) = c + x + y
      OBVIOUS
    <3>3. Len(g[k]) = x + y /\ Preceding(g, k) = c
      BY <2>1, <2>3
    <3> QED
      BY <3>1, <3>2, <3>3, Zenon
  <2> QED
    BY <2>1, <2>3, <2>8, <2>9, <2>10 DEF w
<1>10. \A q \in 1 .. Len(f) : s[q] \in Inner
  <2>1. \A q \in 1 .. Len(f) : f[q] \in Inner /\ s[q] = f[q]
    BY <1>5, <1>6, <1>7
  <2> QED
    BY <2>1
<1> QED
  BY <1>5, <1>7, <1>8, <1>9, <1>10 DEF g, n, s

-----------------------------------------------------------------------------
(* Where in its line a word is, and where its characters are.              *)

(* What is in front of word k, its gap included.                           *)
Opens(l, k) == Preceding(Laid(l), k) + Len(l.words[k].gap)

(* What is in front of character j + 1 of the word.                        *)
Spot(l, k, j) ==
  Opens(l, k) + IF l.words[k].quoted THEN 1 + Preceding(Marks(l.words[k].means), j + 1) ELSE j

LEMMA WordPlaces ==
  ASSUME NEW l \in WrittenLines, NEW k \in 1 .. Len(l.words)
  PROVE  /\ l.words[k] \in WrittenWords
         /\ Preceding(Laid(l), k) \in Nat /\ Opens(l, k) \in Nat /\ Preceding(Laid(l), k + 1) \in Nat
         /\ Opens(l, k) = Preceding(Laid(l), k) + Len(l.words[k].gap)
         /\ \A q \in Nat : Preceding(Laid(l), k) < q /\ q <= Opens(l, k) => LineText(l)[q] \in Space
         /\ Carries(LineText(l), Opens(l, k), Spelling(l.words[k]))
         /\ Preceding(Laid(l), k + 1) = Opens(l, k) + Len(Spelling(l.words[k]))
         /\ Preceding(Laid(l), k + 1) <= Len(LineText(l))
<1> DEFINE w == l.words[k]
<1>1. l.words \in Seq(WrittenWords) /\ k + 1 \in 1 .. Len(l.words) + 1 /\ k \in 1 .. Len(l.words) + 1
  BY WrittenLine
<1>2. w \in WrittenWords
  BY <1>1
<1> HIDE DEF w
<1>3. w.gap \in Seq(Space \ {Newline}) /\ Spelling(w) \in Seq(Inner)
  BY <1>2, WrittenWord
<1>4. PICK a \in Nat, g \in Nat, z \in Nat, b \in Nat :
        a = Preceding(Laid(l), k) /\ g = Len(w.gap) /\ z = Len(Spelling(w)) /\ b = Preceding(Laid(l), k + 1)
  <2>1. Preceding(Laid(l), k) \in Nat /\ Preceding(Laid(l), k + 1) \in Nat
    BY <1>1, LinePlaces
  <2>2. Len(w.gap) \in Nat /\ Len(Spelling(w)) \in Nat
    BY <1>3
  <2> QED
    BY <2>1, <2>2
<1>5. b = a + g + z /\ Carries(LineText(l), a, w.gap) /\ Carries(LineText(l), a + g, Spelling(w))
  BY <1>4, LinePlaces DEF w
<1>6. Opens(l, k) = a + g
  BY <1>4 DEF Opens, w
<1>7. ASSUME NEW q \in Nat, a < q, q <= a + g
      PROVE  LineText(l)[q] \in Space
  <2>1. q - a \in 1 .. g /\ a + (q - a) = q
    BY <1>7
  <2>2. LineText(l)[a + (q - a)] = w.gap[q - a]
    BY <1>4, <1>5, <2>1 DEF Carries
  <2>3. w.gap[q - a] \in Space
    <3>1. PICK h \in 1 .. Len(w.gap) : h = q - a
      BY <1>4, <2>1
    <3>2. w.gap[h] \in Space \ {Newline}
      BY <1>3
    <3> QED
      BY <3>1, <3>2
  <2> QED
    BY <2>1, <2>2, <2>3
<1>8. b <= Len(LineText(l))
  BY <1>4, <1>5 DEF Carries
<1>9. \A q \in Nat : Preceding(Laid(l), k) < q /\ q <= Opens(l, k) => LineText(l)[q] \in Space
  BY <1>4, <1>6, <1>7
<1>10. a + g \in Nat
  OBVIOUS
<1>11. Carries(LineText(l), Opens(l, k), Spelling(w)) /\ b = Opens(l, k) + z
  BY <1>5, <1>6
<1>12. w = l.words[k]
  BY DEF w
<1> QED
  BY <1>2, <1>4, <1>6, <1>8, <1>9, <1>10, <1>11, <1>12, Zenon

(* A word begins with a quote exactly if it is written in quotes.          *)
LEMMA WordBegins ==
  ASSUME NEW l \in WrittenLines, NEW k \in 1 .. Len(l.words)
  PROVE  /\ Opens(l, k) + 1 \in Nat /\ Opens(l, k) + 1 <= Len(LineText(l))
         /\ LineText(l)[Opens(l, k) + 1] \notin Space
         /\ LineText(l)[Opens(l, k) + 1] = Quote <=> l.words[k].quoted
         /\ Spot(l, k, 0) = IF l.words[k].quoted THEN Opens(l, k) + 1 ELSE Opens(l, k)
<1> DEFINE w == l.words[k]
<1>1. w \in WrittenWords /\ Opens(l, k) \in Nat /\ Carries(LineText(l), Opens(l, k), Spelling(w))
  BY WordPlaces
<1> HIDE DEF w
<1>2. Spelling(w) \in Seq(Inner) /\ Len(Spelling(w)) # 0 /\ w.means \in Seq(Char) /\ ~Contains(w.means, Nul)
  BY <1>1, WrittenWord
<1>3. PICK a \in Nat, z \in Nat : a = Opens(l, k) /\ z = Len(Spelling(w)) /\ 1 \in 1 .. z
  BY <1>1, <1>2
<1>4. a + 1 <= Len(LineText(l)) /\ LineText(l)[a + 1] = Spelling(w)[1]
  <2>1. a + z <= Len(LineText(l)) /\ \A h \in 1 .. z : LineText(l)[a + h] = Spelling(w)[h]
    BY <1>1, <1>3 DEF Carries
  <2>2. Len(LineText(l)) \in Nat
    BY LinePlaces
  <2> QED
    BY <1>3, <2>1, <2>2
<1>5. CASE w.quoted
  <2>1. Spelling(w)[1] = Quote /\ Quote \notin Space /\ Preceding(Marks(w.means), 1) = 0
    <3>1. Quote \notin Space
      BY DEF Quote, Space, Newline
    <3> QED
      BY <1>2, <1>5, <3>1, QuotedText DEF Spelling
  <2>2. Spot(l, k, 0) = a + 1
    BY <1>3, <1>5, <2>1 DEF Spot, w
  <2> QED
    BY <1>3, <1>4, <1>5, <2>1, <2>2 DEF w
<1>6. CASE ~w.quoted
  <2>1. Spelling(w) = w.means /\ w.means[1] # Quote /\ w.means[1] \notin Space
    BY <1>1, <1>3, <1>6, WrittenWord
  <2>2. Spot(l, k, 0) = a
    BY <1>3, <1>6 DEF Spot, w
  <2> QED
    <3>1. LineText(l)[a + 1] \notin Space /\ LineText(l)[a + 1] # Quote /\ a + 1 \in Nat
      BY <1>4, <2>1
    <3> QED
      BY <1>3, <1>4, <1>6, <2>2, <3>1, Zenon DEF w
<1> QED
  BY <1>5, <1>6

LEMMA BareWord ==
  ASSUME NEW l \in WrittenLines, NEW k \in 1 .. Len(l.words), ~l.words[k].quoted
  PROVE  /\ \A j \in 0 .. Len(l.words[k].means) : Spot(l, k, j) = Opens(l, k) + j
         /\ \A j \in 0 .. Len(l.words[k].means) - 1 :
              /\ Opens(l, k) + j + 1 <= Len(LineText(l))
              /\ LineText(l)[Opens(l, k) + j + 1] = l.words[k].means[j + 1]
              /\ l.words[k].means[j + 1] \notin Space
         /\ Opens(l, k) + Len(l.words[k].means) = Preceding(Laid(l), k + 1)
<1> DEFINE w == l.words[k]
<1>1. /\ w \in WrittenWords /\ Opens(l, k) \in Nat /\ Carries(LineText(l), Opens(l, k), Spelling(w))
      /\ Preceding(Laid(l), k + 1) = Opens(l, k) + Len(Spelling(w))
  BY WordPlaces
<1>2. /\ w.means \in Seq(Char) /\ Spelling(w) = w.means
      /\ \A j \in 1 .. Len(w.means) : w.means[j] \notin Space
  BY <1>1, WrittenWord
<1>3. \A j : Spot(l, k, j) = Opens(l, k) + j
  BY DEF Spot
<1> HIDE DEF w
<1>4. PICK a \in Nat, z \in Nat : a = Opens(l, k) /\ z = Len(w.means)
  BY <1>1, <1>2
<1>5. a + z <= Len(LineText(l)) /\ \A h \in 1 .. z : LineText(l)[a + h] = w.means[h]
  BY <1>1, <1>2, <1>4 DEF Carries
<1>6. ASSUME NEW j \in 0 .. z - 1
      PROVE  /\ a + j + 1 <= Len(LineText(l)) /\ LineText(l)[a + j + 1] = w.means[j + 1]
             /\ w.means[j + 1] \notin Space
  <2>1. j + 1 \in 1 .. z /\ a + (j + 1) = a + j + 1 /\ a + j + 1 <= a + z
    OBVIOUS
  <2>2. Len(LineText(l)) \in Nat
    BY LinePlaces
  <2> QED
    BY <1>2, <1>4, <1>5, <2>1, <2>2
<1> QED
  BY <1>1, <1>2, <1>3, <1>4, <1>6 DEF w

(* Behind a bare word is space, or nothing.                                *)
LEMMA BehindBareWord ==
  ASSUME NEW l \in WrittenLines, NEW k \in 1 .. Len(l.words), ~l.words[k].quoted,
         Preceding(Laid(l), k + 1) + 1 <= Len(LineText(l))
  PROVE  LineText(l)[Preceding(Laid(l), k + 1) + 1] \in Space
<1>1. /\ l.words \in Seq(WrittenWords) /\ l.end \in Seq(Space)
      /\ \A i \in 2 .. Len(l.words) : l.words[i - 1].quoted \/ l.words[i].gap # <<>>
  BY WrittenLine
<1>2. PICK b \in Nat, n \in Nat : b = Preceding(Laid(l), k + 1) /\ n = Len(l.words)
  <2>1. Preceding(Laid(l), k + 1) \in Nat /\ Len(l.words) \in Nat
    BY <1>1, WordPlaces
  <2> QED
    BY <2>1
<1>3. CASE k = n
  <2>1. Len(LineText(l)) = b + Len(l.end) /\ Carries(LineText(l), b, l.end)
    BY <1>2, <1>3, LinePlaces
  <2>2. 1 \in 1 .. Len(l.end)
    BY <1>1, <1>2, <2>1
  <2>3. LineText(l)[b + 1] = l.end[1] /\ l.end[1] \in Space
    BY <1>1, <2>1, <2>2 DEF Carries
  <2> QED
    BY <1>2, <2>3
<1>4. CASE k # n
  <2>1. PICK m \in 1 .. n : m = k + 1 /\ m \in 2 .. n /\ m - 1 = k
    BY <1>2, <1>4
  <2>2. l.words[m].gap # <<>> /\ l.words[m] \in WrittenWords
    BY <1>1, <1>2, <2>1
  <2>3. Len(l.words[m].gap) \in Nat /\ Len(l.words[m].gap) # 0
    BY <2>2, WrittenWord, EmptySeq
  <2>4. Opens(l, m) = b + Len(l.words[m].gap)
        /\ \A q \in Nat : b < q /\ q <= Opens(l, m) => LineText(l)[q] \in Space
    BY <1>2, <2>1, WordPlaces
  <2>5. b < b + 1 /\ b + 1 <= Opens(l, m) /\ b + 1 \in Nat
    BY <2>3, <2>4
  <2> QED
    BY <1>2, <2>4, <2>5
<1> QED
  BY <1>3, <1>4

(* In quotes a character is itself or two, of which the first is a         *)
(* backslash and the second stands for it.                                 *)
LEMMA QuotedWord ==
  ASSUME NEW l \in WrittenLines, NEW k \in 1 .. Len(l.words), l.words[k].quoted
  PROVE  /\ \A j \in 0 .. Len(l.words[k].means) : Spot(l, k, j) \in Nat
         /\ \A j \in 0 .. Len(l.words[k].means) - 1 :
              LET q == Spot(l, k, j) + 1
                  c == l.words[k].means[j + 1]
              IN  \/ /\ q <= Len(LineText(l)) /\ LineText(l)[q] = c /\ c \notin {Quote, Escape}
                     /\ Spot(l, k, j + 1) = q
                  \/ /\ q < Len(LineText(l)) /\ LineText(l)[q] = Escape
                     /\ Unescaped(LineText(l)[q + 1]) = <<c>> /\ Spot(l, k, j + 1) = q + 1
         /\ LineText(l)[Spot(l, k, Len(l.words[k].means)) + 1] = Quote
         /\ Spot(l, k, Len(l.words[k].means)) + 1 = Preceding(Laid(l), k + 1)
<1> DEFINE w == l.words[k]
           m == w.means
           s == LineText(l)
           e(j) == Preceding(Marks(m), j)
<1>1. /\ w \in WrittenWords /\ Opens(l, k) \in Nat /\ Carries(s, Opens(l, k), Spelling(w))
      /\ Preceding(Laid(l), k + 1) = Opens(l, k) + Len(Spelling(w))
  BY WordPlaces
<1>2. Spelling(w) = InQuotes(m)
  BY DEF Spelling
<1>3. m \in Seq(Char) /\ ~Contains(m, Nul)
  BY <1>1, WrittenWord
<1>4. /\ InQuotes(m) \in Seq(Inner)
      /\ e(1) = 0
      /\ \A j \in 1 .. Len(m) + 1 : e(j) \in Nat
      /\ \A j \in 1 .. Len(m) : e(j + 1) = e(j) + Len(Spelled(m[j])) /\ Carries(InQuotes(m), 1 + e(j), Spelled(m[j]))
      /\ Len(InQuotes(m)) = e(Len(m) + 1) + 2
      /\ InQuotes(m)[e(Len(m) + 1) + 2] = Quote
  BY <1>3, QuotedText
<1>5. \A j : Spot(l, k, j) = Opens(l, k) + (1 + e(j + 1))
  BY DEF Spot
<1> HIDE DEF e, s, w, m
<1>6. PICK a \in Nat, z \in Nat : a = Opens(l, k) /\ z = Len(m)
  BY <1>1, <1>3
<1>7. s \in Seq(Char \ {Nul}) /\ Len(s) \in Nat
  BY LinePlaces DEF s
<1>8. ASSUME NEW j \in 0 .. z
      PROVE  Spot(l, k, j) \in Nat
  <2>1. j + 1 \in 1 .. Len(m) + 1
    BY <1>6
  <2>2. PICK x \in Nat : x = e(j + 1)
    BY <1>4, <2>1
  <2>3. Spot(l, k, j) = a + (1 + x)
    BY <1>5, <1>6, <2>2
  <2> QED
    BY <2>3
<1>9. ASSUME NEW j \in 0 .. z - 1
      PROVE  LET q == Spot(l, k, j) + 1
                 c == m[j + 1]
             IN  \/ /\ q <= Len(s) /\ s[q] = c /\ c \notin {Quote, Escape}
                    /\ Spot(l, k, j + 1) = q
                 \/ /\ q < Len(s) /\ s[q] = Escape
                    /\ Unescaped(s[q + 1]) = <<c>> /\ Spot(l, k, j + 1) = q + 1
  <2> DEFINE c == m[j + 1]
  <2>1. PICK i \in 1 .. Len(m) : i = j + 1 /\ j + 1 + 1 = i + 1
    BY <1>6
  <2>2. PICK x \in Nat : x = e(i)
    <3>1. i \in 1 .. Len(m) + 1
      BY <1>6
    <3> QED
      BY <1>4, <3>1
  <2>3. Spot(l, k, j) = a + 1 + x /\ Spot(l, k, j + 1) = a + 1 + x + Len(Spelled(m[i])) /\ Len(Spelled(m[i])) \in Nat
    <3>1. e(i + 1) = x + Len(Spelled(m[i]))
      BY <1>4, <2>2
    <3>2. Spelled(m[i]) \in Seq(Inner)
      BY <1>3, SpelledType DEF Contains
    <3>3. PICK y \in Nat : y = Len(Spelled(m[i]))
      BY <3>2
    <3>4. Spot(l, k, j) = a + (1 + x) /\ Spot(l, k, j + 1) = a + (1 + (x + y))
      BY <1>5, <1>6, <2>1, <2>2, <3>1, <3>3
    <3>5. a + (1 + x) = a + 1 + x /\ a + (1 + (x + y)) = a + 1 + x + y
      OBVIOUS
    <3> QED
      BY <3>3, <3>4, <3>5, Zenon
  <2>4. Carries(s, a + 1 + x, Spelled(m[i]))
    <3>1. Carries(InQuotes(m), 1 + x, Spelled(m[i])) /\ Carries(s, a, InQuotes(m))
      BY <1>1, <1>2, <1>4, <1>6, <2>2
    <3>2. Carries(s, a + (1 + x), Spelled(m[i]))
      BY <1>4, <1>7, <2>3, <3>1, CarriesThrough
    <3>3. a + (1 + x) = a + 1 + x
      OBVIOUS
    <3> QED
      BY <3>2, <3>3
  <2>5. m[i] \in Char /\ m[i] # Nul /\ c = m[i]
    BY <1>3, <2>1 DEF Contains
  <2> HIDE DEF c
  <2>6. CASE Spelled(c) = <<c>> /\ c \notin {Quote, Escape}
    <3>1. Len(Spelled(c)) = 1 /\ Spelled(c)[1] = c
      BY <2>6
    <3>2. (a + 1 + x) + 1 <= Len(s) /\ s[(a + 1 + x) + 1] = c
      BY <2>4, <2>5, <3>1 DEF Carries
    <3> QED
      BY <2>3, <2>5, <2>6, <3>1, <3>2 DEF c
  <2>7. ASSUME NEW d \in Char, Spelled(c) = <<Escape, d>>, Unescaped(d) = <<c>>
        PROVE  LET q == Spot(l, k, j) + 1
               IN  /\ q < Len(s) /\ s[q] = Escape
                   /\ Unescaped(s[q + 1]) = <<c>> /\ Spot(l, k, j + 1) = q + 1
    <3>1. Len(Spelled(c)) = 2 /\ Spelled(c)[1] = Escape /\ Spelled(c)[2] = d /\ 1 \in 1 .. 2 /\ 2 \in 1 .. 2
      BY <2>7
    <3>2. (a + 1 + x) + 2 <= Len(s) /\ s[(a + 1 + x) + 1] = Escape /\ s[(a + 1 + x) + 2] = d
      BY <2>4, <2>5, <3>1 DEF Carries
    <3>3. PICK q \in Nat : q = a + 1 + x + 1 /\ q + 1 = (a + 1 + x) + 2
      OBVIOUS
    <3>4. q < Len(s) /\ s[q] = Escape /\ s[q + 1] = d
      BY <1>7, <3>2, <3>3
    <3>5. Spot(l, k, j) + 1 = q /\ Spot(l, k, j + 1) = q + 1
      BY <2>3, <2>5, <3>1, <3>3
    <3> QED
      BY <2>7, <3>4, <3>5
  <2>8. \/ Spelled(c) = <<c>> /\ c \notin {Quote, Escape}
        \/ \E d \in Char : Spelled(c) = <<Escape, d>> /\ Unescaped(d) = <<c>>
    BY <2>5, SpelledType
  <2> QED
    BY <2>6, <2>7, <2>8 DEF c
<1>10. /\ s[Spot(l, k, z) + 1] = Quote
       /\ Spot(l, k, z) + 1 = Preceding(Laid(l), k + 1)
  <2>1. PICK x \in Nat : x = e(z + 1)
    <3>1. z + 1 \in 1 .. Len(m) + 1
      BY <1>6
    <3> QED
      BY <1>4, <3>1
  <2>2. Len(InQuotes(m)) = x + 2 /\ InQuotes(m)[x + 2] = Quote
    BY <1>4, <1>6, <2>1
  <2>3. Spot(l, k, z) + 1 = a + (x + 2)
    <3>1. Spot(l, k, z) = a + (1 + x)
      BY <1>5, <1>6, <2>1
    <3> QED
      BY <3>1
  <2>4. s[a + (x + 2)] = Quote
    <3>1. x + 2 \in 1 .. x + 2
      OBVIOUS
    <3> QED
      BY <1>1, <1>2, <1>6, <2>2, <3>1 DEF Carries
  <2> QED
    BY <1>1, <1>2, <1>6, <2>2, <2>3, <2>4
<1> QED
  BY <1>6, <1>8, <1>9, <1>10 DEF m, w, s

-----------------------------------------------------------------------------
(* Where in the text a line is.                                            *)

LineTexts(ls) == [n \in DOMAIN ls |-> LineText(ls[n])]

Start(ls, n) == Preceding(LineTexts(ls), n)

LEMMA TextPlaces ==
  ASSUME NEW ls \in Writings
  PROVE  /\ ls \in Seq(WrittenLines)
         /\ TextOf(ls) \in Seq(Char \ {Nul})
         /\ Start(ls, 1) = 0 /\ Start(ls, Len(ls) + 1) = Len(TextOf(ls))
         /\ \A n \in 1 .. Len(ls) + 1 : Start(ls, n) \in Nat
         /\ \A n \in 1 .. Len(ls) :
              /\ Start(ls, n + 1) = Start(ls, n) + Len(LineText(ls[n]))
              /\ Carries(TextOf(ls), Start(ls, n), LineText(ls[n]))
<1> DEFINE g == LineTexts(ls)
           T == Char \ {Nul}
<1>1. ls \in Seq(WrittenLines) /\ Len(ls) \in Nat /\ DOMAIN ls = 1 .. Len(ls)
  BY DEF Writings
<1>2. ASSUME NEW n \in 1 .. Len(ls)
      PROVE  g[n] = LineText(ls[n]) /\ g[n] \in Seq(T)
  <2>1. ls[n] \in WrittenLines
    BY <1>1
  <2>2. g[n] = LineText(ls[n])
    BY <1>1 DEF LineTexts
  <2> QED
    BY <2>1, <2>2, LinePlaces
<1>3. TextOf(ls) = FlattenSeq([n \in 1 .. Len(ls) |-> g[n]])
  <2>1. LineTexts(ls) = [n \in DOMAIN LineTexts(ls) |-> LineTexts(ls)[n]] /\ DOMAIN LineTexts(ls) = DOMAIN ls
    BY DEF LineTexts
  <2>2. TextOf(ls) = FlattenSeq(LineTexts(ls))
    BY Zenon DEF TextOf, LineTexts
  <2> QED
    BY <1>1, <2>1, <2>2
<1>4. \A n : Start(ls, n) = Preceding(g, n)
  BY DEF Start
<1> HIDE DEF g, T
<1>5. /\ Preceding(g, 1) = 0
      /\ \A k \in 1 .. Len(ls) + 1 : Preceding(g, k) \in Nat
      /\ \A k \in 1 .. Len(ls) : /\ Preceding(g, k + 1) = Preceding(g, k) + Len(g[k])
                                 /\ Carries(TextOf(ls), Preceding(g, k), g[k])
      /\ Preceding(g, Len(ls) + 1) = Len(TextOf(ls))
      /\ TextOf(ls) \in Seq(T)
  <2>1. \A k \in 1 .. Len(ls) : g[k] \in Seq(T)
    BY <1>2
  <2> DEFINE f == FlattenSeq([n \in 1 .. Len(ls) |-> g[n]])
  <2>2. /\ Preceding(g, 1) = 0
        /\ \A k \in 1 .. Len(ls) + 1 : Preceding(g, k) \in Nat
        /\ \A k \in 1 .. Len(ls) : Preceding(g, k + 1) = Preceding(g, k) + Len(g[k]) /\ Carries(f, Preceding(g, k), g[k])
        /\ Preceding(g, Len(ls) + 1) = Len(f)
        /\ f \in Seq(T)
    BY <1>1, <2>1, FlatPlaces
  <2>3. f = TextOf(ls)
    BY <1>3
  <2> HIDE DEF f
  <2> QED
    BY <2>2, <2>3
<1>6. \A n \in 1 .. Len(ls) :
         /\ Start(ls, n + 1) = Start(ls, n) + Len(LineText(ls[n]))
         /\ Carries(TextOf(ls), Start(ls, n), LineText(ls[n]))
  BY <1>2, <1>4, <1>5
<1> QED
  BY <1>1, <1>4, <1>5, <1>6 DEF T

(* A newline ends a line, and every line but the last ends in one.         *)
LEMMA NewlineEnds ==
  ASSUME NEW l \in WrittenLines
  PROVE  /\ Len(LineText(l)) \in Nat \ {0}
         /\ \A q \in 1 .. Len(LineText(l)) : LineText(l)[q] = Newline => q = Len(LineText(l))
         /\ l.end # <<>> /\ Last(l.end) = Newline => LineText(l)[Len(LineText(l))] = Newline
<1> DEFINE s == LineText(l)
<1>1. /\ l.words \in Seq(WrittenWords) /\ l.end \in Seq(Space)
      /\ \A k \in 1 .. Len(l.end) - 1 : l.end[k] # Newline
      /\ l.words # <<>> \/ l.end # <<>>
  BY WrittenLine
<1>2. PICK n \in Nat, z \in Nat : n = Len(l.words) /\ z = Len(l.end)
  BY <1>1
<1>3. PICK b \in Nat : b = Preceding(Laid(l), n + 1)
  <2>1. n + 1 \in 1 .. Len(l.words) + 1
    BY <1>2
  <2> QED
    BY <2>1, LinePlaces
<1>4. Len(s) = b + z /\ (\A q \in 1 .. b : s[q] \in Inner) /\ (\A h \in 1 .. z : s[b + h] = l.end[h])
  <2>1. Len(s) = b + z /\ (\A q \in 1 .. b : s[q] \in Inner) /\ Carries(s, b, l.end)
    BY <1>2, <1>3, LinePlaces
  <2> QED
    BY <1>2, <2>1 DEF Carries
<1> HIDE DEF s
<1>5. Len(s) # 0
  <2>1. CASE z = 0
    <3>1. n # 0
      BY <1>1, <1>2, <2>1, EmptySeq
    <3>2. n \in 1 .. Len(l.words)
      BY <1>2, <3>1
    <3>3. b = Opens(l, n) + Len(Spelling(l.words[n])) /\ Opens(l, n) \in Nat /\ l.words[n] \in WrittenWords
      BY <1>3, <3>2, WordPlaces
    <3>4. Len(Spelling(l.words[n])) \in Nat /\ Len(Spelling(l.words[n])) # 0
      BY <3>3, WrittenWord
    <3>5. b # 0
      BY <3>3, <3>4
    <3> QED
      BY <1>4, <3>5
  <2>2. CASE z # 0
    BY <1>4, <2>2
  <2> QED
    BY <2>1, <2>2
<1>6. ASSUME NEW q \in 1 .. Len(s), s[q] = Newline
      PROVE  q = Len(s)
  <2>1. ~(q <= b)
    <3>1. Newline \notin Inner
      BY DEF Inner
    <3> QED
      BY <1>4, <1>6, <3>1
  <2>2. PICK h \in 1 .. z : q = b + h
    <3>1. q - b \in 1 .. z /\ q = b + (q - b)
      BY <1>4, <2>1
    <3> QED
      BY <3>1
  <2>3. l.end[h] = Newline
    BY <1>4, <1>6, <2>2
  <2>4. h = z
    BY <1>1, <1>2, <2>3
  <2> QED
    BY <1>4, <2>2, <2>4
<1>7. ASSUME l.end # <<>>, Last(l.end) = Newline
      PROVE  s[Len(s)] = Newline
  <2>1. z \in 1 .. z
    BY <1>1, <1>2, <1>7, EmptySeq
  <2>2. l.end[z] = Newline
    BY <1>2, <1>7 DEF Last
  <2> QED
    BY <1>4, <2>1, <2>2
<1> QED
  BY <1>4, <1>5, <1>6, <1>7 DEF s

LEMMA LineInText ==
  ASSUME NEW ls \in Writings, NEW n \in 1 .. Len(ls)
  PROVE  /\ ls[n] \in WrittenLines
         /\ Start(ls, n) \in Nat /\ Len(LineText(ls[n])) \in Nat \ {0}
         /\ Start(ls, n + 1) = Start(ls, n) + Len(LineText(ls[n]))
         /\ Start(ls, n + 1) <= Len(TextOf(ls))
         /\ \A q \in 1 .. Len(LineText(ls[n])) : TextOf(ls)[Start(ls, n) + q] = LineText(ls[n])[q]
         /\ \A q \in 1 .. Len(LineText(ls[n])) :
              TextOf(ls)[Start(ls, n) + q] = Newline => q = Len(LineText(ls[n]))
         /\ n # Len(ls) => TextOf(ls)[Start(ls, n + 1)] = Newline
         /\ n = Len(ls) => Start(ls, n + 1) = Len(TextOf(ls))
<1>1. ls \in Seq(WrittenLines) /\ n \in 1 .. Len(ls) + 1 /\ Len(ls) \in Nat
  BY TextPlaces
<1>2. ls[n] \in WrittenLines
  BY <1>1
<1>3. PICK a \in Nat, z \in Nat \ {0} : a = Start(ls, n) /\ z = Len(LineText(ls[n]))
  BY <1>1, <1>2, TextPlaces, NewlineEnds
<1>4. Start(ls, n + 1) = a + z /\ Carries(TextOf(ls), a, LineText(ls[n]))
  BY <1>3, TextPlaces
<1>5. a + z <= Len(TextOf(ls)) /\ \A q \in 1 .. z : TextOf(ls)[a + q] = LineText(ls[n])[q]
  BY <1>3, <1>4 DEF Carries
<1>6. \A q \in 1 .. z : LineText(ls[n])[q] = Newline => q = z
  BY <1>2, <1>3, NewlineEnds
<1>7. n # Len(ls) => TextOf(ls)[a + z] = Newline
  <2> SUFFICES ASSUME n # Len(ls) PROVE TextOf(ls)[a + z] = Newline
    OBVIOUS
  <2>1. n \in 1 .. Len(ls) - 1
    BY <1>1
  <2>2. ls[n].end # <<>> /\ Last(ls[n].end) = Newline
    BY <2>1 DEF Writings
  <2>3. LineText(ls[n])[z] = Newline
    BY <1>2, <1>3, <2>2, NewlineEnds
  <2>4. z \in 1 .. z
    OBVIOUS
  <2> QED
    BY <1>5, <2>3, <2>4
<1>8. n = Len(ls) => Start(ls, n + 1) = Len(TextOf(ls))
  BY TextPlaces
<1> QED
  BY <1>2, <1>3, <1>4, <1>5, <1>6, <1>7, <1>8

(* Between its ends a line has no break, so it is one that fits.           *)
LEMMA LineFits ==
  ASSUME NEW ls \in Writings, NEW n \in 1 .. Len(ls), text = TextOf(ls), Fits
  PROVE  Len(LineText(ls[n])) < MAX_LINE_LENGTH
<1>1. PICK a \in Nat, z \in Nat \ {0} : a = Start(ls, n) /\ z = Len(LineText(ls[n]))
  BY LineInText
<1>2. /\ Start(ls, n + 1) = a + z /\ a + z <= Len(text) /\ Len(text) \in Nat
      /\ \A q \in 1 .. z : text[a + q] = Newline => q = z
      /\ n # Len(ls) => text[a + z] = Newline
      /\ n = Len(ls) => a + z = Len(text)
  BY <1>1, LineInText, TextPlaces
<1>3. DOMAIN text = 1 .. Len(text)
  BY TextPlaces
<1>4. a \in Breaks
  <2>1. CASE n = 1
    BY <1>1, <2>1, TextPlaces DEF Breaks
  <2>2. CASE n # 1
    <3>1. PICK m \in 1 .. Len(ls) : n = m + 1 /\ m # Len(ls)
      <4>1. Len(ls) \in Nat
        BY TextPlaces
      <4>2. n - 1 \in 1 .. Len(ls) /\ n = (n - 1) + 1 /\ n - 1 # Len(ls)
        BY <2>2, <4>1
      <4> QED
        BY <4>2
    <3>2. text[a] = Newline /\ a <= Len(text)
      BY <1>1, <3>1, LineInText
    <3>3. PICK x \in Nat, y \in Nat \ {0} : x = Start(ls, m) /\ y = Len(LineText(ls[m])) /\ a = x + y
      BY <1>1, <3>1, LineInText
    <3>4. a \in 1 .. Len(text)
      BY <1>2, <3>2, <3>3
    <3> QED
      BY <1>3, <3>2, <3>4, Zenon DEF Breaks
  <2> QED
    BY <2>1, <2>2
<1>5. a + z \in Breaks
  <2>1. a + z \in 1 .. Len(text)
    BY <1>2
  <2> QED
    BY <1>2, <1>3, <2>1, Zenon DEF Breaks
<1>6. ASSUME NEW b \in Breaks
      PROVE  b <= a \/ b >= a + z
  <2>1. CASE b = 0
    BY <2>1
  <2>2. CASE b = Len(text)
    BY <1>2, <2>2
  <2>3. CASE b \in DOMAIN text /\ text[b] = Newline
    <3>1. b \in 1 .. Len(text)
      BY <1>3, <2>3
    <3>2. SUFFICES ASSUME b > a, b < a + z PROVE FALSE
      BY <1>2, <3>1
    <3>3. PICK q \in 1 .. z : b = a + q /\ q # z
      <4>1. b - a \in 1 .. z /\ b = a + (b - a) /\ b - a # z
        BY <1>2, <3>1, <3>2
      <4> QED
        BY <4>1
    <3> QED
      BY <1>2, <2>3, <3>3
  <2> QED
    BY <2>1, <2>2, <2>3 DEF Breaks
<1>7. (a + z) - a < MAX_LINE_LENGTH
  <2>1. a < a + z
    OBVIOUS
  <2> QED
    BY <1>4, <1>5, <1>6, <2>1 DEF Fits
<1> QED
  BY <1>1, <1>7

(* What fgets takes of the text is the next line.                          *)
LEMMA TakenLine ==
  ASSUME NEW ls \in Writings, NEW n \in 1 .. Len(ls), text = TextOf(ls),
         at = Start(ls, n) + 1, Len(LineText(ls[n])) < MAX_LINE_LENGTH
  PROVE  /\ Taken = Len(LineText(ls[n]))
         /\ SubSeq(text, at, at + Taken - 1) = LineText(ls[n])
<1>1. PICK a \in Nat, z \in Nat \ {0} : a = Start(ls, n) /\ z = Len(LineText(ls[n]))
  BY LineInText
<1>2. PICK t \in Nat : t = Len(text)
  BY TextPlaces
<1>3. /\ Start(ls, n + 1) = a + z /\ a + z <= t
      /\ \A q \in 1 .. z : text[a + q] = LineText(ls[n])[q]
      /\ \A q \in 1 .. z : text[a + q] = Newline => q = z
      /\ n # Len(ls) => text[a + z] = Newline
      /\ n = Len(ls) => a + z = t
  BY <1>1, <1>2, LineInText
<1>4. text \in Seq(Char \ {Nul}) /\ at = a + 1 /\ \A q \in 1 .. t : text[q] \in Char \ {Nul}
  BY <1>1, <1>2, TextPlaces
<1> DEFINE rest == SubSeq(text, at, Len(text))
           I    == {m \in 1 .. Len(rest) : rest[m] = Newline}
           k    == IF I # {} THEN Min(I) ELSE 0
           r    == IF k = 0 THEN Len(rest) ELSE k
<1>5. Len(rest) = t - a /\ \A q \in 1 .. t - a : rest[q] = text[a + q]
  <2>1. \A q \in a + 1 .. t : text[q] \in Char \ {Nul}
    BY <1>4
  <2>2. /\ Len(SubSeq(text, a + 1, t)) = IF a + 1 <= t THEN t - (a + 1) + 1 ELSE 0
        /\ \A q \in 1 .. t - (a + 1) + 1 : SubSeq(text, a + 1, t)[q] = text[(a + 1) + q - 1]
    BY <2>1, SubSeqProperties
  <2>3. t - (a + 1) + 1 = t - a /\ a + 1 <= t /\ \A q \in 1 .. t - a : (a + 1) + q - 1 = a + q
    BY <1>3
  <2>4. rest = SubSeq(text, a + 1, t)
    BY <1>2, <1>4
  <2> HIDE DEF rest
  <2> QED
    BY <2>2, <2>3, <2>4
<1>6. Taken = IF r < MAX_LINE_LENGTH THEN r ELSE MAX_LINE_LENGTH - 1
  BY DEF Taken, SelectInSeq
<1> HIDE DEF rest
<1>7. \A q \in I : q \in 1 .. t - a /\ q >= z
  <2> SUFFICES ASSUME NEW q \in I PROVE q \in 1 .. t - a /\ q >= z
    OBVIOUS
  <2>1. q \in 1 .. t - a /\ text[a + q] = Newline
    BY <1>5
  <2>2. q \in 1 .. z => q = z
    BY <1>3, <2>1
  <2> QED
    BY <2>1, <2>2
<1>8. r = z
  <2>1. CASE n = Len(ls)
    <3>1. t - a = z
      BY <1>3, <2>1
    <3>2. \A q \in I : q = z
      BY <1>7, <3>1
    <3>3. I = {} \/ Min(I) = z
      <4>1. I \in SUBSET Nat
        OBVIOUS
      <4> HIDE DEF I
      <4> QED
        BY <3>2, <4>1, LeastOf
    <3> QED
      BY <1>5, <3>1, <3>3
  <2>2. CASE n # Len(ls)
    <3>1. z \in 1 .. t - a /\ text[a + z] = Newline
      BY <1>3, <2>2
    <3>2. z \in I
      BY <1>5, <3>1
    <3>3. I \in SUBSET Nat
      OBVIOUS
    <3> HIDE DEF I
    <3>4. PICK x \in I : \A y \in I : x <= y
      BY <3>2, <3>3, LeastMember
    <3>5. Min(I) \in I /\ \A y \in I : Min(I) <= y
      BY <3>4 DEF Min
    <3>6. Min(I) \in Nat /\ Min(I) >= z /\ Min(I) <= z
      BY <1>7, <3>2, <3>3, <3>5
    <3> QED
      BY <3>2, <3>6
  <2> QED
    BY <2>1, <2>2
<1> HIDE DEF r
<1>9. Taken = z
  BY <1>1, <1>6, <1>8
<1>10. SubSeq(text, at, at + Taken - 1) = LineText(ls[n])
  <2>1. at + Taken - 1 = a + z
    BY <1>4, <1>9
  <2>2. \A q \in a + 1 .. a + z : text[q] \in Char \ {Nul}
    BY <1>3, <1>4
  <2>3. /\ SubSeq(text, a + 1, a + z) \in Seq(Char \ {Nul})
        /\ Len(SubSeq(text, a + 1, a + z)) = IF a + 1 <= a + z THEN (a + z) - (a + 1) + 1 ELSE 0
        /\ \A q \in 1 .. (a + z) - (a + 1) + 1 : SubSeq(text, a + 1, a + z)[q] = text[(a + 1) + q - 1]
    BY <2>2, SubSeqProperties
  <2>4. (a + z) - (a + 1) + 1 = z /\ a + 1 <= a + z /\ \A q \in 1 .. z : (a + 1) + q - 1 = a + q
    OBVIOUS
  <2>5. PICK f \in Seq(Char \ {Nul}) : f = SubSeq(text, a + 1, a + z) /\ Len(f) = z
    BY <2>3, <2>4
  <2>6. \A q \in 1 .. z : f[q] = LineText(ls[n])[q]
    BY <1>3, <2>3, <2>4, <2>5
  <2>7. LineText(ls[n]) \in Seq(Char \ {Nul})
    BY LineInText, LinePlaces
  <2>8. f = LineText(ls[n])
    BY <1>1, <2>5, <2>6, <2>7, SeqEqual
  <2> QED
    BY <1>4, <2>1, <2>5, <2>8
<1> QED
  BY <1>1, <1>9, <1>10

-----------------------------------------------------------------------------
(* Between two turns raw[] and the words of the line are those meant so    *)
(* far, and the scan is in the gap in front of the next word, or behind as *)
(* many of its characters as the word under way has.                       *)

Scans(l) ==
  /\ Len(words) <= Len(l.words)
  /\ \A k \in 1 .. Len(words) : words[k] = l.words[k].means
  /\ reading = "word" => /\ Preceding(Laid(l), Len(words) + 1) < p
                         /\ Len(words) + 1 <= Len(l.words) => p <= Opens(l, Len(words) + 1) + 1
  /\ reading \in {"bare", "quoted"} =>
       /\ Len(words) + 1 <= Len(l.words)
       /\ l.words[Len(words) + 1].quoted <=> reading = "quoted"
       /\ \E j \in 0 .. Len(l.words[Len(words) + 1].means) :
            /\ word = SubSeq(l.words[Len(words) + 1].means, 1, j)
            /\ p = Spot(l, Len(words) + 1, j) + 1

Follows(ls) ==
  /\ Len(raw) <= Len(ls)
  /\ \A n \in 1 .. Len(raw) : raw[n] = First(MeantBy(ls)[n], MAX_WORDS)
  /\ reading = "line" => at = Start(ls, Len(raw) + 1) + 1
  /\ reading \in {"word", "bare", "quoted"} =>
       /\ Len(raw) + 1 <= Len(ls)
       /\ at = Start(ls, Len(raw) + 2) + 1
       /\ line = LineText(ls[Len(raw) + 1])
       /\ Scans(ls[Len(raw) + 1])
  /\ reading = "read" => Len(raw) \in {Len(ls), MAX_LINES}

(* The line under way.                                                     *)
LEMMA UnderWay ==
  ASSUME ReadInv, NEW ls \in Writings, Follows(ls), reading \in {"word", "bare", "quoted"}
  PROVE  \E l \in WrittenLines : /\ l = ls[Len(raw) + 1] /\ line = LineText(l) /\ Scans(l)
                                 /\ Len(words) \in Nat /\ Len(l.words) \in Nat
                                 /\ Len(line) \in Nat /\ p \in Nat \ {0} /\ p <= Len(line) + 1
<1>1. ls \in Seq(WrittenLines) /\ Len(ls) \in Nat
  BY TextPlaces
<1>2. Len(raw) \in Nat /\ Len(words) \in Nat /\ Len(line) \in Nat /\ p \in Nat \ {0} /\ p <= Len(line) + 1
  BY DEF ReadInv, ReadType, StaysInBuffers, Text
<1>3. PICK l \in WrittenLines : l = ls[Len(raw) + 1]
  BY <1>1, <1>2 DEF Follows
<1>4. Len(l.words) \in Nat
  BY WrittenLine
<1> QED
  BY <1>2, <1>3, <1>4 DEF Follows

(* A turn inside a line only has to keep its scan.                         *)
LEMMA TurnFollows ==
  ASSUME NEW ls \in Writings, NEW l, Follows(ls), l = ls[Len(raw) + 1],
         reading \in {"word", "bare", "quoted"}, reading' \in {"word", "bare", "quoted"},
         UNCHANGED <<file, at, line, raw>>, Scans(l)'
  PROVE  Follows(ls)'
<1>1. Scans(ls[Len(raw) + 1])'
  BY DEF Scans
<1> QED
  BY <1>1 DEF Follows

LEMMA SkipSpaceFollows == ASSUME ReadInv, NEW ls \in Writings, Follows(ls), SkipSpace PROVE Follows(ls)'
<1>1. PICK l \in WrittenLines : /\ l = ls[Len(raw) + 1] /\ line = LineText(l) /\ Scans(l)
                                /\ Len(words) \in Nat /\ Len(l.words) \in Nat
                                /\ Len(line) \in Nat /\ p \in Nat \ {0} /\ p <= Len(line) + 1
  BY UnderWay DEF SkipSpace, AtWord
<1>2. PICK k \in Nat \ {0} : k = Len(words) + 1
  BY <1>1
<1>3. ASSUME k <= Len(l.words)
      PROVE  p + 1 <= Opens(l, k) + 1
  <2>1. k \in 1 .. Len(l.words)
    BY <1>1, <1>2, <1>3
  <2>2. p <= Opens(l, k) + 1
    BY <1>2, <1>3, <1>1 DEF Scans, SkipSpace, AtWord
  <2>3. p # Opens(l, k) + 1
    BY <1>1, <2>1, WordBegins DEF SkipSpace
  <2>4. Opens(l, k) \in Nat
    BY <2>1, WordPlaces
  <2> QED
    BY <1>1, <2>2, <2>3, <2>4
<1>4. Preceding(Laid(l), k) < p + 1
  <2>1. Preceding(Laid(l), k) < p
    BY <1>1, <1>2 DEF Scans, SkipSpace, AtWord
  <2>2. k \in 1 .. Len(l.words) + 1
    <3>1. Len(words) <= Len(l.words)
      BY <1>1 DEF Scans
    <3> QED
      BY <1>1, <1>2, <3>1
  <2>3. Preceding(Laid(l), k) \in Nat
    BY <2>2, LinePlaces
  <2> QED
    BY <1>1, <2>1, <2>3
<1>5. reading = "word" /\ reading' = "word" /\ p' = p + 1 /\ UNCHANGED <<file, at, line, word, words, raw>>
  BY DEF SkipSpace, AtWord, Past
<1>6. Scans(l)'
  BY <1>1, <1>2, <1>3, <1>4, <1>5 DEF Scans
<1> QED
  BY <1>1, <1>5, <1>6, TurnFollows

LEMMA StartWordFollows == ASSUME ReadInv, NEW ls \in Writings, Follows(ls), StartWord PROVE Follows(ls)'
<1>1. PICK l \in WrittenLines : /\ l = ls[Len(raw) + 1] /\ line = LineText(l) /\ Scans(l)
                                /\ Len(words) \in Nat /\ Len(l.words) \in Nat
                                /\ Len(line) \in Nat /\ p \in Nat \ {0} /\ p <= Len(line) + 1
  BY UnderWay DEF StartWord, AtWord
<1>2. PICK k \in Nat \ {0} : k = Len(words) + 1
  BY <1>1
<1>3. /\ reading = "word" /\ p <= Len(line) /\ line[p] \notin Space /\ word' = <<>>
      /\ UNCHANGED <<file, at, line, words, raw>>
      /\ line[p] = Quote => reading' = "quoted" /\ p' = p + 1
      /\ line[p] # Quote => reading' = "bare" /\ p' = p
  BY DEF StartWord, AtWord, More, Past
<1>4. k <= Len(l.words) + 1 /\ Preceding(Laid(l), k) < p /\ (k <= Len(l.words) => p <= Opens(l, k) + 1)
  BY <1>1, <1>2, <1>3 DEF Scans
<1>5. k <= Len(l.words)
  <2> SUFFICES ASSUME k = Len(l.words) + 1 PROVE FALSE
    BY <1>1, <1>4
  <2>1. PICK b \in Nat, z \in Nat : b = Preceding(Laid(l), k) /\ z = Len(l.end)
    <3>1. k \in 1 .. Len(l.words) + 1
      BY <1>1
    <3>2. Preceding(Laid(l), k) \in Nat /\ l.end \in Seq(Space)
      BY <3>1, LinePlaces, WrittenLine
    <3>3. Len(l.end) \in Nat
      BY <3>2
    <3> QED
      BY <3>2, <3>3
  <2>2. Len(line) = b + z /\ \A h \in 1 .. z : line[b + h] = l.end[h]
    <3>1. Len(line) = b + z /\ Carries(line, b, l.end)
      BY <1>1, <2>1, LinePlaces
    <3> QED
      BY <2>1, <3>1 DEF Carries
  <2>3. PICK h \in 1 .. z : p = b + h
    <3>1. b < p /\ p <= b + z /\ p \in Nat
      BY <1>1, <1>3, <1>4, <2>1, <2>2
    <3>2. p - b \in 1 .. z /\ p = b + (p - b)
      BY <3>1
    <3> QED
      BY <3>2
  <2>4. l.end[h] \in Space
    BY <2>1, WrittenLine
  <2> QED
    BY <1>3, <2>2, <2>3, <2>4
<1>6. k \in 1 .. Len(l.words)
  BY <1>1, <1>2, <1>5
<1>7. p = Opens(l, k) + 1
  <2>1. Opens(l, k) \in Nat /\ p <= Opens(l, k) + 1 /\ Preceding(Laid(l), k) < p
    BY <1>4, <1>5, <1>6, WordPlaces
  <2>2. ~(p <= Opens(l, k))
    BY <1>1, <1>3, <1>6, <2>1, WordPlaces
  <2> QED
    BY <1>1, <2>1, <2>2
<1>8. /\ line[p] = Quote <=> l.words[k].quoted
      /\ Spot(l, k, 0) = IF l.words[k].quoted THEN Opens(l, k) + 1 ELSE Opens(l, k)
  BY <1>1, <1>6, <1>7, WordBegins
<1>9. p' = Spot(l, k, 0) + 1 /\ (l.words[k].quoted <=> reading' = "quoted") /\ reading' \in {"bare", "quoted"}
  <2>1. CASE line[p] = Quote
    BY <1>3, <1>7, <1>8, <2>1
  <2>2. CASE line[p] # Quote
    BY <1>3, <1>7, <1>8, <2>2
  <2> QED
    BY <2>1, <2>2
<1>10. SubSeq(l.words[k].means, 1, 0) = <<>> /\ 0 \in 0 .. Len(l.words[k].means)
  <2>1. l.words[k].means \in Seq(Char)
    BY <1>6, WordPlaces, WrittenWord
  <2>2. Len(l.words[k].means) \in Nat
    BY <2>1
  <2> QED
    BY <2>1, <2>2, SubSeqEmpty
<1>11. Scans(l)'
  <2>1. \E j \in 0 .. Len(l.words[k].means) : word' = SubSeq(l.words[k].means, 1, j) /\ p' = Spot(l, k, j) + 1
    BY <1>3, <1>9, <1>10
  <2> QED
    BY <1>1, <1>2, <1>3, <1>5, <1>9, <2>1 DEF Scans
<1> QED
  BY <1>1, <1>3, <1>9, <1>11, TurnFollows

(* The word under way is to be m, word k of line l, and has j characters.  *)
OnWord(ls, l, k, m, j) ==
  /\ l = ls[Len(raw) + 1] /\ line = LineText(l) /\ Scans(l)
  /\ k \in 1 .. Len(l.words) /\ k = Len(words) + 1 /\ m = l.words[k].means
  /\ l.words[k].quoted <=> reading = "quoted"
  /\ j <= Len(m) /\ word = SubSeq(m, 1, j) /\ Len(word) = j /\ p = Spot(l, k, j) + 1

LEMMA WordUnderWay ==
  ASSUME ReadInv, NEW ls \in Writings, Follows(ls), reading \in {"bare", "quoted"}
  PROVE  \E l \in WrittenLines, k \in Nat, m \in Text, j \in Nat : OnWord(ls, l, k, m, j)
<1>1. PICK l \in WrittenLines : /\ l = ls[Len(raw) + 1] /\ line = LineText(l) /\ Scans(l)
                                /\ Len(words) \in Nat /\ Len(l.words) \in Nat
  BY UnderWay
<1>2. Len(words) + 1 <= Len(l.words)
  BY <1>1 DEF Scans
<1>3. PICK k \in 1 .. Len(l.words) : k = Len(words) + 1
  BY <1>1, <1>2
<1>4. PICK j \in 0 .. Len(l.words[k].means) : word = SubSeq(l.words[k].means, 1, j) /\ p = Spot(l, k, j) + 1
  BY <1>1, <1>3 DEF Scans
<1>5. l.words[k].quoted <=> reading = "quoted"
  BY <1>1, <1>3 DEF Scans
<1>6. PICK m \in Text : m = l.words[k].means
  BY WordPlaces, WrittenWord DEF Text
<1>7. Len(word) = j
  <2>1. j \in Nat /\ j <= Len(m)
    BY <1>4, <1>6
  <2>2. Len(SubSeq(m, 1, j)) = j - 1 + 1
    BY <2>1, PieceOf
  <2> QED
    BY <1>4, <1>6, <2>1, <2>2
<1>8. k \in Nat /\ j \in Nat /\ j <= Len(m)
  BY <1>4, <1>6 DEF Text
<1>9. OnWord(ls, l, k, m, j)
  BY <1>1, <1>3, <1>4, <1>5, <1>6, <1>7, <1>8 DEF OnWord
<1> QED
  BY <1>8, <1>9

(* A turn that takes one more character of the word.                       *)
LEMMA CharacterFollows ==
  ASSUME ReadInv, NEW ls \in Writings, Follows(ls), reading \in {"bare", "quoted"},
         NEW l \in WrittenLines, NEW k \in Nat, NEW m \in Text, NEW j \in Nat,
         OnWord(ls, l, k, m, j), j # Len(m),
         word' = Append(word, m[j + 1]), p' = Spot(l, k, j + 1) + 1,
         UNCHANGED <<file, at, line, words, raw, reading>>
  PROVE  Follows(ls)'
<1>0. /\ l = ls[Len(raw) + 1] /\ Scans(l) /\ k = Len(words) + 1 /\ k \in 1 .. Len(l.words)
      /\ l.words[k].quoted <=> reading = "quoted"
      /\ m = l.words[k].means /\ j <= Len(m) /\ word = SubSeq(m, 1, j)
  BY DEF OnWord
<1>1. j < Len(m) /\ j + 1 \in 0 .. Len(m)
  <2>1. PICK z \in Nat : z = Len(m)
    BY DEF Text
  <2>2. j <= z /\ j # z
    BY <1>0, <2>1
  <2>3. j < z /\ j + 1 \in 0 .. z
    BY <2>2
  <2> QED
    BY <2>1, <2>3
<1>2. word' = SubSeq(m, 1, j + 1)
  BY <1>0, <1>1, OneMore
<1>3. \E i \in 0 .. Len(l.words[k].means) : word' = SubSeq(l.words[k].means, 1, i) /\ p' = Spot(l, k, i) + 1
  BY <1>0, <1>1, <1>2
<1>4. Len(words) <= Len(l.words) /\ \A i \in 1 .. Len(words) : words[i] = l.words[i].means
  BY <1>0 DEF Scans
<1>5. Scans(l)'
  BY <1>0, <1>3, <1>4 DEF Scans
<1> QED
  BY <1>0, <1>5, TurnFollows

LEMMA BareFollows == ASSUME ReadInv, NEW ls \in Writings, Follows(ls), Bare PROVE Follows(ls)'
<1>1. /\ reading = "bare" /\ p <= Len(line) /\ line[p] \notin Space /\ p' = p + 1
      /\ word' = IF Room THEN Append(word, line[p]) ELSE word
      /\ UNCHANGED <<file, at, line, words, raw, reading>>
  BY DEF Bare, More, Past
<1>2. PICK l \in WrittenLines, k \in Nat, m \in Text, j \in Nat : OnWord(ls, l, k, m, j)
  BY <1>1, WordUnderWay
<1>3. /\ l = ls[Len(raw) + 1] /\ line = LineText(l)
      /\ k \in 1 .. Len(l.words) /\ m = l.words[k].means
      /\ l.words[k].quoted <=> reading = "quoted"
      /\ j \in 0 .. Len(m) /\ Len(word) = j /\ p = Spot(l, k, j) + 1
  BY <1>2 DEF OnWord, Text
<1>4. ~l.words[k].quoted
  BY <1>1, <1>3
<1>5. PICK a \in Nat, z \in Nat : a = Opens(l, k) /\ z = Len(m)
  <2>1. Opens(l, k) \in Nat
    BY <1>3, WordPlaces
  <2>2. Len(m) \in Nat
    BY DEF Text
  <2> QED
    BY <2>1, <2>2
<1>6. \A i \in 0 .. z : Spot(l, k, i) = a + i
  BY <1>3, <1>4, <1>5, BareWord
<1>7. p = a + j + 1
  BY <1>3, <1>5, <1>6
<1>8. j # z
  <2> SUFFICES ASSUME j = z PROVE FALSE
    OBVIOUS
  <2>1. Preceding(Laid(l), k + 1) = a + z
    BY <1>3, <1>4, <1>5, BareWord
  <2>2. Preceding(Laid(l), k + 1) + 1 = p
    BY <1>7, <2>1
  <2>3. line[p] \in Space
    BY <1>1, <1>3, <1>4, <2>2, BehindBareWord
  <2> QED
    BY <1>1, <2>3
<1>9. line[p] = m[j + 1]
  <2>1. j \in 0 .. z - 1
    BY <1>3, <1>5, <1>8
  <2>2. LineText(l)[a + j + 1] = m[j + 1]
    BY <1>3, <1>4, <1>5, <2>1, BareWord
  <2> QED
    BY <1>3, <1>7, <2>2
<1>10. Room
  <2>1. p <= Len(line) /\ Len(line) < MAX_LINE_LENGTH /\ MAX_LINE_LENGTH \in Nat /\ Len(line) \in Nat
    BY <1>1, WordType
  <2>2. a + j + 1 <= Len(line)
    BY <1>7, <2>1
  <2>3. j < MAX_LINE_LENGTH - 1
    BY <2>1, <2>2
  <2> QED
    BY <1>3, <2>3 DEF Room
<1>11. word' = Append(word, m[j + 1])
  BY <1>1, <1>9, <1>10
<1>12. p' = Spot(l, k, j + 1) + 1
  <2>1. j + 1 \in 0 .. z
    <3>1. j <= z /\ j # z
      BY <1>3, <1>5, <1>8
    <3> QED
      BY <3>1
  <2>2. Spot(l, k, j + 1) = a + (j + 1)
    BY <1>6, <2>1
  <2> QED
    BY <1>1, <1>5, <1>7, <2>2
<1> QED
  BY <1>1, <1>2, <1>5, <1>8, <1>11, <1>12, CharacterFollows

(* Inside quotes, what is at the next position.                            *)
LEMMA InsideQuotes ==
  ASSUME NEW l \in WrittenLines, NEW k \in 1 .. Len(l.words), l.words[k].quoted,
         NEW m \in Text, m = l.words[k].means, NEW j \in 0 .. Len(m), line = LineText(l),
         p \in Nat, p = Spot(l, k, j) + 1
  PROVE  /\ p <= Len(line)
         /\ j = Len(m) => line[p] = Quote /\ p = Preceding(Laid(l), k + 1)
         /\ j # Len(m) => \/ /\ line[p] = m[j + 1] /\ m[j + 1] \notin {Quote, Escape}
                             /\ Spot(l, k, j + 1) = p
                          \/ /\ p < Len(line) /\ line[p] = Escape
                             /\ Unescaped(line[p + 1]) = <<m[j + 1]>> /\ Spot(l, k, j + 1) = p + 1
<1>1. j = Len(m) => line[p] = Quote /\ p = Preceding(Laid(l), k + 1)
  BY QuotedWord
<1>2. ASSUME j # Len(m)
      PROVE  j \in 0 .. Len(m) - 1
  BY <1>2 DEF Text
<1>3. j # Len(m) => \/ /\ p <= Len(line) /\ line[p] = m[j + 1] /\ m[j + 1] \notin {Quote, Escape}
                       /\ Spot(l, k, j + 1) = p
                    \/ /\ p < Len(line) /\ line[p] = Escape
                       /\ Unescaped(line[p + 1]) = <<m[j + 1]>> /\ Spot(l, k, j + 1) = p + 1
  BY <1>2, QuotedWord
<1>4. p <= Len(line)
  <2>1. CASE j = Len(m)
    BY <1>1, <2>1, WordPlaces
  <2>2. CASE j # Len(m)
    <3>1. Len(line) \in Nat
      BY LinePlaces
    <3> QED
      BY <1>3, <2>2, <3>1
  <2> QED
    BY <2>1, <2>2
<1> QED
  BY <1>1, <1>3, <1>4

LEMMA QuotedFollows == ASSUME ReadInv, NEW ls \in Writings, Follows(ls), Quoted PROVE Follows(ls)'
<1>1. /\ reading = "quoted" /\ line[p] # Quote /\ line[p] # Escape /\ p' = p + 1 /\ p \in Nat
      /\ word' = Append(word, line[p])
      /\ UNCHANGED <<file, at, line, words, raw, reading>>
  BY WordType DEF Quoted, More, Past
<1>2. PICK l \in WrittenLines, k \in Nat, m \in Text, j \in Nat : OnWord(ls, l, k, m, j)
  BY <1>1, WordUnderWay
<1>3. /\ l = ls[Len(raw) + 1] /\ line = LineText(l)
      /\ k \in 1 .. Len(l.words) /\ m = l.words[k].means
      /\ l.words[k].quoted <=> reading = "quoted"
      /\ j \in 0 .. Len(m) /\ Len(word) = j /\ p = Spot(l, k, j) + 1
  BY <1>2 DEF OnWord, Text
<1>4. j # Len(m) /\ line[p] = m[j + 1] /\ Spot(l, k, j + 1) = p
  BY <1>1, <1>3, InsideQuotes
<1> QED
  BY <1>1, <1>2, <1>4, CharacterFollows

LEMMA EscapedFollows == ASSUME ReadInv, NEW ls \in Writings, Follows(ls), Escaped PROVE Follows(ls)'
<1>1. /\ reading = "quoted" /\ line[p] = Escape /\ p \in Nat
      /\ word' = word \o IF p < Len(line) THEN Unescaped(line[p + 1]) ELSE <<Escape>>
      /\ p' = IF p < Len(line) THEN p + 2 ELSE p + 1
      /\ UNCHANGED <<file, at, line, words, raw, reading>>
  BY WordType DEF Escaped, More, Behind
<1>2. PICK l \in WrittenLines, k \in Nat, m \in Text, j \in Nat : OnWord(ls, l, k, m, j)
  BY <1>1, WordUnderWay
<1>3. /\ l = ls[Len(raw) + 1] /\ line = LineText(l)
      /\ k \in 1 .. Len(l.words) /\ m = l.words[k].means
      /\ l.words[k].quoted <=> reading = "quoted"
      /\ j \in 0 .. Len(m) /\ Len(word) = j /\ p = Spot(l, k, j) + 1
  BY <1>2 DEF OnWord, Text
<1>4. Escape # Quote
  BY DEF Escape, Quote
<1>5. j # Len(m) /\ p < Len(line) /\ Unescaped(line[p + 1]) = <<m[j + 1]>> /\ Spot(l, k, j + 1) = p + 1
  BY <1>1, <1>3, <1>4, InsideQuotes
<1>6. word' = Append(word, m[j + 1])
  <2>1. word' = word \o <<m[j + 1]>>
    BY <1>1, <1>5
  <2>2. j + 1 \in 1 .. Len(m) /\ word \in Seq(Char)
    <3>1. j <= Len(m) /\ j # Len(m) /\ word \in Seq(Char)
      BY <1>2, <1>5, WordType DEF OnWord
    <3>2. Len(m) \in Nat
      BY DEF Text
    <3> QED
      BY <3>1, <3>2
  <2>3. m[j + 1] \in Char
    BY <2>2 DEF Text
  <2> QED
    BY <2>1, <2>2, <2>3, AppendIsConcat
<1>7. p' = Spot(l, k, j + 1) + 1
  <2>1. p + 2 = (p + 1) + 1
    BY <1>1
  <2> QED
    BY <1>1, <1>5, <2>1
<1> QED
  BY <1>1, <1>2, <1>5, <1>6, <1>7, CharacterFollows

LEMMA EndWordFollows == ASSUME ReadInv, NEW ls \in Writings, Follows(ls), EndWord PROVE Follows(ls)'
<1>1. /\ \/ reading = "bare" /\ (p <= Len(line) => line[p] \in Space)
         \/ reading = "quoted" /\ (p <= Len(line) /\ Room => line[p] = Quote)
      /\ words' = Append(words, UpToNul(word))
      /\ p' = IF reading = "quoted" /\ p <= Len(line) /\ line[p] = Quote THEN p + 1 ELSE p
      /\ reading' = "word" /\ UNCHANGED <<file, at, line, raw>> /\ p \in Nat
  BY WordType DEF EndWord, More
<1>2. PICK l \in WrittenLines, k \in Nat, m \in Text, j \in Nat : OnWord(ls, l, k, m, j)
  BY <1>1, WordUnderWay
<1>3. /\ l = ls[Len(raw) + 1] /\ line = LineText(l) /\ Scans(l)
      /\ k \in 1 .. Len(l.words) /\ k = Len(words) + 1 /\ m = l.words[k].means
      /\ l.words[k].quoted <=> reading = "quoted"
      /\ j \in 0 .. Len(m) /\ word = SubSeq(m, 1, j) /\ Len(word) = j /\ p = Spot(l, k, j) + 1
  BY <1>2 DEF OnWord, Text
<1>4. j = Len(m) /\ p' = Preceding(Laid(l), k + 1) + 1
  <2>1. CASE reading = "bare"
    <3>1. ~l.words[k].quoted
      BY <1>3, <2>1
    <3>2. PICK a \in Nat, z \in Nat : a = Opens(l, k) /\ z = Len(m)
      <4>1. Opens(l, k) \in Nat
        BY <1>3, WordPlaces
      <4>2. Len(m) \in Nat
        BY DEF Text
      <4> QED
        BY <4>1, <4>2
    <3>3. p = a + j + 1
      BY <1>3, <3>1, <3>2, BareWord
    <3>4. j = z
      <4> SUFFICES ASSUME j # z PROVE FALSE
        OBVIOUS
      <4>1. j \in 0 .. z - 1
        <5>1. j \in 0 .. z
          BY <1>3, <3>2
        <5> QED
          BY <5>1
      <4>2. /\ a + j + 1 <= Len(line) /\ line[a + j + 1] = m[j + 1] /\ m[j + 1] \notin Space
        BY <1>3, <3>1, <3>2, <4>1, BareWord
      <4> QED
        BY <1>1, <2>1, <3>3, <4>2
    <3>5. Preceding(Laid(l), k + 1) = a + z
      BY <1>3, <3>1, <3>2, BareWord
    <3> QED
      BY <1>1, <2>1, <3>2, <3>3, <3>4, <3>5
  <2>2. CASE reading = "quoted"
    <3>1. l.words[k].quoted /\ Quote # Escape
      BY <1>3, <2>2 DEF Quote, Escape
    <3>2. p <= Len(line)
      BY <1>1, <1>3, <3>1, InsideQuotes
    <3>3. Room
      <4>1. Len(word) <= p - 2
        BY <2>2 DEF ReadInv
      <4> QED
        BY <3>2, <4>1, WordType DEF Room
    <3>4. line[p] = Quote
      BY <1>1, <2>2, <3>2, <3>3
    <3>5. j = Len(m) /\ p = Preceding(Laid(l), k + 1)
      BY <1>1, <1>3, <3>1, <3>4, InsideQuotes
    <3> QED
      BY <1>1, <2>2, <3>2, <3>4, <3>5
  <2> QED
    BY <1>1, <2>1, <2>2
<1>5. UpToNul(word) = m
  <2>1. m \in Seq(Char) /\ ~Contains(m, Nul)
    BY <1>3, WordPlaces, WrittenWord
  <2>2. word = m
    BY <1>3, <1>4, <2>1, SubSeqFull
  <2> QED
    BY <2>1, <2>2, UpToNulPlain DEF Text
<1>6. words \in Seq(Text)
  BY DEF ReadInv, ReadType
<1>7. /\ Len(words') = Len(words) + 1 /\ words'[k] = m
      /\ \A i \in 1 .. Len(words) : words'[i] = words[i]
  <2>1. words' = Append(words, m)
    BY <1>1, <1>5
  <2>2. /\ Len(words') = Len(words) + 1
        /\ \A i \in 1 .. Len(words) + 1 : words'[i] = IF i = Len(words) + 1 THEN m ELSE words[i]
    BY <1>6, <2>1, AppendType
  <2>3. Len(words) \in Nat
    BY <1>6
  <2> QED
    BY <1>3, <2>2, <2>3
<1>8. \A i \in 1 .. Len(words) + 1 : words'[i] = l.words[i].means
  <2>1. \A i \in 1 .. Len(words) : words[i] = l.words[i].means
    BY <1>3 DEF Scans
  <2>2. Len(words) \in Nat
    BY <1>6
  <2>3. \A i \in 1 .. Len(words) + 1 : i \in 1 .. Len(words) \/ i = k
    BY <1>3, <2>2
  <2> QED
    BY <1>3, <1>7, <2>1, <2>3
<1>9. Preceding(Laid(l), k + 1) < p' /\ (k + 1 <= Len(l.words) => p' <= Opens(l, k + 1) + 1)
  <2>1. Preceding(Laid(l), k + 1) \in Nat
    BY <1>3, WordPlaces
  <2>2. ASSUME k + 1 <= Len(l.words)
        PROVE  p' <= Opens(l, k + 1) + 1
    <3>1. k + 1 \in 1 .. Len(l.words)
      BY <1>3, <2>2, WrittenLine
    <3>2. Opens(l, k + 1) = Preceding(Laid(l), k + 1) + Len(l.words[k + 1].gap) /\ l.words[k + 1] \in WrittenWords
      BY <3>1, WordPlaces
    <3>3. Len(l.words[k + 1].gap) \in Nat
      BY <3>2, WrittenWord
    <3>4. Preceding(Laid(l), k + 1) <= Opens(l, k + 1) /\ Opens(l, k + 1) \in Nat
      <4>1. PICK x \in Nat, y \in Nat : x = Preceding(Laid(l), k + 1) /\ y = Len(l.words[k + 1].gap)
        BY <2>1, <3>3
      <4>2. Opens(l, k + 1) = x + y
        BY <3>2, <4>1
      <4>3. x <= x + y /\ x + y \in Nat
        OBVIOUS
      <4> QED
        BY <4>1, <4>2, <4>3
    <3>5. Preceding(Laid(l), k + 1) + 1 <= Opens(l, k + 1) + 1
      BY <2>1, <3>4
    <3> QED
      BY <1>4, <3>5
  <2> QED
    BY <1>4, <2>1, <2>2
<1>10. Scans(l)'
  <2>1. Len(words') = k /\ k <= Len(l.words) /\ reading' = "word" /\ \A i \in 1 .. k : words'[i] = l.words[i].means
    BY <1>1, <1>3, <1>7, <1>8
  <2> QED
    BY <1>9, <2>1 DEF Scans
<1> QED
  BY <1>1, <1>3, <1>10, TurnFollows

(* The words and lines that are kept of those meant.                       *)
LEMMA FirstOf ==
  ASSUME NEW T, NEW s \in Seq(T), NEW n \in Nat
  PROVE  /\ First(s, n) \in Seq(T)
         /\ Len(First(s, n)) = IF Len(s) < n THEN Len(s) ELSE n
         /\ \A i \in 1 .. Len(First(s, n)) : First(s, n)[i] = s[i]
<1>1. PICK z \in Nat : z = Len(s)
  OBVIOUS
<1>2. PICK k \in Nat : k = (IF z < n THEN z ELSE n) /\ k <= z
  OBVIOUS
<1>3. \A i \in 1 .. k : s[i] \in T
  BY <1>1, <1>2
<1>4. /\ SubSeq(s, 1, k) \in Seq(T) /\ Len(SubSeq(s, 1, k)) = IF 1 <= k THEN k - 1 + 1 ELSE 0
      /\ \A i \in 1 .. k - 1 + 1 : SubSeq(s, 1, k)[i] = s[1 + i - 1]
  BY <1>3, SubSeqProperties
<1>5. k - 1 + 1 = k /\ (~(1 <= k) => k = 0) /\ \A i \in 1 .. k : 1 + i - 1 = i
  OBVIOUS
<1>6. First(s, n) = SubSeq(s, 1, k)
  BY <1>1, <1>2 DEF First
<1> QED
  BY <1>1, <1>2, <1>4, <1>5, <1>6

LEMMA MeantLine ==
  ASSUME NEW ls \in Writings, NEW n \in 1 .. Len(ls)
  PROVE  /\ MeantBy(ls)[n] \in Seq(Text) /\ Len(MeantBy(ls)[n]) = Len(ls[n].words)
         /\ \A k \in 1 .. Len(ls[n].words) : MeantBy(ls)[n][k] = ls[n].words[k].means
<1>1. ls[n] \in WrittenLines /\ DOMAIN ls = 1 .. Len(ls)
  BY TextPlaces
<1>2. ls[n].words \in Seq(WrittenWords) /\ DOMAIN ls[n].words = 1 .. Len(ls[n].words) /\ Len(ls[n].words) \in Nat
  BY <1>1, WrittenLine
<1>3. MeantBy(ls)[n] = [k \in 1 .. Len(ls[n].words) |-> ls[n].words[k].means]
  BY <1>1, <1>2 DEF MeantBy
<1>4. \A k \in 1 .. Len(ls[n].words) : ls[n].words[k].means \in Text
  BY <1>2, WrittenWord DEF Text
<1> QED
  BY <1>2, <1>3, <1>4

LEMMA MeantLines ==
  ASSUME NEW ls \in Writings
  PROVE  MeantBy(ls) \in Seq(Seq(Text)) /\ Len(MeantBy(ls)) = Len(ls) /\ Len(ls) \in Nat
<1>1. DOMAIN ls = 1 .. Len(ls) /\ Len(ls) \in Nat
  BY TextPlaces
<1>2. MeantBy(ls) = [n \in 1 .. Len(ls) |-> MeantBy(ls)[n]]
  BY <1>1 DEF MeantBy
<1> QED
  BY <1>1, <1>2, MeantLine

LEMMA EndLineFollows == ASSUME ReadInv, NEW ls \in Writings, Follows(ls), EndLine PROVE Follows(ls)'
<1>1. /\ reading = "word" /\ (~(p <= Len(line)) \/ Len(words) = MAX_WORDS)
      /\ raw' = Append(raw, words) /\ reading' = "line" /\ at' = at
  BY DEF EndLine, More
<1>2. PICK l \in WrittenLines : /\ l = ls[Len(raw) + 1] /\ line = LineText(l) /\ Scans(l)
                                /\ Len(words) \in Nat /\ Len(l.words) \in Nat
                                /\ Len(line) \in Nat /\ p \in Nat \ {0} /\ p <= Len(line) + 1
  BY <1>1, UnderWay
<1>3. words \in Seq(Text) /\ raw \in Seq(Seq(Text)) /\ Len(words) <= MAX_WORDS /\ MAX_WORDS \in Nat /\ Len(raw) \in Nat
  BY ReadFileAssumption DEF ReadInv, ReadType, StaysInBuffers, ReadFileAssumption
<1>4. PICK n \in 1 .. Len(ls) : n = Len(raw) + 1
  <2>1. Len(raw) + 1 <= Len(ls) /\ Len(ls) \in Nat
    BY <1>1, TextPlaces DEF Follows
  <2> QED
    BY <1>3, <2>1
<1>5. Len(words) <= Len(l.words) /\ \A i \in 1 .. Len(words) : words[i] = l.words[i].means
  BY <1>2 DEF Scans
<1>6. Len(words) = IF Len(l.words) < MAX_WORDS THEN Len(l.words) ELSE MAX_WORDS
  <2>1. CASE Len(words) = MAX_WORDS
    <3>1. MAX_WORDS <= Len(l.words)
      BY <1>5, <2>1
    <3>2. ~(Len(l.words) < MAX_WORDS)
      <4>1. \A x, y \in Nat : x <= y => ~(y < x)
        OBVIOUS
      <4> QED
        BY <1>2, <1>3, <3>1, <4>1
    <3> QED
      BY <2>1, <3>2
  <2>2. CASE Len(words) # MAX_WORDS
    <3>1. Len(words) = Len(l.words)
      <4> SUFFICES ASSUME Len(words) # Len(l.words) PROVE FALSE
        OBVIOUS
      <4>1. PICK k \in 1 .. Len(l.words) : k = Len(words) + 1
        BY <1>2, <1>5
      <4>2. p <= Opens(l, k) + 1
        BY <1>1, <1>2, <4>1 DEF Scans
      <4>3. Opens(l, k) + 1 \in Nat /\ Opens(l, k) + 1 <= Len(line)
        BY <1>2, WordBegins
      <4> QED
        BY <1>1, <1>2, <2>2, <4>2, <4>3
    <3>2. Len(words) < MAX_WORDS
      BY <1>2, <1>3, <2>2
    <3> QED
      BY <3>1, <3>2
  <2> QED
    BY <2>1, <2>2
<1>7. words = First(MeantBy(ls)[n], MAX_WORDS)
  <2> DEFINE m == MeantBy(ls)[n]
  <2>1. m \in Seq(Text) /\ Len(m) = Len(l.words) /\ \A i \in 1 .. Len(l.words) : m[i] = l.words[i].means
    BY <1>2, <1>4, MeantLine
  <2> HIDE DEF m
  <2>2. First(m, MAX_WORDS) \in Seq(Text) /\ Len(First(m, MAX_WORDS)) = Len(words)
        /\ \A i \in 1 .. Len(First(m, MAX_WORDS)) : First(m, MAX_WORDS)[i] = m[i]
    BY <1>3, <1>6, <2>1, FirstOf
  <2>3. \A i \in 1 .. Len(words) : i \in 1 .. Len(l.words)
    BY <1>2, <1>5
  <2>4. \A i \in 1 .. Len(words) : words[i] = First(m, MAX_WORDS)[i]
    BY <1>5, <2>1, <2>2, <2>3
  <2>5. words = First(m, MAX_WORDS)
    BY <1>3, <2>2, <2>4, SeqEqual
  <2> QED
    BY <2>5 DEF m
<1>8. /\ Len(raw') = n /\ raw'[n] = words
      /\ \A i \in 1 .. Len(raw) : raw'[i] = raw[i]
  <2>1. /\ Len(raw') = Len(raw) + 1
        /\ \A i \in 1 .. Len(raw) + 1 : raw'[i] = IF i = Len(raw) + 1 THEN words ELSE raw[i]
    BY <1>1, <1>3, AppendType
  <2> QED
    BY <1>3, <1>4, <2>1
<1>9. \A i \in 1 .. n : raw'[i] = First(MeantBy(ls)[i], MAX_WORDS)
  <2>1. \A i \in 1 .. Len(raw) : raw[i] = First(MeantBy(ls)[i], MAX_WORDS)
    BY DEF Follows
  <2>2. \A i \in 1 .. n : i \in 1 .. Len(raw) \/ i = n
    BY <1>3, <1>4
  <2> QED
    BY <1>7, <1>8, <2>1, <2>2
<1>10. at' = Start(ls, n + 1) + 1
  <2>1. at = Start(ls, Len(raw) + 2) + 1
    BY <1>1 DEF Follows
  <2>2. Len(raw) + 2 = n + 1
    BY <1>3, <1>4
  <2> QED
    BY <1>1, <2>1, <2>2
<1> QED
  BY <1>1, <1>8, <1>9, <1>10 DEF Follows

LEMMA FgetsFollows ==
  ASSUME ReadInv, NEW ls \in Writings, text = TextOf(ls), Fits, Follows(ls), Fgets
  PROVE  Follows(ls)'
<1>1. /\ reading = "line" /\ at <= Len(text) /\ at \in Nat
      /\ line' = UpToNul(SubSeq(text, at, at + Taken - 1)) /\ at' = at + Taken /\ p' = 1 /\ words' = <<>>
      /\ reading' = "word" /\ raw' = raw /\ Len(raw) \in Nat
  BY DEF Fgets, ReadInv, ReadType
<1>2. PICK n \in Nat : n = Len(raw) + 1 /\ Len(raw) + 2 = n + 1 /\ at = Start(ls, n) + 1
  BY <1>1 DEF Follows
<1>3. n \in 1 .. Len(ls)
  <2>1. Len(raw) <= Len(ls) /\ Len(ls) \in Nat
    BY TextPlaces DEF Follows
  <2>2. n # Len(ls) + 1
    <3> SUFFICES ASSUME n = Len(ls) + 1 PROVE FALSE
      OBVIOUS
    <3>1. Start(ls, n) = Len(text) /\ Len(text) \in Nat
      BY TextPlaces
    <3> QED
      BY <1>1, <1>2, <3>1
  <2> QED
    BY <1>1, <1>2, <2>1, <2>2
<1>4. PICK l \in WrittenLines, z \in Nat, a \in Nat : l = ls[n] /\ z = Len(LineText(l)) /\ a = Start(ls, n)
  BY <1>3, LineInText
<1>5. Start(ls, n + 1) = a + z
  BY <1>3, <1>4, LineInText
<1>6. Taken = z /\ SubSeq(text, at, at + Taken - 1) = LineText(l)
  BY <1>2, <1>3, <1>4, LineFits, TakenLine
<1>7. line' = LineText(l)
  <2>1. LineText(l) \in Seq(Char \ {Nul})
    BY LinePlaces
  <2>2. LineText(l) \in Text /\ ~Contains(LineText(l), Nul)
    BY <2>1 DEF Text, Contains
  <2> QED
    BY <1>1, <1>6, <2>2, UpToNulPlain
<1>8. at' = Start(ls, n + 1) + 1
  <2>1. at' = a + 1 + z
    BY <1>1, <1>2, <1>4, <1>6
  <2>2. a + 1 + z = a + z + 1
    OBVIOUS
  <2> QED
    BY <1>5, <2>1, <2>2
<1>9. Scans(l)'
  <2>1. Preceding(Laid(l), 0 + 1) < 1
    BY LinePlaces
  <2>2. ASSUME 0 + 1 <= Len(l.words)
        PROVE  1 <= Opens(l, 0 + 1) + 1
    <3>1. 0 + 1 \in 1 .. Len(l.words)
      BY <2>2, WrittenLine
    <3>2. Opens(l, 0 + 1) \in Nat
      BY <3>1, WordPlaces
    <3> QED
      BY <3>2
  <2>3. Len(words') = 0 /\ p' = 1 /\ reading' = "word" /\ 0 <= Len(l.words)
    BY <1>1, WrittenLine
  <2> QED
    BY <2>1, <2>2, <2>3 DEF Scans
<1>10. Scans(ls[Len(raw) + 1])'
  <2>1. ls[Len(raw') + 1] = l
    BY <1>1, <1>2, <1>4
  <2> QED
    BY <1>9, <2>1 DEF Scans
<1> QED
  BY <1>1, <1>2, <1>3, <1>4, <1>7, <1>8, <1>10 DEF Follows

LEMMA EndOfFileFollows ==
  ASSUME ReadInv, NEW ls \in Writings, text = TextOf(ls), Follows(ls), EndOfFile
  PROVE  Follows(ls)'
<1>1. /\ reading = "line" /\ (at > Len(text) \/ Len(raw) = MAX_LINES)
      /\ reading' = "read" /\ raw' = raw /\ Len(raw) \in Nat
  BY DEF EndOfFile, ReadInv, ReadType
<1>2. Len(raw) <= Len(ls) /\ Len(ls) \in Nat /\ at = Start(ls, Len(raw) + 1) + 1
  BY <1>1, TextPlaces DEF Follows
<1>3. at > Len(text) => Len(raw) = Len(ls)
  <2> SUFFICES ASSUME at > Len(text), Len(raw) # Len(ls) PROVE FALSE
    OBVIOUS
  <2>1. PICK n \in 1 .. Len(ls) : n = Len(raw) + 1
    BY <1>1, <1>2
  <2>2. PICK a \in Nat, z \in Nat \ {0} : at = a + 1 /\ a + z <= Len(text)
    <3>1. PICK a \in Nat, z \in Nat \ {0} : a = Start(ls, n) /\ z = Len(LineText(ls[n]))
      BY LineInText
    <3>2. a + z <= Len(text)
      BY <3>1, LineInText
    <3> QED
      BY <1>2, <2>1, <3>1, <3>2
  <2>3. Len(text) \in Nat
    BY TextPlaces
  <2> QED
    BY <2>2, <2>3
<1> QED
  BY <1>1, <1>2, <1>3 DEF Follows

(* The text of the file does not change, so neither does who wrote it.     *)
AuthorInv == \A ls \in Writings : text = TextOf(ls) /\ Fits => Follows(ls)

LEMMA InitFollows == Init => AuthorInv
<1> SUFFICES ASSUME Init, NEW ls \in Writings
             PROVE  Follows(ls)
  BY DEF AuthorInv
<1>1. Len(ls) \in Nat /\ Start(ls, 1) = 0
  BY TextPlaces
<1>2. raw = <<>> /\ reading = "line" /\ at = 1
  BY DEF Init
<1>3. Len(raw) = 0 /\ 0 + 1 = 1
  BY <1>2
<1> QED
  BY <1>1, <1>2, <1>3 DEF Follows

LEMMA NextFollows == ReadInv /\ AuthorInv /\ [Next]_varsR => AuthorInv'
<1> SUFFICES ASSUME ReadInv, AuthorInv, [Next]_varsR, NEW ls \in Writings, text' = TextOf(ls), Fits'
             PROVE  Follows(ls)'
  BY DEF AuthorInv
<1>1. text' = text
  BY DEF Next, Fgets, EndOfFile, EndLine, SkipSpace, StartWord, Bare, Quoted, Escaped, EndWord, varsR, text
<1>2. text = TextOf(ls) /\ Fits
  BY <1>1 DEF Fits, Breaks
<1>3. Follows(ls)
  BY <1>2 DEF AuthorInv
<1>4. CASE UNCHANGED varsR
  BY <1>3, <1>4 DEF varsR, Follows, Scans
<1> QED
  BY <1>2, <1>3, <1>4, FgetsFollows, EndOfFileFollows, EndLineFollows, SkipSpaceFollows, StartWordFollows,
     BareFollows, QuotedFollows, EscapedFollows, EndWordFollows DEF Next

(* What has been read when the file ends is what its author means.         *)
LEMMA ReadThrough ==
  ASSUME ReadInv, AuthorInv, Authored, Fits, reading = "read"
  PROVE  raw = [n \in DOMAIN First(file.meant, MAX_LINES) |-> First(file.meant[n], MAX_WORDS)]
<1>1. PICK ls \in Writings : text = TextOf(ls) /\ file.meant = MeantBy(ls)
  BY DEF Authored
<1>2. Follows(ls)
  BY <1>1 DEF AuthorInv
<1>3. /\ Len(raw) <= Len(ls) /\ Len(raw) \in {Len(ls), MAX_LINES}
      /\ \A n \in 1 .. Len(raw) : raw[n] = First(MeantBy(ls)[n], MAX_WORDS)
  BY <1>2 DEF Follows
<1>4. raw \in Seq(Seq(Text)) /\ Len(raw) \in Nat /\ Len(raw) <= MAX_LINES /\ MAX_LINES \in Nat
  BY ReadFileAssumption DEF ReadInv, ReadType, StaysInBuffers, ReadFileAssumption
<1>5. MeantBy(ls) \in Seq(Seq(Text)) /\ Len(MeantBy(ls)) = Len(ls) /\ Len(ls) \in Nat
  BY MeantLines
<1>6. Len(First(file.meant, MAX_LINES)) = Len(raw) /\ First(file.meant, MAX_LINES) \in Seq(Seq(Text))
  <2>1. /\ First(file.meant, MAX_LINES) \in Seq(Seq(Text))
        /\ Len(First(file.meant, MAX_LINES)) = IF Len(ls) < MAX_LINES THEN Len(ls) ELSE MAX_LINES
    BY <1>1, <1>4, <1>5, FirstOf
  <2>2. Len(raw) = IF Len(ls) < MAX_LINES THEN Len(ls) ELSE MAX_LINES
    BY <1>3, <1>4, <1>5
  <2> QED
    BY <2>1, <2>2
<1>7. DOMAIN First(file.meant, MAX_LINES) = 1 .. Len(raw)
  BY <1>6
<1>8. raw = [n \in 1 .. Len(raw) |-> raw[n]]
  BY <1>4
<1> QED
  BY <1>1, <1>3, <1>7, <1>8

(* However long the lines, words and gaps of a file are, in quotes or not, *)
(* and whatever sizes the buffers have: a file that somebody has written   *)
(* to mean these words, in lines that fit, is read as it is meant.         *)
THEOREM WrittenIsRead == Spec => [](Authored => ReadsWhatIsMeant)
<1>1. Init => ReadInv /\ AuthorInv
  BY InitRead, InitFollows
<1>2. ReadInv /\ AuthorInv /\ [Next]_varsR => (ReadInv /\ AuthorInv)'
  BY NextRead, NextFollows
<1>3. ReadInv /\ AuthorInv => (Authored => ReadsWhatIsMeant)
  BY ReadThrough DEF ReadsWhatIsMeant
<1> QED
  BY <1>1, <1>2, <1>3, PTL DEF Spec
=============================================================================
