------------------------------ MODULE ReadFile ------------------------------
(***************************************************************************)
(* read_file of Sean816Asm/code.c: splits a source file into lines of      *)
(* words. A character is a string of length one, or Nul; a word is the     *)
(* sequence of its characters. One action is one turn of an inner loop.    *)
(***************************************************************************)
EXTENDS Integers, SequencesExt

CONSTANTS
  Files,          \* texts of the files given, and the lines their authors mean
  MAX_LINES,      \* 1000 in code.h
  MAX_WORDS,      \* of a line; 6 in code.h
  MAX_LINE_LENGTH \* sizes of the buffers for a line and a word; 126 in code.h

ASSUME ReadFileAssumption ==
  /\ \A f \in Files : f.text \in Seq(STRING)
  /\ MAX_LINES \in Nat \ {0} /\ MAX_WORDS \in Nat \ {0}
  /\ MAX_LINE_LENGTH \in Nat \ {0, 1}

VARIABLES
  file,    \* [text, meant]: what is in the file; meant serves the properties
  at,      \* position fgets has come to
  line, p, \* line[] up to its terminator, and the position in it
  word,    \* the word under way
  words,   \* the words of the line so far
  raw,     \* raw[]: the lines so far
  reading  \* line, word, bare, quoted or read

varsR == <<file, at, line, p, word, words, raw, reading>>

Nul     == "NUL"
Newline == "\n"
Quote   == "\""
Escape  == "\\"
Space   == {" ", "\t", "\r", Newline}

text == file.text

(* A string of the C library ends at its first Nul.                        *)
UpToNul(s) == LET k == SelectInSeq(s, LAMBDA c : c = Nul)
              IN  IF k = 0 THEN s ELSE SubSeq(s, 1, k - 1)

-----------------------------------------------------------------------------
(* Characters fgets takes: through the next newline, as many as fit.       *)
Taken ==
  LET rest == SubSeq(text, at, Len(text))
      k    == SelectInSeq(rest, LAMBDA c : c = Newline)
      n    == IF k = 0 THEN Len(rest) ELSE k
  IN  IF n < MAX_LINE_LENGTH THEN n ELSE MAX_LINE_LENGTH - 1

Fgets ==
  /\ reading = "line"
  /\ at <= Len(text) /\ Len(raw) < MAX_LINES
  /\ line' = UpToNul(SubSeq(text, at, at + Taken - 1))
  /\ at' = at + Taken
  /\ p' = 1 /\ words' = <<>>
  /\ reading' = "word"
  /\ UNCHANGED <<file, word, raw>>

(* A file that cannot be opened leaves no lines either: the error is       *)
(* printed and main goes on.                                               *)
EndOfFile ==
  /\ reading = "line"
  /\ at > Len(text) \/ Len(raw) = MAX_LINES
  /\ reading' = "read"
  /\ UNCHANGED <<file, at, line, p, word, words, raw>>

More == p <= Len(line)

(* Faulty variant of Past: the character is not stepped over.              *)
PastNothing(q) == q

Past(q) == q + 1

(* The line is done; words behind the last one kept are dropped.           *)
EndLine ==
  /\ reading = "word"
  /\ ~More \/ Len(words) = MAX_WORDS
  /\ raw' = Append(raw, words)
  /\ reading' = "line"
  /\ UNCHANGED <<file, at, line, p, word, words>>

AtWord == reading = "word" /\ More /\ Len(words) < MAX_WORDS

SkipSpace ==
  /\ AtWord /\ line[p] \in Space
  /\ p' = Past(p)
  /\ UNCHANGED <<file, at, line, word, words, raw, reading>>

StartWord ==
  /\ AtWord /\ line[p] \notin Space
  /\ word' = <<>>
  /\ IF line[p] = Quote
     THEN reading' = "quoted" /\ p' = Past(p)
     ELSE reading' = "bare" /\ UNCHANGED p
  /\ UNCHANGED <<file, at, line, words, raw>>

-----------------------------------------------------------------------------
(* Faulty variant of Room: room for the terminator is kept twice.          *)
RoomForTwo == Len(word) < MAX_LINE_LENGTH - 2

Room == Len(word) < MAX_LINE_LENGTH - 1

(* A quote inside a bare word is a character like any other.               *)
Bare ==
  /\ reading = "bare"
  /\ More /\ line[p] \notin Space
  /\ word' = IF Room THEN Append(word, line[p]) ELSE word
  /\ p' = Past(p)
  /\ UNCHANGED <<file, at, line, words, raw, reading>>

Quoted ==
  /\ reading = "quoted" /\ Room
  /\ More /\ line[p] \notin {Quote, Escape}
  /\ word' = Append(word, line[p])
  /\ p' = Past(p)
  /\ UNCHANGED <<file, at, line, words, raw, reading>>

(* Faulty variant of Unescaped: no escape for the quote.                   *)
UnescapedButQuote(c) ==
  CASE c = "n" -> <<Newline>> [] c = "t" -> <<"\t">> [] c = "r" -> <<"\r">>
    [] c = "0" -> <<Nul>>     [] c = Escape -> <<c>> [] OTHER -> <<Escape, c>>

(* What a character behind a backslash stands for.                         *)
Unescaped(c) ==
  CASE c = "n" -> <<Newline>> [] c = "t" -> <<"\t">> [] c = "r" -> <<"\r">>
    [] c = "0" -> <<Nul>>     [] c \in {Escape, Quote} -> <<c>>
    [] OTHER -> <<Escape, c>>

(* Faulty variant of Behind: past the terminator of the line.              *)
BehindTerminator(q) == q + 2

(* The position behind an escape at q; a backslash may end the line.       *)
Behind(q) == IF q < Len(line) THEN q + 2 ELSE q + 1

Escaped ==
  /\ reading = "quoted" /\ Room
  /\ More /\ line[p] = Escape
  /\ word' = word \o IF p < Len(line) THEN Unescaped(line[p + 1]) ELSE <<Escape>>
  /\ p' = Behind(p)
  /\ UNCHANGED <<file, at, line, words, raw, reading>>

(* A quoted word ends at its closing quote, whatever follows, or at the    *)
(* end of the line.                                                        *)
EndWord ==
  /\ \/ reading = "bare" /\ (More => line[p] \in Space)
     \/ reading = "quoted" /\ (More /\ Room => line[p] = Quote)
  /\ words' = Append(words, UpToNul(word))
  /\ p' = IF reading = "quoted" /\ More /\ line[p] = Quote THEN p + 1 ELSE p
  /\ reading' = "word"
  /\ UNCHANGED <<file, at, line, word, raw>>

-----------------------------------------------------------------------------
Init ==
  /\ file \in Files
  /\ at = 1
  /\ line = <<>> /\ p = 1
  /\ word = <<>> /\ words = <<>>
  /\ raw = <<>>
  /\ reading = "line"

Next == Fgets \/ EndOfFile \/ EndLine \/ SkipSpace \/ StartWord
          \/ Bare \/ Quoted \/ Escaped \/ EndWord

(* One thread, and nothing it waits for.                                   *)
Spec == Init /\ [][Next]_varsR /\ WF_varsR(Next)

-----------------------------------------------------------------------------
(* What an author writes for a word in quotes.                             *)
Spelled(c) == CASE c = Newline -> <<Escape, "n">> [] c = "\t" -> <<Escape, "t">>
                [] c = "\r" -> <<Escape, "r">>    [] c \in {Quote, Escape} -> <<Escape, c>>
                [] OTHER -> <<c>>

InQuotes(w) == <<Quote>> \o FlattenSeq([k \in DOMAIN w |-> Spelled(w[k])]) \o <<Quote>>

(* A word, the gap in front of it, and whether it is in quotes, as it must *)
(* be if it is empty, holds space or begins with a quote.                  *)
WrittenWords ==
  {w \in [gap : Seq(Space \ {Newline}), quoted : BOOLEAN, means : Seq(STRING)] :
     /\ ~Contains(w.means, Nul)
     /\ ~w.quoted => /\ w.means # <<>> /\ w.means[1] # Quote
                     /\ \A j \in DOMAIN w.means : w.means[j] \notin Space}

(* A line of words and the space behind them: a gap is only missing at the *)
(* beginning or behind quotes.                                             *)
WrittenLines ==
  {l \in [words : Seq(WrittenWords), end : Seq(Space)] :
     /\ \A k \in 2 .. Len(l.words) : l.words[k - 1].quoted \/ l.words[k].gap # <<>>
     /\ \A k \in 1 .. Len(l.end) - 1 : l.end[k] # Newline
     /\ l.words # <<>> \/ l.end # <<>>}

(* The last line may lack its newline, the ones in front of it may not.    *)
Writings == {ls \in Seq(WrittenLines) :
               \A n \in 1 .. Len(ls) - 1 : ls[n].end # <<>> /\ Last(ls[n].end) = Newline}

LineText(l) ==
  FlattenSeq([k \in DOMAIN l.words |->
                l.words[k].gap \o IF l.words[k].quoted THEN InQuotes(l.words[k].means)
                                                       ELSE l.words[k].means]) \o l.end

TextOf(ls)  == FlattenSeq([n \in DOMAIN ls |-> LineText(ls[n])])
MeantBy(ls) == [n \in DOMAIN ls |-> [k \in DOMAIN ls[n].words |-> ls[n].words[k].means]]

(* The file has been written so as to mean these words.                    *)
Authored == \E ls \in Writings : text = TextOf(ls) /\ file.meant = MeantBy(ls)

(* A word never holds a Nul, so this is what nobody means.                 *)
Unclear == <<<<<<Nul>>>>>>

(* Every line of the text fits the buffer of fgets.                        *)
Breaks  == {0} \cup {k \in DOMAIN text : text[k] = Newline} \cup {Len(text)}
Fits    == \A j, k \in Breaks :
             j < k /\ (\A b \in Breaks : b <= j \/ b >= k) => k - j < MAX_LINE_LENGTH

First(s, n) == SubSeq(s, 1, IF Len(s) < n THEN Len(s) ELSE n)

(* A file whose lines fit is read as it is meant: words, quoted or not,    *)
(* with every escape undone, up to the words and lines there is room for.  *)
ReadsWhatIsMeant ==
  reading = "read" /\ file.meant # Unclear /\ Fits =>
    raw = [n \in DOMAIN First(file.meant, MAX_LINES) |-> First(file.meant[n], MAX_WORDS)]

(* In a file without quotes, which no limit on words and lines has cut     *)
(* short, every character other than space is kept, in order, although     *)
(* fgets may break a line, and a word, anywhere.                           *)
Printing(s) == FlattenSeq([k \in DOMAIN s |-> IF s[k] \in Space THEN <<>> ELSE <<s[k]>>])
Consumed    == IF reading \in {"word", "bare"}
               THEN SubSeq(text, 1, at - 1 - (Len(line) - p + 1))
               ELSE SubSeq(text, 1, at - 1)
Collected   == FlattenSeq(FlattenSeq(raw)) \o
                 (IF reading \in {"word", "bare"} THEN FlattenSeq(words) ELSE <<>>) \o
                 (IF reading = "bare" THEN word ELSE <<>>)

Uncut       == /\ \A n \in DOMAIN raw : Len(raw[n]) < MAX_WORDS
               /\ Len(words) < MAX_WORDS /\ Len(raw) < MAX_LINES

NothingLost == ~Contains(text, Quote) /\ ~Contains(text, Nul) /\ Uncut
                 => Collected = Printing(Consumed)

(* A line and a word stay in their buffers with their terminators, the     *)
(* scan never goes past the terminator of the line, and what is kept stays *)
(* in raw[][], wherever quotes, escapes and the file end.                  *)
StaysInBuffers ==
  /\ Len(line) < MAX_LINE_LENGTH /\ Len(word) < MAX_LINE_LENGTH
  /\ p <= Len(line) + 1
  /\ Len(words) <= MAX_WORDS /\ Len(raw) <= MAX_LINES
  /\ \A n \in DOMAIN raw : Len(raw[n]) <= MAX_WORDS

(* Whatever is in the file, reading it comes to an end.                    *)
EndsReading == <>(reading = "read")
=============================================================================
