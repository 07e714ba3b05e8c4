-------------------------- MODULE AssemblerProofs --------------------------
(***************************************************************************)
(* What the assembler makes of a source, for every source in the plain     *)
(* layout and all sizes of its tables.                                     *)
(***************************************************************************)
EXTENDS Assembler, SequenceFacts

-----------------------------------------------------------------------------
(* Sums: the recursive function inside Total exists, and its equation      *)
(* determines it.                                                          *)

(* f[k] is the sum of the first k members of ns.                           *)
Sums(f, ns, n) == \A k \in 0 .. n : f[k] = IF k = 0 THEN 0 ELSE f[k - 1] + ns[k]

Adds(f, ns) == f = [k \in 0 .. Len(ns) |-> IF k = 0 THEN 0 ELSE f[k - 1] + ns[k]]

LEMMA TotalSums == \A ns : Total(ns) = (CHOOSE f : Adds(f, ns))[Len(ns)]
BY Zenon DEF Total, Adds

LEMMA Summing ==
  ASSUME NEW ns \in Seq(Nat), NEW n \in 0 .. Len(ns)
  PROVE  \E f \in [0 .. n -> Nat] : Sums(f, ns, n)
<1> DEFINE G(m) == \E f \in [0 .. m -> Nat] : Sums(f, ns, m)
           S == {m \in 0 .. n : ~G(m)}
<1>1. Len(ns) \in Nat /\ n \in Nat /\ \A k \in 1 .. n : ns[k] \in Nat
  OBVIOUS
<1>2. SUFFICES ASSUME S # {} PROVE FALSE
  <2>1. n \in 0 .. n
    BY <1>1
  <2> QED
    BY <2>1
<1>3. PICK m \in S : \A b \in S : m <= b
  <2>1. S \in SUBSET Nat
    OBVIOUS
  <2> HIDE DEF S
  <2> QED
    BY <1>2, <2>1, LeastMember
<1>4. CASE m = 0
  <2> DEFINE h == [k \in 0 .. 0 |-> 0]
  <2>1. h \in [0 .. 0 -> Nat] /\ Sums(h, ns, 0)
    BY DEF Sums
  <2>2. G(0)
    BY <2>1
  <2> QED
    BY <1>3, <1>4, <2>2
<1>5. CASE m # 0
  <2>1. m \in 1 .. n /\ m - 1 \in 0 .. n /\ ~(m <= m - 1)
    BY <1>1, <1>3, <1>5
  <2>2. PICK f \in [0 .. m - 1 -> Nat] : Sums(f, ns, m - 1)
    BY <1>3, <2>1
  <2> DEFINE h == [k \in 0 .. m |-> IF k = m THEN f[m - 1] + ns[m] ELSE f[k]]
  <2>3. m - 1 \in 0 .. m - 1 /\ f[m - 1] \in Nat /\ ns[m] \in Nat
    BY <1>1, <2>1
  <2>4. \A k \in 0 .. m : k # m => k \in 0 .. m - 1 /\ (k # 0 => k - 1 \in 0 .. m - 1)
    BY <2>1
  <2>5. h \in [0 .. m -> Nat]
    BY <2>3, <2>4
  <2>6. ASSUME NEW k \in 0 .. m
        PROVE  h[k] = IF k = 0 THEN 0 ELSE h[k - 1] + ns[k]
    <3>1. CASE k = m
      <4>1. m \in 0 .. m /\ m - 1 \in 0 .. m /\ m - 1 # m /\ m # 0
        BY <2>1
      <4>2. h[m] = f[m - 1] + ns[m] /\ h[m - 1] = f[m - 1]
        BY <4>1
      <4> HIDE DEF h
      <4> QED
        BY <3>1, <4>1, <4>2
    <3>2. CASE k # m
      <4>1. k \in 0 .. m - 1 /\ (k # 0 => k - 1 \in 0 .. m - 1 /\ k - 1 \in 0 .. m /\ k - 1 # m)
        BY <2>1, <2>4, <3>2
      <4>2. h[k] = f[k] /\ (k # 0 => h[k - 1] = f[k - 1])
        BY <3>2, <4>1
      <4> HIDE DEF h
      <4> QED
        BY <2>2, <4>1, <4>2 DEF Sums
    <3> QED
      BY <3>1, <3>2
  <2>7. G(m)
    <3> HIDE DEF h
    <3> QED
      BY <2>5, <2>6 DEF Sums
  <2> QED
    BY <1>3, <2>7
<1> QED
  BY <1>4, <1>5

LEMMA SumsSame ==
  ASSUME NEW n \in Nat, NEW f, NEW g, NEW ns, NEW ms,
         Sums(f, ns, n), Sums(g, ms, n), Agree(ns, ms, n)
  PROVE  f[n] = g[n]
<1> DEFINE S == {k \in 0 .. n : f[k] # g[k]}
<1>1. SUFFICES ASSUME S # {} PROVE FALSE
  <2>1. n \in 0 .. n
    OBVIOUS
  <2> QED
    BY <2>1
<1>2. PICK m \in S : \A b \in S : m <= b
  <2>1. S \in SUBSET Nat
    OBVIOUS
  <2> HIDE DEF S
  <2> QED
    BY <1>1, <2>1, LeastMember
<1>3. m \in 0 .. n /\ f[m] # g[m]
  BY <1>2
<1>4. CASE m = 0
  BY <1>3, <1>4 DEF Sums
<1>5. CASE m # 0
  <2>1. m - 1 \in 0 .. n /\ m \in 1 .. n /\ ~(m <= m - 1)
    BY <1>3, <1>5
  <2>2. f[m - 1] = g[m - 1]
    BY <1>2, <2>1
  <2>3. f[m] = f[m - 1] + ns[m] /\ g[m] = g[m - 1] + ms[m] /\ ns[m] = ms[m]
    BY <1>3, <1>5, <2>1 DEF Sums, Agree
  <2> QED
    BY <1>3, <2>2, <2>3
<1> QED
  BY <1>4, <1>5

LEMMA TotalOf ==
  ASSUME NEW ns \in Seq(Nat)
  PROVE  /\ Total(ns) \in Nat
         /\ \E f : Sums(f, ns, Len(ns)) /\ Total(ns) = f[Len(ns)]
<1>1. Len(ns) \in Nat /\ Len(ns) \in 0 .. Len(ns)
  OBVIOUS
<1>2. PICK g \in [0 .. Len(ns) -> Nat] : Sums(g, ns, Len(ns))
  BY <1>1, Summing
<1>3. Adds(g, ns)
  BY <1>2 DEF Adds, Sums
<1> DEFINE F == CHOOSE f : Adds(f, ns)
<1>4. Adds(F, ns)
  BY <1>3
<1>5. Total(ns) = F[Len(ns)]
  BY TotalSums
<1> HIDE DEF F
<1>6. Sums(F, ns, Len(ns))
  BY <1>4 DEF Adds, Sums
<1>7. F[Len(ns)] = g[Len(ns)]
  <2>1. Agree(ns, ns, Len(ns))
    BY DEF Agree
  <2> QED
    BY <1>1, <1>2, <1>6, <2>1, SumsSame
<1> QED
  BY <1>1, <1>2, <1>5, <1>6, <1>7

LEMMA TotalEmpty == Total(<<>>) = 0
<1>1. PICK f : Sums(f, <<>>, Len(<<>>)) /\ Total(<<>>) = f[Len(<<>>)]
  BY TotalOf, EmptySeq
<1>2. Len(<<>>) = 0
  OBVIOUS
<1> QED
  BY <1>1, <1>2 DEF Sums

LEMMA TotalAppend ==
  ASSUME NEW ns \in Seq(Nat), NEW x \in Nat
  PROVE  Total(Append(ns, x)) = Total(ns) + x
<1> DEFINE ms == Append(ns, x)
           n  == Len(ns)
<1>1. /\ ms \in Seq(Nat) /\ Len(ms) = n + 1 /\ n \in Nat
      /\ ms[n + 1] = x /\ \A k \in 1 .. n : ns[k] = ms[k]
  BY AppendProperties
<1> HIDE DEF ms, n
<1>2. PICK f : Sums(f, ns, n) /\ Total(ns) = f[n]
  BY TotalOf DEF n
<1>3. PICK g : Sums(g, ms, n + 1) /\ Total(ms) = g[n + 1]
  BY <1>1, TotalOf
<1>4. Sums(g, ms, n)
  <2>1. \A k \in 0 .. n : k \in 0 .. n + 1
    BY <1>1
  <2> QED
    BY <1>3, <2>1, Zenon DEF Sums
<1>5. f[n] = g[n]
  <2>1. Agree(ns, ms, n)
    BY <1>1 DEF Agree
  <2> QED
    BY <1>1, <1>2, <1>4, <2>1, SumsSame
<1>6. g[n + 1] = g[n] + x
  <2>1. n + 1 \in 0 .. n + 1 /\ n + 1 # 0 /\ (n + 1) - 1 = n
    BY <1>1
  <2> QED
    BY <1>1, <1>3, <2>1 DEF Sums
<1> QED
  BY <1>2, <1>3, <1>5, <1>6 DEF ms

-----------------------------------------------------------------------------
(* Words and lines.                                                        *)

LEMMA FirstOf ==
  ASSUME NEW n \in Nat, NEW Js \in SUBSET (1 .. n)
  PROVE  LET k == IF Js # {} THEN Min(Js) ELSE 0
         IN  /\ k \in 0 .. n
             /\ k = 0 => Js = {}
             /\ k # 0 => k \in Js /\ \A m \in Js : k <= m
<1>1. CASE Js = {}
  BY <1>1
<1>2. CASE Js # {}
  <2>1. Js \in SUBSET Nat
    OBVIOUS
  <2>2. PICK b \in Js : \A m \in Js : b <= m
    BY <1>2, <2>1, LeastMember
  <2>3. PICK k : k = Min(Js)
    OBVIOUS
  <2>4. k \in Js /\ \A m \in Js : k <= m
    BY <2>2, <2>3, Zenon DEF Min
  <2>5. k \in 1 .. n
    BY <2>4
  <2> QED
    BY <1>2, <2>3, <2>4, <2>5
<1> QED
  BY <1>1, <1>2

LEMMA UncommentedOf ==
  ASSUME NEW l \in Seq(Words)
  PROVE  LET u == Uncommented(l)
         IN  /\ u \in Seq(Words) /\ Len(u) <= Len(l)
             /\ \A k \in 1 .. Len(u) : u[k] = l[k] /\ ~IsRemark(l[k])
             /\ Len(u) < Len(l) => IsRemark(l[Len(u) + 1])
<1> DEFINE Js == {k \in 1 .. Len(l) : IsRemark(l[k])}
<1>1. PICK k : k = IF Js # {} THEN Min(Js) ELSE 0
  OBVIOUS
<1>2. Uncommented(l) = IF k = 0 THEN l ELSE SubSeq(l, 1, k - 1)
  BY <1>1 DEF Uncommented, SelectInSeq
<1>3. /\ k \in 0 .. Len(l)
      /\ k = 0 => \A m \in 1 .. Len(l) : ~IsRemark(l[m])
      /\ k # 0 => IsRemark(l[k]) /\ \A m \in 1 .. k - 1 : ~IsRemark(l[m])
  <2>1. Js \in SUBSET (1 .. Len(l)) /\ Len(l) \in Nat
    OBVIOUS
  <2>2. k \in 0 .. Len(l) /\ (k = 0 => Js = {}) /\ (k # 0 => k \in Js /\ \A m \in Js : k <= m)
    <3> HIDE DEF Js
    <3> QED
      BY <1>1, <2>1, FirstOf
  <2>3. k # 0 => \A m \in 1 .. k - 1 : m \in 1 .. Len(l) /\ ~(k <= m)
    BY <2>2
  <2> QED
    BY <2>2, <2>3
<1>4. CASE k = 0
  BY <1>2, <1>3, <1>4
<1>5. CASE k # 0
  <2>1. \A m \in 1 .. k - 1 : l[m] \in Words
    BY <1>3, <1>5
  <2>2. /\ SubSeq(l, 1, k - 1) \in Seq(Words)
        /\ Len(SubSeq(l, 1, k - 1)) = IF 1 <= k - 1 THEN k - 1 ELSE 0
        /\ \A m \in 1 .. k - 1 : SubSeq(l, 1, k - 1)[m] = l[1 + m - 1]
    BY <1>3, <2>1, SubSeqProperties
  <2>3. PICK u : u = SubSeq(l, 1, k - 1)
    OBVIOUS
  <2>4. Len(u) = k - 1 /\ \A m \in 1 .. k - 1 : u[m] = l[m]
    BY <1>3, <1>5, <2>2, <2>3
  <2> QED
    BY <1>2, <1>3, <1>5, <2>2, <2>3, <2>4
<1> QED
  BY <1>4, <1>5

LEMMA OperandsOf ==
  ASSUME NEW l \in Seq(Words)
  PROVE  LET u == Uncommented(l)
             o == Operands(l)
         IN  /\ o \in Seq(Words)
             /\ (Len(u) = 0 => Len(o) = 0) /\ (Len(u) # 0 => Len(o) = Len(u) - 1)
             /\ \A k \in 1 .. Len(o) : o[k] = l[k + 1] /\ k + 1 \in 2 .. Len(u)
             /\ (u = <<>>) <=> Len(u) = 0
<1>1. PICK u \in Seq(Words) : u = Uncommented(l) /\ \A k \in 1 .. Len(u) : u[k] = l[k]
  BY UncommentedOf
<1>2. Len(u) \in Nat /\ ((u = <<>>) <=> Len(u) = 0)
  BY EmptySeq
<1>3. \A k \in 2 .. Len(u) : u[k] \in Words
  BY <1>2
<1>4. PICK o : o = SubSeq(u, 2, Len(u))
  OBVIOUS
<1>5. o \in Seq(Words) /\ Len(o) = (IF 2 <= Len(u) THEN Len(u) - 2 + 1 ELSE 0)
      /\ \A k \in 1 .. Len(u) - 2 + 1 : o[k] = u[2 + k - 1]
  BY <1>2, <1>3, <1>4, SubSeqProperties
<1>6. (Len(u) = 0 => Len(o) = 0) /\ (Len(u) # 0 => Len(o) = Len(u) - 1)
  <2>1. Len(u) \in Nat /\ Len(o) = IF 2 <= Len(u) THEN Len(u) - 2 + 1 ELSE 0
    BY <1>2, <1>5
  <2>2. PICK m \in Nat : m = Len(u)
    BY <2>1
  <2>3. Len(o) = IF 2 <= m THEN m - 2 + 1 ELSE 0
    BY <2>1, <2>2
  <2>4. (m = 0 => Len(o) = 0) /\ (m # 0 => Len(o) = m - 1)
    <3>1. CASE m = 0
      BY <2>3, <3>1
    <3>2. CASE m = 1
      BY <2>3, <3>2
    <3>3. CASE m \in Nat /\ 2 <= m
      BY <2>3, <3>3
    <3> QED
      BY <3>1, <3>2, <3>3
  <2> QED
    BY <2>2, <2>4
<1>7. ASSUME NEW k \in 1 .. Len(o)
      PROVE  o[k] = l[k + 1] /\ k + 1 \in 2 .. Len(u)
  <2>1. k \in 1 .. Len(u) - 2 + 1 /\ k + 1 \in 1 .. Len(u) /\ 2 + k - 1 = k + 1 /\ k + 1 \in 2 .. Len(u)
    BY <1>2, <1>5, <1>6
  <2> QED
    BY <1>1, <1>5, <2>1
<1>8. o = Operands(l)
  BY <1>1, <1>4 DEF Operands
<1> QED
  BY <1>1, <1>2, <1>5, <1>6, <1>7, <1>8

(* A word by its kinds.                                                    *)
LEMMA WordKinds ==
  ASSUME NEW w \in Words
  PROVE  /\ w.chars \in Chars
         /\ \/ w.kind = "op" /\ w.val \in 0 .. STR
            \/ w.kind = "reg" /\ w.val \in RegNumbers
            \/ w.kind = "hex4" /\ w.val \in Halfwords
            \/ w.kind \in {"label", "ref"} /\ w.val \in STRING
            \/ w.kind \in OtherKinds /\ w.val \in Nat
<1>1. \/ w \in [kind : {"op"}, val : 0 .. STR, chars : Chars]
      \/ w \in [kind : {"reg"}, val : RegNumbers, chars : Chars]
      \/ w \in [kind : {"hex4"}, val : Halfwords, chars : Chars]
      \/ w \in [kind : {"label", "ref"}, val : STRING, chars : Chars]
      \/ w \in [kind : OtherKinds, val : Nat, chars : Chars]
  BY Zenon DEF Words
<1>2. CASE w \in [kind : {"op"}, val : 0 .. STR, chars : Chars]
  BY <1>2
<1>3. CASE w \in [kind : {"reg"}, val : RegNumbers, chars : Chars]
  BY <1>3
<1>4. CASE w \in [kind : {"hex4"}, val : Halfwords, chars : Chars]
  BY <1>4
<1>5. CASE w \in [kind : {"label", "ref"}, val : STRING, chars : Chars]
  BY <1>5
<1>6. CASE w \in [kind : OtherKinds, val : Nat, chars : Chars]
  BY <1>6
<1> QED
  BY <1>1, <1>2, <1>3, <1>4, <1>5, <1>6

LEMMA WordType ==
  ASSUME NEW w \in Words
  PROVE  /\ w.kind \in {"op", "reg", "num", "hex2", "hex4", "wide", "hex", "label", "ref", ";", ";text", "text"}
         /\ w.chars \in Seq(Nat)
         /\ w.kind \in {"reg", "num", "hex2", "hex4", "wide"} => w.val \in Nat
         /\ w.kind \in {"label", "ref"} => w.val \in STRING
         /\ w.kind = "op" => w.val \in 0 .. STR
<1>1. w.chars \in Seq(Nat)
  <2>1. 0 .. 255 \subseteq Nat
    OBVIOUS
  <2> QED
    BY <2>1, WordKinds, SeqMonotonic, Zenon DEF Chars
<1>2. RegNumbers \subseteq Nat /\ Halfwords \subseteq Nat
  BY DEF RegNumbers, Halfwords
<1> QED
  BY <1>1, <1>2, WordKinds, Zenon DEF OtherKinds

-----------------------------------------------------------------------------
(* Layout: what a line adds to the offset, and a word to the width.        *)

LEMMA Growing ==
  ASSUME NEW n \in Nat, NEW f \in [0 .. n -> Int],
         \A k \in 1 .. n : f[k - 1] <= f[k],
         NEW m \in 0 .. n
  PROVE  \A k \in m .. n : f[m] <= f[k]
<1> DEFINE S == {k \in m .. n : ~(f[m] <= f[k])}
<1>1. SUFFICES ASSUME S # {} PROVE FALSE
  OBVIOUS
<1>2. PICK k \in S : \A b \in S : k <= b
  <2>1. S \in SUBSET Nat
    OBVIOUS
  <2> HIDE DEF S
  <2> QED
    BY <1>1, <2>1, LeastMember
<1>3. k \in m .. n /\ ~(f[m] <= f[k]) /\ k # m
  BY <1>2
<1>4. k - 1 \in m .. n /\ k \in 1 .. n /\ ~(k <= k - 1) /\ k - 1 \in 0 .. n /\ k \in 0 .. n
  BY <1>3
<1>5. f[m] <= f[k - 1]
  BY <1>2, <1>4
<1>6. f[m] \in Int /\ f[k - 1] \in Int /\ f[k] \in Int /\ f[k - 1] <= f[k]
  BY <1>4
<1> QED
  BY <1>3, <1>5, <1>6

LEMMA WidthType == \A w : Width(w) \in {1, 2}
BY DEF Width

LEMMA WidthsStep ==
  ASSUME NEW s, NEW n \in Nat
  PROVE  /\ Widths(s, 0) = 0
         /\ Widths(s, n) \in Nat
         /\ Widths(s, n + 1) = Widths(s, n) + Width(s[n + 1])
<1> DEFINE ns == [k \in 1 .. n |-> Width(s[k])]
           ms == [k \in 1 .. n + 1 |-> Width(s[k])]
<1>1. ns \in Seq(Nat) /\ Len(ns) = n /\ \A k \in 1 .. n : ns[k] = Width(s[k])
  BY WidthType
<1>2. ms \in Seq(Nat) /\ Len(ms) = n + 1 /\ \A k \in 1 .. n + 1 : ms[k] = Width(s[k])
  BY WidthType
<1>3. Widths(s, n) = Total(ns) /\ Widths(s, n + 1) = Total(ms)
  BY DEF Widths
<1>4. Width(s[n + 1]) \in Nat
  BY WidthType
<1> HIDE DEF ns, ms
<1>5. ms = Append(ns, Width(s[n + 1]))
  <2>1. PICK t : t = Append(ns, Width(s[n + 1]))
    OBVIOUS
  <2>2. t \in Seq(Nat) /\ Len(t) = n + 1
        /\ \A k \in DOMAIN t : t[k] = IF k = Len(ns) + 1 THEN Width(s[n + 1]) ELSE ns[k]
    BY <1>1, <1>4, <2>1, AppendType
  <2>3. \A k \in 1 .. Len(ms) : ms[k] = t[k]
    BY <1>1, <1>2, <2>2
  <2> QED
    BY <1>2, <2>1, <2>2, <2>3, SeqEqual
<1>6. Widths(s, 0) = 0
  <2>1. [k \in 1 .. 0 |-> Width(s[k])] = <<>>
    OBVIOUS
  <2> QED
    BY <2>1, TotalEmpty DEF Widths
<1> QED
  BY <1>1, <1>3, <1>4, <1>5, <1>6, TotalOf, TotalAppend

LEMMA WidthsGrow ==
  ASSUME NEW s, NEW n \in Nat, NEW m \in 0 .. n
  PROVE  Widths(s, m) + (n - m) <= Widths(s, n)
<1> DEFINE f == [k \in 0 .. n |-> Widths(s, k) - k]
<1>1. \A k \in 0 .. n : Widths(s, k) \in Nat
  BY WidthsStep
<1>2. f \in [0 .. n -> Int]
  BY <1>1
<1>3. ASSUME NEW k \in 1 .. n
      PROVE  f[k - 1] <= f[k]
  <2>1. k - 1 \in 0 .. n /\ k \in 0 .. n /\ k - 1 \in Nat /\ (k - 1) + 1 = k
    OBVIOUS
  <2>2. PICK p \in Nat, q \in Nat : p = Widths(s, k - 1) /\ q = Widths(s, k) /\ q >= p + 1
    BY <1>1, <2>1, WidthsStep, WidthType
  <2> QED
    BY <2>1, <2>2
<1>4. f[m] = Widths(s, m) - m /\ f[n] = Widths(s, n) - n /\ n \in m .. n
  OBVIOUS
<1> HIDE DEF f
<1>5. f[m] <= f[n]
  BY <1>2, <1>3, <1>4, Growing
<1> QED
  BY <1>1, <1>4, <1>5

LEMMA WidthsSame ==
  ASSUME NEW s, NEW t, NEW n \in Nat, \A k \in 1 .. n : s[k] = t[k]
  PROVE  Widths(s, n) = Widths(t, n)
BY DEF Widths

(* The operand of a string behind str.                                     *)
LEMMA StrOf ==
  ASSUME NEW l \in Seq(Words), Len(Operands(l)) = 1
  PROVE  /\ Operands(l)[1] = l[2] /\ l[2] \in Words
         /\ 2 \in 1 .. Len(l) /\ Len(Uncommented(l)) = 2
<1>1. 1 \in 1 .. Len(Operands(l))
  BY OperandsOf
<1>2. PICK u \in Seq(Words) : u = Uncommented(l) /\ Len(u) <= Len(l)
  BY UncommentedOf
<1>3. Operands(l)[1] = l[1 + 1] /\ 1 + 1 \in 2 .. Len(u) /\ Len(u) = 2 /\ Len(u) \in Nat
  <2>1. PICK o \in Seq(Words) : o = Operands(l)
    BY OperandsOf
  <2>2. (Len(u) = 0 => Len(o) = 0) /\ (Len(u) # 0 => Len(o) = Len(u) - 1)
    BY <1>2, <2>1, OperandsOf
  <2>3. Len(o) = 1 /\ Len(u) \in Nat
    BY <2>1
  <2>4. Len(u) - 1 = 1
    BY <2>2, <2>3
  <2>5. o[1] = l[1 + 1] /\ 1 + 1 \in 2 .. Len(u)
    BY <1>1, <1>2, <2>1, OperandsOf
  <2> QED
    BY <2>1, <2>3, <2>4, <2>5
<1>4. l[2] \in Words /\ 2 \in 1 .. Len(l)
  BY <1>2, <1>3
<1> QED
  BY <1>2, <1>3, <1>4

LEMMA SizeOf ==
  ASSUME NEW l \in Seq(Words)
  PROVE  /\ Size(l) \in Nat
         /\ ~IsCode(l) => Size(l) = 0
         /\ IsCode(l) /\ ~IsStr(l) => Size(l) = 1 + Widths(Operands(l), Len(Operands(l)))
         /\ IsCode(l) /\ IsStr(l) /\ Len(Operands(l)) = 1 => Size(l) = Len(l[2].chars) + 1
<1> DEFINE o  == Operands(l)
           ns == [k \in DOMAIN o |-> Len(o[k].chars) + 1]
<1>1. o \in Seq(Words) /\ Len(o) \in Nat /\ DOMAIN o = 1 .. Len(o)
  BY OperandsOf
<1>2. \A k \in DOMAIN o : Len(o[k].chars) + 1 \in Nat
  <2> SUFFICES ASSUME NEW k \in DOMAIN o PROVE Len(o[k].chars) + 1 \in Nat
    OBVIOUS
  <2> HIDE DEF o
  <2>1. PICK w \in Words : w = o[k]
    BY <1>1
  <2>2. Len(w.chars) \in Nat
    <3>1. w.chars \in Seq(Nat)
      BY WordType
    <3> QED
      BY <3>1
  <2> QED
    BY <2>1, <2>2
<1>3. ns \in Seq(Nat)
  BY <1>1, <1>2
<1>4. Size(l) = IF ~IsCode(l) THEN 0 ELSE IF IsStr(l) THEN Total(ns) ELSE 1 + Widths(o, Len(o))
  BY DEF Size
<1>5. Total(ns) \in Nat /\ Widths(o, Len(o)) \in Nat
  BY <1>1, <1>3, TotalOf, WidthsStep
<1>6. ASSUME Len(o) = 1
      PROVE  Total(ns) = Len(l[2].chars) + 1
  <2>1. o[1] = l[2] /\ l[2] \in Words
    BY <1>6, StrOf
  <2>2. Len(l[2].chars) + 1 \in Nat
    <3>1. l[2].chars \in Seq(Nat)
      BY <2>1, WordType
    <3> QED
      BY <3>1
  <2>3. ns = [k \in 1 .. 1 |-> Len(l[2].chars) + 1]
    <3>1. DOMAIN o = 1 .. 1
      BY <1>1, <1>6
    <3> HIDE DEF o
    <3> QED
      BY <2>1, <3>1
  <2> HIDE DEF ns, o
  <2>4. PICK x \in Nat : x = Len(l[2].chars) + 1
    BY <2>2
  <2>5. Append(<<>>, x) = [k \in 1 .. 1 |-> x]
    OBVIOUS
  <2>6. Total(Append(<<>>, x)) = Total(<<>>) + x
    BY EmptySeq, TotalAppend
  <2> QED
    BY <2>3, <2>4, <2>5, <2>6, TotalEmpty
<1> HIDE DEF o, ns
<1> QED
  BY <1>4, <1>5, <1>6 DEF o

LEMMA OffsetStep ==
  ASSUME NEW s \in Seq(Seq(Words)), NEW n \in 1 .. Len(s)
  PROVE  /\ Offset(s, 1) = 0
         /\ Offset(s, n) \in Nat
         /\ Offset(s, n + 1) = Offset(s, n) + Size(s[n])
<1> DEFINE ns == [k \in 1 .. n - 1 |-> Size(s[k])]
           ms == [k \in 1 .. (n + 1) - 1 |-> Size(s[k])]
<1>0. \A k \in 1 .. n : Size(s[k]) \in Nat
  <2>1. \A k \in 1 .. n : s[k] \in Seq(Words)
    OBVIOUS
  <2> QED
    BY <2>1, SizeOf
<1>1. ns \in Seq(Nat) /\ Len(ns) = n - 1 /\ \A k \in 1 .. n - 1 : ns[k] = Size(s[k])
  BY <1>0
<1>2. ms \in Seq(Nat) /\ Len(ms) = n /\ \A k \in 1 .. n : ms[k] = Size(s[k])
  BY <1>0
<1>3. Offset(s, n) = Total(ns) /\ Offset(s, n + 1) = Total(ms)
  BY DEF Offset
<1>4. Size(s[n]) \in Nat
  BY <1>0
<1> HIDE DEF ns, ms
<1>5. ms = Append(ns, Size(s[n]))
  <2>1. PICK t : t = Append(ns, Size(s[n]))
    OBVIOUS
  <2>2. t \in Seq(Nat) /\ Len(t) = n
        /\ \A k \in DOMAIN t : t[k] = IF k = Len(ns) + 1 THEN Size(s[n]) ELSE ns[k]
    BY <1>1, <1>4, <2>1, AppendType
  <2>3. \A k \in 1 .. Len(ms) : ms[k] = t[k]
    <3>1. DOMAIN t = 1 .. n /\ Len(ns) + 1 = n
      BY <1>1, <2>2
    <3>2. \A k \in 1 .. n : k # n => k \in 1 .. n - 1
      OBVIOUS
    <3> QED
      BY <1>1, <1>2, <2>2, <3>1, <3>2
  <2> QED
    BY <1>2, <2>1, <2>2, <2>3, SeqEqual
<1>6. Offset(s, 1) = 0
  <2>1. [k \in 1 .. 1 - 1 |-> Size(s[k])] = <<>>
    OBVIOUS
  <2> QED
    BY <2>1, TotalEmpty DEF Offset
<1> QED
  BY <1>1, <1>3, <1>4, <1>5, <1>6, TotalOf, TotalAppend

LEMMA OffsetGrows ==
  ASSUME NEW s \in Seq(Seq(Words)), NEW m \in 1 .. Len(s) + 1, NEW n \in m .. Len(s) + 1
  PROVE  Offset(s, m) \in Nat /\ Offset(s, n) \in Nat /\ Offset(s, m) <= Offset(s, n)
<1>0. Len(s) \in Nat /\ \A k \in 1 .. Len(s) : Size(s[k]) \in Nat
  BY SizeOf
<1>1. ASSUME NEW k \in 1 .. Len(s) + 1
      PROVE  Offset(s, k) \in Nat
  <2>1. CASE k = 1
    <3>1. [h \in 1 .. 1 - 1 |-> Size(s[h])] = <<>>
      OBVIOUS
    <3> QED
      BY <2>1, <3>1, TotalEmpty DEF Offset
  <2>2. CASE k # 1
    <3>1. PICK p \in 1 .. Len(s) : k = p + 1
      <4>1. k - 1 \in 1 .. Len(s) /\ k = (k - 1) + 1
        BY <1>0, <2>2
      <4> QED
        BY <4>1
    <3> QED
      BY <1>0, <3>1, OffsetStep
  <2> QED
    BY <2>1, <2>2
<1> DEFINE f == [k \in 0 .. Len(s) |-> Offset(s, k + 1)]
<1>2. f \in [0 .. Len(s) -> Int]
  BY <1>0, <1>1
<1>3. ASSUME NEW k \in 1 .. Len(s)
      PROVE  f[k - 1] <= f[k]
  <2>1. k - 1 \in 0 .. Len(s) /\ k \in 0 .. Len(s) /\ (k - 1) + 1 = k
    BY <1>0
  <2>2. Offset(s, k) \in Nat /\ Size(s[k]) \in Nat /\ Offset(s, k + 1) = Offset(s, k) + Size(s[k])
    BY <1>0, OffsetStep
  <2> QED
    BY <2>1, <2>2
<1>4. /\ m - 1 \in 0 .. Len(s) /\ n - 1 \in m - 1 .. Len(s) /\ Len(s) \in Nat
      /\ f[m - 1] = Offset(s, m) /\ f[n - 1] = Offset(s, n)
  BY <1>0
<1> HIDE DEF f
<1>5. f[m - 1] <= f[n - 1]
  BY <1>2, <1>3, <1>4, Growing
<1>6. n \in 1 .. Len(s) + 1
  OBVIOUS
<1> QED
  BY <1>1, <1>4, <1>5, <1>6

-----------------------------------------------------------------------------
(* Sequences put together from the pieces of a line.                       *)

LEMMA LengthOfFlat ==
  ASSUME NEW T, NEW ss \in Seq(Seq(T))
  PROVE  Len(FlattenSeq(ss)) = Total([k \in 1 .. Len(ss) |-> Len(ss[k])])
<1> DEFINE front(k) == SubSeq(ss, 1, k)
           lens(k)  == [h \in 1 .. k |-> Len(ss[h])]
           S == {k \in 0 .. Len(ss) : Len(FlattenSeq(front(k))) # Total(lens(k))}
<1>1. Len(ss) \in Nat /\ \A k \in 1 .. Len(ss) : ss[k] \in Seq(T) /\ Len(ss[k]) \in Nat
  <2>1. \A k \in 1 .. Len(ss) : ss[k] \in Seq(T)
    OBVIOUS
  <2> QED
    BY <2>1
<1>2. front(Len(ss)) = ss
  BY SubSeqFull
<1>3. SUFFICES ASSUME S # {} PROVE FALSE
  <2>1. Len(ss) \in 0 .. Len(ss)
    BY <1>1
  <2>2. Len(ss) \notin S => Len(FlattenSeq(front(Len(ss)))) = Total(lens(Len(ss)))
    <3> HIDE DEF front, lens
    <3> QED
      BY <2>1
  <2> QED
    BY <1>2, <2>2
<1>4. PICK k \in S : \A b \in S : k <= b
  <2>1. S \in SUBSET Nat
    OBVIOUS
  <2> HIDE DEF S
  <2> QED
    BY <1>3, <2>1, LeastMember
<1>5. k \in 0 .. Len(ss) /\ Len(FlattenSeq(front(k))) # Total(lens(k))
  BY <1>4
<1>6. CASE k = 0
  <2>1. front(0) = <<>> /\ lens(0) = <<>> /\ Len(<<>>) = 0
    BY <1>1, SubSeqEmpty
  <2> HIDE DEF front, lens
  <2> QED
    BY <1>5, <1>6, <2>1, FlattenEmpty, TotalEmpty
<1>7. CASE k # 0
  <2>1. k - 1 \in 0 .. Len(ss) /\ ~(k <= k - 1) /\ k \in 1 .. Len(ss) /\ k \in Nat
    BY <1>1, <1>5, <1>7
  <2>2. Len(FlattenSeq(front(k - 1))) = Total(lens(k - 1))
    BY <1>4, <2>1
  <2>3. front(k) = Append(front(k - 1), ss[k]) /\ front(k - 1) \in Seq(Seq(T))
    BY <1>1, <2>1, SubSeqRecursiveSecond, SubSeqProperties
  <2>4. lens(k - 1) \in Seq(Nat) /\ Len(lens(k - 1)) = k - 1
        /\ lens(k) \in Seq(Nat) /\ Len(lens(k)) = k
        /\ (\A h \in 1 .. k - 1 : lens(k - 1)[h] = Len(ss[h]))
        /\ \A h \in 1 .. k : lens(k)[h] = Len(ss[h])
    BY <1>1, <2>1
  <2> HIDE DEF front, lens, S
  <2>5. PICK x \in Nat, t \in Seq(T) : t = ss[k] /\ x = Len(t)
    BY <1>1, <2>1
  <2>6. lens(k) = Append(lens(k - 1), x)
    <3>1. PICK a : a = Append(lens(k - 1), x)
      OBVIOUS
    <3>2. a \in Seq(Nat) /\ Len(a) = k
          /\ \A h \in DOMAIN a : a[h] = IF h = Len(lens(k - 1)) + 1 THEN x ELSE lens(k - 1)[h]
      BY <2>1, <2>4, <2>5, <3>1, AppendType
    <3>3. \A h \in 1 .. Len(lens(k)) : lens(k)[h] = a[h]
      <4>1. DOMAIN a = 1 .. k /\ Len(lens(k - 1)) + 1 = k
        BY <2>1, <2>4, <3>2
      <4>2. \A h \in 1 .. k : h # k => h \in 1 .. k - 1
        BY <2>1
      <4> QED
        BY <2>4, <2>5, <3>2, <4>1, <4>2
    <3> QED
      BY <2>4, <3>1, <3>2, <3>3, SeqEqual
  <2>7. Total(lens(k)) = Total(lens(k - 1)) + x
    BY <2>4, <2>6, TotalAppend
  <2>8. PICK a \in Seq(T) : a = FlattenSeq(front(k - 1))
    BY <2>3, FlattenType
  <2>9. Len(a \o t) = Len(a) + x
    BY <2>5, ConcatProperties
  <2>10. FlattenSeq(front(k)) = a \o t
    BY <2>3, <2>5, <2>8, FlattenAppend
  <2> QED
    BY <1>5, <2>2, <2>7, <2>8, <2>9, <2>10
<1> QED
  BY <1>6, <1>7

(* g applied to every member.                                              *)
Mapped(g, s) == [k \in DOMAIN s |-> g[s[k]]]

LEMMA MappedType ==
  ASSUME NEW T, NEW U, NEW g \in [T -> U], NEW s \in Seq(T)
  PROVE  Mapped(g, s) \in Seq(U)
<1>1. \A k \in 1 .. Len(s) : g[s[k]] \in U
  OBVIOUS
<1>2. Mapped(g, s) = [k \in 1 .. Len(s) |-> g[s[k]]] /\ Len(s) \in Nat
  BY DEF Mapped
<1> QED
  BY <1>1, <1>2

LEMMA MappedOf ==
  ASSUME NEW T, NEW g, NEW s \in Seq(T)
  PROVE  Len(Mapped(g, s)) = Len(s) /\ \A k \in 1 .. Len(s) : Mapped(g, s)[k] = g[s[k]]
<1>1. Mapped(g, s) = [k \in 1 .. Len(s) |-> g[s[k]]] /\ Len(s) \in Nat
  BY DEF Mapped
<1> QED
  BY <1>1

LEMMA MappedInto ==
  ASSUME NEW T, NEW U, NEW g, \A x \in T : g[x] \in U, NEW s \in Seq(T), NEW m, m = Mapped(g, s)
  PROVE  m \in Seq(U)
<1>1. \A k \in 1 .. Len(s) : s[k] \in T /\ g[s[k]] \in U
  OBVIOUS
<1>2. m = [k \in 1 .. Len(s) |-> g[s[k]]] /\ Len(s) \in Nat
  BY DEF Mapped
<1> QED
  BY <1>1, <1>2

LEMMA MappedConcat ==
  ASSUME NEW T, NEW g, NEW s \in Seq(T), NEW t \in Seq(T)
  PROVE  Mapped(g, s \o t) = Mapped(g, s) \o Mapped(g, t)
<1> DEFINE U == {g[x] : x \in T}
<1>u. \A x \in T : g[x] \in U
  OBVIOUS
<1> HIDE DEF U
<1>0. PICK a, b, c, d, e : /\ a = Mapped(g, s) /\ b = Mapped(g, t)
                           /\ c = s \o t /\ d = Mapped(g, c) /\ e = a \o b
  OBVIOUS
<1>1. /\ a \in Seq(U) /\ Len(a) = Len(s) /\ \A k \in 1 .. Len(s) : a[k] = g[s[k]]
      /\ b \in Seq(U) /\ Len(b) = Len(t) /\ \A k \in 1 .. Len(t) : b[k] = g[t[k]]
  <2>1. a \in Seq(U) /\ b \in Seq(U)
    BY <1>0, <1>u, MappedInto
  <2> QED
    BY <1>0, <2>1, MappedOf
<1>2. /\ c \in Seq(T) /\ Len(c) = Len(s) + Len(t)
      /\ \A k \in 1 .. Len(s) + Len(t) : c[k] = IF k <= Len(s) THEN s[k] ELSE t[k - Len(s)]
  <2>1. c = s \o t
    BY <1>0
  <2> QED
    BY <2>1, ConcatProperties
<1>3. d \in Seq(U) /\ Len(d) = Len(c) /\ \A k \in 1 .. Len(c) : d[k] = g[c[k]]
  <2>1. d = Mapped(g, c) /\ c \in Seq(T)
    BY <1>0, <1>2
  <2>2. d \in Seq(U)
    BY <1>u, <2>1, MappedInto
  <2> QED
    BY <2>1, <2>2, MappedOf
<1>4. /\ e \in Seq(U) /\ Len(e) = Len(a) + Len(b)
      /\ \A k \in 1 .. Len(a) + Len(b) : e[k] = IF k <= Len(a) THEN a[k] ELSE b[k - Len(a)]
  <2>1. e = a \o b /\ a \in Seq(U) /\ b \in Seq(U)
    BY <1>0, <1>1
  <2> QED
    BY <2>1, ConcatProperties
<1>5. Len(s) \in Nat /\ Len(t) \in Nat
  OBVIOUS
<1>6. ASSUME NEW k \in 1 .. Len(d)
      PROVE  d[k] = e[k]
  <2>1. k \in 1 .. Len(s) + Len(t) /\ k \in Nat
    BY <1>2, <1>3, <1>5
  <2>2. CASE k <= Len(s)
    <3>1. k \in 1 .. Len(s)
      BY <1>5, <2>1, <2>2
    <3>2. e[k] = a[k] /\ c[k] = s[k]
      BY <1>1, <1>2, <1>4, <2>1, <2>2
    <3>3. a[k] = g[s[k]]
      BY <1>1, <3>1
    <3>4. d[k] = g[c[k]]
      BY <1>2, <1>3, <2>1
    <3> QED
      BY <3>2, <3>3, <3>4
  <2>3. CASE ~(k <= Len(s))
    <3>1. k - Len(s) \in 1 .. Len(t)
      BY <1>5, <2>1, <2>3
    <3>2. e[k] = b[k - Len(s)] /\ c[k] = t[k - Len(s)]
      BY <1>1, <1>2, <1>4, <2>1, <2>3
    <3>3. b[k - Len(s)] = g[t[k - Len(s)]]
      BY <1>1, <3>1
    <3>4. d[k] = g[c[k]]
      BY <1>2, <1>3, <2>1
    <3> QED
      BY <3>2, <3>3, <3>4
  <2> QED
    BY <2>2, <2>3
<1>7. d = e
  BY <1>1, <1>2, <1>3, <1>4, <1>6, SeqEqual
<1> QED
  BY <1>0, <1>7

LEMMA MappedFlat ==
  ASSUME NEW T, NEW U, NEW g \in [T -> U], NEW ss \in Seq(Seq(T))
  PROVE  FlattenSeq([k \in 1 .. Len(ss) |-> Mapped(g, ss[k])]) = Mapped(g, FlattenSeq(ss))
<1> DEFINE front(k) == SubSeq(ss, 1, k)
           maps(k)  == [h \in 1 .. k |-> Mapped(g, ss[h])]
           S == {k \in 0 .. Len(ss) : FlattenSeq(maps(k)) # Mapped(g, FlattenSeq(front(k)))}
<1>1. Len(ss) \in Nat /\ \A k \in 1 .. Len(ss) : ss[k] \in Seq(T) /\ Mapped(g, ss[k]) \in Seq(U)
  <2>1. \A k \in 1 .. Len(ss) : ss[k] \in Seq(T)
    OBVIOUS
  <2> QED
    BY <2>1, MappedType
<1>2. front(Len(ss)) = ss
  BY SubSeqFull
<1>3. SUFFICES ASSUME S # {} PROVE FALSE
  <2>1. Len(ss) \in 0 .. Len(ss)
    BY <1>1
  <2>2. Len(ss) \notin S => FlattenSeq(maps(Len(ss))) = Mapped(g, FlattenSeq(front(Len(ss))))
    <3> HIDE DEF front, maps
    <3> QED
      BY <2>1
  <2> QED
    BY <1>2, <2>2
<1>4. PICK k \in S : \A b \in S : k <= b
  <2>1. S \in SUBSET Nat
    OBVIOUS
  <2> HIDE DEF S
  <2> QED
    BY <1>3, <2>1, LeastMember
<1>5. k \in 0 .. Len(ss) /\ FlattenSeq(maps(k)) # Mapped(g, FlattenSeq(front(k)))
  BY <1>4
<1>6. CASE k = 0
  <2>1. front(0) = <<>> /\ maps(0) = <<>>
    BY <1>1, SubSeqEmpty
  <2>2. Mapped(g, <<>>) = <<>>
    BY DEF Mapped
  <2> HIDE DEF front, maps
  <2> QED
    BY <1>5, <1>6, <2>1, <2>2, FlattenEmpty
<1>7. CASE k # 0
  <2>1. k - 1 \in 0 .. Len(ss) /\ ~(k <= k - 1) /\ k \in 1 .. Len(ss) /\ k \in Nat
    BY <1>1, <1>5, <1>7
  <2>2. FlattenSeq(maps(k - 1)) = Mapped(g, FlattenSeq(front(k - 1)))
    BY <1>4, <2>1
  <2>3. front(k) = Append(front(k - 1), ss[k]) /\ front(k - 1) \in Seq(Seq(T))
    BY <1>1, <2>1, SubSeqRecursiveSecond, SubSeqProperties
  <2>4. maps(k - 1) \in Seq(Seq(U)) /\ Len(maps(k - 1)) = k - 1
        /\ maps(k) \in Seq(Seq(U)) /\ Len(maps(k)) = k
        /\ (\A h \in 1 .. k - 1 : maps(k - 1)[h] = Mapped(g, ss[h]))
        /\ \A h \in 1 .. k : maps(k)[h] = Mapped(g, ss[h])
    BY <1>1, <2>1
  <2> HIDE DEF front, maps, S
  <2>5. PICK x \in Seq(U), t \in Seq(T) : t = ss[k] /\ x = Mapped(g, t)
    BY <1>1, <2>1
  <2>6. maps(k) = Append(maps(k - 1), x)
    <3>1. PICK a : a = Append(maps(k - 1), x)
      OBVIOUS
    <3>2. a \in Seq(Seq(U)) /\ Len(a) = k
          /\ \A h \in DOMAIN a : a[h] = IF h = Len(maps(k - 1)) + 1 THEN x ELSE maps(k - 1)[h]
      BY <2>1, <2>4, <2>5, <3>1, AppendType
    <3>3. \A h \in 1 .. Len(maps(k)) : maps(k)[h] = a[h]
      <4>1. DOMAIN a = 1 .. k /\ Len(maps(k - 1)) + 1 = k
        BY <2>1, <2>4, <3>2
      <4>2. \A h \in 1 .. k : h # k => h \in 1 .. k - 1
        BY <2>1
      <4> QED
        BY <2>4, <2>5, <3>2, <4>1, <4>2
    <3> QED
      BY <2>4, <3>1, <3>2, <3>3, SeqEqual
  <2>7. FlattenSeq(maps(k)) = FlattenSeq(maps(k - 1)) \o x
    BY <2>4, <2>6, FlattenAppend
  <2>8. PICK a \in Seq(T) : a = FlattenSeq(front(k - 1))
    BY <2>3, FlattenType
  <2>9. Mapped(g, a \o t) = Mapped(g, a) \o x
    <3>1. Mapped(g, a \o t) = Mapped(g, a) \o Mapped(g, t)
      BY MappedConcat
    <3> QED
      BY <2>5, <3>1, Zenon
  <2>10. FlattenSeq(front(k)) = a \o t
    BY <2>3, <2>5, <2>8, FlattenAppend
  <2> QED
    BY <1>5, <2>2, <2>7, <2>8, <2>9, <2>10
<1> QED
  BY <1>6, <1>7

-----------------------------------------------------------------------------
(* Operands: how many bytes and signature bits they take, and which.       *)

SymbolsType == symbols \in Seq([name : STRING, offset : Nat])

(* Words that stand behind the operation in a source in the plain layout.  *)
PlainWord(w) == w \in Words /\ w.kind \notin {"label", "wide", ";", ";text"}

LEMMA AddressOf ==
  ASSUME SymbolsType, NEW x, Named(x) # {}
  PROVE  /\ insertSymbolAddress(x) \in Nat
         /\ \E k \in Named(x) : /\ \A m \in Named(x) : k <= m
                                /\ insertSymbolAddress(x) = symbols[k].offset
<1>1. Named(x) \in SUBSET Nat /\ \A k \in Named(x) : symbols[k].offset \in Nat
  <2>1. Named(x) \subseteq 1 .. Len(symbols) /\ Len(symbols) \in Nat
    BY DEF Named, SymbolsType
  <2>2. \A k \in 1 .. Len(symbols) : symbols[k] \in [name : STRING, offset : Nat]
    <3> DEFINE E == [name : STRING, offset : Nat]
    <3>1. symbols \in Seq(E)
      BY DEF SymbolsType
    <3> HIDE DEF E
    <3>2. \A k \in 1 .. Len(symbols) : symbols[k] \in E
      BY <3>1
    <3> QED
      BY <3>2 DEF E
  <2>3. \A k \in Named(x) : symbols[k].offset \in Nat
    BY <2>1, <2>2
  <2>4. Named(x) \in SUBSET Nat
    BY <2>1
  <2> QED
    BY <2>3, <2>4
<1> DEFINE c == CHOOSE k \in Named(x) : \A m \in Named(x) : k <= m
<1>2. \E k \in Named(x) : \A m \in Named(x) : k <= m
  BY <1>1, LeastMember
<1>3. c \in Named(x) /\ \A m \in Named(x) : c <= m
  BY <1>2, Zenon
<1>4. insertSymbolAddress(x) = symbols[c].offset
  BY DEF insertSymbolAddress
<1> HIDE DEF c
<1>5. insertSymbolAddress(x) \in Nat
  BY <1>1, <1>3, <1>4, Zenon
<1>6. \E k \in Named(x) : (\A m \in Named(x) : k <= m) /\ insertSymbolAddress(x) = symbols[k].offset
  BY <1>3, <1>4, Zenon
<1> QED
  BY <1>5, <1>6, Zenon

LEMMA Word2Of ==
  ASSUME NEW n \in Nat
  PROVE  Word2(n) \in Seq(Nat) /\ Len(Word2(n)) = 2
BY DEF Word2

LEMMA ShortOf ==
  ASSUME NEW S, NEW a \in S, NEW b \in S
  PROVE  /\ <<a>> \in Seq(S) /\ Len(<<a>>) = 1
         /\ <<a, b>> \in Seq(S) /\ Len(<<a, b>>) = 2
OBVIOUS

LEMMA OperandWidth ==
  ASSUME SymbolsType, NEW w, PlainWord(w), Known(w, FALSE)
  PROVE  /\ Bytes(w, FALSE) \in Seq(Nat) /\ Len(Bytes(w, FALSE)) = Width(w)
         /\ operandsig(w) \in Seq({0, 1}) /\ Len(operandsig(w)) = Width(w)
<1>1. w \in Words /\ \/ w.kind = "reg" \/ w.kind \in {"hex2", "num"} \/ w.kind = "hex4"
                     \/ w.kind = "ref" /\ Named(w.val) # {}
  BY WordType DEF PlainWord, Known
<1>2. w.kind \in {"reg", "hex2", "num", "hex4"} => w.val \in Nat
  BY <1>1, WordType
<1>0. /\ <<0>> \in Seq({0, 1}) /\ <<1>> \in Seq({0, 1}) /\ <<0, 0>> \in Seq({0, 1})
      /\ Len(<<0>>) = 1 /\ Len(<<1>>) = 1 /\ Len(<<0, 0>>) = 2
  OBVIOUS
<1>3. CASE w.kind = "reg"
  <2>1. Bytes(w, FALSE) = <<w.val>> /\ operandsig(w) = <<1>> /\ Width(w) = 1
    BY <1>3 DEF Bytes, operandsig, Width
  <2>2. <<w.val>> \in Seq(Nat) /\ Len(<<w.val>>) = 1
    BY <1>2, <1>3, ShortOf
  <2> QED
    BY <1>0, <2>1, <2>2
<1>4. CASE w.kind \in {"hex2", "num"}
  <2>1. w.val % 256 \in Nat
    BY <1>2, <1>4
  <2>2. Bytes(w, FALSE) = <<w.val % 256>> /\ operandsig(w) = <<0>> /\ Width(w) = 1
    BY <1>4 DEF Bytes, operandsig, Width
  <2>3. <<w.val % 256>> \in Seq(Nat) /\ Len(<<w.val % 256>>) = 1
    BY <2>1, ShortOf
  <2> QED
    BY <1>0, <2>2, <2>3
<1>5. CASE w.kind = "hex4"
  <2>1. Bytes(w, FALSE) = Word2(w.val) /\ operandsig(w) = <<0, 0>> /\ Width(w) = 2
    BY <1>5 DEF Bytes, operandsig, Width
  <2> QED
    BY <1>0, <1>2, <1>5, <2>1, Word2Of
<1>6. CASE w.kind = "ref" /\ Named(w.val) # {}
  <2>1. Bytes(w, FALSE) = Word2(insertSymbolAddress(w.val)) /\ operandsig(w) = <<0, 0>> /\ Width(w) = 2
    BY <1>6 DEF Bytes, operandsig, Width
  <2>2. insertSymbolAddress(w.val) \in Nat
    BY <1>6, AddressOf
  <2> QED
    BY <1>0, <2>1, <2>2, Word2Of
<1> QED
  BY <1>1, <1>3, <1>4, <1>5, <1>6

(* Operands as Encoding has them.                                          *)
Opd    == [sig : {0, 1}, byte : Nat]
ByteOf == [d \in Opd |-> d.byte]
SigOf  == [d \in Opd |-> d.sig]

LEMMA OperandMeant ==
  ASSUME SymbolsType, NEW s, NEW w, PlainWord(w), Known(w, FALSE),
         w.kind = "ref" => insertSymbolAddress(w.val) = Meaning(s, w.val)
  PROVE  /\ Operand(s, w) \in Seq(Opd)
         /\ Bytes(w, FALSE) = Mapped(ByteOf, Operand(s, w))
         /\ operandsig(w) = Mapped(SigOf, Operand(s, w))
<1>1. w \in Words /\ \/ w.kind = "reg" \/ w.kind \in {"hex2", "num"} \/ w.kind = "hex4"
                     \/ w.kind = "ref" /\ Named(w.val) # {}
  BY WordType DEF PlainWord, Known
<1>2. w.kind \in {"reg", "hex2", "num", "hex4"} => w.val \in Nat
  BY <1>1, WordType
<1>3. ASSUME NEW n \in Nat, NEW b \in {0, 1}
      PROVE  LET o == <<[sig |-> b, byte |-> n]>>
             IN  o \in Seq(Opd) /\ Mapped(ByteOf, o) = <<n>> /\ Mapped(SigOf, o) = <<b>>
  BY DEF Mapped, ByteOf, SigOf, Opd
<1>4. ASSUME NEW n \in Nat
      PROVE  Addr(n) \in Seq(Opd) /\ Mapped(ByteOf, Addr(n)) = Word2(n) /\ Mapped(SigOf, Addr(n)) = <<0, 0>>
  <2>1. PICK p \in Nat, q \in Nat : p = n % 256 /\ q = n \div 256
    OBVIOUS
  <2>2. Addr(n) = <<[sig |-> 0, byte |-> p], [sig |-> 0, byte |-> q]>> /\ Word2(n) = <<p, q>>
    BY <2>1 DEF Addr, I, Word2
  <2>3. PICK o : o = <<[sig |-> 0, byte |-> p], [sig |-> 0, byte |-> q]>>
    OBVIOUS
  <2>4. o \in Seq(Opd) /\ Len(o) = 2 /\ DOMAIN o = 1 .. 2
    BY <2>3 DEF Opd
  <2>5. \A k \in 1 .. 2 : o[k] \in Opd /\ o[k].sig = 0
    BY <2>3 DEF Opd
  <2>6. Mapped(ByteOf, o) = <<p, q>>
    BY <2>3, <2>4, <2>5 DEF Mapped, ByteOf
  <2>7. Mapped(SigOf, o) = <<0, 0>>
    BY <2>3, <2>4, <2>5 DEF Mapped, SigOf
  <2> QED
    BY <2>2, <2>3, <2>4, <2>6, <2>7
<1>5. CASE w.kind = "reg"
  <2>1. Bytes(w, FALSE) = <<w.val>> /\ operandsig(w) = <<1>> /\ Operand(s, w) = <<[sig |-> 1, byte |-> w.val]>>
    BY <1>5 DEF Bytes, operandsig, Operand, R
  <2> QED
    BY <1>2, <1>3, <1>5, <2>1
<1>6. CASE w.kind \in {"hex2", "num"}
  <2>1. w.val % 256 \in Nat
    BY <1>2, <1>6
  <2>2. /\ Bytes(w, FALSE) = <<w.val % 256>> /\ operandsig(w) = <<0>>
        /\ Operand(s, w) = <<[sig |-> 0, byte |-> w.val % 256]>>
    BY <1>6 DEF Bytes, operandsig, Operand, I
  <2>3. PICK n \in Nat : n = w.val % 256
    BY <2>1
  <2>4. Bytes(w, FALSE) = <<n>> /\ operandsig(w) = <<0>> /\ Operand(s, w) = <<[sig |-> 0, byte |-> n]>>
    BY <2>2, <2>3
  <2> QED
    BY <1>3, <2>4
<1>7. CASE w.kind = "hex4"
  <2>1. Bytes(w, FALSE) = Word2(w.val) /\ operandsig(w) = <<0, 0>> /\ Operand(s, w) = Addr(w.val)
    BY <1>7 DEF Bytes, operandsig, Operand
  <2> QED
    BY <1>2, <1>4, <1>7, <2>1
<1>8. CASE w.kind = "ref" /\ Named(w.val) # {}
  <2>1. insertSymbolAddress(w.val) \in Nat
    BY <1>8, AddressOf
  <2>2. PICK n \in Nat : n = insertSymbolAddress(w.val) /\ n = Meaning(s, w.val)
    BY <1>8, <2>1
  <2>3. Bytes(w, FALSE) = Word2(n) /\ operandsig(w) = <<0, 0>> /\ Operand(s, w) = Addr(n)
    BY <1>8, <2>2 DEF Bytes, operandsig, Operand
  <2> QED
    BY <1>4, <2>3
<1> QED
  BY <1>1, <1>5, <1>6, <1>7, <1>8

LEMMA WhetherString == IsString \in BOOLEAN /\ (~IsString => IsString = FALSE) /\ (IsString => IsString = TRUE)
BY DEF IsString, IsStr

(* The bytes of an operand of an instruction.                              *)
Plainly(w) == Bytes(w, FALSE)

Signature(s) == FlattenSeq([k \in DOMAIN s |-> operandsig(s[k])])

LEMMA CodeWidth ==
  ASSUME SymbolsType, NEW s \in Seq(Words), ~IsString,
         \A k \in 1 .. Len(s) : PlainWord(s[k]) /\ Known(s[k], FALSE)
  PROVE  /\ Code(s) \in Seq(Nat) /\ Len(Code(s)) = Widths(s, Len(s))
         /\ Signature(s) \in Seq({0, 1}) /\ Len(Signature(s)) = Widths(s, Len(s))
<1>0. PICK n \in Nat : n = Len(s) /\ DOMAIN s = 1 .. n
  OBVIOUS
<1> DEFINE bytes == [k \in 1 .. n |-> Plainly(s[k])]
           sigs  == [k \in 1 .. n |-> operandsig(s[k])]
           B == Seq(Nat)
           G == Seq({0, 1})
<1>1. \A k \in 1 .. n : /\ Plainly(s[k]) \in B /\ Len(Plainly(s[k])) = Width(s[k])
                        /\ operandsig(s[k]) \in G /\ Len(operandsig(s[k])) = Width(s[k])
  BY <1>0, OperandWidth DEF Plainly
<1>2. Code(s) = FlattenSeq(bytes)
  <2>1. IsString = FALSE
    BY WhetherString
  <2> QED
    BY <1>0, <2>1 DEF Code, Plainly
<1>3. Signature(s) = FlattenSeq(sigs)
  BY <1>0 DEF Signature
<1>4. bytes \in Seq(B) /\ Len(bytes) = n
  <2> HIDE DEF B, G
  <2>1. \A k \in 1 .. n : Plainly(s[k]) \in B
    BY <1>1
  <2> QED
    BY <2>1
<1>5. sigs \in Seq(G) /\ Len(sigs) = n
  <2> HIDE DEF B, G
  <2>1. \A k \in 1 .. n : operandsig(s[k]) \in G
    BY <1>1
  <2> QED
    BY <2>1
<1>6. /\ [k \in 1 .. n |-> Len(bytes[k])] = [k \in 1 .. n |-> Width(s[k])]
      /\ [k \in 1 .. n |-> Len(sigs[k])] = [k \in 1 .. n |-> Width(s[k])]
  BY <1>1
<1> HIDE DEF bytes, sigs
<1>7. FlattenSeq(bytes) \in Seq(Nat) /\ FlattenSeq(sigs) \in Seq({0, 1})
  BY <1>4, <1>5, FlattenType
<1>8. Len(FlattenSeq(bytes)) = Total([k \in 1 .. n |-> Len(bytes[k])])
  <2>1. Len(FlattenSeq(bytes)) = Total([k \in 1 .. Len(bytes) |-> Len(bytes[k])])
    BY <1>4, LengthOfFlat
  <2> QED
    BY <1>4, <2>1
<1>9. Len(FlattenSeq(sigs)) = Total([k \in 1 .. n |-> Len(sigs[k])])
  <2>1. Len(FlattenSeq(sigs)) = Total([k \in 1 .. Len(sigs) |-> Len(sigs[k])])
    BY <1>5, LengthOfFlat
  <2> QED
    BY <1>5, <2>1
<1> QED
  BY <1>0, <1>2, <1>3, <1>6, <1>7, <1>8, <1>9 DEF Widths

(* The operands in front of the first of no known form.                    *)
LEMMA ThroughOf ==
  ASSUME input \in Seq(Words)
  PROVE  \E n \in 0 .. Len(input) :
           /\ Through = SubSeq(input, 1, n)
           /\ \A k \in 1 .. n : Known(input[k], IsString)
           /\ IF Unknown = {} THEN n = Len(input) ELSE n < Len(input)
<1>0. Len(input) \in Nat /\ DOMAIN input = 1 .. Len(input)
  OBVIOUS
<1>1. CASE Unknown = {}
  <2>1. Through = SubSeq(input, 1, Len(input))
    BY <1>1, SubSeqFull DEF Through
  <2>2. \A k \in 1 .. Len(input) : Known(input[k], IsString)
    BY <1>0, <1>1 DEF Unknown
  <2> QED
    <3>1. Len(input) \in 0 .. Len(input)
      BY <1>0
    <3> QED
      BY <1>1, <2>1, <2>2, <3>1, Zenon
<1>2. CASE Unknown # {}
  <2> DEFINE c == CHOOSE k \in Unknown : \A m \in Unknown : k <= m
  <2>1. Unknown \in SUBSET Nat /\ Unknown \subseteq 1 .. Len(input)
    BY <1>0 DEF Unknown
  <2>2. \E k \in Unknown : \A m \in Unknown : k <= m
    BY <1>2, <2>1, LeastMember
  <2>3. c \in Unknown /\ \A m \in Unknown : c <= m
    BY <2>2, Zenon
  <2>4. Through = SubSeq(input, 1, c - 1)
    BY <1>2 DEF Through
  <2> HIDE DEF c
  <2>5. c \in 1 .. Len(input) /\ c - 1 \in 0 .. Len(input) /\ c - 1 < Len(input)
    BY <1>0, <2>1, <2>3
  <2>6. ASSUME NEW k \in 1 .. c - 1
        PROVE  Known(input[k], IsString)
    <3>1. k \in DOMAIN input /\ ~(c <= k)
      BY <1>0, <2>5
    <3> QED
      BY <2>3, <3>1 DEF Unknown
  <2> QED
    BY <1>2, <2>4, <2>5, <2>6
<1> QED
  BY <1>1, <1>2

LEMMA ParametersBound == \A n \in 0 .. 30 : Parameters[n] \in 0 .. 3
BY DEF Parameters

-----------------------------------------------------------------------------
(* The line the second pass assembles.                                     *)

PlainOperands(l) == \A k \in 1 .. Len(Operands(l)) :
                      PlainWord(Operands(l)[k]) /\ (IsStr(l) => Operands(l)[k].kind = "text")

LEMMA InputOf ==
  ASSUME NEW l, line(Assembled) = l
  PROVE  input = Operands(l) /\ (IsString <=> IsStr(l)) /\ param(line(Assembled)) = Widths(Operands(l), Len(Operands(l)))
BY DEF input, IsString, param

(* The mnemonic in front of a line of code.                                *)
LEMMA OperationOf ==
  ASSUME NEW l \in Seq(Words), IsCode(l)
  PROVE  /\ 1 \in 1 .. Len(l) /\ l[1] \in Words
         /\ l[1].kind = "op" => l[1].val \in 0 .. STR
         /\ l[1].kind = "op" /\ ~IsStr(l) => l[1].val \in 0 .. 30 /\ Parameters[l[1].val] \in 0 .. 3
<1>1. PICK u \in Seq(Words) : u = Uncommented(l) /\ Len(u) <= Len(l)
  BY UncommentedOf
<1>2. u # <<>>
  BY <1>1 DEF IsCode
<1>3. 1 \in 1 .. Len(l)
  <2>1. Len(u) \in Nat \ {0}
    BY <1>2, EmptySeq
  <2>2. Len(l) \in Nat
    OBVIOUS
  <2> QED
    BY <1>1, <2>1, <2>2
<1>4. l[1] \in Words
  BY <1>3
<1>5. PICK w \in Words : w = l[1]
  BY <1>4
<1>6. w.kind = "op" => w.val \in 0 .. STR
  BY WordType
<1>7. w.kind = "op" /\ ~IsStr(l) => w.val # STR
  BY <1>1, <1>2, <1>5 DEF IsStr
<1>8. w.kind = "op" /\ ~IsStr(l) => w.val \in 0 .. 30
  BY <1>6, <1>7 DEF STR
<1> QED
  BY <1>3, <1>4, <1>5, <1>6, <1>8, ParametersBound

LEMMA InstructionEmitted ==
  ASSUME AssemblerAssumption, SymbolsType, NEW l \in Seq(Words), line(Assembled) = l,
         PlainOperands(l), IsCode(l), ~IsStr(l), enoughParam, Len(binary) \in Nat
  PROVE  /\ Unknown = {} => /\ Through = input /\ sig = Signature(Operands(l))
                            /\ Code(input) \in Seq(Nat) /\ Len(Emitted) = Size(l)
                            /\ sig \in Seq({0, 1})
         /\ Overruns => Len(binary) + Size(l) > UINT16_MAX
<1>1. input = Operands(l) /\ ~IsString /\ IsString = FALSE
  BY InputOf, WhetherString
<1>2. PICK o \in Seq(Words) : o = Operands(l)
  BY OperandsOf
<1>3. PICK n \in 0 .. Len(o) : /\ Through = SubSeq(o, 1, n)
                               /\ \A k \in 1 .. n : Known(o[k], FALSE)
                               /\ IF Unknown = {} THEN n = Len(o) ELSE n < Len(o)
  BY <1>1, <1>2, ThroughOf
<1>4. Len(o) \in Nat /\ n \in Nat /\ \A k \in 1 .. n : o[k] \in Words /\ PlainWord(o[k])
  BY <1>2 DEF PlainOperands
<1>5. PICK t : t = SubSeq(o, 1, n)
  OBVIOUS
<1>6. t \in Seq(Words) /\ Len(t) = n /\ \A k \in 1 .. n : t[k] = o[k]
  <2>1. \A k \in 1 .. n : o[k] \in Words
    BY <1>4
  <2>2. /\ t \in Seq(Words) /\ Len(t) = (IF 1 <= n THEN n - 1 + 1 ELSE 0)
        /\ \A k \in 1 .. n - 1 + 1 : t[k] = o[1 + k - 1]
    BY <1>4, <1>5, <2>1, SubSeqProperties
  <2>3. Len(t) = n
    BY <1>4, <2>2
  <2>4. \A k \in 1 .. n : k \in 1 .. n - 1 + 1 /\ 1 + k - 1 = k
    BY <1>4
  <2> QED
    BY <2>2, <2>3, <2>4
<1>7. /\ Code(t) \in Seq(Nat) /\ Len(Code(t)) = Widths(t, n)
      /\ Signature(t) \in Seq({0, 1}) /\ Len(Signature(t)) = Widths(t, n)
  <2>1. \A k \in 1 .. Len(t) : PlainWord(t[k]) /\ Known(t[k], FALSE)
    BY <1>3, <1>4, <1>6
  <2> QED
    BY <1>1, <1>6, <2>1, CodeWidth
<1>8. Widths(t, n) = Widths(o, n)
  BY <1>4, <1>6, WidthsSame
<1>9. Through = t /\ sig = Signature(t)
  BY <1>3, <1>5 DEF sig, Signature
<1>10. Len(Emitted) = 1 + Widths(o, n)
  <2>1. Emitted = <<Opcode>> \o Code(t)
    BY <1>1, <1>9 DEF Emitted
  <2>2. PICK c \in Seq(Nat) : c = Code(t)
    BY <1>7
  <2>3. Len(<<Opcode>> \o c) = 1 + Len(c)
    OBVIOUS
  <2> QED
    BY <1>7, <1>8, <2>1, <2>2, <2>3
<1>11. Size(l) = 1 + Widths(o, Len(o)) /\ Widths(o, Len(o)) <= 3 /\ Widths(o, Len(o)) \in Nat
  <2>1. Widths(o, Len(o)) \in 0 .. 3
    <3>1. l[1].kind = "op" /\ Widths(o, Len(o)) = Parameters[l[1].val]
      BY <1>1, <1>2, InputOf DEF enoughParam
    <3> QED
      BY <3>1, OperationOf
  <2> QED
    BY <1>2, <2>1, SizeOf
<1>12. ASSUME Unknown = {}
       PROVE  t = o
  <2>1. n = Len(o)
    BY <1>3, <1>12
  <2> QED
    BY <1>5, <2>1, SubSeqFull
<1>13. ASSUME Overruns
       PROVE  Len(binary) + Size(l) > UINT16_MAX
  <2>1. Widths(o, n) + (Len(o) - n) <= Widths(o, Len(o)) /\ Widths(o, n) \in Nat
    BY <1>4, WidthsGrow, WidthsStep
  <2>2. ~(Len(sig) + (IF Unknown = {} THEN 0 ELSE 1) > 3)
    <3>1. Len(sig) = Widths(o, n)
      BY <1>7, <1>8, <1>9
    <3>2. CASE Unknown = {}
      BY <1>3, <1>4, <1>11, <2>1, <3>1, <3>2
    <3>3. CASE Unknown # {}
      <4>1. n < Len(o)
        BY <1>3, <3>3
      <4> QED
        BY <1>4, <1>11, <2>1, <3>1, <3>3, <4>1
    <3> QED
      BY <3>2, <3>3
  <2>3. Len(binary) + Len(Emitted) > UINT16_MAX
    BY <1>13, <2>2 DEF Overruns
  <2>4. Len(Emitted) <= Size(l) /\ Len(Emitted) \in Nat
    BY <1>4, <1>10, <1>11, <2>1
  <2> QED
    BY <1>11, <2>3, <2>4 DEF AssemblerAssumption
<1>14. ASSUME Unknown = {}
       PROVE  /\ Through = input /\ sig = Signature(Operands(l))
              /\ Code(input) \in Seq(Nat) /\ Len(Emitted) = Size(l)
              /\ sig \in Seq({0, 1})
  <2>1. n = Len(o) /\ t = o /\ o = input
    BY <1>1, <1>2, <1>3, <1>12, <1>14
  <2>2. Through = input /\ Code(input) \in Seq(Nat)
    BY <1>7, <1>9, <2>1
  <2>3. sig = Signature(Operands(l)) /\ sig \in Seq({0, 1})
    BY <1>2, <1>7, <1>9, <2>1
  <2>4. Len(Emitted) = Size(l)
    BY <1>10, <1>11, <2>1
  <2> QED
    BY <2>2, <2>3, <2>4
<1> QED
  BY <1>13, <1>14

LEMMA FlattenOne ==
  ASSUME NEW T, NEW s \in Seq(T)
  PROVE  FlattenSeq(<<s>>) = s
<1>1. <<>> \in Seq(Seq(T)) /\ <<>> \in Seq(T)
  BY EmptySeq
<1>2. FlattenSeq(Append(<<>>, s)) = FlattenSeq(<<>>) \o s
  BY <1>1, FlattenAppend
<1>3. Append(<<>>, s) = <<s>> /\ <<>> \o s = s
  BY ConcatEmptySeq
<1> QED
  BY <1>2, <1>3, FlattenEmpty

LEMMA OneOperand ==
  ASSUME NEW l \in Seq(Words), PlainOperands(l), IsStr(l)
  PROVE  Widths(Operands(l), Len(Operands(l))) = 1 <=> Len(Operands(l)) = 1
<1>1. PICK o \in Seq(Words) : o = Operands(l)
  BY OperandsOf
<1>2. PICK n \in Nat : n = Len(o)
  BY <1>1
<1>3. Widths(o, 0) + (n - 0) <= Widths(o, n) /\ Widths(o, 0) = 0 /\ Widths(o, n) \in Nat
  BY <1>2, WidthsGrow, WidthsStep
<1>4. n = 0 => Widths(o, n) = 0
  BY <1>3
<1>5. ASSUME n = 1
      PROVE  Widths(o, n) = 1
  <2>1. o[1].kind = "text"
    BY <1>1, <1>2, <1>5 DEF PlainOperands
  <2>2. Width(o[1]) = 1
    BY <2>1 DEF Width
  <2>3. Widths(o, 0 + 1) = Widths(o, 0) + Width(o[0 + 1])
    BY WidthsStep
  <2> QED
    BY <1>3, <1>5, <2>2, <2>3
<1> QED
  BY <1>1, <1>2, <1>3, <1>4, <1>5

LEMMA StringEmitted ==
  ASSUME SymbolsType, NEW l \in Seq(Words), line(Assembled) = l,
         PlainOperands(l), IsCode(l), IsStr(l), enoughParam
  PROVE  /\ Len(Operands(l)) = 1 /\ Unknown = {}
         /\ Emitted = l[2].chars \o <<0>> /\ Emitted \in Seq(Nat) /\ Len(Emitted) = Size(l)
         /\ Len(sig) = 1
<1>1. input = Operands(l) /\ IsString /\ IsString = TRUE
  BY InputOf, WhetherString
<1>2. Len(Operands(l)) = 1
  <2>1. Widths(Operands(l), Len(Operands(l))) = 1
    BY <1>1, InputOf DEF enoughParam
  <2> QED
    BY <2>1, OneOperand
<1>3. PICK w \in Words : w = Operands(l)[1] /\ w = l[2]
  BY <1>2, StrOf
<1>4. w.kind = "text"
  <2>1. 1 \in 1 .. Len(Operands(l))
    BY <1>2
  <2> QED
    BY <1>3, <2>1 DEF PlainOperands
<1>5. PICK o \in Seq(Words) : o = Operands(l) /\ Len(o) = 1 /\ o[1] = w /\ DOMAIN o = 1 .. 1
  BY <1>2, <1>3, OperandsOf
<1>6. \A k \in 1 .. 1 : o[k] = w
  BY <1>5
<1>7. Unknown = {}
  BY <1>1, <1>4, <1>5, <1>6 DEF Unknown, Known
<1>8. Through = o
  BY <1>1, <1>5, <1>7 DEF Through
<1>9. w.chars \in Seq(Nat)
  BY WordType
<1>10. PICK b \in Seq(Nat) : b = w.chars \o <<0>> /\ Len(b) = Len(w.chars) + 1
  <2>1. <<0>> \in Seq(Nat) /\ Len(<<0>>) = 1
    OBVIOUS
  <2>2. w.chars \o <<0>> \in Seq(Nat) /\ Len(w.chars \o <<0>>) = Len(w.chars) + Len(<<0>>)
    BY <1>9, <2>1, ConcatProperties
  <2> QED
    BY <2>1, <2>2
<1>11. \A k \in 1 .. 1 : Bytes(o[k], TRUE) = b
  BY <1>4, <1>6, <1>10 DEF Bytes
<1>12. Code(o) = b
  <2>1. Code(o) = FlattenSeq([k \in DOMAIN o |-> Bytes(o[k], TRUE)])
    BY <1>1 DEF Code
  <2>2. [k \in DOMAIN o |-> Bytes(o[k], TRUE)] = <<b>>
    <3>1. <<b>> = [k \in 1 .. 1 |-> b]
      OBVIOUS
    <3> QED
      BY <1>5, <1>11, <3>1
  <2> QED
    BY <2>1, <2>2, FlattenOne
<1>13. Emitted = b
  <2>1. <<>> \o b = b
    BY ConcatEmptySeq
  <2> QED
    BY <1>1, <1>8, <1>12, <2>1 DEF Emitted
<1>14. Len(sig) = 1
  <2>1. operandsig(w) = <<1>>
    BY <1>4 DEF operandsig
  <2>2. sig = FlattenSeq([k \in DOMAIN o |-> operandsig(o[k])])
    BY <1>8 DEF sig
  <2>3. [k \in DOMAIN o |-> operandsig(o[k])] = <<<<1>>>>
    <3>1. \A k \in 1 .. 1 : operandsig(o[k]) = <<1>>
      BY <1>5, <2>1
    <3>2. <<<<1>>>> = [k \in 1 .. 1 |-> <<1>>]
      OBVIOUS
    <3> QED
      BY <1>5, <3>1, <3>2
  <2>4. <<1>> \in Seq(Nat) /\ Len(<<1>>) = 1
    OBVIOUS
  <2> QED
    BY <2>2, <2>3, <2>4, FlattenOne
<1>15. Size(l) = Len(w.chars) + 1
  BY <1>2, <1>3, SizeOf
<1> QED
  BY <1>2, <1>3, <1>7, <1>10, <1>13, <1>14, <1>15

LEMMA FrontWidth ==
  ASSUME SymbolsType, NEW s \in Seq(Words), ~IsString,
         \A k \in 1 .. Len(s) : PlainWord(s[k]) /\ Known(s[k], FALSE),
         NEW n \in 0 .. Len(s)
  PROVE  Len(Code(SubSeq(s, 1, n))) = Widths(s, n)
<1>0. Len(s) \in Nat /\ n \in Nat
  OBVIOUS
<1>1. PICK t : t = SubSeq(s, 1, n)
  OBVIOUS
<1>2. t \in Seq(Words) /\ Len(t) = n /\ \A k \in 1 .. n : t[k] = s[k]
  <2>1. \A k \in 1 .. n : s[k] \in Words
    BY <1>0
  <2>2. /\ t \in Seq(Words) /\ Len(t) = (IF 1 <= n THEN n - 1 + 1 ELSE 0)
        /\ \A k \in 1 .. n - 1 + 1 : t[k] = s[1 + k - 1]
    BY <1>0, <1>1, <2>1, SubSeqProperties
  <2>3. Len(t) = n
    BY <1>0, <2>2
  <2>4. \A k \in 1 .. n : k \in 1 .. n - 1 + 1 /\ 1 + k - 1 = k
    BY <1>0
  <2> QED
    BY <2>2, <2>3, <2>4
<1>3. ASSUME NEW k \in 1 .. Len(t)
      PROVE  PlainWord(t[k]) /\ Known(t[k], FALSE)
  <2>1. k \in 1 .. Len(s) /\ t[k] = s[k]
    BY <1>0, <1>2
  <2> QED
    BY <2>1, Zenon
<1>4. Len(Code(t)) = Widths(t, n)
  BY <1>2, <1>3, CodeWidth
<1> QED
  BY <1>0, <1>1, <1>2, <1>4, WidthsSame

RelocatedBy(s, n) == IF IsCode(s[n]) /\ ~IsStr(s[n]) THEN References(s, n) ELSE <<>>

LEMMA Relocations ==
  ASSUME SymbolsType, NEW n, NEW l \in Seq(Words), src[n] = l, line(Assembled) = l,
         PlainOperands(l), IsCode(l), enoughParam, Unknown = {},
         Len(binary) = Offset(src, n)
  PROVE  Relocated = RelocatedBy(src, n)
<1>1. PICK o \in Seq(Words) : o = Operands(l) /\ o = input /\ DOMAIN o = 1 .. Len(o)
  BY OperandsOf, InputOf
<1>2. CASE ~IsStr(l)
  <2>1. ~IsString /\ IsString = FALSE
    BY <1>2, InputOf, WhetherString
  <2>2. \A k \in 1 .. Len(o) : PlainWord(o[k]) /\ Known(o[k], FALSE)
    BY <1>1, <2>1 DEF PlainOperands, Unknown
  <2>3. ASSUME NEW k \in 1 .. Len(o)
        PROVE  Len(Code(SubSeq(o, 1, k - 1))) = Widths(o, k - 1)
    <3>1. PICK m \in 0 .. Len(o) : m = k - 1
      OBVIOUS
    <3> QED
      BY <2>1, <2>2, <3>1, FrontWidth
  <2>4. Relocated =
          FlattenSeq([k \in 1 .. Len(o) |->
                        IF o[k].kind = "ref"
                        THEN <<Len(binary) + 1 + Len(Code(SubSeq(o, 1, k - 1)))>> ELSE <<>>])
    BY <1>1, <2>1 DEF Relocated
  <2>5. References(src, n) =
          FlattenSeq([k \in 1 .. Len(o) |->
                        IF o[k].kind = "ref"
                        THEN <<Offset(src, n) + 1 + Widths(o, k - 1)>> ELSE <<>>])
    BY <1>1 DEF References
  <2>6. [k \in 1 .. Len(o) |-> IF o[k].kind = "ref"
                               THEN <<Len(binary) + 1 + Len(Code(SubSeq(o, 1, k - 1)))>> ELSE <<>>]
        = [k \in 1 .. Len(o) |-> IF o[k].kind = "ref"
                                 THEN <<Offset(src, n) + 1 + Widths(o, k - 1)>> ELSE <<>>]
    BY <2>3
  <2> QED
    BY <1>2, <2>4, <2>5, <2>6 DEF RelocatedBy
<1>3. CASE IsStr(l)
  <2>1. IsString /\ Len(o) = 1
    BY <1>1, <1>3, InputOf, StringEmitted
  <2>2. Relocated = FlattenSeq([k \in 1 .. 1 |-> <<>>])
    BY <1>1, <2>1 DEF Relocated
  <2>3. [k \in 1 .. 1 |-> <<>>] = <<<<>>>> /\ <<>> \in Seq(Nat)
    OBVIOUS
  <2> QED
    BY <1>3, <2>2, <2>3, FlattenOne DEF RelocatedBy
<1> QED
  BY <1>2, <1>3

LEMMA InstructionMeant ==
  ASSUME AssemblerAssumption, SymbolsType, NEW s, NEW l \in Seq(Words), line(Assembled) = l,
         PlainOperands(l), IsCode(l), ~IsStr(l), enoughParam, Unknown = {}, Len(binary) \in Nat,
         \A k \in 1 .. Len(Operands(l)) :
           Operands(l)[k].kind = "ref" =>
             insertSymbolAddress(Operands(l)[k].val) = Meaning(s, Operands(l)[k].val)
  PROVE  Emitted = Encoded(s, l)
<1>1. PICK o \in Seq(Words) : o = Operands(l) /\ o = input
  BY OperandsOf, InputOf
<1>2. PICK n \in Nat : n = Len(o) /\ DOMAIN o = 1 .. n
  BY <1>1
<1>3. ~IsString /\ IsString = FALSE
  BY InputOf, WhetherString
<1>4. \A k \in 1 .. n : PlainWord(o[k]) /\ Known(o[k], FALSE)
  BY <1>1, <1>2, <1>3 DEF PlainOperands, Unknown
<1>5. /\ Through = o /\ sig = Signature(o)
      /\ Code(o) \in Seq(Nat) /\ sig \in Seq({0, 1})
  BY <1>1, InstructionEmitted
<1> DEFINE ss == [k \in 1 .. n |-> Operand(s, o[k])]
           B  == Seq(Opd)
<1>6. \A k \in 1 .. n : /\ Operand(s, o[k]) \in B
                        /\ Plainly(o[k]) = Mapped(ByteOf, Operand(s, o[k]))
                        /\ operandsig(o[k]) = Mapped(SigOf, Operand(s, o[k]))
  <2> SUFFICES ASSUME NEW k \in 1 .. n
               PROVE  /\ Operand(s, o[k]) \in B
                      /\ Plainly(o[k]) = Mapped(ByteOf, Operand(s, o[k]))
                      /\ operandsig(o[k]) = Mapped(SigOf, Operand(s, o[k]))
    OBVIOUS
  <2>1. PICK w : w = o[k] /\ PlainWord(w) /\ Known(w, FALSE)
                 /\ (w.kind = "ref" => insertSymbolAddress(w.val) = Meaning(s, w.val))
    BY <1>1, <1>2, <1>4
  <2> QED
    BY <2>1, OperandMeant DEF Plainly
<1>7. ss \in Seq(B) /\ Len(ss) = n
  <2> HIDE DEF B
  <2>1. \A k \in 1 .. n : Operand(s, o[k]) \in B
    BY <1>6
  <2> QED
    BY <2>1
<1>8. /\ [k \in 1 .. n |-> Plainly(o[k])] = [k \in 1 .. n |-> Mapped(ByteOf, ss[k])]
      /\ [k \in 1 .. n |-> operandsig(o[k])] = [k \in 1 .. n |-> Mapped(SigOf, ss[k])]
  BY <1>6
<1>9. PICK f : f = FlattenSeq(ss)
  OBVIOUS
<1>10. f = FlattenSeq([k \in DOMAIN o |-> Operand(s, o[k])])
  BY <1>2, <1>9
<1> HIDE DEF ss
<1>11. f \in Seq(Opd)
  BY <1>7, <1>9, FlattenType
<1>12. ByteOf \in [Opd -> Nat] /\ SigOf \in [Opd -> {0, 1}]
  BY DEF ByteOf, SigOf, Opd
<1>13. Code(o) = Mapped(ByteOf, f)
  <2>1. Code(o) = FlattenSeq([k \in 1 .. n |-> Plainly(o[k])])
    BY <1>2, <1>3 DEF Code, Plainly
  <2>2. FlattenSeq([k \in 1 .. Len(ss) |-> Mapped(ByteOf, ss[k])]) = Mapped(ByteOf, FlattenSeq(ss))
    BY <1>7, <1>12, MappedFlat
  <2> QED
    BY <1>7, <1>8, <1>9, <2>1, <2>2
<1>14. sig = Mapped(SigOf, f)
  <2>1. sig = FlattenSeq([k \in 1 .. n |-> operandsig(o[k])])
    BY <1>2, <1>5 DEF Signature
  <2>2. FlattenSeq([k \in 1 .. Len(ss) |-> Mapped(SigOf, ss[k])]) = Mapped(SigOf, FlattenSeq(ss))
    BY <1>7, <1>12, MappedFlat
  <2> QED
    BY <1>7, <1>8, <1>9, <2>1, <2>2
<1>15. Code(o) = [k \in DOMAIN f |-> f[k].byte]
  <2>1. \A k \in DOMAIN f : ByteOf[f[k]] = f[k].byte
    BY <1>11 DEF ByteOf
  <2> QED
    BY <1>13, <2>1 DEF Mapped
<1>16. Len(sig) = Len(f) /\ \A k \in 1 .. Len(f) : sig[k] = f[k].sig
  <2>1. Len(sig) = Len(f) /\ Len(f) \in Nat /\ \A k \in 1 .. Len(f) : sig[k] = SigOf[f[k]]
    BY <1>11, <1>14, MappedOf
  <2>2. \A k \in 1 .. Len(f) : f[k] \in Opd
    BY <1>11
  <2> QED
    BY <2>1, <2>2 DEF SigOf
<1>17. Opcode = l[1].val + 32 * (IF 1 <= Len(f) THEN f[1].sig ELSE 0)
                  + 64 * (IF 2 <= Len(f) THEN f[2].sig ELSE 0) + 128 * (IF 3 <= Len(f) THEN f[3].sig ELSE 0)
  <2>1. ASSUME NEW k \in 1 .. 3
        PROVE  (IF k <= Len(sig) THEN sig[k] ELSE 0) = IF k <= Len(f) THEN f[k].sig ELSE 0
    <3>1. Len(f) \in Nat
      BY <1>11
    <3>2. k <= Len(f) => k \in 1 .. Len(f)
      BY <3>1
    <3> QED
      BY <1>16, <3>2
  <2>2. 1 \in 1 .. 3 /\ 2 \in 1 .. 3 /\ 3 \in 1 .. 3
    OBVIOUS
  <2>3. /\ (IF 1 <= Len(sig) THEN sig[1] ELSE 0) = IF 1 <= Len(f) THEN f[1].sig ELSE 0
        /\ (IF 2 <= Len(sig) THEN sig[2] ELSE 0) = IF 2 <= Len(f) THEN f[2].sig ELSE 0
        /\ (IF 3 <= Len(sig) THEN sig[3] ELSE 0) = IF 3 <= Len(f) THEN f[3].sig ELSE 0
    BY <2>1, <2>2
  <2>4. Opcode = line(Assembled)[1].val + 32 * (IF 1 <= Len(sig) THEN sig[1] ELSE 0)
                   + 64 * (IF 2 <= Len(sig) THEN sig[2] ELSE 0) + 128 * (IF 3 <= Len(sig) THEN sig[3] ELSE 0)
    BY DEF Opcode
  <2>5. line(Assembled) = l
    OBVIOUS
  <2> QED
    BY <2>3, <2>4, <2>5, Zenon
<1>18. Ins(l[1].val, f) = <<Opcode>> \o [k \in DOMAIN f |-> f[k].byte]
  BY <1>17, Zenon DEF Ins
<1>19. Encoded(s, l) = Ins(l[1].val, f)
  BY <1>1, <1>10 DEF Encoded
<1>20. Emitted = <<Opcode>> \o Code(o)
  BY <1>3, <1>5 DEF Emitted
<1>21. Emitted = Encoded(s, l)
  BY <1>15, <1>18, <1>19, <1>20, Zenon
<1> QED
  BY <1>21

-----------------------------------------------------------------------------
(* The symbols, as a function of the sequence that holds them.             *)

Symbol == [name : STRING, offset : Nat]

NamedIn(ss, x)   == {k \in DOMAIN ss : ss[k].name = x}
NamesIn(ss)      == {ss[k].name : k \in DOMAIN ss}
AddressIn(ss, x) == ss[CHOOSE k \in NamedIn(ss, x) : \A m \in NamedIn(ss, x) : k <= m].offset

LEMMA SymbolsNow ==
  /\ \A x : Named(x) = NamedIn(symbols, x) /\ insertSymbolAddress(x) = AddressIn(symbols, x)
  /\ \A x : Named(x) # {} <=> x \in NamesIn(symbols)
  /\ SymbolsType <=> symbols \in Seq(Symbol)
<1>1. \A x : Named(x) = NamedIn(symbols, x) /\ insertSymbolAddress(x) = AddressIn(symbols, x)
  BY Zenon DEF Named, NamedIn, insertSymbolAddress, AddressIn
<1>2. \A x : Named(x) # {} <=> x \in NamesIn(symbols)
  BY Zenon DEF Named, NamesIn
<1>3. SymbolsType <=> symbols \in Seq(Symbol)
  BY Zenon DEF SymbolsType, Symbol
<1> QED
  BY <1>1, <1>2, <1>3, Zenon

LEMMA SymbolOf ==
  ASSUME NEW ss \in Seq(Symbol), NEW k \in 1 .. Len(ss)
  PROVE  ss[k].name \in STRING /\ ss[k].offset \in Nat
<1>1. ss[k] \in Symbol
  BY ElementOfSeq
<1> QED
  BY <1>1 DEF Symbol

LEMMA AddressAt ==
  ASSUME NEW ss \in Seq(Symbol), NEW x, NEW k \in NamedIn(ss, x), \A m \in NamedIn(ss, x) : k <= m
  PROVE  AddressIn(ss, x) = ss[k].offset
<1> DEFINE c == CHOOSE h \in NamedIn(ss, x) : \A m \in NamedIn(ss, x) : h <= m
<1>1. c \in NamedIn(ss, x) /\ \A m \in NamedIn(ss, x) : c <= m
  OBVIOUS
<1>2. AddressIn(ss, x) = ss[c].offset
  BY DEF AddressIn
<1> HIDE DEF c
<1>3. c <= k /\ k <= c
  BY <1>1
<1>4. c \in Nat /\ k \in Nat
  BY <1>1 DEF NamedIn
<1>5. c = k
  BY <1>3, <1>4
<1> QED
  BY <1>2, <1>5

LEMMA AddressFound ==
  ASSUME NEW ss \in Seq(Symbol), NEW x \in NamesIn(ss)
  PROVE  \E k \in NamedIn(ss, x) : /\ \A m \in NamedIn(ss, x) : k <= m
                                   /\ AddressIn(ss, x) = ss[k].offset
<1>1. NamedIn(ss, x) \in SUBSET Nat /\ NamedIn(ss, x) # {}
  BY DEF NamedIn, NamesIn
<1>2. PICK k \in NamedIn(ss, x) : \A m \in NamedIn(ss, x) : k <= m
  BY <1>1, LeastMember
<1> QED
  BY <1>2, AddressAt

LEMMA SymbolAppended ==
  ASSUME NEW ss \in Seq(Symbol), NEW e \in Symbol
  PROVE  LET ts == Append(ss, e)
         IN  /\ ts \in Seq(Symbol)
             /\ NamesIn(ts) = NamesIn(ss) \cup {e.name}
             /\ \A x \in NamesIn(ss) : AddressIn(ts, x) = AddressIn(ss, x)
             /\ e.name \notin NamesIn(ss) => AddressIn(ts, e.name) = e.offset
<1>1. PICK ts : ts = Append(ss, e)
  OBVIOUS
<1>2. PICK n \in Nat : n = Len(ss) /\ DOMAIN ss = 1 .. n
  OBVIOUS
<1>3. /\ ts \in Seq(Symbol) /\ DOMAIN ts = 1 .. n + 1
      /\ ts[n + 1] = e /\ \A k \in 1 .. n : ts[k] = ss[k]
  <2>1. /\ ts \in Seq(Symbol) /\ Len(ts) = n + 1
        /\ \A k \in DOMAIN ts : ts[k] = IF k = n + 1 THEN e ELSE ss[k]
    BY <1>1, <1>2, AppendType
  <2>2. DOMAIN ts = 1 .. n + 1
    BY <2>1
  <2>3. n + 1 \in 1 .. n + 1 /\ \A k \in 1 .. n : k \in 1 .. n + 1 /\ k # n + 1
    OBVIOUS
  <2> QED
    BY <2>1, <2>2, <2>3
<1>4. 1 .. n + 1 = (1 .. n) \cup {n + 1} /\ \A k \in 1 .. n : k <= n + 1
  OBVIOUS
<1>5. NamesIn(ts) = NamesIn(ss) \cup {e.name}
  <2>1. \A x : x \in NamesIn(ts) <=> \E k \in 1 .. n + 1 : ts[k].name = x
    BY <1>3, Zenon DEF NamesIn
  <2>2. \A x : x \in NamesIn(ss) <=> \E k \in 1 .. n : ss[k].name = x
    BY <1>2, Zenon DEF NamesIn
  <2>3. \A x : x \in NamesIn(ts) <=> x \in NamesIn(ss) \/ x = e.name
    BY <1>3, <1>4, <2>1, <2>2
  <2> QED
    BY <2>3
<1>6. ASSUME NEW x \in NamesIn(ss)
      PROVE  AddressIn(ts, x) = AddressIn(ss, x)
  <2>1. PICK k \in NamedIn(ss, x) : /\ \A m \in NamedIn(ss, x) : k <= m
                                    /\ AddressIn(ss, x) = ss[k].offset
    BY AddressFound
  <2>2. k \in 1 .. n /\ ss[k].name = x
    BY <1>2 DEF NamedIn
  <2>3. k \in NamedIn(ts, x) /\ ts[k] = ss[k]
    BY <1>3, <1>4, <2>2 DEF NamedIn
  <2>4. \A m \in NamedIn(ts, x) : k <= m
    BY <1>2, <1>3, <1>4, <2>1, <2>2 DEF NamedIn
  <2> QED
    BY <1>3, <2>1, <2>3, <2>4, AddressAt
<1>7. ASSUME e.name \notin NamesIn(ss)
      PROVE  AddressIn(ts, e.name) = e.offset
  <2>1. \A k \in 1 .. n : ss[k].name # e.name
    BY <1>2, <1>7 DEF NamesIn
  <2>2. NamedIn(ts, e.name) = {n + 1}
    BY <1>3, <1>4, <2>1 DEF NamedIn
  <2>3. n + 1 \in NamedIn(ts, e.name) /\ \A m \in NamedIn(ts, e.name) : n + 1 <= m
    BY <2>2
  <2>4. AddressIn(ts, e.name) = ts[n + 1].offset
    BY <1>3, <2>3, AddressAt
  <2> QED
    BY <1>3, <2>4
<1> QED
  BY <1>1, <1>3, <1>5, <1>6, <1>7

-----------------------------------------------------------------------------
(* Sources: what the plain layout says of a line, and what the labels mean.*)

LEMMA PlainLine ==
  ASSUME NEW s \in Seq(Seq(Words)), Plain(s), NEW n \in 1 .. Len(s), NEW l, l = s[n],
         NEW u, u = Uncommented(l)
  PROVE  /\ l \in Seq(Words) /\ PlainOperands(l)
         /\ u \in Seq(Words) /\ Len(u) <= Len(l)
         /\ Len(u) < Len(l) => l[Len(u) + 1].kind = ";"
         /\ IsLabel(l) => Len(u) = 1 /\ ~IsCode(l) /\ (n < Len(s) => IsCode(s[n + 1]))
         /\ IsStr(l) => n > 1 /\ IsLabel(s[n - 1])
         /\ ~IsCode(l) /\ ~IsLabel(l) => Len(u) = 0
         /\ IsCode(l) => Len(u) >= 1 /\ ~IsLabel(l)
         /\ \A k \in 1 .. Len(u) : u[k] = l[k] /\ l[k].kind \notin {";", ";text"} /\ (k > 1 => l[k].kind # "label")
<1>1. l \in Seq(Words)
  OBVIOUS
<1>2. /\ u \in Seq(Words) /\ Len(u) <= Len(l) /\ Len(u) \in Nat
      /\ \A k \in 1 .. Len(u) : u[k] = l[k] /\ l[k].kind \notin {";", ";text"}
  <2>1. /\ u \in Seq(Words) /\ Len(u) <= Len(l)
        /\ \A k \in 1 .. Len(u) : u[k] = l[k] /\ ~IsRemark(l[k])
    BY <1>1, UncommentedOf
  <2>2. Len(u) \in Nat
    BY <2>1
  <2> QED
    BY <2>1, <2>2 DEF IsRemark
<1>3. /\ Len(u) < Len(l) => l[Len(u) + 1].kind = ";"
      /\ IsLabel(l) => Len(u) = 1 /\ (n < Len(s) => IsCode(s[n + 1]))
      /\ IsStr(l) => n > 1 /\ IsLabel(s[n - 1])
      /\ IsStr(l) => \A k \in 2 .. Len(u) : u[k].kind = "text"
      /\ \A k \in 2 .. Len(u) : u[k].kind \notin {"label", "wide"}
  <2>1. DOMAIN s = 1 .. Len(s)
    OBVIOUS
  <2> QED
    BY <2>1 DEF Plain
<1>4. ASSUME NEW k \in 1 .. Len(u)
      PROVE  k > 1 => l[k].kind # "label"
  <2>1. k > 1 => k \in 2 .. Len(u)
    <3>1. Len(u) \in Nat
      BY <1>2
    <3> QED
      BY <3>1
  <2> QED
    BY <1>2, <1>3, <2>1
<1>5. ((u = <<>>) <=> Len(u) = 0) /\ Len(u) \in Nat
  BY <1>2, EmptySeq
<1>6. ~IsCode(l) /\ ~IsLabel(l) => Len(u) = 0
  BY <1>5 DEF IsCode
<1>7. IsCode(l) => Len(u) >= 1 /\ ~IsLabel(l)
  BY <1>5 DEF IsCode
<1>8. PlainOperands(l)
  <2>1. PICK o \in Seq(Words) : o = Operands(l) /\ \A k \in 1 .. Len(o) : o[k] = l[k + 1] /\ k + 1 \in 2 .. Len(u)
    BY <1>1, OperandsOf
  <2>2. ASSUME NEW k \in 1 .. Len(o)
        PROVE  PlainWord(o[k]) /\ (IsStr(l) => o[k].kind = "text")
    <3>1. k + 1 \in 2 .. Len(u) /\ k + 1 \in 1 .. Len(u) /\ o[k] = l[k + 1] /\ o[k] \in Words
      <4>1. Len(u) \in Nat /\ k + 1 \in 2 .. Len(u)
        BY <1>2, <2>1
      <4> QED
        BY <2>1, <4>1
    <3>2. o[k] = u[k + 1] /\ o[k].kind \notin {";", ";text"}
      BY <1>2, <3>1
    <3>3. o[k].kind \notin {"label", "wide"} /\ (IsStr(l) => o[k].kind = "text")
      BY <1>3, <3>1, <3>2
    <3> QED
      BY <3>1, <3>2, <3>3 DEF PlainWord
  <2> QED
    BY <2>1, <2>2 DEF PlainOperands
<1> QED
  BY <1>1, <1>2, <1>3, <1>4, <1>6, <1>7, <1>8

Sound(s) == \A n \in DOMAIN s : IsCode(s[n]) =>
              /\ s[n][1].kind = "op"
              /\ IsStr(s[n]) => Len(Operands(s[n])) = 1

(* Sources whose offsets the first pass counts right: an operation in      *)
(* front of every line of code, one string behind str, and not too large.  *)
Good(s) == Sound(s) /\ SizeWithin(s, UINT16_MAX)

LEMMA ReferencesType ==
  ASSUME NEW s \in Seq(Seq(Words)), NEW n \in 1 .. Len(s)
  PROVE  References(s, n) \in Seq(Nat)
<1>1. PICK o \in Seq(Words) : o = Operands(s[n])
  <2>1. s[n] \in Seq(Words)
    OBVIOUS
  <2> QED
    BY <2>1, OperandsOf
<1>2. PICK m \in Nat : m = Len(o) /\ DOMAIN o = 1 .. m
  BY <1>1
<1> DEFINE g(k) == IF o[k].kind = "ref" THEN <<Offset(s, n) + 1 + Widths(o, k - 1)>> ELSE <<>>
           B == Seq(Nat)
           ss == [k \in 1 .. m |-> g(k)]
<1>3. ASSUME NEW k \in 1 .. m
      PROVE  g(k) \in B
  <2>1. k - 1 \in Nat
    BY <1>2
  <2>2. Offset(s, n) \in Nat /\ Widths(o, k - 1) \in Nat
    BY <2>1, OffsetStep, WidthsStep
  <2>3. PICK x \in Nat : x = Offset(s, n) + 1 + Widths(o, k - 1)
    BY <2>2
  <2>4. <<x>> \in Seq(Nat) /\ <<>> \in Seq(Nat)
    OBVIOUS
  <2> QED
    BY <2>3, <2>4
<1>4. ss \in Seq(B)
  <2> HIDE DEF B, g
  <2>1. \A k \in 1 .. m : g(k) \in B
    BY <1>3
  <2> QED
    BY <2>1
<1>5. References(s, n) = FlattenSeq(ss)
  BY <1>1, <1>2 DEF References
<1> HIDE DEF ss
<1> QED
  BY <1>4, <1>5, FlattenType

LEMMA RelocatedByType ==
  ASSUME NEW s \in Seq(Seq(Words)), NEW n \in 1 .. Len(s)
  PROVE  RelocatedBy(s, n) \in Seq(Nat)
<1>1. <<>> \in Seq(Nat)
  OBVIOUS
<1> QED
  BY <1>1, ReferencesType DEF RelocatedBy

LEMMA RelocationsType ==
  ASSUME NEW s \in Seq(Seq(Words))
  PROVE  RelocationsOf(s) \in Seq(Nat)
<1> DEFINE B == Seq(Nat)
           ss == [n \in 1 .. Len(s) |-> RelocatedBy(s, n)]
<1>1. Len(s) \in Nat /\ DOMAIN s = 1 .. Len(s) /\ \A n \in 1 .. Len(s) : RelocatedBy(s, n) \in B
  BY RelocatedByType
<1>2. ss \in Seq(B)
  <2> HIDE DEF B
  <2>1. PICK m \in Nat : m = Len(s)
    BY <1>1
  <2> QED
    BY <1>1, <2>1
<1>3. RelocationsOf(s) = FlattenSeq(ss)
  BY <1>1 DEF RelocationsOf, RelocatedBy
<1> HIDE DEF ss
<1> QED
  BY <1>2, <1>3, FlattenType

LEMMA GoodOffset ==
  ASSUME AssemblerAssumption, NEW s \in Seq(Seq(Words)), Good(s), NEW n \in 1 .. Len(s) + 1
  PROVE  Offset(s, n) \in Nat /\ Offset(s, n) < NoMain /\ NoMain = UINT16_MAX
<1>1. Len(RelocationsOf(s)) \in Nat
  <2>1. RelocationsOf(s) \in Seq(Nat)
    BY RelocationsType
  <2> QED
    BY <2>1
<1>2. 8 + 2 * Len(RelocationsOf(s)) + Offset(s, Len(s) + 1) <= UINT16_MAX
  BY DEF Good, SizeWithin, HEADER
<1>3. Len(s) \in Nat
  OBVIOUS
<1>4. Len(s) + 1 \in n .. Len(s) + 1
  BY <1>3
<1>5. Offset(s, n) \in Nat /\ Offset(s, Len(s) + 1) \in Nat /\ Offset(s, n) <= Offset(s, Len(s) + 1)
  BY <1>4, OffsetGrows
<1> QED
  BY <1>1, <1>2, <1>5 DEF NoMain, AssemblerAssumption

-----------------------------------------------------------------------------
(* The labels the first pass has come to, in the symbols.                  *)

LabelsTo(s, n) == {m \in Labels(s) : m < n}

FirstIn(s, S, n) == n \in S /\ \A m \in S : s[m][1].val = s[n][1].val => n <= m

Recorded(s, ss, main, S) ==
  /\ NamesIn(ss) = {s[n][1].val : n \in S}
  /\ main # NoMain => "main" \in NamesIn(ss)

Resolved(s, ss, main, S) ==
  /\ \A n \in S : FirstIn(s, S, n) => AddressIn(ss, s[n][1].val) = Offset(s, n)
  /\ main = IF "main" \in NamesIn(ss) THEN AddressIn(ss, "main") ELSE NoMain

LEMMA FirstExists ==
  ASSUME NEW s, NEW S \in SUBSET Nat, NEW n \in S
  PROVE  \E f \in S : FirstIn(s, S, f) /\ s[f][1].val = s[n][1].val
<1> DEFINE V == {m \in S : s[m][1].val = s[n][1].val}
<1>1. V \in SUBSET Nat /\ V # {}
  OBVIOUS
<1>2. PICK f \in V : \A m \in V : f <= m
  <2> HIDE DEF V
  <2> QED
    BY <1>1, LeastMember
<1> QED
  BY <1>2 DEF FirstIn

LEMMA LabelsOf ==
  ASSUME NEW s \in Seq(Seq(Words))
  PROVE  /\ Labels(s) \in SUBSET Nat
         /\ \A n : n \in Labels(s) <=> n \in 1 .. Len(s) /\ IsLabel(s[n])
         /\ \A n \in Labels(s) : s[n][1].val \in STRING
<1>1. DOMAIN s = 1 .. Len(s) /\ Len(s) \in Nat
  OBVIOUS
<1>2. ASSUME NEW n \in 1 .. Len(s), IsLabel(s[n])
      PROVE  s[n][1].val \in STRING
  <2>1. PICK l \in Seq(Words) : l = s[n] /\ l # <<>> /\ l[1].kind = "label"
    BY <1>2 DEF IsLabel
  <2>2. 1 \in 1 .. Len(l)
    BY <2>1, EmptySeq
  <2>3. PICK w \in Words : w = l[1]
    BY <2>2
  <2> QED
    BY <2>1, <2>3, WordType
<1> QED
  BY <1>1, <1>2 DEF Labels

LEMMA Meant ==
  ASSUME NEW s \in Seq(Seq(Words)), NEW ss, NEW main,
         Recorded(s, ss, main, Labels(s)), NEW x
  PROVE  /\ x \in NamesIn(ss) <=> Defined(s, x)
         /\ Resolved(s, ss, main, Labels(s)) /\ x \in NamesIn(ss) => AddressIn(ss, x) = Meaning(s, x)
         /\ Defined(s, x) => \E n \in Labels(s) : Meaning(s, x) = Offset(s, n)
<1>1. x \in NamesIn(ss) <=> Defined(s, x)
  BY DEF Recorded, Defined
<1>2. ASSUME Defined(s, x)
      PROVE  /\ Resolved(s, ss, main, Labels(s)) => AddressIn(ss, x) = Meaning(s, x)
             /\ \E n \in Labels(s) : Meaning(s, x) = Offset(s, n)
  <2>1. PICK n \in Labels(s) : s[n][1].val = x
    BY <1>2 DEF Defined
  <2>2. PICK f \in Labels(s) : FirstIn(s, Labels(s), f) /\ s[f][1].val = x
    BY <2>1, LabelsOf, FirstExists
  <2>3. f \in Labels(s) /\ s[f][1].val = x /\ \A m \in Labels(s) : s[m][1].val = x => f <= m
    BY <2>2 DEF FirstIn
  <2> DEFINE c == CHOOSE h \in Labels(s) : /\ s[h][1].val = x
                                           /\ \A m \in Labels(s) : s[m][1].val = x => h <= m
  <2>4. c \in Labels(s) /\ s[c][1].val = x /\ \A m \in Labels(s) : s[m][1].val = x => c <= m
    BY <2>3, Zenon
  <2>5. Meaning(s, x) = Offset(s, c)
    BY DEF Meaning
  <2> HIDE DEF c
  <2>6. FirstIn(s, Labels(s), c)
    BY <2>4 DEF FirstIn
  <2>7. Resolved(s, ss, main, Labels(s)) => AddressIn(ss, x) = Offset(s, c)
    BY <2>4, <2>6 DEF Resolved
  <2> QED
    BY <2>4, <2>5, <2>7
<1> QED
  BY <1>1, <1>2

(* One label more, with the offset r.                                      *)
LEMMA OneMore ==
  ASSUME NEW s \in Seq(Seq(Words)), NEW n \in 1 .. Len(s), IsLabel(s[n])
  PROVE  /\ LabelsTo(s, n + 1) = LabelsTo(s, n) \cup {n}
         /\ LabelsTo(s, n) \in SUBSET Nat /\ n \notin LabelsTo(s, n)
         /\ \A m \in LabelsTo(s, n) : m < n
BY LabelsOf DEF LabelsTo

LEMMA NoneMore ==
  ASSUME NEW s \in Seq(Seq(Words)), NEW n \in 1 .. Len(s), ~IsLabel(s[n])
  PROVE  LabelsTo(s, n + 1) = LabelsTo(s, n)
BY LabelsOf DEF LabelsTo

LEMMA AllLabels ==
  ASSUME NEW s \in Seq(Seq(Words)), NEW n \in Nat, n > Len(s)
  PROVE  LabelsTo(s, n) = Labels(s)
BY LabelsOf DEF LabelsTo

LEMMA LabelRecorded ==
  ASSUME NEW s \in Seq(Seq(Words)), NEW n \in 1 .. Len(s), IsLabel(s[n]),
         NEW ss \in Seq(Symbol), NEW r \in Nat, NEW main,
         Recorded(s, ss, main, LabelsTo(s, n)),
         NEW ts, ts = Append(ss, [name |-> s[n][1].val, offset |-> r]),
         NEW then, then = IF main = NoMain /\ s[n][1].val = "main" THEN r ELSE main
  PROVE  ts \in Seq(Symbol) /\ Recorded(s, ts, then, LabelsTo(s, n + 1))
<1> DEFINE S == LabelsTo(s, n)
<1>1. PICK x : x = s[n][1].val
  OBVIOUS
<1>2. PICK e \in Symbol : e = [name |-> x, offset |-> r]
  <2>1. x \in STRING
    BY <1>1, LabelsOf
  <2> QED
    BY <2>1 DEF Symbol
<1>3. ts \in Seq(Symbol) /\ NamesIn(ts) = NamesIn(ss) \cup {x}
  BY <1>1, <1>2, SymbolAppended
<1>4. LabelsTo(s, n + 1) = S \cup {n}
  BY OneMore
<1> HIDE DEF S
<1>5. NamesIn(ss) = {s[m][1].val : m \in S} /\ (main # NoMain => "main" \in NamesIn(ss))
  BY DEF Recorded, S
<1>6. NamesIn(ts) = {s[m][1].val : m \in S \cup {n}}
  BY <1>1, <1>3, <1>5
<1>7. then # NoMain => "main" \in NamesIn(ts)
  BY <1>1, <1>3, <1>5
<1> QED
  BY <1>3, <1>4, <1>6, <1>7 DEF Recorded

LEMMA LabelResolved ==
  ASSUME AssemblerAssumption, NEW s \in Seq(Seq(Words)), Good(s), NEW n \in 1 .. Len(s), IsLabel(s[n]),
         NEW ss \in Seq(Symbol), NEW r \in Nat, NEW main,
         Recorded(s, ss, main, LabelsTo(s, n)), Resolved(s, ss, main, LabelsTo(s, n)),
         r = Offset(s, n),
         NEW ts, ts = Append(ss, [name |-> s[n][1].val, offset |-> r]),
         NEW then, then = IF main = NoMain /\ s[n][1].val = "main" THEN r ELSE main
  PROVE  Resolved(s, ts, then, LabelsTo(s, n + 1))
<1> DEFINE S == LabelsTo(s, n)
<1>1. PICK x : x = s[n][1].val
  OBVIOUS
<1>2. PICK e \in Symbol : e = [name |-> x, offset |-> r]
  <2>1. x \in STRING
    BY <1>1, LabelsOf
  <2> QED
    BY <2>1 DEF Symbol
<1>3. /\ NamesIn(ts) = NamesIn(ss) \cup {x}
      /\ \A y \in NamesIn(ss) : AddressIn(ts, y) = AddressIn(ss, y)
      /\ x \notin NamesIn(ss) => AddressIn(ts, x) = r
  BY <1>1, <1>2, SymbolAppended
<1>4. LabelsTo(s, n + 1) = S \cup {n} /\ S \in SUBSET Nat /\ \A m \in S : m < n
  BY OneMore
<1> HIDE DEF S
<1>5. /\ \A y : y \in NamesIn(ss) <=> \E m \in S : s[m][1].val = y
      /\ \A m \in S : FirstIn(s, S, m) => AddressIn(ss, s[m][1].val) = Offset(s, m)
      /\ main = IF "main" \in NamesIn(ss) THEN AddressIn(ss, "main") ELSE NoMain
  BY DEF Recorded, Resolved, S
<1>6. ASSUME NEW m \in S \cup {n}, FirstIn(s, S \cup {n}, m)
      PROVE  AddressIn(ts, s[m][1].val) = Offset(s, m)
  <2>1. CASE m \in S
    <3>1. FirstIn(s, S, m) /\ s[m][1].val \in NamesIn(ss)
      BY <1>5, <1>6, <2>1 DEF FirstIn
    <3> QED
      BY <1>3, <1>5, <2>1, <3>1
  <2>2. CASE m = n
    <3>1. \A h \in S : s[h][1].val # x
      <4>1. ASSUME NEW h \in S
            PROVE  ~(n <= h)
        <5>1. h < n /\ h \in Nat /\ n \in Nat
          BY <1>4
        <5> QED
          BY <5>1
      <4> QED
        BY <1>1, <1>6, <2>2, <4>1 DEF FirstIn
    <3> QED
      BY <1>1, <1>3, <1>5, <2>2, <3>1
  <2> QED
    BY <2>1, <2>2
<1>7. ASSUME "main" \in NamesIn(ss)
      PROVE  AddressIn(ss, "main") # NoMain
  <2>1. PICK m \in S : s[m][1].val = "main"
    BY <1>5, <1>7
  <2>2. PICK f \in S : FirstIn(s, S, f) /\ s[f][1].val = s[m][1].val
    BY <1>4, <2>1, FirstExists
  <2>3. AddressIn(ss, "main") = Offset(s, f)
    BY <1>5, <2>1, <2>2
  <2>4. f \in 1 .. Len(s) + 1
    <3>1. f \in Labels(s)
      BY <2>2 DEF S, LabelsTo
    <3>2. f \in 1 .. Len(s) /\ Len(s) \in Nat
      BY <3>1, LabelsOf
    <3> QED
      BY <3>2
  <2> QED
    BY <2>3, <2>4, GoodOffset DEF AssemblerAssumption
<1>8. then = IF "main" \in NamesIn(ts) THEN AddressIn(ts, "main") ELSE NoMain
  <2>1. CASE "main" \in NamesIn(ss)
    BY <1>3, <1>5, <1>7, <2>1
  <2>2. CASE "main" \notin NamesIn(ss) /\ x = "main"
    BY <1>1, <1>3, <1>5, <2>2
  <2>3. CASE "main" \notin NamesIn(ss) /\ x # "main"
    BY <1>1, <1>3, <1>5, <2>3
  <2> QED
    BY <2>1, <2>2, <2>3
<1> QED
  BY <1>4, <1>6, <1>8 DEF Resolved

-----------------------------------------------------------------------------
(* What the first pass has counted.                                        *)

LEMMA WrappedOf ==
  ASSUME AssemblerAssumption, NEW n \in Nat
  PROVE  Wrapped(n) \in Nat /\ (n <= UINT16_MAX => Wrapped(n) = n)
<1>1. PICK m \in Nat : m = UINT16_MAX + 1 /\ m > 0
  BY DEF AssemblerAssumption
<1>2. n % m \in 0 .. m - 1 /\ (n < m => n % m = n)
  BY <1>1
<1>3. n <= UINT16_MAX => n < m
  BY <1>1 DEF AssemblerAssumption
<1>4. Wrapped(n) = n % m
  BY <1>1 DEF Wrapped
<1> QED
  BY <1>2, <1>3, <1>4

(* What the first m words of a line count; of the word behind a label, the *)
(* label has counted it.                                                   *)
Passed(l, m) ==
  IF m = 0 THEN 0
  ELSE IF IsStr(l) THEN Len(l[2].chars) + m - 1 ELSE 1 + Widths(Operands(l), m - 1)

LEMMA PassedStep ==
  ASSUME NEW s \in Seq(Seq(Words)), Plain(s), Sound(s), NEW n \in 1 .. Len(s), NEW l, l = s[n], IsCode(l),
         NEW m \in 1 .. Len(Uncommented(l))
  PROVE  /\ Passed(l, m - 1) \in Nat
         /\ m > 1 \/ ~IsStr(l) => Passed(l, m) = Passed(l, m - 1) + Width(l[m])
         /\ Passed(l, m) \in Nat /\ Passed(l, m) <= Size(l)
         /\ m = Len(Uncommented(l)) => Passed(l, m) = Size(l)
<1>1. PICK u : u = Uncommented(l)
  OBVIOUS
<1>2. /\ l \in Seq(Words) /\ PlainOperands(l) /\ u \in Seq(Words) /\ Len(u) >= 1
  BY <1>1, PlainLine
<1>3. l[1].kind = "op" /\ (IsStr(l) => Len(Operands(l)) = 1)
  BY DEF Sound
<1>4. PICK o \in Seq(Words) : o = Operands(l) /\ Len(o) = Len(u) - 1 /\ Len(u) \in Nat
                              /\ \A k \in 1 .. Len(o) : o[k] = l[k + 1]
  <2>1. Len(u) \in Nat /\ Len(u) # 0
    BY <1>2
  <2> QED
    BY <1>1, <1>2, <2>1, OperandsOf
<1>5. m \in Nat /\ 1 <= m /\ m <= Len(u)
  BY <1>1, <1>4
<1>6. CASE IsStr(l)
  <2>1. Len(o) = 1 /\ Len(u) = 2 /\ 1 \in 1 .. Len(o)
    <3>1. Len(o) = 1 /\ Len(o) = Len(u) - 1 /\ Len(u) \in Nat
      BY <1>3, <1>4, <1>6
    <3>2. PICK p \in Nat : p = Len(u)
      BY <3>1
    <3>3. 1 = p - 1
      BY <3>1, <3>2
    <3>4. p = 2
      BY <3>3
    <3> QED
      BY <3>1, <3>2, <3>4
  <2>2. l[2].chars \in Seq(Nat) /\ o[1] = l[2]
    BY <1>2, <1>4, <2>1, StrOf, WordType
  <2>3. PICK c \in Nat : c = Len(l[2].chars)
    BY <2>2
  <2>4. Width(l[2]) = 1
    <3>1. o[1].kind = "text"
      BY <1>2, <1>4, <1>6, <2>1 DEF PlainOperands
    <3> QED
      BY <2>2, <3>1 DEF Width
  <2>5. Size(l) = c + 1
    BY <1>2, <1>4, <1>6, <2>1, <2>3, SizeOf
  <2>6. Passed(l, 0) = 0 /\ Passed(l, 1) = c /\ Passed(l, 2) = c + 1
    BY <1>6, <2>3 DEF Passed
  <2>7. CASE m = 1
    BY <1>1, <1>6, <2>1, <2>5, <2>6, <2>7
  <2>8. CASE m = 2
    BY <1>1, <2>1, <2>4, <2>5, <2>6, <2>8
  <2> QED
    BY <1>5, <2>1, <2>7, <2>8
<1>7. CASE ~IsStr(l)
  <2>1. \A k \in Nat : Passed(l, k) = IF k = 0 THEN 0 ELSE 1 + Widths(o, k - 1)
    BY <1>4, <1>7 DEF Passed
  <2>2. Size(l) = 1 + Widths(o, Len(o))
    BY <1>2, <1>4, <1>7, SizeOf
  <2>3. m - 1 \in 0 .. Len(o) /\ m - 1 \in Nat
    BY <1>4, <1>5
  <2>4. /\ Widths(o, m - 1) \in Nat /\ Widths(o, Len(o)) \in Nat
        /\ Widths(o, m - 1) + (Len(o) - (m - 1)) <= Widths(o, Len(o))
    BY <1>4, <2>3, WidthsStep, WidthsGrow
  <2>5. Passed(l, m) = 1 + Widths(o, m - 1)
    BY <1>5, <2>1
  <2>6. Passed(l, m) \in Nat /\ Passed(l, m) <= Size(l)
    BY <2>2, <2>3, <2>4, <2>5
  <2>7. m = Len(u) => Passed(l, m) = Size(l)
    BY <1>4, <2>2, <2>5
  <2>8. CASE m = 1
    <3>1. Passed(l, 0) = 0 /\ Widths(o, 0) = 0 /\ Width(l[1]) = 1
      BY <1>3, <2>1, WidthsStep DEF Width
    <3> QED
      BY <1>1, <2>5, <2>6, <2>7, <2>8, <3>1
  <2>9. CASE m # 1
    <3>1. PICK k \in Nat : m = k + 2 /\ k + 1 \in 1 .. Len(o) /\ m - 1 = k + 1 /\ k + 1 # 0
      <4>1. m - 2 \in Nat /\ m = (m - 2) + 2 /\ (m - 2) + 1 \in 1 .. Len(o)
        BY <1>4, <1>5, <2>9
      <4> QED
        BY <4>1
    <3>2. Widths(o, k + 1) = Widths(o, k) + Width(o[k + 1]) /\ o[k + 1] = l[(k + 1) + 1]
      BY <1>4, <3>1, WidthsStep
    <3>3. Passed(l, k + 1) = 1 + Widths(o, k) /\ Widths(o, k) \in Nat
      BY <2>1, <3>1, WidthsStep
    <3>4. (k + 1) + 1 = m /\ Width(l[m]) \in Nat
      BY <3>1, WidthType
    <3>5. PICK q \in Nat : q = Widths(o, k)
      BY <3>3
    <3>6. PICK w \in Nat : w = Width(l[m]) /\ Widths(o, k + 1) = q + w
      BY <3>2, <3>4, <3>5
    <3>7. Passed(l, m) = 1 + (q + w) /\ Passed(l, m - 1) = 1 + q
      BY <2>5, <3>1, <3>3, <3>5, <3>6
    <3>8. PICK p \in Nat : p = 1 + q
      OBVIOUS
    <3>9. 1 + (q + w) = p + w
      BY <3>8
    <3>10. Passed(l, m) = Passed(l, m - 1) + Width(l[m]) /\ Passed(l, m - 1) \in Nat
      BY <3>6, <3>7, <3>8, <3>9, Zenon
    <3> QED
      BY <1>1, <2>6, <2>7, <3>10, Zenon
  <2> QED
    BY <2>8, <2>9
<1> QED
  BY <1>6, <1>7

LEMMA PassedAll ==
  ASSUME NEW s \in Seq(Seq(Words)), Plain(s), Sound(s), NEW n \in 1 .. Len(s), NEW l, l = s[n], ~IsLabel(l)
  PROVE  Passed(l, Len(Uncommented(l))) = Size(l)
<1>1. PICK u : u = Uncommented(l)
  OBVIOUS
<1>2. l \in Seq(Words) /\ u \in Seq(Words) /\ (IsCode(l) => Len(u) >= 1) /\ (~IsCode(l) => Len(u) = 0)
  <2>1. l \in Seq(Words)
    OBVIOUS
  <2>2. u \in Seq(Words)
    BY <1>1, <2>1, UncommentedOf
  <2>3. IsCode(l) => Len(u) >= 1
    BY <1>1, PlainLine
  <2>4. ~IsCode(l) => Len(u) = 0
    <3>1. ~IsCode(l) => u = <<>>
      BY <1>1 DEF IsCode
    <3>2. Len(<<>>) = 0
      OBVIOUS
    <3> QED
      BY <3>1, <3>2
  <2> QED
    BY <2>1, <2>2, <2>3, <2>4
<1>3. CASE IsCode(l)
  <2>1. Len(u) \in 1 .. Len(u)
    BY <1>2, <1>3
  <2> QED
    BY <1>1, <1>3, <2>1, PassedStep
<1>4. CASE ~IsCode(l)
  BY <1>1, <1>2, <1>4, SizeOf DEF Passed
<1> QED
  BY <1>3, <1>4

(* The word behind a label.                                                *)
LEMMA PassedBehind ==
  ASSUME NEW s \in Seq(Seq(Words)), Plain(s), Sound(s), NEW n \in 1 .. Len(s), NEW l, l = s[n], IsCode(l)
  PROVE  Passed(l, 1) = CountedBehind(l)
<1>1. l # <<>> /\ l \in Seq(Words)
  <2>1. l \in Seq(Words)
    OBVIOUS
  <2>2. 1 \in 1 .. Len(l)
    BY <2>1, OperationOf
  <2>3. 1 \notin 1 .. 0 /\ Len(<<>>) = 0
    OBVIOUS
  <2> QED
    BY <2>1, <2>2, <2>3
<1>2. CASE IsStr(l)
  <2>1. Len(Operands(l)) = 1
    BY <1>2 DEF Sound
  <2>2. l[2].chars \in Seq(Nat)
    BY <1>1, <2>1, StrOf, WordType
  <2>3. PICK c \in Nat : c = Len(l[2].chars)
    BY <2>2
  <2>4. c + 1 - 1 = c
    OBVIOUS
  <2> QED
    BY <1>1, <1>2, <2>3, <2>4 DEF Passed, CountedBehind
<1>3. CASE ~IsStr(l)
  <2>1. Widths(Operands(l), 0) = 0
    BY WidthsStep
  <2> QED
    BY <1>3, <2>1 DEF Passed, CountedBehind
<1> QED
  BY <1>2, <1>3

-----------------------------------------------------------------------------
(* Where the first pass stands: at the first word of a line no label       *)
(* stands in front of, or behind the first word of a line of code.         *)

PlacedAt(s, n, m) ==
  \/ m = 1 /\ (n > 1 => ~IsLabel(s[n - 1]))
  \/ m > 1 /\ IsCode(s[n]) /\ m <= Len(Uncommented(s[n])) + 1

(* The lengths of a line, p without its remark and q with it, and what its *)
(* words are.                                                              *)
Shape(s, n, p, q) ==
  /\ p = Len(Uncommented(s[n])) /\ q = Len(s[n]) /\ p <= q
  /\ p < q => s[n][p + 1].kind = ";"
  /\ \A k \in 1 .. p : s[n][k].kind # ";" /\ (k > 1 => s[n][k].kind # "label")
  /\ IsLabel(s[n]) => p = 1
  /\ IsStr(s[n]) => n > 1 /\ IsLabel(s[n - 1])
  /\ ~IsCode(s[n]) /\ ~IsLabel(s[n]) => p = 0
  /\ IsCode(s[n]) => ~IsLabel(s[n])

LEMMA ShapeOf ==
  ASSUME NEW s \in Seq(Seq(Words)), Plain(s), NEW n \in 1 .. Len(s)
  PROVE  \E p \in Nat, q \in Nat : Shape(s, n, p, q)
<1>1. PICK l \in Seq(Words) : l = s[n]
  OBVIOUS
<1>2. PICK u \in Seq(Words) : u = Uncommented(l)
  BY UncommentedOf
<1>3. PICK p \in Nat : p = Len(u)
  OBVIOUS
<1>4. PICK q \in Nat : q = Len(l)
  OBVIOUS
<1>5. DOMAIN s = 1 .. Len(s)
  OBVIOUS
<1>6. Len(u) < Len(l) => l[Len(u) + 1].kind = ";"
  BY <1>1, <1>2, <1>5 DEF Plain
<1>7. p < q => l[p + 1].kind = ";"
  BY <1>3, <1>4, <1>6
<1>8. p <= q /\ \A k \in 1 .. p : u[k] = l[k] /\ ~IsRemark(l[k])
  BY <1>2, <1>3, <1>4, UncommentedOf
<1>9. \A k \in 2 .. p : u[k].kind # "label"
  <2>1. \A k \in 2 .. Len(u) : u[k].kind # "label"
    BY <1>1, <1>2, <1>5 DEF Plain
  <2> QED
    BY <1>3, <2>1
<1>10. ASSUME NEW k \in 1 .. p
       PROVE  l[k].kind # ";" /\ (k > 1 => l[k].kind # "label")
  <2>1. k > 1 => k \in 2 .. p
    OBVIOUS
  <2>2. u[k] = l[k] /\ l[k].kind # ";"
    BY <1>8 DEF IsRemark
  <2> QED
    BY <1>9, <2>1, <2>2
<1>11. IsLabel(l) => p = 1
  <2>1. IsLabel(l) => Len(u) = 1
    BY <1>1, <1>2, <1>5 DEF Plain
  <2> QED
    BY <1>3, <2>1
<1>12. IsStr(l) => n > 1 /\ IsLabel(s[n - 1])
  BY <1>1, <1>5 DEF Plain
<1>13. ~IsCode(l) /\ ~IsLabel(l) => p = 0
  <2>1. ~IsCode(l) /\ ~IsLabel(l) => u = <<>>
    BY <1>2 DEF IsCode
  <2>2. u = <<>> => Len(u) = 0
    BY EmptySeq
  <2> QED
    BY <1>3, <2>1, <2>2
<1>14. IsCode(l) => ~IsLabel(l)
  BY DEF IsCode
<1> QED
  BY <1>1, <1>2, <1>3, <1>4, <1>7, <1>8, <1>10, <1>11, <1>12, <1>13, <1>14, Zenon DEF Shape

(* Word m of the line is there, and in front of the remark; or not.        *)
InFront(s, n, m) == m <= Len(s[n]) /\ s[n][m].kind # ";"
Behind(s, n, m)  == m > Len(s[n]) \/ s[n][m].kind = ";"

LabelWord(s, n, m) == s[n][m].kind = "label"

(* A word the pass counts is in front of the remark.                       *)
LEMMA WordCounted ==
  ASSUME NEW s \in Seq(Seq(Words)), Plain(s), NEW n \in 1 .. Len(s), NEW m \in Nat \ {0},
         PlacedAt(s, n, m), InFront(s, n, m)
  PROVE  /\ m \in 1 .. Len(Uncommented(s[n]))
         /\ LabelWord(s, n, m) => m = 1 /\ IsLabel(s[n])
         /\ ~LabelWord(s, n, m) => IsCode(s[n]) /\ (m = 1 => ~IsStr(s[n]))
<1>1. PICK p \in Nat, q \in Nat : Shape(s, n, p, q)
  BY ShapeOf
<1>2. PICK l : l = s[n]
  OBVIOUS
<1>3. PICK u : u = Uncommented(l)
  OBVIOUS
<1>4. p = Len(u) /\ q = Len(l) /\ u = Uncommented(s[n])
  BY <1>1, <1>2, <1>3, Zenon DEF Shape
<1>5. l \in Seq(Words)
  BY <1>2
<1>6. p <= q
  BY <1>1 DEF Shape
<1>7. p < q => l[p + 1].kind = ";"
  BY <1>1, <1>2, Zenon DEF Shape
<1>8. \A k \in 1 .. p : k > 1 => l[k].kind # "label"
  BY <1>1, <1>2, Zenon DEF Shape
<1>9. /\ IsStr(l) => n > 1 /\ IsLabel(s[n - 1])
      /\ ~IsCode(l) /\ ~IsLabel(l) => p = 0
  BY <1>1, <1>2, Zenon DEF Shape
<1>10. \/ m = 1 /\ (n > 1 => ~IsLabel(s[n - 1]))
       \/ m > 1 /\ IsCode(l) /\ m <= p + 1
  BY <1>2, <1>3, <1>4, Zenon DEF PlacedAt
<1>11. m <= q /\ l[m].kind # ";"
  BY <1>2, <1>4, Zenon DEF InFront
<1>12. m # p + 1
  <2>1. m <= q
    BY <1>11
  <2>2. m = p + 1 => p < q
    BY <2>1
  <2> QED
    BY <1>7, <1>11, <2>2, Zenon
<1>13. m \in 1 .. p
  <2>1. 1 <= m /\ m <= p + 1
    BY <1>10
  <2> QED
    BY <1>12, <2>1
<1>14. l # <<>>
  <2>1. q # 0
    BY <1>6, <1>13
  <2>2. l = <<>> => q = 0
    BY <1>4, EmptySeq
  <2> QED
    BY <2>1, <2>2
<1>15. ASSUME l[m].kind = "label"
       PROVE  m = 1 /\ IsLabel(l)
  <2>1. m = 1
    BY <1>8, <1>13, <1>15
  <2> QED
    BY <1>14, <1>15, <2>1 DEF IsLabel
<1>16. ASSUME l[m].kind # "label"
       PROVE  IsCode(l) /\ (m = 1 => ~IsStr(l))
  <2>1. CASE m = 1 /\ (n > 1 => ~IsLabel(s[n - 1]))
    <3>1. ~IsLabel(l)
      BY <1>16, <2>1 DEF IsLabel
    <3>2. p # 0
      BY <1>13
    <3> QED
      BY <1>9, <2>1, <3>1, <3>2
  <2>2. CASE m > 1 /\ IsCode(l) /\ m <= p + 1
    BY <2>2
  <2> QED
    BY <1>10, <2>1, <2>2
<1> QED
  BY <1>2, <1>4, <1>13, <1>15, <1>16, Zenon DEF LabelWord

LEMMA LineCounted ==
  ASSUME NEW s \in Seq(Seq(Words)), Plain(s), NEW n \in 1 .. Len(s), NEW m \in Nat \ {0},
         PlacedAt(s, n, m), Behind(s, n, m)
  PROVE  ~IsLabel(s[n]) /\ m = Len(Uncommented(s[n])) + 1
<1>1. PICK p \in Nat, q \in Nat : Shape(s, n, p, q)
  BY ShapeOf
<1>2. PICK l : l = s[n]
  OBVIOUS
<1>3. PICK u : u = Uncommented(l)
  OBVIOUS
<1>4. p = Len(u) /\ q = Len(l) /\ u = Uncommented(s[n])
  BY <1>1, <1>2, <1>3, Zenon DEF Shape
<1>5. p <= q
  BY <1>1 DEF Shape
<1>6. \A k \in 1 .. p : l[k].kind # ";"
  BY <1>1, <1>2, Zenon DEF Shape
<1>7. /\ ~IsCode(l) /\ ~IsLabel(l) => p = 0
      /\ IsLabel(l) => p = 1
      /\ IsCode(l) => ~IsLabel(l)
  BY <1>1, <1>2, Zenon DEF Shape
<1>8. \/ m = 1 /\ (n > 1 => ~IsLabel(s[n - 1]))
      \/ m > 1 /\ IsCode(l) /\ m <= p + 1
  BY <1>2, <1>3, <1>4, Zenon DEF PlacedAt
<1>9. m \notin 1 .. p
  <2>1. m > q \/ l[m].kind = ";"
    BY <1>2, <1>4, Zenon DEF Behind
  <2>2. m > q => m \notin 1 .. p
    BY <1>5
  <2> QED
    BY <1>6, <2>1, <2>2
<1>10. m = p + 1
  BY <1>8, <1>9
<1>11. ~IsLabel(l)
  <2>1. CASE m = 1
    BY <1>7, <1>10, <2>1
  <2>2. CASE m # 1
    BY <1>7, <1>8, <2>2
  <2> QED
    BY <2>1, <2>2
<1> QED
  BY <1>2, <1>4, <1>10, <1>11, Zenon

-----------------------------------------------------------------------------
(* The first pass at word m of line n, with the offset r.                  *)

FirstPassAt(s, n, m, r, ss, main) ==
  /\ n \in 1 .. Len(s) + 1
  /\ n <= Len(s) => PlacedAt(s, n, m)
  /\ Recorded(s, ss, main, LabelsTo(s, n))
  /\ Good(s) => /\ Resolved(s, ss, main, LabelsTo(s, n))
                /\ n <= Len(s) => r = Offset(s, n) + Passed(s[n], m - 1)

(* What is counted of a line of code lies within the code.                 *)
LEMMA CountFits ==
  ASSUME AssemblerAssumption, NEW s \in Seq(Seq(Words)), Plain(s), Good(s), NEW n \in 1 .. Len(s),
         IsCode(s[n]), NEW m \in 1 .. Len(Uncommented(s[n])), NEW r,
         r = Offset(s, n) + Passed(s[n], m)
  PROVE  Wrapped(r) = r /\ r \in Nat
<1>1. PICK l : l = s[n]
  OBVIOUS
<1>2. Sound(s)
  BY DEF Good
<1>3. Passed(l, m) \in Nat /\ Passed(l, m) <= Size(l)
  BY <1>1, <1>2, PassedStep
<1>4. PICK p \in Nat : p = Passed(l, m)
  BY <1>3
<1>5. Size(l) \in Nat
  BY <1>1, SizeOf
<1>6. PICK q \in Nat : q = Size(l)
  BY <1>5
<1>7. Offset(s, n) \in Nat /\ Offset(s, n + 1) = Offset(s, n) + Size(l)
  BY <1>1, OffsetStep
<1>8. PICK o \in Nat : o = Offset(s, n)
  BY <1>7
<1>9. n + 1 \in 1 .. Len(s) + 1
  OBVIOUS
<1>10. Offset(s, n + 1) < UINT16_MAX
  BY <1>9, GoodOffset
<1>11. o + q < UINT16_MAX
  BY <1>6, <1>7, <1>8, <1>10
<1>12. p <= q
  BY <1>3, <1>4, <1>6
<1>13. o + p \in Nat /\ o + p <= UINT16_MAX
  BY <1>11, <1>12 DEF AssemblerAssumption
<1>14. r = o + p
  BY <1>1, <1>4, <1>8
<1> QED
  BY <1>13, <1>14, WrappedOf

LEMMA WordStep ==
  ASSUME AssemblerAssumption, NEW s \in Seq(Seq(Words)), Plain(s), NEW n \in 1 .. Len(s),
         NEW m \in Nat \ {0}, NEW r \in Nat, NEW ss, NEW main,
         FirstPassAt(s, n, m, r, ss, main),
         InFront(s, n, m), ~LabelWord(s, n, m)
  PROVE  FirstPassAt(s, n, m + 1, Wrapped(r + Width(s[n][m])), ss, main)
<1>0. PICK N \in Nat : N = Len(s) /\ n <= N
  OBVIOUS
<1>1. PlacedAt(s, n, m)
  BY <1>0 DEF FirstPassAt
<1>2. m \in 1 .. Len(Uncommented(s[n])) /\ IsCode(s[n]) /\ (m = 1 => ~IsStr(s[n]))
  BY <1>1, WordCounted
<1>3. PlacedAt(s, n, m + 1)
  <2>1. m + 1 > 1
    OBVIOUS
  <2>2. PICK p \in Nat : p = Len(Uncommented(s[n]))
    <3>1. PICK p \in Nat, q \in Nat : Shape(s, n, p, q)
      BY ShapeOf
    <3> QED
      BY <3>1, Zenon DEF Shape
  <2>3. m + 1 <= p + 1
    BY <1>2, <2>2
  <2> QED
    BY <1>2, <2>1, <2>2, <2>3 DEF PlacedAt
<1>4. ASSUME Good(s)
      PROVE  Wrapped(r + Width(s[n][m])) = Offset(s, n) + Passed(s[n], (m + 1) - 1)
  <2>1. PICK l : l = s[n]
    OBVIOUS
  <2>2. PICK w \in Nat : w = Width(l[m])
    BY WidthType
  <2>3. Sound(s)
    BY <1>4 DEF Good
  <2>4. Passed(l, m - 1) \in Nat /\ (m > 1 \/ ~IsStr(l) => Passed(l, m) = Passed(l, m - 1) + Width(l[m]))
    BY <1>2, <2>1, <2>3, PassedStep
  <2>5. PICK p \in Nat : p = Passed(l, m - 1)
    BY <2>4
  <2>6. Passed(l, m) = p + w
    BY <1>2, <2>1, <2>2, <2>4, <2>5
  <2>7. Offset(s, n) \in Nat
    BY OffsetStep
  <2>8. PICK o \in Nat : o = Offset(s, n)
    BY <2>7
  <2>9. r = o + p
    BY <1>0, <1>4, <2>1, <2>5, <2>8 DEF FirstPassAt
  <2>10. r + w = o + (p + w)
    BY <2>9
  <2>11. r + w = Offset(s, n) + Passed(l, m)
    BY <2>6, <2>8, <2>10, Zenon
  <2>12. Wrapped(r + w) = r + w
    BY <1>2, <1>4, <2>1, <2>11, CountFits
  <2>13. (m + 1) - 1 = m
    OBVIOUS
  <2> QED
    BY <2>1, <2>2, <2>11, <2>12, <2>13, Zenon
<1> QED
  BY <1>3, <1>4, Zenon DEF FirstPassAt

LEMMA LineStep ==
  ASSUME AssemblerAssumption, NEW s \in Seq(Seq(Words)), Plain(s), NEW n \in 1 .. Len(s),
         NEW m \in Nat \ {0}, NEW r \in Nat, NEW ss, NEW main,
         FirstPassAt(s, n, m, r, ss, main),
         Behind(s, n, m)
  PROVE  FirstPassAt(s, n + 1, 1, r, ss, main)
<1>0. PICK N \in Nat : N = Len(s) /\ n <= N
  OBVIOUS
<1>1. PlacedAt(s, n, m)
  BY <1>0 DEF FirstPassAt
<1>2. ~IsLabel(s[n]) /\ m = Len(Uncommented(s[n])) + 1
  BY <1>1, LineCounted
<1>3. n + 1 \in 1 .. Len(s) + 1 /\ (n + 1) - 1 = n
  BY <1>0
<1>4. PlacedAt(s, n + 1, 1)
  BY <1>2, <1>3 DEF PlacedAt
<1>5. LabelsTo(s, n + 1) = LabelsTo(s, n)
  BY <1>2, NoneMore
<1>6. ASSUME Good(s), n + 1 <= Len(s)
      PROVE  r = Offset(s, n + 1) + Passed(s[n + 1], 1 - 1)
  <2>1. PICK l : l = s[n]
    OBVIOUS
  <2>2. PICK p \in Nat : p = Len(Uncommented(l))
    <3>1. PICK p \in Nat, q \in Nat : Shape(s, n, p, q)
      BY ShapeOf
    <3> QED
      BY <2>1, <3>1, Zenon DEF Shape
  <2>3. m - 1 = p
    BY <1>2, <2>1, <2>2
  <2>4. Sound(s)
    BY <1>6 DEF Good
  <2>5. Passed(l, p) = Size(l)
    BY <1>2, <2>1, <2>2, <2>4, PassedAll
  <2>6. r = Offset(s, n) + Passed(l, p)
    BY <1>0, <1>6, <2>1, <2>3 DEF FirstPassAt
  <2>7. Offset(s, n + 1) = Offset(s, n) + Size(l)
    BY <2>1, OffsetStep
  <2>8. r = Offset(s, n + 1)
    BY <2>5, <2>6, <2>7, Zenon
  <2>9. Passed(s[n + 1], 1 - 1) = 0
    BY DEF Passed
  <2> QED
    BY <2>8, <2>9
<1> QED
  BY <1>3, <1>4, <1>5, <1>6, Zenon DEF FirstPassAt

LEMMA LabelStep ==
  ASSUME AssemblerAssumption, NEW s \in Seq(Seq(Words)), Plain(s), NEW n \in 1 .. Len(s),
         NEW m \in Nat \ {0}, NEW r \in Nat, NEW ss \in Seq(Symbol), NEW main,
         FirstPassAt(s, n, m, r, ss, main),
         InFront(s, n, m), LabelWord(s, n, m),
         NEW ts, ts = Append(ss, [name |-> s[n][m].val, offset |-> r]),
         NEW then, then = IF main = NoMain /\ s[n][m].val = "main" THEN r ELSE main,
         NEW next, n < Len(s) => next = s[n + 1],
         NEW q, q = Wrapped(r + CountedBehind(next))
  PROVE  ts \in Seq(Symbol) /\ FirstPassAt(s, n + 1, m + 1, q, ts, then)
<1>0. PICK N \in Nat : N = Len(s) /\ n <= N
  OBVIOUS
<1>1. PlacedAt(s, n, m)
  BY <1>0 DEF FirstPassAt
<1>2. m = 1 /\ IsLabel(s[n])
  BY <1>1, WordCounted
<1>3. n + 1 \in 1 .. Len(s) + 1
  BY <1>0
<1>4. ts \in Seq(Symbol) /\ Recorded(s, ts, then, LabelsTo(s, n + 1))
  <2>1. Recorded(s, ss, main, LabelsTo(s, n))
    BY DEF FirstPassAt
  <2>2. ts = Append(ss, [name |-> s[n][1].val, offset |-> r])
    BY <1>2
  <2>3. then = IF main = NoMain /\ s[n][1].val = "main" THEN r ELSE main
    BY <1>2
  <2> QED
    BY <1>2, <2>1, <2>2, <2>3, LabelRecorded
<1>5. ASSUME n + 1 <= Len(s)
      PROVE  /\ IsCode(s[n + 1]) /\ n + 1 \in 1 .. Len(s) /\ next = s[n + 1]
             /\ 1 \in 1 .. Len(Uncommented(s[n + 1]))
             /\ PlacedAt(s, n + 1, m + 1)
  <2>1. n < Len(s)
    BY <1>0, <1>5
  <2>2. IsCode(s[n + 1])
    BY <1>2, <2>1, PlainLine
  <2>3. PICK k \in 1 .. Len(s) : k = n + 1
    BY <1>0, <1>5
  <2>4. Len(Uncommented(s[k])) >= 1 /\ Uncommented(s[k]) \in Seq(Words)
    BY <2>2, <2>3, PlainLine
  <2>5. PICK p \in Nat : p = Len(Uncommented(s[k]))
    BY <2>4
  <2>6. p >= 1
    BY <2>4, <2>5
  <2>7. m + 1 > 1 /\ m + 1 <= p + 1
    BY <1>2, <2>6
  <2>8. PlacedAt(s, n + 1, m + 1)
    BY <2>2, <2>3, <2>5, <2>7 DEF PlacedAt
  <2>9. 1 \in 1 .. Len(Uncommented(s[n + 1]))
    BY <2>3, <2>5, <2>6
  <2> QED
    BY <2>1, <2>2, <2>3, <2>8, <2>9
<1>6. ASSUME Good(s)
      PROVE  r = Offset(s, n) /\ r = Offset(s, n + 1)
  <2>1. Passed(s[n], m - 1) = 0
    BY <1>2 DEF Passed
  <2>2. Offset(s, n) \in Nat /\ Offset(s, n + 1) = Offset(s, n) + Size(s[n])
    BY OffsetStep
  <2>3. r = Offset(s, n) + 0
    BY <1>0, <1>6, <2>1 DEF FirstPassAt
  <2>4. Size(s[n]) = 0
    <3>1. ~IsCode(s[n]) /\ s[n] \in Seq(Words)
      BY <1>2, PlainLine
    <3> QED
      BY <3>1, SizeOf
  <2>5. PICK o \in Nat : o = Offset(s, n)
    BY <2>2
  <2>6. r = o
    BY <2>3, <2>5
  <2>7. Offset(s, n + 1) = o
    BY <2>2, <2>4, <2>5
  <2> QED
    BY <2>5, <2>6, <2>7
<1>7. ASSUME Good(s)
      PROVE  Resolved(s, ts, then, LabelsTo(s, n + 1))
  <2>1. Recorded(s, ss, main, LabelsTo(s, n)) /\ Resolved(s, ss, main, LabelsTo(s, n))
    BY <1>7 DEF FirstPassAt
  <2>2. ts = Append(ss, [name |-> s[n][1].val, offset |-> r])
    BY <1>2
  <2>3. then = IF main = NoMain /\ s[n][1].val = "main" THEN r ELSE main
    BY <1>2
  <2> QED
    BY <1>2, <1>6, <1>7, <2>1, <2>2, <2>3, LabelResolved
<1>8. ASSUME Good(s), n + 1 <= Len(s)
      PROVE  q = Offset(s, n + 1) + Passed(s[n + 1], (m + 1) - 1)
  <2>1. PICK k \in 1 .. Len(s) : k = n + 1 /\ IsCode(s[k]) /\ next = s[k] /\ 1 \in 1 .. Len(Uncommented(s[k]))
    BY <1>5, <1>8
  <2>2. Sound(s)
    BY <1>8 DEF Good
  <2>3. Passed(s[k], 1) = CountedBehind(next)
    BY <2>1, <2>2, PassedBehind
  <2>4. r + CountedBehind(next) = Offset(s, k) + Passed(s[k], 1)
    BY <1>6, <1>8, <2>1, <2>3
  <2>5. q = Offset(s, k) + Passed(s[k], 1)
    BY <1>8, <2>1, <2>4, CountFits
  <2>6. (m + 1) - 1 = 1
    BY <1>2
  <2> QED
    BY <2>1, <2>5, <2>6
<1> QED
  BY <1>3, <1>4, <1>5, <1>7, <1>8, Zenon DEF FirstPassAt

-----------------------------------------------------------------------------
(* The second pass when it has dealt with the first d lines.               *)

CodeTo(s, d)      == FlattenSeq([k \in 1 .. d |-> Encoded(s, s[k])])
RelocatedTo(s, d) == FlattenSeq([k \in 1 .. d |-> RelocatedBy(s, k)])

SecondPassAt(s, d, ss, main, bin, rel) ==
  /\ d \in 0 .. Len(s)
  /\ Recorded(s, ss, main, Labels(s))
  /\ \A n \in 1 .. d : IsCode(s[n]) => CorrectLine(s, s[n])
  /\ Len(bin) = Offset(s, d + 1)
  /\ rel = RelocatedTo(s, d)
  /\ Good(s) => /\ Resolved(s, ss, main, Labels(s))
                /\ bin = CodeTo(s, d)
                /\ \A n \in 1 .. d : Encoded(s, s[n]) \in Seq(Nat)

LEMMA NothingDealt ==
  ASSUME NEW s \in Seq(Seq(Words)), NEW ss, NEW main, Recorded(s, ss, main, Labels(s)),
         Good(s) => Resolved(s, ss, main, Labels(s))
  PROVE  SecondPassAt(s, 0, ss, main, <<>>, <<>>)
<1>1. Len(s) \in Nat /\ 0 \in 0 .. Len(s) /\ 1 .. 0 = {} /\ 0 + 1 = 1
  OBVIOUS
<1>2. Len(<<>>) = Offset(s, 0 + 1)
  <2>1. [k \in 1 .. 1 - 1 |-> Size(s[k])] = <<>> /\ Len(<<>>) = 0
    OBVIOUS
  <2> QED
    BY <1>1, <2>1, TotalEmpty DEF Offset
<1>3. CodeTo(s, 0) = <<>>
  <2>1. [k \in 1 .. 0 |-> Encoded(s, s[k])] = <<>>
    OBVIOUS
  <2> QED
    BY <2>1, FlattenEmpty DEF CodeTo
<1>4. RelocatedTo(s, 0) = <<>>
  <2>1. [k \in 1 .. 0 |-> RelocatedBy(s, k)] = <<>>
    OBVIOUS
  <2> QED
    BY <2>1, FlattenEmpty DEF RelocatedTo
<1> QED
  BY <1>1, <1>2, <1>3, <1>4 DEF SecondPassAt

LEMMA ConcatLength ==
  ASSUME NEW T, NEW a \in Seq(T), NEW b \in Seq(T)
  PROVE  Len(a \o b) = Len(a) + Len(b)
OBVIOUS

(* One line more, which emits e.                                           *)
LEMMA LineDealt ==
  ASSUME NEW s \in Seq(Seq(Words)), NEW k \in 1 .. Len(s), NEW ss, NEW main,
         NEW bin \in Seq(Nat), NEW rel, NEW e \in Seq(Nat),
         SecondPassAt(s, k - 1, ss, main, bin, rel),
         IsCode(s[k]) => CorrectLine(s, s[k]),
         Len(e) = Size(s[k]), Good(s) => e = Encoded(s, s[k])
  PROVE  SecondPassAt(s, k, ss, main, bin \o e, rel \o RelocatedBy(s, k))
<1>1. PICK d \in Nat : d = k - 1 /\ k = d + 1 /\ k \in 0 .. Len(s)
  OBVIOUS
<1>2. \A n \in 1 .. k : IsCode(s[n]) => CorrectLine(s, s[n])
  <2>1. \A n \in 1 .. d : IsCode(s[n]) => CorrectLine(s, s[n])
    BY <1>1 DEF SecondPassAt
  <2>2. \A n \in 1 .. k : n \in 1 .. d \/ n = k
    BY <1>1
  <2> QED
    BY <2>1, <2>2
<1>3. Len(bin \o e) = Offset(s, k + 1)
  <2>1. Offset(s, k) \in Nat /\ Offset(s, k + 1) = Offset(s, k) + Size(s[k])
    BY OffsetStep
  <2>2. Len(bin) = Offset(s, k)
    BY <1>1 DEF SecondPassAt
  <2>3. Len(bin \o e) = Len(bin) + Len(e)
    BY ConcatLength, Zenon
  <2> QED
    BY <2>1, <2>2, <2>3
<1>4. rel \o RelocatedBy(s, k) = RelocatedTo(s, k)
  <2> DEFINE g == [n \in 1 .. Len(s) |-> RelocatedBy(s, n)]
  <2>1. \A n \in 1 .. d + 1 : n \in 1 .. Len(s)
    BY <1>1
  <2>2. \A n \in 1 .. d + 1 : g[n] \in Seq(Nat)
    BY <2>1, RelocatedByType
  <2>3. /\ [n \in 1 .. d + 1 |-> g[n]] = [n \in 1 .. d + 1 |-> RelocatedBy(s, n)]
        /\ [n \in 1 .. d |-> g[n]] = [n \in 1 .. d |-> RelocatedBy(s, n)]
        /\ g[d + 1] = RelocatedBy(s, d + 1)
    BY <1>1, <2>1
  <2> HIDE DEF g
  <2>4. FlattenSeq([n \in 1 .. d + 1 |-> g[n]]) = FlattenSeq([n \in 1 .. d |-> g[n]]) \o g[d + 1]
    BY <2>2, FlatTo
  <2>5. RelocatedTo(s, d + 1) = RelocatedTo(s, d) \o RelocatedBy(s, d + 1)
    BY <2>3, <2>4 DEF RelocatedTo
  <2>6. rel = RelocatedTo(s, d)
    BY <1>1 DEF SecondPassAt
  <2> QED
    BY <1>1, <2>5, <2>6
<1>5. ASSUME Good(s)
      PROVE  /\ Resolved(s, ss, main, Labels(s))
             /\ bin \o e = CodeTo(s, k)
             /\ \A n \in 1 .. k : Encoded(s, s[n]) \in Seq(Nat)
  <2>1. /\ Resolved(s, ss, main, Labels(s)) /\ bin = CodeTo(s, d)
        /\ \A n \in 1 .. d : Encoded(s, s[n]) \in Seq(Nat)
    BY <1>1, <1>5 DEF SecondPassAt
  <2>2. e = Encoded(s, s[k])
    BY <1>5
  <2>3. \A n \in 1 .. k : Encoded(s, s[n]) \in Seq(Nat)
    <3>1. \A n \in 1 .. k : n \in 1 .. d \/ n = k
      BY <1>1
    <3> QED
      BY <2>1, <2>2, <3>1
  <2> DEFINE g == [n \in 1 .. Len(s) |-> Encoded(s, s[n])]
  <2>4. \A n \in 1 .. d + 1 : n \in 1 .. Len(s)
    BY <1>1
  <2>5. \A n \in 1 .. d + 1 : g[n] \in Seq(Nat)
    BY <1>1, <2>3, <2>4
  <2>6. /\ [n \in 1 .. d + 1 |-> g[n]] = [n \in 1 .. d + 1 |-> Encoded(s, s[n])]
        /\ [n \in 1 .. d |-> g[n]] = [n \in 1 .. d |-> Encoded(s, s[n])]
        /\ g[d + 1] = Encoded(s, s[d + 1])
    BY <1>1, <2>4
  <2> HIDE DEF g
  <2>7. FlattenSeq([n \in 1 .. d + 1 |-> g[n]]) = FlattenSeq([n \in 1 .. d |-> g[n]]) \o g[d + 1]
    BY <2>5, FlatTo
  <2>8. CodeTo(s, d + 1) = CodeTo(s, d) \o Encoded(s, s[d + 1])
    BY <2>6, <2>7 DEF CodeTo
  <2>9. bin \o e = CodeTo(s, k)
    BY <1>1, <2>1, <2>2, <2>8
  <2> QED
    BY <2>1, <2>3, <2>9
<1>6. Recorded(s, ss, main, Labels(s))
  BY DEF SecondPassAt
<1> QED
  BY <1>1, <1>2, <1>3, <1>4, <1>5, <1>6, Zenon DEF SecondPassAt

LEMMA NothingEmitted ==
  ASSUME NEW s \in Seq(Seq(Words)), NEW k \in 1 .. Len(s), NEW ss, NEW main,
         NEW bin \in Seq(Nat), NEW rel \in Seq(Nat),
         SecondPassAt(s, k - 1, ss, main, bin, rel), ~IsCode(s[k])
  PROVE  SecondPassAt(s, k, ss, main, bin, rel)
<1>1. Size(s[k]) = 0
  <2>1. s[k] \in Seq(Words)
    OBVIOUS
  <2> QED
    BY <2>1, SizeOf
<1>2. Encoded(s, s[k]) = <<>> /\ RelocatedBy(s, k) = <<>>
  BY DEF Encoded, RelocatedBy
<1>3. <<>> \in Seq(Nat) /\ Len(<<>>) = 0
  OBVIOUS
<1>4. SecondPassAt(s, k, ss, main, bin \o <<>>, rel \o RelocatedBy(s, k))
  BY <1>1, <1>2, <1>3, LineDealt
<1> QED
  BY <1>2, <1>4, ConcatEmptySeq

-----------------------------------------------------------------------------
(* The line the second pass assembles: l, the line k of the source.        *)

AtCode(k) == /\ k \in 1 .. Len(src) /\ IsCode(src[k]) /\ line(Assembled) = src[k]
             /\ SecondPassAt(src, k - 1, symbols, main_symbol, binary, reloc_offsets)

SecondType == /\ src \in Seq(Seq(Words)) /\ SymbolsType
              /\ binary \in Seq(Nat) /\ reloc_offsets \in Seq(Nat)

LEMMA PlainCode ==
  ASSUME SecondType, Plain(src), NEW k, AtCode(k), NEW l, l = src[k]
  PROVE  l \in Seq(Words) /\ PlainOperands(l) /\ IsCode(l) /\ line(Assembled) = l
<1>1. src \in Seq(Seq(Words)) /\ k \in 1 .. Len(src)
  BY DEF SecondType, AtCode
<1>2. l \in Seq(Words) /\ PlainOperands(l)
  BY <1>1, PlainLine
<1> QED
  BY <1>2 DEF AtCode

(* A name the first pass has recorded is the name of a label.              *)
LEMMA NamesRecorded ==
  ASSUME SecondType, NEW k, AtCode(k), NEW x
  PROVE  /\ Named(x) # {} <=> Defined(src, x)
         /\ Good(src) /\ Defined(src, x) => insertSymbolAddress(x) = Meaning(src, x)
<1>1. PICK s \in Seq(Seq(Words)) : s = src
  BY DEF SecondType
<1>2. Recorded(s, symbols, main_symbol, Labels(s)) /\ (Good(s) => Resolved(s, symbols, main_symbol, Labels(s)))
  BY <1>1 DEF AtCode, SecondPassAt
<1>3. x \in NamesIn(symbols) <=> Defined(s, x)
  BY <1>2, Meant
<1>4. Good(s) /\ x \in NamesIn(symbols) => AddressIn(symbols, x) = Meaning(s, x)
  BY <1>2, Meant
<1>5. (Named(x) # {} <=> x \in NamesIn(symbols)) /\ insertSymbolAddress(x) = AddressIn(symbols, x)
  BY SymbolsNow
<1> QED
  BY <1>1, <1>3, <1>4, <1>5, Zenon

LEMMA EnoughMeans ==
  ASSUME SecondType, Plain(src), NEW k, AtCode(k), NEW l, l = src[k]
  PROVE  enoughParam <=> /\ l[1].kind = "op"
                         /\ IF IsStr(l) THEN Len(Operands(l)) = 1
                            ELSE Widths(Operands(l), Len(Operands(l))) = Parameters[l[1].val]
<1>1. l \in Seq(Words) /\ PlainOperands(l) /\ IsCode(l) /\ line(Assembled) = l
  BY PlainCode
<1>2. /\ IsString <=> IsStr(l)
      /\ param(line(Assembled)) = Widths(Operands(l), Len(Operands(l)))
  BY <1>1, InputOf
<1>3. enoughParam <=> /\ l[1].kind = "op"
                      /\ Widths(Operands(l), Len(Operands(l))) = IF IsStr(l) THEN 1 ELSE Parameters[l[1].val]
  BY <1>1, <1>2, Zenon DEF enoughParam
<1>4. CASE IsStr(l)
  <2>1. Widths(Operands(l), Len(Operands(l))) = 1 <=> Len(Operands(l)) = 1
    BY <1>1, <1>4, OneOperand
  <2> QED
    BY <1>3, <1>4, <2>1, Zenon
<1>5. CASE ~IsStr(l)
  BY <1>3, <1>5, Zenon
<1> QED
  BY <1>4, <1>5

LEMMA KnownMeans ==
  ASSUME SecondType, Plain(src), NEW k, AtCode(k), NEW l, l = src[k], ~IsStr(l)
  PROVE  Unknown = {} <=> \A h \in DOMAIN Operands(l) :
                            LET w == Operands(l)[h]
                            IN  \/ w.kind \in {"reg", "hex2", "hex4", "num"}
                                \/ w.kind = "ref" /\ Defined(src, w.val)
<1>1. l \in Seq(Words) /\ PlainOperands(l) /\ line(Assembled) = l
  BY PlainCode
<1>2. ~IsString /\ IsString = FALSE
  BY <1>1, InputOf, WhetherString
<1>3. PICK o \in Seq(Words) : o = Operands(l) /\ o = input /\ DOMAIN o = 1 .. Len(o)
  BY <1>1, OperandsOf, InputOf
<1>4. ASSUME NEW h \in DOMAIN o
      PROVE  Known(o[h], FALSE) <=> \/ o[h].kind \in {"reg", "hex2", "hex4", "num"}
                                    \/ o[h].kind = "ref" /\ Defined(src, o[h].val)
  <2>1. PlainWord(o[h])
    BY <1>1, <1>3 DEF PlainOperands
  <2>2. o[h].kind # "wide"
    BY <2>1 DEF PlainWord
  <2>3. Named(o[h].val) # {} <=> Defined(src, o[h].val)
    BY NamesRecorded
  <2>4. Known(o[h], FALSE) <=> \/ o[h].kind \in {"reg", "num", "hex2", "hex4", "wide"}
                               \/ o[h].kind = "ref" /\ Named(o[h].val) # {}
    BY DEF Known
  <2> QED
    BY <2>2, <2>3, <2>4
<1>5. Unknown = {h \in DOMAIN o : ~Known(o[h], FALSE)}
  BY <1>2, <1>3 DEF Unknown
<1>6. Unknown = {} <=> \A h \in DOMAIN o : Known(o[h], FALSE)
  BY <1>5, Zenon
<1> QED
  BY <1>3, <1>4, <1>6, Zenon

(* The assembler accepts exactly the lines without mistakes.               *)
LEMMA CorrectAccepted ==
  ASSUME SecondType, Plain(src), NEW k, AtCode(k)
  PROVE  CorrectLine(src, src[k]) <=> enoughParam /\ Unknown = {}
<1>1. PICK l : l = src[k]
  OBVIOUS
<1>2. l \in Seq(Words) /\ PlainOperands(l) /\ IsCode(l) /\ line(Assembled) = l /\ SymbolsType
  BY <1>1, PlainCode DEF SecondType
<1>3. CASE IsStr(l)
  <2>1. enoughParam => Unknown = {}
    BY <1>2, <1>3, StringEmitted
  <2>2. enoughParam <=> l[1].kind = "op" /\ Len(Operands(l)) = 1
    BY <1>1, <1>3, EnoughMeans
  <2> QED
    BY <1>1, <1>3, <2>1, <2>2, Zenon DEF CorrectLine
<1>4. CASE ~IsStr(l)
  <2>1. enoughParam <=> l[1].kind = "op" /\ Widths(Operands(l), Len(Operands(l))) = Parameters[l[1].val]
    BY <1>1, <1>4, EnoughMeans
  <2>2. Unknown = {} <=> \A h \in DOMAIN Operands(l) :
                            LET w == Operands(l)[h]
                            IN  \/ w.kind \in {"reg", "hex2", "hex4", "num"}
                                \/ w.kind = "ref" /\ Defined(src, w.val)
    BY <1>1, <1>4, KnownMeans
  <2> QED
    BY <1>1, <1>4, <2>1, <2>2, Zenon DEF CorrectLine
<1> QED
  BY <1>3, <1>4

LEMMA LineEmitted ==
  ASSUME AssemblerAssumption, SecondType, Plain(src), NEW k, AtCode(k), enoughParam, Unknown = {}
  PROVE  /\ Emitted \in Seq(Nat) /\ Len(Emitted) = Size(src[k])
         /\ Good(src) => Emitted = Encoded(src, src[k])
         /\ Relocated = RelocatedBy(src, k)
<1>1. PICK l : l = src[k]
  OBVIOUS
<1>2. l \in Seq(Words) /\ PlainOperands(l) /\ IsCode(l) /\ line(Assembled) = l /\ SymbolsType
  BY <1>1, PlainCode DEF SecondType
<1>3. Len(binary) \in Nat /\ Len(binary) = Offset(src, k)
  <2>1. (k - 1) + 1 = k
    BY DEF AtCode
  <2>2. binary \in Seq(Nat) /\ Len(binary) = Offset(src, (k - 1) + 1)
    BY DEF AtCode, SecondType, SecondPassAt
  <2> QED
    BY <2>1, <2>2
<1>4. Relocated = RelocatedBy(src, k)
  BY <1>1, <1>2, <1>3, Relocations
<1>5. CASE IsStr(l)
  <2>1. /\ Emitted = l[2].chars \o <<0>> /\ Emitted \in Seq(Nat) /\ Len(Emitted) = Size(l)
    BY <1>2, <1>5, StringEmitted
  <2>2. Emitted = Encoded(src, l)
    BY <1>2, <1>5, <2>1 DEF Encoded
  <2> QED
    BY <1>1, <1>4, <2>1, <2>2
<1>6. CASE ~IsStr(l)
  <2>1. Through = input /\ Code(input) \in Seq(Nat) /\ Len(Emitted) = Size(l) /\ sig \in Seq({0, 1})
    BY <1>2, <1>3, <1>6, InstructionEmitted
  <2>2. ~IsString
    BY <1>2, <1>6, InputOf
  <2>3. Emitted = <<Opcode>> \o Code(input)
    BY <2>1, <2>2 DEF Emitted
  <2>4. Opcode \in Nat
    <3>1. l[1].kind = "op"
      BY <1>1, EnoughMeans
    <3>2. l[1].val \in Nat
      <4>1. l[1].val \in 0 .. 30
        BY <1>2, <1>6, <3>1, OperationOf
      <4>2. PICK v \in 0 .. 30 : v = l[1].val
        BY <4>1
      <4>3. v \in Nat
        OBVIOUS
      <4> QED
        BY <4>2, <4>3, Zenon
    <3> DEFINE bit(h) == IF h <= Len(sig) THEN sig[h] ELSE 0
    <3>3. bit(1) \in {0, 1} /\ bit(2) \in {0, 1} /\ bit(3) \in {0, 1}
      <4>1. Len(sig) \in Nat /\ \A h \in 1 .. Len(sig) : sig[h] \in {0, 1}
        BY <2>1
      <4>2. \A h \in {1, 2, 3} : h <= Len(sig) => h \in 1 .. Len(sig)
        BY <4>1
      <4>3. \A h \in {1, 2, 3} : bit(h) \in {0, 1}
        BY <4>1, <4>2
      <4> QED
        BY <4>3
    <3>4. Opcode = line(Assembled)[1].val + 32 * bit(1) + 64 * bit(2) + 128 * bit(3)
      BY DEF Opcode
    <3> HIDE DEF bit
    <3>5. PICK v \in Nat, a \in {0, 1}, b \in {0, 1}, c \in {0, 1} :
            v = l[1].val /\ a = bit(1) /\ b = bit(2) /\ c = bit(3)
      BY <3>2, <3>3
    <3>6. Opcode = v + 32 * a + 64 * b + 128 * c
      BY <1>2, <3>4, <3>5, Zenon
    <3>7. v + 32 * a + 64 * b + 128 * c \in Nat
      OBVIOUS
    <3> QED
      BY <3>6, <3>7
  <2>5. Emitted \in Seq(Nat)
    <3>1. <<Opcode>> \in Seq(Nat)
      BY <2>4
    <3> QED
      BY <2>1, <2>3, <3>1
  <2>6. ASSUME Good(src)
        PROVE  Emitted = Encoded(src, l)
    <3>1. ASSUME NEW h \in 1 .. Len(Operands(l)), Operands(l)[h].kind = "ref"
          PROVE  insertSymbolAddress(Operands(l)[h].val) = Meaning(src, Operands(l)[h].val)
      <4>1. DOMAIN Operands(l) = 1 .. Len(Operands(l))
        BY <1>2, OperandsOf
      <4>2. Defined(src, Operands(l)[h].val)
        BY <1>1, <1>6, <3>1, <4>1, KnownMeans
      <4> QED
        BY <2>6, <4>2, NamesRecorded
    <3> QED
      BY <1>2, <1>3, <1>6, <3>1, InstructionMeant
  <2> QED
    BY <1>1, <1>4, <2>1, <2>5, <2>6
<1> QED
  BY <1>5, <1>6

LEMMA OverrunMeans ==
  ASSUME AssemblerAssumption, SecondType, Plain(src), NEW k, AtCode(k), enoughParam, Overruns
  PROVE  ~SizeWithin(src, UINT16_MAX)
<1>1. PICK l : l = src[k]
  OBVIOUS
<1>2. l \in Seq(Words) /\ PlainOperands(l) /\ IsCode(l) /\ line(Assembled) = l /\ SymbolsType
  BY <1>1, PlainCode DEF SecondType
<1>3. PICK s \in Seq(Seq(Words)) : s = src /\ k \in 1 .. Len(s)
  BY DEF SecondType, AtCode
<1>4. Len(binary) \in Nat /\ Len(binary) = Offset(s, k)
  <2>1. (k - 1) + 1 = k
    BY DEF AtCode
  <2>2. binary \in Seq(Nat) /\ Len(binary) = Offset(s, (k - 1) + 1)
    BY <1>3 DEF AtCode, SecondType, SecondPassAt
  <2> QED
    BY <2>1, <2>2
<1>5. Len(binary) + Size(l) > UINT16_MAX
  <2>1. CASE ~IsStr(l)
    BY <1>2, <1>4, <2>1, InstructionEmitted
  <2>2. CASE IsStr(l)
    <3>1. Unknown = {} /\ Len(Emitted) = Size(l) /\ Len(sig) = 1
      BY <1>2, <2>2, StringEmitted
    <3>2. ~(Len(sig) + (IF Unknown = {} THEN 0 ELSE 1) > 3)
      BY <3>1
    <3>3. Len(binary) + Len(Emitted) > UINT16_MAX
      BY <3>2 DEF Overruns
    <3> QED
      BY <3>1, <3>3
  <2> QED
    BY <2>1, <2>2
<1>6. Offset(s, k + 1) = Offset(s, k) + Size(l)
  BY <1>1, <1>3, OffsetStep
<1>7. Offset(s, k + 1) <= Offset(s, Len(s) + 1) /\ Offset(s, k + 1) \in Nat /\ Offset(s, Len(s) + 1) \in Nat
  <2>1. Len(s) \in Nat
    BY <1>3
  <2>2. k + 1 \in 1 .. Len(s) + 1 /\ Len(s) + 1 \in k + 1 .. Len(s) + 1
    BY <1>3, <2>1
  <2> QED
    BY <2>2, OffsetGrows
<1>8. Len(RelocationsOf(s)) \in Nat
  <2>1. RelocationsOf(s) \in Seq(Nat)
    BY RelocationsType
  <2> QED
    BY <2>1
<1>9. PICK a \in Nat, b \in Nat, c \in Nat :
        a = Offset(s, k + 1) /\ b = Offset(s, Len(s) + 1) /\ c = Len(RelocationsOf(s))
  BY <1>7, <1>8
<1>10. a > UINT16_MAX /\ a <= b
  BY <1>4, <1>5, <1>6, <1>7, <1>9
<1>11. ~(8 + 2 * c + b <= UINT16_MAX)
  BY <1>10 DEF AssemblerAssumption
<1> QED
  BY <1>3, <1>9, <1>11 DEF SizeWithin, HEADER

-----------------------------------------------------------------------------
(* The end of the second pass.                                             *)

LEMMA TwoEach ==
  ASSUME NEW n \in Nat
  PROVE  Total([k \in 1 .. n |-> 2]) = 2 * n
<1> DEFINE twos(m) == [k \in 1 .. m |-> 2]
           S == {m \in 0 .. n : Total(twos(m)) # 2 * m}
<1>1. SUFFICES ASSUME S # {} PROVE FALSE
  <2>1. n \in 0 .. n
    OBVIOUS
  <2> QED
    BY <2>1
<1>2. PICK m \in S : \A b \in S : m <= b
  <2>1. S \in SUBSET Nat
    OBVIOUS
  <2> HIDE DEF S
  <2> QED
    BY <1>1, <2>1, LeastMember
<1>3. m \in Nat /\ m \in 0 .. n /\ Total(twos(m)) # 2 * m
  OBVIOUS
<1>4. m # 0
  <2>1. twos(0) = <<>>
    OBVIOUS
  <2>2. Total(twos(0)) = 2 * 0
    BY <2>1, TotalEmpty
  <2> HIDE DEF twos
  <2> QED
    BY <1>3, <2>2
<1>5. PICK h \in Nat : m = h + 1 /\ h \in 0 .. n
  <2>1. m - 1 \in Nat /\ m = (m - 1) + 1 /\ m - 1 \in 0 .. n
    BY <1>3, <1>4
  <2> QED
    BY <2>1
<1>6. ~(m <= h)
  BY <1>3, <1>5
<1>7. Total(twos(h)) = 2 * h
  BY <1>2, <1>5, <1>6
<1>8. twos(h) \in Seq(Nat) /\ Len(twos(h)) = h
  OBVIOUS
<1>9. twos(h + 1) = Append(twos(h), 2)
  <2>1. twos(h + 1) \in Seq(Nat) /\ Len(twos(h + 1)) = h + 1 /\ 2 \in Nat
    OBVIOUS
  <2>2. \A k \in 1 .. h + 1 : twos(h + 1)[k] = IF k = h + 1 THEN 2 ELSE twos(h)[k]
    OBVIOUS
  <2> HIDE DEF twos
  <2>3. /\ Append(twos(h), 2) \in Seq(Nat) /\ Len(Append(twos(h), 2)) = Len(twos(h)) + 1
        /\ \A k \in DOMAIN Append(twos(h), 2) :
             Append(twos(h), 2)[k] = IF k = Len(twos(h)) + 1 THEN 2 ELSE twos(h)[k]
    BY <1>8, <2>1, AppendType
  <2>4. PICK a \in Seq(Nat), b \in Seq(Nat) : a = Append(twos(h), 2) /\ b = twos(h + 1)
    BY <2>1, <2>3
  <2>5. Len(a) = h + 1 /\ Len(b) = h + 1 /\ DOMAIN a = 1 .. h + 1
    BY <1>8, <2>1, <2>3, <2>4
  <2>6. \A k \in 1 .. h + 1 : a[k] = b[k]
    BY <1>8, <2>2, <2>3, <2>4, <2>5
  <2>7. a = b
    BY <2>5, <2>6, SeqEqual
  <2> QED
    BY <2>4, <2>7
<1> HIDE DEF twos
<1>10. Total(Append(twos(h), 2)) = Total(twos(h)) + 2
  <2>1. 2 \in Nat
    OBVIOUS
  <2> QED
    BY <1>8, <2>1, TotalAppend
<1>11. Total(twos(m)) = 2 * h + 2
  BY <1>5, <1>7, <1>9, <1>10
<1>12. 2 * h + 2 = 2 * m
  BY <1>5
<1> QED
  BY <1>3, <1>11, <1>12

LEMMA TableOf ==
  ASSUME NEW rel \in Seq(Nat)
  PROVE  LET table == FlattenSeq([k \in DOMAIN rel |-> Word2(rel[k])])
         IN  table \in Seq(Nat) /\ Len(table) = 2 * Len(rel)
<1>1. PICK n \in Nat : n = Len(rel) /\ DOMAIN rel = 1 .. n
  OBVIOUS
<1> DEFINE B  == Seq(Nat)
           ss == [k \in 1 .. n |-> Word2(rel[k])]
<1>2. \A k \in 1 .. n : rel[k] \in Nat
  BY <1>1
<1>3. \A k \in 1 .. n : Word2(rel[k]) \in B /\ Len(Word2(rel[k])) = 2
  BY <1>2, Word2Of
<1>4. ss \in Seq(B) /\ Len(ss) = n
  <2> HIDE DEF B
  <2> QED
    BY <1>3
<1>5. [k \in 1 .. n |-> Len(ss[k])] = [k \in 1 .. n |-> 2]
  BY <1>3
<1>6. ss = [k \in DOMAIN rel |-> Word2(rel[k])]
  BY <1>1
<1> HIDE DEF ss
<1>7. FlattenSeq(ss) \in Seq(Nat)
  BY <1>4, FlattenType
<1>8. Len(FlattenSeq(ss)) = Total([k \in 1 .. Len(ss) |-> Len(ss[k])])
  BY <1>4, LengthOfFlat
<1>9. Len(FlattenSeq(ss)) = Total([k \in 1 .. n |-> 2])
  BY <1>4, <1>5, <1>8
<1>10. Len(FlattenSeq(ss)) = 2 * n
  BY <1>9, TwoEach
<1> QED
  BY <1>1, <1>6, <1>7, <1>10

Sized(a, n) == a \in Seq(Nat) /\ Len(a) = n

LEMMA Joined ==
  ASSUME NEW a, NEW b, NEW n \in Nat, NEW m \in Nat, Sized(a, n), Sized(b, m)
  PROVE  Sized(a \o b, n + m)
<1>1. a \in Seq(Nat) /\ b \in Seq(Nat) /\ Len(a) = n /\ Len(b) = m
  BY Zenon DEF Sized
<1>2. a \o b \in Seq(Nat)
  BY <1>1
<1>3. Len(a \o b) = Len(a) + Len(b)
  BY <1>1, ConcatLength, Zenon
<1> QED
  BY <1>1, <1>2, <1>3, Zenon DEF Sized

LEMMA ExecutableLength ==
  ASSUME NEW bin \in Seq(Nat), NEW rel \in Seq(Nat), NEW entry \in Nat
  PROVE  /\ Executable(bin, rel, entry) \in Seq(Nat)
         /\ Len(Executable(bin, rel, entry)) = 8 + 2 * Len(rel) + Len(bin)
<1>1. PICK table : table = FlattenSeq([k \in DOMAIN rel |-> Word2(rel[k])])
  OBVIOUS
<1>2. PICK n \in Nat, l \in Nat : n = Len(rel) /\ l = Len(bin)
  OBVIOUS
<1>3. PICK t \in Nat, start \in Nat : t = 2 * n /\ start = 8 + 2 * n
  OBVIOUS
<1>4. Sized(table, t) /\ Sized(bin, l)
  BY <1>1, <1>2, <1>3, TableOf DEF Sized
<1>5. PICK x \in Nat : x = start + entry
  OBVIOUS
<1>6. Sized(Word2(start), 2) /\ Sized(Word2(x), 2) /\ Sized(Word2(n), 2)
  BY Word2Of DEF Sized
<1>7. Sized(<<127, 242>>, 2)
  <2>1. 127 \in Nat /\ 242 \in Nat
    OBVIOUS
  <2> QED
    BY <2>1, ShortOf, Zenon DEF Sized
<1>8. Executable(bin, rel, entry) = <<127, 242>> \o Word2(start) \o Word2(x) \o Word2(n) \o table \o bin
  BY <1>1, <1>2, <1>3, <1>5, Zenon DEF Executable, HEADER
<1>9. Sized(<<127, 242>> \o Word2(start), 2 + 2)
  BY <1>6, <1>7, Joined
<1>10. Sized(<<127, 242>> \o Word2(start) \o Word2(x), 2 + 2 + 2)
  BY <1>6, <1>9, Joined
<1>11. Sized(<<127, 242>> \o Word2(start) \o Word2(x) \o Word2(n), 2 + 2 + 2 + 2)
  BY <1>6, <1>10, Joined
<1>12. Sized(<<127, 242>> \o Word2(start) \o Word2(x) \o Word2(n) \o table, 2 + 2 + 2 + 2 + t)
  BY <1>4, <1>11, Joined
<1>13. Sized(Executable(bin, rel, entry), 2 + 2 + 2 + 2 + t + l)
  BY <1>4, <1>8, <1>12, Joined
<1>14. 2 + 2 + 2 + 2 + t + l = 8 + 2 * n + l
  BY <1>3
<1> QED
  BY <1>2, <1>13, <1>14, Zenon DEF Sized

(* Every line has the bytes that the lines behind it are moved up by.      *)
Laid(s) == CodeOf(s) \in Seq(Nat) /\ Len(CodeOf(s)) = Offset(s, Len(s) + 1)

(* What is known when every line has been assembled.                       *)
LEMMA AllDealt ==
  ASSUME AssemblerAssumption, NEW s \in Seq(Seq(Words)), NEW ss, NEW main, NEW bin, NEW rel,
         bin \in Seq(Nat), SecondPassAt(s, Len(s), ss, main, bin, rel)
  PROVE  /\ rel = RelocationsOf(s) /\ rel \in Seq(Nat) /\ Len(bin) = Offset(s, Len(s) + 1)
         /\ main # NoMain => Correct(s)
         /\ main = NoMain => ~Correct(s) \/ ~SizeWithin(s, UINT16_MAX)
         /\ main # NoMain /\ SizeWithin(s, UINT16_MAX) =>
              Laid(s) /\ Executable(bin, rel, main) = ExecutableOf(s)
<1>1. DOMAIN s = 1 .. Len(s)
  OBVIOUS
<1>2. \A n \in DOMAIN s : IsCode(s[n]) => CorrectLine(s, s[n])
  BY <1>1 DEF SecondPassAt
<1>3. Sound(s)
  <2>1. \A n \in DOMAIN s : CorrectLine(s, s[n]) =>
          s[n][1].kind = "op" /\ (IsStr(s[n]) => Len(Operands(s[n])) = 1)
    BY Zenon DEF CorrectLine
  <2> QED
    BY <1>2, <2>1, Zenon DEF Sound
<1>4. rel = RelocationsOf(s)
  BY <1>1 DEF SecondPassAt, RelocatedTo, RelocatedBy, RelocationsOf
<1>5. rel \in Seq(Nat)
  BY <1>4, RelocationsType
<1>6. Len(bin) = Offset(s, Len(s) + 1)
  BY DEF SecondPassAt
<1>7. Recorded(s, ss, main, Labels(s))
  BY DEF SecondPassAt
<1>8. SizeWithin(s, UINT16_MAX) => /\ Resolved(s, ss, main, Labels(s))
                                   /\ bin = CodeTo(s, Len(s))
  BY <1>3 DEF SecondPassAt, Good
<1>9. "main" \in NamesIn(ss) <=> Defined(s, "main")
  BY <1>7, Meant
<1>10. main # NoMain => Correct(s)
  BY <1>2, <1>7, <1>9, Zenon DEF Recorded, Correct
<1>11. ASSUME main = NoMain, Correct(s), SizeWithin(s, UINT16_MAX)
       PROVE  FALSE
  <2>1. Defined(s, "main") /\ "main" \in NamesIn(ss)
    BY <1>9, <1>11, Zenon DEF Correct
  <2>2. AddressIn(ss, "main") = Meaning(s, "main")
    BY <1>7, <1>8, <1>11, <2>1, Meant
  <2>3. main = AddressIn(ss, "main")
    BY <1>8, <1>11, <2>1, Zenon DEF Resolved
  <2>4. PICK n \in Labels(s) : Meaning(s, "main") = Offset(s, n)
    BY <1>7, <2>1, Meant
  <2>5. n \in 1 .. Len(s) + 1
    <3>1. n \in 1 .. Len(s) /\ Len(s) \in Nat
      BY LabelsOf
    <3> QED
      BY <3>1
  <2>6. Offset(s, n) < NoMain /\ Offset(s, n) \in Nat
    BY <1>3, <1>11, <2>5, GoodOffset DEF Good
  <2>7. PICK o \in Nat : o = Offset(s, n)
    BY <2>6
  <2>8. NoMain = o /\ o < NoMain
    BY <1>11, <2>2, <2>3, <2>4, <2>6, <2>7, Zenon
  <2> QED
    BY <2>7, <2>8
<1>12. ASSUME main # NoMain, SizeWithin(s, UINT16_MAX)
       PROVE  Laid(s) /\ Executable(bin, rel, main) = ExecutableOf(s)
  <2>1. "main" \in NamesIn(ss)
    BY <1>7, <1>12, Zenon DEF Recorded
  <2>2. AddressIn(ss, "main") = Meaning(s, "main")
    BY <1>7, <1>8, <1>12, <2>1, Meant
  <2>3. main = Meaning(s, "main")
    BY <1>8, <1>12, <2>1, <2>2, Zenon DEF Resolved
  <2>4. bin = CodeOf(s)
    BY <1>1, <1>8, <1>12 DEF CodeTo, CodeOf
  <2>5. Laid(s)
    BY <1>6, <2>4 DEF Laid
  <2> QED
    BY <1>4, <2>3, <2>4, <2>5, Zenon DEF ExecutableOf
<1> QED
  BY <1>4, <1>5, <1>6, <1>10, <1>11, <1>12

-----------------------------------------------------------------------------
(* What binload makes of the executable.                                   *)

(* Numbers at least two apart, from lo up to two in front of hi.           *)
Spaced(a, lo, hi) ==
  /\ a \in Seq(Nat)
  /\ \A k \in 1 .. Len(a) : lo <= a[k] /\ a[k] + 2 <= hi
  /\ \A h, k \in 1 .. Len(a) : h < k => a[h] + 2 <= a[k]

LEMMA SpacedEmpty == \A lo, hi : Spaced(<<>>, lo, hi)
<1>1. <<>> \in Seq(Nat) /\ Len(<<>>) = 0 /\ 1 .. 0 = {}
  OBVIOUS
<1> QED
  BY <1>1 DEF Spaced

LEMMA SpacedConcat ==
  ASSUME NEW lo \in Nat, NEW m \in Nat, NEW hi \in Nat, lo <= m, m <= hi,
         NEW a, NEW b, Spaced(a, lo, m), Spaced(b, m, hi)
  PROVE  Spaced(a \o b, lo, hi)
<1>1. a \in Seq(Nat) /\ b \in Seq(Nat)
  BY DEF Spaced
<1>2. PICK n \in Nat, l \in Nat : n = Len(a) /\ l = Len(b)
  BY <1>1
<1>3. PICK c : c = a \o b
  OBVIOUS
<1>4. /\ c \in Seq(Nat) /\ Len(c) = n + l
      /\ \A k \in 1 .. n + l : c[k] = IF k <= n THEN a[k] ELSE b[k - n]
  BY <1>1, <1>2, <1>3, ConcatProperties
<1>5. /\ \A k \in 1 .. n : a[k] \in Nat /\ lo <= a[k] /\ a[k] + 2 <= m
      /\ \A k \in 1 .. l : b[k] \in Nat /\ m <= b[k] /\ b[k] + 2 <= hi
      /\ \A h, k \in 1 .. n : h < k => a[h] + 2 <= a[k]
      /\ \A h, k \in 1 .. l : h < k => b[h] + 2 <= b[k]
  BY <1>1, <1>2 DEF Spaced
<1>6. ASSUME NEW k \in 1 .. n + l
      PROVE  \/ k \in 1 .. n /\ c[k] = a[k]
             \/ k - n \in 1 .. l /\ ~(k <= n) /\ c[k] = b[k - n]
  <2>1. k <= n => k \in 1 .. n
    OBVIOUS
  <2>2. ~(k <= n) => k - n \in 1 .. l
    OBVIOUS
  <2> QED
    BY <1>4, <2>1, <2>2
<1>7. ASSUME NEW k \in 1 .. n + l
      PROVE  lo <= c[k] /\ c[k] + 2 <= hi
  <2>1. CASE k \in 1 .. n /\ c[k] = a[k]
    BY <1>5, <2>1
  <2>2. CASE k - n \in 1 .. l /\ ~(k <= n) /\ c[k] = b[k - n]
    BY <1>5, <2>2
  <2> QED
    BY <1>6, <2>1, <2>2
<1>8. ASSUME NEW h \in 1 .. n + l, NEW k \in 1 .. n + l, h < k
      PROVE  c[h] + 2 <= c[k]
  <2>1. CASE k \in 1 .. n /\ c[k] = a[k]
    <3>1. h \in 1 .. n /\ h <= n
      BY <1>8, <2>1
    <3>2. c[h] = a[h]
      BY <1>4, <3>1
    <3> QED
      BY <1>5, <1>8, <2>1, <3>1, <3>2
  <2>2. CASE k - n \in 1 .. l /\ ~(k <= n) /\ c[k] = b[k - n]
    <3>1. CASE h \in 1 .. n /\ c[h] = a[h]
      BY <1>5, <2>2, <3>1
    <3>2. CASE h - n \in 1 .. l /\ ~(h <= n) /\ c[h] = b[h - n]
      <4>1. h - n < k - n
        BY <1>8
      <4> QED
        BY <1>5, <2>2, <3>2, <4>1
    <3> QED
      BY <1>6, <3>1, <3>2
  <2> QED
    BY <1>6, <2>1, <2>2
<1> QED
  BY <1>3, <1>4, <1>7, <1>8 DEF Spaced

(* Pieces that lie one behind the other, put together.                     *)
LEMMA SpacedFlat ==
  ASSUME NEW n \in Nat, NEW g, NEW f, \A k \in 1 .. n + 1 : f[k] \in Nat,
         \A k \in 1 .. n : f[k] <= f[k + 1] /\ Spaced(g[k], f[k], f[k + 1])
  PROVE  Spaced(FlattenSeq([k \in 1 .. n |-> g[k]]), f[1], f[n + 1])
<1> DEFINE flat(m) == FlattenSeq([k \in 1 .. m |-> g[k]])
           P(m) == f[1] <= f[m + 1] /\ Spaced(flat(m), f[1], f[m + 1])
           S == {m \in 0 .. n : ~P(m)}
<1>1. SUFFICES ASSUME S # {} PROVE FALSE
  <2>1. n \in 0 .. n
    OBVIOUS
  <2>2. P(n) => Spaced(FlattenSeq([k \in 1 .. n |-> g[k]]), f[1], f[n + 1])
    BY Zenon
  <2> HIDE DEF P
  <2> QED
    BY <2>1, <2>2
<1>2. PICK m \in S : \A b \in S : m <= b
  <2>1. S \in SUBSET Nat
    OBVIOUS
  <2> HIDE DEF S
  <2> QED
    BY <1>1, <2>1, LeastMember
<1>3. m \in 0 .. n /\ m \in Nat /\ ~P(m)
  OBVIOUS
<1>4. \A k \in 1 .. n : g[k] \in Seq(Nat)
  BY DEF Spaced
<1>5. m # 0
  <2>1. P(0)
    <3>1. [k \in 1 .. 0 |-> g[k]] = <<>>
      OBVIOUS
    <3>2. flat(0) = <<>>
      BY <3>1, FlattenEmpty
    <3>3. 0 + 1 = 1 /\ f[1] \in Nat
      OBVIOUS
    <3> HIDE DEF flat
    <3> QED
      BY <3>2, <3>3, SpacedEmpty
  <2> HIDE DEF P
  <2> QED
    BY <1>3, <2>1
<1>6. PICK h \in Nat : m = h + 1 /\ h \in 0 .. n /\ h + 1 \in 1 .. n
  <2>1. m - 1 \in Nat /\ m = (m - 1) + 1 /\ m - 1 \in 0 .. n /\ (m - 1) + 1 \in 1 .. n
    BY <1>3, <1>5
  <2> QED
    BY <2>1
<1>7. P(h)
  <2>1. ~(m <= h)
    BY <1>3, <1>6
  <2> HIDE DEF P
  <2> QED
    BY <1>2, <1>6, <2>1
<1>8. flat(h + 1) = flat(h) \o g[h + 1]
  <2>1. \A k \in 1 .. h + 1 : g[k] \in Seq(Nat)
    BY <1>4, <1>6
  <2> QED
    BY <2>1, FlatTo
<1>9. /\ f[1] \in Nat /\ f[h + 1] \in Nat /\ f[(h + 1) + 1] \in Nat
      /\ f[h + 1] <= f[(h + 1) + 1] /\ Spaced(g[h + 1], f[h + 1], f[(h + 1) + 1])
  <2>1. 1 \in 1 .. n + 1 /\ h + 1 \in 1 .. n + 1 /\ (h + 1) + 1 \in 1 .. n + 1
    BY <1>6
  <2> QED
    BY <1>6, <2>1
<1> HIDE DEF flat
<1>10. f[1] <= f[h + 1] /\ Spaced(flat(h), f[1], f[h + 1])
  BY <1>7
<1>11. Spaced(flat(h) \o g[h + 1], f[1], f[(h + 1) + 1])
  BY <1>9, <1>10, SpacedConcat
<1>12. f[1] <= f[(h + 1) + 1]
  BY <1>9, <1>10
<1>13. P(h + 1)
  BY <1>8, <1>11, <1>12
<1> HIDE DEF P
<1> QED
  BY <1>3, <1>6, <1>13

-----------------------------------------------------------------------------
(* The relocations of a line lie in its code, those of a source in its.    *)
LEMMA ReferencesSpaced ==
  ASSUME NEW s \in Seq(Seq(Words)), NEW n \in 1 .. Len(s), IsCode(s[n]), ~IsStr(s[n])
  PROVE  Spaced(References(s, n), Offset(s, n), Offset(s, n + 1))
<1>1. PICK o \in Seq(Words) : o = Operands(s[n])
  <2>1. s[n] \in Seq(Words)
    OBVIOUS
  <2> QED
    BY <2>1, OperandsOf
<1>2. PICK m \in Nat : m = Len(o) /\ DOMAIN o = 1 .. m
  BY <1>1
<1>3. PICK x \in Nat : x = Offset(s, n)
  BY OffsetStep
<1> DEFINE g == [k \in 1 .. m |-> IF o[k].kind = "ref" THEN <<x + 1 + Widths(o, k - 1)>> ELSE <<>>]
           f == [k \in 1 .. m + 1 |-> x + 1 + Widths(o, k - 1)]
<1>4. \A k \in 0 .. m : Widths(o, k) \in Nat
  BY WidthsStep
<1>5. ASSUME NEW k \in 1 .. m + 1
      PROVE  f[k] \in Nat
  <2>1. k - 1 \in 0 .. m
    OBVIOUS
  <2> QED
    BY <1>4, <2>1
<1>6. ASSUME NEW k \in 1 .. m
      PROVE  f[k] <= f[k + 1] /\ Spaced(g[k], f[k], f[k + 1])
  <2>1. k - 1 \in 0 .. m /\ k \in 1 .. m + 1 /\ k + 1 \in 1 .. m + 1 /\ (k + 1) - 1 = k
        /\ k - 1 \in Nat /\ (k - 1) + 1 = k
    OBVIOUS
  <2>2. PICK w \in Nat : w = Widths(o, k - 1)
    BY <1>4, <2>1
  <2>3. Widths(o, k) = w + Width(o[k]) /\ Width(o[k]) \in {1, 2}
    BY <2>1, <2>2, WidthsStep, WidthType
  <2>4. f[k] = x + 1 + w /\ f[k + 1] = x + 1 + (w + Width(o[k]))
    BY <2>1, <2>2, <2>3
  <2>5. g[k] = IF o[k].kind = "ref" THEN <<x + 1 + w>> ELSE <<>>
    BY <2>2
  <2> HIDE DEF f, g
  <2>6. f[k] <= f[k + 1]
    BY <2>3, <2>4
  <2>7. CASE o[k].kind = "ref"
    <3>1. Width(o[k]) = 2
      BY <2>7 DEF Width
    <3>2. PICK y \in Nat : y = x + 1 + w
      OBVIOUS
    <3>3. <<y>> \in Seq(Nat) /\ Len(<<y>>) = 1 /\ <<y>>[1] = y
      OBVIOUS
    <3>4. g[k] = <<y>> /\ f[k] = y /\ f[k + 1] = y + 2
      BY <2>4, <2>5, <2>7, <3>1, <3>2
    <3>5. Spaced(<<y>>, y, y + 2)
      BY <3>3 DEF Spaced
    <3> QED
      BY <2>6, <3>4, <3>5
  <2>8. CASE o[k].kind # "ref"
    BY <2>5, <2>6, <2>8, SpacedEmpty
  <2> QED
    BY <2>7, <2>8
<1>7. References(s, n) = FlattenSeq([k \in 1 .. m |-> g[k]])
  <2>1. References(s, n) =
          FlattenSeq([k \in 1 .. m |-> IF o[k].kind = "ref"
                                       THEN <<Offset(s, n) + 1 + Widths(o, k - 1)>> ELSE <<>>])
    BY <1>1, <1>2 DEF References
  <2>2. [k \in 1 .. m |-> IF o[k].kind = "ref"
                          THEN <<Offset(s, n) + 1 + Widths(o, k - 1)>> ELSE <<>>]
        = [k \in 1 .. m |-> g[k]]
    BY <1>3
  <2> QED
    BY <2>1, <2>2
<1>8. f[1] \in Nat /\ x <= f[1] /\ f[m + 1] = Offset(s, n + 1)
  <2>1. Offset(s, n + 1) = Offset(s, n) + Size(s[n])
    BY OffsetStep
  <2>2. Size(s[n]) = 1 + Widths(o, m)
    BY <1>1, <1>2 DEF Size
  <2>3. 1 \in 1 .. m + 1 /\ m + 1 \in 1 .. m + 1 /\ (m + 1) - 1 = m /\ 1 - 1 = 0 /\ 0 \in 0 .. m /\ m \in 0 .. m
    OBVIOUS
  <2>4. f[1] = x + 1 + Widths(o, 0) /\ f[m + 1] = x + 1 + Widths(o, m)
    BY <2>3
  <2> HIDE DEF f
  <2>5. Widths(o, 0) \in Nat /\ Widths(o, m) \in Nat
    BY <1>4, <2>3
  <2> QED
    BY <1>3, <2>1, <2>2, <2>4, <2>5
<1> HIDE DEF f, g
<1>9. Spaced(FlattenSeq([k \in 1 .. m |-> g[k]]), f[1], f[m + 1])
  BY <1>5, <1>6, SpacedFlat
<1>10. PICK r : r = References(s, n) /\ Spaced(r, f[1], f[m + 1])
  BY <1>7, <1>9
<1>11. Spaced(r, x, f[m + 1])
  BY <1>8, <1>10 DEF Spaced
<1> QED
  BY <1>3, <1>8, <1>10, <1>11

LEMMA RelocationsSpaced ==
  ASSUME NEW s \in Seq(Seq(Words))
  PROVE  Spaced(RelocationsOf(s), 0, Offset(s, Len(s) + 1))
<1>1. PICK n \in Nat : n = Len(s) /\ DOMAIN s = 1 .. n
  OBVIOUS
<1> DEFINE g == [k \in 1 .. n |-> RelocatedBy(s, k)]
           f == [k \in 1 .. n + 1 |-> Offset(s, k)]
<1>2. ASSUME NEW k \in 1 .. n
      PROVE  /\ f[k] \in Nat /\ f[k + 1] \in Nat /\ f[k] <= f[k + 1]
             /\ Spaced(g[k], f[k], f[k + 1])
  <2>1. k \in 1 .. n + 1 /\ k + 1 \in k .. n + 1 /\ k + 1 \in 1 .. n + 1
    OBVIOUS
  <2>2. f[k] = Offset(s, k) /\ f[k + 1] = Offset(s, k + 1) /\ g[k] = RelocatedBy(s, k)
    BY <2>1
  <2> HIDE DEF f, g
  <2>3. Offset(s, k) \in Nat /\ Offset(s, k + 1) \in Nat /\ Offset(s, k) <= Offset(s, k + 1)
    BY <1>1, <2>1, OffsetGrows
  <2>4. Spaced(RelocatedBy(s, k), Offset(s, k), Offset(s, k + 1))
    BY <1>1, ReferencesSpaced, SpacedEmpty DEF RelocatedBy
  <2> QED
    BY <2>2, <2>3, <2>4
<1>3. f[1] = 0 /\ f[n + 1] = Offset(s, n + 1)
  <2>1. 1 \in 1 .. n + 1 /\ n + 1 \in 1 .. n + 1
    OBVIOUS
  <2>2. Offset(s, 1) = 0
    <3>1. [k \in 1 .. 1 - 1 |-> Size(s[k])] = <<>>
      OBVIOUS
    <3> QED
      BY <3>1, TotalEmpty DEF Offset
  <2> QED
    BY <2>1, <2>2
<1>4. RelocationsOf(s) = FlattenSeq([k \in 1 .. n |-> g[k]])
  <2>1. [k \in 1 .. n |-> g[k]] = [k \in 1 .. n |-> RelocatedBy(s, k)]
    OBVIOUS
  <2> QED
    BY <1>1, <2>1 DEF RelocationsOf, RelocatedBy
<1>5. \A k \in 1 .. n + 1 : f[k] \in Nat
  <2>1. \A k \in 1 .. n + 1 : k \in 1 .. n \/ k = n + 1
    OBVIOUS
  <2>2. f[n + 1] \in Nat
    <3>1. CASE n = 0
      <4>1. n + 1 = 1 /\ 0 \in Nat
        BY <3>1
      <4> HIDE DEF f
      <4> QED
        BY <1>3, <4>1, Zenon
    <3>2. CASE n # 0
      <4>1. n \in 1 .. n
        BY <3>2
      <4> HIDE DEF f, g
      <4> QED
        BY <1>2, <4>1
    <3> QED
      BY <3>1, <3>2
  <2> HIDE DEF f, g
  <2> QED
    BY <1>2, <2>1, <2>2
<1> HIDE DEF f, g
<1>6. Spaced(FlattenSeq([k \in 1 .. n |-> g[k]]), f[1], f[n + 1])
  BY <1>2, <1>5, SpacedFlat
<1> QED
  BY <1>1, <1>3, <1>4, <1>6

-----------------------------------------------------------------------------
(* The fields of the file.                                                 *)

(* f holds the word w behind its first k bytes.                            *)
Holds(f, k, w) == /\ f \in Seq(Nat) /\ k + 2 <= Len(f)
                  /\ f[k + 1] = w % 256 /\ f[k + 2] = w \div 256

LEMMA HoldsInFront ==
  ASSUME NEW a, NEW b \in Seq(Nat), NEW k \in Nat, NEW w, Holds(a, k, w)
  PROVE  Holds(a \o b, k, w)
<1>1. PICK c : c = a \o b
  OBVIOUS
<1>2. a \in Seq(Nat) /\ Len(a) \in Nat /\ Len(b) \in Nat /\ k + 2 <= Len(a)
  BY DEF Holds
<1>3. /\ c \in Seq(Nat) /\ Len(c) = Len(a) + Len(b)
      /\ \A h \in 1 .. Len(a) + Len(b) : c[h] = IF h <= Len(a) THEN a[h] ELSE b[h - Len(a)]
  BY <1>1, <1>2, ConcatProperties
<1>4. c[k + 1] = a[k + 1] /\ c[k + 2] = a[k + 2]
  <2>1. /\ k + 1 \in 1 .. Len(a) + Len(b) /\ k + 1 <= Len(a)
        /\ k + 2 \in 1 .. Len(a) + Len(b) /\ k + 2 <= Len(a)
    BY <1>2
  <2> QED
    BY <1>3, <2>1
<1> QED
  BY <1>1, <1>2, <1>3, <1>4 DEF Holds

LEMMA HoldsBehind ==
  ASSUME NEW a \in Seq(Nat), NEW b, NEW k \in Nat, NEW w, Holds(b, k, w)
  PROVE  Holds(a \o b, Len(a) + k, w)
<1>1. PICK c : c = a \o b
  OBVIOUS
<1>2. b \in Seq(Nat) /\ Len(a) \in Nat /\ Len(b) \in Nat /\ k + 2 <= Len(b)
  BY DEF Holds
<1>3. /\ c \in Seq(Nat) /\ Len(c) = Len(a) + Len(b)
      /\ \A h \in 1 .. Len(a) + Len(b) : c[h] = IF h <= Len(a) THEN a[h] ELSE b[h - Len(a)]
  BY <1>1, <1>2, ConcatProperties
<1>4. c[Len(a) + k + 1] = b[k + 1] /\ c[Len(a) + k + 2] = b[k + 2]
  <2>1. /\ Len(a) + k + 1 \in 1 .. Len(a) + Len(b) /\ ~(Len(a) + k + 1 <= Len(a))
        /\ Len(a) + k + 2 \in 1 .. Len(a) + Len(b) /\ ~(Len(a) + k + 2 <= Len(a))
        /\ Len(a) + k + 1 - Len(a) = k + 1 /\ Len(a) + k + 2 - Len(a) = k + 2
    BY <1>2
  <2> QED
    BY <1>3, <2>1
<1>5. Len(a) + k + 2 <= Len(c)
  BY <1>2, <1>3
<1> QED
  BY <1>1, <1>3, <1>4, <1>5 DEF Holds

LEMMA HoldsWord2 == \A w \in Nat : Holds(Word2(w), 0, w)
<1> SUFFICES ASSUME NEW w \in Nat PROVE Holds(Word2(w), 0, w)
  OBVIOUS
<1>1. Word2(w) \in Seq(Nat) /\ Len(Word2(w)) = 2
  BY Word2Of
<1>2. Word2(w)[1] = w % 256 /\ Word2(w)[2] = w \div 256
  BY DEF Word2
<1> QED
  BY <1>1, <1>2 DEF Holds

LEMMA TableHolds ==
  ASSUME NEW rel \in Seq(Nat), NEW k \in 0 .. Len(rel) - 1
  PROVE  Holds(FlattenSeq([h \in DOMAIN rel |-> Word2(rel[h])]), 2 * k, rel[k + 1])
<1>1. PICK n \in Nat : n = Len(rel) /\ DOMAIN rel = 1 .. n
  OBVIOUS
<1> DEFINE g == [h \in 1 .. n |-> Word2(rel[h])]
           flat(m) == FlattenSeq([h \in 1 .. m |-> g[h]])
           P(m) == /\ flat(m) \in Seq(Nat) /\ Len(flat(m)) = 2 * m
                   /\ \A h \in 0 .. m - 1 : Holds(flat(m), 2 * h, rel[h + 1])
           S == {m \in 0 .. n : ~P(m)}
<1>2. flat(n) = FlattenSeq([h \in DOMAIN rel |-> Word2(rel[h])])
  <2>1. [h \in 1 .. n |-> g[h]] = [h \in DOMAIN rel |-> Word2(rel[h])]
    BY <1>1
  <2> QED
    BY <2>1
<1>3. SUFFICES ASSUME S # {} PROVE FALSE
  <2>1. n \in 0 .. n /\ k \in 0 .. n - 1
    BY <1>1
  <2> HIDE DEF flat
  <2> QED
    BY <1>2, <2>1
<1>4. PICK m \in S : \A b \in S : m <= b
  <2>1. S \in SUBSET Nat
    OBVIOUS
  <2> HIDE DEF S
  <2> QED
    BY <1>3, <2>1, LeastMember
<1>5. m \in 0 .. n /\ m \in Nat /\ ~P(m)
  <2> HIDE DEF P
  <2> QED
    OBVIOUS
<1>6. \A h \in 1 .. n : rel[h] \in Nat /\ g[h] = Word2(rel[h]) /\ g[h] \in Seq(Nat) /\ Len(g[h]) = 2
  <2>1. \A h \in 1 .. n : rel[h] \in Nat
    BY <1>1
  <2> QED
    BY <2>1, Word2Of
<1>7. m # 0
  <2>1. P(0)
    <3>1. [h \in 1 .. 0 |-> g[h]] = <<>> /\ <<>> \in Seq(Nat) /\ Len(<<>>) = 0
      OBVIOUS
    <3>2. flat(0) = <<>>
      BY <3>1, FlattenEmpty
    <3>3. 0 .. 0 - 1 = {} /\ 2 * 0 = 0
      OBVIOUS
    <3> HIDE DEF flat
    <3> QED
      BY <3>1, <3>2, <3>3
  <2> HIDE DEF P
  <2> QED
    BY <1>5, <2>1
<1>8. PICK d \in Nat : m = d + 1 /\ d \in 0 .. n /\ d + 1 \in 1 .. n
  <2>1. m - 1 \in Nat /\ m = (m - 1) + 1 /\ m - 1 \in 0 .. n /\ (m - 1) + 1 \in 1 .. n
    BY <1>5, <1>7
  <2> QED
    BY <2>1
<1>9. P(d)
  <2>1. ~(m <= d)
    BY <1>5, <1>8
  <2> HIDE DEF P
  <2> QED
    BY <1>4, <1>8, <2>1
<1> HIDE DEF g
<1>10. flat(d + 1) = flat(d) \o g[d + 1]
  <2>1. \A h \in 1 .. d + 1 : g[h] \in Seq(Nat)
    <3>1. \A h \in 1 .. d + 1 : h \in 1 .. n
      BY <1>8
    <3> QED
      BY <1>6, <3>1
  <2> QED
    BY <2>1, FlatTo
<1> HIDE DEF flat
<1>11. PICK a \in Seq(Nat), b \in Seq(Nat), w \in Nat :
         a = flat(d) /\ b = g[d + 1] /\ w = rel[d + 1] /\ b = Word2(w) /\ Len(a) = 2 * d /\ Len(b) = 2
  BY <1>6, <1>8, <1>9
<1>12. a \o b \in Seq(Nat) /\ Len(a \o b) = 2 * (d + 1)
  <2>1. Len(a \o b) = Len(a) + Len(b) /\ a \o b \in Seq(Nat)
    BY ConcatLength
  <2> QED
    BY <1>11, <2>1
<1>13. ASSUME NEW h \in 0 .. (d + 1) - 1
       PROVE  Holds(a \o b, 2 * h, rel[h + 1])
  <2>1. CASE h = d
    <3>1. Holds(b, 0, w)
      BY <1>11, HoldsWord2
    <3>2. Holds(a \o b, Len(a) + 0, w)
      BY <3>1, HoldsBehind
    <3>3. Len(a) + 0 = 2 * h
      BY <1>11, <2>1
    <3> QED
      BY <1>11, <2>1, <3>2, <3>3
  <2>2. CASE h # d
    <3>1. h \in 0 .. d - 1 /\ 2 * h \in Nat
      BY <2>2
    <3>2. Holds(a, 2 * h, rel[h + 1])
      BY <1>9, <1>11, <3>1
    <3> QED
      BY <3>1, <3>2, HoldsInFront
  <2> QED
    BY <2>1, <2>2
<1>14. P(d + 1)
  BY <1>10, <1>11, <1>12, <1>13
<1> HIDE DEF P
<1> QED
  BY <1>5, <1>8, <1>14

(* What a piece of the file holds, the file with it in place holds.        *)
LEMMA HoldsJoined ==
  ASSUME NEW a, NEW b, NEW n \in Nat, NEW m \in Nat, Sized(a, n), Sized(b, m),
         NEW c, c = a \o b
  PROVE  /\ Sized(c, n + m)
         /\ \A k \in Nat : \A w : Holds(a, k, w) => Holds(c, k, w)
         /\ \A k \in Nat : \A w : Holds(b, k, w) => Holds(c, n + k, w)
<1>1. a \in Seq(Nat) /\ b \in Seq(Nat) /\ Len(a) = n
  BY DEF Sized
<1>2. Sized(c, n + m)
  BY Joined
<1>3. ASSUME NEW k \in Nat, NEW w, Holds(a, k, w)
      PROVE  Holds(c, k, w)
  BY <1>1, <1>3, HoldsInFront
<1>4. ASSUME NEW k \in Nat, NEW w, Holds(b, k, w)
      PROVE  Holds(c, n + k, w)
  <2>1. Holds(a \o b, Len(a) + k, w)
    BY <1>1, <1>4, HoldsBehind
  <2> QED
    BY <1>1, <2>1
<1> QED
  BY <1>2, <1>3, <1>4

LEMMA FieldJoined ==
  ASSUME NEW a, NEW n \in Nat, Sized(a, n), NEW w \in Nat, NEW p \in Nat, p = n + 2
  PROVE  /\ Sized(a \o Word2(w), p) /\ Holds(a \o Word2(w), n, w)
         /\ \A k \in Nat : \A v : Holds(a, k, v) => Holds(a \o Word2(w), k, v)
<1>1. PICK b : b = Word2(w)
  OBVIOUS
<1>2. PICK c : c = a \o b
  OBVIOUS
<1>3. PICK m \in Nat : m = 2
  OBVIOUS
<1>4. Sized(b, m) /\ Holds(b, 0, w)
  BY <1>1, <1>3, Word2Of, HoldsWord2 DEF Sized
<1>5. /\ Sized(c, n + m)
      /\ \A k \in Nat : \A v : Holds(a, k, v) => Holds(c, k, v)
      /\ \A k \in Nat : \A v : Holds(b, k, v) => Holds(c, n + k, v)
  BY <1>4, <1>2, HoldsJoined
<1>6. n + 0 = n /\ n + m = p /\ 0 \in Nat
  BY <1>3
<1>7. Sized(c, p) /\ Holds(c, n, w) /\ \A k \in Nat : \A v : Holds(a, k, v) => Holds(c, k, v)
  BY <1>4, <1>5, <1>6
<1> QED
  BY <1>1, <1>2, <1>7, Zenon

LEMMA ExecutableFields ==
  ASSUME NEW bin \in Seq(Nat), NEW rel \in Seq(Nat), NEW entry \in Nat,
         NEW f, f = Executable(bin, rel, entry)
  PROVE  /\ Holds(f, 0, 62079)
         /\ Holds(f, 2, 8 + 2 * Len(rel))
         /\ Holds(f, 4, 8 + 2 * Len(rel) + entry)
         /\ Holds(f, 6, Len(rel))
         /\ \A k \in 0 .. Len(rel) - 1 : Holds(f, 8 + 2 * k, rel[k + 1])
<1>1. PICK table : table = FlattenSeq([k \in DOMAIN rel |-> Word2(rel[k])])
  OBVIOUS
<1>2. PICK n \in Nat, l \in Nat, t \in Nat : n = Len(rel) /\ l = Len(bin) /\ t = 2 * n
  OBVIOUS
<1>3. PICK start \in Nat, x \in Nat : start = 8 + 2 * n /\ x = start + entry
  OBVIOUS
<1>4. PICK magic \in Nat, z \in Nat, four \in Nat, six \in Nat, e \in Nat :
        magic = 62079 /\ z = 2 /\ four = 4 /\ six = 6 /\ e = 8
  OBVIOUS
<1>5. PICK two : two = <<127, 242>>
  OBVIOUS
<1>6. f = two \o Word2(start) \o Word2(x) \o Word2(n) \o table \o bin
  <2>1. two = <<127, 242>>
    BY <1>5
  <2> QED
    BY <1>1, <1>2, <1>3, <2>1, Zenon DEF Executable, HEADER
<1>7. Sized(two, z) /\ Holds(two, 0, magic)
  <2>1. two = Word2(magic)
    <3>1. 62079 % 256 = 127 /\ 62079 \div 256 = 242
      OBVIOUS
    <3> QED
      BY <1>4, <1>5, <3>1 DEF Word2
  <2> QED
    <3>1. Word2(magic) \in Seq(Nat) /\ Len(Word2(magic)) = 2 /\ Holds(Word2(magic), 0, magic)
      BY Word2Of, HoldsWord2
    <3> QED
      BY <1>4, <2>1, <3>1 DEF Sized
<1>8. Sized(table, t) /\ \A k \in 0 .. n - 1 : Holds(table, 2 * k, rel[k + 1])
  <2>1. table \in Seq(Nat) /\ Len(table) = 2 * Len(rel)
    BY <1>1, TableOf
  <2>2. \A k \in 0 .. Len(rel) - 1 : Holds(table, 2 * k, rel[k + 1])
    BY <1>1, TableHolds, Zenon
  <2> QED
    BY <1>2, <2>1, <2>2 DEF Sized
<1>9. PICK a : a = two \o Word2(start)
  OBVIOUS
<1>10. PICK b : b = a \o Word2(x)
  OBVIOUS
<1>11. PICK c : c = b \o Word2(n)
  OBVIOUS
<1>12. PICK d : d = c \o table
  OBVIOUS
<1>13. f = d \o bin
  BY <1>6, <1>9, <1>10, <1>11, <1>12
<1>14. Sized(a, four) /\ Holds(a, 0, magic) /\ Holds(a, z, start)
  <2>1. four = z + 2
    BY <1>4
  <2>2. /\ Sized(a, four) /\ Holds(a, z, start)
        /\ \A k \in Nat : \A v : Holds(two, k, v) => Holds(a, k, v)
    <3>1. Sized(two, z) /\ a = two \o Word2(start)
      BY <1>7, <1>9
    <3> QED
      BY <2>1, <3>1, FieldJoined, Zenon
  <2> QED
    BY <1>7, <2>2
<1>15. Sized(b, six) /\ Holds(b, 0, magic) /\ Holds(b, z, start) /\ Holds(b, four, x)
  <2>1. six = four + 2
    BY <1>4
  <2>2. /\ Sized(b, six) /\ Holds(b, four, x)
        /\ \A k \in Nat : \A v : Holds(a, k, v) => Holds(b, k, v)
    <3>1. Sized(a, four) /\ b = a \o Word2(x)
      BY <1>10, <1>14
    <3> QED
      BY <2>1, <3>1, FieldJoined, Zenon
  <2> QED
    BY <1>14, <2>2
<1>16. /\ Sized(c, e) /\ Holds(c, 0, magic) /\ Holds(c, z, start) /\ Holds(c, four, x)
       /\ Holds(c, six, n)
  <2>1. e = six + 2
    BY <1>4
  <2>2. /\ Sized(c, e) /\ Holds(c, six, n)
        /\ \A k \in Nat : \A v : Holds(b, k, v) => Holds(c, k, v)
    <3>1. Sized(b, six) /\ c = b \o Word2(n)
      BY <1>11, <1>15
    <3> QED
      BY <2>1, <3>1, FieldJoined, Zenon
  <2> QED
    BY <1>15, <2>2
<1>17. /\ Sized(d, e + t)
       /\ \A k \in Nat : \A w : Holds(c, k, w) => Holds(d, k, w)
       /\ \A k \in 0 .. n - 1 : Holds(d, e + 2 * k, rel[k + 1])
  <2>1. /\ Sized(d, e + t) /\ \A k \in Nat : \A w : Holds(c, k, w) => Holds(d, k, w)
        /\ \A k \in Nat : \A w : Holds(table, k, w) => Holds(d, e + k, w)
    BY <1>8, <1>12, <1>16, HoldsJoined
  <2>2. \A k \in 0 .. n - 1 : 2 * k \in Nat
    OBVIOUS
  <2> QED
    BY <1>8, <2>1, <2>2
<1>18. \A k \in Nat : \A w : Holds(d, k, w) => Holds(f, k, w)
  <2>1. PICK m \in Nat : m = e + t
    OBVIOUS
  <2>2. Sized(d, m) /\ Sized(bin, l)
    BY <1>2, <1>17, <2>1 DEF Sized
  <2> QED
    BY <1>13, <2>2, HoldsJoined
<1>19. Holds(f, 0, magic) /\ Holds(f, z, start) /\ Holds(f, four, x) /\ Holds(f, six, n)
  <2>1. 0 \in Nat
    OBVIOUS
  <2> QED
    BY <1>16, <1>17, <1>18, <2>1
<1>20. \A k \in 0 .. n - 1 : Holds(f, e + 2 * k, rel[k + 1])
  <2>1. \A k \in 0 .. n - 1 : e + 2 * k \in Nat
    OBVIOUS
  <2> QED
    BY <1>17, <1>18, <2>1
<1> QED
  BY <1>4, <1>2, <1>3, <1>19, <1>20

LEMMA MeaningOf ==
  ASSUME NEW s \in Seq(Seq(Words)), NEW x, Defined(s, x)
  PROVE  \E n \in Labels(s) : Meaning(s, x) = Offset(s, n)
<1>1. PICK n \in Labels(s) : s[n][1].val = x
  BY DEF Defined
<1>2. PICK f \in Labels(s) : FirstIn(s, Labels(s), f) /\ s[f][1].val = x
  BY <1>1, LabelsOf, FirstExists
<1>3. \A m \in Labels(s) : s[m][1].val = x => f <= m
  BY <1>2 DEF FirstIn
<1> DEFINE c == CHOOSE h \in Labels(s) : /\ s[h][1].val = x
                                         /\ \A m \in Labels(s) : s[m][1].val = x => h <= m
<1>4. c \in Labels(s)
  BY <1>2, <1>3, Zenon
<1> QED
  BY <1>4 DEF Meaning

(* A file as binload expects it: the fields of its header, and a table of  *)
(* offsets of disjoint words of the code.                                  *)
Loads(f, rel, entry, size) ==
  /\ Spaced(rel, 0, size)
  /\ Sized(f, 8 + 2 * Len(rel) + size)
  /\ Holds(f, 0, 62079)
  /\ Holds(f, 2, 8 + 2 * Len(rel))
  /\ Holds(f, 4, 8 + 2 * Len(rel) + entry)
  /\ Holds(f, 6, Len(rel))
  /\ \A k \in 0 .. Len(rel) - 1 : Holds(f, 8 + 2 * k, rel[k + 1])

LEMMA ExecutableLoads ==
  ASSUME NEW s \in Seq(Seq(Words)), Laid(s), Correct(s), NEW f, f = ExecutableOf(s)
  PROVE  \E rel \in Seq(Nat), entry \in Nat, size \in Nat :
           /\ rel = RelocationsOf(s)
           /\ entry = Meaning(s, "main") /\ size = Offset(s, Len(s) + 1)
           /\ Loads(f, rel, entry, size)
<1>1. PICK rel \in Seq(Nat) : rel = RelocationsOf(s) /\ Spaced(rel, 0, Offset(s, Len(s) + 1))
  BY RelocationsSpaced DEF Spaced
<1>2. PICK bin \in Seq(Nat), size \in Nat :
        bin = CodeOf(s) /\ size = Len(bin) /\ size = Offset(s, Len(s) + 1)
  BY DEF Laid
<1>3. PICK entry \in Nat : entry = Meaning(s, "main")
  <2>1. PICK n \in Labels(s) : Meaning(s, "main") = Offset(s, n)
    BY MeaningOf DEF Correct
  <2>2. n \in 1 .. Len(s)
    BY LabelsOf
  <2> QED
    BY <2>1, <2>2, OffsetStep
<1>4. f = Executable(bin, rel, entry)
  BY <1>1, <1>2, <1>3, Zenon DEF ExecutableOf
<1>5. Sized(f, 8 + 2 * Len(rel) + size)
  <2>1. PICK x : x = Executable(bin, rel, entry)
    OBVIOUS
  <2>2. x \in Seq(Nat) /\ Len(x) = 8 + 2 * Len(rel) + Len(bin)
    BY <2>1, ExecutableLength
  <2>3. Len(bin) = size
    BY <1>2
  <2>4. f = x
    BY <1>4, <2>1
  <2> QED
    BY <2>2, <2>3, <2>4, Zenon DEF Sized
<1>6. /\ Holds(f, 0, 62079) /\ Holds(f, 2, 8 + 2 * Len(rel)) /\ Holds(f, 4, 8 + 2 * Len(rel) + entry)
      /\ Holds(f, 6, Len(rel)) /\ \A k \in 0 .. Len(rel) - 1 : Holds(f, 8 + 2 * k, rel[k + 1])
  BY <1>4, ExecutableFields
<1>7. Loads(f, rel, entry, size)
  <2>1. Spaced(rel, 0, size)
    BY <1>1, <1>2
  <2> QED
    BY <1>5, <1>6, <2>1 DEF Loads
<1> QED
  BY <1>1, <1>2, <1>3, <1>7, Zenon

-----------------------------------------------------------------------------
(* The executable of a source that sixteen bits can address is made of     *)
(* bytes.                                                                  *)
OneByte == 0 .. 255
Narrow  == [sig : {0, 1}, byte : OneByte]

LEMMA OneByteOf == \A n : n \in OneByte <=> n \in Int /\ 0 <= n /\ n < 256
BY DEF OneByte

LEMMA HalfwordOf ==
  /\ \A n \in Halfwords : n \in Nat /\ n <= 65535
  /\ \A n \in Nat : n <= 65535 => n \in Halfwords
<1>1. \A n \in Halfwords : n \in Nat /\ n <= 65535
  BY DEF Halfwords
<1>2. \A n \in Int : n \in Halfwords <=> 0 <= n /\ n <= 65535
  BY DEF Halfwords
<1> QED
  BY <1>1, <1>2

LEMMA NumbersFit == RegNumbers \subseteq OneByte
BY DEF RegNumbers, OneByte

(* A number of sixteen bits is two bytes.                                  *)
LEMMA HalfwordBytes ==
  ASSUME NEW n \in Halfwords
  PROVE  Word2(n) \in Seq(OneByte) /\ Addr(n) \in Seq(Narrow)
<1>0. n \in Nat /\ n < 65536
  BY HalfwordOf
<1>1. PICK a, b \in Nat : a = n % 256 /\ b = n \div 256
  BY <1>0
<1>2. a \in OneByte /\ b \in OneByte
  BY <1>0, <1>1, OneByteOf
<1>3. Word2(n) = <<a, b>> /\ <<a, b>> \in Seq(OneByte)
  BY <1>1, <1>2, ShortOf DEF Word2
<1>4. I(a) \in Narrow /\ I(b) \in Narrow
  BY <1>2 DEF I, Narrow
<1>5. Addr(n) = <<I(a), I(b)>> /\ <<I(a), I(b)>> \in Seq(Narrow)
  BY <1>1, <1>4, ShortOf DEF Addr
<1> QED
  BY <1>3, <1>5

(* What sixteen bits address is below the end of the code.                 *)
Addressed(s) == Offset(s, Len(s) + 1) \in Halfwords

LEMMA MeaningFits ==
  ASSUME NEW s \in Seq(Seq(Words)), NEW x, Defined(s, x)
  PROVE  \E a, b \in Nat : /\ a = Meaning(s, x) /\ b = Offset(s, Len(s) + 1) /\ a <= b
<1>1. PICK n \in Labels(s) : Meaning(s, x) = Offset(s, n)
  BY MeaningOf
<1>2. Len(s) \in Nat /\ n \in 1 .. Len(s)
  BY LabelsOf
<1>3. n \in 1 .. Len(s) + 1 /\ Len(s) + 1 \in n .. Len(s) + 1
  BY <1>2
<1>4. PICK a, b \in Nat : a = Offset(s, n) /\ b = Offset(s, Len(s) + 1) /\ a <= b
  BY <1>3, OffsetGrows
<1> QED
  BY <1>1, <1>4

LEMMA MeaningAddressed ==
  ASSUME NEW s \in Seq(Seq(Words)), Addressed(s), NEW x, Defined(s, x)
  PROVE  Meaning(s, x) \in Halfwords
<1>1. PICK a, b \in Nat : a = Meaning(s, x) /\ b = Offset(s, Len(s) + 1) /\ a <= b
  BY MeaningFits
<1>2. b \in Halfwords
  BY <1>1 DEF Addressed
<1>3. a \in Halfwords
  BY <1>1, <1>2, HalfwordOf
<1> QED
  BY <1>1, <1>3

(* An operand the second pass knows.                                       *)
KnownOperand(s, w) == \/ w.kind \in {"reg", "hex2", "hex4", "num"}
                      \/ w.kind = "ref" /\ Defined(s, w.val)

LEMMA OperandNarrow ==
  ASSUME NEW s \in Seq(Seq(Words)), Addressed(s), NEW w \in Words, KnownOperand(s, w)
  PROVE  Operand(s, w) \in Seq(Narrow)
<1>1. CASE w.kind = "reg"
  <2>1. w.val \in RegNumbers
    BY <1>1, WordKinds, Zenon DEF OtherKinds
  <2>2. R(w.val) \in Narrow
    BY <2>1, NumbersFit DEF R, Narrow
  <2>3. Operand(s, w) = <<R(w.val)>>
    BY <1>1 DEF Operand
  <2> QED
    BY <2>2, <2>3, ShortOf
<1>2. CASE w.kind \in {"hex2", "num"}
  <2>1. w.val \in Nat
    BY <1>2, WordType, Zenon
  <2>2. w.val % 256 \in OneByte
    BY <2>1, OneByteOf
  <2>3. I(w.val % 256) \in Narrow
    BY <2>2 DEF I, Narrow
  <2>4. Operand(s, w) = <<I(w.val % 256)>>
    BY <1>2 DEF Operand
  <2> QED
    BY <2>3, <2>4, ShortOf
<1>3. CASE w.kind = "hex4"
  <2>1. w.val \in Halfwords
    BY <1>3, WordKinds, Zenon DEF OtherKinds
  <2>2. Operand(s, w) = Addr(w.val)
    BY <1>3 DEF Operand
  <2> QED
    BY <2>1, <2>2, HalfwordBytes
<1>4. CASE w.kind = "ref" /\ Defined(s, w.val)
  <2>1. Meaning(s, w.val) \in Halfwords
    BY <1>4, MeaningAddressed
  <2>2. Operand(s, w) = Addr(Meaning(s, w.val))
    BY <1>4 DEF Operand
  <2> QED
    BY <2>1, <2>2, HalfwordBytes
<1> QED
  BY <1>1, <1>2, <1>3, <1>4, Zenon DEF KnownOperand

LEMMA InsBytes ==
  ASSUME NEW op \in 0 .. STR, NEW f \in Seq(Narrow)
  PROVE  Ins(op, f) \in Seq(OneByte)
<1>1. PICK n \in Nat : n = Len(f) /\ DOMAIN f = 1 .. n
  OBVIOUS
<1> DEFINE bit(k) == IF k <= Len(f) THEN f[k].sig ELSE 0
<1>2. \A k \in 1 .. n : f[k].sig \in {0, 1} /\ f[k].byte \in OneByte
  <2>1. \A k \in 1 .. n : f[k] \in Narrow
    BY <1>1
  <2> QED
    BY <2>1 DEF Narrow
<1>3. bit(1) \in {0, 1} /\ bit(2) \in {0, 1} /\ bit(3) \in {0, 1}
  BY <1>1, <1>2
<1>4. PICK code : code = op + 32 * bit(1) + 64 * bit(2) + 128 * bit(3)
  OBVIOUS
<1>5. code \in OneByte
  <2> HIDE DEF bit
  <2>1. op \in 0 .. 31
    BY DEF STR
  <2>2. code \in Int /\ 0 <= code /\ code < 256
    BY <1>3, <1>4, <2>1
  <2> QED
    BY <2>2, OneByteOf
<1>6. <<code>> \in Seq(OneByte)
  BY <1>5, ShortOf
<1>7. PICK bytes : bytes = [k \in DOMAIN f |-> f[k].byte]
  OBVIOUS
<1>8. bytes \in Seq(OneByte)
  BY <1>1, <1>2, <1>7
<1>9. Ins(op, f) = <<code>> \o bytes
  BY <1>4, <1>7 DEF Ins
<1> QED
  BY <1>6, <1>8, <1>9, ConcatProperties

LEMMA LineBytes ==
  ASSUME NEW s \in Seq(Seq(Words)), Addressed(s), NEW l \in Seq(Words), IsCode(l) => CorrectLine(s, l)
  PROVE  Encoded(s, l) \in Seq(OneByte)
<1>1. CASE ~IsCode(l)
  <2>1. Encoded(s, l) = <<>> /\ <<>> \in Seq(OneByte)
    BY <1>1 DEF Encoded
  <2> QED
    BY <2>1
<1>2. CASE IsCode(l) /\ IsStr(l)
  <2>1. Len(Operands(l)) = 1
    BY <1>2 DEF CorrectLine
  <2>2. l[2] \in Words
    BY <2>1, StrOf
  <2>3. PICK c : c = l[2].chars
    OBVIOUS
  <2>4. c \in Seq(OneByte)
    BY <2>2, <2>3, WordKinds DEF Chars, OneByte
  <2>5. <<0>> \in Seq(OneByte)
    BY OneByteOf, ShortOf
  <2>6. Encoded(s, l) = c \o <<0>>
    BY <1>2, <2>3 DEF Encoded
  <2> QED
    BY <2>4, <2>5, <2>6, ConcatProperties
<1>3. CASE IsCode(l) /\ ~IsStr(l)
  <2>1. PICK o \in Seq(Words) : o = Operands(l)
    BY OperandsOf
  <2>2. PICK n \in Nat : n = Len(o) /\ DOMAIN o = 1 .. n
    BY <2>1
  <2>3. \A k \in DOMAIN Operands(l) : KnownOperand(s, Operands(l)[k])
    BY <1>3, Zenon DEF CorrectLine, KnownOperand
  <2> DEFINE ss == [k \in 1 .. n |-> Operand(s, o[k])]
             B  == Seq(Narrow)
  <2>4. ASSUME NEW k \in 1 .. n
        PROVE  Operand(s, o[k]) \in B
    <3>1. o[k] \in Words
      BY <2>2
    <3>2. KnownOperand(s, o[k])
      BY <2>1, <2>2, <2>3, Zenon
    <3> QED
      BY <3>1, <3>2, OperandNarrow
  <2>5. ss \in Seq(B)
    <3> HIDE DEF B
    <3> QED
      BY <2>4
  <2>6. ss = [k \in DOMAIN Operands(l) |-> Operand(s, Operands(l)[k])]
    BY <2>1, <2>2
  <2> HIDE DEF ss
  <2>7. FlattenSeq(ss) \in Seq(Narrow)
    BY <2>5, FlattenType
  <2>8. l[1].val \in 0 .. STR
    <3>1. PICK u \in Seq(Words) : u = Uncommented(l) /\ Len(u) <= Len(l)
      BY UncommentedOf
    <3>2. u # <<>> /\ l[1].kind = "op"
      BY <1>3, <3>1 DEF IsCode, CorrectLine
    <3>3. 1 \in 1 .. Len(l)
      BY <3>1, <3>2, EmptySeq
    <3>4. l[1] \in Words
      BY <3>3
    <3> QED
      BY <3>2, <3>4, WordType, Zenon
  <2>9. Encoded(s, l) = Ins(l[1].val, FlattenSeq(ss))
    BY <1>3, <2>6 DEF Encoded
  <2>10. PICK op : op = l[1].val /\ op \in 0 .. STR
    BY <2>8, Zenon
  <2>11. PICK f \in Seq(Narrow) : f = FlattenSeq(ss)
    BY <2>7
  <2>12. Ins(op, f) \in Seq(OneByte)
    BY <2>10, InsBytes
  <2> QED
    BY <2>9, <2>10, <2>11, <2>12, Zenon
<1> QED
  BY <1>1, <1>2, <1>3

LEMMA CodeBytes ==
  ASSUME NEW s \in Seq(Seq(Words)), Correct(s), Addressed(s)
  PROVE  CodeOf(s) \in Seq(OneByte)
<1>1. PICK n \in Nat : n = Len(s) /\ DOMAIN s = 1 .. n /\ \A k \in 1 .. n : s[k] \in Seq(Words)
  OBVIOUS
<1> DEFINE B  == Seq(OneByte)
           ss == [k \in 1 .. n |-> Encoded(s, s[k])]
<1>2. ASSUME NEW k \in 1 .. n
      PROVE  Encoded(s, s[k]) \in B
  <2>1. s[k] \in Seq(Words) /\ (IsCode(s[k]) => CorrectLine(s, s[k]))
    BY <1>1 DEF Correct
  <2> QED
    BY <2>1, LineBytes
<1>3. ss \in Seq(B)
  <2> HIDE DEF B
  <2> QED
    BY <1>2
<1>4. CodeOf(s) = FlattenSeq(ss)
  BY <1>1 DEF CodeOf
<1> HIDE DEF ss
<1> QED
  BY <1>3, <1>4, FlattenType

LEMMA TableBytes ==
  ASSUME NEW r \in Seq(Nat), \A k \in DOMAIN r : r[k] \in Halfwords
  PROVE  FlattenSeq([k \in DOMAIN r |-> Word2(r[k])]) \in Seq(OneByte)
<1>1. PICK m \in Nat : m = Len(r) /\ DOMAIN r = 1 .. m
  OBVIOUS
<1> DEFINE B  == Seq(OneByte)
           ts == [k \in 1 .. m |-> Word2(r[k])]
<1>2. \A k \in 1 .. m : Word2(r[k]) \in B
  BY <1>1, HalfwordBytes
<1>3. ts \in Seq(B)
  <2> HIDE DEF B
  <2> QED
    BY <1>2
<1>4. ts = [k \in DOMAIN r |-> Word2(r[k])]
  BY <1>1
<1> HIDE DEF ts
<1> QED
  BY <1>3, <1>4, FlattenType

LEMMA MagicBytes == <<127, 242>> \in Seq(OneByte)
<1>1. 127 \in OneByte /\ 242 \in OneByte
  BY DEF OneByte
<1> QED
  BY <1>1, ShortOf

(* Header, table and code of a size sixteen bits can count.                *)
LEMMA PartsFit ==
  ASSUME NEW rel \in Seq(Nat), NEW size \in Nat, Spaced(rel, 0, size), NEW entry \in Nat, entry <= size,
         HEADER + 2 * Len(rel) + size \in Halfwords
  PROVE  /\ size \in Halfwords /\ Len(rel) \in Halfwords
         /\ HEADER + 2 * Len(rel) \in Halfwords /\ HEADER + 2 * Len(rel) + entry \in Halfwords
         /\ \A k \in DOMAIN rel : rel[k] \in Halfwords
<1>1. PICK m \in Nat : m = Len(rel) /\ DOMAIN rel = 1 .. m
  OBVIOUS
<1>2. 8 + 2 * m + size <= 65535
  BY <1>1, HalfwordOf DEF HEADER
<1>3. \A k \in 1 .. m : rel[k] \in Nat /\ rel[k] + 2 <= size
  BY <1>1 DEF Spaced
<1>4. \A k \in 1 .. m : rel[k] <= 65535
  BY <1>2, <1>3
<1>5. size <= 65535 /\ m <= 65535 /\ 8 + 2 * m <= 65535 /\ 8 + 2 * m + entry <= 65535
  BY <1>2
<1> QED
  BY <1>1, <1>3, <1>4, <1>5, HalfwordOf DEF HEADER

(* The executable of a source without mistakes is a file of bytes.         *)
LEMMA ExecutableBytes ==
  ASSUME NEW s \in Seq(Seq(Words)), Correct(s), NEW max \in Halfwords, SizeWithin(s, max)
  PROVE  ExecutableOf(s) \in Seq(OneByte)
<1>1. PICK rel \in Seq(Nat), size \in Nat :
        rel = RelocationsOf(s) /\ size = Offset(s, Len(s) + 1) /\ Spaced(rel, 0, size)
  <2>1. Spaced(RelocationsOf(s), 0, Offset(s, Len(s) + 1))
    BY RelocationsSpaced
  <2>2. Offset(s, Len(s) + 1) \in Nat
    BY MeaningFits DEF Correct
  <2> QED
    BY <2>1, <2>2 DEF Spaced
<1>2. PICK entry \in Nat : entry = Meaning(s, "main") /\ entry <= size
  BY <1>1, MeaningFits DEF Correct
<1>3. HEADER + 2 * Len(rel) + size \in Halfwords
  <2>1. PICK m \in Nat : m = Len(rel)
    OBVIOUS
  <2>2. 8 + 2 * m + size <= max
    BY <1>1, <2>1 DEF SizeWithin, HEADER
  <2>3. 8 + 2 * m + size \in Halfwords
    BY <2>2, HalfwordOf
  <2> QED
    BY <2>1, <2>3 DEF HEADER
<1>4. /\ size \in Halfwords /\ Len(rel) \in Halfwords
      /\ HEADER + 2 * Len(rel) \in Halfwords /\ HEADER + 2 * Len(rel) + entry \in Halfwords
      /\ \A k \in DOMAIN rel : rel[k] \in Halfwords
  BY <1>1, <1>2, <1>3, PartsFit, Zenon
<1>5. CodeOf(s) \in Seq(OneByte)
  BY <1>1, <1>4, CodeBytes DEF Addressed
<1>6. FlattenSeq([k \in DOMAIN rel |-> Word2(rel[k])]) \in Seq(OneByte)
  BY <1>4, TableBytes
<1>7. /\ Word2(HEADER + 2 * Len(rel)) \in Seq(OneByte)
      /\ Word2(HEADER + 2 * Len(rel) + entry) \in Seq(OneByte) /\ Word2(Len(rel)) \in Seq(OneByte)
  BY <1>4, HalfwordBytes
<1>8. ExecutableOf(s) = Executable(CodeOf(s), rel, entry)
  BY <1>1, <1>2 DEF ExecutableOf
<1>9. \A a, b : a \in Seq(OneByte) /\ b \in Seq(OneByte) => a \o b \in Seq(OneByte)
  BY ConcatProperties
<1> QED
  BY <1>5, <1>6, <1>7, <1>8, <1>9, MagicBytes, ZenonT(60) DEF Executable

-----------------------------------------------------------------------------
(* Where the code of a line is, and in it the operands.                    *)

LEMMA CarriesWord ==
  ASSUME NEW f \in Seq(Nat), NEW a \in Seq(Nat), NEW n \in Nat, NEW m \in Nat, NEW w,
         Carries(f, n, a), Holds(a, m, w)
  PROVE  Holds(f, n + m, w)
<1>1. PICK l \in Nat : l = Len(a)
  OBVIOUS
<1>2. n + l <= Len(f) /\ \A h \in 1 .. l : f[n + h] = a[h]
  BY <1>1 DEF Carries
<1>3. m + 2 <= l /\ a[m + 1] = w % 256 /\ a[m + 2] = w \div 256
  BY <1>1 DEF Holds
<1>4. m + 1 \in 1 .. l /\ m + 2 \in 1 .. l /\ n + (m + 1) = (n + m) + 1 /\ n + (m + 2) = (n + m) + 2
  BY <1>3
<1>5. f[(n + m) + 1] = w % 256 /\ f[(n + m) + 2] = w \div 256
  BY <1>2, <1>3, <1>4
<1>6. (n + m) + 2 <= Len(f)
  BY <1>2, <1>3
<1> QED
  BY <1>5, <1>6 DEF Holds

LEMMA OperandWide ==
  ASSUME NEW s, NEW w, KnownOperand(s, w)
  PROVE  Len(Operand(s, w)) = Width(w)
<1>1. CASE w.kind = "reg"
  <2>1. Operand(s, w) = <<R(w.val)>> /\ Width(w) = 1
    BY <1>1 DEF Operand, Width
  <2> QED
    BY <2>1
<1>2. CASE w.kind \in {"hex2", "num"}
  <2>1. Operand(s, w) = <<I(w.val % 256)>> /\ Width(w) = 1
    BY <1>2 DEF Operand, Width
  <2> QED
    BY <2>1
<1>3. CASE w.kind = "hex4"
  <2>1. Operand(s, w) = Addr(w.val) /\ Width(w) = 2
    BY <1>3 DEF Operand, Width
  <2> QED
    BY <2>1 DEF Addr
<1>4. CASE w.kind = "ref"
  <2>1. Operand(s, w) = Addr(Meaning(s, w.val)) /\ Width(w) = 2
    BY <1>4 DEF Operand, Width
  <2> QED
    BY <2>1 DEF Addr
<1> QED
  BY <1>1, <1>2, <1>3, <1>4, Zenon DEF KnownOperand

(* As many operand bytes as there are counted.                             *)
LEMMA OperandsWide ==
  ASSUME NEW s \in Seq(Seq(Words)), Addressed(s), NEW o \in Seq(Words),
         \A k \in 1 .. Len(o) : KnownOperand(s, o[k]), NEW n \in 0 .. Len(o)
  PROVE  LET f == FlattenSeq([k \in 1 .. n |-> Operand(s, o[k])])
         IN  f \in Seq(Narrow) /\ Len(f) = Widths(o, n)
<1> DEFINE B  == Seq(Narrow)
           ss == [k \in 1 .. n |-> Operand(s, o[k])]
<1>1. ASSUME NEW k \in 1 .. n
      PROVE  Operand(s, o[k]) \in B /\ Len(Operand(s, o[k])) = Width(o[k])
  <2>1. k \in 1 .. Len(o)
    OBVIOUS
  <2>2. o[k] \in Words /\ KnownOperand(s, o[k])
    BY <2>1
  <2> QED
    BY <2>2, OperandNarrow, OperandWide
<1>2. ss \in Seq(B) /\ Len(ss) = n
  <2> HIDE DEF B
  <2> QED
    BY <1>1
<1>3. [k \in 1 .. Len(ss) |-> Len(ss[k])] = [k \in 1 .. n |-> Width(o[k])]
  <2> HIDE DEF B
  <2>1. \A k \in 1 .. n : Len(ss[k]) = Width(o[k])
    BY <1>1
  <2> HIDE DEF ss
  <2> QED
    BY <1>2, <2>1
<1> HIDE DEF ss
<1>4. FlattenSeq(ss) \in Seq(Narrow) /\ Len(FlattenSeq(ss)) = Total([k \in 1 .. Len(ss) |-> Len(ss[k])])
  BY <1>2, FlattenType, LengthOfFlat
<1>5. Len(FlattenSeq(ss)) = Widths(o, n)
  BY <1>3, <1>4 DEF Widths
<1> QED
  BY <1>4, <1>5 DEF ss

(* An instruction is its opcode and its operand bytes.                     *)
LEMMA InsOf ==
  ASSUME NEW op \in 0 .. STR, NEW f \in Seq(Narrow)
  PROVE  \E e \in Seq(OneByte) :
           /\ e = Ins(op, f) /\ Len(e) = 1 + Len(f)
           /\ \A k \in 1 .. Len(f) : e[1 + k] = f[k].byte
<1>1. PICK n \in Nat : n = Len(f) /\ DOMAIN f = 1 .. n
  OBVIOUS
<1>2. PICK bytes : bytes = [k \in 1 .. n |-> f[k].byte]
  OBVIOUS
<1>3. \E code : Ins(op, f) = <<code>> \o bytes
  BY <1>1, <1>2 DEF Ins
<1>4. PICK code : Ins(op, f) = <<code>> \o bytes
  BY <1>3
<1>5. PICK e \in Seq(OneByte) : e = Ins(op, f)
  BY InsBytes
<1>6. bytes \in Seq(Nat) /\ Len(bytes) = n
  <2>1. \A k \in 1 .. n : f[k].byte \in Nat
    <3>1. \A k \in 1 .. n : f[k] \in Narrow
      BY <1>1
    <3>2. \A x \in Narrow : x.byte \in OneByte
      BY DEF Narrow
    <3>3. OneByte \subseteq Nat
      BY DEF OneByte
    <3> QED
      BY <3>1, <3>2, <3>3
  <2> QED
    BY <1>2, <2>1
<1>7. Len(e) = 1 + n /\ \A k \in 1 .. n : e[1 + k] = bytes[k]
  BY <1>4, <1>5, <1>6
<1>8. \A k \in 1 .. n : bytes[k] = f[k].byte
  BY <1>2
<1> QED
  BY <1>1, <1>5, <1>7, <1>8

(* The operand that refers to a label, in the code of its line.            *)
LEMMA OperandAt ==
  ASSUME NEW s \in Seq(Seq(Words)), Addressed(s), NEW l \in Seq(Words), CorrectLine(s, l),
         IsCode(l), ~IsStr(l)
  PROVE  \E o \in Seq(Words), e \in Seq(Nat) :
           /\ o = Operands(l) /\ e = Encoded(s, l) /\ Len(e) = Size(l)
           /\ \A k \in 1 .. Len(o) :
                o[k].kind = "ref" => Holds(e, 1 + Widths(o, k - 1), Meaning(s, o[k].val))
<1>1. PICK o \in Seq(Words) : o = Operands(l)
  BY OperandsOf
<1>2. PICK n \in Nat : n = Len(o) /\ DOMAIN o = 1 .. n
  BY <1>1
<1>3. \A k \in 1 .. n : KnownOperand(s, o[k])
  <2>1. \A k \in DOMAIN Operands(l) : KnownOperand(s, Operands(l)[k])
    BY Zenon DEF CorrectLine, KnownOperand
  <2> QED
    BY <1>1, <1>2, <2>1, Zenon
<1> DEFINE g    == [k \in 1 .. n |-> Operand(s, o[k])]
           f(k) == FlattenSeq([h \in 1 .. k |-> g[h]])
<1>4. ASSUME NEW k \in 0 .. n
      PROVE  f(k) \in Seq(Narrow) /\ Len(f(k)) = Widths(o, k)
  <2>1. [h \in 1 .. k |-> g[h]] = [h \in 1 .. k |-> Operand(s, o[h])]
    OBVIOUS
  <2>2. FlattenSeq([h \in 1 .. k |-> Operand(s, o[h])]) \in Seq(Narrow)
        /\ Len(FlattenSeq([h \in 1 .. k |-> Operand(s, o[h])])) = Widths(o, k)
    BY <1>2, <1>3, OperandsWide
  <2> QED
    BY <2>1, <2>2
<1>5. PICK t \in Seq(Narrow) : t = f(n) /\ Len(t) = Widths(o, n)
  <2>1. n \in 0 .. n
    OBVIOUS
  <2>2. f(n) \in Seq(Narrow) /\ Len(f(n)) = Widths(o, n)
    BY <1>4, <2>1
  <2> HIDE DEF f
  <2> QED
    BY <2>2
<1>6. l[1].val \in 0 .. STR
  BY OperationOf, Zenon DEF CorrectLine
<1>7. Encoded(s, l) = Ins(l[1].val, t)
  <2>1. [k \in DOMAIN Operands(l) |-> Operand(s, Operands(l)[k])] = [h \in 1 .. n |-> g[h]]
    BY <1>1, <1>2
  <2> QED
    BY <1>5, <2>1 DEF Encoded
<1>8. PICK op : op = l[1].val /\ op \in 0 .. STR
  BY <1>6, Zenon
<1>9. PICK e \in Seq(OneByte) : e = Ins(op, t) /\ Len(e) = 1 + Len(t) /\ \A k \in 1 .. Len(t) : e[1 + k] = t[k].byte
  BY <1>8, InsOf
<1>10. e \in Seq(Nat)
  <2>1. \A x \in OneByte : x \in Nat
    BY DEF OneByte
  <2>2. \A k \in 1 .. Len(e) : e[k] \in Nat
    BY <2>1
  <2> QED
    BY <2>2
<1>11. Len(e) = Size(l)
  BY <1>1, <1>2, <1>5, <1>9 DEF Size
<1>12. ASSUME NEW k \in 1 .. n, o[k].kind = "ref"
       PROVE  Holds(e, 1 + Widths(o, k - 1), Meaning(s, o[k].val))
  <2>1. \A h \in 1 .. n : g[h] \in Seq(Narrow)
    <3>1. ASSUME NEW h \in 1 .. n
          PROVE  g[h] \in Seq(Narrow)
      <4>1. o[h] \in Words /\ KnownOperand(s, o[h])
        BY <1>2, <1>3
      <4> QED
        BY <4>1, OperandNarrow
    <3> QED
      BY <3>1
  <2>2. k - 1 \in 0 .. n
    OBVIOUS
  <2>3. PICK w \in Nat : w = Widths(o, k - 1) /\ w = Len(f(k - 1))
    <3>1. f(k - 1) \in Seq(Narrow) /\ Len(f(k - 1)) = Widths(o, k - 1)
      BY <1>4, <2>2
    <3>2. Widths(o, k - 1) \in Nat
      BY <2>2, WidthsStep
    <3> HIDE DEF f
    <3> QED
      BY <3>1, <3>2
  <2>4. Carries(t, w, g[k])
    <3>1. Carries(f(n), Len(f(k - 1)), g[k])
      <4> HIDE DEF g
      <4> QED
        BY <2>1, FlatCarries
    <3> QED
      BY <1>5, <2>3, <3>1
  <2>5. PICK v \in Nat : v = Meaning(s, o[k].val)
    <3>1. KnownOperand(s, o[k]) /\ o[k] \in Words
      BY <1>2, <1>3
    <3>2. Defined(s, o[k].val)
      BY <1>12, <3>1, Zenon DEF KnownOperand
    <3> QED
      BY <3>2, MeaningAddressed, HalfwordOf
  <2>6. g[k] = <<I(v % 256), I(v \div 256)>>
    BY <1>12, <2>5 DEF Operand, Addr
  <2>7. w + 2 <= Len(t) /\ t[w + 1] = I(v % 256) /\ t[w + 2] = I(v \div 256)
    <3>1. Len(g[k]) = 2 /\ g[k][1] = I(v % 256) /\ g[k][2] = I(v \div 256)
      BY <2>6
    <3>2. 1 \in 1 .. 2 /\ 2 \in 1 .. 2
      OBVIOUS
    <3> HIDE DEF g
    <3> QED
      BY <2>4, <3>1, <3>2 DEF Carries
  <2>8. w + 1 \in 1 .. Len(t) /\ w + 2 \in 1 .. Len(t) /\ 1 + (w + 1) = (1 + w) + 1 /\ 1 + (w + 2) = (1 + w) + 2
    BY <2>7
  <2>9. e[(1 + w) + 1] = v % 256 /\ e[(1 + w) + 2] = v \div 256
    BY <1>9, <2>7, <2>8 DEF I
  <2>10. (1 + w) + 2 <= Len(e)
    BY <1>9, <2>7
  <2>11. Holds(e, 1 + w, v)
    BY <1>10, <2>9, <2>10 DEF Holds
  <2> QED
    BY <2>3, <2>5, <2>11
<1> QED
  <2>1. e = Encoded(s, l)
    BY <1>7, <1>8, <1>9
  <2> QED
    BY <1>1, <1>2, <1>10, <1>11, <1>12, <2>1

LEMMA EncodedSize ==
  ASSUME NEW s \in Seq(Seq(Words)), Addressed(s), NEW l \in Seq(Words), IsCode(l) => CorrectLine(s, l)
  PROVE  Encoded(s, l) \in Seq(Nat) /\ Len(Encoded(s, l)) = Size(l)
<1>1. CASE ~IsCode(l)
  <2>1. Encoded(s, l) = <<>> /\ Size(l) = 0
    BY <1>1 DEF Encoded, Size
  <2> QED
    BY <2>1
<1>2. CASE IsCode(l) /\ IsStr(l)
  <2>1. Len(Operands(l)) = 1
    BY <1>2 DEF CorrectLine
  <2>2. l[2] \in Words
    BY <2>1, StrOf
  <2>3. PICK c \in Seq(Nat) : c = l[2].chars
    BY <2>2, WordType
  <2>4. Encoded(s, l) = c \o <<0>>
    BY <1>2, <2>3 DEF Encoded
  <2>5. Size(l) = Len(c) + 1
    BY <1>2, <2>1, <2>3, SizeOf
  <2>6. PICK e : e = c \o <<0>>
    OBVIOUS
  <2>7. e \in Seq(Nat) /\ Len(e) = Len(c) + 1
    BY <2>6
  <2> QED
    BY <2>4, <2>5, <2>6, <2>7
<1>3. CASE IsCode(l) /\ ~IsStr(l)
  BY <1>3, OperandAt
<1> QED
  BY <1>1, <1>2, <1>3

(* The code of a line lies at the offset of the line.                      *)
LEMMA CodeAt ==
  ASSUME NEW s \in Seq(Seq(Words)), Correct(s), Addressed(s), NEW n \in 1 .. Len(s)
  PROVE  Carries(CodeOf(s), Offset(s, n), Encoded(s, s[n]))
<1>1. PICK m \in Nat : m = Len(s) /\ DOMAIN s = 1 .. m
  OBVIOUS
<1> DEFINE B    == Seq(Nat)
           g    == [k \in 1 .. m |-> Encoded(s, s[k])]
           less == [k \in 1 .. n - 1 |-> g[k]]
<1>2. ASSUME NEW k \in 1 .. m
      PROVE  Encoded(s, s[k]) \in B /\ Len(Encoded(s, s[k])) = Size(s[k])
  <2>1. s[k] \in Seq(Words)
    BY <1>1
  <2>2. IsCode(s[k]) => CorrectLine(s, s[k])
    BY <1>1 DEF Correct
  <2> QED
    BY <2>1, <2>2, EncodedSize
<1>3. \A k \in 1 .. m : g[k] \in Seq(Nat)
  <2> HIDE DEF B
  <2>1. \A k \in 1 .. m : g[k] \in B
    BY <1>2
  <2> QED
    BY <2>1 DEF B
<1>4. CodeOf(s) = FlattenSeq([k \in 1 .. m |-> g[k]])
  <2>1. [k \in 1 .. m |-> g[k]] = [k \in DOMAIN s |-> Encoded(s, s[k])]
    BY <1>1
  <2> QED
    BY <2>1 DEF CodeOf
<1>5. less \in Seq(B) /\ Len(less) = n - 1 /\ \A k \in 1 .. n - 1 : Len(less[k]) = Size(s[k])
  <2>1. \A k \in 1 .. n - 1 : k \in 1 .. m
    BY <1>1
  <2>2. \A k \in 1 .. n - 1 : less[k] = Encoded(s, s[k])
    BY <2>1
  <2>3. \A k \in 1 .. n - 1 : less[k] \in B /\ Len(less[k]) = Size(s[k])
    BY <1>2, <2>1, <2>2
  <2>4. n - 1 \in Nat
    OBVIOUS
  <2> HIDE DEF B, g
  <2>5. less \in Seq(B) /\ Len(less) = n - 1
    BY <2>3, <2>4
  <2> QED
    BY <2>3, <2>5
<1>6. Len(FlattenSeq(less)) = Offset(s, n)
  <2> HIDE DEF less
  <2>1. [k \in 1 .. Len(less) |-> Len(less[k])] = [k \in 1 .. n - 1 |-> Size(s[k])]
    BY <1>5
  <2>2. Len(FlattenSeq(less)) = Total([k \in 1 .. Len(less) |-> Len(less[k])])
    BY <1>5, LengthOfFlat
  <2> QED
    BY <2>1, <2>2 DEF Offset
<1>7. Carries(FlattenSeq([k \in 1 .. m |-> g[k]]), Len(FlattenSeq(less)), g[n])
  <2> HIDE DEF g
  <2> QED
    BY <1>1, <1>3, FlatCarries
<1>8. g[n] = Encoded(s, s[n])
  BY <1>1
<1> QED
  BY <1>4, <1>6, <1>7, <1>8

Lists(f, x) == \E k \in DOMAIN f : f[k] = x

LEMMA ListedInFlat ==
  ASSUME NEW n \in Nat, NEW g, \A k \in 1 .. n : g[k] \in Seq(Nat), NEW m \in 1 .. n,
         NEW h \in 1 .. Len(g[m])
  PROVE  Lists(FlattenSeq([k \in 1 .. n |-> g[k]]), g[m][h])
<1> DEFINE B  == Seq(Nat)
           ss == [k \in 1 .. n |-> g[k]]
           ls == [k \in 1 .. m - 1 |-> g[k]]
<1>1. ss \in Seq(B) /\ ls \in Seq(B)
  <2>1. (\A k \in 1 .. n : g[k] \in B) /\ \A k \in 1 .. m - 1 : g[k] \in B
    OBVIOUS
  <2> HIDE DEF B
  <2> QED
    BY <2>1
<1>2. Carries(FlattenSeq(ss), Len(FlattenSeq(ls)), g[m])
  BY FlatCarries
<1> HIDE DEF ss, ls
<1>3. PICK f \in Seq(Nat), a \in Nat : f = FlattenSeq(ss) /\ a = Len(FlattenSeq(ls))
  BY <1>1, FlattenType
<1>4. g[m] \in Seq(Nat)
  OBVIOUS
<1>5. f[a + h] = g[m][h] /\ a + Len(g[m]) <= Len(f)
  BY <1>2, <1>3 DEF Carries
<1>6. a + h \in 1 .. Len(f) /\ DOMAIN f = 1 .. Len(f)
  BY <1>4, <1>5
<1> QED
  BY <1>3, <1>5, <1>6 DEF ss, Lists

(* Every reference of a line is listed in the table.                       *)
LEMMA ReferenceListed ==
  ASSUME NEW s \in Seq(Seq(Words)), NEW n \in 1 .. Len(s), IsCode(s[n]), ~IsStr(s[n]),
         NEW o \in Seq(Words), o = Operands(s[n]), NEW k \in 1 .. Len(o), o[k].kind = "ref"
  PROVE  Lists(RelocationsOf(s), Offset(s, n) + 1 + Widths(o, k - 1))
<1>1. PICK m \in Nat : m = Len(o) /\ DOMAIN o = 1 .. m
  OBVIOUS
<1>2. PICK x \in Nat : x = Offset(s, n)
  BY OffsetStep
<1> DEFINE g == [h \in 1 .. m |-> IF o[h].kind = "ref" THEN <<x + 1 + Widths(o, h - 1)>> ELSE <<>>]
           r == References(s, n)
<1>3. \A h \in 1 .. m : g[h] \in Seq(Nat)
  <2>1. ASSUME NEW h \in 1 .. m
        PROVE  g[h] \in Seq(Nat)
    <3>1. h - 1 \in Nat
      OBVIOUS
    <3>2. PICK w \in Nat : w = Widths(o, h - 1)
      BY <3>1, WidthsStep
    <3>3. <<x + 1 + w>> \in Seq(Nat) /\ <<>> \in Seq(Nat)
      OBVIOUS
    <3> QED
      BY <3>2, <3>3
  <2> QED
    BY <2>1
<1>4. r = FlattenSeq([h \in 1 .. m |-> g[h]])
  <2>1. [h \in DOMAIN Operands(s[n]) |-> IF Operands(s[n])[h].kind = "ref"
                            THEN <<Offset(s, n) + 1 + Widths(Operands(s[n]), h - 1)>> ELSE <<>>]
        = [h \in 1 .. m |-> g[h]]
    BY <1>1, <1>2
  <2> QED
    BY <2>1 DEF References
<1>5. PICK w \in Nat : w = Widths(o, k - 1)
  <2>1. k - 1 \in Nat
    OBVIOUS
  <2> QED
    BY <2>1, WidthsStep
<1>6. k \in 1 .. m /\ g[k] = <<x + 1 + w>>
  BY <1>1, <1>5
<1>7. PICK h \in DOMAIN r : r[h] = x + 1 + w
  <2>1. 1 \in 1 .. Len(g[k]) /\ g[k][1] = x + 1 + w
    BY <1>6
  <2> HIDE DEF g
  <2>2. Lists(FlattenSeq([b \in 1 .. m |-> g[b]]), g[k][1])
    BY <1>3, <1>6, <2>1, ListedInFlat
  <2> HIDE DEF r
  <2> QED
    BY <1>4, <2>1, <2>2 DEF Lists
<1> DEFINE t == [b \in 1 .. Len(s) |-> RelocatedBy(s, b)]
<1>8. \A b \in 1 .. Len(s) : t[b] \in Seq(Nat)
  BY RelocatedByType
<1>9. t[n] = r /\ r \in Seq(Nat)
  BY ReferencesType DEF RelocatedBy
<1>10. RelocationsOf(s) = FlattenSeq([b \in 1 .. Len(s) |-> t[b]])
  <2>1. DOMAIN s = 1 .. Len(s)
    OBVIOUS
  <2>2. [b \in 1 .. Len(s) |-> t[b]] = [b \in 1 .. Len(s) |-> RelocatedBy(s, b)]
    OBVIOUS
  <2> QED
    BY <2>1, <2>2 DEF RelocationsOf, RelocatedBy
<1> HIDE DEF r
<1>11. h \in 1 .. Len(t[n]) /\ Len(s) \in Nat
  BY <1>7, <1>9
<1>12. t[n][h] = x + 1 + w
  BY <1>7, <1>9
<1> HIDE DEF t
<1>13. Lists(FlattenSeq([b \in 1 .. Len(s) |-> t[b]]), t[n][h])
  BY <1>8, <1>11, ListedInFlat
<1> QED
  BY <1>2, <1>5, <1>10, <1>12, <1>13

(* The code is what is left of the executable behind header and table.     *)
LEMMA ExecutableCarries ==
  ASSUME NEW bin \in Seq(Nat), NEW rel \in Seq(Nat), NEW entry \in Nat
  PROVE  Carries(Executable(bin, rel, entry), 8 + 2 * Len(rel), bin)
<1> DEFINE table == FlattenSeq([k \in DOMAIN rel |-> Word2(rel[k])])
           d     == <<127, 242>> \o Word2(HEADER + 2 * Len(rel)) \o Word2(HEADER + 2 * Len(rel) + entry)
                      \o Word2(Len(rel)) \o table
<1>1. \A c : Executable(c, rel, entry) = d \o c
  BY DEF Executable
<1>2. d \in Seq(Nat)
  <2>1. table \in Seq(Nat)
    BY TableOf
  <2>2. <<127, 242>> \in Seq(Nat)
    OBVIOUS
  <2>3. HEADER + 2 * Len(rel) \in Nat /\ HEADER + 2 * Len(rel) + entry \in Nat /\ Len(rel) \in Nat
    BY DEF HEADER
  <2>4. \A n \in Nat : Word2(n) \in Seq(Nat)
    BY Word2Of
  <2>5. \A a, b : a \in Seq(Nat) /\ b \in Seq(Nat) => a \o b \in Seq(Nat)
    BY ConcatProperties
  <2> HIDE DEF table
  <2> QED
    BY <2>1, <2>2, <2>3, <2>4, <2>5, Zenon
<1> HIDE DEF d
<1>3. <<>> \in Seq(Nat) /\ Len(<<>>) = 0
  OBVIOUS
<1>4. d \o <<>> = d
  BY <1>2
<1>5. Len(d) = 8 + 2 * Len(rel)
  <2>1. Len(Executable(<<>>, rel, entry)) = 8 + 2 * Len(rel) + Len(<<>>)
    BY <1>3, ExecutableLength
  <2>2. Executable(<<>>, rel, entry) = d
    BY <1>1, <1>4
  <2>3. Len(rel) \in Nat
    OBVIOUS
  <2> QED
    BY <1>3, <2>1, <2>2, <2>3
<1>6. Carries((d \o bin) \o <<>>, Len(d), bin)
  BY <1>2, <1>3, ConcatCarries
<1>7. (d \o bin) \o <<>> = d \o bin
  <2>1. PICK c \in Seq(Nat) : c = d \o bin
    BY <1>2, ConcatProperties
  <2> QED
    BY <2>1
<1> QED
  BY <1>1, <1>5, <1>6, <1>7

(* What the executable is to a linker: its code, and in it each reference, *)
(* listed in the table, with what its label stands for.                    *)
LEMMA ExecutableCode ==
  ASSUME NEW s \in Seq(Seq(Words)), Laid(s), Correct(s), NEW f, f = ExecutableOf(s)
  PROVE  \E rel \in Seq(Nat), code \in Seq(Nat) :
           /\ rel = RelocationsOf(s) /\ code = CodeOf(s) /\ Len(code) = Offset(s, Len(s) + 1)
           /\ Carries(f, 8 + 2 * Len(rel), code)
<1>1. PICK rel \in Seq(Nat), code \in Seq(Nat) :
        rel = RelocationsOf(s) /\ code = CodeOf(s) /\ Len(code) = Offset(s, Len(s) + 1)
  BY RelocationsType DEF Laid
<1>2. PICK entry \in Nat : entry = Meaning(s, "main")
  BY MeaningFits DEF Correct
<1>3. f = Executable(code, rel, entry)
  BY <1>1, <1>2 DEF ExecutableOf
<1>4. Carries(f, 8 + 2 * Len(rel), code)
  BY <1>3, ExecutableCarries
<1> QED
  BY <1>1, <1>4

(* A source whose executable sixteen bits can count has such offsets.      *)
LEMMA FitsAddressed ==
  ASSUME NEW s \in Seq(Seq(Words)), Correct(s), NEW max \in Halfwords, SizeWithin(s, max)
  PROVE  Addressed(s)
<1>1. PICK rel \in Seq(Nat) : rel = RelocationsOf(s)
  BY RelocationsSpaced DEF Spaced
<1>2. PICK size \in Nat : size = Offset(s, Len(s) + 1)
  BY MeaningFits DEF Correct
<1>3. PICK m \in Nat : m = Len(rel)
  OBVIOUS
<1>4. 8 + 2 * m + size <= max
  BY <1>1, <1>2, <1>3 DEF SizeWithin, HEADER
<1>5. size \in Halfwords
  BY <1>4, HalfwordOf
<1> QED
  BY <1>2, <1>5 DEF Addressed

(* Operand k of line n is listed in the table, and the code holds at that  *)
(* place the offset of the label it names.                                 *)
Refers(s, n, k) ==
  \E x \in Nat, w \in Nat, v \in Nat :
    /\ x = Offset(s, n) /\ w = Widths(Operands(s[n]), k - 1)
    /\ v = Meaning(s, Operands(s[n])[k].val) /\ v <= Offset(s, Len(s) + 1)
    /\ Lists(RelocationsOf(s), x + 1 + w) /\ Holds(CodeOf(s), x + 1 + w, v)

(* So it is with every reference of the source.                            *)
LEMMA ReferenceMeant ==
  ASSUME NEW s \in Seq(Seq(Words)), Laid(s), Correct(s), Addressed(s),
         NEW n \in 1 .. Len(s), IsCode(s[n]), ~IsStr(s[n]),
         NEW k \in DOMAIN Operands(s[n]), Operands(s[n])[k].kind = "ref"
  PROVE  Refers(s, n, k)
<1>1. s[n] \in Seq(Words) /\ CorrectLine(s, s[n])
  BY DEF Correct
<1>2. PICK o \in Seq(Words), e \in Seq(Nat) :
        /\ o = Operands(s[n]) /\ e = Encoded(s, s[n])
        /\ \A h \in 1 .. Len(o) :
             o[h].kind = "ref" => Holds(e, 1 + Widths(o, h - 1), Meaning(s, o[h].val))
  BY <1>1, OperandAt
<1>3. k \in 1 .. Len(o) /\ o[k].kind = "ref" /\ k - 1 \in Nat
  BY <1>2
<1>4. PICK x \in Nat, w \in Nat : x = Offset(s, n) /\ w = Widths(o, k - 1)
  BY <1>3, OffsetStep, WidthsStep
<1>5. Defined(s, o[k].val)
  BY <1>1, <1>2, <1>3, Zenon DEF CorrectLine
<1>6. PICK v \in Nat : v = Meaning(s, o[k].val) /\ v <= Offset(s, Len(s) + 1)
  BY <1>5, MeaningFits
<1>7. Lists(RelocationsOf(s), x + 1 + w)
  BY <1>2, <1>3, <1>4, ReferenceListed
<1>8. Holds(CodeOf(s), x + 1 + w, v)
  <2>1. PICK code \in Seq(Nat) : code = CodeOf(s)
    BY DEF Laid
  <2>2. PICK p \in Nat : p = 1 + w
    OBVIOUS
  <2>3. Holds(e, p, v)
    BY <1>2, <1>3, <1>4, <1>6, <2>2
  <2>4. Carries(code, x, e)
    BY <1>2, <1>4, <2>1, CodeAt
  <2>5. Holds(code, x + p, v)
    BY <2>3, <2>4, CarriesWord
  <2>6. x + p = x + 1 + w
    BY <2>2
  <2> QED
    BY <2>1, <2>5, <2>6
<1> QED
  BY <1>2, <1>4, <1>6, <1>7, <1>8 DEF Refers

-----------------------------------------------------------------------------
(* The inductive invariant.                                                *)

DealtTo(s, n) == IF n <= Len(s) THEN n - 1 ELSE Len(s)

(* The output is the executable, cut short if it could not all be written. *)
Written(s, file) ==
  /\ file \in Seq(Nat) /\ IsPrefix(file, ExecutableOf(s))
  /\ ~OutputFaults => file = ExecutableOf(s)

AssemblerType ==
  /\ src \in Seq(Seq(Words)) /\ Len(src) <= MAX_LINES
  /\ i \in Nat \ {0} /\ j \in Nat \ {0}
  /\ roffset \in Nat /\ main_symbol \in Nat
  /\ SymbolsType
  /\ binary \in Seq(Nat) /\ reloc_offsets \in Seq(Nat)

Passes ==
  /\ phase = "first" => /\ FirstPassAt(src, i, j, roffset, symbols, main_symbol)
                        /\ binary = <<>> /\ reloc_offsets = <<>>
  /\ phase = "second" => SecondPassAt(src, DealtTo(src, i), symbols, main_symbol, binary, reloc_offsets)
  /\ phase = "written" => Written(src, out) /\ Laid(src)

Judged(s, p) ==
  /\ p = "written" => Correct(s) /\ SizeWithin(s, UINT16_MAX)
  /\ p \in {"failed", "crash"} => ~Correct(s) \/ ~SizeWithin(s, UINT16_MAX)
  /\ p = "wild" => \/ Len(s) = MAX_LINES /\ IsLabel(s[MAX_LINES])
                   \/ ~SizeWithin(s, UINT16_MAX)

AssemblerInv == Plain(src) => AssemblerType /\ Passes /\ Judged(src, phase)

LEMMA Unjudged == \A s, p : p \in {"first", "second", "unopened"} => Judged(s, p)
BY DEF Judged

LEMMA LineAt ==
  ASSUME AssemblerType, i <= Len(src)
  PROVE  i \in 1 .. Len(src) /\ line(i) = src[i] /\ i + 1 \in 1 .. Len(src) + 1
<1>1. i \in 1 .. Len(src) /\ DOMAIN src = 1 .. Len(src) /\ i + 1 \in 1 .. Len(src) + 1
  BY DEF AssemblerType
<1> QED
  BY <1>1 DEF line

LEMMA NextLine ==
  ASSUME AssemblerType, i < Len(src)
  PROVE  i + 1 \in 1 .. Len(src) /\ line(i + 1) = src[i + 1]
<1>1. i + 1 \in 1 .. Len(src) /\ DOMAIN src = 1 .. Len(src)
  BY DEF AssemblerType
<1> QED
  BY <1>1 DEF line

LEMMA WordAt ==
  ASSUME AssemblerType, NEW K, AtWord(K)
  PROVE  /\ phase = "first" /\ i \in 1 .. Len(src) /\ line(i) = src[i]
         /\ j <= Len(src[i]) /\ src[i][j].kind \in K
<1>1. phase = "first" /\ i <= Len(src) /\ j <= Len(line(i)) /\ line(i)[j].kind \in K
  BY DEF AtWord
<1>2. i \in 1 .. Len(src) /\ line(i) = src[i]
  BY <1>1, LineAt
<1> QED
  BY <1>1, <1>2, Zenon

LEMMA CountWordKeeps ==
  ASSUME AssemblerAssumption, Plain(src), AssemblerType, Passes, CountWord
  PROVE  AssemblerType' /\ Passes' /\ Judged(src, phase)'
<1>1. /\ AtWord(Counted) /\ roffset' = Wrapped(roffset + Width(line(i)[j])) /\ j' = j + 1
      /\ UNCHANGED <<src, i, symbols, main_symbol, binary, reloc_offsets, out, phase>>
  BY DEF CountWord
<1>2. /\ phase = "first" /\ i \in 1 .. Len(src) /\ line(i) = src[i]
      /\ j <= Len(src[i]) /\ src[i][j].kind \in Counted
  BY <1>1, WordAt
<1>3. InFront(src, i, j) /\ ~LabelWord(src, i, j)
  <2>1. src[i][j].kind # ";" /\ src[i][j].kind # "label"
    BY <1>2 DEF Counted
  <2> QED
    BY <1>2, <2>1, Zenon DEF InFront, LabelWord
<1>4. FirstPassAt(src, i, j, roffset, symbols, main_symbol) /\ binary = <<>> /\ reloc_offsets = <<>>
  BY <1>2 DEF Passes
<1>5. PICK w \in Nat, r \in Nat : w = Width(src[i][j]) /\ r = roffset + w
  <2>1. Width(src[i][j]) \in Nat /\ roffset \in Nat
    BY WidthType DEF AssemblerType
  <2> QED
    BY <2>1
<1>6. Wrapped(r) \in Nat
  BY WrappedOf
<1>7. FirstPassAt(src, i, j + 1, Wrapped(r), symbols, main_symbol)
  <2>1. src \in Seq(Seq(Words)) /\ j \in Nat \ {0} /\ roffset \in Nat
    BY DEF AssemblerType
  <2>2. FirstPassAt(src, i, j + 1, Wrapped(roffset + Width(src[i][j])), symbols, main_symbol)
    BY <1>2, <1>3, <1>4, <2>1, WordStep
  <2> QED
    BY <1>5, <2>2, Zenon
<1>8. roffset' = Wrapped(r)
  BY <1>1, <1>2, <1>5, Zenon
<1>9. AssemblerType'
  <2>1. roffset' \in Nat
    BY <1>6, <1>8
  <2>2. j' \in Nat \ {0}
    <3>1. j' = j + 1
      BY <1>1
    <3> QED
      BY <3>1 DEF AssemblerType
  <2> QED
    BY <1>1, <2>1, <2>2 DEF AssemblerType, SymbolsType
<1>10. Passes'
  <2>1. phase' = "first" /\ binary' = <<>> /\ reloc_offsets' = <<>>
    BY <1>1, <1>2, <1>4
  <2>2. FirstPassAt(src', i', j', roffset', symbols', main_symbol')
    BY <1>1, <1>7, <1>8
  <2> QED
    BY <2>1, <2>2 DEF Passes
<1>11. Judged(src', phase')
  BY <1>1, <1>2, Unjudged
<1> QED
  BY <1>9, <1>10, <1>11

LEMMA CountedLineKeeps ==
  ASSUME AssemblerAssumption, Plain(src), AssemblerType, Passes, CountedLine
  PROVE  AssemblerType' /\ Passes' /\ Judged(src, phase)'
<1>1. /\ phase = "first" /\ i <= Len(src)
      /\ j > Len(line(i)) \/ AtWord({";"})
      /\ i' = i + 1 /\ j' = 1
      /\ UNCHANGED <<src, roffset, symbols, main_symbol, binary, reloc_offsets, out, phase>>
  BY DEF CountedLine
<1>2. i \in 1 .. Len(src) /\ line(i) = src[i]
  BY <1>1, LineAt
<1>3. Behind(src, i, j)
  <2>1. CASE j > Len(line(i))
    BY <1>2, <2>1, Zenon DEF Behind
  <2>2. CASE AtWord({";"})
    <3>1. src[i][j].kind = ";"
      BY <1>2, <2>2 DEF AtWord
    <3> QED
      BY <3>1, Zenon DEF Behind
  <2> QED
    BY <1>1, <2>1, <2>2
<1>4. FirstPassAt(src, i, j, roffset, symbols, main_symbol) /\ binary = <<>> /\ reloc_offsets = <<>>
  BY <1>1 DEF Passes
<1>5. FirstPassAt(src, i + 1, 1, roffset, symbols, main_symbol)
  <2>1. src \in Seq(Seq(Words)) /\ j \in Nat \ {0} /\ roffset \in Nat
    BY DEF AssemblerType
  <2> QED
    BY <1>2, <1>3, <1>4, <2>1, LineStep
<1>6. AssemblerType'
  <2>1. i' \in Nat \ {0} /\ j' \in Nat \ {0}
    <3>1. i' = i + 1 /\ j' = 1
      BY <1>1
    <3> QED
      BY <3>1 DEF AssemblerType
  <2> QED
    BY <1>1, <2>1 DEF AssemblerType, SymbolsType
<1>7. Passes'
  <2>1. phase' = "first" /\ binary' = <<>> /\ reloc_offsets' = <<>>
    BY <1>1, <1>4
  <2>2. FirstPassAt(src', i', j', roffset', symbols', main_symbol')
    BY <1>1, <1>5
  <2> QED
    BY <2>1, <2>2 DEF Passes
<1>8. Judged(src', phase')
  BY <1>1, Unjudged
<1> QED
  BY <1>6, <1>7, <1>8

LEMMA CountLabelKeeps ==
  ASSUME AssemblerAssumption, Plain(src), AssemblerType, Passes, CountLabel
  PROVE  AssemblerType' /\ Passes' /\ Judged(src, phase)'
<1>1. /\ AtWord({"label"}) /\ i' = i + 1 /\ j' = j + 1
      /\ symbols' = Append(symbols, [name |-> line(i)[j].val, offset |-> roffset])
      /\ main_symbol' = IF main_symbol = NoMain /\ line(i)[j].val = "main" THEN roffset ELSE main_symbol
      /\ roffset' = Wrapped(roffset + CountedBehind(line(i + 1)))
      /\ UNCHANGED <<src, binary, reloc_offsets, out, phase>>
  BY DEF CountLabel
<1>2. /\ phase = "first" /\ i \in 1 .. Len(src) /\ line(i) = src[i]
      /\ j <= Len(src[i]) /\ src[i][j].kind = "label"
  BY <1>1, WordAt
<1>3. InFront(src, i, j) /\ LabelWord(src, i, j)
  <2>1. src[i][j].kind # ";"
    BY <1>2
  <2> QED
    BY <1>2, <2>1, Zenon DEF InFront, LabelWord
<1>4. FirstPassAt(src, i, j, roffset, symbols, main_symbol) /\ binary = <<>> /\ reloc_offsets = <<>>
  BY <1>2 DEF Passes
<1>5. PICK next : next = line(i + 1)
  OBVIOUS
<1>6. i < Len(src) => next = src[i + 1]
  BY <1>5, NextLine
<1>7. src \in Seq(Seq(Words)) /\ j \in Nat \ {0} /\ roffset \in Nat /\ symbols \in Seq(Symbol)
  BY SymbolsNow DEF AssemblerType
<1>8. /\ symbols' = Append(symbols, [name |-> src[i][j].val, offset |-> roffset])
      /\ main_symbol' = IF main_symbol = NoMain /\ src[i][j].val = "main" THEN roffset ELSE main_symbol
      /\ roffset' = Wrapped(roffset + CountedBehind(next))
  BY <1>1, <1>2, <1>5, Zenon
<1>9. symbols' \in Seq(Symbol) /\ FirstPassAt(src, i + 1, j + 1, roffset', symbols', main_symbol')
  BY <1>2, <1>3, <1>4, <1>6, <1>7, <1>8, LabelStep
<1>10. roffset' \in Nat
  <2>1. CountedBehind(next) \in Nat
    <3>1. CASE next # <<>> /\ IsStr(next)
      <4>1. i < Len(src)
        <5>1. i \in 1 .. Len(src) /\ (i = Len(src) => i + 1 \notin DOMAIN src)
          BY <1>2, <1>7
        <5>2. i + 1 \notin DOMAIN src => line(i + 1) = <<>>
          BY DEF line
        <5> QED
          BY <1>5, <3>1, <5>1, <5>2
      <4>2. i + 1 \in 1 .. Len(src) /\ next = src[i + 1]
        BY <1>6, <4>1, NextLine
      <4>3. next \in Seq(Words) /\ Len(next) > 1
        BY <1>5, <1>7, <3>1, <4>2 DEF CountLabel
      <4>4. next[2] \in Words
        BY <4>3
      <4>5. next[2].chars \in Seq(Nat)
        BY <4>4, WordType
      <4>6. Len(next[2].chars) \in Nat
        BY <4>5
      <4> QED
        BY <3>1, <4>6 DEF CountedBehind
    <3>2. CASE ~(next # <<>> /\ IsStr(next))
      BY <3>2 DEF CountedBehind
    <3> QED
      BY <3>1, <3>2
  <2>2. PICK c \in Nat, r \in Nat : c = CountedBehind(next) /\ r = roffset + c
    BY <1>7, <2>1
  <2>3. Wrapped(r) \in Nat
    BY WrappedOf
  <2> QED
    BY <1>8, <2>2, <2>3, Zenon
<1>11. main_symbol' \in Nat
  BY <1>7, <1>8 DEF AssemblerType
<1>12. AssemblerType'
  <2>1. i' \in Nat \ {0} /\ j' \in Nat \ {0}
    <3>1. i' = i + 1 /\ j' = j + 1
      BY <1>1
    <3> QED
      BY <3>1 DEF AssemblerType
  <2>2. symbols' \in Seq([name : STRING, offset : Nat])
    BY <1>9 DEF Symbol
  <2> QED
    BY <1>1, <1>10, <1>11, <2>1, <2>2 DEF AssemblerType, SymbolsType
<1>13. Passes'
  <2>1. phase' = "first" /\ binary' = <<>> /\ reloc_offsets' = <<>>
    BY <1>1, <1>2, <1>4
  <2>2. FirstPassAt(src', i', j', roffset', symbols', main_symbol')
    BY <1>1, <1>9
  <2> QED
    BY <2>1, <2>2 DEF Passes
<1>14. Judged(src', phase')
  BY <1>1, <1>2, Unjudged
<1> QED
  BY <1>12, <1>13, <1>14

LEMMA CountMissingStringKeeps ==
  ASSUME AssemblerAssumption, Plain(src), AssemblerType, Passes, CountMissingString
  PROVE  AssemblerType' /\ Passes' /\ Judged(src, phase)'
<1>1. /\ AtWord({"label"}) /\ IsStr(line(i + 1)) /\ Len(line(i + 1)) = 1
      /\ phase' = "crash"
      /\ UNCHANGED <<src, i, j, roffset, symbols, main_symbol, binary, reloc_offsets, out>>
  BY DEF CountMissingString
<1>2. AssemblerType' /\ Passes'
  BY <1>1 DEF AssemblerType, SymbolsType, Passes
<1>3. ~Correct(src)
  <2>1. PICK l : l = line(i + 1)
    OBVIOUS
  <2>2. Len(l) = 1 /\ IsStr(l)
    BY <1>1, <2>1, Zenon
  <2>3. i + 1 \in DOMAIN src
    <3>1. i + 1 \notin DOMAIN src => l = <<>>
      BY <2>1 DEF line
    <3>2. l # <<>>
      BY <2>2, EmptySeq
    <3> QED
      BY <3>1, <3>2
  <2>4. l = src[i + 1] /\ l \in Seq(Words)
    BY <2>1, <2>3 DEF line, AssemblerType
  <2>5. Len(Operands(l)) # 1
    <3>1. Len(Operands(l)) = 1 => 2 \in 1 .. Len(l)
      BY <2>4, StrOf
    <3> QED
      BY <2>2, <3>1
  <2>6. IsCode(l)
    BY <2>2 DEF IsStr, IsCode, IsLabel
  <2>7. ~CorrectLine(src, l)
    BY <2>2, <2>5 DEF CorrectLine
  <2> QED
    BY <2>3, <2>4, <2>6, <2>7 DEF Correct
<1>4. Judged(src', phase')
  BY <1>1, <1>3 DEF Judged
<1> QED
  BY <1>2, <1>4

LEMMA LookBehindRawKeeps ==
  ASSUME AssemblerAssumption, Plain(src), AssemblerType, Passes, LookBehindRaw
  PROVE  AssemblerType' /\ Passes' /\ Judged(src, phase)'
<1>1. /\ \/ AtWord({"label"})
         \/ phase = "second" /\ i <= Len(src) /\ IsLabel(line(i))
      /\ i = MAX_LINES
      /\ phase' = "wild"
      /\ UNCHANGED <<src, i, j, roffset, symbols, main_symbol, binary, reloc_offsets, out>>
  BY DEF LookBehindRaw
<1>2. AssemblerType' /\ Passes'
  BY <1>1 DEF AssemblerType, SymbolsType, Passes
<1>3. i \in 1 .. Len(src) /\ line(i) = src[i] /\ IsLabel(src[i])
  <2>1. CASE AtWord({"label"})
    <3>1. /\ phase = "first" /\ i \in 1 .. Len(src) /\ line(i) = src[i]
          /\ j <= Len(src[i]) /\ src[i][j].kind = "label"
      BY <2>1, WordAt
    <3>2. InFront(src, i, j) /\ LabelWord(src, i, j)
      <4>1. src[i][j].kind # ";"
        BY <3>1
      <4> QED
        BY <3>1, <4>1, Zenon DEF InFront, LabelWord
    <3>3. PlacedAt(src, i, j)
      <4>1. FirstPassAt(src, i, j, roffset, symbols, main_symbol)
        BY <3>1 DEF Passes
      <4>2. i <= Len(src)
        BY <3>1
      <4> QED
        BY <4>1, <4>2, Zenon DEF FirstPassAt
    <3>4. src \in Seq(Seq(Words)) /\ j \in Nat \ {0}
      BY DEF AssemblerType
    <3>5. IsLabel(src[i])
      BY <3>1, <3>2, <3>3, <3>4, WordCounted
    <3> QED
      BY <3>1, <3>5
  <2>2. CASE phase = "second" /\ i <= Len(src) /\ IsLabel(line(i))
    BY <2>2, LineAt
  <2> QED
    BY <1>1, <2>1, <2>2
<1>4. Len(src) = MAX_LINES /\ IsLabel(src[MAX_LINES])
  <2>1. Len(src) <= MAX_LINES /\ Len(src) \in Nat /\ MAX_LINES <= Len(src) /\ MAX_LINES \in Nat
    BY <1>1, <1>3 DEF AssemblerType, AssemblerAssumption
  <2> QED
    BY <1>1, <1>3, <2>1
<1>5. Judged(src', phase')
  BY <1>1, <1>4 DEF Judged
<1> QED
  BY <1>2, <1>5

LEMMA SecondPassKeeps ==
  ASSUME AssemblerAssumption, Plain(src), AssemblerType, Passes, SecondPass
  PROVE  AssemblerType' /\ Passes' /\ Judged(src, phase)'
<1>1. /\ phase = "first" /\ i > Len(src) /\ phase' = "second" /\ i' = 1
      /\ UNCHANGED <<src, j, roffset, symbols, main_symbol, binary, reloc_offsets, out>>
  BY DEF SecondPass
<1>2. AssemblerType'
  BY <1>1 DEF AssemblerType, SymbolsType
<1>3. FirstPassAt(src, i, j, roffset, symbols, main_symbol) /\ binary = <<>> /\ reloc_offsets = <<>>
  BY <1>1 DEF Passes
<1>4. src \in Seq(Seq(Words)) /\ i \in Nat
  BY DEF AssemblerType
<1>5. LabelsTo(src, i) = Labels(src)
  BY <1>1, <1>4, AllLabels
<1>6. SecondPassAt(src, 0, symbols, main_symbol, <<>>, <<>>)
  BY <1>3, <1>4, <1>5, NothingDealt DEF FirstPassAt
<1>7. DealtTo(src, 1) = 0
  <2>1. Len(src) \in Nat
    BY <1>4
  <2> QED
    BY <2>1 DEF DealtTo
<1>8. Passes'
  <2>1. phase' = "second" /\ binary' = <<>> /\ reloc_offsets' = <<>> /\ DealtTo(src', i') = 0
    BY <1>1, <1>3, <1>7
  <2>2. SecondPassAt(src', DealtTo(src', i'), symbols', main_symbol', binary', reloc_offsets')
    BY <1>1, <1>6, <2>1
  <2> QED
    BY <2>1, <2>2 DEF Passes
<1>9. Judged(src', phase')
  BY <1>1, Unjudged
<1> QED
  BY <1>2, <1>8, <1>9

-----------------------------------------------------------------------------
(* The second pass, line by line.                                          *)

LEMMA DealtAt ==
  ASSUME NEW s \in Seq(Seq(Words)), NEW n \in Nat \ {0}
  PROVE  /\ n <= Len(s) + 1 => DealtTo(s, n) = n - 1
         /\ n > Len(s) => DealtTo(s, n) = Len(s)
<1>1. Len(s) \in Nat
  OBVIOUS
<1> QED
  BY <1>1 DEF DealtTo

LEMMA SkipLineKeeps ==
  ASSUME AssemblerAssumption, Plain(src), AssemblerType, Passes, SkipLine
  PROVE  AssemblerType' /\ Passes' /\ Judged(src, phase)'
<1>1. /\ phase = "second" /\ i <= Len(src) /\ Uncommented(line(i)) = <<>>
      /\ i' = i + 1
      /\ UNCHANGED <<src, j, roffset, symbols, main_symbol, binary, reloc_offsets, out, phase>>
  BY DEF SkipLine, Skip
<1>2. i \in 1 .. Len(src) /\ line(i) = src[i] /\ i + 1 \in 1 .. Len(src) + 1
  BY <1>1, LineAt
<1>3. ~IsCode(src[i])
  BY <1>1, <1>2 DEF IsCode
<1>4. /\ src \in Seq(Seq(Words)) /\ i \in Nat \ {0} /\ i + 1 \in Nat \ {0}
      /\ binary \in Seq(Nat) /\ reloc_offsets \in Seq(Nat)
  BY DEF AssemblerType
<1>5. DealtTo(src, i) = i - 1 /\ DealtTo(src, i + 1) = i
  <2>1. i <= Len(src) + 1 /\ i + 1 <= Len(src) + 1 /\ (i + 1) - 1 = i
    BY <1>2
  <2> QED
    BY <1>4, <2>1, DealtAt
<1>6. SecondPassAt(src, i - 1, symbols, main_symbol, binary, reloc_offsets)
  BY <1>1, <1>5 DEF Passes
<1>7. SecondPassAt(src, i, symbols, main_symbol, binary, reloc_offsets)
  BY <1>2, <1>3, <1>4, <1>6, NothingEmitted
<1>8. AssemblerType'
  BY <1>1, <1>4 DEF AssemblerType, SymbolsType
<1>9. Passes'
  <2>1. phase' = "second" /\ DealtTo(src', i') = i
    BY <1>1, <1>5
  <2>2. SecondPassAt(src', DealtTo(src', i'), symbols', main_symbol', binary', reloc_offsets')
    BY <1>1, <1>7, <2>1
  <2> QED
    BY <2>1, <2>2 DEF Passes
<1>10. Judged(src', phase')
  BY <1>1, Unjudged
<1> QED
  BY <1>8, <1>9, <1>10

(* At a line of code, or at a label in front of one, the second pass is    *)
(* about to assemble it.                                                   *)
LEMMA Assembling ==
  ASSUME Plain(src), AssemblerType, Passes, AtLine
  PROVE  /\ SecondType
         /\ line(Assembled) # <<>> => AtCode(Assembled) /\ (Assembled = i \/ Assembled = i + 1)
         /\ line(Assembled) = <<>> => i = Len(src) /\ ~IsCode(src[i])
<1>1. phase = "second" /\ i <= Len(src) /\ Uncommented(line(i)) # <<>>
  BY DEF AtLine
<1>2. i \in 1 .. Len(src) /\ line(i) = src[i] /\ i + 1 \in 1 .. Len(src) + 1
  BY <1>1, LineAt
<1>3. SecondType
  BY DEF SecondType, AssemblerType
<1>4. /\ src \in Seq(Seq(Words)) /\ i \in Nat \ {0} /\ Len(src) \in Nat
      /\ binary \in Seq(Nat) /\ reloc_offsets \in Seq(Nat)
  BY DEF AssemblerType
<1>5. SecondPassAt(src, i - 1, symbols, main_symbol, binary, reloc_offsets)
  <2>1. i <= Len(src) + 1
    BY <1>2
  <2>2. DealtTo(src, i) = i - 1
    BY <1>4, <2>1, DealtAt
  <2> QED
    BY <1>1, <2>2 DEF Passes
<1>6. CASE ~IsLabel(src[i])
  <2>1. Assembled = i
    BY <1>2, <1>6 DEF Assembled
  <2>2. IsCode(src[i])
    BY <1>1, <1>2, <1>6 DEF IsCode
  <2>3. src[i] # <<>>
    <3>1. PICK p \in Nat, q \in Nat : Shape(src, i, p, q)
      BY <1>2, <1>4, ShapeOf
    <3>2. p = Len(Uncommented(src[i])) /\ q = Len(src[i]) /\ p <= q
      BY <3>1 DEF Shape
    <3>3. src[i] \in Seq(Words)
      BY <1>2, <1>4
    <3>4. Uncommented(src[i]) \in Seq(Words) /\ Uncommented(src[i]) # <<>>
      BY <1>1, <1>2, <3>3, UncommentedOf
    <3>5. p # 0
      BY <3>2, <3>4, EmptySeq
    <3>6. q # 0
      BY <3>2, <3>5
    <3>7. src[i] = <<>> => q = 0
      BY <3>2, EmptySeq
    <3> QED
      BY <3>6, <3>7
  <2>4. AtCode(i)
    BY <1>2, <1>5, <2>1, <2>2 DEF AtCode
  <2> QED
    BY <1>2, <1>3, <2>1, <2>3, <2>4
<1>7. CASE IsLabel(src[i])
  <2>1. Assembled = i + 1
    BY <1>2, <1>7 DEF Assembled
  <2>2. ~IsCode(src[i])
    BY <1>7 DEF IsCode
  <2>3. CASE i = Len(src)
    <3>1. i + 1 \notin DOMAIN src
      BY <1>4, <2>3
    <3>2. line(Assembled) = <<>>
      BY <2>1, <3>1 DEF line
    <3> QED
      BY <1>3, <2>2, <2>3, <3>2
  <2>4. CASE i # Len(src)
    <3>1. i < Len(src)
      BY <1>2, <1>4, <2>4
    <3>2. i + 1 \in 1 .. Len(src) /\ line(i + 1) = src[i + 1]
      BY <3>1, NextLine
    <3>3. IsCode(src[i + 1])
      <4>1. i \in DOMAIN src
        BY <1>2, <1>4
      <4> QED
        BY <1>7, <3>1, <4>1 DEF Plain
    <3>4. SecondPassAt(src, i, symbols, main_symbol, binary, reloc_offsets)
      BY <1>2, <1>4, <1>5, <2>2, NothingEmitted
    <3>5. AtCode(i + 1)
      <4>1. (i + 1) - 1 = i
        BY <1>4
      <4> QED
        BY <2>1, <3>2, <3>3, <3>4, <4>1 DEF AtCode
    <3>6. src[i + 1] # <<>>
      <4>1. src[i + 1] \in Seq(Words)
        BY <1>4, <3>2
      <4>2. 1 \in 1 .. Len(src[i + 1])
        BY <3>3, <4>1, OperationOf
      <4>3. Len(src[i + 1]) # 0
        BY <4>2
      <4> QED
        BY <4>3, EmptySeq
    <3> QED
      BY <1>3, <2>1, <3>2, <3>5, <3>6
  <2> QED
    BY <2>3, <2>4
<1> QED
  BY <1>6, <1>7

LEMMA SkipBehindLabelKeeps ==
  ASSUME AssemblerAssumption, Plain(src), AssemblerType, Passes, SkipBehindLabel
  PROVE  AssemblerType' /\ Passes' /\ Judged(src, phase)'
<1>1. /\ AtLine /\ line(Assembled) = <<>> /\ i' = i + 3
      /\ UNCHANGED <<src, j, roffset, symbols, main_symbol, binary, reloc_offsets, out, phase>>
  BY DEF SkipBehindLabel, Skip
<1>2. phase = "second" /\ i = Len(src) /\ ~IsCode(src[i])
  BY <1>1, Assembling DEF AtLine
<1>3. /\ src \in Seq(Seq(Words)) /\ i \in Nat \ {0} /\ i + 3 \in Nat \ {0} /\ Len(src) \in Nat
      /\ binary \in Seq(Nat) /\ reloc_offsets \in Seq(Nat)
  BY DEF AssemblerType
<1>4. i \in 1 .. Len(src) /\ i <= Len(src) + 1 /\ i + 3 > Len(src)
  BY <1>2, <1>3
<1>5. DealtTo(src, i) = i - 1 /\ DealtTo(src, i + 3) = Len(src)
  BY <1>3, <1>4, DealtAt
<1>6. SecondPassAt(src, i - 1, symbols, main_symbol, binary, reloc_offsets)
  BY <1>2, <1>5 DEF Passes
<1>7. SecondPassAt(src, i, symbols, main_symbol, binary, reloc_offsets)
  BY <1>2, <1>3, <1>4, <1>6, NothingEmitted
<1>8. AssemblerType'
  BY <1>1, <1>3 DEF AssemblerType, SymbolsType
<1>9. Passes'
  <2>1. phase' = "second" /\ DealtTo(src', i') = i
    BY <1>1, <1>2, <1>5
  <2>2. SecondPassAt(src', DealtTo(src', i'), symbols', main_symbol', binary', reloc_offsets')
    BY <1>1, <1>7, <2>1
  <2> QED
    BY <2>1, <2>2 DEF Passes
<1>10. Judged(src', phase')
  BY <1>1, <1>2, Unjudged
<1> QED
  BY <1>8, <1>9, <1>10

LEMMA EmitKeeps ==
  ASSUME AssemblerAssumption, Plain(src), AssemblerType, Passes, Emit
  PROVE  AssemblerType' /\ Passes' /\ Judged(src, phase)'
<1>1. /\ AtLine /\ line(Assembled) # <<>> /\ enoughParam /\ Unknown = {}
      /\ reloc_offsets' = reloc_offsets \o Relocated
      /\ binary' = binary \o Emitted
      /\ i' = Assembled + 1
      /\ UNCHANGED <<src, j, roffset, symbols, main_symbol, out, phase>>
  BY DEF Emit
<1>2. PICK k : k = Assembled
  OBVIOUS
<1>3. SecondType /\ AtCode(k) /\ phase = "second"
  BY <1>1, <1>2, Assembling DEF AtLine
<1>4. /\ src \in Seq(Seq(Words)) /\ k \in 1 .. Len(src) /\ IsCode(src[k])
      /\ SecondPassAt(src, k - 1, symbols, main_symbol, binary, reloc_offsets)
      /\ binary \in Seq(Nat) /\ reloc_offsets \in Seq(Nat)
  BY <1>3 DEF AtCode, SecondType
<1>5. /\ Emitted \in Seq(Nat) /\ Len(Emitted) = Size(src[k])
      /\ Good(src) => Emitted = Encoded(src, src[k])
      /\ Relocated = RelocatedBy(src, k)
  BY <1>1, <1>3, LineEmitted
<1>6. CorrectLine(src, src[k])
  BY <1>1, <1>3, CorrectAccepted
<1>7. PICK e \in Seq(Nat), rel \in Seq(Nat) : e = Emitted /\ rel = RelocatedBy(src, k)
  BY <1>4, <1>5, RelocatedByType
<1>8. SecondPassAt(src, k, symbols, main_symbol, binary \o e, reloc_offsets \o RelocatedBy(src, k))
  <2>1. Len(e) = Size(src[k]) /\ (Good(src) => e = Encoded(src, src[k]))
    BY <1>5, <1>7, Zenon
  <2> QED
    BY <1>4, <1>6, <2>1, LineDealt
<1>9. binary' = binary \o e /\ reloc_offsets' = reloc_offsets \o rel /\ i' = k + 1
  BY <1>1, <1>2, <1>5, <1>7, Zenon
<1>10. k + 1 \in Nat \ {0} /\ k + 1 <= Len(src) + 1 /\ (k + 1) - 1 = k
  BY <1>4
<1>11. DealtTo(src, k + 1) = k
  BY <1>4, <1>10, DealtAt
<1>12. AssemblerType'
  <2>1. binary \o e \in Seq(Nat) /\ reloc_offsets \o rel \in Seq(Nat)
    BY <1>4
  <2>2. binary' \in Seq(Nat) /\ reloc_offsets' \in Seq(Nat) /\ i' \in Nat \ {0}
    BY <1>9, <1>10, <2>1
  <2>3. UNCHANGED <<src, j, roffset, symbols, main_symbol>>
    BY <1>1
  <2> QED
    BY <2>2, <2>3 DEF AssemblerType, SymbolsType
<1>13. Passes'
  <2>1. phase' = "second" /\ src' = src /\ symbols' = symbols /\ main_symbol' = main_symbol
    BY <1>1, <1>3
  <2>2. DealtTo(src', i') = k
    BY <1>9, <1>11, <2>1, Zenon
  <2>3. SecondPassAt(src', DealtTo(src', i'), symbols', main_symbol', binary', reloc_offsets')
    BY <1>7, <1>8, <1>9, <2>1, <2>2, Zenon
  <2> QED
    BY <2>1, <2>3 DEF Passes
<1>14. Judged(src', phase')
  BY <1>1, <1>3, Unjudged
<1> QED
  BY <1>12, <1>13, <1>14

LEMMA OverrunKeeps ==
  ASSUME AssemblerAssumption, Plain(src), AssemblerType, Passes, Overrun
  PROVE  AssemblerType' /\ Passes' /\ Judged(src, phase)'
<1>1. /\ AtLine /\ line(Assembled) # <<>> /\ enoughParam /\ Overruns
      /\ phase' = "wild"
      /\ UNCHANGED <<src, i, j, roffset, symbols, main_symbol, binary, reloc_offsets, out>>
  BY DEF Overrun
<1>2. SecondType /\ AtCode(Assembled)
  BY <1>1, Assembling
<1>3. ~SizeWithin(src, UINT16_MAX)
  BY <1>1, <1>2, OverrunMeans
<1>4. AssemblerType' /\ Passes'
  BY <1>1 DEF AssemblerType, SymbolsType, Passes
<1>5. Judged(src', phase')
  BY <1>1, <1>3 DEF Judged
<1> QED
  BY <1>4, <1>5

LEMMA RejectKeeps ==
  ASSUME AssemblerAssumption, Plain(src), AssemblerType, Passes, Reject
  PROVE  AssemblerType' /\ Passes' /\ Judged(src, phase)'
<1>1. /\ AtLine /\ line(Assembled) # <<>> /\ (enoughParam => Unknown # {})
      /\ phase' = "failed"
      /\ UNCHANGED <<src, i, j, roffset, symbols, main_symbol, binary, reloc_offsets, out>>
  BY DEF Reject
<1>2. PICK k : k = Assembled
  OBVIOUS
<1>3. SecondType /\ AtCode(k)
  BY <1>1, <1>2, Assembling
<1>4. ~CorrectLine(src, src[k])
  BY <1>1, <1>3, CorrectAccepted
<1>5. ~Correct(src)
  <2>1. k \in DOMAIN src /\ IsCode(src[k])
    BY <1>3 DEF AtCode, SecondType
  <2> QED
    BY <1>4, <2>1 DEF Correct
<1>6. AssemblerType' /\ Passes'
  BY <1>1 DEF AssemblerType, SymbolsType, Passes
<1>7. Judged(src', phase')
  BY <1>1, <1>5 DEF Judged
<1> QED
  BY <1>6, <1>7

-----------------------------------------------------------------------------
(* The output.                                                             *)

LEMMA Ended ==
  ASSUME AssemblerAssumption, AssemblerType, Passes, AtEnd
  PROVE  /\ main_symbol # NoMain => Correct(src)
         /\ main_symbol = NoMain => ~Correct(src) \/ ~SizeWithin(src, UINT16_MAX)
         /\ final_binary \in Seq(Nat)
         /\ SizeWithin(src, UINT16_MAX) <=> Len(final_binary) <= UINT16_MAX
         /\ main_symbol # NoMain /\ SizeWithin(src, UINT16_MAX) =>
              Laid(src) /\ final_binary = ExecutableOf(src)
<1>1. /\ src \in Seq(Seq(Words)) /\ i \in Nat \ {0} /\ main_symbol \in Nat
      /\ binary \in Seq(Nat) /\ reloc_offsets \in Seq(Nat)
  BY DEF AssemblerType
<1>2. phase = "second" /\ i > Len(src)
  BY DEF AtEnd
<1>3. DealtTo(src, i) = Len(src)
  BY <1>1, <1>2, DealtAt
<1>4. SecondPassAt(src, Len(src), symbols, main_symbol, binary, reloc_offsets)
  BY <1>2, <1>3 DEF Passes
<1>5. /\ reloc_offsets = RelocationsOf(src) /\ Len(binary) = Offset(src, Len(src) + 1)
      /\ main_symbol # NoMain => Correct(src)
      /\ main_symbol = NoMain => ~Correct(src) \/ ~SizeWithin(src, UINT16_MAX)
      /\ main_symbol # NoMain /\ SizeWithin(src, UINT16_MAX) =>
           Laid(src) /\ Executable(binary, reloc_offsets, main_symbol) = ExecutableOf(src)
  BY <1>1, <1>4, AllDealt
<1>6. final_binary \in Seq(Nat) /\ Len(final_binary) = 8 + 2 * Len(reloc_offsets) + Len(binary)
  BY <1>1, ExecutableLength DEF final_binary
<1>7. SizeWithin(src, UINT16_MAX) <=> Len(final_binary) <= UINT16_MAX
  BY <1>5, <1>6, Zenon DEF SizeWithin, HEADER
<1> QED
  BY <1>5, <1>6, <1>7, Zenon DEF final_binary

LEMMA NoMainSymbolKeeps ==
  ASSUME AssemblerAssumption, Plain(src), AssemblerType, Passes, NoMainSymbol
  PROVE  AssemblerType' /\ Passes' /\ Judged(src, phase)'
<1>1. /\ AtEnd /\ main_symbol = NoMain /\ phase' = "failed"
      /\ UNCHANGED <<src, i, j, roffset, symbols, main_symbol, binary, reloc_offsets, out>>
  BY DEF NoMainSymbol
<1>2. ~Correct(src) \/ ~SizeWithin(src, UINT16_MAX)
  BY <1>1, Ended
<1>3. AssemblerType' /\ Passes'
  BY <1>1 DEF AssemblerType, SymbolsType, Passes
<1>4. Judged(src', phase')
  BY <1>1, <1>2 DEF Judged
<1> QED
  BY <1>3, <1>4

LEMMA OverrunFinalKeeps ==
  ASSUME AssemblerAssumption, Plain(src), AssemblerType, Passes, OverrunFinal
  PROVE  AssemblerType' /\ Passes' /\ Judged(src, phase)'
<1>1. /\ AtEnd /\ Len(final_binary) > UINT16_MAX /\ phase' = "wild"
      /\ UNCHANGED <<src, i, j, roffset, symbols, main_symbol, binary, reloc_offsets, out>>
  BY DEF OverrunFinal
<1>2. ~SizeWithin(src, UINT16_MAX)
  <2>1. final_binary \in Seq(Nat) /\ (SizeWithin(src, UINT16_MAX) <=> Len(final_binary) <= UINT16_MAX)
    BY <1>1, Ended
  <2>2. PICK n \in Nat : n = Len(final_binary)
    BY <2>1
  <2>3. ~(n <= UINT16_MAX)
    BY <1>1, <2>2 DEF AssemblerAssumption
  <2> QED
    BY <2>1, <2>2, <2>3, Zenon
<1>3. AssemblerType' /\ Passes'
  BY <1>1 DEF AssemblerType, SymbolsType, Passes
<1>4. Judged(src', phase')
  BY <1>1, <1>2 DEF Judged
<1> QED
  BY <1>3, <1>4

(* Writing over a file that has been emptied leaves what is written.       *)
LEMMA OverwrittenOf ==
  ASSUME NEW file, NEW bytes \in Seq(Nat)
  PROVE  Overwritten(Opened(file), bytes) = bytes
<1>1. Len(bytes) + 1 > 0 /\ Len(<<>>) = 0
  OBVIOUS
<1>2. SubSeq(<<>>, Len(bytes) + 1, Len(<<>>)) = <<>>
  BY <1>1
<1> QED
  BY <1>2, ConcatEmptySeq DEF Overwritten, Opened

LEMMA FinishKeeps ==
  ASSUME AssemblerAssumption, Plain(src), AssemblerType, Passes, Finish
  PROVE  AssemblerType' /\ Passes' /\ Judged(src, phase)'
<1>1. /\ AtEnd /\ main_symbol # NoMain /\ Len(final_binary) <= UINT16_MAX
      /\ UNCHANGED <<src, i, j, roffset, symbols, main_symbol, binary, reloc_offsets>>
  BY DEF Finish
<1>2. AssemblerType'
  BY <1>1 DEF AssemblerType, SymbolsType
<1>3. /\ Correct(src) /\ SizeWithin(src, UINT16_MAX) /\ Laid(src)
      /\ final_binary \in Seq(Nat) /\ final_binary = ExecutableOf(src)
  BY <1>1, Ended
<1>4. CASE phase' = "unopened"
  BY <1>2, <1>4, Unjudged DEF Passes
<1>5. CASE /\ phase' = "written"
           /\ \E removed, n : /\ n \in IF OutputFaults THEN 0 .. Len(final_binary) ELSE {Len(final_binary)}
                              /\ out' = Overwritten(Opened(removed), SubSeq(final_binary, 1, n))
  <2>1. PICK removed, n : /\ n \in IF OutputFaults THEN 0 .. Len(final_binary) ELSE {Len(final_binary)}
                          /\ out' = Overwritten(Opened(removed), SubSeq(final_binary, 1, n))
    BY <1>5
  <2>2. Len(final_binary) \in Nat
    BY <1>3
  <2>3. n \in 0 .. Len(final_binary) /\ (~OutputFaults => n = Len(final_binary))
    BY <2>1, <2>2
  <2>4. SubSeq(final_binary, 1, n) \in Seq(Nat)
    BY <1>3, <2>3
  <2>5. out' = SubSeq(final_binary, 1, n)
    BY <2>1, <2>4, OverwrittenOf
  <2>6. Written(src, out')
    <3>1. PICK x \in Seq(Nat) : x = final_binary
      BY <1>3
    <3>2. SubSeq(x, 1, Len(x)) = x
      OBVIOUS
    <3>3. ~OutputFaults => out' = x
      BY <2>3, <2>5, <3>1, <3>2, Zenon
    <3>4. IsPrefix(SubSeq(x, 1, n), x)
      BY <2>3, <3>1, FrontIsPrefix
    <3> QED
      BY <1>3, <2>4, <2>5, <3>1, <3>3, <3>4, Zenon DEF Written
  <2>7. Passes'
    BY <1>1, <1>3, <1>5, <2>6 DEF Passes
  <2>8. Judged(src', phase')
    BY <1>1, <1>3, <1>5 DEF Judged
  <2> QED
    BY <1>2, <2>7, <2>8
<1>6. \/ phase' = "unopened"
      \/ /\ phase' = "written"
         /\ \E removed, n : /\ n \in IF OutputFaults THEN 0 .. Len(final_binary) ELSE {Len(final_binary)}
                            /\ out' = Overwritten(Opened(removed), SubSeq(final_binary, 1, n))
  BY Zenon DEF Finish
<1> QED
  BY <1>4, <1>5, <1>6

-----------------------------------------------------------------------------
(* read_file leaves lines of words, no more of them than raw[] holds.      *)
LEMMA KeptType ==
  ASSUME AssemblerAssumption, NEW file \in Seq(Seq(Words))
  PROVE  Kept(file) \in Seq(Seq(Words)) /\ Len(Kept(file)) <= MAX_LINES
<1> DEFINE B == Seq(Words)
<1>1. MAX_LINES \in Nat /\ MAX_WORDS \in Nat
  BY DEF AssemblerAssumption
<1>2. ASSUME NEW T, NEW s \in Seq(T), NEW n \in Nat
      PROVE  Cut(s, n) \in Seq(T) /\ Len(Cut(s, n)) <= n /\ Len(Cut(s, n)) <= Len(s)
  <2>1. PICK m \in Nat : m = (IF Len(s) < n THEN Len(s) ELSE n)
    OBVIOUS
  <2>2. m <= n /\ m <= Len(s)
    BY <2>1
  <2>3. \A k \in 1 .. m : s[k] \in T
    BY <2>2
  <2>4. SubSeq(s, 1, m) \in Seq(T) /\ Len(SubSeq(s, 1, m)) = (IF 1 <= m THEN m - 1 + 1 ELSE 0)
    BY <2>3, SubSeqProperties
  <2>5. Len(SubSeq(s, 1, m)) = m
    BY <2>4
  <2>6. Cut(s, n) = SubSeq(s, 1, m)
    BY <2>1 DEF Cut
  <2> QED
    BY <2>2, <2>4, <2>5, <2>6
<1>3. PICK c \in Seq(B), m \in Nat : /\ c = Cut(file, MAX_LINES) /\ m = Len(c)
                                     /\ m <= MAX_LINES /\ m <= Len(file) /\ DOMAIN c = 1 .. m
  BY <1>1, <1>2
<1>4. \A n \in 1 .. m : Cut(file[n], MAX_WORDS) \in B
  <2>1. \A n \in 1 .. m : file[n] \in Seq(Words)
    BY <1>3
  <2> QED
    BY <1>1, <1>2, <2>1
<1>5. Kept(file) = [n \in 1 .. m |-> Cut(file[n], MAX_WORDS)]
  BY <1>3 DEF Kept
<1> HIDE DEF B
<1>6. [n \in 1 .. m |-> Cut(file[n], MAX_WORDS)] \in Seq(B) /\ Len([n \in 1 .. m |-> Cut(file[n], MAX_WORDS)]) = m
  BY <1>4
<1> QED
  BY <1>3, <1>5, <1>6 DEF B

(* Before the first step: in front of the first word of any source.        *)
Begun == /\ i = 1 /\ j = 1 /\ roffset = 0
         /\ symbols = <<>> /\ main_symbol = NoMain /\ binary = <<>> /\ reloc_offsets = <<>>
         /\ phase = "first"

LEMMA AssemblerStarts ==
  ASSUME AssemblerAssumption, Begun, src \in Seq(Seq(Words)), Len(src) <= MAX_LINES
  PROVE  AssemblerInv
<1>1. /\ i = 1 /\ j = 1 /\ roffset = 0
      /\ symbols = <<>> /\ main_symbol = NoMain /\ binary = <<>> /\ reloc_offsets = <<>>
      /\ phase = "first"
  BY DEF Begun
<1>2. PICK s \in Seq(Seq(Words)) : s = src /\ Len(s) <= MAX_LINES
  OBVIOUS
<1>3. AssemblerType
  <2>1. UINT16_MAX \in Nat
    BY DEF AssemblerAssumption
  <2>2. <<>> \in Seq(Nat) /\ <<>> \in Seq([name : STRING, offset : Nat])
    BY EmptySeq
  <2> QED
    BY <1>1, <1>2, <2>1, <2>2 DEF AssemblerType, SymbolsType, NoMain
<1>4. FirstPassAt(s, 1, 1, 0, <<>>, NoMain)
  <2>1. 1 \in 1 .. Len(s) + 1
    OBVIOUS
  <2>2. PlacedAt(s, 1, 1)
    BY DEF PlacedAt
  <2>3. LabelsTo(s, 1) = {}
    BY LabelsOf DEF LabelsTo
  <2>4. NamesIn(<<>>) = {}
    BY DEF NamesIn
  <2>5. Recorded(s, <<>>, NoMain, {}) /\ Resolved(s, <<>>, NoMain, {})
    BY <2>4 DEF Recorded, Resolved
  <2>6. ASSUME 1 <= Len(s)
        PROVE  0 = Offset(s, 1) + Passed(s[1], 1 - 1)
    <3>1. 1 \in 1 .. Len(s)
      BY <2>6
    <3>2. Offset(s, 1) = 0
      BY <3>1, OffsetStep
    <3>3. Passed(s[1], 1 - 1) = 0
      BY DEF Passed
    <3> QED
      BY <3>2, <3>3
  <2> QED
    BY <2>1, <2>2, <2>3, <2>5, <2>6, Zenon DEF FirstPassAt
<1>5. Passes
  BY <1>1, <1>2, <1>4 DEF Passes
<1>6. Judged(src, phase)
  BY <1>1, Unjudged
<1> QED
  BY <1>3, <1>5, <1>6 DEF AssemblerInv

LEMMA SourceStays == [Next]_varsA => src' = src
BY DEF Next, varsA, CountWord, CountLabel, CountMissingString, LookBehindRaw, CountedLine, SecondPass,
       SkipLine, SkipBehindLabel, Skip, Emit, Overrun, Reject, NoMainSymbol, OverrunFinal, Finish

LEMMA AssemblerStep ==
  ASSUME AssemblerAssumption, AssemblerInv, [Next]_varsA
  PROVE  AssemblerInv'
<1>1. src' = src
  BY SourceStays
<1>2. CASE ~Plain(src)
  BY <1>1, <1>2 DEF AssemblerInv
<1>3. CASE Plain(src)
  <2>1. AssemblerType /\ Passes /\ Judged(src, phase)
    BY <1>3 DEF AssemblerInv
  <2>2. SUFFICES AssemblerType' /\ Passes' /\ Judged(src, phase)'
    BY DEF AssemblerInv
  <2>3. CASE CountWord
    BY <1>3, <2>1, <2>3, CountWordKeeps
  <2>4. CASE CountLabel
    BY <1>3, <2>1, <2>4, CountLabelKeeps
  <2>5. CASE CountMissingString
    BY <1>3, <2>1, <2>5, CountMissingStringKeeps
  <2>6. CASE LookBehindRaw
    BY <1>3, <2>1, <2>6, LookBehindRawKeeps
  <2>7. CASE CountedLine
    BY <1>3, <2>1, <2>7, CountedLineKeeps
  <2>8. CASE SecondPass
    BY <1>3, <2>1, <2>8, SecondPassKeeps
  <2>9. CASE SkipLine
    BY <1>3, <2>1, <2>9, SkipLineKeeps
  <2>10. CASE SkipBehindLabel
    BY <1>3, <2>1, <2>10, SkipBehindLabelKeeps
  <2>11. CASE Emit
    BY <1>3, <2>1, <2>11, EmitKeeps
  <2>12. CASE Overrun
    BY <1>3, <2>1, <2>12, OverrunKeeps
  <2>13. CASE Reject
    BY <1>3, <2>1, <2>13, RejectKeeps
  <2>14. CASE NoMainSymbol
    BY <1>3, <2>1, <2>14, NoMainSymbolKeeps
  <2>15. CASE OverrunFinal
    BY <1>3, <2>1, <2>15, OverrunFinalKeeps
  <2>16. CASE Finish
    BY <1>3, <2>1, <2>16, FinishKeeps
  <2>17. CASE UNCHANGED varsA
    BY <2>1, <2>17 DEF varsA, AssemblerType, SymbolsType, Passes
  <2> QED
    BY <2>3, <2>4, <2>5, <2>6, <2>7, <2>8, <2>9, <2>10, <2>11, <2>12, <2>13, <2>14, <2>15, <2>16, <2>17
       DEF Next
<1> QED
  BY <1>2, <1>3
LEMMA AssemblerInvHolds == Spec => []AssemblerInv
<1>1. Init => AssemblerInv
  <2> SUFFICES ASSUME Init PROVE AssemblerInv
    OBVIOUS
  <2>1. Begun /\ src \in {Kept(file) : file \in Sources}
    BY DEF Init, Begun
  <2>2. PICK file \in Seq(Seq(Words)) : src = Kept(file)
    BY <2>1, AssemblerAssumption DEF AssemblerAssumption
  <2>3. src \in Seq(Seq(Words)) /\ Len(src) <= MAX_LINES
    BY <2>2, AssemblerAssumption, KeptType
  <2> QED
    BY <2>1, <2>3, AssemblerAssumption, AssemblerStarts
<1>2. AssemblerInv /\ [Next]_varsA => AssemblerInv'
  BY AssemblerAssumption, AssemblerStep
<1> QED
  BY <1>1, <1>2, PTL DEF Spec

-----------------------------------------------------------------------------
(* A source in the plain layout, of any length and with any mistakes, is   *)
(* rejected exactly if it has one, and runs into undefined behaviour only  *)
(* if it is too large.                                                     *)
THEOREM SourcesJudged == Spec => []Verdict
<1>1. AssemblerInv => Verdict
  BY DEF AssemblerInv, Judged, Verdict
<1> QED
  BY <1>1, AssemblerInvHolds, PTL

(* What assembling a source in the plain layout leaves in the output file  *)
(* is the executable the source means, cut short only where writing it may *)
(* fail: nobody looks at the result of write.                              *)
OutputMeant == phase = "written" /\ Plain(src) => Written(src, out)

THEOREM OutputIsMeant == Spec => []OutputMeant
<1>1. AssemblerInv => OutputMeant
  BY DEF AssemblerInv, Passes, OutputMeant
<1> QED
  BY <1>1, AssemblerInvHolds, PTL

(* As long as the file can be written, it holds code, relocation table and *)
(* entry as the source means them, every reference the offset of the code  *)
(* behind its label: the two passes of the assembler stay in step.         *)
THEOREM MeaningAssembled ==
  ASSUME ~OutputFaults
  PROVE  Spec => []AssemblesMeaning
<1>1. AssemblerInv => AssemblesMeaning
  BY DEF AssemblerInv, Passes, Written, AssemblesMeaning
<1> QED
  BY <1>1, AssemblerInvHolds, PTL
=============================================================================
