--------------------------- MODULE SequenceFacts ---------------------------
(***************************************************************************)
(* Facts about least numbers, and about sequences put together by Append   *)
(* and FlattenSeq, that the proofs about read_file and the assembler need. *)
(***************************************************************************)
EXTENDS Integers, SequencesExt, SequenceTheorems, WellFoundedInduction, TLAPS

-----------------------------------------------------------------------------
(* Least numbers                                                           *)

LEMMA LeastMember ==
  ASSUME NEW S \in SUBSET Nat, S # {}
  PROVE  \E a \in S : \A b \in S : a <= b
<1>1. PICK a \in S : \A b \in S : ~ (<<b, a>> \in OpToRel(<, Nat))
  BY NatLessThanWellFounded, WFMin
<1>2. ASSUME NEW b \in S
      PROVE  a <= b
  <2>1. ~ (b < a)
    BY <1>1 DEF OpToRel
  <2> QED
    BY <2>1
<1> QED
  BY <1>2

LEMMA LeastOf ==
  ASSUME NEW S \in SUBSET Nat, S # {}
  PROVE  Min(S) \in S
BY LeastMember DEF Min

LEMMA FirstType ==
  ASSUME NEW n \in Nat, NEW I \in SUBSET (1 .. n)
  PROVE  (IF I # {} THEN Min(I) ELSE 0) \in 0 .. n
<1>1. CASE I = {}
  BY <1>1
<1>2. CASE I # {}
  <2>1. I \in SUBSET Nat
    OBVIOUS
  <2>2. Min(I) \in I
    BY <1>2, <2>1, LeastOf
  <2>3. Min(I) \in 1 .. n
    BY <2>2
  <2>4. 1 .. n \subseteq 0 .. n
    OBVIOUS
  <2> QED
    BY <1>2, <2>3, <2>4, Zenon
<1> QED
  BY <1>1, <1>2

(* What a sequence begins with.                                            *)
LEMMA FrontIsPrefix ==
  ASSUME NEW T, NEW s \in Seq(T), NEW n \in 0 .. Len(s)
  PROVE  IsPrefix(SubSeq(s, 1, n), s)
<1>1. Len(s) \in Nat /\ n \in Nat /\ n <= Len(s) /\ \A k \in 1 .. n : s[k] \in T
  OBVIOUS
<1>2. PICK f : f = SubSeq(s, 1, n)
  OBVIOUS
<1>3. /\ f \in Seq(T) /\ Len(f) = n
      /\ SubSeq(f, 1, n) = f
  <2>1. f \in Seq(T) /\ Len(f) = IF 1 <= n THEN n ELSE 0
    BY <1>1, <1>2, SubSeqProperties
  <2>2. SubSeq(f, 1, Len(f)) = f
    BY <2>1
  <2> QED
    BY <1>1, <2>1, <2>2
<1>4. Len(f) <= Len(s) /\ SubSeq(f, 1, Len(f)) = SubSeq(s, 1, Len(f))
  BY <1>1, <1>2, <1>3
<1> QED
  BY <1>2, <1>4 DEF IsPrefix

(* A beginning of the same length is all of it.                            *)
LEMMA WholePrefix ==
  ASSUME NEW T, NEW s \in Seq(T), NEW t \in Seq(T), IsPrefix(s, t), Len(s) = Len(t)
  PROVE  s = t
<1>1. SubSeq(s, 1, Len(s)) = SubSeq(t, 1, Len(t))
  BY DEF IsPrefix
<1>2. SubSeq(s, 1, Len(s)) = s /\ SubSeq(t, 1, Len(t)) = t
  OBVIOUS
<1> QED
  BY <1>1, <1>2

LEMMA AppendType ==
  ASSUME NEW S, NEW s \in Seq(S), NEW e \in S
  PROVE  /\ Append(s, e) \in Seq(S) /\ Len(Append(s, e)) = Len(s) + 1
         /\ \A n \in DOMAIN Append(s, e) : Append(s, e)[n] = IF n = Len(s) + 1 THEN e ELSE s[n]
BY AppendProperties

-----------------------------------------------------------------------------
(* What FlattenSeq puts together. The recursive function inside FlattenSeq *)
(* exists and is determined by its equation; both are proved with a least  *)
(* counterexample.                                                         *)

(* f[i] is what the first i members of ss give when put together.          *)
Turns(f, ss, n) == \A i \in 1 .. n : f[i] = IF i = 1 THEN ss[i] ELSE f[i - 1] \o ss[i]

Agree(f, g, n) == \A i \in 1 .. n : f[i] = g[i]

(* f lists what FlattenSeq has put together behind every member of ss.     *)
Flattens(f, ss) ==
  f = [i \in 1 .. Len(ss) |-> IF i = 1 THEN ss[i] ELSE f[i - 1] \o ss[i]]

LEMMA FlattenTurns ==
  ASSUME NEW T, NEW ss \in Seq(T), ss # <<>>
  PROVE  FlattenSeq(ss) = (CHOOSE f : Flattens(f, ss))[Len(ss)]
<1>1. Len(ss) # 0
  BY EmptySeq
<1> QED
  BY <1>1, Zenon DEF FlattenSeq, Flattens

LEMMA Flattening ==
  ASSUME NEW T, NEW ss \in Seq(Seq(T)), NEW n \in 1 .. Len(ss)
  PROVE  \E f \in [1 .. n -> Seq(T)] : Turns(f, ss, n)
<1> DEFINE G(m) == \E f \in [1 .. m -> Seq(T)] : Turns(f, ss, m)
           S == {m \in 1 .. n : ~G(m)}
<1>0. Len(ss) \in Nat /\ n \in Nat /\ \A i \in 1 .. n : ss[i] \in Seq(T)
  OBVIOUS
<1>1. SUFFICES ASSUME S # {} PROVE FALSE
  <2>1. n \in 1 .. n
    OBVIOUS
  <2> QED
    BY <2>1
<1>2. PICK m \in S : \A b \in S : m <= b
  <2>1. S \in SUBSET Nat
    OBVIOUS
  <2> HIDE DEF S
  <2> QED
    BY <1>1, <2>1, LeastMember
<1>3. CASE m = 1
  <2> DEFINE h == [i \in 1 .. 1 |-> ss[1]]
  <2>1. h \in [1 .. 1 -> Seq(T)]
    BY <1>0, <1>2
  <2>2. Turns(h, ss, 1)
    BY DEF Turns
  <2>3. G(1)
    BY <2>1, <2>2
  <2> QED
    BY <1>2, <1>3, <2>3
<1>4. CASE m # 1
  <2>1. m - 1 \in 1 .. n /\ m \in 2 .. n
    BY <1>2, <1>4
  <2>0. m - 1 \notin S
    <3>1. ~(m <= m - 1)
      BY <2>1
    <3> QED
      BY <1>2, <3>1
  <2>2. PICK f \in [1 .. m - 1 -> Seq(T)] : Turns(f, ss, m - 1)
    BY <2>1, <2>0
  <2> DEFINE h == [i \in 1 .. m |-> IF i = m THEN f[m - 1] \o ss[m] ELSE f[i]]
  <2>3. h \in [1 .. m -> Seq(T)]
    <3>1. m - 1 \in 1 .. m - 1 /\ f[m - 1] \in Seq(T) /\ ss[m] \in Seq(T)
      BY <1>0, <2>1
    <3>2. f[m - 1] \o ss[m] \in Seq(T)
      BY <3>1, ConcatProperties
    <3>3. \A i \in 1 .. m : i # m => i \in 1 .. m - 1
      BY <2>1
    <3> QED
      BY <3>2, <3>3
  <2>4. ASSUME NEW i \in 1 .. m
        PROVE  h[i] = IF i = 1 THEN ss[i] ELSE h[i - 1] \o ss[i]
    <3>1. CASE i = m
      <4>1. m - 1 \in 1 .. m /\ m - 1 # m /\ h[m - 1] = f[m - 1]
        BY <2>1
      <4>2. m \in 1 .. m /\ m # 1
        BY <2>1
      <4>3. h[m] = f[m - 1] \o ss[m]
        BY <4>2
      <4> HIDE DEF h
      <4> QED
        BY <3>1, <4>1, <4>2, <4>3
    <3>2. CASE i # m
      <4>1. i \in 1 .. m - 1 /\ h[i] = f[i]
        BY <2>1, <3>2
      <4>2. i # 1 => i - 1 \in 1 .. m /\ i - 1 # m /\ h[i - 1] = f[i - 1]
        BY <2>1, <3>2
      <4> HIDE DEF h
      <4> QED
        BY <2>2, <4>1, <4>2 DEF Turns
    <3> QED
      BY <3>1, <3>2
  <2>5. G(m)
    BY <2>3, <2>4 DEF Turns
  <2> QED
    BY <1>2, <2>5
<1> QED
  BY <1>3, <1>4

LEMMA FlattenSame ==
  ASSUME NEW n \in Nat, NEW f, NEW g, NEW ss, NEW ts,
         Turns(f, ss, n), Turns(g, ts, n), Agree(ss, ts, n)
  PROVE  Agree(f, g, n)
<1> DEFINE S == {i \in 1 .. n : f[i] # g[i]}
<1>1. SUFFICES ASSUME S # {} PROVE FALSE
  BY DEF Agree
<1>2. PICK m \in S : \A b \in S : m <= b
  <2>1. S \in SUBSET Nat
    OBVIOUS
  <2> HIDE DEF S
  <2> QED
    BY <1>1, <2>1, LeastMember
<1>3. m \in 1 .. n /\ f[m] # g[m]
  BY <1>2
<1>4. CASE m = 1
  BY <1>3, <1>4 DEF Turns, Agree
<1>5. CASE m # 1
  <2>1. m - 1 \in 1 .. n /\ ~(m <= m - 1)
    BY <1>3, <1>5
  <2>2. f[m - 1] = g[m - 1]
    BY <1>2, <2>1
  <2>3. f[m] = f[m - 1] \o ss[m] /\ g[m] = g[m - 1] \o ts[m] /\ ss[m] = ts[m]
    BY <1>3, <1>5 DEF Turns, Agree
  <2> QED
    BY <1>3, <2>2, <2>3
<1> QED
  BY <1>4, <1>5

LEMMA TurnsFewer ==
  ASSUME NEW n \in Nat, NEW f, NEW ss, Turns(f, ss, n + 1)
  PROVE  Turns(f, ss, n)
<1>1. \A i \in 1 .. n : i \in 1 .. n + 1
  OBVIOUS
<1> QED
  BY <1>1, Zenon DEF Turns

LEMMA FlattenOf ==
  ASSUME NEW T, NEW ss \in Seq(Seq(T)), ss # <<>>
  PROVE  \E f \in [1 .. Len(ss) -> Seq(T)] :
           Turns(f, ss, Len(ss)) /\ FlattenSeq(ss) = f[Len(ss)]
<1>1. Len(ss) \in Nat /\ Len(ss) \in 1 .. Len(ss)
  BY EmptySeq
<1>2. PICK g \in [1 .. Len(ss) -> Seq(T)] : Turns(g, ss, Len(ss))
  BY <1>1, Flattening
<1>3. Flattens(g, ss)
  BY <1>2 DEF Flattens, Turns
<1> DEFINE F == CHOOSE f : Flattens(f, ss)
<1>4. Flattens(F, ss)
  BY <1>3
<1>5. FlattenSeq(ss) = F[Len(ss)]
  BY FlattenTurns
<1> HIDE DEF F
<1>6. Turns(F, ss, Len(ss))
  BY <1>4 DEF Flattens, Turns
<1>7. F[Len(ss)] = g[Len(ss)]
  <2>1. Agree(ss, ss, Len(ss))
    BY DEF Agree
  <2>2. Agree(F, g, Len(ss))
    BY <1>1, <1>2, <1>6, <2>1, FlattenSame
  <2> QED
    BY <1>1, <2>2 DEF Agree
<1> QED
  BY <1>2, <1>5, <1>7

LEMMA FlattenEmpty == FlattenSeq(<<>>) = <<>>
BY EmptySeq DEF FlattenSeq

LEMMA FlattenType ==
  ASSUME NEW T, NEW ss \in Seq(Seq(T))
  PROVE  FlattenSeq(ss) \in Seq(T)
<1>1. CASE ss = <<>>
  <2>1. <<>> \in Seq(T)
    BY EmptySeq
  <2> QED
    BY <1>1, <2>1, FlattenEmpty
<1>2. CASE ss # <<>>
  <2>1. Len(ss) \in 1 .. Len(ss)
    BY <1>2, EmptySeq
  <2> QED
    BY <1>2, <2>1, FlattenOf
<1> QED
  BY <1>1, <1>2

LEMMA FlattenAppend ==
  ASSUME NEW T, NEW ss \in Seq(Seq(T)), NEW s \in Seq(T)
  PROVE  FlattenSeq(Append(ss, s)) = FlattenSeq(ss) \o s
<1> DEFINE ts == Append(ss, s)
           n  == Len(ss)
<1>1. /\ ts \in Seq(Seq(T)) /\ Len(ts) = n + 1 /\ ts # <<>> /\ n \in Nat
      /\ ts[n + 1] = s /\ (\A i \in 1 .. n : ss[i] = ts[i]) /\ n = Len(ss)
  BY AppendProperties
<1> HIDE DEF ts, n
<1>2. PICK g \in [1 .. n + 1 -> Seq(T)] : Turns(g, ts, n + 1) /\ FlattenSeq(ts) = g[n + 1]
  BY <1>1, FlattenOf
<1>3. CASE ss = <<>>
  <2>0. n = 0
    BY <1>1, <1>3, EmptySeq
  <2>1. FlattenSeq(ts) = s
    BY <1>1, <1>2, <2>0 DEF Turns
  <2>2. <<>> \o s = s
    BY ConcatEmptySeq
  <2> QED
    BY <1>3, <2>1, <2>2, FlattenEmpty DEF ts
<1>4. CASE ss # <<>>
  <2>1. n \in 1 .. n /\ n + 1 # 1 /\ n + 1 \in 1 .. n + 1 /\ (n + 1) - 1 = n
    BY <1>1, <1>4, EmptySeq
  <2>2. PICK f \in [1 .. n -> Seq(T)] : Turns(f, ss, n) /\ FlattenSeq(ss) = f[n]
    BY <1>1, <1>4, FlattenOf
  <2>3. Turns(g, ts, n)
    BY <1>1, <1>2, TurnsFewer
  <2>4. f[n] = g[n]
    <3>1. Agree(ss, ts, n)
      BY <1>1 DEF Agree
    <3>2. Agree(f, g, n)
      BY <1>1, <2>2, <2>3, <3>1, FlattenSame
    <3> QED
      BY <2>1, <3>2 DEF Agree
  <2>5. g[n + 1] = g[n] \o s
    BY <1>1, <1>2, <2>1 DEF Turns
  <2> QED
    BY <1>2, <2>2, <2>4, <2>5 DEF ts
<1> QED
  BY <1>3, <1>4

LEMMA FlattenOneMore ==
  ASSUME NEW T, NEW ss \in Seq(Seq(T)), NEW fs \in Seq(Seq(T)), NEW t \in Seq(T),
         FlattenSeq(ss \o fs) = FlattenSeq(ss) \o FlattenSeq(fs)
  PROVE  FlattenSeq(ss \o Append(fs, t)) = FlattenSeq(ss) \o FlattenSeq(Append(fs, t))
<1>1. ss \o Append(fs, t) = Append(ss \o fs, t) /\ ss \o fs \in Seq(Seq(T))
  <2>1. <<t>> \in Seq(Seq(T))
    OBVIOUS
  <2>2. (ss \o fs) \o <<t>> = ss \o (fs \o <<t>>)
    BY <2>1, ConcatAssociative
  <2>3. ss \o fs \in Seq(Seq(T))
    BY ConcatProperties
  <2> QED
    BY <2>2, <2>3, AppendIsConcat
<1>2. FlattenSeq(Append(ss \o fs, t)) = (FlattenSeq(ss) \o FlattenSeq(fs)) \o t
  BY <1>1, FlattenAppend
<1>3. FlattenSeq(Append(fs, t)) = FlattenSeq(fs) \o t
  BY FlattenAppend
<1>4. PICK a \in Seq(T), b \in Seq(T) : a = FlattenSeq(ss) /\ b = FlattenSeq(fs)
  BY FlattenType
<1>5. (a \o b) \o t = a \o (b \o t)
  BY ConcatAssociative
<1> QED
  BY <1>1, <1>2, <1>3, <1>4, <1>5

LEMMA FlattenConcat ==
  ASSUME NEW T, NEW ss \in Seq(Seq(T)), NEW ts \in Seq(Seq(T))
  PROVE  FlattenSeq(ss \o ts) = FlattenSeq(ss) \o FlattenSeq(ts)
<1> DEFINE front(k) == SubSeq(ts, 1, k)
           S == {k \in 0 .. Len(ts) : FlattenSeq(ss \o front(k)) # FlattenSeq(ss) \o FlattenSeq(front(k))}
<1>1. Len(ts) \in Nat /\ \A k \in 1 .. Len(ts) : ts[k] \in Seq(T)
  OBVIOUS
<1>2. front(Len(ts)) = ts
  BY SubSeqFull
<1>3. SUFFICES ASSUME S # {} PROVE FALSE
  <2>1. Len(ts) \in 0 .. Len(ts)
    BY <1>1
  <2> HIDE DEF front
  <2> QED
    BY <1>2, <2>1
<1>4. PICK k \in S : \A b \in S : k <= b
  <2>1. S \in SUBSET Nat
    OBVIOUS
  <2> HIDE DEF S
  <2> QED
    BY <1>3, <2>1, LeastMember
<1>5. k \in 0 .. Len(ts) /\ FlattenSeq(ss \o front(k)) # FlattenSeq(ss) \o FlattenSeq(front(k))
  BY <1>4
<1>6. CASE k = 0
  <2>1. front(0) = <<>>
    BY <1>1, SubSeqEmpty
  <2>2. ss \o <<>> = ss /\ FlattenSeq(ss) \o <<>> = FlattenSeq(ss)
    BY ConcatEmptySeq, FlattenType
  <2> QED
    BY <1>5, <1>6, <2>1, <2>2, FlattenEmpty
<1>7. CASE k # 0
  <2>1. k - 1 \in 0 .. Len(ts) /\ ~(k <= k - 1) /\ k \in 1 .. Len(ts) /\ k - 1 + 1 = k
    BY <1>1, <1>5, <1>7
  <2>2. FlattenSeq(ss \o front(k - 1)) = FlattenSeq(ss) \o FlattenSeq(front(k - 1))
    BY <1>4, <2>1
  <2>3. front(k) = Append(front(k - 1), ts[k]) /\ front(k - 1) \in Seq(Seq(T))
    BY <1>1, <2>1, SubSeqRecursiveSecond, SubSeqProperties
  <2> HIDE DEF front, S
  <2>4. ts[k] \in Seq(T)
    BY <1>1, <2>1
  <2> QED
    BY <1>5, <2>2, <2>3, <2>4, FlattenOneMore
<1> QED
  BY <1>6, <1>7

-----------------------------------------------------------------------------
(* Where the parts of what is put together are in it.                      *)

(* f has a behind its first n members.                                     *)
Carries(f, n, a) == n + Len(a) <= Len(f) /\ \A h \in 1 .. Len(a) : f[n + h] = a[h]

LEMMA ConcatCarries ==
  ASSUME NEW T, NEW a \in Seq(T), NEW b \in Seq(T), NEW c \in Seq(T)
  PROVE  Carries((a \o b) \o c, Len(a), b)
<1>1. PICK d \in Seq(T) : d = a \o b
  BY ConcatProperties
<1>2. PICK f \in Seq(T) : f = d \o c
  BY ConcatProperties
<1>3. PICK l \in Nat, m \in Nat, n \in Nat : l = Len(a) /\ m = Len(b) /\ n = Len(c)
  OBVIOUS
<1>4. Len(d) = l + m /\ \A h \in 1 .. l + m : d[h] = IF h <= l THEN a[h] ELSE b[h - l]
  BY <1>1, <1>3, ConcatProperties
<1>5. Len(f) = l + m + n /\ \A h \in 1 .. l + m + n : h <= l + m => f[h] = d[h]
  <2>1. /\ Len(f) = Len(d) + Len(c)
        /\ \A h \in 1 .. Len(d) + Len(c) : f[h] = IF h <= Len(d) THEN d[h] ELSE c[h - Len(d)]
    BY <1>2, ConcatProperties
  <2>2. Len(d) + Len(c) = l + m + n /\ Len(d) = l + m
    BY <1>3, <1>4
  <2> QED
    BY <2>1, <2>2
<1>6. ASSUME NEW h \in 1 .. m
      PROVE  f[l + h] = b[h]
  <2>1. l + h \in 1 .. l + m /\ l + h \in 1 .. l + m + n /\ l + h <= l + m /\ ~(l + h <= l) /\ (l + h) - l = h
    OBVIOUS
  <2> QED
    BY <1>4, <1>5, <2>1
<1>7. Carries(f, l, b)
  BY <1>3, <1>5, <1>6 DEF Carries
<1> QED
  BY <1>1, <1>2, <1>3, <1>7

LEMMA FlatTo ==
  ASSUME NEW T, NEW n \in Nat, NEW g, \A k \in 1 .. n + 1 : g[k] \in Seq(T)
  PROVE  FlattenSeq([k \in 1 .. n + 1 |-> g[k]]) = FlattenSeq([k \in 1 .. n |-> g[k]]) \o g[n + 1]
<1> DEFINE B  == Seq(T)
           ss == [k \in 1 .. n |-> g[k]]
           ts == [k \in 1 .. n + 1 |-> g[k]]
<1>1. g[n + 1] \in B /\ \A k \in 1 .. n : g[k] \in B
  OBVIOUS
<1>2. ss \in Seq(B) /\ Len(ss) = n
  <2> HIDE DEF B
  <2> QED
    BY <1>1
<1>3. ts = Append(ss, g[n + 1])
  <2>1. ts \in Seq(B) /\ Len(ts) = n + 1
    <3> HIDE DEF B
    <3>1. \A k \in 1 .. n + 1 : g[k] \in B
      BY DEF B
    <3> QED
      BY <3>1
  <2>2. /\ Append(ss, g[n + 1]) \in Seq(B) /\ Len(Append(ss, g[n + 1])) = Len(ss) + 1
        /\ \A h \in DOMAIN Append(ss, g[n + 1]) :
             Append(ss, g[n + 1])[h] = IF h = Len(ss) + 1 THEN g[n + 1] ELSE ss[h]
    BY <1>1, <1>2, AppendType
  <2>3. PICK a \in Seq(B) : a = Append(ss, g[n + 1])
    BY <2>2
  <2>4. Len(a) = n + 1 /\ DOMAIN a = 1 .. n + 1 /\ DOMAIN ts = 1 .. n + 1
    BY <1>2, <2>2, <2>3
  <2>5. \A h \in 1 .. n + 1 : a[h] = ts[h]
    <3> SUFFICES ASSUME NEW h \in 1 .. n + 1 PROVE a[h] = ts[h]
      OBVIOUS
    <3>1. a[h] = IF h = n + 1 THEN g[n + 1] ELSE ss[h]
      BY <1>2, <2>2, <2>3, <2>4
    <3>2. ts[h] = g[h] /\ (h # n + 1 => ss[h] = g[h])
      OBVIOUS
    <3> QED
      BY <3>1, <3>2
  <2> HIDE DEF B, ss, ts
  <2>6. a = ts
    BY <2>1, <2>3, <2>4, <2>5, SeqEqual
  <2> QED
    BY <2>3, <2>6
<1> HIDE DEF ss, ts
<1>4. FlattenSeq(Append(ss, g[n + 1])) = FlattenSeq(ss) \o g[n + 1]
  BY <1>1, <1>2, FlattenAppend
<1> QED
  BY <1>3, <1>4 DEF ss, ts

(* What is put together has each of its parts behind those in front of it. *)
LEMMA FlatCarries ==
  ASSUME NEW T, NEW n \in Nat, NEW g, \A k \in 1 .. n : g[k] \in Seq(T), NEW m \in 1 .. n
  PROVE  Carries(FlattenSeq([k \in 1 .. n |-> g[k]]), Len(FlattenSeq([k \in 1 .. m - 1 |-> g[k]])), g[m])
<1> DEFINE B     == Seq(T)
           ss    == [k \in 1 .. n |-> g[k]]
           front == [k \in 1 .. m |-> g[k]]
           rest  == [k \in 1 .. n - m |-> g[m + k]]
           less  == [k \in 1 .. m - 1 |-> g[k]]
<1>1. PICK p \in Nat : p = m - 1 /\ m = p + 1
  OBVIOUS
<1>2. /\ \A k \in 1 .. n : g[k] \in B
      /\ \A k \in 1 .. m : g[k] \in B
      /\ \A k \in 1 .. n - m : g[m + k] \in B
      /\ \A k \in 1 .. p : g[k] \in B
  BY <1>1
<1>3. ss \in Seq(B) /\ front \in Seq(B) /\ rest \in Seq(B) /\ less \in Seq(B)
      /\ Len(ss) = n /\ Len(front) = m /\ Len(rest) = n - m
  <2> HIDE DEF B
  <2> QED
    BY <1>1, <1>2
<1>4. ss = front \o rest
  <2>1. PICK c \in Seq(B) : c = front \o rest
    <3> HIDE DEF B, front, rest
    <3> QED
      BY <1>3, ConcatProperties
  <2>2. Len(c) = n /\ \A h \in 1 .. n : c[h] = IF h <= m THEN front[h] ELSE rest[h - m]
    <3> HIDE DEF B, front, rest
    <3>1. /\ Len(c) = Len(front) + Len(rest)
          /\ \A h \in 1 .. Len(front) + Len(rest) :
               c[h] = IF h <= Len(front) THEN front[h] ELSE rest[h - Len(front)]
      BY <1>3, <2>1, ConcatProperties
    <3>2. Len(front) + Len(rest) = n /\ Len(front) = m
      BY <1>3
    <3> QED
      BY <3>1, <3>2
  <2>3. ASSUME NEW h \in 1 .. n
        PROVE  c[h] = ss[h]
    <3>1. CASE h <= m
      <4>1. h \in 1 .. m
        BY <3>1
      <4> QED
        BY <2>2, <3>1, <4>1
    <3>2. CASE ~(h <= m)
      <4>1. h - m \in 1 .. n - m /\ m + (h - m) = h
        BY <3>2
      <4>2. rest[h - m] = g[h]
        BY <4>1
      <4> QED
        BY <2>2, <3>2, <4>2
    <3> QED
      BY <3>1, <3>2
  <2> HIDE DEF B, front, rest, ss
  <2> QED
    BY <1>3, <2>1, <2>2, <2>3, SeqEqual
<1>5. FlattenSeq(front) = FlattenSeq(less) \o g[m]
  <2>1. \A k \in 1 .. p + 1 : g[k] \in Seq(T)
    BY <1>1
  <2>2. FlattenSeq([k \in 1 .. p + 1 |-> g[k]]) = FlattenSeq([k \in 1 .. p |-> g[k]]) \o g[p + 1]
    BY <2>1, FlatTo
  <2> QED
    BY <1>1, <2>2
<1> HIDE DEF ss, front, rest, less
<1>6. FlattenSeq(ss) = FlattenSeq(front) \o FlattenSeq(rest)
  BY <1>3, <1>4, FlattenConcat
<1>7. FlattenSeq(less) \in Seq(T) /\ FlattenSeq(rest) \in Seq(T) /\ g[m] \in Seq(T)
  BY <1>3, FlattenType
<1>8. Carries(FlattenSeq(ss), Len(FlattenSeq(less)), g[m])
  BY <1>5, <1>6, <1>7, ConcatCarries
<1> QED
  BY <1>8 DEF ss, less
(* How much of what is put together is in front of part k.                 *)
Preceding(g, k) == Len(FlattenSeq([i \in 1 .. k - 1 |-> g[i]]))

(* The parts of what is put together are in it one behind the other.       *)
LEMMA FlatPlaces ==
  ASSUME NEW T, NEW n \in Nat, NEW g, \A k \in 1 .. n : g[k] \in Seq(T)
  PROVE  /\ Preceding(g, 1) = 0
         /\ \A k \in 1 .. n + 1 : Preceding(g, k) \in Nat
         /\ \A k \in 1 .. n : /\ Preceding(g, k + 1) = Preceding(g, k) + Len(g[k])
                              /\ Carries(FlattenSeq([i \in 1 .. n |-> g[i]]), Preceding(g, k), g[k])
         /\ Preceding(g, n + 1) = Len(FlattenSeq([i \in 1 .. n |-> g[i]]))
         /\ FlattenSeq([i \in 1 .. n |-> g[i]]) \in Seq(T)
<1> DEFINE B    == Seq(T)
           f(k) == [i \in 1 .. k |-> g[i]]
<1>1. ASSUME NEW k \in 0 .. n
      PROVE  f(k) \in Seq(B) /\ FlattenSeq(f(k)) \in Seq(T) /\ Len(FlattenSeq(f(k))) \in Nat
  <2>1. \A i \in 1 .. k : g[i] \in B
    OBVIOUS
  <2>2. f(k) \in Seq(B)
    <3> HIDE DEF B
    <3> QED
      BY <2>1
  <2> HIDE DEF f
  <2>3. FlattenSeq(f(k)) \in Seq(T)
    BY <2>2, FlattenType
  <2> QED
    BY <2>2, <2>3
<1>2. f(0) = <<>>
  OBVIOUS
<1>3. \A k : Preceding(g, k) = Len(FlattenSeq(f(k - 1)))
  BY DEF Preceding
<1>4. Preceding(g, 1) = 0
  <2>1. Preceding(g, 1) = Len(FlattenSeq(f(0)))
    <3>1. 1 - 1 = 0
      OBVIOUS
    <3> HIDE DEF f
    <3> QED
      BY <1>3, <3>1
  <2> QED
    BY <1>2, <2>1, FlattenEmpty
<1>5. ASSUME NEW k \in 1 .. n + 1
      PROVE  Preceding(g, k) \in Nat
  <2>1. k - 1 \in 0 .. n
    OBVIOUS
  <2> HIDE DEF f
  <2> QED
    BY <1>1, <1>3, <2>1
<1>6. ASSUME NEW k \in 1 .. n
      PROVE  Preceding(g, k + 1) = Preceding(g, k) + Len(g[k])
  <2>1. PICK m \in Nat : k = m + 1
    <3>1. k - 1 \in Nat /\ k = (k - 1) + 1
      OBVIOUS
    <3> QED
      BY <3>1
  <2>2. \A i \in 1 .. m + 1 : g[i] \in Seq(T)
    BY <2>1
  <2>3. FlattenSeq(f(m + 1)) = FlattenSeq(f(m)) \o g[m + 1]
    BY <2>2, FlatTo
  <2>4. m \in 0 .. n /\ m + 1 \in 1 .. n /\ (k + 1) - 1 = m + 1 /\ k - 1 = m
    BY <2>1
  <2> HIDE DEF f
  <2>5. PICK a \in Seq(T), b \in Seq(T) : a = FlattenSeq(f(m)) /\ b = g[m + 1]
    BY <1>1, <2>4
  <2>6. Len(a \o b) = Len(a) + Len(b)
    BY ConcatProperties
  <2>7. Preceding(g, k + 1) = Len(FlattenSeq(f(m + 1))) /\ Preceding(g, k) = Len(FlattenSeq(f(m)))
    BY <1>3, <2>4
  <2> QED
    BY <2>1, <2>3, <2>5, <2>6, <2>7
<1>7. ASSUME NEW k \in 1 .. n
      PROVE  Carries(FlattenSeq(f(n)), Preceding(g, k), g[k])
  BY FlatCarries DEF Preceding
<1>8. Preceding(g, n + 1) = Len(FlattenSeq(f(n)))
  <2>1. (n + 1) - 1 = n
    OBVIOUS
  <2> QED
    BY <1>3, <2>1
<1>9. FlattenSeq(f(n)) \in Seq(T)
  <2>1. n \in 0 .. n
    OBVIOUS
  <2> HIDE DEF f
  <2> QED
    BY <1>1, <2>1
<1> QED
  BY <1>4, <1>5, <1>6, <1>7, <1>8, <1>9

LEMMA CarriesThrough ==
  ASSUME NEW f, NEW n \in Nat, NEW m \in Nat, NEW a, NEW b, Len(a) \in Nat, Len(b) \in Nat,
         Len(f) \in Nat, Carries(f, n, a), Carries(a, m, b)
  PROVE  Carries(f, n + m, b)
<1>1. PICK l \in Nat, z \in Nat : l = Len(a) /\ z = Len(b)
  OBVIOUS
<1>2. n + l <= Len(f) /\ \A h \in 1 .. l : f[n + h] = a[h]
  BY <1>1 DEF Carries
<1>3. m + z <= l /\ \A h \in 1 .. z : a[m + h] = b[h]
  BY <1>1 DEF Carries
<1>4. ASSUME NEW h \in 1 .. z
      PROVE  f[(n + m) + h] = b[h]
  <2>1. m + h \in 1 .. l /\ n + (m + h) = (n + m) + h
    BY <1>3
  <2>2. f[n + (m + h)] = a[m + h]
    BY <1>2, <2>1
  <2> QED
    BY <1>3, <2>1, <2>2
<1>5. (n + m) + z <= Len(f)
  BY <1>2, <1>3
<1> QED
  BY <1>1, <1>4, <1>5 DEF Carries
=============================================================================
